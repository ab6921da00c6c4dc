--------------------------- MODULE DbExplorerProofs ---------------------------
(***************************************************************************)
(* Proofs about DbExplorer, for any schema, rows and requests, whatever is *)
(* read of the schema and whatever the database makes of names that were   *)
(* not read, and for any finite number of clients: a statement whose names *)
(* were read writes one row, the one that its request gives; its answer    *)
(* says what it did, unless the database failed; a list shows the rows of  *)
(* one moment; rows stay open after a failed Scan or a panic only.         *)
(***************************************************************************)
EXTENDS DbExplorer, FunctionTheorems, FiniteSetTheorems, SequenceTheorems, TLAPS

(* What is known of a table: its first columns.                             *)
ModelInv ==
  /\ phase \in {"starting", "serving", "failed"}
  /\ DOMAIN model \subseteq Tables
  /\ \A t \in DOMAIN model : \E n \in 0 .. Len(Schema[t]) :
       model[t] = [i \in 1 .. n |-> FieldOf(Schema[t][i])]

(* A statement is sent for a request that passed the checks of its handler. *)
RequestInv ==
  /\ pc \in [Clients -> {"idle", "execute", "scan", "answered"}]
  /\ req \in [Clients -> Requests \cup {NoRequest}]
  /\ DOMAIN answer = Clients /\ DOMAIN failed = Clients
  /\ \A c \in Clients : pc[c] = "execute" =>
       phase = "serving" /\ req[c] \in Requests /\ HasStatement(req[c])

RowsInv == IsDatabase(db)

Scanning == {c \in Clients : pc[c] = "scan"}
HeldInv ==
  /\ left \in Nat
  /\ held = Cardinality(Scanning) + left

IInv ==
  /\ ModelInv
  /\ RequestInv
  /\ RowsInv
  /\ HeldInv

-----------------------------------------------------------------------------
(* The primary key is a column, with a name of its own.                     *)
LEMMA KeyFact ==
  ASSUME NEW t \in Tables
  PROVE  /\ Key(t) \in DOMAIN Schema[t]
         /\ Schema[t][Key(t)].Key = "PRI"
         /\ Schema[t][Key(t)].Extra = "auto_increment"
         /\ KeyName(t) \in Columns(t)
         /\ \A i \in DOMAIN Schema[t] :
              Schema[t][i].Name = KeyName(t) \/ Schema[t][i].Key = "PRI" => i = Key(t)
<1>1. \E i \in DOMAIN Schema[t] : Schema[t][i].Key = "PRI"
  BY SchemaAssumption
<1>2. Key(t) \in DOMAIN Schema[t] /\ Schema[t][Key(t)].Key = "PRI"
  BY <1>1 DEF Key
<1>3. KeyName(t) \in Columns(t)
  BY <1>2 DEF KeyName, Columns
<1>4. \A i \in DOMAIN Schema[t] : Schema[t][i].Name = KeyName(t) => i = Key(t)
  BY <1>2, SchemaAssumption DEF KeyName
<1> QED
  BY <1>2, <1>3, <1>4, SchemaAssumption

(* An element of a sequence.                                                *)
LEMMA SeqElement ==
  ASSUME NEW S, NEW s \in Seq(S), NEW i \in DOMAIN s
  PROVE  i \in Nat /\ s[i] \in S
OBVIOUS

(* The columns of a table are records.                                      *)
LEMMA ColumnFact ==
  ASSUME NEW t \in Tables, NEW i \in DOMAIN Schema[t]
  PROVE  /\ FieldOf(Schema[t][i]).Name = Schema[t][i].Name
         /\ FieldOf(Schema[t][i]).Type = Schema[t][i].Type
         /\ FieldOf(Schema[t][i]).Null = Schema[t][i].Null
         /\ FieldOf(Schema[t][i]).Key = Schema[t][i].Key
         /\ FieldOf(Schema[t][i]).Extra = Schema[t][i].Extra
<1>1. Schema[t][i] \in [Name : STRING, Type : STRING, Null : STRING, Key : STRING,
                        Default : STRING \cup {Null}, Extra : STRING]
  <2> DEFINE Record == [Name : STRING, Type : STRING, Null : STRING, Key : STRING,
                        Default : STRING \cup {Null}, Extra : STRING]
  <2>1. Schema[t] \in Seq(Record)
    BY SchemaAssumption
  <2> HIDE DEF Record
  <2>2. Schema[t][i] \in Record
    BY <2>1, SeqElement
  <2> QED
    BY <2>2 DEF Record
<1> QED
  BY <1>1 DEF FieldOf

(* What the handlers know of a table: some of its columns, and perhaps its  *)
(* key.                                                                     *)
KnownKey(t) == PrimaryKey(t) = KeyName(t)
LEMMA FieldFacts ==
  ASSUME ModelInv, NEW t \in Tables
  PROVE  /\ \A f \in FieldSet(t) : \E i \in DOMAIN Schema[t] : f = FieldOf(Schema[t][i])
         /\ PrimaryKey(t) = "" \/ KnownKey(t)
<1> DEFINE keys == {i \in DOMAIN Fields(t) : Fields(t)[i].Key = "PRI"}
           Record == [Name : STRING, Type : STRING, Null : STRING, Key : STRING,
                      Default : STRING \cup {Null}, Extra : STRING]
<1>1. Schema[t] \in Seq(Record)
  BY SchemaAssumption
<1> HIDE DEF Record
<1>2. DOMAIN Schema[t] = 1 .. Len(Schema[t]) /\ Len(Schema[t]) \in Nat
  BY <1>1, LenProperties
<1>3. /\ DOMAIN Fields(t) \subseteq DOMAIN Schema[t]
      /\ \A i \in DOMAIN Fields(t) : Fields(t)[i] = FieldOf(Schema[t][i])
  <2>1. CASE t \in DOMAIN model
    <3>1. PICK n \in 0 .. Len(Schema[t]) : model[t] = [i \in 1 .. n |-> FieldOf(Schema[t][i])]
      BY <2>1 DEF ModelInv
    <3>2. 1 .. n \subseteq 1 .. Len(Schema[t])
      BY <1>2
    <3> QED
      BY <1>2, <2>1, <3>1, <3>2 DEF Fields
  <2>2. CASE t \notin DOMAIN model
    BY <2>2 DEF Fields
  <2> QED
    BY <2>1, <2>2
<1>4. \A f \in FieldSet(t) : \E i \in DOMAIN Schema[t] : f = FieldOf(Schema[t][i])
  BY <1>3 DEF FieldSet
<1>5. keys \subseteq {Key(t)}
  BY <1>3, KeyFact, ColumnFact
<1>6. Key(t) \in Int
  BY <1>2, KeyFact
<1>7. First({Key(t)}) = Key(t)
  BY <1>6 DEF First
<1>8. PrimaryKey(t) = IF keys = {} THEN "" ELSE Fields(t)[First(keys)].Name
  BY Zenon DEF PrimaryKey
<1>9. keys # {} => keys = {Key(t)} /\ Key(t) \in DOMAIN Fields(t)
  BY <1>5
<1> HIDE DEF keys
<1>10. ASSUME keys # {} PROVE Fields(t)[First(keys)].Name = KeyName(t)
  <2>1. First(keys) = Key(t)
    BY <1>7, <1>9, <1>10
  <2>2. Fields(t)[Key(t)] = FieldOf(Schema[t][Key(t)])
    BY <1>3, <1>9, <1>10
  <2>3. FieldOf(Schema[t][Key(t)]).Name = KeyName(t)
    BY KeyFact, ColumnFact DEF KeyName
  <2> QED
    BY <2>1, <2>2, <2>3
<1>11. PrimaryKey(t) = "" \/ KnownKey(t)
  BY <1>8, <1>10, Zenon DEF KnownKey
<1> QED
  BY <1>4, <1>11, Zenon

(* A field has the name of one column, and no other field has it.           *)
LEMMA FieldNames ==
  ASSUME ModelInv, NEW t \in Tables, NEW f \in FieldSet(t)
  PROVE  /\ f.Name \in Columns(t)
         /\ \A g \in FieldSet(t) : g.Name = f.Name => g = f
         /\ f.Name = KeyName(t) \/ f.Key = "PRI" => f.Name = KeyName(t) /\ f.Key = "PRI"
<1>1. PICK i \in DOMAIN Schema[t] : f = FieldOf(Schema[t][i])
  BY FieldFacts
<1>2. ASSUME NEW g \in FieldSet(t), g.Name = f.Name PROVE g = f
  <2>1. PICK k \in DOMAIN Schema[t] : g = FieldOf(Schema[t][k])
    BY FieldFacts
  <2>2. Schema[t][k].Name = Schema[t][i].Name
    BY <1>1, <1>2, <2>1, ColumnFact
  <2> QED
    BY <1>1, <2>1, <2>2, SchemaAssumption
<1>3. f.Name = Schema[t][i].Name /\ f.Key = Schema[t][i].Key
  BY <1>1, ColumnFact
<1> QED
  BY <1>2, <1>3, KeyFact DEF Columns, KeyName

-----------------------------------------------------------------------------
(* The actions of a client: those that send a statement, and those that     *)
(* read what a list selected.                                               *)
Writes(c) == CreateEntry(c) \/ UpdateEntry(c) \/ DeleteEntry(c)
Statement(c) == GetEntry(c) \/ Writes(c) \/ ListQuery(c)
Reading(c) ==
  ListScan(c) \/ ListScanPanics(c) \/ ListScanFails(c) \/ ListEnd(c) \/ ListLost(c)

(* The invariant holds before the schema is read.                           *)
LEMMA InitInv == Init => IInv
<1> SUFFICES ASSUME Init PROVE IInv
  OBVIOUS
<1>1. ModelInv
  BY DEF Init, ModelInv
<1>2. RequestInv
  BY DEF Init, RequestInv
<1>3. RowsInv
  BY RowsAssumption DEF Init, RowsInv
<1>4. HeldInv
  <2>1. Scanning = {}
    BY DEF Init, Scanning
  <2> QED
    BY <2>1, FS_EmptySet DEF Init, HeldInv
<1> QED
  BY <1>1, <1>2, <1>3, <1>4 DEF IInv

(* What is read of the schema is kept.                                      *)
LEMMA ModelStep == IInv /\ [Next]_vars => ModelInv'
<1> SUFFICES ASSUME IInv, [Next]_vars PROVE ModelInv'
  OBVIOUS
<1>1. CASE UNCHANGED <<model, phase>>
  BY <1>1 DEF IInv, ModelInv
<1>2. CASE NewDbExplorer
  <2>1. CASE phase' = "failed" /\ UNCHANGED model
    BY <2>1 DEF IInv, ModelInv
  <2>2. CASE phase' = "serving" /\ \E n \in Reads :
               model' = [t \in DOMAIN n |-> [i \in 1 .. n[t] |-> FieldOf(Schema[t][i])]]
    BY <2>2, ReadsAssumption DEF ModelInv
  <2> QED
    BY <1>2, <2>1, <2>2 DEF NewDbExplorer
<1>3. ASSUME NEW c \in Clients, Receive(c) \/ Finish(c) \/ Statement(c) \/ Reading(c)
      PROVE  UNCHANGED <<model, phase>>
  BY <1>3 DEF Receive, Finish, Statement, Writes, GetEntry, CreateEntry, UpdateEntry, DeleteEntry,
              ListQuery, Reading, ListScan, ListScanPanics, ListScanFails, ListEnd, ListLost
<1> QED
  BY <1>1, <1>2, <1>3 DEF Next, Statement, Writes, Reading, vars

(* The checks of a request depend on the schema alone.                      *)
LEMMA SameChecks ==
  ASSUME UNCHANGED model
  PROVE  /\ \A t : FieldSet(t)' = FieldSet(t) /\ PrimaryKey(t)' = PrimaryKey(t)
         /\ \A r : HasStatement(r)' <=> HasStatement(r)
<1>1. \A t : Fields(t)' = Fields(t)
  BY DEF Fields
<1>2. \A t : FieldSet(t)' = FieldSet(t)
  BY <1>1 DEF FieldSet
<1>3. \A t : PrimaryKey(t)' = PrimaryKey(t)
  BY <1>1 DEF PrimaryKey
<1>4. \A p : Route(p)' = Route(p)
  BY DEF Route, Names
<1>5. \A r : TableOf(r)' = TableOf(r)
  BY <1>4 DEF TableOf
<1>6. \A t, b : CreateRefused(t, b)' <=> CreateRefused(t, b)
  BY <1>2 DEF CreateRefused
<1>7. \A t, b : UpdateRefused(t, b)' <=> UpdateRefused(t, b)
  BY <1>2 DEF UpdateRefused
<1>8. \A t, b : Filled(t, b)' = Filled(t, b)
  BY <1>2 DEF Filled
<1>9. \A r : HasStatement(r)' <=> HasStatement(r)
  BY <1>4, <1>5, <1>6, <1>7, <1>8 DEF HasStatement
<1> QED
  BY <1>2, <1>3, <1>9

(* A reply is an answer to the client, and no other gets one.               *)
LEMMA Replies ==
  ASSUME NEW c \in Clients, Writes(c)
  PROVE  \E a : Reply(c, a)
BY DEF Writes, CreateEntry, UpdateEntry, DeleteEntry, OtherStatement, Fails, Returns

LEMMA KeepsFailed ==
  ASSUME NEW c \in Clients, DOMAIN failed = Clients, Statement(c) \/ Reading(c)
  PROVE  DOMAIN failed' = Clients
BY DEF Statement, Writes, GetEntry, CreateEntry, UpdateEntry, DeleteEntry, ListQuery, OtherStatement,
       Fails, Returns, Reading, ListScan, ListScanPanics, ListScanFails, ListEnd, ListLost

(* Only Receive brings a client to its statement.                           *)
LEMMA RequestStep == IInv /\ [Next]_vars => RequestInv'
<1> SUFFICES ASSUME IInv, [Next]_vars PROVE RequestInv'
  OBVIOUS
<1> USE DEF IInv, RequestInv
<1>1. CASE NewDbExplorer
  <2>1. phase # "serving" /\ UNCHANGED <<pc, req, answer, failed>>
    BY <1>1 DEF NewDbExplorer
  <2> QED
    BY <2>1
<1>2. ASSUME NEW c \in Clients, Receive(c)
      PROVE  RequestInv'
  <2>1. PICK r \in Requests :
          /\ req' = [req EXCEPT ![c] = r]
          /\ IF HasStatement(r) THEN pc' = [pc EXCEPT ![c] = "execute"] /\ UNCHANGED answer
             ELSE Reply(c, EarlyAnswer(r))
    BY <1>2 DEF Receive
  <2>2. phase = "serving" /\ UNCHANGED <<phase, model, failed>>
    BY <1>2 DEF Receive
  <2>3. \A q : HasStatement(q)' <=> HasStatement(q)
    BY <2>2, SameChecks
  <2> QED
    BY <2>1, <2>2, <2>3 DEF Reply
<1>3. ASSUME NEW c \in Clients, Statement(c) \/ Reading(c)
      PROVE  RequestInv'
  <2>1. UNCHANGED <<model, phase, req>>
    BY <1>3 DEF Statement, Writes, GetEntry, CreateEntry, UpdateEntry, DeleteEntry, ListQuery,
                Reading, ListScan, ListScanPanics, ListScanFails, ListEnd, ListLost
  <2>2. \/ pc' = [pc EXCEPT ![c] = "scan"] /\ UNCHANGED answer
        \/ UNCHANGED <<pc, answer>>
        \/ \E a : Reply(c, a)
    BY <1>3, Replies DEF Statement, GetEntry, ListQuery, Fails,
                Reading, ListScan, ListScanPanics, ListScanFails, ListEnd, ListLost
  <2>3. \/ pc' = pc
        \/ pc' = [pc EXCEPT ![c] = "scan"]
        \/ pc' = [pc EXCEPT ![c] = "answered"]
    BY <2>2 DEF Reply
  <2>4. DOMAIN answer' = Clients
    BY <2>2 DEF Reply
  <2>5. DOMAIN failed' = Clients
    BY <1>3, KeepsFailed
  <2>6. \A r : HasStatement(r)' <=> HasStatement(r)
    BY <2>1, SameChecks
  <2> QED
    BY <2>1, <2>3, <2>4, <2>5, <2>6
<1>4. ASSUME NEW c \in Clients, Finish(c)
      PROVE  RequestInv'
  <2>1. UNCHANGED <<model, phase>>
    BY <1>4 DEF Finish
  <2> QED
    BY <1>4, <2>1, SameChecks DEF Finish
<1>5. CASE UNCHANGED vars
  BY <1>5, SameChecks DEF vars
<1> QED
  BY <1>1, <1>2, <1>3, <1>4, <1>5 DEF Next, Statement, Writes, Reading

(* Rows are open for the lists that are being read and for those that ended *)
(* without closing them.                                                    *)
LEMMA HeldStep == IInv /\ [Next]_vars => HeldInv'
<1> SUFFICES ASSUME IInv, [Next]_vars PROVE HeldInv'
  OBVIOUS
<1> USE DEF IInv, HeldInv
<1>1. IsFiniteSet(Scanning)
  BY ValuesAssumption, FS_Subset DEF Scanning
<1>2. pc \in [Clients -> {"idle", "execute", "scan", "answered"}]
  BY DEF RequestInv
<1>3. Cardinality(Scanning) \in Nat
  BY <1>1, FS_CardinalityType
<1>4. CASE UNCHANGED <<held, left, pc>>
  BY <1>4 DEF Scanning
<1>5. ASSUME NEW c \in Clients, pc[c] # "scan", NEW place \in {"idle", "execute", "answered"},
             pc' = [pc EXCEPT ![c] = place], UNCHANGED <<held, left>>
      PROVE  HeldInv'
  <2>1. Scanning' = Scanning
    BY <1>2, <1>5 DEF Scanning
  <2> QED
    BY <1>5, <2>1
<1>6. ASSUME NEW c \in Clients, Receive(c) \/ Finish(c) \/ GetEntry(c) \/ Writes(c)
      PROVE  HeldInv'
  <2>1. pc[c] # "scan" /\ UNCHANGED <<held, left>>
    BY <1>6 DEF Receive, Finish, GetEntry, Writes, CreateEntry, UpdateEntry, DeleteEntry, Sends, listVars
  <2>2. \E place \in {"idle", "execute", "answered"} : pc' = [pc EXCEPT ![c] = place]
    BY <1>6, Replies DEF Receive, Finish, GetEntry, Reply, Fails
  <2> QED
    BY <1>5, <2>1, <2>2
<1>7. ASSUME NEW c \in Clients, ListQuery(c)
      PROVE  HeldInv'
  <2>1. pc[c] = "execute"
    BY <1>7 DEF ListQuery, Sends
  <2>2. CASE Fails(c, ServerError) /\ UNCHANGED listVars
    BY <1>5, <2>1, <2>2 DEF Fails, Reply, listVars
  <2>3. CASE pc' = [pc EXCEPT ![c] = "scan"] /\ held' = held + 1 /\ UNCHANGED left
    <3>1. Scanning' = Scanning \cup {c} /\ c \notin Scanning
      BY <1>2, <2>1, <2>3 DEF Scanning
    <3>2. Cardinality(Scanning') = Cardinality(Scanning) + 1
      BY <1>1, <3>1, FS_AddElement
    <3> QED
      BY <1>3, <2>3, <3>2
  <2> QED
    BY <1>7, <2>2, <2>3 DEF ListQuery
<1>8. ASSUME NEW c \in Clients, pc[c] = "scan", pc' = [pc EXCEPT ![c] = "answered"],
             held' + left = held + left' - 1, left' \in Nat, held' \in Int
      PROVE  HeldInv'
  <2>1. Scanning' = Scanning \ {c} /\ c \in Scanning
    BY <1>2, <1>8 DEF Scanning
  <2>2. Cardinality(Scanning') = Cardinality(Scanning) - 1
    BY <1>1, <2>1, FS_RemoveElement
  <2> QED
    BY <1>3, <1>8, <2>2
<1>9. ASSUME NEW c \in Clients, ListScanPanics(c) \/ ListScanFails(c) \/ ListEnd(c) \/ ListLost(c)
      PROVE  HeldInv'
  <2>1. pc[c] = "scan" /\ pc' = [pc EXCEPT ![c] = "answered"]
    BY <1>9 DEF ListScanPanics, ListScanFails, ListEnd, ListLost, Fails, Reply
  <2>2. \/ left' = left + 1 /\ held' = held
        \/ left' = left /\ held' = held - 1
    BY <1>9 DEF ListScanPanics, ListScanFails, ListEnd, ListLost
  <2>3. held \in Int /\ left \in Nat
    BY <1>3
  <2>4. /\ held' + left = held + left' - 1
        /\ left' \in Nat
        /\ held' \in Int
    BY <2>2, <2>3
  <2> QED
    BY <1>8, <2>1, <2>4
<1> QED
  BY <1>4, <1>6, <1>7, <1>9
     DEF Next, Writes, NewDbExplorer, ListScan, vars, listVars

-----------------------------------------------------------------------------
(* The request of a statement, and the table and id it is about.            *)
LEMMA Sent ==
  ASSUME IInv, NEW c \in Clients, Statement(c), Exact(req[c])
  PROVE  /\ pc[c] = "execute" /\ req[c] \in Requests /\ HasStatement(req[c])
         /\ TableOf(req[c]) \in DOMAIN model /\ TableOf(req[c]) \in Tables
<1>1. pc[c] = "execute"
  BY DEF Statement, Writes, GetEntry, CreateEntry, UpdateEntry, DeleteEntry, ListQuery, Sends
<1> QED
  BY <1>1 DEF IInv, RequestInv, ModelInv, Exact

LEMMA SentTable ==
  ASSUME NEW c \in Clients
  PROVE  /\ CreateEntry(c) \/ ListQuery(c) => TableOf(req[c]) = TableName(req[c].path)
         /\ GetEntry(c) \/ UpdateEntry(c) \/ DeleteEntry(c) => TableOf(req[c]) = EntryTable(req[c].path)
<1>1. CreateEntry(c) \/ ListQuery(c) => Route(req[c].path) = "table"
  BY DEF CreateEntry, ListQuery, Sends
<1>2. GetEntry(c) \/ UpdateEntry(c) \/ DeleteEntry(c) => Route(req[c].path) = "entry"
  BY DEF GetEntry, UpdateEntry, DeleteEntry, Sends
<1> QED
  BY <1>1, <1>2 DEF TableOf

(* An INSERT adds one row, under an id that was free, with the fields that  *)
(* were sent.                                                               *)
LEMMA RowShape ==
  ASSUME NEW t, NEW cells, NEW id
  PROVE  InsertedRow(t, cells, id) = [n \in Columns(t) |-> InsertedRow(t, cells, id)[n]]
<1> DEFINE row == InsertedRow(t, cells, id)
<1>1. DOMAIN row = Columns(t) /\ row = [n \in DOMAIN row |-> row[n]]
  BY DEF InsertedRow
<1> QED
  BY <1>1

LEMMA InsertedCells ==
  ASSUME IInv, NEW t \in Tables, NEW body, NEW id
  PROVE  LET row == InsertedRow(t, CreateCells(t, body), id)
         IN IsRow(t, id, row) /\ Holds(t, row, body)
<1> DEFINE cells == CreateCells(t, body)
           row == InsertedRow(t, cells, id)
<1>1. row = [n \in Columns(t) |-> row[n]]
  BY RowShape
<1>2. ASSUME NEW i \in DOMAIN Schema[t]
      PROVE  row[Schema[t][i].Name] =
               IF Schema[t][i].Key = "PRI" THEN id
               ELSE IF Schema[t][i].Name \in DOMAIN cells THEN cells[Schema[t][i].Name]
               ELSE Schema[t][i].Default
  <2> DEFINE n == Schema[t][i].Name
             j == CHOOSE j \in DOMAIN Schema[t] : Schema[t][j].Name = n
  <2>1. j = i
    BY SchemaAssumption
  <2>2. n \in Columns(t)
    BY DEF Columns
  <2> QED
    BY <2>1, <2>2 DEF InsertedRow
<1>3. row[KeyName(t)] = id
  BY <1>2, KeyFact DEF KeyName
<1>4. ASSUME NEW f \in FieldSet(t), f.Name \in DOMAIN body, f.Name # KeyName(t)
      PROVE  row[f.Name] = CellOf(body[f.Name])
  <2>1. PICK i \in DOMAIN Schema[t] : f = FieldOf(Schema[t][i])
    BY FieldFacts DEF IInv
  <2>2. f.Name = Schema[t][i].Name /\ f.Key = Schema[t][i].Key
    BY <2>1, ColumnFact
  <2>3. f.Key # "PRI" /\ Schema[t][i].Key # "PRI"
    BY <1>4, <2>2, FieldNames DEF IInv
  <2>4. f.Name \in DOMAIN cells /\ cells[f.Name] = CellOf(body[f.Name])
    BY <1>4, <2>3 DEF CreateCells
  <2> QED
    BY <1>2, <2>2, <2>3, <2>4
<1> QED
  BY <1>1, <1>3, <1>4 DEF IsRow, Holds

Inserted(c, t, id, row) ==
  /\ req[c].method = "PUT"
  /\ id \in (1 .. MaxId) \ DOMAIN db[t]
  /\ db' = [db EXCEPT ![t] = [k \in DOMAIN db[t] \cup {id} |-> IF k = id THEN row ELSE db[t][k]]]
  /\ IsRow(t, id, row)
  /\ Holds(t, row, SentFields(req[c]))
  /\ Returns(c, Ok(PrimaryKey(t), id), ServerError)

LEMMA Inserts ==
  ASSUME IInv, NEW c \in Clients, CreateEntry(c), Exact(req[c])
  PROVE  Fails(c, ServerError) \/ \E id, row : Inserted(c, TableOf(req[c]), id, row)
<1> DEFINE t == TableName(req[c].path)
<1>1. TableOf(req[c]) = t /\ t \in Tables
  BY Sent, SentTable DEF Statement, Writes
<1> HIDE DEF t
<1>2. CASE Fails(c, ServerError)
  BY <1>2
<1>3. CASE ~Fails(c, ServerError)
  <2> DEFINE row(id) == InsertedRow(t, CreateCells(t, Body(c)), id)
  <2>1. PICK id \in (1 .. MaxId) \ DOMAIN db[t] :
          /\ db' = [db EXCEPT ![t] = [k \in DOMAIN @ \cup {id} |-> IF k = id THEN row(id) ELSE @[k]]]
          /\ Returns(c, Ok(PrimaryKey(t), id), ServerError)
    BY <1>3 DEF CreateEntry, t
  <2>2. IsRow(t, id, row(id)) /\ Holds(t, row(id), Body(c))
    BY <1>1, InsertedCells
  <2>3. req[c].method = "PUT"
    BY DEF CreateEntry, Sends
  <2> HIDE DEF row
  <2>4. Inserted(c, t, id, row(id))
    BY <2>1, <2>2, <2>3 DEF Inserted, Body
  <2> QED
    BY <1>1, <2>4
<1> QED
  BY <1>2, <1>3

(* An UPDATE touches the given row only, and never its key.                 *)
ChangedRow(c, t, id, row) ==
  /\ id \in DOMAIN db[t]
  /\ db' = [db EXCEPT ![t] = [db[t] EXCEPT ![id] = row]]
  /\ IsRow(t, id, row)
  /\ Holds(t, row, SentFields(req[c]))
  /\ \A n \in Columns(t) \ DOMAIN SentFields(req[c]) : row[n] = db[t][id][n]
  /\ Returns(c, Ok("updated", IF row = db[t][id] THEN 0 ELSE 1), ServerError)

LEMMA UpdatedCells ==
  ASSUME IInv, NEW t \in Tables, NEW body, NEW id \in DOMAIN db[t],
         ~UpdateRefused(t, body), DOMAIN body \subseteq {f.Name : f \in FieldSet(t)}
  PROVE  LET row == Updated(t, id, Cells(DOMAIN body, body))
         IN /\ IsRow(t, id, row) /\ Holds(t, row, body)
            /\ \A n \in Columns(t) \ DOMAIN body : row[n] = db[t][id][n]
<1> DEFINE cells == Cells(DOMAIN body, body)
           row == Updated(t, id, cells)
<1>1. DOMAIN cells = DOMAIN body /\ \A n \in DOMAIN body : cells[n] = CellOf(body[n])
  BY DEF Cells
<1> HIDE DEF cells
<1>2. /\ DOMAIN row = Columns(t)
      /\ row = [n \in Columns(t) |-> row[n]]
      /\ \A n \in Columns(t) : row[n] = IF n \in DOMAIN body THEN CellOf(body[n]) ELSE db[t][id][n]
  BY <1>1 DEF Updated
<1> HIDE DEF row
<1>3. KeyName(t) \notin DOMAIN body
  <2>1. ASSUME NEW f \in FieldSet(t), f.Name \in DOMAIN body PROVE f.Name # KeyName(t)
    BY <2>1, FieldNames DEF IInv, UpdateRefused
  <2> QED
    BY <2>1
<1>4. KeyName(t) \in Columns(t) /\ db[t][id][KeyName(t)] = id
  BY KeyFact DEF IInv, RowsInv, IsDatabase, IsRow
<1>5. row[KeyName(t)] = id
  BY <1>2, <1>3, <1>4
<1>6. Holds(t, row, body)
  BY <1>2, FieldNames DEF IInv, Holds
<1> QED
  BY <1>2, <1>5, <1>6 DEF IsRow, row, cells

Unchanged(c) == UNCHANGED <<db, failed>> /\ Reply(c, Ok("updated", 0))

LEMMA Updates ==
  ASSUME IInv, NEW c \in Clients, UpdateEntry(c), Exact(req[c])
  PROVE  /\ req[c].method = "POST"
         /\ \/ Fails(c, ServerError)
            \/ Unchanged(c)
            \/ \E row : ChangedRow(c, TableOf(req[c]), EntryId(req[c].path), row)
<1> DEFINE t == EntryTable(req[c].path)
           id == EntryId(req[c].path)
           cells == Cells(DOMAIN Body(c), Body(c))
           row == Updated(t, id, cells)
<1>1. /\ TableOf(req[c]) = t /\ t \in Tables
      /\ req[c].method = "POST" /\ Route(req[c].path) = "entry" /\ HasStatement(req[c])
  BY Sent, SentTable DEF Statement, Writes, UpdateEntry, Sends
<1>2. CASE Fails(c, ServerError) \/ Unchanged(c)
  BY <1>1, <1>2
<1>3. CASE ~Fails(c, ServerError) /\ ~Unchanged(c)
  <2>1. /\ DOMAIN cells # {}
        /\ id \in DOMAIN db[t]
        /\ db' = [db EXCEPT ![t][id] = row]
        /\ Returns(c, Ok("updated", IF row = db[t][id] THEN 0 ELSE 1), ServerError)
    BY <1>3 DEF UpdateEntry, Unchanged
  <2>2. req[c].body # Null
    <3>1. DOMAIN cells = DOMAIN Body(c)
      BY DEF Cells
    <3>2. DOMAIN <<>> = {}
      OBVIOUS
    <3> QED
      BY <2>1, <3>1, <3>2 DEF Body, SentFields
  <2>3. ~UpdateRefused(t, Body(c))
    BY <1>1, <2>2 DEF HasStatement, Body, SentFields
  <2>4. DOMAIN Body(c) \subseteq {f.Name : f \in FieldSet(t)}
    BY <1>1 DEF Exact, Body
  <2>5. /\ IsRow(t, id, row) /\ Holds(t, row, Body(c))
        /\ \A n \in Columns(t) \ DOMAIN Body(c) : row[n] = db[t][id][n]
    BY <1>1, <2>1, <2>3, <2>4, UpdatedCells
  <2>6. db' = [db EXCEPT ![t] = [db[t] EXCEPT ![id] = row]]
    BY <2>1
  <2> HIDE DEF row, id
  <2>7. ChangedRow(c, t, id, row)
    BY <2>1, <2>5, <2>6 DEF ChangedRow, Body
  <2> QED
    BY <1>1, <2>7 DEF id
<1> QED
  BY <1>2, <1>3

(* A DELETE removes the given row, or none.                                 *)
Removed(c, t, id) ==
  /\ db' = [db EXCEPT ![t] = [k \in DOMAIN db[t] \ {id} |-> db[t][k]]]
  /\ Returns(c, Ok("deleted", IF id \in DOMAIN db[t] THEN 1 ELSE 0), NoResult)

LEMMA Deletes ==
  ASSUME IInv, NEW c \in Clients, DeleteEntry(c), Exact(req[c])
  PROVE  /\ req[c].method = "DELETE"
         /\ Fails(c, NoResult) \/ Removed(c, TableOf(req[c]), EntryId(req[c].path))
<1>1. TableOf(req[c]) = EntryTable(req[c].path) /\ req[c].method = "DELETE"
  BY SentTable DEF DeleteEntry, Sends
<1> QED
  BY <1>1 DEF DeleteEntry, Removed

-----------------------------------------------------------------------------
(* No other action touches the database.                                    *)
LEMMA OthersRead ==
  ASSUME [Next]_vars, db' # db
  PROVE  \E c \in Clients : Writes(c) /\ pc[c] = "execute"
<1>1. Next
  BY DEF vars
<1>2. ~NewDbExplorer
  BY DEF NewDbExplorer
<1>3. PICK c \in Clients :
        \/ Receive(c) \/ Finish(c) \/ GetEntry(c) \/ Writes(c) \/ ListQuery(c) \/ ListScan(c)
        \/ ListScanPanics(c) \/ ListScanFails(c) \/ ListEnd(c) \/ ListLost(c)
  BY <1>1, <1>2, Zenon DEF Next, Writes
<1>4. ~Receive(c) /\ ~Finish(c)
  BY DEF Receive, Finish
<1>5. ~GetEntry(c)
  BY DEF GetEntry, Fails
<1>6. ~ListQuery(c) /\ ~ListScan(c) /\ ~ListScanPanics(c)
  BY DEF ListQuery, ListScan, ListScanPanics, Fails
<1>7. ~ListScanFails(c) /\ ~ListEnd(c) /\ ~ListLost(c)
  BY DEF ListScanFails, ListEnd, ListLost, Fails
<1>8. Writes(c)
  BY <1>3, <1>4, <1>5, <1>6, <1>7
<1>9. pc[c] = "execute"
  BY <1>8 DEF Writes, CreateEntry, UpdateEntry, DeleteEntry, Sends
<1> QED
  BY <1>8, <1>9

(* A table that a step replaces.                                            *)
LEMMA OneTable ==
  ASSUME RowsInv, NEW t \in Tables, NEW table, db' = [db EXCEPT ![t] = table]
  PROVE  /\ db' = [u \in Tables |-> IF u = t THEN table ELSE db[u]]
         /\ db'[t] = table
         /\ \A u \in Tables \ {t} : db'[u] = db[u]
         /\ /\ IsFiniteSet(DOMAIN table) /\ DOMAIN table \subseteq Int
            /\ table = [id \in DOMAIN table |-> table[id]]
            /\ \A id \in DOMAIN table : IsRow(t, id, table[id])
            => RowsInv'
<1>1. db = [u \in Tables |-> db[u]]
  BY DEF RowsInv, IsDatabase
<1>2. db' = [u \in Tables |-> IF u = t THEN table ELSE db[u]]
  BY <1>1
<1>3. db'[t] = table /\ \A u \in Tables \ {t} : db'[u] = db[u]
  BY <1>2
<1>4. db' = [u \in Tables |-> db'[u]]
  BY <1>2
<1>5. ASSUME /\ IsFiniteSet(DOMAIN table) /\ DOMAIN table \subseteq Int
             /\ table = [id \in DOMAIN table |-> table[id]]
             /\ \A id \in DOMAIN table : IsRow(t, id, table[id])
      PROVE  RowsInv'
  BY <1>3, <1>4, <1>5 DEF RowsInv, IsDatabase
<1> QED
  BY <1>2, <1>3, <1>5

(* The rows stay numbered by their keys and have the columns of their table.*)
LEMMA RowsStep == IInv /\ [Next]_vars => RowsInv'
<1> SUFFICES ASSUME IInv, [Next]_vars PROVE RowsInv'
  OBVIOUS
<1>1. CASE db' = db
  BY <1>1 DEF IInv, RowsInv
<1>2. CASE db' # db
  <2>1. PICK c \in Clients : Writes(c) /\ pc[c] = "execute"
    BY <1>2, OthersRead
  <2>2. CASE ~Exact(req[c])
    <3>1. \E what, error : OtherStatement(c, what, error)
      BY <1>2, <2>1, <2>2 DEF Writes, CreateEntry, UpdateEntry, DeleteEntry, Fails
    <3>2. IsDatabase(db')
      BY <3>1 DEF OtherStatement
    <3> QED
      BY <3>2 DEF RowsInv, IsDatabase
  <2>3. CASE Exact(req[c])
    <3> DEFINE t == TableOf(req[c])
    <3>1. t \in Tables
      BY <2>1, <2>3, Sent DEF Statement
    <3> HIDE DEF t
    <3>2. /\ IsFiniteSet(DOMAIN db[t]) /\ DOMAIN db[t] \subseteq Int
          /\ \A id \in DOMAIN db[t] : IsRow(t, id, db[t][id])
      BY <3>1 DEF IInv, RowsInv, IsDatabase
    <3>3. ASSUME NEW id, NEW row, Inserted(c, t, id, row) PROVE RowsInv'
      <4> DEFINE table == [k \in DOMAIN db[t] \cup {id} |-> IF k = id THEN row ELSE db[t][k]]
      <4>1. IsFiniteSet(DOMAIN db[t] \cup {id}) /\ id \in Int
        BY <3>2, <3>3, FS_AddElement, ValuesAssumption DEF Inserted
      <4>2. /\ IsFiniteSet(DOMAIN table) /\ DOMAIN table \subseteq Int
            /\ table = [k \in DOMAIN table |-> table[k]]
        BY <3>2, <4>1
      <4>3. \A k \in DOMAIN table : IsRow(t, k, table[k])
        <5>1. IsRow(t, id, row)
          BY <3>3 DEF Inserted
        <5> QED
          BY <3>2, <5>1
      <4>4. db' = [db EXCEPT ![t] = table]
        BY <3>3 DEF Inserted
      <4> HIDE DEF table
      <4> QED
        BY <3>1, <4>2, <4>3, <4>4, OneTable DEF IInv
    <3>4. ASSUME NEW id, NEW row, ChangedRow(c, t, id, row) PROVE RowsInv'
      <4> DEFINE table == [db[t] EXCEPT ![id] = row]
      <4>1. db[t] = [k \in DOMAIN db[t] |-> db[t][k]] /\ id \in DOMAIN db[t]
        BY <3>1, <3>4 DEF IInv, RowsInv, IsDatabase, ChangedRow
      <4>2. table = [k \in DOMAIN db[t] |-> IF k = id THEN row ELSE db[t][k]]
        BY <4>1
      <4>3. /\ IsFiniteSet(DOMAIN table) /\ DOMAIN table \subseteq Int
            /\ table = [k \in DOMAIN table |-> table[k]]
        BY <3>2, <4>2
      <4>4. \A k \in DOMAIN table : IsRow(t, k, table[k])
        <5>1. IsRow(t, id, row)
          BY <3>4 DEF ChangedRow
        <5> QED
          BY <3>2, <4>2, <5>1
      <4>5. db' = [db EXCEPT ![t] = table]
        BY <3>4 DEF ChangedRow
      <4> HIDE DEF table
      <4> QED
        BY <3>1, <4>3, <4>4, <4>5, OneTable DEF IInv
    <3>5. ASSUME NEW id, Removed(c, t, id) PROVE RowsInv'
      <4> DEFINE table == [k \in DOMAIN db[t] \ {id} |-> db[t][k]]
      <4>1. IsFiniteSet(DOMAIN db[t] \ {id})
        BY <3>2, FS_Subset
      <4>2. /\ IsFiniteSet(DOMAIN table) /\ DOMAIN table \subseteq Int
            /\ table = [k \in DOMAIN table |-> table[k]]
            /\ \A k \in DOMAIN table : IsRow(t, k, table[k])
        BY <3>2, <4>1
      <4>3. db' = [db EXCEPT ![t] = table]
        BY <3>5 DEF Removed
      <4> HIDE DEF table
      <4> QED
        BY <3>1, <4>2, <4>3, OneTable DEF IInv
    <3>6. CASE CreateEntry(c)
      BY <1>2, <2>3, <3>3, <3>6, Inserts DEF Fails, t
    <3>7. CASE UpdateEntry(c)
      BY <1>2, <2>3, <3>4, <3>7, Updates DEF Fails, Unchanged, t
    <3>8. CASE DeleteEntry(c)
      BY <1>2, <2>3, <3>5, <3>8, Deletes DEF Fails, t
    <3> QED
      BY <2>1, <3>6, <3>7, <3>8 DEF Writes
  <2> QED
    BY <2>2, <2>3
<1> QED
  BY <1>1, <1>2

(* The invariant holds in every behaviour.                                  *)
THEOREM Invariance == Spec => []IInv
<1>1. IInv /\ [Next]_vars => IInv'
  BY ModelStep, RequestStep, RowsStep, HeldStep DEF IInv
<1> QED
  BY <1>1, InitInv, PTL DEF Spec

(* The variables keep their types; the tables stay ones of the schema, with *)
(* rows that are numbered by their keys.                                    *)
THEOREM TypeCorrect == Spec => []TypeOK
<1>1. IInv => TypeOK
  <2> SUFFICES ASSUME IInv PROVE TypeOK
    OBVIOUS
  <2>1. IsFiniteSet(Scanning)
    BY ValuesAssumption, FS_Subset DEF Scanning
  <2>2. held \in Nat /\ left \in Nat
    BY <2>1, FS_CardinalityType DEF IInv, HeldInv
  <2>3. phase \in {"starting", "serving", "failed"} /\ DOMAIN model \subseteq Tables
    BY DEF IInv, ModelInv
  <2>4. IsDatabase(db)
    BY DEF IInv, RowsInv
  <2>5. \A c \in Clients : /\ pc[c] \in {"idle", "execute", "scan", "answered"}
                          /\ req[c] \in Requests \cup {NoRequest}
    BY DEF IInv, RequestInv
  <2> QED
    BY <2>2, <2>3, <2>4, <2>5 DEF TypeOK
<1> QED
  BY <1>1, Invariance, PTL

(* RowsClosed: rows are open for the lists that are being read and for the  *)
(* requests that a failed Scan or a panic ended, and for nothing else,      *)
(* whoever else uses the pool.                                              *)
THEOREM ConnectionsCorrect == Spec => []RowsClosed
<1>1. IInv => RowsClosed
  BY DEF IInv, HeldInv, Scanning, RowsClosed
<1> QED
  BY <1>1, Invariance, PTL

-----------------------------------------------------------------------------
(* A statement that changes the database writes what its request asks for.  *)
LEMMA WriteStep ==
  ASSUME IInv, [Next]_vars, db' # db
  PROVE  \E c \in Clients : WrittenBy(c)
<1>1. PICK c \in Clients : Writes(c) /\ pc[c] = "execute"
  BY OthersRead
<1>2. pc'[c] = "answered"
  BY <1>1, Replies DEF Reply, IInv, RequestInv
<1>3. req[c].method # "GET"
  BY <1>1 DEF Writes, CreateEntry, UpdateEntry, DeleteEntry, Sends
<1>4. ASSUME Exact(req[c]) PROVE Wrote(req[c])
  <2> DEFINE t == TableOf(req[c])
             old == db[t]
             new == db'[t]
  <2>1. t \in Tables
    BY <1>1, <1>4, Sent DEF Statement
  <2> HIDE DEF t
  <2>2. CASE CreateEntry(c)
    <3>1. PICK id, row : Inserted(c, t, id, row)
      BY <1>4, <2>2, Inserts DEF Fails, t
    <3> DEFINE table == [k \in DOMAIN db[t] \cup {id} |-> IF k = id THEN row ELSE db[t][k]]
    <3>2. db' = [db EXCEPT ![t] = table]
      BY <3>1 DEF Inserted
    <3> HIDE DEF table
    <3>3. new = table /\ \A u \in Tables \ {t} : db'[u] = db[u]
      BY <2>1, <3>2, OneTable DEF IInv
    <3>4. /\ DOMAIN new = DOMAIN old \cup {id} /\ new[id] = row
          /\ \A k \in (DOMAIN old \cap DOMAIN new) \ {id} : new[k] = old[k]
      BY <3>3 DEF table
    <3>5. /\ req[c].method = "PUT" /\ id \notin DOMAIN old
          /\ row[KeyName(t)] = id /\ Holds(t, row, SentFields(req[c]))
      BY <3>1 DEF Inserted, IsRow
    <3> HIDE DEF old, new
    <3> QED
      BY <3>3, <3>4, <3>5 DEF Wrote, t, old, new
  <2>3. CASE UpdateEntry(c)
    <3> DEFINE id == EntryId(req[c].path)
    <3>1. PICK row : ChangedRow(c, t, id, row)
      BY <1>4, <2>3, Updates DEF Fails, Unchanged, t
    <3>2. req[c].method = "POST"
      BY <2>3 DEF UpdateEntry, Sends
    <3> HIDE DEF id
    <3> DEFINE table == [db[t] EXCEPT ![id] = row]
    <3>3. db' = [db EXCEPT ![t] = table]
      BY <3>1 DEF ChangedRow
    <3>4. id \in DOMAIN old /\ old = [k \in DOMAIN old |-> old[k]] /\ DOMAIN old[id] = Columns(t)
      BY <2>1, <3>1 DEF ChangedRow, IInv, RowsInv, IsDatabase, IsRow
    <3> HIDE DEF table
    <3>5. new = table /\ \A u \in Tables \ {t} : db'[u] = db[u]
      BY <2>1, <3>3, OneTable DEF IInv
    <3>6. /\ DOMAIN new = DOMAIN old /\ new[id] = row
          /\ \A k \in (DOMAIN old \cap DOMAIN new) \ {id} : new[k] = old[k]
      BY <3>4, <3>5 DEF table
    <3>7. /\ row[KeyName(t)] = id /\ Holds(t, row, SentFields(req[c]))
          /\ \A n \in DOMAIN old[id] \ DOMAIN SentFields(req[c]) : row[n] = old[id][n]
      BY <3>1, <3>4 DEF ChangedRow, IsRow
    <3> HIDE DEF old, new
    <3> QED
      BY <3>2, <3>4, <3>5, <3>6, <3>7 DEF Wrote, t, id, old, new
  <2>4. CASE DeleteEntry(c)
    <3> DEFINE id == EntryId(req[c].path)
    <3>1. Removed(c, t, id) /\ req[c].method = "DELETE"
      BY <1>4, <2>4, Deletes DEF Fails, t
    <3> HIDE DEF id
    <3> DEFINE table == [k \in DOMAIN db[t] \ {id} |-> db[t][k]]
    <3>2. db' = [db EXCEPT ![t] = table]
      BY <3>1 DEF Removed
    <3> HIDE DEF table
    <3>3. new = table /\ \A u \in Tables \ {t} : db'[u] = db[u]
      BY <2>1, <3>2, OneTable DEF IInv
    <3>4. /\ DOMAIN new = DOMAIN old \ {id}
          /\ \A k \in (DOMAIN old \cap DOMAIN new) \ {id} : new[k] = old[k]
      BY <3>3 DEF table
    <3>5. id \in DOMAIN old
      <4>1. ASSUME id \notin DOMAIN old PROVE db' = db
        <5>1. old = [k \in DOMAIN old |-> old[k]] /\ db = [u \in Tables |-> db[u]]
          BY <2>1 DEF IInv, RowsInv, IsDatabase
        <5>2. DOMAIN old \ {id} = DOMAIN old
          BY <4>1
        <5>3. table = old
          BY <5>1, <5>2 DEF table
        <5> QED
          BY <3>2, <5>1, <5>3
      <4> QED
        BY <4>1
    <3> HIDE DEF old, new
    <3> QED
      BY <3>1, <3>3, <3>4, <3>5 DEF Wrote, t, id, old, new
  <2> QED
    BY <1>1, <2>2, <2>3, <2>4 DEF Writes
<1> QED
  BY <1>1, <1>2, <1>3, <1>4 DEF WrittenBy

(* WritesNamed: nothing but a statement of a PUT, POST or DELETE changes    *)
(* the database; one whose names were read changes one row of the table     *)
(* they denote, the one with the id in the path or a new one, of it only    *)
(* the fields that the body sends, and never the key.                       *)
THEOREM WritesCorrect == Spec => WritesNamed
<1>1. IInv /\ [Next]_vars =>
        [db' # db => \E c \in Clients : WrittenBy(c)]_vars
  BY WriteStep
<1> QED
  BY <1>1, Invariance, PTL DEF Spec, WritesNamed

-----------------------------------------------------------------------------
(* A record is shown as it is stored, but for the NULL numbers left out.    *)
LEMMA ShownRow ==
  ASSUME IInv, NEW t \in Tables, NEW id \in DOMAIN db[t], NEW n \in Columns(t)
  PROVE  IF n \in DOMAIN Shown(t, db[t][id]) THEN Shown(t, db[t][id])[n] = db[t][id][n]
         ELSE db[t][id][n] = Null
<1>1. DOMAIN db[t][id] = Columns(t)
  BY DEF IInv, RowsInv, IsDatabase, IsRow
<1> QED
  BY <1>1 DEF Shown

(* What an answer consists of.                                              *)
LEMMA AnswerParts ==
  /\ ServerError.status = 500
  /\ \A error : Status(404, error).status = 404
  /\ \A what, value : /\ Ok(what, value).status = 200
                      /\ Ok(what, value).what = what
                      /\ Ok(what, value).value = value
BY DEF ServerError, Status, Ok

(* When the database did not fail the request, the answer is the intended.  *)
LEMMA Told ==
  ASSUME RequestInv, NEW c \in Clients, ~failed'[c]
  PROVE  /\ \A error : ~Fails(c, error)
         /\ \A a, error : Returns(c, a, error) => answer'[c] = a
         /\ \A a : Reply(c, a) => answer'[c] = a
<1>1. c \in DOMAIN failed /\ c \in DOMAIN answer
  BY DEF RequestInv
<1>2. failed' # [failed EXCEPT ![c] = TRUE]
  BY <1>1
<1>3. \A a : Reply(c, a) => answer'[c] = a
  BY <1>1 DEF Reply
<1> QED
  BY <1>2, <1>3 DEF Fails, Returns

(* What each statement answers agrees with what it did.                     *)
LEMMA AnswerStep ==
  ASSUME IInv, [Next]_vars, NEW c \in Clients, pc[c] = "execute", pc'[c] = "answered",
         Exact(req[c]), ~failed'[c]
  PROVE  Agrees(req[c], answer'[c])
<1>1. Statement(c)
  <2>1. pc \in [Clients -> {"idle", "execute", "scan", "answered"}]
    BY DEF IInv, RequestInv
  <2>2. ~UNCHANGED vars /\ ~NewDbExplorer
    BY DEF vars, NewDbExplorer
  <2>3. PICK d \in Clients : Receive(d) \/ Finish(d) \/ Statement(d) \/ Reading(d)
    BY <2>2 DEF Next, Statement, Writes, Reading
  <2>4. \E place : pc' = [pc EXCEPT ![d] = place] \/ pc' = pc
    BY <2>3, Replies DEF Receive, Finish, Statement, GetEntry, ListQuery, Reply, Fails,
                         Reading, ListScan, ListScanPanics, ListScanFails, ListEnd, ListLost
  <2>5. d = c
    BY <2>1, <2>4
  <2> QED
    BY <2>3, <2>5 DEF Receive, Finish, Reading, ListScan, ListScanPanics, ListScanFails, ListEnd, ListLost
<1> DEFINE t == TableOf(req[c])
           id == EntryId(req[c].path)
           a == answer'[c]
<1>2. t \in Tables
  BY <1>1, Sent
<1>3. ASSUME NEW error PROVE ~Fails(c, error)
  BY Told DEF IInv
<1>4. db = [u \in Tables |-> db[u]] /\ db[t] = [k \in DOMAIN db[t] |-> db[t][k]]
  BY <1>2 DEF IInv, RowsInv, IsDatabase
<1>5. CASE GetEntry(c)
  <2>1. t = EntryTable(req[c].path) /\ req[c].method = "GET"
    BY <1>5, SentTable DEF GetEntry, Sends
  <2>2. /\ db' = db
        /\ \/ id \in DOMAIN db[t] /\ Reply(c, Ok("record", Shown(t, db[t][id])))
           \/ id \notin DOMAIN db[t] /\ \E error : Reply(c, Status(404, error))
    BY <1>3, <1>5, <2>1 DEF GetEntry
  <2> HIDE DEF t, id
  <2>3. CASE id \in DOMAIN db[t] /\ Reply(c, Ok("record", Shown(t, db[t][id])))
    <3> DEFINE shown == Shown(t, db[t][id])
    <3>1. \A n \in Columns(t) : IF n \in DOMAIN shown THEN shown[n] = db[t][id][n]
                               ELSE db[t][id][n] = Null
      BY <1>2, <2>3, ShownRow
    <3>2. a.status = 200 /\ a.value = shown
      BY <2>3, AnswerParts, Told DEF IInv
    <3> HIDE DEF shown, a
    <3> QED
      BY <2>1, <2>2, <2>3, <3>1, <3>2 DEF Agrees, t, id, a
  <2>4. CASE id \notin DOMAIN db[t] /\ \E error : Reply(c, Status(404, error))
    <3>1. a.status = 404
      BY <2>4, AnswerParts, Told DEF IInv
    <3> HIDE DEF a
    <3> QED
      BY <2>2, <2>4, <3>1 DEF Agrees, t, id, a
  <2> QED
    BY <2>2, <2>3, <2>4
<1>6. CASE CreateEntry(c)
  <2>1. PICK new, row : Inserted(c, t, new, row)
    BY <1>3, <1>6, Inserts
  <2>2. /\ req[c].method = "PUT"
        /\ new \notin DOMAIN db[t]
        /\ db' = [db EXCEPT ![t] = [k \in DOMAIN db[t] \cup {new} |-> IF k = new THEN row ELSE db[t][k]]]
        /\ answer'[c] = Ok(PrimaryKey(t), new)
    BY <2>1, Told DEF Inserted, IInv
  <2> HIDE DEF t
  <2>3. new \in DOMAIN db'[t]
    BY <1>2, <1>4, <2>2
  <2>4. a.status = 200 /\ a.what = PrimaryKey(t) /\ a.value = new
    BY <2>2, AnswerParts
  <2>5. PrimaryKey(t) = "" \/ PrimaryKey(t) = KeyName(t)
    BY <1>2, FieldFacts, Zenon DEF KnownKey, IInv
  <2> DEFINE none == ""
  <2>6. PrimaryKey(t) = none \/ PrimaryKey(t) = KeyName(t)
    BY <2>5, Zenon
  <2> HIDE DEF none, a
  <2>7. /\ PrimaryKey(t) # none => a.what = KeyName(t)
        /\ a.value \in DOMAIN db'[t] \ DOMAIN db[t]
    BY <2>2, <2>3, <2>4, <2>6
  <2>8. a.status # 404 /\ req[c].method \notin {"GET", "POST", "DELETE"}
    BY <2>2, <2>4
  <2> QED
    BY <2>7, <2>8, Zenon DEF Agrees, t, a, none
<1>7. CASE UpdateEntry(c)
  <2>1. /\ req[c].method = "POST"
        /\ Unchanged(c) \/ \E row : ChangedRow(c, t, id, row)
    BY <1>3, <1>7, Updates
  <2>2. a.status = 200 /\ ((a.value = 1) <=> (db' # db))
    <3>1. CASE Unchanged(c)
      BY <3>1, AnswerParts, Told DEF IInv, Unchanged
    <3>2. ASSUME NEW row, ChangedRow(c, t, id, row)
          PROVE  a.status = 200 /\ ((a.value = 1) <=> (db' # db))
      <4>1. /\ id \in DOMAIN db[t]
            /\ db' = [db EXCEPT ![t] = [db[t] EXCEPT ![id] = row]]
            /\ a = Ok("updated", IF row = db[t][id] THEN 0 ELSE 1)
        BY <3>2, Told DEF ChangedRow, IInv
      <4> HIDE DEF t, id, a
      <4>2. db'[t][id] = row
        BY <1>2, <1>4, <4>1
      <4>3. row = db[t][id] => [db[t] EXCEPT ![id] = row] = db[t]
        BY <1>4, <4>1
      <4>4. row = db[t][id] => db' = db
        BY <1>4, <4>1, <4>3
      <4> QED
        BY <4>1, <4>2, <4>4, AnswerParts
    <3> QED
      BY <2>1, <3>1, <3>2
  <2> HIDE DEF a
  <2> QED
    BY <2>1, <2>2 DEF Agrees, a
<1>8. CASE DeleteEntry(c)
  <2>1. req[c].method = "DELETE" /\ Removed(c, t, id)
    BY <1>3, <1>8, Deletes
  <2>2. /\ db' = [db EXCEPT ![t] = [k \in DOMAIN db[t] \ {id} |-> db[t][k]]]
        /\ a = Ok("deleted", IF id \in DOMAIN db[t] THEN 1 ELSE 0)
    BY <2>1, Told DEF Removed, IInv
  <2> HIDE DEF t, id, a
  <2>3. id \notin DOMAIN db'[t]
    BY <1>2, <1>4, <2>2
  <2>4. a.status = 200 /\ ((a.value = 1) <=> (id \in DOMAIN db[t]))
    BY <2>2, AnswerParts
  <2> QED
    BY <2>1, <2>3, <2>4 DEF Agrees, t, id, a
<1>9. CASE ListQuery(c)
  BY <1>3, <1>9 DEF ListQuery, IInv, RequestInv
<1> QED
  BY <1>1, <1>5, <1>6, <1>7, <1>8, <1>9 DEF Statement, Writes

(* AnswersTrue: unless the database failed, what a client is told of a      *)
(* statement whose names were read is what it did to the tables, or was     *)
(* there.                                                                   *)
THEOREM AnswersCorrect == Spec => AnswersTrue
<1>1. IInv /\ [Next]_vars =>
        [\A c \in Clients :
           pc[c] = "execute" /\ pc'[c] = "answered" /\ Exact(req[c]) /\ ~failed'[c]
             => Agrees(req[c], answer'[c])]_vars
  BY AnswerStep
<1> QED
  BY <1>1, Invariance, PTL DEF Spec, AnswersTrue
-----------------------------------------------------------------------------
(* Lists.                                                                   *)

RowSet(all) == {all[i] : i \in DOMAIN all}
RecordSet(t, all) == {Recorded(t, row) : row \in RowSet(all)}

(* A list whose rows are all: rest is not read yet, recs are what was       *)
(* recorded of the others.                                                  *)
Progress(t, all, rest, recs) ==
  /\ all \in Seq(RowSet(all))
  /\ rest \in Seq(RowSet(all))
  /\ recs \in Seq(RecordSet(t, all))
  /\ Len(rest) = Len(all) - Len(recs)
  /\ \A i \in DOMAIN rest : rest[i] = all[Len(recs) + i]
  /\ \A i \in DOMAIN recs : recs[i] = Recorded(t, all[i])

(* The buffer holds the last row that was read; only rows of a table whose  *)
(* columns are all known are read.                                          *)
RowsOf(t, all) == \A row \in RowSet(all) : DOMAIN row = Columns(t)
ScanInv(c) ==
  LET t == TableName(req[c].path)
  IN /\ phase = "serving"
     /\ Progress(t, listed[c], rows[c], records[c])
     /\ t \in DOMAIN model => RowsOf(t, listed[c])
     /\ records[c] # <<>> => t \in DOMAIN model /\ vals[c] = listed[c][Len(records[c])]

(* What ListShown says of a list, with the rows all of table t.             *)
ShownRight(t, all, shown, lost) ==
  /\ Len(shown) <= Len(all)
  /\ lost \/ Len(shown) = Len(all)
  /\ \A i \in DOMAIN shown : \A f \in FieldSet(t) :
       CellShown(f, all[i][f.Name], shown[i][f.Name])
ShownInv(c) == ShownRight(TableName(req[c].path), listed[c], answer[c].value, failed[c])

ClientInv(c) ==
  /\ pc[c] \in {"idle", "execute"} => records[c] = <<>>
  /\ pc[c] = "scan" => ScanInv(c)
  /\ ShowsList(c) => phase = "serving" /\ ShownInv(c)

ListInv ==
  /\ DOMAIN rows = Clients /\ DOMAIN vals = Clients
  /\ DOMAIN records = Clients /\ DOMAIN listed = Clients
  /\ \A c \in Clients : ClientInv(c)

(* The ids of a table, counted from the smallest on.                        *)
LEMMA NthFacts ==
  ASSUME NEW ids, ids \subseteq Int, IsFiniteSet(ids), NEW i \in 1 .. Cardinality(ids)
  PROVE  Nth(ids, i) \in ids /\ Cardinality({k \in ids : k <= Nth(ids, i)}) = i
<1> DEFINE Below(id) == {k \in ids : k <= id}
           n == Cardinality(ids)
           rank == [id \in ids |-> Cardinality(Below(id))]
<1>1. \A id \in ids : Below(id) \in SUBSET ids /\ id \in Below(id)
  OBVIOUS
<1>2. \A a, b \in ids : a < b => Below(a) \in SUBSET Below(b) /\ b \notin Below(a)
  <2> SUFFICES ASSUME NEW a \in ids, NEW b \in ids, a < b
               PROVE  Below(a) \in SUBSET Below(b) /\ b \notin Below(a)
    OBVIOUS
  <2>1. \A k \in ids : k <= a => k <= b
    OBVIOUS
  <2>2. ~(b <= a)
    OBVIOUS
  <2> QED
    BY <2>1, <2>2
<1> HIDE DEF Below
<1>3. \A id \in ids : /\ IsFiniteSet(Below(id)) /\ Cardinality(Below(id)) \in Nat
                      /\ Cardinality(Below(id)) <= n /\ Cardinality(Below(id)) # 0
  BY <1>1, FS_Subset, FS_CardinalityType, FS_EmptySet
<1>4. \A a, b \in ids : a < b => Cardinality(Below(a)) < Cardinality(Below(b))
  <2> SUFFICES ASSUME NEW a \in ids, NEW b \in ids, a < b
               PROVE  Cardinality(Below(a)) < Cardinality(Below(b))
    OBVIOUS
  <2>1. /\ Below(a) \in SUBSET Below(b) /\ b \in Below(b) /\ b \notin Below(a)
        /\ IsFiniteSet(Below(b)) /\ Cardinality(Below(a)) \in Nat /\ Cardinality(Below(b)) \in Nat
    BY <1>1, <1>2, <1>3
  <2> QED
    BY <2>1, FS_Subset
<1>5. n \in Nat
  BY FS_CardinalityType
<1>6. rank \in [ids -> 1 .. n]
  BY <1>3, <1>5
<1>7. \A a, b \in ids : rank[a] = rank[b] => a = b
  BY <1>3, <1>4
<1>8. rank \in Injection(ids, 1 .. n)
  <2> HIDE DEF rank
  <2> QED
    BY <1>6, <1>7 DEF Injection, IsInjective
<1>9. rank \in Surjection(ids, 1 .. n)
  <2>1. IsFiniteSet(1 .. n) /\ Cardinality(1 .. n) = n
    BY <1>5, FS_Interval
  <2> HIDE DEF rank
  <2> QED
    BY <1>8, <2>1, FS_Injection
<1>10. \E id \in ids : rank[id] = i
  <2> HIDE DEF rank
  <2> QED
    BY <1>9 DEF Surjection
<1>11. \E id \in ids : Cardinality(Below(id)) = i
  BY <1>10
<1> QED
  BY <1>11 DEF Nth, Below
(* A function on an interval from 1 on is a sequence.                       *)
LEMMA FunctionSeq ==
  ASSUME NEW k \in Int, NEW S, NEW f, f = [i \in 1 .. k |-> f[i]], \A i \in 1 .. k : f[i] \in S
  PROVE  f \in Seq(S)
<1> DEFINE n == IF k > 0 THEN k ELSE 0
<1>1. n \in Nat /\ 1 .. k = 1 .. n
  <2>1. k <= 0 => \A i \in Int : ~(1 <= i /\ i <= k)
    OBVIOUS
  <2>2. k <= 0 => 1 .. k = {}
    BY <2>1
  <2> QED
    BY <2>2
<1>2. f \in [1 .. n -> S]
  <2>1. f \in [1 .. k -> S]
    OBVIOUS
  <2> HIDE DEF n
  <2> QED
    BY <1>1, <2>1
<1> HIDE DEF n
<1>3. f \in Seq(S)
  BY <1>1, <1>2
<1> QED
  BY <1>3

(* What a list selects are rows of the table.                               *)
LEMMA SelectedFacts ==
  ASSUME IInv, NEW t \in Tables, NEW r \in Requests,
         Param(r.limit, 5) >= 0, Param(r.offset, 0) >= 0
  PROVE  /\ Selected(t, r) \in Seq(RowSet(Selected(t, r)))
         /\ RowsOf(t, Selected(t, r))
<1> DEFINE ids == DOMAIN db[t]
           n == Cardinality(ids)
           offset == Param(r.offset, 0)
           limit == Param(r.limit, 5)
           end == offset + limit
           last == IF end < n THEN end ELSE n
           all == Selected(t, r)
<1>1. offset \in Nat /\ limit \in Nat
  <2>1. r.offset \in {Absent, Malformed} \cup Int /\ r.limit \in {Absent, Malformed} \cup Int
    BY RequestsAssumption
  <2> QED
    BY <2>1 DEF Param
<1>2. ids \subseteq Int /\ IsFiniteSet(ids) /\ n \in Nat
  BY FS_CardinalityType DEF IInv, RowsInv, IsDatabase
<1>3. all = [i \in 1 .. last - offset |-> db[t][Nth(ids, offset + i)]]
  BY DEF Selected
<1>4. last - offset \in Int /\ \A i \in 1 .. last - offset : offset + i \in 1 .. n
  <2> HIDE DEF offset, limit, n
  <2> QED
    BY <1>1, <1>2
<1>5. DOMAIN all = 1 .. last - offset /\ \A i \in 1 .. last - offset : all[i] = db[t][Nth(ids, offset + i)]
  BY <1>3
<1>6. \A i \in 1 .. last - offset : Nth(ids, offset + i) \in ids
  <2> HIDE DEF ids, last, offset
  <2> QED
    BY <1>2, <1>4, NthFacts DEF n
<1>7. \A id \in ids : DOMAIN db[t][id] = Columns(t)
  BY DEF IInv, RowsInv, IsDatabase, IsRow
<1>8. all = [i \in 1 .. last - offset |-> all[i]]
  BY <1>3
<1> HIDE DEF all, last, offset, ids
<1>9. all \in Seq(RowSet(all))
  BY <1>4, <1>5, <1>8, FunctionSeq DEF RowSet
<1>10. RowsOf(t, all)
  BY <1>5, <1>6, <1>7 DEF RowSet, RowsOf
<1> QED
  BY <1>9, <1>10 DEF all

(* Rows that another name selects are some rows all the same.               *)
LEMMA OtherFacts ==
  ASSUME NEW all \in OtherRows
  PROVE  all \in Seq(RowSet(all))
<1>1. CASE all = <<>>
  BY <1>1
<1>2. ASSUME NEW row, all = <<row>> PROVE all \in Seq(RowSet(all))
  BY <1>2 DEF RowSet
<1> QED
  BY <1>1, <1>2 DEF OtherRows

(* Reading one more row.                                                    *)
LEMMA ScanProgress ==
  ASSUME NEW t, NEW all, NEW rest, NEW recs, Progress(t, all, rest, recs), rest # <<>>
  PROVE  LET more == Append(recs, Recorded(t, Head(rest)))
         IN /\ Progress(t, all, Tail(rest), more)
            /\ more # <<>>
            /\ Head(rest) = all[Len(more)]
<1> DEFINE S == RowSet(all)
           R == RecordSet(t, all)
           rec == Recorded(t, Head(rest))
           more == Append(recs, rec)
           n == Len(recs)
<1>1. all \in Seq(S) /\ rest \in Seq(S) /\ recs \in Seq(R)
  BY DEF Progress
<1>2. /\ Len(rest) = Len(all) - n
      /\ \A i \in DOMAIN rest : rest[i] = all[n + i]
      /\ \A i \in DOMAIN recs : recs[i] = Recorded(t, all[i])
  BY DEF Progress
<1>3. Head(rest) \in S
  <2> HIDE DEF S
  <2> QED
    BY <1>1, HeadTailProperties
<1>4. rec \in R
  BY <1>3 DEF RecordSet
<1> HIDE DEF S, R, rec
<1>5. /\ Tail(rest) \in Seq(S) /\ Len(Tail(rest)) = Len(rest) - 1 /\ Head(rest) = rest[1]
      /\ \A i \in 1 .. Len(Tail(rest)) : Tail(rest)[i] = rest[i + 1]
  BY <1>1, HeadTailProperties
<1>6. /\ more \in Seq(R) /\ Len(more) = n + 1 /\ more[n + 1] = rec
      /\ \A i \in 1 .. n : more[i] = recs[i]
  BY <1>1, <1>4, AppendProperties
<1>7. n \in Nat /\ Len(rest) \in Nat /\ DOMAIN recs = 1 .. n /\ DOMAIN rest = 1 .. Len(rest)
      /\ DOMAIN more = 1 .. n + 1 /\ DOMAIN Tail(rest) = 1 .. Len(rest) - 1 /\ Len(rest) > 0
  BY <1>1, <1>5, <1>6, EmptySeq, LenProperties
<1> HIDE DEF more, n
<1>8. Head(rest) = all[n + 1]
  BY <1>2, <1>5, <1>7
<1>9. \A i \in DOMAIN Tail(rest) : Tail(rest)[i] = all[Len(more) + i]
  <2> SUFFICES ASSUME NEW i \in 1 .. Len(rest) - 1 PROVE Tail(rest)[i] = all[n + 1 + i]
    BY <1>6, <1>7
  <2>1. Tail(rest)[i] = rest[i + 1] /\ i + 1 \in DOMAIN rest
    BY <1>5, <1>7
  <2>2. rest[i + 1] = all[n + (i + 1)] /\ n + (i + 1) = n + 1 + i
    BY <1>2, <1>7, <2>1
  <2> QED
    BY <2>1, <2>2
<1>10. \A i \in DOMAIN more : more[i] = Recorded(t, all[i])
  <2> SUFFICES ASSUME NEW i \in 1 .. n + 1 PROVE more[i] = Recorded(t, all[i])
    BY <1>7
  <2>1. CASE i = n + 1
    BY <1>6, <1>8, <2>1 DEF rec
  <2>2. CASE i \in 1 .. n
    BY <1>2, <1>6, <1>7, <2>2
  <2> QED
    BY <1>7, <2>1, <2>2
<1>11. Len(Tail(rest)) = Len(all) - Len(more)
  <2>1. Len(all) \in Nat
    BY <1>1, LenProperties
  <2> QED
    BY <1>2, <1>5, <1>6, <1>7, <2>1
<1>12. Progress(t, all, Tail(rest), more)
  BY <1>1, <1>5, <1>6, <1>9, <1>10, <1>11 DEF Progress, S, R
<1>13. more # <<>>
  BY <1>6, <1>7
<1> QED
  BY <1>6, <1>8, <1>12, <1>13 DEF more, rec

(* How a number or a text of one row is shown, whatever the buffer holds.   *)
LEMMA ShownCell ==
  ASSUME IInv, NEW t \in Tables, NEW f \in FieldSet(t),
         NEW row, NEW last, DOMAIN row = Columns(t), NEW reused \in BOOLEAN
  PROVE  CellShown(f, row[f.Name], Written(Recorded(t, row), last, reused)[f.Name])
<1> DEFINE n == f.Name
           cell == row[n]
           ints == {g.Name : g \in {h \in FieldSet(t) : IsInt(h)}}
           empty == {m \in DOMAIN row \ ints : row[m] \in {Null, ""}}
           zero == 0
           copied == [m \in DOMAIN row \ empty |-> IF row[m] = Null THEN zero ELSE row[m]]
           record == Recorded(t, row)
           text == Written(record, last, reused)[n]
<1>1. record.copied = copied /\ record.shared = empty
  BY DEF Recorded
<1>2. n \in Columns(t) /\ (n \in ints <=> IsInt(f))
  BY FieldNames DEF IInv
<1> HIDE DEF ints, copied, record, zero
<1>3. DOMAIN copied = DOMAIN row \ empty
      /\ \A m \in DOMAIN row \ empty : copied[m] = IF row[m] = Null THEN zero ELSE row[m]
  BY DEF copied
<1>4. n \in DOMAIN row /\ (n \in empty <=> n \notin ints /\ cell \in {Null, ""})
  BY <1>2
<1> HIDE DEF empty
<1>5. n \notin empty => text = copied[n]
  <2>1. n \in DOMAIN record.copied \cup record.shared
    BY <1>1, <1>3, <1>4
  <2> QED
    BY <1>1, <2>1 DEF Written
<1>6. ASSUME cell # Null, IsInt(f) \/ cell # "" PROVE text = cell
  BY <1>2, <1>3, <1>4, <1>5, <1>6
<1> HIDE DEF cell, text
<1> QED
  BY <1>6, Zenon DEF CellShown, cell, text, record

(* What a list answers when it ends, or is lost, of the rows it has read.   *)
LEMMA ListAnswer ==
  ASSUME IInv, NEW c \in Clients, ScanInv(c), NEW reused \in BOOLEAN, NEW lost, NEW shown,
         lost \/ rows[c] = <<>>,
         shown = [i \in DOMAIN records[c] |-> Written(records[c][i], vals[c], reused)]
  PROVE  ShownRight(TableName(req[c].path), listed[c], shown, lost)
<1> DEFINE t == TableName(req[c].path)
           all == listed[c]
           n == Len(records[c])
<1>1. /\ Progress(t, all, rows[c], records[c])
      /\ t \in DOMAIN model => RowsOf(t, all)
      /\ records[c] # <<>> => t \in DOMAIN model
  BY DEF ScanInv
<1>2. /\ records[c] \in Seq(RecordSet(t, all)) /\ all \in Seq(RowSet(all))
      /\ rows[c] \in Seq(RowSet(all)) /\ Len(rows[c]) = Len(all) - n
      /\ \A i \in DOMAIN records[c] : records[c][i] = Recorded(t, all[i])
  BY <1>1 DEF Progress
<1>3. /\ n \in Nat /\ DOMAIN records[c] = 1 .. n
      /\ Len(all) \in Nat /\ DOMAIN all = 1 .. Len(all) /\ Len(rows[c]) \in Nat
  BY <1>2, LenProperties
<1>4. n <= Len(all) /\ (rows[c] = <<>> => n = Len(all))
  <2>1. rows[c] = <<>> => Len(rows[c]) = 0
    OBVIOUS
  <2>2. Len(rows[c]) = Len(all) - n /\ n \in Nat /\ Len(all) \in Nat /\ Len(rows[c]) \in Nat
    BY <1>2, <1>3
  <2> HIDE DEF all, n
  <2> QED
    BY <2>1, <2>2
<1>5. Len(shown) = n /\ DOMAIN shown = 1 .. n
  <2>1. shown = [i \in 1 .. n |-> Written(records[c][i], vals[c], reused)]
    BY <1>3
  <2> HIDE DEF n
  <2> QED
    BY <1>3, <2>1
<1>6. ASSUME NEW i \in 1 .. n, NEW f \in FieldSet(t)
      PROVE  CellShown(f, all[i][f.Name], shown[i][f.Name])
  <2>1. i \in DOMAIN all /\ t \in DOMAIN model /\ t \in Tables
    BY <1>1, <1>3, <1>4 DEF IInv, ModelInv
  <2>2. DOMAIN all[i] = Columns(t)
    BY <1>1, <2>1 DEF RowSet, RowsOf
  <2>3. shown[i] = Written(Recorded(t, all[i]), vals[c], reused)
    BY <1>2, <1>3
  <2> HIDE DEF all, n
  <2>4. CellShown(f, all[i][f.Name], Written(Recorded(t, all[i]), vals[c], reused)[f.Name])
    BY <2>1, <2>2, ShownCell
  <2> QED
    BY <2>3, <2>4
<1> HIDE DEF n
<1> QED
  BY <1>4, <1>5, <1>6 DEF ShownRight

-----------------------------------------------------------------------------
(* No client lists anything at the start.                                   *)
LEMMA InitList == Init => ListInv
<1> SUFFICES ASSUME Init PROVE ListInv
  OBVIOUS
<1>1. \A c \in Clients : pc[c] = "idle" /\ records[c] = <<>>
  BY DEF Init
<1>2. /\ DOMAIN rows = Clients /\ DOMAIN vals = Clients
      /\ DOMAIN records = Clients /\ DOMAIN listed = Clients
  BY DEF Init
<1> QED
  BY <1>1, <1>2 DEF ListInv, ClientInv, ShowsList

(* What is unchanged for a client stays right for it: what its list reads   *)
(* of the tables is already with it.                                        *)
Same(d) ==
  /\ pc'[d] = pc[d] /\ req'[d] = req[d] /\ answer'[d] = answer[d] /\ failed'[d] = failed[d]
  /\ rows'[d] = rows[d] /\ vals'[d] = vals[d]
  /\ records'[d] = records[d] /\ listed'[d] = listed[d]

LEMMA SameFields ==
  ASSUME model' = model, NEW t
  PROVE  FieldSet(t)' = FieldSet(t) /\ \A row : Recorded(t, row)' = Recorded(t, row)
<1>1. FieldSet(t)' = FieldSet(t)
  BY DEF FieldSet, Fields
<1> QED
  BY <1>1 DEF Recorded

LEMMA SameProgress ==
  ASSUME model' = model, NEW t, NEW all, NEW rest, NEW recs, Progress(t, all, rest, recs)
  PROVE  Progress(t, all, rest, recs)'
<1>1. \A row : Recorded(t, row)' = Recorded(t, row)
  BY SameFields
<1>2. RecordSet(t, all)' = RecordSet(t, all)
  BY <1>1 DEF RecordSet, RowSet
<1>3. /\ all \in Seq(RowSet(all))
      /\ rest \in Seq(RowSet(all))
      /\ recs \in Seq(RecordSet(t, all))'
      /\ Len(rest) = Len(all) - Len(recs)
      /\ \A i \in DOMAIN rest : rest[i] = all[Len(recs) + i]
  BY <1>2 DEF Progress
<1>4. \A i \in DOMAIN recs : recs[i] = Recorded(t, all[i])'
  BY <1>1 DEF Progress
<1> QED
  BY <1>3, <1>4 DEF Progress, RowSet

LEMMA NextScan ==
  ASSUME NEW c \in Clients, NEW t, NEW all, NEW rest, NEW recs, NEW buffer,
         phase = "serving", UNCHANGED <<phase, model>>, t \in DOMAIN model => RowsOf(t, all),
         Progress(t, all, rest, recs), recs # <<>> => t \in DOMAIN model /\ buffer = all[Len(recs)],
         TableName(req[c].path)' = t, listed'[c] = all,
         rows'[c] = rest, records'[c] = recs, vals'[c] = buffer
  PROVE  ScanInv(c)'
<1>1. Progress(t, all, rest, recs)'
  BY SameProgress
<1> QED
  BY <1>1 DEF ScanInv, RowsOf, RowSet

LEMMA NextShown ==
  ASSUME NEW c \in Clients, NEW t, NEW all, NEW shown, NEW lost,
         model' = model, ShownRight(t, all, shown, lost), failed'[c] = lost,
         TableName(req[c].path)' = t, listed'[c] = all, answer'[c].value = shown
  PROVE  ShownInv(c)'
<1>1. FieldSet(t)' = FieldSet(t)
  BY SameFields
<1>2. ShownRight(t, all, shown, lost)'
  BY <1>1 DEF ShownRight
<1> QED
  BY <1>2 DEF ShownInv

LEMMA SameClient ==
  ASSUME NEW d \in Clients, ClientInv(d), Same(d), phase = "serving" => UNCHANGED <<phase, model>>
  PROVE  ClientInv(d)'
<1>1. ASSUME pc'[d] = "scan" PROVE ScanInv(d)'
  <2>1. pc[d] = "scan" /\ ScanInv(d) /\ phase = "serving" /\ phase' = phase /\ model' = model
    BY <1>1 DEF Same, ClientInv, ScanInv
  <2>2. Progress(TableName(req[d].path), listed[d], rows[d], records[d])'
    BY <2>1, SameProgress DEF ScanInv, Same
  <2> QED
    BY <2>1, <2>2 DEF ScanInv, Same, RowsOf, RowSet
<1>2. ASSUME ShowsList(d)' PROVE phase' = "serving" /\ ShownInv(d)'
  <2>1. ShowsList(d)
    BY <1>2 DEF ShowsList, Same
  <2>2. ShownInv(d) /\ phase = "serving" /\ phase' = phase /\ model' = model
    BY <2>1 DEF ClientInv
  <2> QED
    BY <2>2, SameFields DEF ShownInv, ShownRight, Same
<1> QED
  BY <1>1, <1>2 DEF ClientInv, Same

(* An action of c leaves the lists of the others, and what was read of the  *)
(* schema, alone.                                                           *)
Only(c) ==
  /\ UNCHANGED <<phase, model>>
  /\ DOMAIN rows' = Clients /\ DOMAIN vals' = Clients
  /\ DOMAIN records' = Clients /\ DOMAIN listed' = Clients
  /\ \A d \in Clients \ {c} : Same(d)

LEMMA OnlyOwn ==
  ASSUME RequestInv, ListInv, NEW c \in Clients,
         Statement(c) \/ Receive(c) \/ Finish(c) \/ Reading(c)
  PROVE  Only(c)
<1>1. /\ DOMAIN pc = Clients /\ DOMAIN req = Clients /\ DOMAIN answer = Clients
      /\ DOMAIN failed = Clients /\ DOMAIN rows = Clients /\ DOMAIN vals = Clients
      /\ DOMAIN records = Clients /\ DOMAIN listed = Clients
  BY DEF RequestInv, ListInv
<1>2. CASE Receive(c)
  BY <1>1, <1>2 DEF Receive, Reply, Only, Same, listVars
<1>3. CASE Finish(c)
  BY <1>1, <1>3 DEF Finish, Only, Same
<1>4. CASE GetEntry(c)
  BY <1>1, <1>4 DEF GetEntry, Fails, Reply, Only, Same, listVars
<1>5. CASE Writes(c)
  <2>1. \A d \in Clients \ {c} : pc'[d] = pc[d] /\ answer'[d] = answer[d]
    BY <1>1, <1>5, Replies DEF Reply
  <2>2. \A d \in Clients \ {c} : failed'[d] = failed[d]
    BY <1>1, <1>5 DEF Writes, CreateEntry, UpdateEntry, DeleteEntry, OtherStatement, Fails, Returns
  <2>3. UNCHANGED <<phase, model, req, listVars>>
    BY <1>5 DEF Writes, CreateEntry, UpdateEntry, DeleteEntry
  <2> QED
    BY <1>1, <2>1, <2>2, <2>3 DEF Only, Same, listVars
<1>6. CASE ListQuery(c)
  BY <1>1, <1>6 DEF ListQuery, Fails, Reply, Only, Same, listVars
<1>7. CASE ListScan(c)
  BY <1>1, <1>7 DEF ListScan, Only, Same
<1>8. CASE ListScanPanics(c) \/ ListScanFails(c)
  BY <1>1, <1>8 DEF ListScanPanics, ListScanFails, Fails, Reply, Only, Same
<1>9. CASE ListEnd(c) \/ ListLost(c)
  BY <1>1, <1>9 DEF ListEnd, ListLost, Reply, Only, Same
<1> QED
  BY <1>2, <1>3, <1>4, <1>5, <1>6, <1>7, <1>8, <1>9 DEF Statement, Reading

(* Only the answer of a list has its form.                                  *)
NoList(a) == ~(a.status = 200 /\ a.what = "records")

LEMMA NoLists ==
  /\ NoList(ServerError)
  /\ \A error : NoList(Status(0, error)) /\ NoList(Status(404, error))
  /\ \A value : NoList(Ok("record", value))
  /\ \A r : NoList(EarlyAnswer(r))
<1>1. ASSUME NEW a, NEW code \in {0, 400, 404, 500}, a.status = code
      PROVE  NoList(a)
  BY <1>1 DEF NoList
<1>2. /\ \A error : NoList(Status(0, error))
      /\ \A error : NoList(Status(400, error))
      /\ \A error : NoList(Status(404, error))
      /\ \A error : NoList(Status(500, error))
      /\ NoList(ServerError)
  <2>1. \A code, error : Status(code, error).status = code
    BY DEF Status
  <2>2. /\ \A error : NoList(Status(0, error))
        /\ \A error : NoList(Status(400, error))
        /\ \A error : NoList(Status(404, error))
        /\ \A error : NoList(Status(500, error))
    BY <1>1, <2>1
  <2> QED
    BY <2>2 DEF ServerError
<1>3. \A value : NoList(Ok("record", value)) /\ NoList(Ok("tables", value))
  BY DEF NoList, Ok
<1>4. ASSUME NEW r PROVE NoList(EarlyAnswer(r))
  <2> DEFINE unknown == "unknown table"
             broken == "broken"
             type == "have invalid type"
  <2>1. Route(r.path) \in {"main", "entry", "table", "none"}
    BY DEF Route
  <2>2. CASE Route(r.path) = "main"
    BY <1>3, <2>2 DEF EarlyAnswer
  <2>3. CASE Route(r.path) = "none"
    <3>1. EarlyAnswer(r) = Status(404, unknown)
      BY <2>3 DEF EarlyAnswer
    <3> HIDE DEF unknown
    <3> QED
      BY <1>2, <3>1
  <2>4. CASE Route(r.path) = "table"
    <3>1. EarlyAnswer(r) = Status(0, broken) \/ EarlyAnswer(r) = ServerError
      BY <2>4 DEF EarlyAnswer
    <3> HIDE DEF broken
    <3> QED
      BY <1>2, <3>1
  <2>5. CASE Route(r.path) = "entry"
    <3>1. \/ EarlyAnswer(r) = Status(404, unknown)
          \/ EarlyAnswer(r) = ServerError
          \/ EarlyAnswer(r) = Status(400, type)
      BY <2>5 DEF EarlyAnswer
    <3> HIDE DEF unknown, type
    <3> QED
      BY <1>2, <3>1
  <2> QED
    BY <2>1, <2>2, <2>3, <2>4, <2>5
<1> QED
  BY <1>2, <1>3, <1>4

(* The list of the client that acts: selected, read row by row, and shown.  *)
LEMMA OwnStep ==
  ASSUME IInv, ListInv, NEW c \in Clients,
         Statement(c) \/ Receive(c) \/ Finish(c) \/ Reading(c)
  PROVE  ClientInv(c)'
<1>1. /\ DOMAIN pc = Clients /\ DOMAIN req = Clients /\ DOMAIN answer = Clients
      /\ DOMAIN rows = Clients /\ DOMAIN vals = Clients
      /\ DOMAIN records = Clients /\ DOMAIN listed = Clients
      /\ DOMAIN failed = Clients
  BY DEF IInv, RequestInv, ListInv
<1>2. ClientInv(c)
  BY DEF ListInv
<1>3. ASSUME pc'[c] = "answered", req'[c].method = "GET" => NoList(answer'[c])
      PROVE  ClientInv(c)'
  BY <1>3 DEF ClientInv, ShowsList, NoList
<1>4. ASSUME pc[c] \in {"idle", "execute"}, pc'[c] = "execute", records'[c] = records[c]
      PROVE  ClientInv(c)'
  BY <1>2, <1>4 DEF ClientInv, ShowsList
<1>5. CASE Receive(c)
  <2>1. pc[c] = "idle" /\ records' = records
    BY <1>5 DEF Receive, listVars
  <2>2. CASE pc' = [pc EXCEPT ![c] = "execute"]
    BY <1>1, <1>4, <2>1, <2>2
  <2>3. CASE \E r : Reply(c, EarlyAnswer(r))
    <3>1. PICK r : Reply(c, EarlyAnswer(r))
      BY <2>3
    <3>2. pc'[c] = "answered" /\ answer'[c] = EarlyAnswer(r)
      BY <1>1, <3>1 DEF Reply
    <3> QED
      BY <1>3, <3>2, NoLists
  <2> QED
    BY <1>5, <2>2, <2>3 DEF Receive
<1>6. CASE Finish(c)
  <2>1. pc'[c] = "idle" /\ records'[c] = <<>>
    BY <1>1, <1>6 DEF Finish
  <2> QED
    BY <2>1 DEF ClientInv, ShowsList
<1>7. CASE GetEntry(c)
  <2>1. PICK a : Reply(c, a) /\ NoList(a)
    BY <1>7, NoLists DEF GetEntry, Fails
  <2> QED
    BY <1>1, <1>3, <2>1 DEF Reply
<1>8. CASE Writes(c)
  <2>1. req'[c].method # "GET"
    BY <1>8 DEF Writes, CreateEntry, UpdateEntry, DeleteEntry, Sends
  <2>2. \E a : Reply(c, a)
    BY <1>8, Replies
  <2> QED
    BY <1>1, <1>3, <2>1, <2>2 DEF Reply
<1>9. CASE ListScanFails(c) \/ ListScanPanics(c)
  <2>1. PICK a : Reply(c, a) /\ NoList(a)
    <3>1. CASE ListScanFails(c)
      BY <3>1, NoLists DEF ListScanFails, Fails
    <3>2. CASE ListScanPanics(c)
      <4>1. \E error : Reply(c, Status(0, error))
        BY <3>2, Zenon DEF ListScanPanics
      <4> QED
        BY <4>1, NoLists
    <3> QED
      BY <1>9, <3>1, <3>2
  <2> QED
    BY <1>1, <1>3, <2>1 DEF Reply
<1>10. CASE ListEnd(c) \/ ListLost(c)
  <2> DEFINE shown(reused) == [i \in DOMAIN records[c] |-> Written(records[c][i], vals[c], reused)]
             t == TableName(req[c].path)
             lost == failed'[c]
  <2>1. ScanInv(c) /\ phase = "serving"
    BY <1>2, <1>10 DEF ListEnd, ListLost, ClientInv, ScanInv
  <2>2. PICK reused \in BOOLEAN : Reply(c, Ok("records", shown(reused)))
    BY <1>10 DEF ListEnd, ListLost, Recordset
  <2>3. lost \/ rows[c] = <<>>
    <3>1. CASE ListEnd(c)
      BY <3>1 DEF ListEnd
    <3>2. CASE ListLost(c)
      <4>1. failed' = [failed EXCEPT ![c] = TRUE]
        BY <3>2 DEF ListLost
      <4>2. failed'[c] = TRUE
        BY <1>1, <4>1
      <4> QED
        BY <4>2 DEF lost
    <3> QED
      BY <1>10, <3>1, <3>2
  <2> HIDE DEF lost
  <2>4. ShownRight(t, listed[c], shown(reused), lost)
    BY <2>1, <2>3, ListAnswer
  <2>5. UNCHANGED <<phase, model, req, records, listed>>
    BY <1>10 DEF ListEnd, ListLost
  <2>6. pc'[c] = "answered" /\ answer'[c].value = shown(reused)
    BY <1>1, <2>2 DEF Reply, Ok
  <2> HIDE DEF shown
  <2>7. TableName(req[c].path)' = t /\ listed'[c] = listed[c] /\ failed'[c] = lost
    BY <2>5 DEF lost
  <2>8. ShownInv(c)'
    BY <2>4, <2>5, <2>6, <2>7, NextShown
  <2> QED
    BY <2>1, <2>5, <2>6, <2>8 DEF ClientInv
<1>11. CASE ListScan(c)
  <2> DEFINE t == TableName(req[c].path)
             all == listed[c]
             rest == rows[c]
             recs == records[c]
             more == Append(recs, Recorded(t, Head(rest)))
  <2>1. pc[c] = "scan" /\ rest # <<>> /\ UNCHANGED <<phase, model, pc, req, listed>>
    BY <1>11 DEF ListScan
  <2>2. /\ vals'[c] = Head(rest) /\ records'[c] = more /\ rows'[c] = Tail(rest)
        /\ t \in DOMAIN model
    BY <1>1, <1>11 DEF ListScan, ReadWhole
  <2>3. /\ phase = "serving" /\ RowsOf(t, all)
        /\ Progress(t, all, rest, recs)
    BY <1>2, <2>1, <2>2 DEF ClientInv, ScanInv
  <2>4. Progress(t, all, Tail(rest), more) /\ Head(rest) = all[Len(more)]
    BY <2>1, <2>3, ScanProgress
  <2> HIDE DEF more
  <2>5. ScanInv(c)'
    BY <2>1, <2>2, <2>3, <2>4, NextScan
  <2> QED
    BY <2>1, <2>5 DEF ClientInv, ShowsList
<1>12. CASE ListQuery(c)
  <2> DEFINE t == TableName(req[c].path)
  <2>1. CASE Fails(c, ServerError)
    BY <1>1, <1>3, <2>1, NoLists DEF Fails, Reply
  <2>2. CASE ~Fails(c, ServerError)
    <3>1. PICK all \in IF Exact(req[c]) THEN {Selected(t, req[c])} ELSE OtherRows :
            rows' = [rows EXCEPT ![c] = all] /\ listed' = [listed EXCEPT ![c] = all]
      BY <1>12, <2>2 DEF ListQuery
    <3>2. /\ Param(req[c].limit, 5) >= 0 /\ Param(req[c].offset, 0) >= 0
          /\ pc'[c] = "scan"
          /\ UNCHANGED <<phase, model, req, vals, records>>
      BY <1>1, <1>12, <2>2 DEF ListQuery
    <3>3. /\ pc[c] = "execute" /\ req[c].method = "GET" /\ phase = "serving" /\ req[c] \in Requests
          /\ TableOf(req[c]) = t
      BY <1>12, SentTable DEF ListQuery, Sends, IInv, RequestInv
    <3>4. t \in DOMAIN model => Exact(req[c]) /\ t \in Tables
      BY <3>3 DEF Exact, IInv, ModelInv
    <3>5. all \in Seq(RowSet(all)) /\ (t \in DOMAIN model => RowsOf(t, all))
      <4>1. CASE Exact(req[c])
        <5>1. t \in Tables
          BY <3>3, <4>1 DEF Exact, IInv, ModelInv
        <5>2. all = Selected(t, req[c])
          BY <3>1, <4>1
        <5> QED
          BY <3>2, <3>3, <5>1, <5>2, SelectedFacts
      <4>2. CASE ~Exact(req[c])
        BY <3>1, <3>4, <4>2, OtherFacts
      <4> QED
        BY <4>1, <4>2
    <3>6. records[c] = <<>>
      BY <1>2, <3>3 DEF ClientInv
    <3>7. Progress(t, all, all, <<>>)
      BY <3>5 DEF Progress
    <3>8. rows'[c] = all /\ listed'[c] = all /\ records'[c] = <<>>
      BY <1>1, <3>1, <3>2, <3>6
    <3>9. ScanInv(c)'
      BY <3>2, <3>3, <3>5, <3>7, <3>8, NextScan
    <3> QED
      BY <3>2, <3>9 DEF ClientInv, ShowsList
  <2> QED
    BY <2>1, <2>2
<1> QED
  BY <1>5, <1>6, <1>7, <1>8, <1>9, <1>10, <1>11, <1>12 DEF Statement, Reading

LEMMA ListStep == IInv /\ ListInv /\ [Next]_vars => ListInv'
<1> SUFFICES ASSUME IInv, ListInv, [Next]_vars PROVE ListInv'
  OBVIOUS
<1>1. ASSUME UNCHANGED <<pc, req, answer, failed, listVars>>, phase = "serving" => UNCHANGED <<phase, model>>
      PROVE  ListInv'
  <2>1. \A d \in Clients : Same(d)
    BY <1>1 DEF Same, listVars
  <2>2. \A d \in Clients : ClientInv(d)'
    BY <1>1, <2>1, SameClient DEF ListInv
  <2> QED
    BY <1>1, <2>2 DEF ListInv, listVars
<1>2. ASSUME NEW c \in Clients,
             Statement(c) \/ Receive(c) \/ Finish(c) \/ Reading(c)
      PROVE  ListInv'
  <2>1. Only(c) /\ ClientInv(c)'
    BY <1>2, OnlyOwn, OwnStep DEF IInv
  <2>2. \A d \in Clients \ {c} : ClientInv(d)'
    BY <2>1, SameClient DEF Only, ListInv
  <2> QED
    BY <2>1, <2>2 DEF Only, ListInv
<1>3. CASE UNCHANGED vars
  BY <1>1, <1>3 DEF vars
<1>4. CASE NewDbExplorer
  BY <1>1, <1>4 DEF NewDbExplorer
<1> QED
  BY <1>2, <1>3, <1>4 DEF Next, Statement, Writes, Reading

(* ListShown: a list shows the rows of one moment, in their order, all of   *)
(* them unless the connection was lost, and with every number that is not   *)
(* NULL and every text that is neither NULL nor empty, although getEntries  *)
(* scans every row into one buffer and refers to it, and although other     *)
(* clients write between two rows.                                          *)
THEOREM ListsCorrect == Spec => []ListShown
<1>1. ListInv => ListShown
  BY DEF ListInv, ClientInv, ShownInv, ShownRight, ListShown
<1> QED
  BY <1>1, Invariance, InitList, ListStep, PTL DEF Spec
=============================================================================
