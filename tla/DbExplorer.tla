------------------------------ MODULE DbExplorer ------------------------------
(***************************************************************************)
(* chapter2/hw2/db_explorer.go: HTTP requests that read and change the     *)
(* tables of a MySQL database.  A handler checks its request and sends one *)
(* SQL statement, which takes effect at once or fails; the rows of a list  *)
(* are then read one by one, while other requests run.  The database is    *)
(* external: modelled is what the statements of the code do in it.         *)
(*                                                                         *)
(* A request has a method, the segments of its path, the parameters limit  *)
(* and offset, and the body: Malformed, the JSON null, or a function from  *)
(* names to JSON values, which are records of their type ("num", "str",    *)
(* "null", "other") and what they hold.  The primary key of a table is an  *)
(* auto_increment int.                                                     *)
(***************************************************************************)
EXTENDS Integers, Sequences, FiniteSets

CONSTANTS
  Clients,
  Requests,             \* what they may ask
  Schema,               \* the columns of each table, as SHOW FULL COLUMNS lists them
  Reads,                \* how many columns of which tables NewDbExplorer may get to read
  FirstRows,            \* the rows of each table at the start, by primary key
  Outcomes(_),          \* what a statement that is not of the code's form makes of a database
  MaxId,                \* bound on the ids and numbers that the database gives
  MaxHeld,              \* bound on the connections with open rows
  Null, Absent, Malformed,  \* no value; no parameter; what cannot be read
  Garbage, Base64(_),   \* overwritten bytes; what is written for bytes
  StartsWith(_, _), StartsWithDigit(_), IsNumber(_), NumberOf(_)   \* of a path's segments

LOCAL Seqs == INSTANCE SequencesExt

VARIABLES
  db,         \* the rows of each table: a function from ids to rows
  model,      \* e.model: the fields of each table that were read
  phase,      \* of NewDbExplorer: "starting", "serving" or "failed"
  pc,         \* "idle", "execute", "scan", "answered"
  req,        \* the request
  rows,       \* the rows of a list not read yet
  vals,       \* getEntries' vals: the buffer that every row is scanned into
  records,    \* getEntries' records
  answer,
  held,       \* how many connections of the pool have open rows
  left,       \* history: requests that ended without closing their rows
  failed,     \* history: the database or its connection failed this request
  listed      \* history: all rows that a list selected

listVars == <<rows, vals, records, held, left, listed>>
vars == <<db, model, phase, pc, req, answer, failed, listVars>>

Tables == DOMAIN Schema
Columns(t) == {Schema[t][i].Name : i \in DOMAIN Schema[t]}

(* A table has one primary key, which the database counts.                  *)
Key(t) == CHOOSE i \in DOMAIN Schema[t] : Schema[t][i].Key = "PRI"
KeyName(t) == Schema[t][Key(t)].Name

ASSUME SchemaAssumption ==
  \A t \in Tables :
    /\ Schema[t] \in Seq([Name : STRING, Type : STRING, Null : STRING, Key : STRING,
                          Default : STRING \cup {Null}, Extra : STRING])
    /\ \E i \in DOMAIN Schema[t] : Schema[t][i].Key = "PRI"
    /\ Schema[t][Key(t)].Extra = "auto_increment"
    /\ \A i \in DOMAIN Schema[t] : Schema[t][i].Key = "PRI" => i = Key(t)
    /\ \A i, k \in DOMAIN Schema[t] : Schema[t][i].Name = Schema[t][k].Name => i = k

(* A database of this schema: rows have the columns of their table, and an  *)
(* id of their own as the key.                                              *)
IsRow(t, id, row) == row = [n \in Columns(t) |-> row[n]] /\ row[KeyName(t)] = id
IsDatabase(d) ==
  /\ d = [t \in Tables |-> d[t]]
  /\ \A t \in Tables :
       /\ IsFiniteSet(DOMAIN d[t]) /\ DOMAIN d[t] \subseteq Int
       /\ d[t] = [id \in DOMAIN d[t] |-> d[t][id]]
       /\ \A id \in DOMAIN d[t] : IsRow(t, id, d[t][id])

ASSUME RowsAssumption == IsDatabase(FirstRows)

(* Tables and columns are read in their order, as far as they are read.     *)
ASSUME ReadsAssumption ==
  \A n \in Reads :
    DOMAIN n \subseteq Tables /\ \A t \in DOMAIN n : n[t] \in 0 .. Len(Schema[t])

ASSUME ValuesAssumption ==
  IsFiniteSet(Clients) /\ MaxId \in Nat /\ MaxHeld \in Nat /\ Null \notin Int

NoRequest == [method |-> "none"]
Status(code, error) == [status |-> code, error |-> error]
Ok(what, value) == [status |-> 200, what |-> what, value |-> value]
NoAnswer == Status(0, "")
ServerError == Status(500, "")

-----------------------------------------------------------------------------
(* A default of NULL is read as the empty string.                           *)
FieldOf(column) == [column EXCEPT !.Default = IF @ = Null THEN "" ELSE @]

(* Neither reading asks rows.Err: when the connection is lost between two   *)
(* rows, what was read up to there is the model that is served.             *)
NewDbExplorer ==
  /\ phase = "starting"
  /\ \/ phase' = "failed" /\ UNCHANGED model
     \/ /\ phase' = "serving"
        /\ \E n \in Reads :
             model' = [t \in DOMAIN n |-> [i \in 1 .. n[t] |-> FieldOf(Schema[t][i])]]
  /\ UNCHANGED <<db, pc, req, answer, failed, listVars>>

ReadWhole(t) == t \in DOMAIN model /\ Len(model[t]) = Len(Schema[t])
Fields(t) == IF t \in DOMAIN model THEN model[t] ELSE <<>>
FieldSet(t) == {Fields(t)[i] : i \in DOMAIN Fields(t)}
First(places) == CHOOSE i \in places : \A k \in places : i <= k
PrimaryKey(t) ==
  LET keys == {i \in DOMAIN Fields(t) : Fields(t)[i].Key = "PRI"}
  IN IF keys = {} THEN "" ELSE Fields(t)[First(keys)].Name

-----------------------------------------------------------------------------
(* ServeHTTP: neither pattern is anchored, and the one of entries comes     *)
(* first.  Without tables the alternatives are the empty name.              *)
Names == IF DOMAIN model = {} THEN {""} ELSE DOMAIN model
Route(path) ==
  IF path = <<"">> THEN "main"
  ELSE IF \E i \in 1 .. Len(path) - 1 : path[i] \in Names /\ StartsWithDigit(path[i + 1])
  THEN "entry"
  ELSE IF \E i \in DOMAIN path : \E t \in Names : StartsWith(path[i], t) THEN "table"
  ELSE "none"

(* The handlers do not use what the pattern found: a table is the path      *)
(* without its slashes, an entry the first two segments.                    *)
TableName(path) == Seqs!FoldLeft(LAMBDA a, b : a \o b, "", path)
EntryTable(path) == path[1]
EntryId(path) == IF IsNumber(path[2]) THEN NumberOf(path[2]) ELSE 0
TableOf(r) == IF Route(r.path) = "entry" THEN EntryTable(r.path) ELSE TableName(r.path)

Param(value, default) == IF value = Absent \/ value = Malformed THEN default ELSE value

(* createEntry and upadteEntry: what the type of a field accepts.           *)
IsInt(f) == f.Type = "int"
Accepts(f, json) == json.type = (IF IsInt(f) THEN "num" ELSE "str")
CellOf(json) ==
  CASE json.type = "num" -> json.num [] json.type = "str" -> json.str [] OTHER -> Null
Cells(names, body) == [n \in names |-> CellOf(body[n])]

CreateRefused(t, body) ==
  \E f \in FieldSet(t) : f.Name \in DOMAIN body /\ ~Accepts(f, body[f.Name])

(* What is inserted: the fields that were sent, without the key that the    *)
(* database counts; an empty value where one is needed; nothing else.       *)
Filled(t, sent) == {f \in FieldSet(t) : f.Name \notin sent /\ f.Default = "" /\ f.Null = "NO"}
CreateCells(t, body) ==
  LET sent == {f \in FieldSet(t) : /\ f.Name \in DOMAIN body
                                   /\ ~(f.Key = "PRI" /\ f.Extra = "auto_increment")}
      filled == Filled(t, DOMAIN body)
  IN [n \in {f.Name : f \in sent \cup filled} |->
        IF n \in DOMAIN body THEN CellOf(body[n])
        ELSE IF \E f \in filled : f.Name = n /\ IsInt(f) THEN 0 ELSE ""]

(* Mutant: the primary key can be updated.                                  *)
UpdateRefusedKeyAllowed(t, body) ==
  \E f \in FieldSet(t) :
    /\ f.Name \in DOMAIN body
    /\ ~Accepts(f, body[f.Name])
    /\ IsInt(f) \/ body[f.Name].type # "null" \/ f.Null = "NO"

UpdateRefused(t, body) ==
  \E f \in FieldSet(t) :
    /\ f.Name \in DOMAIN body
    /\ \/ f.Key = "PRI"
       \/ ~Accepts(f, body[f.Name]) /\ (IsInt(f) \/ body[f.Name].type # "null" \/ f.Null = "NO")

-----------------------------------------------------------------------------
Init ==
  /\ db = FirstRows
  /\ model = <<>>
  /\ phase = "starting"
  /\ pc = [c \in Clients |-> "idle"]
  /\ req = [c \in Clients |-> NoRequest]
  /\ rows = [c \in Clients |-> <<>>]
  /\ vals = [c \in Clients |-> <<>>]
  /\ records = [c \in Clients |-> <<>>]
  /\ answer = [c \in Clients |-> NoAnswer]
  /\ held = 0
  /\ left = 0
  /\ failed = [c \in Clients |-> FALSE]
  /\ listed = [c \in Clients |-> <<>>]

Reply(c, a) ==
  /\ answer' = [answer EXCEPT ![c] = a]
  /\ pc' = [pc EXCEPT ![c] = "answered"]

(* What a request comes to before any statement: an answer, or none.  A     *)
(* body of null leaves a nil map, which cannot be written to: a PUT that    *)
(* fills in a field panics, and the connection of the request breaks.       *)
HasStatement(r) ==
  LET t == TableOf(r)
  IN CASE Route(r.path) = "table" ->
            \/ r.method = "GET"
            \/ r.method = "PUT" /\ r.body \notin {Malformed, Null} /\ ~CreateRefused(t, r.body)
            \/ r.method = "PUT" /\ r.body = Null /\ Filled(t, {}) = {}
       [] Route(r.path) = "entry" ->
            \/ r.method \in {"GET", "DELETE"}
            \/ r.method = "POST" /\ r.body = Null
            \/ r.method = "POST" /\ r.body \notin {Malformed, Null} /\ ~UpdateRefused(t, r.body)
       [] OTHER -> FALSE

EarlyAnswer(r) ==
  CASE Route(r.path) = "main" -> Ok("tables", DOMAIN model)
    [] Route(r.path) = "none" -> Status(404, "unknown table")
    [] Route(r.path) = "table" ->
         IF r.method = "PUT" /\ r.body = Null THEN Status(0, "broken") ELSE ServerError
    [] Route(r.path) = "entry" ->
         IF r.method # "POST" THEN Status(404, "unknown table")
         ELSE IF r.body = Malformed THEN ServerError ELSE Status(400, "have invalid type")

Receive(c) ==
  /\ phase = "serving"
  /\ pc[c] = "idle"
  /\ \E r \in Requests :
       /\ req' = [req EXCEPT ![c] = r]
       /\ IF HasStatement(r) THEN pc' = [pc EXCEPT ![c] = "execute"] /\ UNCHANGED answer
          ELSE Reply(c, EarlyAnswer(r))
  /\ UNCHANGED <<db, model, phase, failed, listVars>>

(* The statement of c's request can be sent: its kind, table and id.        *)
Sends(c, route, method) ==
  /\ pc[c] = "execute"
  /\ Route(req[c].path) = route
  /\ req[c].method = method

SentFields(r) == IF r.body = Null THEN <<>> ELSE r.body
Body(c) == SentFields(req[c])

(* The statement fails, or its effect is there and perhaps the reply is lost.*)
Fails(c, error) ==
  Reply(c, error) /\ failed' = [failed EXCEPT ![c] = TRUE] /\ UNCHANGED db
Returns(c, a, error) ==
  \/ Reply(c, a) /\ UNCHANGED failed
  \/ Reply(c, error) /\ failed' = [failed EXCEPT ![c] = TRUE]

(* The name of the table and those of an update's fields are written into   *)
(* the statement as they were sent.  When they are names that were read,    *)
(* the statement is the one the code has in mind.                           *)
Exact(r) ==
  /\ TableOf(r) \in DOMAIN model
  /\ r.method = "POST" => DOMAIN SentFields(r) \subseteq {f.Name : f \in FieldSet(TableOf(r))}

(* Otherwise it is an error, or whatever the database makes of the names:   *)
(* they may denote a table or a column all the same, as another case does.  *)
OtherStatement(c, what, error) ==
  /\ db' \in Outcomes(db)
  /\ IsDatabase(db')
  /\ \E n \in 0 .. MaxId : Returns(c, Ok(what, n), error)

(* Mutant: a NULL number is shown as 0, as getEntries does.                 *)
ShownAsZero(t, row) ==
  [n \in DOMAIN row |->
     IF row[n] = Null /\ (\E f \in FieldSet(t) : f.Name = n /\ IsInt(f)) THEN 0 ELSE row[n]]

(* getEntry.  A NULL of an int column is left out of the record.            *)
Shown(t, row) ==
  LET ints == {f.Name : f \in {g \in FieldSet(t) : IsInt(g)}}
  IN [n \in {m \in DOMAIN row : ~(m \in ints /\ row[m] = Null)} |-> row[n]]

(* Without rows Scan says so first; then it wants a place for each column.  *)
GetEntry(c) ==
  LET t == EntryTable(req[c].path)
      id == EntryId(req[c].path)
  IN /\ Sends(c, "entry", "GET")
     /\ \/ Fails(c, ServerError)
        \/ /\ Exact(req[c]) /\ PrimaryKey(t) # "" /\ ReadWhole(t)
           /\ id \in DOMAIN db[t]
           /\ Reply(c, Ok("record", Shown(t, db[t][id])))
           /\ UNCHANGED <<db, failed>>
        \/ /\ Exact(req[c]) => PrimaryKey(t) # "" /\ id \notin DOMAIN db[t]
           /\ Reply(c, Status(404, "record not found"))
           /\ UNCHANGED <<db, failed>>
     /\ UNCHANGED <<model, phase, req, listVars>>

(* createEntry's INSERT: the database gives an id of 0 or none a free one.  *)
(* A NOT NULL column without a value is refused.                            *)
InsertedRow(t, cells, id) ==
  [n \in Columns(t) |->
     LET i == CHOOSE i \in DOMAIN Schema[t] : Schema[t][i].Name = n
     IN IF Schema[t][i].Key = "PRI" THEN id
        ELSE IF n \in DOMAIN cells THEN cells[n] ELSE Schema[t][i].Default]

CreateEntry(c) ==
  LET t == TableName(req[c].path)
  IN /\ Sends(c, "table", "PUT")
     /\ \/ Fails(c, ServerError)
        \/ /\ Exact(req[c])
           /\ \E id \in (1 .. MaxId) \ DOMAIN db[t] :
                LET row == InsertedRow(t, CreateCells(t, Body(c)), id)
                IN /\ \A i \in DOMAIN Schema[t] :
                        row[Schema[t][i].Name] = Null => Schema[t][i].Null = "YES"
                   /\ db' = [db EXCEPT ![t] = [k \in DOMAIN @ \cup {id} |-> IF k = id THEN row ELSE @[k]]]
                   /\ Returns(c, Ok(PrimaryKey(t), id), ServerError)
        \/ ~Exact(req[c]) /\ OtherStatement(c, PrimaryKey(t), ServerError)
     /\ UNCHANGED <<model, phase, req, listVars>>

(* upadteEntry's UPDATE; the answer is the number of rows changed.          *)
Updated(t, id, cells) ==
  [n \in Columns(t) |-> IF n \in DOMAIN cells THEN cells[n] ELSE db[t][id][n]]

UpdateEntry(c) ==
  LET t == EntryTable(req[c].path)
      id == EntryId(req[c].path)
      cells == Cells(DOMAIN Body(c), Body(c))
  IN /\ Sends(c, "entry", "POST")
     /\ \/ Fails(c, ServerError)
        \/ /\ Exact(req[c]) /\ PrimaryKey(t) # "" /\ DOMAIN cells # {}
           /\ id \in DOMAIN db[t]
           /\ db' = [db EXCEPT ![t][id] = Updated(t, id, cells)]
           /\ Returns(c, Ok("updated", IF Updated(t, id, cells) = db[t][id] THEN 0 ELSE 1), ServerError)
        \/ /\ Exact(req[c]) /\ PrimaryKey(t) # "" /\ DOMAIN cells # {}
           /\ id \notin DOMAIN db[t]
           /\ Reply(c, Ok("updated", 0))
           /\ UNCHANGED <<db, failed>>
        \/ ~Exact(req[c]) /\ OtherStatement(c, "updated", ServerError)
     /\ UNCHANGED <<model, phase, req, listVars>>

(* deleteEntry.  handleEntry asks whether err differs from itself, and so   *)
(* answers a failure with 200 and an empty result.                          *)
NoResult == Ok("deleted", Null)
DeleteEntry(c) ==
  LET t == EntryTable(req[c].path)
      id == EntryId(req[c].path)
  IN /\ Sends(c, "entry", "DELETE")
     /\ \/ Fails(c, NoResult)
        \/ /\ Exact(req[c]) /\ PrimaryKey(t) # ""
           /\ db' = [db EXCEPT ![t] = [k \in DOMAIN @ \ {id} |-> @[k]]]
           /\ Returns(c, Ok("deleted", IF id \in DOMAIN db[t] THEN 1 ELSE 0), NoResult)
        \/ ~Exact(req[c]) /\ OtherStatement(c, "deleted", NoResult)
     /\ UNCHANGED <<model, phase, req, listVars>>

-----------------------------------------------------------------------------
(* getEntries.  The rows come in the order of their ids.                    *)
Nth(ids, i) == CHOOSE id \in ids : Cardinality({k \in ids : k <= id}) = i
Selected(t, r) ==
  LET ids == DOMAIN db[t]
      offset == Param(r.offset, 0)
      end == offset + Param(r.limit, 5)
      last == IF end < Cardinality(ids) THEN end ELSE Cardinality(ids)
  IN [i \in 1 .. last - offset |-> db[t][Nth(ids, offset + i)]]

(* Of rows that another name selects it matters only that there are some.   *)
OtherRows == {<<>>} \cup UNION {{<<db[u][id]>> : id \in DOMAIN db[u]} : u \in Tables}

ListQuery(c) ==
  /\ Sends(c, "table", "GET")
  /\ \/ Fails(c, ServerError) /\ UNCHANGED listVars
     \/ /\ held < MaxHeld
        /\ Param(req[c].limit, 5) >= 0 /\ Param(req[c].offset, 0) >= 0
        /\ \E all \in IF Exact(req[c]) THEN {Selected(TableName(req[c].path), req[c])} ELSE OtherRows :
             /\ rows' = [rows EXCEPT ![c] = all]
             /\ listed' = [listed EXCEPT ![c] = all]
        /\ held' = held + 1
        /\ pc' = [pc EXCEPT ![c] = "scan"]
        /\ UNCHANGED <<db, answer, failed, vals, records, left>>
  /\ UNCHANGED <<model, phase, req>>

(* Mutant: no text is copied out of the buffer.                             *)
RecordedByReference(t, row) ==
  LET ints == {f.Name : f \in {g \in FieldSet(t) : IsInt(g)}}
  IN [copied |-> [n \in ints |-> IF row[n] = Null THEN 0 ELSE row[n]],
      shared |-> DOMAIN row \ ints]

(* A number is converted, NULL into 0.  A text is copied unless it is empty *)
(* or NULL: then the record refers to the buffer of its column.             *)
Recorded(t, row) ==
  LET ints == {f.Name : f \in {g \in FieldSet(t) : IsInt(g)}}
      empty == {n \in DOMAIN row \ ints : row[n] \in {Null, ""}}
  IN [copied |-> [n \in DOMAIN row \ empty |-> IF row[n] = Null THEN 0 ELSE row[n]],
      shared |-> empty]

ListScan(c) ==
  /\ pc[c] = "scan"
  /\ rows[c] # <<>>
  /\ ReadWhole(TableName(req[c].path))
  /\ vals' = [vals EXCEPT ![c] = Head(rows[c])]
  /\ records' = [records EXCEPT ![c] = Append(@, Recorded(TableName(req[c].path), Head(rows[c])))]
  /\ rows' = [rows EXCEPT ![c] = Tail(@)]
  /\ UNCHANGED <<db, model, phase, pc, req, answer, failed, held, left, listed>>

(* A row has more columns than fields are known: the index is out of range, *)
(* the request's connection breaks, and the rows are not closed.            *)
ListScanPanics(c) ==
  /\ pc[c] = "scan"
  /\ rows[c] # <<>>
  /\ ~ReadWhole(TableName(req[c].path))
  /\ Reply(c, Status(0, "broken"))
  /\ left' = left + 1
  /\ UNCHANGED <<db, model, phase, req, failed, rows, vals, records, held, listed>>

(* Scan fails: the error is returned, and the rows are not closed.          *)
ListScanFails(c) ==
  /\ pc[c] = "scan"
  /\ rows[c] # <<>>
  /\ Fails(c, ServerError)
  /\ left' = left + 1
  /\ UNCHANGED <<model, phase, req, rows, vals, records, held, listed>>

(* A reference to a buffer is followed when the answer is written: bytes    *)
(* are shown in base64.  By then the driver may have reused their memory.   *)
InBase64(bytes, reused) ==
  IF bytes \in {Null, ""} THEN bytes ELSE IF reused THEN Garbage ELSE Base64(bytes)
Written(record, buffer, reused) ==
  [n \in DOMAIN record.copied \cup record.shared |->
     IF n \in record.shared THEN InBase64(buffer[n], reused) ELSE record.copied[n]]

Recordset(c, reused) ==
  Ok("records", [i \in DOMAIN records[c] |-> Written(records[c][i], vals[c], reused)])

(* Mutant: the rows are closed only when there were some.                   *)
ListEndUnclosed(c) ==
  /\ pc[c] = "scan"
  /\ rows[c] = <<>>
  /\ held' = IF listed[c] = <<>> THEN held ELSE held - 1
  /\ \E reused \in BOOLEAN : Reply(c, Recordset(c, reused))
  /\ UNCHANGED <<db, model, phase, req, failed, rows, vals, records, left, listed>>

(* Next is false after the last row, and closes the rows.                   *)
ListEnd(c) ==
  /\ pc[c] = "scan"
  /\ rows[c] = <<>>
  /\ held' = held - 1
  /\ \E reused \in BOOLEAN : Reply(c, Recordset(c, reused))
  /\ UNCHANGED <<db, model, phase, req, failed, rows, vals, records, left, listed>>

(* Next is false, and closes the rows, also when the connection is lost:    *)
(* rows.Err is not asked, and what was read so far is the answer.           *)
ListLost(c) ==
  /\ pc[c] = "scan"
  /\ held' = held - 1
  /\ \E reused \in BOOLEAN : Reply(c, Recordset(c, reused))
  /\ failed' = [failed EXCEPT ![c] = TRUE]
  /\ UNCHANGED <<db, model, phase, req, rows, vals, records, left, listed>>

(* The next request on this client's connection.                            *)
Finish(c) ==
  /\ pc[c] = "answered"
  /\ pc' = [pc EXCEPT ![c] = "idle"]
  /\ req' = [req EXCEPT ![c] = NoRequest]
  /\ answer' = [answer EXCEPT ![c] = NoAnswer]
  /\ rows' = [rows EXCEPT ![c] = <<>>]
  /\ vals' = [vals EXCEPT ![c] = <<>>]
  /\ records' = [records EXCEPT ![c] = <<>>]
  /\ listed' = [listed EXCEPT ![c] = <<>>]
  /\ failed' = [failed EXCEPT ![c] = FALSE]
  /\ UNCHANGED <<db, model, phase, held, left>>

Next ==
  \/ NewDbExplorer
  \/ \E c \in Clients :
       \/ Receive(c) \/ Finish(c)
       \/ GetEntry(c) \/ CreateEntry(c) \/ UpdateEntry(c) \/ DeleteEntry(c)
       \/ ListQuery(c) \/ ListScan(c) \/ ListScanPanics(c) \/ ListScanFails(c)
       \/ ListEnd(c) \/ ListLost(c)

Spec == Init /\ [][Next]_vars

-----------------------------------------------------------------------------
(* What a client may rely on.                                               *)
TypeOK ==
  /\ phase \in {"starting", "serving", "failed"}
  /\ DOMAIN model \subseteq Tables
  /\ IsDatabase(db)
  /\ \A c \in Clients :
       /\ pc[c] \in {"idle", "execute", "scan", "answered"}
       /\ req[c] \in Requests \cup {NoRequest}
  /\ held \in Nat /\ left \in Nat

(* A path is cut at its slashes; limit and offset are numbers where they    *)
(* are read.                                                                *)
ASSUME RequestsAssumption ==
  \A r \in Requests :
    {r.limit, r.offset} \subseteq {Absent, Malformed} \cup Int /\ r.path \in Seq(STRING)

(* What of a body is in a row: the values of fields that were read, but not *)
(* the key.                                                                 *)
Holds(t, row, body) ==
  \A f \in FieldSet(t) :
    f.Name \in DOMAIN body /\ f.Name # KeyName(t) => row[f.Name] = CellOf(body[f.Name])

(* The step wrote what r asks for: nothing but one row, which is a new one  *)
(* or the one whose id the path gives, and of it only the fields it sends.  *)
Wrote(r) ==
  LET t == TableOf(r)
      old == db[t]
      new == db'[t]
  IN /\ \A u \in Tables \ {t} : db'[u] = db[u]
     /\ \E id \in DOMAIN old \cup DOMAIN new :
          /\ \A k \in (DOMAIN old \cap DOMAIN new) \ {id} : new[k] = old[k]
          /\ \/ /\ r.method = "PUT"
                /\ id \notin DOMAIN old /\ DOMAIN new = DOMAIN old \cup {id}
                /\ new[id][KeyName(t)] = id /\ Holds(t, new[id], SentFields(r))
             \/ /\ r.method = "POST" /\ id = EntryId(r.path)
                /\ id \in DOMAIN old /\ DOMAIN new = DOMAIN old
                /\ new[id][KeyName(t)] = id /\ Holds(t, new[id], SentFields(r))
                /\ \A n \in DOMAIN old[id] \ DOMAIN SentFields(r) : new[id][n] = old[id][n]
             \/ /\ r.method = "DELETE" /\ id = EntryId(r.path)
                /\ DOMAIN new = DOMAIN old \ {id}

WrittenBy(c) ==
  /\ pc[c] = "execute" /\ pc'[c] = "answered"
  /\ req[c].method # "GET"
  /\ Exact(req[c]) => Wrote(req[c])

(* Nothing but a PUT, POST or DELETE that is executed changes the database, *)
(* whatever its reply, and when its names are names that were read it       *)
(* changes one row of the table they denote, and never a key.  The table of *)
(* a PUT is its path without the slashes, of another the first segment.     *)
WritesNamed == [][db' # db => \E c \in Clients : WrittenBy(c)]_vars

(* The answer a of a step, when the database did not fail, agrees with the  *)
(* tables: a record is the stored one, not found means no such row, and     *)
(* what is said to be created, updated or deleted is.                       *)
Agrees(r, a) ==
  LET t == TableOf(r)
      id == EntryId(r.path)
      Done(method) == a.status = 200 /\ r.method = method
  IN /\ a.status = 404 => db' = db /\ id \notin DOMAIN db[t]
     /\ Done("GET") =>
          /\ db' = db /\ id \in DOMAIN db[t]
          /\ \A n \in Columns(t) :
               IF n \in DOMAIN a.value THEN a.value[n] = db[t][id][n] ELSE db[t][id][n] = Null
     /\ Done("PUT") =>
          /\ PrimaryKey(t) # "" => a.what = KeyName(t)
          /\ a.value \in DOMAIN db'[t] \ DOMAIN db[t]
     /\ Done("POST") => ((a.value = 1) <=> (db' # db))
     /\ Done("DELETE") => id \notin DOMAIN db'[t] /\ ((a.value = 1) <=> (id \in DOMAIN db[t]))

(* An answer says what the statement did, though the rows it is about are   *)
(* those of the other clients too: for names that were read, and unless the *)
(* database failed.                                                         *)
AnswersTrue ==
  [][\A c \in Clients :
       pc[c] = "execute" /\ pc'[c] = "answered" /\ Exact(req[c]) /\ ~failed'[c]
         => Agrees(req[c], answer'[c])]_vars

ShowsList(c) ==
  /\ pc[c] = "answered"
  /\ req[c].method = "GET"
  /\ answer[c].status = 200
  /\ answer[c].what = "records"

CellShown(f, cell, text) == cell # Null /\ (IsInt(f) \/ cell # "") => text = cell

(* getEntries reuses one buffer for all rows.  A list shows all rows of one *)
(* moment in their order, or the first ones if the connection was lost,     *)
(* with their numbers and texts, whatever is written meanwhile.  Nothing is *)
(* promised here of a NULL or an empty text: see AnswersExact.              *)
ListShown ==
  \A c \in Clients :
    ShowsList(c) =>
      LET shown == answer[c].value
          all == listed[c]
      IN /\ Len(shown) <= Len(all)
         /\ failed[c] \/ Len(shown) = Len(all)
         /\ \A i \in DOMAIN shown : \A f \in FieldSet(TableName(req[c].path)) :
              CellShown(f, all[i][f.Name], shown[i][f.Name])

(* Rows keep a connection of the pool.  They are closed when a list ends,   *)
(* also when its connection is lost; a failed Scan and a panic leave them   *)
(* open for ever, and nothing else does.                                    *)
RowsClosed == held = Cardinality({c \in Clients : pc[c] = "scan"}) + left

(* hw6.md:26 wants a 500 for any error, and main_test.go:138 a NULL shown   *)
(* as it is: an answer of 200 hides no error, and a list shows its rows as  *)
(* they are stored.  The code does otherwise, at lines 130, 140, 144, 497.  *)
AnswersExact ==
  \A c \in Clients :
    /\ pc[c] = "answered" /\ answer[c].status = 200 => ~failed[c]
    /\ ShowsList(c) => answer[c].value = listed[c]
=============================================================================
