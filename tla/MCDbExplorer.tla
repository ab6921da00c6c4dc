----------------------------- MODULE MCDbExplorer -----------------------------
(***************************************************************************)
(* An instance of DbExplorer for TLC: two tables like those of             *)
(* sample_db.sql, with a column of every kind the code tells apart, and    *)
(* the requests of main_test.go next to paths and bodies that it leaves    *)
(* out.                                                                    *)
(***************************************************************************)
EXTENDS DbExplorer, TLC

Column(name, type, null, key, extra) ==
  [Name |-> name, Type |-> type, Null |-> null, Key |-> key, Default |-> Null, Extra |-> extra]

MCSchema ==
  [items |-> <<Column("id", "int", "NO", "PRI", "auto_increment"),
               Column("title", "text", "NO", "", ""),
               Column("updated", "text", "YES", "", ""),
               Column("count", "int", "YES", "", "")>>,
   itemsold |-> <<Column("old_id", "int", "NO", "PRI", "auto_increment"),
                  Column("title", "text", "NO", "", "")>>]

(* The schema read whole, or cut within the first table.                    *)
MCReads == {[items |-> 4, itemsold |-> 2], [items |-> 2]}

MCFirstRows ==
  [items |-> (1 :> [id |-> 1, title |-> "sql", updated |-> "rvasily", count |-> Null]
           @@ 2 :> [id |-> 2, title |-> "memcache", updated |-> Null, count |-> 7]),
   itemsold |-> (1 :> [old_id |-> 1, title |-> "rvasily"])]

(* Another statement does nothing; it gives a row that is alone another key,*)
(* and removes several.                                                     *)
MCOutcomes(d) ==
  {d, [d EXCEPT !.items = IF DOMAIN @ = {1} THEN 3 :> [@[1] EXCEPT !.id = 3] ELSE <<>>]}

MCStartsWith(segment, name) ==
  segment = name \/ name = "" \/ (segment \in {"items ", "itemsold"} /\ name = "items")
MCStartsWithDigit(segment) == segment \in {"1", "2", "9", "1x"}
MCIsNumber(segment) == segment \in {"1", "2", "9"}
MCNumberOf(segment) == CASE segment = "1" -> 1 [] segment = "2" -> 2 [] OTHER -> 9
MCBase64(text) == CASE text = "rvasily" -> "cnZhc2lseQ==" [] OTHER -> "base64"

Request(method, path, limit, offset, body) ==
  [method |-> method, path |-> path, limit |-> limit, offset |-> offset, body |-> body]
Plain(method, path) == Request(method, path, Absent, Absent, Malformed)
Send(method, path, body) == Request(method, path, Absent, Absent, body)

Num(n) == [type |-> "num", num |-> n]
Str(s) == [type |-> "str", str |-> s]
JsonNull == [type |-> "null"]

MCLists ==
  {Request("GET", <<"items">>, limit, offset, Malformed) :
     <<limit, offset>> \in {<<Absent, Malformed>>, <<1, 1>>, <<-1, 0>>}}
  \cup {Plain("GET", <<"items ">>)}
MCDeletes ==
  {Plain("DELETE", path) : path \in {<<"items", "2">>, <<"items", "1x">>, <<"itemsold", "items", "1">>,
                                      <<"items ", "items", "1">>}}
MCRequests ==
  MCLists \cup MCDeletes
  \cup {Plain("GET", path) : path \in {<<"">>, <<"other">>, <<"items", "1">>, <<"x", "items", "1">>}}
  \cup {Send("PUT", <<"items", "">>, body) :
          body \in {Malformed, Null, [id |-> Num(9), title |-> Str("sql"), count |-> Num(7), other |-> Num(9)],
                     [title |-> Num(9)]}}
  \cup {Send("PUT", <<"items", "old">>, [title |-> Str("sql")]),
        Send("PUT", <<"items", "1">>, Null), Plain("POST", <<"items">>)}
  \cup {Send("POST", <<"items", "1">>, body) :
          body \in {Malformed, Null, [id |-> Num(2)], [ID |-> Num(3)], [title |-> JsonNull],
                     [count |-> JsonNull],
                     [title |-> Str(""), updated |-> JsonNull, count |-> Num(7)]}}

(* Lists of the first rows, and deletions.                                  *)
MCExactRequests == MCLists \cup MCDeletes

MCSymmetry == Permutations(Clients)
=============================================================================
