------------------------------- MODULE Search -------------------------------
(***************************************************************************)
(* SlowSearch (common.go) and FastSearch (fast.go) of chapter1/hw3: the    *)
(* users that have met both Android and MSIE, and the number of browsers   *)
(* of either kind.  The fast one must print what the slow one prints.      *)
(*                                                                         *)
(* The file is a sequence of lines: [kind |-> "user", members |-> ...], a  *)
(* sequence of <<key, value>>; "bad", which is no JSON from its start on,   *)
(* as an empty line is; or "long", a user in a line beyond the buffer of   *)
(* bufio.Scanner.  A value has the type "text", "list" (of values), "null" *)
(* or "other".  A browser is a text whose value is a number and the names  *)
(* that occur in it.                                                       *)
(***************************************************************************)
EXTENDS Integers, Sequences, Functions

VARIABLE file      \* the file that is searched

Text(t) == [type |-> "text", text |-> t]
Null == [type |-> "null"]
Unset == Text(<<0, {}>>)                 \* the empty string

Masked(email) == <<email, "[at]">>       \* "@" written as " [at] "
Line(i, user, masked) == <<i, user.name, masked>>
Nothing == [found |-> <<>>, seen |-> {}, panic |-> FALSE]

IsUser(line) == line.kind \in {"user", "long"}
Mentions(browser, name) == name \in browser.text[2]
Texts(list) == {b \in Range(list.list) : b.type = "text"}

-----------------------------------------------------------------------------
(* SlowSearch: a map per line, in which the last of equal keys counts; a    *)
(* line without a list of browsers is passed over.                          *)
Member(line, key) ==
  LET at == {i \in DOMAIN line.members : line.members[i][1] = key}
  IN IF at = {} THEN Null ELSE line.members[CHOOSE i \in at : \A k \in at : k <= i][2]

SlowLine(s, i, line) ==
  LET browsers == Member(line, "browsers")
      With(name) == {b \in Texts(browsers) : Mentions(b, name)}
      seen == s.seen \cup With("Android") \cup With("MSIE")
      user == [name |-> Member(line, "name")]
      email == Member(line, "email")
  IN IF browsers.type # "list" THEN s
     ELSE IF With("Android") = {} \/ With("MSIE") = {} THEN [s EXCEPT !.seen = seen]
     ELSE IF email.type # "text" THEN [s EXCEPT !.seen = seen, !.panic = TRUE]
     ELSE [s EXCEPT !.seen = seen, !.found = Append(@, Line(i, user, Masked(email)))]

(* All lines are parsed before the first is looked at.                      *)
SlowLines ==
  LET after[i \in 0 .. Len(file)] ==
        IF i = 0 THEN Nothing
        ELSE IF after[i - 1].panic THEN after[i - 1]
        ELSE SlowLine(after[i - 1], i - 1, file[i])
  IN after

SlowSearch ==
  IF \E i \in DOMAIN file : ~IsUser(file[i]) THEN [Nothing EXCEPT !.panic = TRUE]
  ELSE SlowLines[Len(file)]

-----------------------------------------------------------------------------
(* The easyjson decoder of User, into the record that is there: null leaves *)
(* a field as it is, and a wrong type ends the decoding, which FastSearch   *)
(* does not look at.  A list replaces the one before, up to an element that *)
(* is no text.  Of the fields that no search reads, only that a wrong type  *)
(* ends the decoding is kept.                                               *)
Unread == {"company", "country", "job", "phone"}

FirstBad(list) ==
  LET bad == {i \in DOMAIN list.list : list.list[i].type # "text"}
  IN IF bad = {} THEN Len(list.list) + 1 ELSE CHOOSE i \in bad : \A k \in bad : i <= k

(* Mutant: a list is appended to the one before.                            *)
DecodeMemberAppend(u, key, value) ==
  IF value.type = "null" THEN u ELSE
  CASE key = "browsers" ->
         IF value.type # "list" THEN [u EXCEPT !.ok = FALSE]
         ELSE [u EXCEPT !.browsers = @ \o SubSeq(value.list, 1, FirstBad(value) - 1)]
    [] key \in {"name", "email"} ->
         IF value.type = "text" THEN [u EXCEPT ![key] = value] ELSE [u EXCEPT !.ok = FALSE]
    [] OTHER -> u

DecodeMember(u, key, value) ==
  IF value.type = "null" THEN u ELSE
  CASE key = "browsers" ->
         IF value.type # "list" THEN [u EXCEPT !.browsers = <<>>, !.ok = FALSE]
         ELSE [u EXCEPT !.browsers = SubSeq(value.list, 1, FirstBad(value) - 1),
                        !.ok = FirstBad(value) > Len(value.list)]
    [] key \in {"name", "email"} ->
         IF value.type = "text" THEN [u EXCEPT ![key] = value]
         ELSE [u EXCEPT ![key] = Unset, !.ok = FALSE]
    [] key \in Unread -> [u EXCEPT !.ok = (value.type = "text")]
    [] OTHER -> u

DecodeMembers(user, members) ==
  LET after[i \in 0 .. Len(members)] ==
        IF i = 0 THEN [user EXCEPT !.ok = TRUE]
        ELSE IF ~after[i - 1].ok THEN after[i - 1]
        ELSE DecodeMember(after[i - 1], members[i][1], members[i][2])
  IN after

Decode(user, line) ==
  IF line.kind = "user" THEN DecodeMembers(user, line.members)[Len(line.members)] ELSE user

(* The browsers of one user: a new one is counted under the first name that *)
(* it is found by, and is not looked at for the second.                     *)
Browse(s, browser) ==
  LET new == browser \notin s.seen
      android == Mentions(browser, "Android")
      msie == Mentions(browser, "MSIE")
  IN [seen |-> s.seen \cup (IF android \/ msie THEN {browser} ELSE {}),
      isAndroid |-> s.isAndroid \/ android,
      isMSIE |-> s.isMSIE \/ (msie /\ ~(android /\ new))]

BrowseAll(seen, browsers) ==
  LET after[i \in 0 .. Len(browsers)] ==
        IF i = 0 THEN [seen |-> seen, isAndroid |-> FALSE, isMSIE |-> FALSE]
        ELSE Browse(after[i - 1], browsers[i])
  IN after

FastLine(s, i, line) ==
  LET user == Decode(s.user, line)
      b == BrowseAll(s.seen, user.browsers)[Len(user.browsers)]
  IN [s EXCEPT !.user = user, !.seen = b.seen,
               !.found = IF b.isAndroid /\ b.isMSIE
                         THEN Append(@, Line(i, user, Masked(user.email))) ELSE @]

(* One user record for all lines; the scanner stops at a line too long.     *)
NoUser == [browsers |-> <<>>, name |-> Unset, email |-> Unset, ok |-> TRUE]
FastLines ==
  LET after[i \in 0 .. Len(file)] ==
        IF i = 0 THEN [found |-> <<>>, seen |-> {}, done |-> FALSE, user |-> NoUser]
        ELSE IF after[i - 1].done \/ file[i].kind = "long" THEN [after[i - 1] EXCEPT !.done = TRUE]
        ELSE FastLine(after[i - 1], i - 1, file[i])
  IN after

FastSearch == FastLines[Len(file)]

-----------------------------------------------------------------------------
(* A file as described above.                                               *)
IsSeq(s) == s \in Seq(Range(s))
IsFile ==
  /\ IsSeq(file)
  /\ \A i \in DOMAIN file :
       /\ IsSeq(file[i].members)
       /\ \A k \in DOMAIN file[i].members :
            LET value == file[i].members[k][2] IN value.type = "list" => IsSeq(value.list)

(* A line as the task's file has them: the three fields, each once and of   *)
(* its type, and of the others that the decoder knows none of a wrong type. *)
Complete(line) ==
  /\ line.kind = "user"
  /\ \A key \in {"browsers", "name", "email"} :
       \E i \in DOMAIN line.members :
         /\ line.members[i][1] = key
         /\ \A k \in DOMAIN line.members : line.members[k][1] = key => k = i
         /\ line.members[i][2].type = IF key = "browsers" THEN "list" ELSE "text"
  /\ \A i \in DOMAIN line.members :
       line.members[i][1] \in Unread => line.members[i][2].type \in {"text", "null"}
  /\ Texts(Member(line, "browsers")) = Range(Member(line, "browsers").list)

AllComplete == \A i \in DOMAIN file : Complete(file[i])

(* What was found, for the complete lines only.                             *)
Sure(found) == {f \in Range(found) : Complete(file[f[1] + 1])}

(* The users are printed in the order of their lines, each once.            *)
InFileOrder(found) == \A a, b \in DOMAIN found : a < b => found[a][1] < found[b][1]

(* Line i has no MSIE that FastSearch must notice: each browser with this   *)
(* name has the name Android too, and is a new one.                         *)
OnlyHidden(i) ==
  \A b \in Texts(Member(file[i], "browsers")) :
    Mentions(b, "MSIE") =>
      /\ Mentions(b, "Android")
      /\ AllComplete => \A k \in 1 .. i - 1 : b \notin Texts(Member(file[k], "browsers"))

(* Both searches agree on a file of complete lines, in any order of the     *)
(* fields: FastSearch counts the same browsers, and prints the same users   *)
(* in the same order, but for those whose MSIE it cannot notice (fast.go    *)
(* 200-214).  Where a line lacks a field, has null there or a value of a    *)
(* wrong type, the user record still holds an older value: that spoils what *)
(* is printed of this line, but of no complete one.                         *)
Agree ==
  /\ AllComplete => ~SlowSearch.panic /\ FastSearch.seen = SlowSearch.seen
  /\ ~SlowSearch.panic /\ (\A i \in DOMAIN file : file[i].kind = "user") =>
       /\ InFileOrder(SlowSearch.found) /\ InFileOrder(FastSearch.found)
       /\ Sure(FastSearch.found) \subseteq Sure(SlowSearch.found)
       /\ \A f \in Sure(SlowSearch.found) \ Sure(FastSearch.found) : OnlyHidden(f[1] + 1)

SearchesAgree == IsFile => Agree
=============================================================================
