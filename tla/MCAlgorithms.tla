---------------------------- MODULE MCAlgorithms ----------------------------
(***************************************************************************)
(* The programs that an input or its requests decide, as one instance for  *)
(* TLC.  A behaviour is either the server of chapter2/hw1 with concurrent  *)
(* requests, or one program that computes an answer from one input, taken  *)
(* by one of the actions below, or a search and the turning of its pages.  *)
(***************************************************************************)
EXTENDS UserApi, HandlersGen, FindUsers, Search

Conversion == INSTANCE I2S
Tree == INSTANCE DirTree

VARIABLE input

NoInput == [program |-> "none"]
Server == [program |-> "server"]

UpTo(n, S) == UNION {[1 .. k -> S] : k \in 0 .. n}

-----------------------------------------------------------------------------
(* Texts that matter to the checks, which ask for the length of logins only.*)
(* "%40" and "%20" are encodings; all other texts stand for themselves.     *)
MCUnescape(t) ==
  CASE t = "ten%20char" -> "ten char" [] t = "anna%40mail" -> "anna@mail" [] OTHER -> t
MCUpToEq(t) == CASE t = "a=b" -> "a" [] t = "boris=boris" -> "boris" [] OTHER -> t
MCLower(t) ==
  CASE t = "Login" -> "login" [] t = "Username" -> "username" [] t = "Status" -> "status"
    [] t = "Class" -> "class" [] t = "Age" -> "age" [] t = "Level" -> "level"
MCLength(t) ==
  CASE t = "" -> 0 [] t = "a" -> 1 [] t = "ab" -> 2 [] t \in {"abc", "a=b"} -> 3
    [] t = "user" -> 4 [] t = "boris" -> 5 [] t \in {"ten char", "bad_user"} -> 8
    [] t = "nine char" -> 9 [] t \in {"ten chars.", "anna@mail"} -> 10 [] OTHER -> 11
Numbers == << <<"-1", -1>>, <<"0", 0>>, <<"1", 1>>, <<"33", 33>>, <<"50", 50>>, <<"51", 51>>,
              <<"128", 128>>, <<"129", 129>> >>
MCIsInt(t) == \E i \in DOMAIN Numbers : Numbers[i][1] = t
MCAtoi(t) == Numbers[CHOOSE i \in DOMAIN Numbers : Numbers[i][1] = t][2]

Request(path, method, token, params) ==
  [path |-> path, method |-> method, token |-> token, params |-> params]

-----------------------------------------------------------------------------
(* Requests that meet one another in the store of users.                    *)
Creation(login, name) ==
  Request("/user/create", "POST", "100500",
          <<<<"login", login>>, <<"full_name", name>>, <<"age", "33">>>>)
ProfileBy(method, login) ==
  Request("/user/profile", method, "", <<<<"login", login>>>>)

MCHttpRequests ==
  {Creation("anna%40mail", "Anna"), Creation("mr.moderator", "Ivan"),
   Creation("mr.moderator", "Petr"), Creation("boris=boris", "Boris"),
   Creation("bad_username", "Bad")}
  \cup {ProfileBy(m, l) : m \in {"GET", "POST"}, l \in {"anna%40mail", "mr.moderator"}}
  \cup {ProfileBy("PUT", "rvasily"),
        Request("/user/create", "POST", "", <<<<"login", "mr.moderator">>>>)}

-----------------------------------------------------------------------------
(* Requests to the two servers of chapter2/hw1, on both sides of all limits.*)
Logins == {"", "ab", "abc", "a=b", "nine char", "ten chars.", "ten%20char"}
Choices == {"", "user", "rouge", "king"}
Ages == {"", "x"} \cup {Numbers[i][1] : i \in DOMAIN Numbers}
Parameters ==
  {<<<<l, login>>, <<c, choice>>, <<a, age>>>> :
     l \in {"login", "username"}, login \in Logins, c \in {"status", "class"}, choice \in Choices,
     a \in {"age", "level"}, age \in Ages}
  \cup {<<<<l>>, <<l, "ten chars.">>, <<l, "ab">>, <<n, "Name">>>> :
          l \in {"login", "username"}, n \in {"name", "full_name", "account_name"}}
Requests ==
  [path : {"/user/profile", "/user/create"}, method : {"GET", "POST"}, token : {"100500"},
   params : Parameters]
  \cup [path : {"/user/profile", "/user/create", "/user/"}, method : {"GET", "POST", "PUT"},
        token : {"", "any"}, params : {<<<<"login", "ten chars.">>>>, <<>>}]

FirstRequest == [path |-> "/user/", method |-> "GET", token |-> "", params |-> <<>>]
TakeRequest == input' = [program |-> "request"] /\ request' \in Requests

-----------------------------------------------------------------------------
(* Users lists and searches: pages of 2 at most, up to 5 users.             *)
Person(i, age, name, match) == [Id |-> i, Age |-> age, Name |-> name, match |-> match]
Anna == Person(0, 30, 3, TRUE)
Boris == Person(1, 20, 2, TRUE)
Clara == Person(2, 40, 1, FALSE)
Dmitri == Person(3, 10, 5, TRUE)
Elena == Person(4, 20, 4, TRUE)
UserLists == {<<>>, <<Boris, Anna>>, <<Clara, Dmitri, Anna, Boris>>,
              <<Anna, Boris, Clara, Dmitri, Elena>>}
SearchRequests ==
  [Limit : -1 .. 4, Offset : {-1, 0, 1, 3}, OrderField : {"", "Id", "Age", "City"},
   OrderBy : {-1, 0, 1}, TokenOk : BOOLEAN]
MCCases ==
  {c \in [users : UserLists, req : SearchRequests, server : {"pages", "tests"}] :
     c.server = "tests" \/ (c.req.TokenOk /\ c.req.OrderField # "City")}

-----------------------------------------------------------------------------
(* Files of up to two lines of users, each with up to two browsers.         *)
Android == Text(<<1, {"Android"}>>)
MSIE == Text(<<2, {"MSIE"}>>)
Both == Text(<<3, {"Android", "MSIE"}>>)
Firefox == Text(<<4, {}>>)
Name(n) == <<"name", Text(<<n, {}>>)>>
Email(n) == <<"email", Text(<<n, {}>>)>>
BrowserList(list) == <<"browsers", [type |-> "list", list |-> list]>>
UserLine(members) == [kind |-> "user", members |-> members]
Odd == [type |-> "other"]
WholeLines ==
  {UserLine(<<Name(n), BrowserList(b), Email(n)>>) :
     b \in UpTo(2, {Android, MSIE, Both, Firefox}), n \in {10, 20}}
  \cup {UserLine(<<<<"phone", Null>>, Name(10), <<"job", Text(<<5, {}>>)>>,
                   BrowserList(<<Firefox, Android, MSIE>>), <<"id", Odd>>, Email(10)>>)}
OddLines ==
  {UserLine(<<Name(30), BrowserList(<<Android, MSIE>>)>>),
   UserLine(<<BrowserList(<<Android, MSIE>>), <<"email", Null>>, Name(30)>>),
   UserLine(<<Name(30), <<"browsers", Null>>, Email(30)>>),
   UserLine(<<Name(30), Email(30)>>),
   UserLine(<<Name(30), Email(30), BrowserList(<<Android, Odd, MSIE>>)>>),
   UserLine(<<BrowserList(<<Android, MSIE>>), <<"name", Odd>>, Email(30)>>),
   UserLine(<<<<"phone", Odd>>, BrowserList(<<Android, MSIE>>), Email(30), Name(30)>>),
   UserLine(<<Name(30), BrowserList(<<MSIE, Android>>), <<"company", Odd>>, Email(30)>>),
   UserLine(<<BrowserList(<<Firefox>>), BrowserList(<<Android, MSIE>>), Email(30), Name(30)>>),
   [kind |-> "bad", members |-> <<>>],
   [kind |-> "long", members |-> <<Name(30), BrowserList(<<Android, MSIE>>), Email(30)>>]}
Files ==
  UpTo(2, WholeLines)
  \cup {<<a, b, c>> : a \in OddLines, b \in OddLines \cup WholeLines, c \in WholeLines}

TakeFile == input' = [program |-> "file"] /\ file' \in Files

-----------------------------------------------------------------------------
(* Values for i2s: a struct of three fields, of which one is not exported,  *)
(* slices of it and a struct of both; JSON that fits them or does not.      *)
Basic(kind) == [kind |-> kind]
SliceOf(elem) == [kind |-> "slice", elem |-> elem]
StructOf(fields, settable) == [kind |-> "struct", fields |-> fields, settable |-> settable]
Simple == StructOf([ID |-> Basic("int"), Username |-> Basic("string"), active |-> Basic("bool")],
                   {"ID", "Username"})
Complex == StructOf([Sub |-> Simple, Many |-> SliceOf(Simple), Active |-> Basic("bool"),
                     Numbers |-> SliceOf(Basic("int")), Rate |-> Basic("float64")],
                    {"Sub", "Many", "Active", "Numbers", "Rate"})
Num(halves) == [sort |-> "num", num |-> halves]
Str == [sort |-> "str", str |-> "text"]
True == [sort |-> "bool", bool |-> TRUE]
List(elems) == [sort |-> "list", elems |-> elems]
Map(members) == [sort |-> "map", members |-> members]
Scalars == {Num(-3), Num(84), Str, True, [sort |-> "null"]}
Maps(keys, values) == UNION {{Map(m) : m \in [k -> values]} : k \in SUBSET keys}
SimpleMaps == Maps({"ID", "Username", "active"}, Scalars) \cup Maps({"Other"}, Scalars)
FewMaps == Maps({"ID", "Username"}, {Num(3), Str})
Lists == {List(l) : l \in UpTo(2, FewMaps)}
ComplexMaps ==
  Maps({"Sub", "Many"}, FewMaps \cup Lists)
  \cup Maps({"Active", "Numbers", "Rate", "Sub"},
            {True, Num(2), List(<<>>), List(<<Num(2)>>), Map([ID |-> Num(2)])})
Old == [ID |-> 7, Username |-> "old", active |-> TRUE]
TakeValue ==
  \/ \E in \in SimpleMaps \cup Lists \cup Scalars, p \in BOOLEAN :
       input' = [program |-> "value", in |-> in, type |-> Simple, isPtr |-> p, out |-> Old]
  \/ \E in \in SimpleMaps \cup Lists \cup Scalars, out \in {<<>>, <<Old>>} :
       input' = [program |-> "value", in |-> in, type |-> SliceOf(Simple), isPtr |-> TRUE, out |-> out]
  \/ \E in \in ComplexMaps \cup Lists :
       input' = [program |-> "value", in |-> in, type |-> Complex, isPtr |-> TRUE,
                 out |-> Conversion!ZeroOf(Complex)]

-----------------------------------------------------------------------------
(* Directories of up to two entries, three levels deep.                     *)
Entry(kind, isDir, size, entries) ==
  [kind |-> kind, isDir |-> isDir, size |-> size, entries |-> entries]
Leaves == {Entry("file", FALSE, 0, <<>>), Entry("file", FALSE, 19, <<>>),
           Entry("gone", FALSE, 0, <<>>), Entry("gone", TRUE, 0, <<>>), Entry("dir", TRUE, 0, <<>>)}
NamesInOrder == <<"a", "b">>
Dir(list) == Entry("dir", TRUE, 0, [i \in DOMAIN list |-> <<NamesInOrder[i], list[i]>>])
SmallDirs == {Dir(l) : l \in UpTo(2, Leaves)}
LargeDirs == {Dir(l) : l \in UpTo(2, SmallDirs \cup Leaves)}
Roots == LargeDirs \cup {Dir(<<d, e>>) : d \in LargeDirs, e \in {Dir(<<>>), Entry("file", FALSE, 5, <<>>)}}

TakeTree ==
  \E d \in Roots, seps \in 0 .. 2, f \in BOOLEAN :
    input' = [program |-> "tree", root |-> d, seps |-> seps, printFiles |-> f]

-----------------------------------------------------------------------------
oneRun == <<pageVars, input, request, file>>

MCInit ==
  /\ Init /\ PageInit
  /\ input \in {NoInput, Server} /\ file = <<>> /\ request = FirstRequest

(* One program on one input.                                                *)
Compute ==
  /\ input = NoInput
  /\ \/ /\ chosen = NoCase
        /\ \/ TakeRequest /\ UNCHANGED file
           \/ TakeFile /\ UNCHANGED request
           \/ (TakeValue \/ TakeTree) /\ UNCHANGED <<request, file>>
        /\ UNCHANGED pageVars
     \/ PageNext /\ UNCHANGED <<input, request, file>>
  /\ UNCHANGED vars

MCNext == Compute \/ (input = Server /\ Next /\ UNCHANGED oneRun)

(* The fairness of UserApi; Serve can be taken of a server only.            *)
MCSpec ==
  /\ MCInit /\ [][MCNext]_<<vars, oneRun>>
  /\ \A c \in Clients : WF_vars(Serve(c) /\ UNCHANGED oneRun)

(* See I2S: the conversion does not depend on the order of a map.           *)
ConversionExact ==
  input.program = "value" => Conversion!Exact(input.in, input.type, input.isPtr, input.out)

(* See DirTree: each entry is drawn once, under the right bars.             *)
TreeDrawn ==
  input.program = "tree" => Tree!DrawnRight(input.root, "root", input.seps, input.printFiles)
=============================================================================
