------------------------------ MODULE FindUsers ------------------------------
(***************************************************************************)
(* SearchClient.FindUsers of chapter1/hw4/client.go, and a caller that     *)
(* turns its pages.  What answers is a parameter: the SearchServer that    *)
(* the repository has for its tests, or one that pages as the client       *)
(* expects.  A user is a record of the numbers Id, Age and Name (names are *)
(* compared only) and of whether it matches the query.  The client's URL   *)
(* can be parsed: with another one there is no request to add a header to, *)
(* and FindUsers panics (lines 99 and 100).                                *)
(***************************************************************************)
EXTENDS Integers, Sequences, FiniteSets, Functions

CONSTANTS
  MaxLimit,     \* the limit that the client asks for at most, 25
  Cases,        \* the users, the first request, and the server: "pages" or "tests"
  MaxPages      \* bound: so many pages are turned at most

VARIABLES
  chosen,       \* the case, or NoCase
  shown,        \* the users of all pages so far
  more,         \* NextPage of the last page, TRUE before the first
  err,          \* why the last call failed
  pages         \* history: how many pages came

pageVars == <<chosen, shown, more, err, pages>>

Smaller(a, b) == IF a < b THEN a ELSE b

Users == [Id : Int, Age : Int, Name : Int, match : BOOLEAN]
SearchRequest ==
  [Limit : Int, Offset : Int, OrderField : STRING, OrderBy : Int, TokenOk : BOOLEAN]

ASSUME CasesAssumption ==
  /\ MaxLimit \in Nat /\ MaxPages \in Nat
  /\ \A c \in Cases :
       c.users \in Seq(Users) /\ c.req \in SearchRequest /\ c.server \in {"pages", "tests"}

NoCase == [server |-> "none"]

-----------------------------------------------------------------------------
(* Servers.                                                                 *)
Respond(status, error, users) == [status |-> status, error |-> error, users |-> users]

(* The place that k - 1 others precede.                                     *)
Ranked(places, precedes, k) ==
  CHOOSE i \in places : Cardinality({j \in places : <<j, i>> \in precedes}) = k - 1

Matching(users) ==
  LET places == {i \in DOMAIN users : users[i].match}
      precedes == {p \in places \X places : p[1] < p[2]}
  IN [k \in 1 .. Cardinality(places) |-> users[Ranked(places, precedes, k)]]

Key(u, field) == CASE field = "Id" -> u.Id [] field = "Age" -> u.Age [] OTHER -> u.Name

(* The permutations that sort the users by the field.                       *)
Sortings(users, req) ==
  LET key == [i \in DOMAIN users |-> Key(users[i], req.OrderField)]
      InOrder(i, j) == IF req.OrderBy = 1 THEN key[i] >= key[j] ELSE key[i] <= key[j]
  IN {p \in Bijection(DOMAIN users, DOMAIN users) :
        \A k, l \in DOMAIN users : k < l => InOrder(p[k], p[l])}

(* Sorted, those of equal keys in any order (sort.Slice is not stable), but *)
(* in the same one whenever the same users are sorted.                      *)
Ordered(users, req) ==
  IF req.OrderBy = 0 THEN users
  ELSE LET p == CHOOSE p \in Sortings(users, req) : TRUE
       IN [k \in DOMAIN users |-> users[p[k]]]

(* The test's SearchServer stops looking at limit users, and sorts and      *)
(* skips what it has then.  Skipping more than there is panics, which       *)
(* net/http turns into a broken connection.                                 *)
SearchServer(users, req) ==
  LET some == Ordered(SubSeq(Matching(users), 1, Smaller(req.Limit, Len(Matching(users)))), req)
  IN IF ~req.TokenOk THEN Respond("Unauthorized", "no json", <<>>)
     ELSE IF req.OrderField \notin {"", "Id", "Age", "Name"}
     THEN Respond("BadRequest", "ErrorBadOrderField", <<>>)
     ELSE IF req.Offset > Len(some) THEN Respond("broken", "no json", <<>>)
     ELSE Respond("OK", "", SubSeq(some, req.Offset + 1, Len(some)))

(* A server that sorts first and skips before it counts.                    *)
PagingServer(users, req) ==
  LET all == Ordered(Matching(users), req)
  IN Respond("OK", "", SubSeq(all, req.Offset + 1, Smaller(req.Offset + req.Limit, Len(all))))

(* Any call may fail: no answer in time, a lost connection, a refusal, or   *)
(* an answer that cannot be read.                                           *)
Failures ==
  {Respond(status, "no json", <<>>) :
     status \in {"timeout", "broken", "Unauthorized", "InternalServerError", "BadRequest", "OK"}}
  \cup {Respond("BadRequest", error, <<>>) : error \in {"ErrorBadOrderField", "other"}}

Answers(c, req) ==
  Failures \cup {IF c.server = "tests" THEN SearchServer(c.users, req) ELSE PagingServer(c.users, req)}

-----------------------------------------------------------------------------
(* The client.  A failed call has an error, and no users.                   *)
Failed(error) == [err |-> error, users |-> <<>>, nextPage |-> FALSE]
Page(users, nextPage) == [err |-> "", users |-> users, nextPage |-> nextPage]

(* Mutant: as many records as the page shows.                               *)
SentSame(req) == [req EXCEPT !.Limit = Smaller(@, MaxLimit)]

(* One record more than the page shows tells whether there is another one.  *)
Sent(req) == [req EXCEPT !.Limit = Smaller(@, MaxLimit) + 1]

Result(req, resp) ==
  CASE resp.status = "timeout" -> Failed("timeout")
    [] resp.status = "broken" -> Failed("unknown error")
    [] resp.status = "Unauthorized" -> Failed("Bad AccessToken")
    [] resp.status = "InternalServerError" -> Failed("SearchServer fatal error")
    [] resp.status = "BadRequest" ->
         Failed(IF resp.error = "ErrorBadOrderField" THEN "OrderField invalid"
                ELSE IF resp.error = "no json" THEN "cant unpack error json"
                ELSE "unknown bad request error")
    [] OTHER ->
         IF resp.error # "" THEN Failed("cant unpack result json")
         ELSE IF Len(resp.users) = Sent(req).Limit
         THEN Page(SubSeq(resp.users, 1, Len(resp.users) - 1), TRUE)
         ELSE Page(resp.users, FALSE)

(* What a call may return.                                                  *)
FindUsers(c, req) ==
  IF req.Limit < 0 THEN {Failed("limit must be > 0")}
  ELSE IF req.Offset < 0 THEN {Failed("offset must be > 0")}
  ELSE {Result(req, resp) : resp \in Answers(c, Sent(req))}

-----------------------------------------------------------------------------
(* A caller that starts at the request's offset and turns the page as long  *)
(* as there is another one.                                                 *)
PageInit ==
  /\ chosen = NoCase
  /\ shown = <<>>
  /\ more = FALSE
  /\ err = ""
  /\ pages = 0

Choose ==
  /\ chosen = NoCase
  /\ chosen' \in Cases
  /\ more' = TRUE
  /\ UNCHANGED <<shown, err, pages>>

TurnPage ==
  /\ more
  /\ pages < MaxPages
  /\ \E p \in FindUsers(chosen, [chosen.req EXCEPT !.Offset = @ + Len(shown)]) :
       /\ shown' = shown \o p.users
       /\ more' = p.nextPage
       /\ err' = p.err
       /\ pages' = IF p.err = "" THEN pages + 1 ELSE pages
  /\ UNCHANGED chosen

PageNext == Choose \/ TurnPage
PagesSpec == PageInit /\ [][PageNext]_pageVars

-----------------------------------------------------------------------------
Limit == Smaller(chosen.req.Limit, MaxLimit)
Wanted ==
  LET all == Ordered(Matching(chosen.users), chosen.req)
  IN SubSeq(all, chosen.req.Offset + 1, Len(all))
Beginning(users, n) == SubSeq(users, 1, Smaller(n, Len(users)))

(* With a server that pages, each page but the last is full and followed by *)
(* one that is not empty, what was shown is the beginning of what is wanted,*)
(* and all of it when no page follows: turning the pages shows every user   *)
(* once and in order, and ends (unless limit is 0, which is allowed and     *)
(* shows nothing but another page).                                         *)
PagesTurn ==
  /\ shown = Beginning(Wanted, Len(shown))
  /\ more => Len(shown) = pages * Limit
  /\ more /\ pages > 0 => Len(shown) < Len(Wanted)
  /\ ~more /\ err = "" => shown = Wanted

(* Of the test's server this can be said of the first page only, if nothing *)
(* is to be sorted or all fits.                                             *)
FirstPageRight ==
  /\ shown = Beginning(Wanted, Limit)
  /\ more <=> Len(Wanted) > Limit

(* FindUsers asks for one record more than it shows: that this record is    *)
(* there tells that a page follows, whatever the limit and wherever calls   *)
(* fail.  A negative limit or offset is an error, and an error no page.     *)
PagesComplete ==
  chosen # NoCase =>
    /\ err # "" => ~more
    /\ IF chosen.req.Limit < 0 \/ chosen.req.Offset < 0
       THEN shown = <<>> /\ pages = 0
       ELSE CASE chosen.server = "pages" -> PagesTurn
              [] chosen.server = "tests" /\ pages = 1 /\ err = "" /\ chosen.req.Offset = 0 ->
                   \/ chosen.req.OrderBy # 0 /\ Len(Matching(chosen.users)) > Limit + 1
                   \/ FirstPageRight
              [] OTHER -> TRUE
=============================================================================
