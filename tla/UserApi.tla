------------------------------- MODULE UserApi -------------------------------
(***************************************************************************)
(* MyApi of chapter2/hw1: HTTP requests that run at the same time, each on *)
(* a goroutine of its own, through the checks of ApiHandlers and then      *)
(* Profile or Create of api.go, which share the map of users, the next id  *)
(* and a RWMutex.  Every access to them is a step of its own.              *)
(***************************************************************************)
EXTENDS ApiHandlers

CONSTANTS
  Clients,        \* each sends one request
  HttpRequests,   \* the requests they may send
  NoOne

ASSUME ClientsAssumption == NoOne \notin Clients

VARIABLES
  users,          \* srv.users: login to user; a pointer to a user is its login
  nextID,         \* srv.nextID
  writer,         \* who holds srv.mu locked, NoOne if nobody
  readers,        \* who hold it locked for reading
  pc,             \* where the goroutine of each request is
  req,            \* the request
  asked,          \* what its checks came to: an answer or a call
  found,          \* Profile's exist
  id,             \* Create's id
  answer,         \* the answer, Unanswered before it is known
  acked,          \* history: logins, as sent, whose creation was answered 200
  owed            \* history: acked at the time each request was sent

store == <<users, nextID>>
mutex == <<writer, readers>>
locals == <<req, asked, found, id>>
history == <<acked, owed>>
vars == <<store, mutex, pc, locals, answer, history>>

NoRequest == [path |-> "none"]
ASSUME RequestsAssumption ==
  /\ NoRequest \notin HttpRequests
  /\ \A r \in HttpRequests : r.params \in Seq(Seq(STRING))
Unanswered == [status |-> 0]

User(i, name, status) == [id |-> i, name |-> name, status |-> status]
Statuses == [user |-> 0, moderator |-> 10, admin |-> 20]
FirstUsers == [l \in {"rvasily"} |-> User(42, "Vasily Romanov", Statuses.admin)]
NewUser(i, params) == User(i, params.Name, Statuses[params.Status])

(* Answers to a call; an error that is no ApiError is answered 500.         *)
Shown(user) == [status |-> 200, user |-> user]
Created(i) == [status |-> 200, id |-> i]
NotFound == Fail(404, <<"user not exist">>)
Conflict(login) == Fail(409, <<"user", login, "exist">>)
BadUser == Fail(500, <<"bad user">>)

(* The checks of the handler and the first one of the method it calls.      *)
Checked ==
  [r \in HttpRequests |->
     LET served == ServeMyApi(r)
     IN IF \/ served.call = "Profile" /\ served.params.Login = "bad_user"
           \/ served.call = "Create" /\ served.params.Login = "bad_username"
        THEN BadUser ELSE served]

Init ==
  /\ users = FirstUsers
  /\ nextID = 43
  /\ writer = NoOne
  /\ readers = {}
  /\ pc = [c \in Clients |-> "idle"]
  /\ req = [c \in Clients |-> NoRequest]
  /\ asked = [c \in Clients |-> Unanswered]
  /\ found = [c \in Clients |-> FALSE]
  /\ id = [c \in Clients |-> 0]
  /\ answer = [c \in Clients |-> Unanswered]
  /\ acked = {}
  /\ owed = [c \in Clients |-> {}]

At(c, place) == pc[c] = place
Goto(c, place) == pc' = [pc EXCEPT ![c] = place]
Answer(c, a) == answer' = [answer EXCEPT ![c] = a]
LoginOf(c) == asked[c].params.Login

-----------------------------------------------------------------------------
Ask(c) ==
  /\ At(c, "idle")
  /\ \E r \in HttpRequests : req' = [req EXCEPT ![c] = r]
  /\ owed' = [owed EXCEPT ![c] = acked]
  /\ Goto(c, "arrived")
  /\ UNCHANGED <<store, mutex, asked, found, id, answer, acked>>

(* The handler, up to the answer or to the mutex.                           *)
Check(c) ==
  /\ At(c, "arrived")
  /\ LET a == Checked[req[c]]
     IN /\ asked' = [asked EXCEPT ![c] = a]
        /\ IF a.call = "" THEN Answer(c, a) ELSE UNCHANGED answer
        /\ Goto(c, CASE a.call = "" -> "write"
                     [] a.call = "Profile" -> "RLock"
                     [] a.call = "Create" -> "Lock")
  /\ UNCHANGED <<store, mutex, req, found, id, history>>

ProfileRLock(c) ==
  /\ At(c, "RLock")
  /\ writer = NoOne
  /\ readers' = readers \cup {c}
  /\ Goto(c, "lookup")
  /\ UNCHANGED <<store, writer, locals, answer, history>>

ProfileLookup(c) ==
  /\ At(c, "lookup")
  /\ found' = [found EXCEPT ![c] = LoginOf(c) \in DOMAIN users]
  /\ Goto(c, "RUnlock")
  /\ UNCHANGED <<store, mutex, req, asked, id, answer, history>>

ProfileRUnlock(c) ==
  /\ At(c, "RUnlock")
  /\ readers' = readers \ {c}
  /\ Goto(c, "return")
  /\ UNCHANGED <<store, writer, locals, answer, history>>

(* json.Marshal follows the pointer only now, when the mutex is free again. *)
ProfileReturn(c) ==
  /\ At(c, "return")
  /\ Answer(c, IF found[c] THEN Shown(users[LoginOf(c)]) ELSE NotFound)
  /\ Goto(c, "write")
  /\ UNCHANGED <<store, mutex, locals, history>>

(* Mutant: Create locks the mutex for reading only.                         *)
CreateLockShared(c) ==
  /\ At(c, "Lock")
  /\ writer = NoOne
  /\ Goto(c, "exist")
  /\ UNCHANGED <<store, mutex, locals, answer, history>>

CreateLock(c) ==
  /\ At(c, "Lock")
  /\ writer = NoOne
  /\ readers = {}
  /\ writer' = c
  /\ Goto(c, "exist")
  /\ UNCHANGED <<store, readers, locals, answer, history>>

(* Mutant: no defer, and no Unlock before the error is returned.            *)
CreateExistNoUnlock(c) ==
  /\ At(c, "exist")
  /\ IF LoginOf(c) \in DOMAIN users
     THEN Answer(c, Conflict(LoginOf(c))) /\ Goto(c, "write")
     ELSE Goto(c, "takeID") /\ UNCHANGED answer
  /\ UNCHANGED <<store, mutex, locals, history>>

CreateExist(c) ==
  /\ At(c, "exist")
  /\ IF LoginOf(c) \in DOMAIN users
     THEN Answer(c, Conflict(LoginOf(c))) /\ Goto(c, "Unlock")
     ELSE Goto(c, "takeID") /\ UNCHANGED answer
  /\ UNCHANGED <<store, mutex, locals, history>>

CreateTakeID(c) ==
  /\ At(c, "takeID")
  /\ id' = [id EXCEPT ![c] = nextID]
  /\ Goto(c, "nextID")
  /\ UNCHANGED <<store, mutex, req, asked, found, answer, history>>

CreateNextID(c) ==
  /\ At(c, "nextID")
  /\ nextID' = nextID + 1
  /\ Goto(c, "insert")
  /\ UNCHANGED <<users, mutex, locals, answer, history>>

(* Mutant: the user is stored under its name.                               *)
CreateInsertByName(c) ==
  /\ At(c, "insert")
  /\ LET user == NewUser(id[c], asked[c].params)
     IN users' = [l \in DOMAIN users \cup {user.name} |->
                    IF l = user.name THEN user ELSE users[l]]
  /\ Answer(c, Created(id[c]))
  /\ Goto(c, "Unlock")
  /\ UNCHANGED <<nextID, mutex, locals, history>>

CreateInsert(c) ==
  /\ At(c, "insert")
  /\ users' = [l \in DOMAIN users \cup {LoginOf(c)} |->
                 IF l = LoginOf(c) THEN NewUser(id[c], asked[c].params) ELSE users[l]]
  /\ Answer(c, Created(id[c]))
  /\ Goto(c, "Unlock")
  /\ UNCHANGED <<nextID, mutex, locals, history>>

(* The deferred Unlock, on both ways out.                                   *)
CreateUnlock(c) ==
  /\ At(c, "Unlock")
  /\ writer' = NoOne
  /\ Goto(c, "write")
  /\ UNCHANGED <<store, readers, locals, answer, history>>

Creates(r) == r.path = "/user/create"

(* The login as it was sent: the first parameter of this name counts, in a  *)
(* URL also one without a value, and the value is taken before any decoding.*)
SentInBody(r) == [i \in Assigned(r) |-> r.params[i]]
SentInURL(r) ==
  [i \in DOMAIN r.params |->
     <<Unescape(r.params[i][1]), IF i \in Assigned(r) THEN r.params[i][2] ELSE "">>]
SentLogin(r) ==
  TextOf(IF r.method = "POST" THEN SentInBody(r) ELSE SentInURL(r), "login")

(* WriteHeader and Write.                                                   *)
Write(c) ==
  /\ At(c, "write")
  /\ Goto(c, "answered")
  /\ acked' = IF Creates(req[c]) /\ answer[c].status = 200
              THEN acked \cup {SentLogin(req[c])} ELSE acked
  /\ UNCHANGED <<store, mutex, locals, answer, owed>>

Serve(c) ==
  \/ Check(c) \/ Write(c)
  \/ ProfileRLock(c) \/ ProfileLookup(c) \/ ProfileRUnlock(c) \/ ProfileReturn(c)
  \/ CreateLock(c) \/ CreateExist(c) \/ CreateTakeID(c) \/ CreateNextID(c)
  \/ CreateInsert(c) \/ CreateUnlock(c)

Next == \E c \in Clients : Ask(c) \/ Serve(c)

Spec == Init /\ [][Next]_vars

(* A request may never come.  The goroutine of one that came runs whenever  *)
(* it can.                                                                  *)
FairSpec == Spec /\ \A c \in Clients : WF_vars(Serve(c))

-----------------------------------------------------------------------------
(* What a call is answered is settled before it is written: a creation's    *)
(* answer when the user is in the map, or found there; a profile's when it  *)
(* is looked up.                                                            *)
Outcome(c) ==
  IF pc[c] \in {"RUnlock", "return"}
  THEN IF found[c] THEN Shown(users[LoginOf(c)]) ELSE NotFound
  ELSE answer[c]

Store == INSTANCE UserStore WITH
  Requests <- HttpRequests,
  Verdict <- Checked,
  request <- req,
  outcome <- [c \in Clients |-> Outcome(c)],
  Undecided <- Unanswered

(* Requests that run at once are answered as if each took effect at one     *)
(* instant: one login and one id per user (TestMyApi sends one at a time).  *)
KeepsUserStore == Store!Spec

(* A text that the body and the URL of a request carry alike.               *)
Plain(t) == Unescape(t) = t /\ UpToEq(t) = t

(* A profile asked after the creation of its user was answered is shown.    *)
(* The two must carry the login alike: a body is not decoded, a URL is.     *)
CreatedIsFound ==
  \A c \in Clients :
    LET login == SentLogin(req[c])
    IN /\ pc[c] = "answered"
       /\ req[c].path = "/user/profile"
       /\ login \in owed[c]
       /\ req[c].method = "POST" \/ (req[c].method = "GET" /\ Plain(login))
       => answer[c].status = 200

(* Every request that came is answered: the mutex is left on every way out. *)
EveryRequestAnswered == \A c \in Clients : pc[c] = "arrived" ~> pc[c] = "answered"
=============================================================================
