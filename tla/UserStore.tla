------------------------------ MODULE UserStore ------------------------------
(***************************************************************************)
(* What MyApi (chapter2/hw1/api.go) promises its callers, whatever they do *)
(* at the same time: a request takes effect at one instant between its     *)
(* arrival and its answer.  A user is created once per login, with an id   *)
(* that no other user has, and stays as it was created; a request that is  *)
(* refused changes nothing.                                                *)
(***************************************************************************)
CONSTANTS
  Clients,
  Requests,         \* what a client may ask
  Verdict,          \* what its checks make of each request: an error or a call
  FirstUsers,       \* the users at the start
  NewUser(_, _),    \* the user with this id and these parameters
  NotFound, Shown(_), Conflict(_), Created(_)    \* the answers to a call

VARIABLES
  users,            \* the users by login
  request,          \* what each client has asked, NoRequest if nothing
  outcome           \* what it is to be answered, Undecided at first

CONSTANTS NoRequest, Undecided

vars == <<users, request, outcome>>

Init ==
  /\ users = FirstUsers
  /\ request = [c \in Clients |-> NoRequest]
  /\ outcome = [c \in Clients |-> Undecided]

Ask(c) ==
  /\ request[c] = NoRequest
  /\ \E r \in Requests : request' = [request EXCEPT ![c] = r]
  /\ UNCHANGED <<users, outcome>>

Decide(c, answer) == outcome' = [outcome EXCEPT ![c] = answer]

Pending(c) == request[c] # NoRequest /\ outcome[c] = Undecided

(* The call that the request comes to.                                      *)
Asked(c) == Verdict[request[c]]

Reject(c) ==
  /\ Pending(c)
  /\ Asked(c).call = ""
  /\ Decide(c, Asked(c))
  /\ UNCHANGED <<users, request>>

Profile(c) ==
  /\ Pending(c)
  /\ Asked(c).call = "Profile"
  /\ LET login == Asked(c).params.Login
     IN Decide(c, IF login \in DOMAIN users THEN Shown(users[login]) ELSE NotFound)
  /\ UNCHANGED <<users, request>>

CreateNew(c) ==
  /\ Pending(c)
  /\ Asked(c).call = "Create"
  /\ LET login == Asked(c).params.Login
         id == users'[login].id
     IN /\ login \notin DOMAIN users
        /\ DOMAIN users' = DOMAIN users \cup {login}
        /\ \A l \in DOMAIN users : users'[l] = users[l] /\ users[l].id # id
        /\ users'[login] = NewUser(id, Asked(c).params)
        /\ Decide(c, Created(id))
  /\ UNCHANGED request

CreateKnown(c) ==
  /\ Pending(c)
  /\ Asked(c).call = "Create"
  /\ Asked(c).params.Login \in DOMAIN users
  /\ Decide(c, Conflict(Asked(c).params.Login))
  /\ UNCHANGED <<users, request>>

Next == \E c \in Clients :
  Ask(c) \/ Reject(c) \/ Profile(c) \/ CreateNew(c) \/ CreateKnown(c)

Spec == Init /\ [][Next]_vars
=============================================================================
