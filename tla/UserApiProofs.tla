---------------------------- MODULE UserApiProofs ----------------------------
(***************************************************************************)
(* Proofs about UserApi, for any clients and requests: the mutex is used   *)
(* as intended, ids and logins are unique, the concurrent requests         *)
(* implement UserStore, and a user whose creation was answered is found.   *)
(* And about HandlersGen: the kept handlers are the generated ones.        *)
(***************************************************************************)
EXTENDS UserApi, HandlersGen, NaturalsInduction, WellFoundedInduction, TLAPS

Reading == {"lookup", "RUnlock"}
Creating == {"exist", "takeID", "nextID", "insert"}
Locked == Creating \cup {"Unlock"}
Asking == {"RLock", "lookup", "RUnlock", "return"}
Open == {"idle", "arrived", "RLock", "lookup", "Lock"} \cup Creating

TypeOK ==
  /\ pc \in [Clients -> Open \cup Locked \cup Asking \cup {"write", "answered"}]
  /\ DOMAIN req = Clients
  /\ DOMAIN asked = Clients
  /\ DOMAIN answer = Clients
  /\ found \in [Clients -> BOOLEAN]
  /\ id \in [Clients -> Int]
  /\ nextID \in Int
  /\ writer \in Clients \cup {NoOne}
  /\ readers \subseteq Clients

(* A request that came is one of HttpRequests, has no answer before it is   *)
(* settled, and is in the function that its checks call.                    *)
RequestInv ==
  \A c \in Clients :
    /\ pc[c] = "idle" => req[c] = NoRequest
    /\ pc[c] # "idle" => req[c] \in HttpRequests
    /\ pc[c] \in Open => answer[c] = Unanswered
    /\ pc[c] \in Asking => asked[c] = Checked[req[c]] /\ asked[c].call = "Profile"
    /\ pc[c] \in Creating \cup {"Lock"} => asked[c] = Checked[req[c]] /\ asked[c].call = "Create"

(* One writer, or any number of readers.                                    *)
MutexInv ==
  /\ \A c \in Clients : pc[c] \in Locked <=> writer = c
  /\ \A c \in Clients : pc[c] \in Reading <=> c \in readers
  /\ writer # NoOne => readers = {}

(* The ids in use are below nextID, and the one that Create has taken is    *)
(* above them; the login it creates is new; the user that Profile has found *)
(* stays.                                                                   *)
StoreInv ==
  /\ \A l \in DOMAIN users : users[l].id \in Int /\ users[l].id < nextID
  /\ \A c \in Clients :
       /\ pc[c] = "nextID" => id[c] = nextID
       /\ pc[c] = "insert" => id[c] = nextID - 1
       /\ pc[c] = "insert" => \A l \in DOMAIN users : users[l].id < id[c]
       /\ pc[c] \in {"takeID", "nextID", "insert"} => LoginOf(c) \notin DOMAIN users
       /\ pc[c] \in {"RUnlock", "return"} /\ found[c] => LoginOf(c) \in DOMAIN users

IInv == TypeOK /\ RequestInv /\ MutexInv /\ StoreInv

(* No error is answered 200.                                                *)
ErrorCodes == {400, 403, 404, 406, 500}
IsError(a) == a.call = "" /\ a.status \in ErrorCodes
IsCall(a, method) == a.call = method

LEMMA FailIsError ==
  /\ \A e : IsError(Fail(400, e))
  /\ \A e : IsError(Fail(403, e))
  /\ \A e : IsError(Fail(404, e))
  /\ \A e : IsError(Fail(406, e))
  /\ \A e : IsError(Fail(500, e))
<1>1. \A s, e : Fail(s, e).call = ""
  BY DEF Fail
<1>2. \A s, e : Fail(s, e).status = s
  BY DEF Fail
<1>3. 400 \in ErrorCodes /\ 403 \in ErrorCodes /\ 404 \in ErrorCodes
      /\ 406 \in ErrorCodes /\ 500 \in ErrorCodes
  BY DEF ErrorCodes
<1>4. ASSUME NEW s \in ErrorCodes, NEW e PROVE IsError(Fail(s, e))
  BY <1>1, <1>2 DEF IsError
<1> QED
  BY <1>3, <1>4

LEMMA CallOrError ==
  ASSUME NEW method, NEW v
  PROVE  IsError(CallIfValid(method, v)) \/ IsCall(CallIfValid(method, v), method)
<1>1. CASE v.error # NoError
  <2>1. CallIfValid(method, v) = Fail(400, v.error)
    BY <1>1 DEF CallIfValid
  <2> QED
    BY <2>1, FailIsError
<1>2. CASE v.error = NoError
  <2>1. CallIfValid(method, v) = Call(method, v.params)
    BY <1>2 DEF CallIfValid
  <2> QED
    BY <2>1 DEF Call, IsCall
<1> QED
  BY <1>1, <1>2

(* What a request comes to is an error or the call of its path's method.    *)
LEMMA ProfileOutcome ==
  ASSUME NEW r
  PROVE  IsError(HandleProfile(r)) \/ IsCall(HandleProfile(r), "Profile")
<1> DEFINE v == ValidateProfileParams(CASE r.method = "POST" -> BodyQuery(r)
                                        [] r.method = "GET" -> URLQuery(r)
                                        [] OTHER -> <<>>)
<1>1. HandleProfile(r) = CallIfValid("Profile", v)
  BY DEF HandleProfile
<1> HIDE DEF v
<1> QED
  BY <1>1, CallOrError

LEMMA CreateOutcome ==
  ASSUME NEW r
  PROVE  IsError(HandleCreate(r)) \/ IsCall(HandleCreate(r), "Create")
<1> DEFINE v == ValidateCreateParams(BodyQuery(r))
           method == <<"bad method">>
           auth == <<"unauthorized">>
<1>1. \/ HandleCreate(r) = Fail(406, method)
      \/ HandleCreate(r) = Fail(403, auth)
      \/ HandleCreate(r) = CallIfValid("Create", v)
  BY DEF HandleCreate, GuardedPost
<1> HIDE DEF v, method, auth
<1>2. CASE HandleCreate(r) = Fail(406, method)
  BY <1>2, FailIsError
<1>3. CASE HandleCreate(r) = Fail(403, auth)
  BY <1>3, FailIsError
<1>4. CASE HandleCreate(r) = CallIfValid("Create", v)
  BY <1>4, CallOrError
<1> QED
  BY <1>1, <1>2, <1>3, <1>4

LEMMA CheckedOutcome ==
  ASSUME NEW r \in HttpRequests
  PROVE  \/ IsError(Checked[r])
         \/ IsCall(Checked[r], "Profile") /\ Checked[r] = HandleProfile(r)
         \/ IsCall(Checked[r], "Create") /\ Checked[r] = HandleCreate(r)
<1> DEFINE unknown == <<"unknown method">>
           bad == <<"bad user">>
<1>1. Checked[r] = BadUser \/ Checked[r] = ServeMyApi(r)
  BY DEF Checked
<1>2. \/ ServeMyApi(r) = HandleProfile(r)
      \/ ServeMyApi(r) = HandleCreate(r)
      \/ ServeMyApi(r) = Fail(404, unknown)
  BY DEF ServeMyApi
<1>3. BadUser = Fail(500, bad)
  BY DEF BadUser
<1> HIDE DEF unknown, bad
<1>4. CASE Checked[r] = BadUser
  BY <1>3, <1>4, FailIsError
<1>5. CASE Checked[r] = HandleProfile(r)
  BY <1>5, ProfileOutcome
<1>6. CASE Checked[r] = HandleCreate(r)
  BY <1>6, CreateOutcome
<1>7. CASE Checked[r] = Fail(404, unknown)
  BY <1>7, FailIsError
<1> QED
  BY <1>1, <1>2, <1>4, <1>5, <1>6, <1>7

LEMMA CheckedCall ==
  ASSUME NEW r \in HttpRequests
  PROVE  Checked[r].call \in {"", "Profile", "Create"}
BY CheckedOutcome DEF IsError, IsCall

(* The first state satisfies the invariant.                                 *)
LEMMA InitInv == Init => IInv
<1> SUFFICES ASSUME Init PROVE IInv
  OBVIOUS
<1>1. TypeOK
  BY DEF Init, TypeOK, Open
<1>2. RequestInv
  BY DEF Init, RequestInv, Open, Asking, Creating
<1>3. MutexInv
  BY ClientsAssumption DEF Init, MutexInv, Locked, Creating, Reading
<1>4. StoreInv
  <2>1. \A l \in DOMAIN users : users[l].id = 42
    BY DEF Init, FirstUsers, User
  <2> QED
    BY <2>1 DEF Init, StoreInv
<1> QED
  BY <1>1, <1>2, <1>3, <1>4 DEF IInv

(* Each action keeps the types.                                             *)
LEMMA TypeStep ==
  ASSUME IInv, NEW c \in Clients, Ask(c) \/ Serve(c)
  PROVE  TypeOK'
<1>1. CASE Ask(c)
  BY <1>1 DEF store, mutex, locals, history, At, Goto, Answer, IInv, TypeOK, Open, Locked, Creating, Asking, Ask
<1>2. CASE Check(c)
  BY <1>2, CheckedCall DEF store, mutex, locals, history, At, Goto, Answer, IInv, TypeOK, Open, Locked, Creating, Asking, Check, RequestInv
<1>3. CASE ProfileRLock(c)
  BY <1>3 DEF store, mutex, locals, history, At, Goto, Answer, IInv, TypeOK, Open, Locked, Creating, Asking, ProfileRLock
<1>4. CASE ProfileLookup(c)
  BY <1>4 DEF store, mutex, locals, history, At, Goto, Answer, IInv, TypeOK, Open, Locked, Creating, Asking, ProfileLookup
<1>5. CASE ProfileRUnlock(c)
  BY <1>5 DEF store, mutex, locals, history, At, Goto, Answer, IInv, TypeOK, Open, Locked, Creating, Asking, ProfileRUnlock
<1>6. CASE ProfileReturn(c)
  BY <1>6 DEF store, mutex, locals, history, At, Goto, Answer, IInv, TypeOK, Open, Locked, Creating, Asking, ProfileReturn
<1>7. CASE CreateLock(c)
  BY <1>7 DEF store, mutex, locals, history, At, Goto, Answer, IInv, TypeOK, Open, Locked, Creating, Asking, CreateLock
<1>8. CASE CreateExist(c)
  BY <1>8 DEF store, mutex, locals, history, At, Goto, Answer, IInv, TypeOK, Open, Locked, Creating, Asking, CreateExist
<1>9. CASE CreateTakeID(c)
  BY <1>9 DEF store, mutex, locals, history, At, Goto, Answer, IInv, TypeOK, Open, Locked, Creating, Asking, CreateTakeID
<1>10. CASE CreateNextID(c)
  BY <1>10 DEF store, mutex, locals, history, At, Goto, Answer, IInv, TypeOK, Open, Locked, Creating, Asking, CreateNextID
<1>11. CASE CreateInsert(c)
  BY <1>11 DEF store, mutex, locals, history, At, Goto, Answer, IInv, TypeOK, Open, Locked, Creating, Asking, CreateInsert
<1>12. CASE CreateUnlock(c)
  BY <1>12 DEF store, mutex, locals, history, At, Goto, Answer, IInv, TypeOK, Open, Locked, Creating, Asking, CreateUnlock
<1>13. CASE Write(c)
  BY <1>13 DEF store, mutex, locals, history, At, Goto, Answer, IInv, TypeOK, Open, Locked, Creating, Asking, Write
<1> QED
  BY <1>1, <1>2, <1>3, <1>4, <1>5, <1>6, <1>7, <1>8, <1>9, <1>10, <1>11, <1>12, <1>13 DEF Serve

(* Each action keeps RequestInv.                                            *)
LEMMA RequestStep ==
  ASSUME IInv, NEW c \in Clients, Ask(c) \/ Serve(c)
  PROVE  RequestInv'
<1>1. CASE Ask(c)
  BY <1>1 DEF store, mutex, locals, history, At, Goto, Answer, IInv, TypeOK, RequestInv, Open, Locked, Creating, Asking, Ask
<1>2. CASE Check(c)
  <2> DEFINE a == Checked[req[c]]
  <2>1. /\ pc[c] = "arrived" /\ req' = req /\ asked' = [asked EXCEPT ![c] = a]
        /\ req[c] \in HttpRequests
    BY <1>2 DEF Check, At, IInv, RequestInv
  <2>2. a.call \in {"", "Profile", "Create"}
    BY <2>1, CheckedCall
  <2> HIDE DEF a
  <2>3. \/ pc' = [pc EXCEPT ![c] = "write"] /\ answer' = [answer EXCEPT ![c] = a]
        \/ a.call = "Profile" /\ pc' = [pc EXCEPT ![c] = "RLock"] /\ answer' = answer
        \/ a.call = "Create" /\ pc' = [pc EXCEPT ![c] = "Lock"] /\ answer' = answer
    BY <1>2, <2>2 DEF Check, Goto, Answer, a
  <2>4. /\ DOMAIN pc = Clients /\ DOMAIN answer = Clients /\ DOMAIN asked = Clients
        /\ pc = [d \in Clients |-> pc[d]]
    BY DEF IInv, TypeOK
  <2>5. asked'[c] = Checked[req[c]]
    BY <2>1, <2>4 DEF a
  <2>6. asked'[c] = a
    BY <2>5 DEF a
  <2>7. ASSUME NEW d \in Clients, d # c
        PROVE  pc'[d] = pc[d] /\ answer'[d] = answer[d] /\ asked'[d] = asked[d]
    BY <2>1, <2>3, <2>4, <2>7
  <2>8. \/ pc'[c] = "write"
        \/ pc'[c] = "RLock" /\ a.call = "Profile" /\ answer'[c] = answer[c]
        \/ pc'[c] = "Lock" /\ a.call = "Create" /\ answer'[c] = answer[c]
    BY <2>3, <2>4
  <2>9. answer[c] = Unanswered
    BY <2>1 DEF IInv, RequestInv, Open
  <2>10. ASSUME NEW d \in Clients
         PROVE  /\ pc'[d] = "idle" => req'[d] = NoRequest
                /\ pc'[d] # "idle" => req'[d] \in HttpRequests
                /\ pc'[d] \in Open => answer'[d] = Unanswered
                /\ pc'[d] \in Asking => asked'[d] = Checked[req'[d]] /\ asked'[d].call = "Profile"
                /\ pc'[d] \in Creating \cup {"Lock"} =>
                     asked'[d] = Checked[req'[d]] /\ asked'[d].call = "Create"
    <3>1. CASE d = c
      BY <2>1, <2>5, <2>6, <2>8, <2>9, <3>1 DEF Open, Asking, Creating
    <3>2. CASE d # c
      BY <2>1, <2>7, <3>2 DEF IInv, RequestInv
    <3> QED
      BY <3>1, <3>2
  <2> QED
    BY <2>10 DEF RequestInv
<1>3. CASE ProfileRLock(c)
  BY <1>3 DEF store, mutex, locals, history, At, Goto, Answer, IInv, TypeOK, RequestInv, Open, Locked, Creating, Asking, ProfileRLock
<1>4. CASE ProfileLookup(c)
  BY <1>4 DEF store, mutex, locals, history, At, Goto, Answer, IInv, TypeOK, RequestInv, Open, Locked, Creating, Asking, ProfileLookup
<1>5. CASE ProfileRUnlock(c)
  BY <1>5 DEF store, mutex, locals, history, At, Goto, Answer, IInv, TypeOK, RequestInv, Open, Locked, Creating, Asking, ProfileRUnlock
<1>6. CASE ProfileReturn(c)
  BY <1>6 DEF store, mutex, locals, history, At, Goto, Answer, IInv, TypeOK, RequestInv, Open, Locked, Creating, Asking, ProfileReturn
<1>7. CASE CreateLock(c)
  BY <1>7 DEF store, mutex, locals, history, At, Goto, Answer, IInv, TypeOK, RequestInv, Open, Locked, Creating, Asking, CreateLock
<1>8. CASE CreateExist(c)
  BY <1>8 DEF store, mutex, locals, history, At, Goto, Answer, IInv, TypeOK, RequestInv, Open, Locked, Creating, Asking, CreateExist
<1>9. CASE CreateTakeID(c)
  BY <1>9 DEF store, mutex, locals, history, At, Goto, Answer, IInv, TypeOK, RequestInv, Open, Locked, Creating, Asking, CreateTakeID
<1>10. CASE CreateNextID(c)
  BY <1>10 DEF store, mutex, locals, history, At, Goto, Answer, IInv, TypeOK, RequestInv, Open, Locked, Creating, Asking, CreateNextID
<1>11. CASE CreateInsert(c)
  BY <1>11 DEF store, mutex, locals, history, At, Goto, Answer, IInv, TypeOK, RequestInv, Open, Locked, Creating, Asking, CreateInsert
<1>12. CASE CreateUnlock(c)
  BY <1>12 DEF store, mutex, locals, history, At, Goto, Answer, IInv, TypeOK, RequestInv, Open, Locked, Creating, Asking, CreateUnlock
<1>13. CASE Write(c)
  BY <1>13 DEF store, mutex, locals, history, At, Goto, Answer, IInv, TypeOK, RequestInv, Open, Locked, Creating, Asking, Write
<1> QED
  BY <1>1, <1>2, <1>3, <1>4, <1>5, <1>6, <1>7, <1>8, <1>9, <1>10, <1>11, <1>12, <1>13 DEF Serve

(* Each action keeps MutexInv.                                              *)
LEMMA MutexStep ==
  ASSUME IInv, NEW c \in Clients, Ask(c) \/ Serve(c)
  PROVE  MutexInv'
<1>1. CASE Ask(c)
  BY <1>1 DEF store, mutex, locals, history, At, Goto, Answer, IInv, TypeOK, MutexInv, Locked, Creating, Reading, Ask
<1>2. CASE Check(c)
  BY <1>2, CheckedCall DEF store, mutex, locals, history, At, Goto, Answer, IInv, TypeOK, MutexInv, Locked, Creating, Reading, Check, RequestInv
<1>3. CASE ProfileRLock(c)
  BY <1>3, ClientsAssumption DEF store, mutex, locals, history, At, Goto, Answer, IInv, TypeOK, MutexInv, Locked, Creating, Reading, ProfileRLock
<1>4. CASE ProfileLookup(c)
  BY <1>4 DEF store, mutex, locals, history, At, Goto, Answer, IInv, TypeOK, MutexInv, Locked, Creating, Reading, ProfileLookup
<1>5. CASE ProfileRUnlock(c)
  BY <1>5 DEF store, mutex, locals, history, At, Goto, Answer, IInv, TypeOK, MutexInv, Locked, Creating, Reading, ProfileRUnlock
<1>6. CASE ProfileReturn(c)
  BY <1>6 DEF store, mutex, locals, history, At, Goto, Answer, IInv, TypeOK, MutexInv, Locked, Creating, Reading, ProfileReturn
<1>7. CASE CreateLock(c)
  BY <1>7, ClientsAssumption DEF store, mutex, locals, history, At, Goto, Answer, IInv, TypeOK, MutexInv, Locked, Creating, Reading, CreateLock
<1>8. CASE CreateExist(c)
  BY <1>8 DEF store, mutex, locals, history, At, Goto, Answer, IInv, TypeOK, MutexInv, Locked, Creating, Reading, CreateExist
<1>9. CASE CreateTakeID(c)
  BY <1>9 DEF store, mutex, locals, history, At, Goto, Answer, IInv, TypeOK, MutexInv, Locked, Creating, Reading, CreateTakeID
<1>10. CASE CreateNextID(c)
  BY <1>10 DEF store, mutex, locals, history, At, Goto, Answer, IInv, TypeOK, MutexInv, Locked, Creating, Reading, CreateNextID
<1>11. CASE CreateInsert(c)
  BY <1>11 DEF store, mutex, locals, history, At, Goto, Answer, IInv, TypeOK, MutexInv, Locked, Creating, Reading, CreateInsert
<1>12. CASE CreateUnlock(c)
  BY <1>12, ClientsAssumption DEF store, mutex, locals, history, At, Goto, Answer, IInv, TypeOK, MutexInv, Locked, Creating, Reading, CreateUnlock
<1>13. CASE Write(c)
  BY <1>13 DEF store, mutex, locals, history, At, Goto, Answer, IInv, TypeOK, MutexInv, Locked, Creating, Reading, Write
<1> QED
  BY <1>1, <1>2, <1>3, <1>4, <1>5, <1>6, <1>7, <1>8, <1>9, <1>10, <1>11, <1>12, <1>13 DEF Serve

(* Each action keeps StoreInv.                                              *)
LEMMA StoreStep ==
  ASSUME IInv, NEW c \in Clients, Ask(c) \/ Serve(c)
  PROVE  StoreInv'
<1>1. CASE Ask(c)
  BY <1>1 DEF store, mutex, locals, history, At, Goto, Answer, IInv, TypeOK, StoreInv, LoginOf, Ask
<1>2. CASE Check(c)
  BY <1>2, CheckedCall DEF store, mutex, locals, history, At, Goto, Answer, IInv, TypeOK, StoreInv, LoginOf, Check, RequestInv
<1>3. CASE ProfileRLock(c)
  BY <1>3 DEF store, mutex, locals, history, At, Goto, Answer, IInv, TypeOK, StoreInv, LoginOf, ProfileRLock
<1>4. CASE ProfileLookup(c)
  BY <1>4 DEF store, mutex, locals, history, At, Goto, Answer, IInv, TypeOK, StoreInv, LoginOf, ProfileLookup
<1>5. CASE ProfileRUnlock(c)
  BY <1>5 DEF store, mutex, locals, history, At, Goto, Answer, IInv, TypeOK, StoreInv, LoginOf, ProfileRUnlock
<1>6. CASE ProfileReturn(c)
  BY <1>6 DEF store, mutex, locals, history, At, Goto, Answer, IInv, TypeOK, StoreInv, LoginOf, ProfileReturn
<1>7. CASE CreateLock(c)
  BY <1>7 DEF store, mutex, locals, history, At, Goto, Answer, IInv, TypeOK, StoreInv, LoginOf, CreateLock
<1>8. CASE CreateExist(c)
  BY <1>8 DEF store, mutex, locals, history, At, Goto, Answer, IInv, TypeOK, StoreInv, LoginOf, CreateExist
<1>9. CASE CreateTakeID(c)
  BY <1>9 DEF store, mutex, locals, history, At, Goto, Answer, IInv, TypeOK, StoreInv, LoginOf, CreateTakeID
<1>10. CASE CreateNextID(c)
  <2>1. \A d \in Clients : pc[d] \in Creating => d = c
    BY <1>10 DEF IInv, MutexInv, Locked, At, CreateNextID, Creating
  <2>2. \A l \in DOMAIN users : users[l].id < nextID + 1
    BY DEF IInv, StoreInv, TypeOK
  <2> QED
    BY <1>10, <2>1, <2>2 DEF store, mutex, locals, history, At, Goto, Answer, IInv, TypeOK, StoreInv, LoginOf, CreateNextID, Creating
<1>11. CASE CreateInsert(c)
  <2>1. \A d \in Clients : pc[d] \in Creating => d = c
    BY <1>11 DEF IInv, MutexInv, Locked, At, CreateInsert, Creating
  <2>2. \A d \in Clients \ {c} : pc'[d] = pc[d] /\ pc[d] \notin Creating
    BY <1>11, <2>1 DEF CreateInsert, Goto, IInv, TypeOK
  <2>3. pc'[c] = "Unlock"
    BY <1>11 DEF CreateInsert, Goto, IInv, TypeOK
  <2>4. users'[LoginOf(c)].id = id[c] /\ id[c] < nextID /\ id[c] \in Int
    BY <1>11 DEF CreateInsert, At, NewUser, User, IInv, StoreInv, TypeOK
  <2>5. \A l \in DOMAIN users : LoginOf(c) # l /\ users'[l] = users[l]
    BY <1>11 DEF CreateInsert, At, IInv, StoreInv
  <2>6. DOMAIN users' = DOMAIN users \cup {LoginOf(c)}
    BY <1>11 DEF CreateInsert
  <2>7. \A l \in DOMAIN users' : users'[l].id \in Int /\ users'[l].id < nextID'
    BY <1>11, <2>4, <2>5, <2>6 DEF CreateInsert, IInv, StoreInv
  <2>8. UNCHANGED <<asked, found>>
    BY <1>11 DEF CreateInsert, locals
  <2> QED
    BY <2>2, <2>3, <2>6, <2>7, <2>8 DEF IInv, StoreInv, LoginOf, Creating
<1>12. CASE CreateUnlock(c)
  BY <1>12 DEF store, mutex, locals, history, At, Goto, Answer, IInv, TypeOK, StoreInv, LoginOf, CreateUnlock
<1>13. CASE Write(c)
  BY <1>13 DEF store, mutex, locals, history, At, Goto, Answer, IInv, TypeOK, StoreInv, LoginOf, Write
<1> QED
  BY <1>1, <1>2, <1>3, <1>4, <1>5, <1>6, <1>7, <1>8, <1>9, <1>10, <1>11, <1>12, <1>13 DEF Serve

(* What does not change keeps the invariant.                                *)
LEMMA Stutter == IInv /\ UNCHANGED vars => IInv'
BY DEF IInv, TypeOK, RequestInv, MutexInv, StoreInv, LoginOf, vars, store, mutex, locals, history

(* The invariant holds in every reachable state.                            *)
THEOREM Invariance == Spec => []IInv
<1>1. IInv /\ [Next]_vars => IInv'
  BY TypeStep, RequestStep, MutexStep, StoreStep, Stutter DEF Next, IInv
<1> QED
  BY InitInv, <1>1, PTL DEF Spec

(* srv.mu has one writer or any number of readers, and is held exactly      *)
(* where Profile and Create look into the map of users or change it: no     *)
(* request reads the map while another one writes it.                       *)
THEOREM MutexCorrect == Spec => []MutexInv
<1>1. IInv => MutexInv
  BY DEF IInv
<1> QED
  BY Invariance, <1>1, PTL

-----------------------------------------------------------------------------
(* The refinement of UserStore.                                             *)
Settled == [c \in Clients |-> Outcome(c)]

(* A step that leaves the users, the requests and what they will be         *)
(* answered is none of the store's.                                         *)
LEMMA Hidden ==
  ASSUME users' = users, req' = req, \A c \in Clients : Outcome(c)' = Outcome(c)
  PROVE  UNCHANGED Store!vars
BY DEF Store!vars

(* A step that settles the answer of one request.                           *)
LEMMA Settles ==
  ASSUME NEW c \in Clients, NEW a, Outcome(c)' = a,
         \A d \in Clients \ {c} : Outcome(d)' = Outcome(d)
  PROVE  Store!Decide(c, a)
BY DEF Store!Decide

(* The answer of a request that is not settled yet.                         *)
LEMMA PendingFacts ==
  ASSUME IInv, NEW c \in Clients, pc[c] \in Open \ {"idle"}
  PROVE  Store!Pending(c) /\ Outcome(c) = Unanswered
BY RequestsAssumption DEF IInv, RequestInv, Store!Pending, Outcome, Open, Creating

(* The step that takes a request is the store's.                            *)
LEMMA AskStep ==
  ASSUME IInv, NEW c \in Clients, Ask(c)
  PROVE  Store!Ask(c)
<1>1. req[c] = NoRequest
  BY DEF Ask, At, IInv, RequestInv
<1>2. \A d \in Clients : Outcome(d)' = Outcome(d)
  BY DEF Ask, At, Goto, IInv, TypeOK, Outcome, store, LoginOf
<1> QED
  BY <1>1, <1>2 DEF Ask, Store!Ask, store

(* No step of one request changes what another one is answered: a user that *)
(* was found stays as it is.                                                *)
LEMMA OthersKeep ==
  ASSUME IInv, NEW c \in Clients, Serve(c), NEW d \in Clients \ {c}
  PROVE  Outcome(d)' = Outcome(d)
<1>1. pc'[d] = pc[d] /\ found'[d] = found[d] /\ asked'[d] = asked[d] /\ answer'[d] = answer[d]
  BY DEF Serve, Check, Write, ProfileRLock, ProfileLookup, ProfileRUnlock, ProfileReturn,
         CreateLock, CreateExist, CreateTakeID, CreateNextID, CreateInsert, CreateUnlock,
         Goto, Answer, locals, IInv, TypeOK
<1>2. \A l \in DOMAIN users : users'[l] = users[l]
  BY DEF Serve, Check, Write, ProfileRLock, ProfileLookup, ProfileRUnlock, ProfileReturn,
         CreateLock, CreateExist, CreateTakeID, CreateNextID, CreateInsert, CreateUnlock,
         At, store, IInv, StoreInv
<1>3. pc[d] \in {"RUnlock", "return"} /\ found[d] => LoginOf(d) \in DOMAIN users
  BY DEF IInv, StoreInv
<1> QED
  BY <1>1, <1>2, <1>3 DEF Outcome, LoginOf

(* The checks reject a request, or leave it pending.                        *)
LEMMA CheckStep ==
  ASSUME IInv, NEW c \in Clients, Check(c)
  PROVE  Store!Reject(c) \/ UNCHANGED Store!vars
<1> DEFINE a == Checked[req[c]]
<1>1. Store!Pending(c) /\ Outcome(c) = Unanswered
  BY PendingFacts DEF Check, At, Open, Creating
<1>2. users' = users /\ req' = req
  BY DEF Check, store
<1>3. \A d \in Clients \ {c} : Outcome(d)' = Outcome(d)
  BY OthersKeep DEF Serve
<1>4. CASE a.call = ""
  <2>1. Outcome(c)' = a
    BY <1>4 DEF Check, Goto, Answer, Outcome, IInv, TypeOK
  <2>2. Store!Decide(c, a)
    BY <1>3, <2>1, Settles
  <2> QED
    BY <1>1, <1>2, <1>4, <2>2 DEF Store!Reject, Store!Asked
<1>5. CASE a.call # ""
  <2>1. req[c] \in HttpRequests
    BY DEF Check, At, IInv, RequestInv
  <2>2. pc'[c] \in {"RLock", "Lock"} /\ answer' = answer
    BY <1>5, <2>1, CheckedCall DEF Check, Goto, IInv, TypeOK
  <2>3. pc[c] = "arrived"
    BY DEF Check, At
  <2>4. Outcome(c)' = Outcome(c)
    BY <2>2, <2>3 DEF Outcome
  <2> QED
    BY <1>2, <1>3, <2>4, Hidden
<1> QED
  BY <1>4, <1>5

(* Profile takes effect where it looks the login up.                        *)
LEMMA LookupStep ==
  ASSUME IInv, NEW c \in Clients, ProfileLookup(c)
  PROVE  Store!Profile(c)
<1> DEFINE a == IF LoginOf(c) \in DOMAIN users THEN Shown(users[LoginOf(c)]) ELSE NotFound
<1>1. Store!Pending(c)
  BY PendingFacts DEF ProfileLookup, At, Open, Creating
<1>2. users' = users /\ req' = req
  BY DEF ProfileLookup, store
<1>3. \A d \in Clients \ {c} : Outcome(d)' = Outcome(d)
  BY OthersKeep DEF Serve
<1>4. asked[c] = Checked[req[c]] /\ asked[c].call = "Profile"
  BY DEF ProfileLookup, At, IInv, RequestInv, Asking
<1>5. Outcome(c)' = a
  BY <1>2 DEF ProfileLookup, Goto, Outcome, LoginOf, IInv, TypeOK
<1>6. Store!Decide(c, a)
  BY <1>3, <1>5, Settles
<1> QED
  BY <1>1, <1>2, <1>4, <1>6 DEF Store!Profile, Store!Asked, LoginOf

(* Create is refused where it finds the login in the map.                   *)
LEMMA ExistStep ==
  ASSUME IInv, NEW c \in Clients, CreateExist(c)
  PROVE  Store!CreateKnown(c) \/ UNCHANGED Store!vars
<1>1. Store!Pending(c) /\ Outcome(c) = Unanswered
  BY PendingFacts DEF CreateExist, At, Open, Creating
<1>2. users' = users /\ req' = req
  BY DEF CreateExist, store, locals
<1>3. \A d \in Clients \ {c} : Outcome(d)' = Outcome(d)
  BY OthersKeep DEF Serve
<1>4. asked[c] = Checked[req[c]] /\ asked[c].call = "Create"
  BY DEF CreateExist, At, IInv, RequestInv, Creating
<1>5. CASE LoginOf(c) \in DOMAIN users
  <2>1. Outcome(c)' = Conflict(LoginOf(c))
    BY <1>5 DEF CreateExist, Goto, Answer, Outcome, IInv, TypeOK
  <2>2. Store!Decide(c, Conflict(LoginOf(c)))
    BY <1>3, <2>1, Settles
  <2> QED
    BY <1>1, <1>2, <1>4, <1>5, <2>2 DEF Store!CreateKnown, Store!Asked, LoginOf
<1>6. CASE LoginOf(c) \notin DOMAIN users
  <2>1. Outcome(c)' = Outcome(c)
    BY <1>6 DEF CreateExist, At, Goto, Outcome, IInv, TypeOK
  <2> QED
    BY <1>2, <1>3, <2>1, Hidden
<1> QED
  BY <1>5, <1>6

(* Create takes effect where it puts the user into the map.                 *)
LEMMA InsertStep ==
  ASSUME IInv, NEW c \in Clients, CreateInsert(c)
  PROVE  Store!CreateNew(c)
<1> DEFINE login == LoginOf(c)
<1>1. Store!Pending(c)
  BY PendingFacts DEF CreateInsert, At, Open, Creating
<1>2. req' = req
  BY DEF CreateInsert, locals
<1>3. \A d \in Clients \ {c} : Outcome(d)' = Outcome(d)
  BY OthersKeep DEF Serve
<1>4. asked[c] = Checked[req[c]] /\ asked[c].call = "Create"
  BY DEF CreateInsert, At, IInv, RequestInv, Creating
<1>5. login \notin DOMAIN users
  BY DEF CreateInsert, At, IInv, StoreInv
<1>6. DOMAIN users' = DOMAIN users \cup {login}
  BY DEF CreateInsert
<1>7. users'[login] = NewUser(id[c], asked[c].params) /\ users'[login].id = id[c]
  BY DEF CreateInsert, NewUser, User
<1>8. \A l \in DOMAIN users : users'[l] = users[l] /\ users[l].id # id[c]
  BY <1>5 DEF CreateInsert, At, IInv, TypeOK, StoreInv
<1>9. Outcome(c)' = Created(id[c])
  BY DEF CreateInsert, Goto, Answer, Outcome, IInv, TypeOK
<1>10. Store!Decide(c, Created(id[c]))
  BY <1>3, <1>9, Settles
<1> QED
  BY <1>1, <1>2, <1>4, <1>5, <1>6, <1>7, <1>8, <1>10 DEF Store!CreateNew, Store!Asked, LoginOf

(* The other steps are not visible in the store.                            *)
LEMMA HiddenStep ==
  ASSUME IInv, NEW c \in Clients,
         \/ ProfileRLock(c) \/ ProfileRUnlock(c) \/ ProfileReturn(c) \/ CreateLock(c)
         \/ CreateTakeID(c) \/ CreateNextID(c) \/ CreateUnlock(c) \/ Write(c)
  PROVE  UNCHANGED Store!vars
<1>1. users' = users /\ req' = req
  BY DEF ProfileRLock, ProfileRUnlock, ProfileReturn, CreateLock, CreateTakeID, CreateNextID,
         CreateUnlock, Write, store, locals
<1>2. \A d \in Clients \ {c} : Outcome(d)' = Outcome(d)
  BY OthersKeep DEF Serve
<1>3. Outcome(c)' = Outcome(c)
  BY DEF ProfileRLock, ProfileRUnlock, ProfileReturn, CreateLock, CreateTakeID, CreateNextID,
         CreateUnlock, Write, At, Goto, Answer, Outcome, LoginOf, store, locals, IInv, TypeOK
<1> QED
  BY <1>1, <1>2, <1>3, Hidden

(* Concurrent requests are answered as if each took effect at one instant,  *)
(* whatever their number and contents: MyApi implements UserStore.          *)
THEOREM StoreImplemented == Spec => KeepsUserStore
<1>1. Init => Store!Init
  BY DEF Init, Store!Init, Outcome
<1>2. IInv /\ [Next]_vars => [Store!Next]_(Store!vars)
  <2> SUFFICES ASSUME IInv, [Next]_vars PROVE [Store!Next]_(Store!vars)
    OBVIOUS
  <2>1. CASE UNCHANGED vars
    <3>1. \A c \in Clients : Outcome(c)' = Outcome(c)
      BY <2>1 DEF vars, store, locals, Outcome, LoginOf
    <3> QED
      BY <2>1, <3>1, Hidden DEF vars, store, locals
  <2>2. ASSUME NEW c \in Clients, Ask(c)
        PROVE  Store!Next
    BY <2>2, AskStep DEF Store!Next
  <2>3. ASSUME NEW c \in Clients, Serve(c)
        PROVE  Store!Next \/ UNCHANGED Store!vars
    BY <2>3, CheckStep, LookupStep, ExistStep, InsertStep, HiddenStep DEF Serve, Store!Next
  <2> QED
    BY <2>1, <2>2, <2>3 DEF Next
<1> QED
  BY <1>1, <1>2, Invariance, PTL DEF Spec, KeepsUserStore, Store!Spec
-----------------------------------------------------------------------------
(* Which logins are known.                                                  *)

(* A profile of a user whose creation had been answered.                    *)
AsksCreated(c) ==
  LET login == SentLogin(req[c])
  IN /\ pc[c] # "idle"
     /\ req[c].path = "/user/profile"
     /\ login \in owed[c]
     /\ req[c].method = "POST" \/ (req[c].method = "GET" /\ Plain(login))

(* The login that a creation is to make known: up to a "=" of what is sent. *)
KnownLogin(c) == UpToEq(SentLogin(req[c]))

(* What was acknowledged is in the map and stays there, under the login     *)
(* that a later profile comes to; and no check refuses it.                  *)
KnownTo(c) ==
  /\ owed[c] \subseteq acked
  /\ pc[c] \in Locked \cup {"Lock"} => Creates(req[c])
  /\ pc[c] \in {"Unlock", "write", "answered"} /\ Creates(req[c]) /\ answer[c].status = 200
       => KnownLogin(c) \in DOMAIN users
  /\ AsksCreated(c) /\ pc[c] \in {"RUnlock", "return"} => found[c]
  /\ AsksCreated(c) /\ pc[c] \in {"write", "answered"} => answer[c].status = 200

KnownInv ==
  /\ \A l \in DOMAIN users : l # "" /\ l # "bad_user"
  /\ \A l \in acked : UpToEq(l) \in DOMAIN users
  /\ DOMAIN owed = Clients
  /\ \A c \in Clients : KnownTo(c)

(* Of places in a sequence one is the first.                                *)
LEMMA FirstPlace ==
  ASSUME NEW S, S \subseteq Nat, S # {}
  PROVE  (CHOOSE i \in S : \A k \in S : i <= k) \in S
<1> DEFINE Less == {r \in Nat \X Nat : r[1] < r[2]}
<1>1. IsWellFoundedOn(Less, Nat)
  BY NatLessThanWellFounded DEF OpToRel
<1>2. \E i \in S : \A k \in S : ~(<<k, i>> \in Less)
  <2> HIDE DEF Less
  <2> QED
    BY <1>1, WFMin
<1>3. PICK i \in S : \A k \in S : ~(<<k, i>> \in Less)
  BY <1>2
<1>4. ASSUME NEW k \in S PROVE i <= k
  <2>1. <<k, i>> \in Nat \X Nat /\ <<k, i>>[1] = k /\ <<k, i>>[2] = i
    OBVIOUS
  <2>2. ~(k < i)
    BY <1>3, <2>1
  <2> QED
    BY <2>2
<1> QED
  BY <1>4

(* FirstError is an error when a check fails, and none when all pass.       *)
LEMMA FirstErrorFound ==
  ASSUME NEW checks, DOMAIN checks \subseteq Nat,
         \A k \in DOMAIN checks : checks[k][2] # NoError
  PROVE  FirstError(checks) = NoError <=> \A k \in DOMAIN checks : ~checks[k][1]
<1> DEFINE failed == {i \in DOMAIN checks : checks[i][1]}
<1>1. CASE failed = {}
  BY <1>1 DEF FirstError
<1>2. CASE failed # {}
  <2>1. (CHOOSE i \in failed : \A k \in failed : i <= k) \in failed
    BY <1>2, FirstPlace
  <2>2. FirstError(checks) # NoError
    BY <1>2, <2>1 DEF FirstError
  <2> QED
    BY <1>2, <2>2
<1> QED
  BY <1>1, <1>2

(* The checks of a profile ask for a login, and those of a creation for one *)
(* of ten characters at least.                                              *)
LEMMA ProfileParams ==
  ASSUME NEW q
  PROVE  /\ ValidateProfileParams(q).params.Login = TextOf(q, "login")
         /\ ValidateProfileParams(q).error = NoError <=> TextOf(q, "login") # ""
<1> DEFINE login == TextOf(q, "login")
           checks == << <<login = "", <<"login", "must me not empty">>>> >>
<1>1. DOMAIN checks = {1}
  OBVIOUS
<1>2. checks[1][1] <=> login = ""
  OBVIOUS
<1>3. checks[1][2] # NoError
  BY DEF NoError
<1>4. FirstError(checks) = NoError <=> login # ""
  <2> HIDE DEF checks, login
  <2>1. FirstError(checks) = NoError <=> \A k \in DOMAIN checks : ~checks[k][1]
    BY <1>1, <1>3, FirstErrorFound
  <2> QED
    BY <1>1, <1>2, <2>1
<1> QED
  BY <1>4 DEF ValidateProfileParams, Validated

LEMMA CreateParams ==
  ASSUME NEW q
  PROVE  /\ ValidateCreateParams(q).params.Login = TextOf(q, "login")
         /\ ValidateCreateParams(q).error = NoError =>
              TextOf(q, "login") # "" /\ ~(Length(TextOf(q, "login")) < 10)
<1> DEFINE login == TextOf(q, "login")
           status == IF TextOf(q, "status") = "" THEN "user" ELSE TextOf(q, "status")
           age == IntOf(q, "age")
           checks ==
             << <<login = "", <<"login", "must me not empty">>>>,
                <<Length(login) < 10, <<"login", "len must be >=", 10>>>>,
                <<~Among(Roles, status), <<"status", "must be one of", Roles>>>>,
                <<BadInt(q, "age"), <<"age", "must be int">>>>,
                <<age < 0, <<"age", "must be >=", 0>>>>,
                <<age > 128, <<"age", "must be <=", 128>>>> >>
<1>1. DOMAIN checks = 1 .. 6
  OBVIOUS
<1>2. checks[1][1] <=> login = ""
  OBVIOUS
<1>3. checks[2][1] <=> Length(login) < 10
  OBVIOUS
<1>4. /\ checks[1][2] # NoError /\ checks[2][2] # NoError /\ checks[3][2] # NoError
      /\ checks[4][2] # NoError /\ checks[5][2] # NoError /\ checks[6][2] # NoError
  BY DEF NoError
<1>5. FirstError(checks) = NoError => login # "" /\ ~(Length(login) < 10)
  <2> HIDE DEF checks, login
  <2>1. \A k \in 1 .. 6 : k = 1 \/ k = 2 \/ k = 3 \/ k = 4 \/ k = 5 \/ k = 6
    OBVIOUS
  <2>2. \A k \in DOMAIN checks : checks[k][2] # NoError
    BY <1>1, <1>4, <2>1
  <2>3. FirstError(checks) = NoError <=> \A k \in DOMAIN checks : ~checks[k][1]
    BY <1>1, <2>2, FirstErrorFound
  <2>4. 1 \in DOMAIN checks /\ 2 \in DOMAIN checks
    BY <1>1
  <2> QED
    BY <1>2, <1>3, <2>3, <2>4
<1> QED
  BY <1>5 DEF ValidateCreateParams, Validated
(* The first parameter of a name is the same place of two sequences that    *)
(* have the same names.                                                     *)
LEMMA SamePlaces ==
  ASSUME NEW q, NEW p, NEW key, DOMAIN q = DOMAIN p, \A i \in DOMAIN p : q[i][1] = p[i][1]
  PROVE  Places(q, key) = Places(p, key)
BY DEF Places

(* What is found under a name is what stands at its first place.            *)
LEMMA FoundText ==
  ASSUME NEW q, NEW key, DOMAIN q \subseteq Nat, Has(q, key)
  PROVE  \E i \in DOMAIN q :
           /\ q[i][1] = key
           /\ TextOf(q, key) = q[i][2]
           /\ i = (CHOOSE k \in Places(q, key) : \A l \in Places(q, key) : k <= l)
<1> DEFINE P == Places(q, key)
           i == CHOOSE k \in P : \A l \in P : k <= l
<1>1. P \subseteq DOMAIN q /\ P # {}
  BY DEF Has, Places
<1>2. i \in P
  <2> HIDE DEF P
  <2> QED
    BY <1>1, FirstPlace
<1>3. TextOf(q, key) = q[i][2]
  BY DEF TextOf, First
<1> QED
  BY <1>1, <1>2, <1>3 DEF Places

(* A body is taken up to a "=", and is otherwise as it was sent.            *)
LEMMA BodyLogin ==
  ASSUME NEW r \in HttpRequests, r.method = "POST"
  PROVE  TextOf(BodyQuery(r), "login") = UpToEq(SentLogin(r))
<1> DEFINE q == BodyQuery(r)
           p == SentInBody(r)
<1>1. DOMAIN q = DOMAIN p /\ \A i \in DOMAIN p : q[i][1] = p[i][1] /\ q[i][2] = UpToEq(p[i][2])
  BY DEF BodyQuery, SentInBody
<1>2. Places(q, "login") = Places(p, "login")
  BY <1>1, SamePlaces
<1>3. SentLogin(r) = TextOf(p, "login")
  BY DEF SentLogin
<1>4. DOMAIN p \subseteq Nat
  BY RequestsAssumption DEF SentInBody, Assigned
<1> HIDE DEF p, q
<1>5. CASE Has(p, "login")
  <2>1. PICK i \in DOMAIN p : /\ p[i][1] = "login"
                              /\ TextOf(p, "login") = p[i][2]
                              /\ i = (CHOOSE k \in Places(p, "login") : \A l \in Places(p, "login") : k <= l)
    BY <1>4, <1>5, FoundText
  <2>2. TextOf(q, "login") = q[i][2]
    BY <1>2, <1>5, <2>1 DEF TextOf, First, Has
  <2> QED
    BY <1>1, <1>3, <2>1, <2>2 DEF q
<1>6. CASE ~Has(p, "login")
  BY <1>2, <1>3, <1>6, TextsAssumption DEF TextOf, Has, q
<1> QED
  BY <1>5, <1>6

(* A login that decoding and a "=" leave alone is found in a URL as sent.   *)
LEMMA URLLogin ==
  ASSUME NEW r \in HttpRequests, r.method = "GET", Plain(SentLogin(r))
  PROVE  TextOf(URLQuery(r), "login") = SentLogin(r)
<1> DEFINE q == URLQuery(r)
           p == SentInURL(r)
<1>1. /\ DOMAIN q = DOMAIN p
      /\ \A i \in DOMAIN p : q[i][1] = p[i][1] /\ (q[i][2] = Unescape(p[i][2]) \/ q[i][2] = p[i][2])
  BY DEF URLQuery, SentInURL, Assigned
<1>2. Places(q, "login") = Places(p, "login")
  BY <1>1, SamePlaces
<1>3. SentLogin(r) = TextOf(p, "login")
  BY DEF SentLogin
<1>4. DOMAIN p \subseteq Nat
  BY RequestsAssumption DEF SentInURL
<1> HIDE DEF p, q
<1>5. CASE Has(p, "login")
  <2>1. PICK i \in DOMAIN p : /\ p[i][1] = "login"
                              /\ TextOf(p, "login") = p[i][2]
                              /\ i = (CHOOSE k \in Places(p, "login") : \A l \in Places(p, "login") : k <= l)
    BY <1>4, <1>5, FoundText
  <2>2. TextOf(q, "login") = q[i][2]
    BY <1>2, <1>5, <2>1 DEF TextOf, First, Has
  <2> QED
    BY <1>1, <1>3, <2>1, <2>2 DEF q, Plain
<1>6. CASE ~Has(p, "login")
  BY <1>2, <1>3, <1>6 DEF TextOf, Has, q
<1> QED
  BY <1>5, <1>6

LEMMA OKIsNoError == 200 \notin ErrorCodes
BY DEF ErrorCodes

LEMMA ErrorStatus ==
  ASSUME NEW r \in HttpRequests, Checked[r].call = ""
  PROVE  Checked[r].status # 200
<1>1. Checked[r].status \in ErrorCodes
  BY CheckedOutcome DEF IsError, IsCall
<1> QED
  BY <1>1, OKIsNoError

(* A creation has a login of ten characters at least, up to a "=" of what   *)
(* was sent.                                                                *)
LEMMA CreateChecked ==
  ASSUME NEW r \in HttpRequests, Checked[r].call = "Create"
  PROVE  /\ Creates(r)
         /\ Checked[r].params.Login = UpToEq(SentLogin(r))
         /\ UpToEq(SentLogin(r)) # "" /\ UpToEq(SentLogin(r)) # "bad_user"
<1> DEFINE v == ValidateCreateParams(BodyQuery(r))
           login == TextOf(BodyQuery(r), "login")
<1>1. Checked[r] = ServeMyApi(r)
  BY DEF Checked, BadUser, Fail
<1>2. \A s, e : Fail(s, e).call # "Create"
  BY DEF Fail
<1>3. HandleProfile(r).call # "Create"
  BY ProfileOutcome DEF IsError, IsCall
<1>4. r.path = "/user/create" /\ ServeMyApi(r) = HandleCreate(r)
  <2> DEFINE unknown == <<"unknown method">>
  <2>1. \/ r.path = "/user/create" /\ ServeMyApi(r) = HandleCreate(r)
        \/ ServeMyApi(r) = HandleProfile(r)
        \/ ServeMyApi(r) = Fail(404, unknown)
    BY DEF ServeMyApi
  <2> HIDE DEF unknown
  <2>2. ServeMyApi(r).call = "Create"
    BY <1>1
  <2>3. ServeMyApi(r) # HandleProfile(r)
    BY <1>3, <2>2
  <2>4. ServeMyApi(r) # Fail(404, unknown)
    BY <1>2, <2>2
  <2> QED
    BY <2>1, <2>3, <2>4
<1>5. r.method = "POST" /\ HandleCreate(r) = CallIfValid("Create", v)
  <2> DEFINE method == <<"bad method">>
             auth == <<"unauthorized">>
  <2>1. \/ r.method = "POST" /\ HandleCreate(r) = CallIfValid("Create", v)
        \/ HandleCreate(r) = Fail(406, method)
        \/ HandleCreate(r) = Fail(403, auth)
    BY DEF HandleCreate, GuardedPost
  <2> HIDE DEF v, method, auth
  <2>2. HandleCreate(r).call = "Create"
    BY <1>1, <1>4
  <2>3. HandleCreate(r) # Fail(406, method) /\ HandleCreate(r) # Fail(403, auth)
    BY <1>2, <2>2
  <2> QED
    BY <2>1, <2>3
<1>6. v.error = NoError /\ CallIfValid("Create", v) = Call("Create", v.params)
  BY <1>1, <1>2, <1>4, <1>5 DEF CallIfValid
<1>7. login # "" /\ ~(Length(login) < 10) /\ v.params.Login = login
  BY <1>6, CreateParams
<1>8. login = UpToEq(SentLogin(r))
  BY <1>5, BodyLogin
<1>9. login # "bad_user"
  BY <1>7, TextsAssumption
<1>10. Checked[r].params = v.params
  BY <1>1, <1>4, <1>5, <1>6 DEF Call
<1> QED
  BY <1>4, <1>7, <1>8, <1>9, <1>10 DEF Creates

(* A profile asks for a login, the one sent if it is plain or up to a "=".  *)
LEMMA ProfileChecked ==
  ASSUME NEW r \in HttpRequests, r.path = "/user/profile",
         r.method = "POST" \/ (r.method = "GET" /\ Plain(SentLogin(r))),
         UpToEq(SentLogin(r)) # "", UpToEq(SentLogin(r)) # "bad_user"
  PROVE  Checked[r].call = "Profile" /\ Checked[r].params.Login = UpToEq(SentLogin(r))
<1> DEFINE q == CASE r.method = "POST" -> BodyQuery(r)
                  [] r.method = "GET" -> URLQuery(r)
                  [] OTHER -> <<>>
           v == ValidateProfileParams(q)
<1>1. TextOf(q, "login") = UpToEq(SentLogin(r))
  <2>1. CASE r.method = "POST"
    BY <2>1, BodyLogin
  <2>2. CASE r.method = "GET" /\ Plain(SentLogin(r))
    BY <2>2, URLLogin DEF Plain
  <2> QED
    BY <2>1, <2>2
<1>2. ServeMyApi(r) = CallIfValid("Profile", v)
  BY DEF ServeMyApi, HandleProfile
<1>3. v.error = NoError /\ v.params.Login = UpToEq(SentLogin(r))
  <2> HIDE DEF q
  <2> QED
    BY <1>1, ProfileParams
<1>4. ServeMyApi(r) = Call("Profile", v.params)
  BY <1>2, <1>3 DEF CallIfValid
<1>5. ServeMyApi(r).call = "Profile" /\ ServeMyApi(r).params = v.params
  <2>1. \A p : Call("Profile", p).call = "Profile" /\ Call("Profile", p).params = p
    BY DEF Call
  <2> HIDE DEF v
  <2> QED
    BY <1>4, <2>1
<1>6. Checked[r] = ServeMyApi(r)
  BY <1>3, <1>5 DEF Checked
<1> QED
  BY <1>3, <1>5, <1>6

(* Nobody asked and nothing is known at the start.                          *)
LEMMA InitKnown == Init => KnownInv
<1> SUFFICES ASSUME Init PROVE KnownInv
  OBVIOUS
<1>1. \A l \in DOMAIN users : l = "rvasily"
  BY DEF Init, FirstUsers
<1>2. \A c \in Clients : pc[c] = "idle" /\ owed[c] = {}
  BY DEF Init
<1>3. acked = {} /\ DOMAIN owed = Clients
  BY DEF Init
<1> QED
  BY <1>1, <1>2, <1>3 DEF KnownInv, KnownTo, AsksCreated, Locked, Creating

(* A creating request never comes to Profile.                               *)
LEMMA ProfileCreatesNone ==
  ASSUME NEW r \in HttpRequests, Checked[r].call = "Profile"
  PROVE  ~Creates(r)
<1> SUFFICES ASSUME Creates(r) PROVE FALSE
  OBVIOUS
<1>1. ServeMyApi(r) = HandleCreate(r)
  BY DEF ServeMyApi, Creates
<1>2. \A s, e : Fail(s, e).call # "Profile"
  BY DEF Fail
<1>3. HandleCreate(r).call # "Profile"
  BY CreateOutcome DEF IsError, IsCall
<1>4. BadUser.call # "Profile"
  BY <1>2 DEF BadUser
<1>5. Checked[r] = BadUser \/ Checked[r] = ServeMyApi(r)
  BY DEF Checked
<1> QED
  BY <1>1, <1>3, <1>4, <1>5

(* The profile of a user whose creation had been answered is looked up, and *)
(* under the login that is in the map.                                      *)
LEMMA AskedIsKnown ==
  ASSUME IInv, KnownInv, NEW c \in Clients, AsksCreated(c)
  PROVE  /\ KnownLogin(c) \in DOMAIN users
         /\ Checked[req[c]].call = "Profile"
         /\ Checked[req[c]].params.Login = KnownLogin(c)
<1>1. req[c] \in HttpRequests
  BY DEF IInv, RequestInv, AsksCreated
<1>2. KnownLogin(c) \in DOMAIN users
  BY DEF KnownInv, KnownTo, AsksCreated, KnownLogin
<1>3. KnownLogin(c) # "" /\ KnownLogin(c) # "bad_user"
  BY <1>2 DEF KnownInv
<1> QED
  BY <1>1, <1>2, <1>3, ProfileChecked DEF AsksCreated, KnownLogin

(* A step of a client keeps what is known to it.                            *)
LEMMA KnownToStep ==
  ASSUME IInv, KnownInv, NEW c \in Clients, Ask(c) \/ Serve(c)
  PROVE  KnownTo(c)'
<1>1. CASE Ask(c)
  BY <1>1 DEF Ask, Goto, store, history, KnownTo, AsksCreated, Locked, Creating, IInv, TypeOK, KnownInv
<1>2. ASSUME Serve(c) PROVE UNCHANGED <<req, owed>> /\ owed'[c] \subseteq acked'
  BY <1>2 DEF Serve, Check, Write, ProfileRLock, ProfileLookup, ProfileRUnlock, ProfileReturn,
         CreateLock, CreateExist, CreateTakeID, CreateNextID, CreateInsert, CreateUnlock,
         locals, history, KnownInv, KnownTo
<1>3. KnownTo(c)
  BY DEF KnownInv
<1>4. ASSUME Serve(c), AsksCreated(c)'
      PROVE  AsksCreated(c) \/ pc[c] = "idle"
  BY <1>2, <1>4 DEF AsksCreated
<1>5. CASE Check(c)
  <2> DEFINE a == Checked[req[c]]
  <2>1. pc[c] = "arrived" /\ req[c] \in HttpRequests
    BY <1>5 DEF Check, At, IInv, RequestInv
  <2>2. CASE a.call = ""
    <3>1. pc'[c] = "write" /\ answer'[c] = a /\ a.status # 200
      BY <1>5, <2>1, <2>2, ErrorStatus DEF Check, Goto, Answer, IInv, TypeOK
    <3>2. ~AsksCreated(c)
      BY <2>2, AskedIsKnown
    <3> QED
      BY <1>2, <1>4, <1>5, <2>1, <3>1, <3>2 DEF Serve, KnownTo, Locked, Creating
  <2>3. CASE a.call = "Profile"
    <3>1. pc'[c] = "RLock"
      BY <1>5, <2>3 DEF Check, Goto, IInv, TypeOK
    <3> QED
      BY <1>2, <1>5, <3>1 DEF Serve, KnownTo, Locked, Creating
  <2>4. CASE a.call = "Create"
    <3>1. pc'[c] = "Lock" /\ Creates(req[c])
      BY <1>5, <2>1, <2>4, CreateChecked DEF Check, Goto, IInv, TypeOK
    <3> QED
      BY <1>2, <1>5, <3>1 DEF Serve, KnownTo, Locked, Creating
  <2> QED
    BY <2>1, <2>2, <2>3, <2>4, CheckedCall
<1>6. CASE ProfileRLock(c)
  BY <1>2, <1>3, <1>6 DEF ProfileRLock, Serve, Goto, IInv, TypeOK, KnownTo, Locked, Creating
<1>7. CASE ProfileLookup(c)
  <2>1. pc[c] = "lookup" /\ pc'[c] = "RUnlock" /\ found'[c] = (LoginOf(c) \in DOMAIN users)
    BY <1>7 DEF ProfileLookup, At, Goto, IInv, TypeOK
  <2>2. asked[c] = Checked[req[c]]
    BY <2>1 DEF IInv, RequestInv, Asking
  <2>3. AsksCreated(c) => found'[c]
    BY <2>1, <2>2, AskedIsKnown DEF LoginOf
  <2> QED
    BY <1>2, <1>4, <1>7, <2>1, <2>3 DEF Serve, KnownTo, Locked, Creating
<1>8. CASE ProfileRUnlock(c)
  <2>1. pc[c] = "RUnlock" /\ pc'[c] = "return" /\ found' = found
    BY <1>8 DEF ProfileRUnlock, At, Goto, locals, IInv, TypeOK
  <2> QED
    BY <1>2, <1>3, <1>4, <1>8, <2>1 DEF Serve, KnownTo, Locked, Creating
<1>9. CASE ProfileReturn(c)
  <2>1. pc[c] = "return" /\ pc'[c] = "write"
    BY <1>9 DEF ProfileReturn, At, Goto, IInv, TypeOK
  <2>2. ~Creates(req[c])
    BY <2>1, ProfileCreatesNone DEF IInv, RequestInv, Asking
  <2>3. found[c] => answer'[c].status = 200
    BY <1>9 DEF ProfileReturn, Answer, Shown, IInv, TypeOK
  <2>4. AsksCreated(c) => found[c]
    BY <1>3, <2>1 DEF KnownTo
  <2>5. ~Creates(req[c])'
    BY <1>2, <1>9, <2>2 DEF Serve, Creates
  <2> QED
    BY <1>2, <1>4, <1>9, <2>1, <2>3, <2>4, <2>5 DEF Serve, KnownTo, Locked, Creating
<1>10. CASE CreateLock(c)
  <2>1. pc[c] = "Lock" /\ pc'[c] = "exist"
    BY <1>10 DEF CreateLock, At, Goto, IInv, TypeOK
  <2> QED
    BY <1>2, <1>3, <1>10, <2>1 DEF Serve, KnownTo, Locked, Creating, Creates
<1>11. CASE CreateExist(c)
  <2>1. pc[c] = "exist" /\ pc'[c] \in {"Unlock", "takeID"}
    BY <1>11 DEF CreateExist, At, Goto, IInv, TypeOK
  <2>2. pc'[c] = "Unlock" => answer'[c] = Conflict(LoginOf(c))
    BY <1>11 DEF CreateExist, Goto, Answer, IInv, TypeOK
  <2>3. Conflict(LoginOf(c)).status = 409
    BY DEF Conflict, Fail
  <2>4. pc'[c] = "Unlock" => ~(answer'[c].status = 200)
    BY <2>2, <2>3
  <2> QED
    BY <1>2, <1>3, <1>11, <2>1, <2>4 DEF Serve, KnownTo, Locked, Creating, Creates
<1>12. CASE CreateTakeID(c)
  <2>1. pc[c] = "takeID" /\ pc'[c] = "nextID"
    BY <1>12 DEF CreateTakeID, At, Goto, IInv, TypeOK
  <2> QED
    BY <1>2, <1>3, <1>12, <2>1 DEF Serve, KnownTo, Locked, Creating, Creates
<1>13. CASE CreateNextID(c)
  <2>1. pc[c] = "nextID" /\ pc'[c] = "insert"
    BY <1>13 DEF CreateNextID, At, Goto, IInv, TypeOK
  <2> QED
    BY <1>2, <1>3, <1>13, <2>1 DEF Serve, KnownTo, Locked, Creating, Creates
<1>14. CASE CreateInsert(c)
  <2>1. pc[c] = "insert" /\ pc'[c] = "Unlock"
    BY <1>14 DEF CreateInsert, At, Goto, IInv, TypeOK
  <2>2. asked[c] = Checked[req[c]] /\ asked[c].call = "Create" /\ req[c] \in HttpRequests
    BY <2>1 DEF IInv, RequestInv, Creating
  <2>3. LoginOf(c) = KnownLogin(c)
    BY <2>2, CreateChecked DEF LoginOf, KnownLogin
  <2>4. KnownLogin(c)' \in DOMAIN users'
    BY <1>2, <1>14, <2>3 DEF Serve, CreateInsert, KnownLogin
  <2> QED
    BY <1>2, <1>3, <1>14, <2>1, <2>4 DEF Serve, KnownTo, Locked, Creating, Creates
<1>15. CASE CreateUnlock(c)
  <2>1. pc[c] = "Unlock" /\ pc'[c] = "write" /\ answer' = answer /\ users' = users
    BY <1>15 DEF CreateUnlock, At, Goto, store, IInv, TypeOK
  <2>2. ~AsksCreated(c)'
    BY <1>2, <1>3, <1>15, <2>1 DEF Serve, KnownTo, Locked, Creates, AsksCreated
  <2> QED
    BY <1>2, <1>3, <1>15, <2>1, <2>2 DEF Serve, KnownTo, Locked, Creating, Creates, KnownLogin
<1>16. CASE Write(c)
  <2>1. pc[c] = "write" /\ pc'[c] = "answered" /\ answer' = answer /\ users' = users
    BY <1>16 DEF Write, At, Goto, store, IInv, TypeOK
  <2> QED
    BY <1>2, <1>3, <1>4, <1>16, <2>1 DEF Serve, KnownTo, Locked, Creating, Creates, KnownLogin
<1> QED
  BY <1>1, <1>5, <1>6, <1>7, <1>8, <1>9, <1>10, <1>11, <1>12, <1>13, <1>14, <1>15, <1>16 DEF Serve

(* Each step keeps KnownInv.                                                *)
LEMMA KnownStep ==
  ASSUME IInv, KnownInv, NEW c \in Clients, Ask(c) \/ Serve(c)
  PROVE  KnownInv'
<1>1. DOMAIN users \subseteq DOMAIN users' /\ acked \subseteq acked'
  BY DEF Ask, Serve, Check, Write, ProfileRLock, ProfileLookup, ProfileRUnlock, ProfileReturn,
         CreateLock, CreateExist, CreateTakeID, CreateNextID, CreateInsert, CreateUnlock,
         store, history
<1>2. ASSUME NEW d \in Clients \ {c} PROVE KnownTo(d)'
  <2>1. /\ pc'[d] = pc[d] /\ found'[d] = found[d] /\ answer'[d] = answer[d]
        /\ req'[d] = req[d] /\ owed'[d] = owed[d]
    <3>1. CASE Ask(c)
      BY <3>1 DEF Ask, Goto, IInv, TypeOK, KnownInv
    <3>2. CASE Serve(c)
      BY <3>2 DEF Serve, Check, Write, ProfileRLock, ProfileLookup, ProfileRUnlock,
           ProfileReturn, CreateLock, CreateExist, CreateTakeID, CreateNextID, CreateInsert,
           CreateUnlock, Goto, Answer, locals, history, IInv, TypeOK
    <3> QED
      BY <3>1, <3>2
  <2>2. KnownTo(d)
    BY DEF KnownInv
  <2> QED
    BY <1>1, <2>1, <2>2 DEF KnownTo, AsksCreated, KnownLogin, Creates
<1>3. /\ \A l \in DOMAIN users' : l # "" /\ l # "bad_user"
      /\ \A l \in acked' : UpToEq(l) \in DOMAIN users'
      /\ DOMAIN owed' = Clients
  <2>1. CASE CreateInsert(c)
    <3>1. asked[c] = Checked[req[c]] /\ asked[c].call = "Create" /\ req[c] \in HttpRequests
      BY <2>1 DEF CreateInsert, At, IInv, RequestInv, Creating
    <3>2. LoginOf(c) # "" /\ LoginOf(c) # "bad_user"
      BY <3>1, CreateChecked DEF LoginOf
    <3>3. DOMAIN users' = DOMAIN users \cup {LoginOf(c)} /\ acked' = acked /\ owed' = owed
      BY <2>1 DEF CreateInsert, history
    <3> QED
      BY <3>2, <3>3 DEF KnownInv
  <2>2. CASE Write(c)
    <3>1. users' = users /\ owed' = owed
      BY <2>2 DEF Write, store
    <3>2. \A l \in acked' \ acked : UpToEq(l) \in DOMAIN users
      BY <2>2 DEF Write, At, KnownInv, KnownTo, KnownLogin
    <3> QED
      BY <3>1, <3>2 DEF KnownInv
  <2>3. CASE Ask(c)
    BY <2>3 DEF Ask, store, KnownInv
  <2>4. CASE /\ Serve(c)
             /\ ~CreateInsert(c)
             /\ ~Write(c)
    <3>1. DOMAIN users' = DOMAIN users /\ acked' = acked /\ owed' = owed
      BY <2>4 DEF Serve, Check, ProfileRLock, ProfileLookup, ProfileRUnlock, ProfileReturn,
           CreateLock, CreateExist, CreateTakeID, CreateNextID, CreateUnlock, store, history
    <3> QED
      BY <3>1 DEF KnownInv
  <2> QED
    BY <2>1, <2>2, <2>3, <2>4
<1>4. KnownTo(c)'
  BY KnownToStep
<1> QED
  BY <1>2, <1>3, <1>4 DEF KnownInv

(* A profile that is asked for after the creation of its user was answered  *)
(* is shown, for any requests that run meanwhile: what was acknowledged is  *)
(* never lost, and the checks of a profile come to the login under which it *)
(* was stored.                                                              *)
THEOREM CreatedFound == Spec => []CreatedIsFound
<1>1. KnownInv => CreatedIsFound
  <2> SUFFICES ASSUME KnownInv, NEW c \in Clients, pc[c] = "answered", AsksCreated(c)
               PROVE  answer[c].status = 200
    BY DEF CreatedIsFound, AsksCreated
  <2> QED
    BY DEF KnownInv, KnownTo
<1>2. KnownInv /\ UNCHANGED vars => KnownInv'
  <2> SUFFICES ASSUME KnownInv, UNCHANGED vars PROVE KnownInv'
    OBVIOUS
  <2>1. UNCHANGED <<users, pc, req, found, answer, acked, owed>>
    BY DEF vars, store, locals, history
  <2>2. ASSUME NEW c \in Clients PROVE KnownTo(c)'
    BY <2>1 DEF KnownInv, KnownTo, AsksCreated, KnownLogin, Creates
  <2> QED
    BY <2>1, <2>2 DEF KnownInv
<1>3. IInv /\ KnownInv /\ [Next]_vars => KnownInv'
  BY <1>2, KnownStep DEF Next
<1> QED
  BY Invariance, InitKnown, <1>1, <1>3, PTL DEF Spec

-----------------------------------------------------------------------------
(* No deadlock.  ENABLED is beyond the prover: the guards of Serve(c) are   *)
(* spelt out.  Only RLock and Lock wait, for the mutex.                     *)
InService(c) == pc[c] \notin {"idle", "answered"}
ServeCan(c) ==
  /\ InService(c)
  /\ pc[c] = "RLock" => writer = NoOne
  /\ pc[c] = "Lock" => writer = NoOne /\ readers = {}

SomeRequestMoves ==
  (\E c \in Clients : InService(c)) => \E c \in Clients : ServeCan(c)

(* While a request is not answered, some request can take a step: who holds *)
(* srv.mu waits for nobody, and a free mutex can be taken                    *)
(* (api.go:80, 96).                                                         *)
THEOREM RequestsMove == Spec => []SomeRequestMoves
<1>1. IInv => SomeRequestMoves
  <2> SUFFICES ASSUME IInv, NEW c \in Clients, InService(c)
               PROVE  \E d \in Clients : ServeCan(d)
    BY Zenon DEF SomeRequestMoves
  <2>1. TypeOK /\ MutexInv
    BY Zenon DEF IInv
  <2>2. CASE writer # NoOne
    <3>1. writer \in Clients /\ pc[writer] \in Locked
      BY <2>1, <2>2 DEF TypeOK, MutexInv
    <3>2. ServeCan(writer)
      BY <3>1 DEF ServeCan, InService, Locked, Creating
    <3> QED
      BY <3>1, <3>2
  <2>3. CASE writer = NoOne /\ readers # {}
    <3>1. PICK d \in Clients : d \in readers
      BY <2>1, <2>3 DEF TypeOK
    <3>2. pc[d] \in Reading
      BY <2>1, <3>1 DEF MutexInv
    <3>3. ServeCan(d)
      BY <3>2 DEF ServeCan, InService, Reading
    <3> QED
      BY <3>3
  <2>4. CASE writer = NoOne /\ readers = {}
    BY <2>4 DEF ServeCan
  <2> QED
    BY <2>2, <2>3, <2>4
<1> QED
  BY <1>1, Invariance, PTL

-----------------------------------------------------------------------------

(* The kept handlers are the generated ones.                                *)

(* Of checks in a row the first that fails counts.                          *)

LEMMA FirstIs ==
  ASSUME NEW S \in SUBSET Nat, NEW k \in S, \A i \in S : k <= i
  PROVE  (CHOOSE i \in S : \A j \in S : i <= j) = k
<1> DEFINE c == CHOOSE i \in S : \A j \in S : i <= j
<1>1. c \in S /\ c <= k
  OBVIOUS
<1>2. k <= c /\ k \in Nat /\ c \in Nat
  BY <1>1
<1> HIDE DEF c
<1>3. c = k
  BY <1>1, <1>2
<1> QED
  BY <1>3 DEF c

LEMMA FirstErrorIs ==
  ASSUME NEW checks, DOMAIN checks \subseteq Nat, NEW k \in DOMAIN checks, checks[k][1],
         \A i \in DOMAIN checks : i < k => ~checks[i][1]
  PROVE  FirstError(checks) = checks[k][2]
<1> DEFINE failed == {i \in DOMAIN checks : checks[i][1]}
<1>1. k \in failed /\ failed \in SUBSET Nat /\ \A i \in failed : k <= i
  OBVIOUS
<1>2. (CHOOSE i \in failed : \A j \in failed : i <= j) = k
  <2> HIDE DEF failed
  <2> QED
    BY <1>1, FirstIs
<1> QED
  BY <1>1, <1>2 DEF FirstError

LEMMA NoFirstError ==
  ASSUME NEW checks, \A i \in DOMAIN checks : ~checks[i][1]
  PROVE  FirstError(checks) = NoError
BY DEF FirstError

LEMMA FirstWrong ==
  ASSUME NEW struct, NEW q, DOMAIN struct.fields \subseteq Nat, NEW k \in DOMAIN struct.fields,
         FieldError(struct.fields[k], q) # NoError,
         \A i \in DOMAIN struct.fields : i < k => FieldError(struct.fields[i], q) = NoError
  PROVE  Validate(struct, q).error = FieldError(struct.fields[k], q)
<1> DEFINE wrong == {i \in DOMAIN struct.fields : FieldError(struct.fields[i], q) # NoError}
<1>1. k \in wrong /\ wrong \in SUBSET Nat /\ \A i \in wrong : k <= i
  OBVIOUS
<1>2. (CHOOSE i \in wrong : \A j \in wrong : i <= j) = k
  <2> HIDE DEF wrong
  <2> QED
    BY <1>1, FirstIs
<1> QED
  BY <1>1, <1>2 DEF Validate, Validated

LEMMA NoneWrong ==
  ASSUME NEW struct, NEW q, \A i \in DOMAIN struct.fields : FieldError(struct.fields[i], q) = NoError
  PROVE  Validate(struct, q).error = NoError
BY DEF Validate, Validated

(* What a field of each kind comes to.                                      *)

LEMMA FieldFacts ==
  ASSUME NEW name, NEW type, NEW tag
  PROVE  /\ Field(name, type, tag).name = name
         /\ Field(name, type, tag).type = type
         /\ Field(name, type, tag).tag = tag
BY DEF Field

LEMMA TagFacts ==
  ASSUME NEW a, NEW b
  PROVE  /\ DOMAIN [none |-> a] = {"none"}
         /\ DOMAIN [required |-> a] = {"required"}
         /\ DOMAIN [required |-> a, min |-> b] = {"required", "min"}
         /\ DOMAIN [paramname |-> a] = {"paramname"}
         /\ DOMAIN [enum |-> a, default |-> b] = {"enum", "default"}
         /\ DOMAIN [min |-> a, max |-> b] = {"min", "max"}
OBVIOUS

LEMMA TextValue ==
  ASSUME NEW f, NEW q, f.type = "string", f.tag # NoTag
  PROVE  FieldValue(f, q) =
           IF Tagged(f, "default") /\ TextOf(q, Param(f)) = "" THEN f.tag.default[1]
           ELSE TextOf(q, Param(f))
BY Zenon DEF FieldValue, TextOf, Zero

LEMMA NumberValue ==
  ASSUME NEW f, NEW q, f.type = "int", f.tag # NoTag, ~Tagged(f, "default")
  PROVE  FieldValue(f, q) = IntOf(q, Param(f))
<1>1. "int" # "string"
  BY Zenon
<1> QED
  BY <1>1, Zenon DEF FieldValue, IntOf, Zero

(* A text that is required, and of a least length.                          *)

LEMMA TextError ==
  ASSUME NEW f, NEW q, f.type = "string", f.tag # NoTag, Tagged(f, "required"),
         ~Tagged(f, "enum"), ~Tagged(f, "max"), ~Tagged(f, "default")
  PROVE  FieldError(f, q) =
           IF TextOf(q, Param(f)) = "" THEN <<Param(f), "must me not empty">>
           ELSE IF Tagged(f, "min") /\ Length(TextOf(q, Param(f))) < f.tag.min[1]
                THEN <<Param(f), "len must be >=", f.tag.min[1]>>
           ELSE NoError
<1>1. "int" # "string"
  BY Zenon
<1>2. FieldValue(f, q) = TextOf(q, Param(f))
  BY TextValue, Zenon
<1> QED
  BY <1>1, <1>2, Zenon DEF FieldError, Zero

LEMMA FreeTextError ==
  ASSUME NEW f, NEW q, f.type = "string", ~Tagged(f, "required"),
         ~Tagged(f, "enum"), ~Tagged(f, "min"), ~Tagged(f, "max")
  PROVE  FieldError(f, q) = NoError
<1>1. "int" # "string"
  BY Zenon
<1> QED
  BY <1>1, Zenon DEF FieldError

LEMMA ChoiceError ==
  ASSUME NEW f, NEW q, f.type = "string", f.tag # NoTag, Tagged(f, "enum"), ~Tagged(f, "required"),
         ~Tagged(f, "min"), ~Tagged(f, "max")
  PROVE  FieldError(f, q) =
           IF ~Among(f.tag.enum, FieldValue(f, q)) THEN <<Param(f), "must be one of", f.tag.enum>>
           ELSE NoError
<1>1. "int" # "string"
  BY Zenon
<1> QED
  BY <1>1, Zenon DEF FieldError

LEMMA NumberError ==
  ASSUME NEW f, NEW q, f.type = "int", f.tag # NoTag, ~Tagged(f, "default"), ~Tagged(f, "required"),
         ~Tagged(f, "enum"), Tagged(f, "min"), Tagged(f, "max")
  PROVE  FieldError(f, q) =
           IF BadInt(q, Param(f)) THEN <<Param(f), "must be int">>
           ELSE IF IntOf(q, Param(f)) < f.tag.min[1]
                THEN <<Param(f), "must be >=", f.tag.min[1]>>
           ELSE IF IntOf(q, Param(f)) > f.tag.max[1]
                THEN <<Param(f), "must be <=", f.tag.max[1]>>
           ELSE NoError
<1>1. "int" # "string"
  BY Zenon
<1>2. FieldValue(f, q) = IntOf(q, Param(f))
  BY NumberValue, Zenon
<1> QED
  BY <1>1, <1>2, Zenon DEF FieldError

(* The declarations of api.go.                                              *)

LEMMA DeclFacts ==
  /\ \A n, fields : /\ TypeDecl(n, fields).kind = "struct"
                    /\ TypeDecl(n, fields).name = n
                    /\ TypeDecl(n, fields).fields = fields
  /\ \A n, recv, params, doc : /\ Func(n, recv, params, doc).kind = "func"
                               /\ Func(n, recv, params, doc).name = n
                               /\ Func(n, recv, params, doc).recv = recv
                               /\ Func(n, recv, params, doc).params = params
                               /\ Func(n, recv, params, doc).doc = doc
  /\ \A url, auth, method : /\ Api(url, auth, method).url = url
                            /\ Api(url, auth, method).auth = auth
                            /\ Api(url, auth, method).method = method
BY DEF TypeDecl, Func, Api

LEMMA TypeDeclKinds ==
  /\ ApiErrorDecl.kind = "struct" /\ ApiErrorDecl.name = "ApiError"
  /\ ProfileParamsDecl.kind = "struct" /\ ProfileParamsDecl.name = "ProfileParams"
  /\ CreateParamsDecl.kind = "struct" /\ CreateParamsDecl.name = "CreateParams"
  /\ OtherCreateParamsDecl.kind = "struct" /\ OtherCreateParamsDecl.name = "OtherCreateParams"
<1>1. \E fields : ApiErrorDecl = TypeDecl("ApiError", fields)
  BY Zenon DEF ApiErrorDecl
<1>2. \E fields : ProfileParamsDecl = TypeDecl("ProfileParams", fields)
  BY Zenon DEF ProfileParamsDecl
<1>3. \E fields : CreateParamsDecl = TypeDecl("CreateParams", fields)
  BY Zenon DEF CreateParamsDecl
<1>4. \E fields : OtherCreateParamsDecl = TypeDecl("OtherCreateParams", fields)
  BY Zenon DEF OtherCreateParamsDecl
<1> QED
  BY <1>1, <1>2, <1>3, <1>4, DeclFacts

LEMMA FuncKinds ==
  /\ \A n : Undocumented(n).kind = "func" /\ Undocumented(n).doc = NoDoc
  /\ ProfileDecl.kind = "func" /\ ProfileDecl.recv = "MyApi"
  /\ CreateDecl.kind = "func" /\ CreateDecl.recv = "MyApi"
  /\ OtherCreateDecl.kind = "func" /\ OtherCreateDecl.recv = "OtherApi"
<1>1. ASSUME NEW n PROVE \E recv, params : Undocumented(n) = Func(n, recv, params, NoDoc)
  BY Zenon DEF Undocumented
<1>2. \E params, doc : ProfileDecl = Func("Profile", "MyApi", params, doc)
  BY Zenon DEF ProfileDecl
<1>3. \E params, doc : CreateDecl = Func("Create", "MyApi", params, doc)
  BY Zenon DEF CreateDecl
<1>4. \E params, doc : OtherCreateDecl = Func("Create", "OtherApi", params, doc)
  BY Zenon DEF OtherCreateDecl
<1> QED
  BY <1>1, <1>2, <1>3, <1>4, DeclFacts

LEMMA Documented ==
  ASSUME NEW url, NEW auth, NEW method
  PROVE  Api(url, auth, method) # NoDoc
<1>1. "auth" \in DOMAIN Api(url, auth, method)
  BY DEF Api
<1>2. \A u : "auth" \notin DOMAIN [url |-> u]
  OBVIOUS
<1>3. "auth" \notin DOMAIN NoDoc
  BY <1>2, Zenon DEF NoDoc
<1> QED
  BY <1>1, <1>3, Zenon

LEMMA Docs ==
  /\ ProfileDecl.doc = Api("/user/profile", FALSE, "")
  /\ CreateDecl.doc = Api("/user/create", TRUE, "POST")
  /\ OtherCreateDecl.doc = Api("/user/create", TRUE, "POST")
<1> DEFINE profile == Api("/user/profile", FALSE, "")
           create == Api("/user/create", TRUE, "POST")
<1>1. \E n, recv, params : ProfileDecl = Func(n, recv, params, profile)
  BY Zenon DEF ProfileDecl
<1>2. \E n, recv, params : CreateDecl = Func(n, recv, params, create)
  BY Zenon DEF CreateDecl
<1>3. \E n, recv, params : OtherCreateDecl = Func(n, recv, params, create)
  BY Zenon DEF OtherCreateDecl
<1> HIDE DEF profile, create
<1>4. ProfileDecl.doc = profile /\ CreateDecl.doc = create /\ OtherCreateDecl.doc = create
  BY <1>1, <1>2, <1>3, DeclFacts
<1> QED
  BY <1>4, Zenon DEF profile, create

LEMMA DocsThere ==
  ProfileDecl.doc # NoDoc /\ CreateDecl.doc # NoDoc /\ OtherCreateDecl.doc # NoDoc
BY Docs, Documented, Zenon

LEMMA ApiGoPlaces ==
  /\ DOMAIN ApiGo = 1 .. 10
  /\ ApiGo[1] = ApiErrorDecl /\ ApiGo[2] = Undocumented("Error")
  /\ ApiGo[3] = Undocumented("NewMyApi") /\ ApiGo[4] = ProfileParamsDecl
  /\ ApiGo[5] = CreateParamsDecl /\ ApiGo[6] = ProfileDecl /\ ApiGo[7] = CreateDecl
  /\ ApiGo[8] = Undocumented("NewOtherApi") /\ ApiGo[9] = OtherCreateParamsDecl
  /\ ApiGo[10] = OtherCreateDecl
BY DEF ApiGo

LEMMA ApiGoCases ==
  ASSUME NEW i \in DOMAIN ApiGo
  PROVE  i = 1 \/ i = 2 \/ i = 3 \/ i = 4 \/ i = 5 \/ i = 6 \/ i = 7 \/ i = 8 \/ i = 9 \/ i = 10
BY ApiGoPlaces

LEMMA Structs ==
  /\ Struct(ApiGo, "ProfileParams") = ProfileParamsDecl
  /\ Struct(ApiGo, "CreateParams") = CreateParamsDecl
  /\ Struct(ApiGo, "OtherCreateParams") = OtherCreateParamsDecl
<1>1. \A i \in DOMAIN ApiGo :
        ApiGo[i].kind = "struct" /\ ApiGo[i].name = "ProfileParams" <=> i = 4
  BY ApiGoPlaces, ApiGoCases, TypeDeclKinds, FuncKinds
<1>2. \A i \in DOMAIN ApiGo :
        ApiGo[i].kind = "struct" /\ ApiGo[i].name = "CreateParams" <=> i = 5
  BY ApiGoPlaces, ApiGoCases, TypeDeclKinds, FuncKinds
<1>3. \A i \in DOMAIN ApiGo :
        ApiGo[i].kind = "struct" /\ ApiGo[i].name = "OtherCreateParams" <=> i = 9
  BY ApiGoPlaces, ApiGoCases, TypeDeclKinds, FuncKinds
<1>4. 4 \in DOMAIN ApiGo /\ 5 \in DOMAIN ApiGo /\ 9 \in DOMAIN ApiGo
  BY ApiGoPlaces
<1> QED
  BY <1>1, <1>2, <1>3, <1>4, ApiGoPlaces DEF Struct

LEMMA MethodsOf ==
  /\ Methods(ApiGo, "MyApi") = {6, 7}
  /\ Methods(ApiGo, "OtherApi") = {10}
<1>1. \A i \in DOMAIN ApiGo :
        (ApiGo[i].kind = "func" /\ ApiGo[i].recv = "MyApi" /\ ApiGo[i].doc # NoDoc) <=> i \in {6, 7}
  BY ApiGoPlaces, ApiGoCases, TypeDeclKinds, FuncKinds, DocsThere
<1>2. \A i \in DOMAIN ApiGo :
        (ApiGo[i].kind = "func" /\ ApiGo[i].recv = "OtherApi" /\ ApiGo[i].doc # NoDoc) <=> i = 10
  BY ApiGoPlaces, ApiGoCases, TypeDeclKinds, FuncKinds, DocsThere
<1> QED
  BY <1>1, <1>2, ApiGoPlaces DEF Methods

(* The kinds of fields that api.go has, each with its value and its error.  *)

LEMMA NoTagDiffers ==
  ASSUME NEW tag, "none" \notin DOMAIN tag
  PROVE  tag # NoTag
BY DEF NoTag

LEMMA RequiredField ==
  ASSUME NEW n, NEW q
  PROVE  LET f == Field(n, "string", [required |-> NoValue])
         IN /\ FieldValue(f, q) = TextOf(q, Lower(n))
            /\ FieldError(f, q) =
                 IF TextOf(q, Lower(n)) = "" THEN <<Lower(n), "must me not empty">> ELSE NoError
<1> DEFINE f == Field(n, "string", [required |-> NoValue])
<1>1. /\ f.name = n /\ f.type = "string" /\ f.tag # NoTag
      /\ Tagged(f, "required") /\ ~Tagged(f, "default") /\ ~Tagged(f, "enum")
      /\ ~Tagged(f, "min") /\ ~Tagged(f, "max") /\ ~Tagged(f, "paramname")
  BY FieldFacts, TagFacts, NoTagDiffers DEF Tagged
<1> HIDE DEF f
<1>2. Param(f) = Lower(n)
  BY <1>1, Zenon DEF Param
<1>3. FieldValue(f, q) = TextOf(q, Lower(n))
  BY <1>1, <1>2, TextValue, Zenon
<1>4. FieldError(f, q) =
        IF TextOf(q, Lower(n)) = "" THEN <<Lower(n), "must me not empty">> ELSE NoError
  BY <1>1, <1>2, TextError, Zenon
<1> QED
  BY <1>3, <1>4, Zenon DEF f

LEMMA LengthField ==
  ASSUME NEW n, NEW q, NEW least
  PROVE  LET f == Field(n, "string", [required |-> NoValue, min |-> <<least>>])
         IN /\ FieldValue(f, q) = TextOf(q, Lower(n))
            /\ FieldError(f, q) =
                 IF TextOf(q, Lower(n)) = "" THEN <<Lower(n), "must me not empty">>
                 ELSE IF Length(TextOf(q, Lower(n))) < least THEN <<Lower(n), "len must be >=", least>>
                 ELSE NoError
<1> DEFINE f == Field(n, "string", [required |-> NoValue, min |-> <<least>>])
<1>1. /\ f.name = n /\ f.type = "string" /\ f.tag # NoTag
      /\ Tagged(f, "required") /\ ~Tagged(f, "default") /\ ~Tagged(f, "enum")
      /\ Tagged(f, "min") /\ ~Tagged(f, "max") /\ ~Tagged(f, "paramname")
  BY FieldFacts, TagFacts, NoTagDiffers DEF Tagged
<1>2. f.tag.min[1] = least
  BY FieldFacts
<1> HIDE DEF f
<1>3. Param(f) = Lower(n)
  BY <1>1, Zenon DEF Param
<1>4. FieldValue(f, q) = TextOf(q, Lower(n))
  BY <1>1, <1>3, TextValue, Zenon
<1>5. FieldError(f, q) =
        IF TextOf(q, Lower(n)) = "" THEN <<Lower(n), "must me not empty">>
        ELSE IF Length(TextOf(q, Lower(n))) < least THEN <<Lower(n), "len must be >=", least>>
        ELSE NoError
  BY <1>1, <1>2, <1>3, TextError, Zenon
<1> QED
  BY <1>4, <1>5, Zenon DEF f

LEMMA FreeField ==
  ASSUME NEW n, NEW q, NEW param
  PROVE  LET f == Field(n, "string", [paramname |-> <<param>>])
         IN FieldValue(f, q) = TextOf(q, param) /\ FieldError(f, q) = NoError
<1> DEFINE f == Field(n, "string", [paramname |-> <<param>>])
<1>1. /\ f.type = "string" /\ f.tag # NoTag
      /\ ~Tagged(f, "required") /\ ~Tagged(f, "default") /\ ~Tagged(f, "enum")
      /\ ~Tagged(f, "min") /\ ~Tagged(f, "max") /\ Tagged(f, "paramname")
  BY FieldFacts, TagFacts, NoTagDiffers DEF Tagged
<1>2. f.tag.paramname[1] = param
  BY FieldFacts
<1> HIDE DEF f
<1>3. Param(f) = param
  BY <1>1, <1>2, Zenon DEF Param
<1>4. FieldValue(f, q) = TextOf(q, param)
  BY <1>1, <1>3, TextValue, Zenon
<1>5. FieldError(f, q) = NoError
  BY <1>1, FreeTextError, Zenon
<1> QED
  BY <1>4, <1>5, Zenon DEF f

LEMMA ChoiceField ==
  ASSUME NEW n, NEW q, NEW vals, NEW first
  PROVE  LET f == Field(n, "string", [enum |-> vals, default |-> <<first>>])
             text == IF TextOf(q, Lower(n)) = "" THEN first ELSE TextOf(q, Lower(n))
         IN /\ FieldValue(f, q) = text
            /\ FieldError(f, q) =
                 IF ~Among(vals, text) THEN <<Lower(n), "must be one of", vals>> ELSE NoError
<1> DEFINE f == Field(n, "string", [enum |-> vals, default |-> <<first>>])
           text == IF TextOf(q, Lower(n)) = "" THEN first ELSE TextOf(q, Lower(n))
<1>1. /\ f.name = n /\ f.type = "string" /\ f.tag # NoTag
      /\ ~Tagged(f, "required") /\ Tagged(f, "default") /\ Tagged(f, "enum")
      /\ ~Tagged(f, "min") /\ ~Tagged(f, "max") /\ ~Tagged(f, "paramname")
  <2> HIDE DEF text
  <2> QED
    BY FieldFacts, TagFacts, NoTagDiffers DEF Tagged
<1>2. f.tag.default[1] = first /\ f.tag.enum = vals
  <2> HIDE DEF text
  <2> QED
    BY FieldFacts
<1> HIDE DEF f
<1>3. Param(f) = Lower(n)
  BY <1>1, Zenon DEF Param
<1>4. FieldValue(f, q) = text
  BY <1>1, <1>2, <1>3, TextValue, Zenon
<1>5. FieldError(f, q) = IF ~Among(vals, text) THEN <<Lower(n), "must be one of", vals>> ELSE NoError
  <2> HIDE DEF text
  <2> QED
    BY <1>1, <1>2, <1>3, <1>4, ChoiceError, Zenon
<1> QED
  BY <1>4, <1>5, Zenon DEF f

LEMMA NumberField ==
  ASSUME NEW n, NEW q, NEW lo, NEW hi
  PROVE  LET f == Field(n, "int", [min |-> <<lo>>, max |-> <<hi>>])
             number == IntOf(q, Lower(n))
         IN /\ FieldValue(f, q) = number
            /\ FieldError(f, q) =
                 IF BadInt(q, Lower(n)) THEN <<Lower(n), "must be int">>
                 ELSE IF number < lo THEN <<Lower(n), "must be >=", lo>>
                 ELSE IF number > hi THEN <<Lower(n), "must be <=", hi>>
                 ELSE NoError
<1> DEFINE f == Field(n, "int", [min |-> <<lo>>, max |-> <<hi>>])
<1>1. /\ f.name = n /\ f.type = "int" /\ f.tag # NoTag
      /\ ~Tagged(f, "required") /\ ~Tagged(f, "default") /\ ~Tagged(f, "enum")
      /\ Tagged(f, "min") /\ Tagged(f, "max") /\ ~Tagged(f, "paramname")
  BY FieldFacts, TagFacts, NoTagDiffers DEF Tagged
<1>2. f.tag.min[1] = lo /\ f.tag.max[1] = hi
  BY FieldFacts
<1> HIDE DEF f
<1>3. Param(f) = Lower(n)
  BY <1>1, Zenon DEF Param
<1>4. FieldValue(f, q) = IntOf(q, Lower(n))
  BY <1>1, <1>3, NumberValue, Zenon
<1>5. FieldError(f, q) =
        IF BadInt(q, Lower(n)) THEN <<Lower(n), "must be int">>
        ELSE IF IntOf(q, Lower(n)) < lo THEN <<Lower(n), "must be >=", lo>>
        ELSE IF IntOf(q, Lower(n)) > hi THEN <<Lower(n), "must be <=", hi>>
        ELSE NoError
  BY <1>1, <1>2, <1>3, NumberError, Zenon
<1> QED
  BY <1>4, <1>5, Zenon DEF f

(* The validator of a type, whose fields have other names each.             *)

LEMMA NamedValue ==
  ASSUME NEW struct, NEW q, NEW k \in DOMAIN struct.fields,
         \A i \in DOMAIN struct.fields : struct.fields[i].name = struct.fields[k].name => i = k
  PROVE  /\ struct.fields[k].name \in DOMAIN Validate(struct, q).params
         /\ Validate(struct, q).params[struct.fields[k].name] = FieldValue(struct.fields[k], q)
<1> DEFINE n == struct.fields[k].name
           place == CHOOSE i \in DOMAIN struct.fields : struct.fields[i].name = n
<1>1. place = k
  OBVIOUS
<1>2. n \in {struct.fields[i].name : i \in DOMAIN struct.fields}
  OBVIOUS
<1> QED
  BY <1>1, <1>2 DEF Validate, Validated

LEMMA ParamNames ==
  ASSUME NEW struct, NEW q
  PROVE  LET p == Validate(struct, q).params
         IN /\ DOMAIN p = {struct.fields[i].name : i \in DOMAIN struct.fields}
            /\ p = [n \in DOMAIN p |-> p[n]]
BY DEF Validate, Validated

LEMMA ValidatedFacts ==
  ASSUME NEW struct, NEW q
  PROVE  Validate(struct, q) = Validated(Validate(struct, q).error, Validate(struct, q).params)
BY DEF Validate, Validated

(* Four fields with six checks, as both creations have them.                *)

LEMMA FourFields ==
  ASSUME NEW q, NEW struct, NEW f1, NEW f2, NEW f3, NEW f4, struct.fields = <<f1, f2, f3, f4>>,
         NEW checks, DOMAIN checks = 1 .. 6, \A k \in 1 .. 6 : checks[k][2] # NoError,
         FieldError(f1, q) = IF checks[1][1] THEN checks[1][2]
                             ELSE IF checks[2][1] THEN checks[2][2] ELSE NoError,
         FieldError(f2, q) = NoError,
         FieldError(f3, q) = IF checks[3][1] THEN checks[3][2] ELSE NoError,
         FieldError(f4, q) = IF checks[4][1] THEN checks[4][2]
                             ELSE IF checks[5][1] THEN checks[5][2]
                             ELSE IF checks[6][1] THEN checks[6][2] ELSE NoError
  PROVE  Validate(struct, q).error = FirstError(checks)
<1>1. /\ DOMAIN struct.fields = 1 .. 4
      /\ struct.fields[1] = f1 /\ struct.fields[2] = f2 /\ struct.fields[3] = f3 /\ struct.fields[4] = f4
  OBVIOUS
<1>2. \A i \in 1 .. 4 : i = 1 \/ i = 2 \/ i = 3 \/ i = 4
  OBVIOUS
<1>3. \A i \in 1 .. 6 : i = 1 \/ i = 2 \/ i = 3 \/ i = 4 \/ i = 5 \/ i = 6
  OBVIOUS
<1> DEFINE IsFirst(k) == k \in 1 .. 6 /\ checks[k][1] /\ \A i \in 1 .. 6 : i < k => ~checks[i][1]
<1>4. ASSUME NEW k \in 1 .. 6, IsFirst(k) PROVE FirstError(checks) = checks[k][2]
  <2>1. checks[k][1] /\ \A i \in DOMAIN checks : i < k => ~checks[i][1]
    BY <1>4
  <2>2. DOMAIN checks \subseteq Nat /\ k \in DOMAIN checks
    OBVIOUS
  <2> QED
    BY <2>1, <2>2, FirstErrorIs
<1>5. ASSUME NEW i \in 1 .. 4, FieldError(struct.fields[i], q) # NoError,
             \A j \in 1 .. 4 : j < i => FieldError(struct.fields[j], q) = NoError
      PROVE  Validate(struct, q).error = FieldError(struct.fields[i], q)
  <2>1. DOMAIN struct.fields \subseteq Nat /\ i \in DOMAIN struct.fields
    BY <1>1
  <2> QED
    BY <1>1, <1>5, <2>1, FirstWrong
<1>6. CASE checks[1][1] \/ checks[2][1]
  <2>1. FieldError(f1, q) # NoError
    BY <1>6
  <2>2. Validate(struct, q).error = FieldError(f1, q)
    BY <1>1, <1>5, <2>1
  <2>3. IsFirst(1) \/ (~checks[1][1] /\ IsFirst(2))
    BY <1>3, <1>6
  <2> HIDE DEF IsFirst
  <2> QED
    BY <1>4, <1>6, <2>2, <2>3 DEF IsFirst
<1>7. CASE ~checks[1][1] /\ ~checks[2][1] /\ checks[3][1]
  <2>1. FieldError(f1, q) = NoError /\ FieldError(f3, q) = checks[3][2]
    BY <1>7
  <2>2. Validate(struct, q).error = FieldError(f3, q)
    BY <1>1, <1>2, <1>5, <2>1
  <2>3. IsFirst(3)
    BY <1>3, <1>7
  <2> HIDE DEF IsFirst
  <2> QED
    BY <1>4, <2>1, <2>2, <2>3
<1>8. CASE /\ ~checks[1][1] /\ ~checks[2][1] /\ ~checks[3][1]
           /\ checks[4][1] \/ checks[5][1] \/ checks[6][1]
  <2>1. FieldError(f1, q) = NoError /\ FieldError(f3, q) = NoError /\ FieldError(f4, q) # NoError
    BY <1>8
  <2>2. Validate(struct, q).error = FieldError(f4, q)
    BY <1>1, <1>2, <1>5, <2>1
  <2>3. IsFirst(4) \/ (~checks[4][1] /\ IsFirst(5)) \/ (~checks[4][1] /\ ~checks[5][1] /\ IsFirst(6))
    BY <1>3, <1>8
  <2> HIDE DEF IsFirst
  <2> QED
    BY <1>4, <1>8, <2>2, <2>3 DEF IsFirst
<1>9. CASE \A k \in 1 .. 6 : ~checks[k][1]
  <2>1. FieldError(f1, q) = NoError /\ FieldError(f3, q) = NoError /\ FieldError(f4, q) = NoError
    BY <1>9
  <2>2. Validate(struct, q).error = NoError
    BY <1>1, <1>2, <2>1, NoneWrong
  <2>3. FirstError(checks) = NoError
    BY <1>9, NoFirstError
  <2> QED
    BY <2>2, <2>3
<1> QED
  BY <1>3, <1>6, <1>7, <1>8, <1>9

LEMMA ProfileValidated ==
  ASSUME NEW q
  PROVE  Validate(ProfileParamsDecl, q) = ValidateProfileParams(q)
<1> DEFINE f == Field("Login", "string", [required |-> NoValue])
           login == TextOf(q, "login")
           message == <<"login", "must me not empty">>
           checks == << <<login = "", message>> >>
           v == Validate(ProfileParamsDecl, q)
<1>1. ProfileParamsDecl.fields = <<f>>
  <2>1. ProfileParamsDecl = TypeDecl("ProfileParams", <<f>>)
    BY Zenon DEF ProfileParamsDecl
  <2> HIDE DEF f
  <2> QED
    BY <2>1, DeclFacts
<1>2. f.name = "Login"
  BY FieldFacts
<1>3. FieldValue(f, q) = login /\ FieldError(f, q) = IF login = "" THEN message ELSE NoError
  BY RequiredField, LowerAssumption, Zenon
<1>4. message # NoError
  BY DEF NoError
<1>5. v.error = FirstError(checks)
  <2>1. DOMAIN checks = {1} /\ 1 \in DOMAIN checks /\ \A i \in DOMAIN checks : i \in Nat /\ ~(i < 1)
    OBVIOUS
  <2>2. (checks[1][1] <=> login = "") /\ checks[1][2] = message
    <3> HIDE DEF message, login
    <3> QED
      OBVIOUS
  <2> HIDE DEF f, checks, message, v
  <2>3. CASE login = ""
    <3>1. FieldError(f, q) = message
      BY <1>3, <2>3, Zenon
    <3> HIDE DEF login
    <3>2. v.error = message
      BY <1>1, <1>4, <3>1, FirstWrong DEF v
    <3>3. checks[1][1]
      BY <2>2, <2>3, Zenon
    <3>4. FirstError(checks) = message
      BY <2>1, <2>2, <3>3, FirstErrorIs
    <3> QED
      BY <3>2, <3>4
  <2>4. CASE login # ""
    <3>1. FieldError(f, q) = NoError
      BY <1>3, <2>4, Zenon
    <3>2. ~checks[1][1]
      BY <2>2, <2>4, Zenon
    <3> HIDE DEF login
    <3>3. v.error = NoError
      BY <1>1, <3>1, NoneWrong DEF v
    <3>4. FirstError(checks) = NoError
      BY <2>1, <3>2, NoFirstError
    <3> QED
      BY <3>3, <3>4
  <2> QED
    BY <2>3, <2>4, Zenon
<1>6. v.params = [Login |-> login]
  <2> HIDE DEF f, login, message, checks, v
  <2>0. FieldValue(f, q) = login
    BY <1>3, Zenon
  <2>1. v.params.Login = login
    <3>1. /\ 1 \in DOMAIN ProfileParamsDecl.fields
          /\ ProfileParamsDecl.fields[1].name = "Login"
          /\ FieldValue(ProfileParamsDecl.fields[1], q) = login
          /\ \A i \in DOMAIN ProfileParamsDecl.fields : i = 1
      BY <1>1, <1>2, <2>0
    <3> QED
      BY <3>1, NamedValue DEF v
  <2>2. DOMAIN v.params = {"Login"} /\ v.params = [n \in DOMAIN v.params |-> v.params[n]]
    BY <1>1, <1>2, ParamNames DEF v
  <2> QED
    BY <2>1, <2>2
<1>7. ValidateProfileParams(q) = Validated(FirstError(checks), [Login |-> login])
  BY Zenon DEF ValidateProfileParams
<1>8. v = Validated(v.error, v.params)
  BY ValidatedFacts, Zenon
<1> HIDE DEF v, checks, login
<1> QED
  BY <1>5, <1>6, <1>7, <1>8, Zenon DEF v
(* The two creations have fields of the same four kinds.                    *)
CreationFields(n1, least, n2, key, n3, vals, first, n4, lo, hi) ==
  <<Field(n1, "string", [required |-> NoValue, min |-> <<least>>]),
    Field(n2, "string", [paramname |-> <<key>>]),
    Field(n3, "string", [enum |-> vals, default |-> <<first>>]),
    Field(n4, "int", [min |-> <<lo>>, max |-> <<hi>>])>>

Chosen(q, k, first) == IF TextOf(q, k) = "" THEN first ELSE TextOf(q, k)

CreationChecks(q, k1, least, k3, vals, first, k4, lo, hi) ==
  << <<TextOf(q, k1) = "", <<k1, "must me not empty">>>>,
     <<Length(TextOf(q, k1)) < least, <<k1, "len must be >=", least>>>>,
     <<~Among(vals, Chosen(q, k3, first)), <<k3, "must be one of", vals>>>>,
     <<BadInt(q, k4), <<k4, "must be int">>>>,
     <<IntOf(q, k4) < lo, <<k4, "must be >=", lo>>>>,
     <<IntOf(q, k4) > hi, <<k4, "must be <=", hi>>>> >>

CreationComesTo(v, q, n1, k1, least, n2, key, n3, k3, vals, first, n4, k4, lo, hi) ==
  /\ v.error = FirstError(CreationChecks(q, k1, least, k3, vals, first, k4, lo, hi))
  /\ v.params = [n \in {n1, n2, n3, n4} |-> v.params[n]]
  /\ v.params[n1] = TextOf(q, k1) /\ v.params[n2] = TextOf(q, key)
  /\ v.params[n3] = Chosen(q, k3, first) /\ v.params[n4] = IntOf(q, k4)

LEMMA CreationChecked ==
  ASSUME NEW q, NEW struct, NEW n1, NEW least, NEW n2, NEW key, NEW n3, NEW vals, NEW first,
         NEW n4, NEW lo, NEW hi,
         struct.fields = CreationFields(n1, least, n2, key, n3, vals, first, n4, lo, hi),
         n1 # n2, n1 # n3, n1 # n4, n2 # n3, n2 # n4, n3 # n4
  PROVE  CreationComesTo(Validate(struct, q), q, n1, Lower(n1), least, n2, key,
                         n3, Lower(n3), vals, first, n4, Lower(n4), lo, hi)
<1> DEFINE f1 == Field(n1, "string", [required |-> NoValue, min |-> <<least>>])
           f2 == Field(n2, "string", [paramname |-> <<key>>])
           f3 == Field(n3, "string", [enum |-> vals, default |-> <<first>>])
           f4 == Field(n4, "int", [min |-> <<lo>>, max |-> <<hi>>])
           text == TextOf(q, Lower(n1))
           free == TextOf(q, key)
           choice == Chosen(q, Lower(n3), first)
           number == IntOf(q, Lower(n4))
           m1 == <<Lower(n1), "must me not empty">>
           m2 == <<Lower(n1), "len must be >=", least>>
           m3 == <<Lower(n3), "must be one of", vals>>
           m4 == <<Lower(n4), "must be int">>
           m5 == <<Lower(n4), "must be >=", lo>>
           m6 == <<Lower(n4), "must be <=", hi>>
           bad == BadInt(q, Lower(n4))
           checks == << <<text = "", m1>>, <<Length(text) < least, m2>>,
                        <<~Among(vals, choice), m3>>, <<bad, m4>>,
                        <<number < lo, m5>>, <<number > hi, m6>> >>
           v == Validate(struct, q)
<1>1. struct.fields = <<f1, f2, f3, f4>>
  BY Zenon DEF CreationFields
<1>2. f1.name = n1 /\ f2.name = n2 /\ f3.name = n3 /\ f4.name = n4
  <2>1. f1.name = n1
    BY FieldFacts
  <2>2. f2.name = n2
    BY FieldFacts
  <2>3. f3.name = n3
    BY FieldFacts
  <2>4. f4.name = n4
    BY FieldFacts
  <2> QED
    BY <2>1, <2>2, <2>3, <2>4, Zenon
<1>3. /\ FieldValue(f1, q) = text
      /\ FieldError(f1, q) =
           IF text = "" THEN m1 ELSE IF Length(text) < least THEN m2 ELSE NoError
  BY LengthField, Zenon
<1>4. FieldValue(f2, q) = free /\ FieldError(f2, q) = NoError
  BY FreeField, Zenon
<1>5. /\ FieldValue(f3, q) = choice
      /\ FieldError(f3, q) = IF ~Among(vals, choice) THEN m3 ELSE NoError
  BY ChoiceField, Zenon DEF Chosen
<1>6. /\ FieldValue(f4, q) = number
      /\ FieldError(f4, q) = IF bad THEN m4 ELSE IF number < lo THEN m5
                             ELSE IF number > hi THEN m6 ELSE NoError
  BY NumberField, Zenon
<1>7. /\ m1 # NoError /\ m2 # NoError /\ m3 # NoError
      /\ m4 # NoError /\ m5 # NoError /\ m6 # NoError
  BY DEF NoError
<1>8. v.error = FirstError(checks)
  <2> HIDE DEF m1, m2, m3, m4, m5, m6, text, choice, number, bad
  <2>1. /\ checks[1][1] <=> text = ""
        /\ checks[2][1] <=> Length(text) < least
        /\ checks[3][1] <=> ~Among(vals, choice)
        /\ checks[4][1] <=> bad
        /\ checks[5][1] <=> number < lo
        /\ checks[6][1] <=> number > hi
    OBVIOUS
  <2>2. /\ checks[1][2] = m1 /\ checks[2][2] = m2 /\ checks[3][2] = m3
        /\ checks[4][2] = m4 /\ checks[5][2] = m5 /\ checks[6][2] = m6
    OBVIOUS
  <2>3. DOMAIN checks = 1 .. 6
    OBVIOUS
  <2> HIDE DEF checks, f1, f2, f3, f4, v
  <2>4. \A k \in 1 .. 6 : checks[k][2] # NoError
    BY <1>7, <2>2
  <2>5. FieldError(f1, q) = IF checks[1][1] THEN checks[1][2]
                            ELSE IF checks[2][1] THEN checks[2][2] ELSE NoError
    BY <1>3, <2>1, <2>2, Zenon
  <2>6. FieldError(f3, q) = IF checks[3][1] THEN checks[3][2] ELSE NoError
    BY <1>5, <2>1, <2>2, Zenon
  <2>7. FieldError(f4, q) = IF checks[4][1] THEN checks[4][2]
                            ELSE IF checks[5][1] THEN checks[5][2]
                            ELSE IF checks[6][1] THEN checks[6][2] ELSE NoError
    BY <1>6, <2>1, <2>2, Zenon
  <2>8. FieldError(f2, q) = NoError
    BY <1>4, Zenon
  <2> QED
    BY <1>1, <2>3, <2>4, <2>5, <2>6, <2>7, <2>8, FourFields DEF v
<1>9. /\ v.params = [n \in {n1, n2, n3, n4} |-> v.params[n]]
      /\ v.params[n1] = text /\ v.params[n2] = free
      /\ v.params[n3] = choice /\ v.params[n4] = number
  <2> HIDE DEF f1, f2, f3, f4, m1, m2, m3, m4, m5, m6, text, free, choice, number, bad, checks, v
  <2> DEFINE fields == struct.fields
  <2>1. /\ FieldValue(f1, q) = text /\ FieldValue(f2, q) = free
        /\ FieldValue(f3, q) = choice /\ FieldValue(f4, q) = number
    BY <1>3, <1>4, <1>5, <1>6, Zenon
  <2>2. /\ DOMAIN fields = {1, 2, 3, 4}
        /\ fields[1] = f1 /\ fields[2] = f2 /\ fields[3] = f3 /\ fields[4] = f4
    BY <1>1
  <2>3. \A i, k \in DOMAIN fields : fields[i].name = fields[k].name => i = k
    BY <1>2, <2>2
  <2>4. \A k \in DOMAIN fields : v.params[fields[k].name] = FieldValue(fields[k], q)
    BY <2>3, NamedValue DEF v
  <2>5. /\ v.params[n1] = text /\ v.params[n2] = free
        /\ v.params[n3] = choice /\ v.params[n4] = number
    BY <1>2, <2>1, <2>2, <2>4
  <2>6. {fields[i].name : i \in DOMAIN fields} = {n1, n2, n3, n4}
    BY <1>2, <2>2
  <2>7. /\ DOMAIN v.params = {fields[i].name : i \in DOMAIN fields}
        /\ v.params = [n \in DOMAIN v.params |-> v.params[n]]
    BY ParamNames DEF v
  <2> HIDE DEF fields
  <2> QED
    BY <2>5, <2>6, <2>7
<1>10. CreationChecks(q, Lower(n1), least, Lower(n3), vals, first, Lower(n4), lo, hi) = checks
  BY Zenon DEF CreationChecks
<1> HIDE DEF v, checks
<1> QED
  BY <1>8, <1>9, <1>10, Zenon DEF v, CreationComesTo

LEMMA CreateValidated ==
  ASSUME NEW q
  PROVE  Validate(CreateParamsDecl, q) = ValidateCreateParams(q)
<1> DEFINE highest == 128
           checks == CreationChecks(q, "login", 10, "status", Roles, "user", "age", 0, highest)
           v == Validate(CreateParamsDecl, q)
<1>1. CreateParamsDecl.fields =
        CreationFields("Login", 10, "Name", "full_name", "Status", Roles, "user", "Age", 0, highest)
  <2> DEFINE fields == CreationFields("Login", 10, "Name", "full_name", "Status", Roles, "user",
                                      "Age", 0, highest)
  <2>1. \E n : CreateParamsDecl = TypeDecl(n, fields)
    BY Zenon DEF CreateParamsDecl, CreationFields, Roles
  <2> HIDE DEF fields
  <2>2. CreateParamsDecl.fields = fields
    BY <2>1, DeclFacts
  <2> QED
    BY <2>2, Zenon DEF fields
<1>2. /\ "Login" # "Name" /\ "Login" # "Status" /\ "Login" # "Age"
      /\ "Name" # "Status" /\ "Name" # "Age" /\ "Status" # "Age"
  BY Zenon
<1>3. ValidateCreateParams(q) =
        Validated(FirstError(checks),
                  [Login |-> TextOf(q, "login"), Name |-> TextOf(q, "full_name"),
                   Status |-> Chosen(q, "status", "user"), Age |-> IntOf(q, "age")])
  BY Zenon DEF ValidateCreateParams, CreationChecks, Chosen
<1> HIDE DEF highest
<1>4. /\ v.error = FirstError(checks)
      /\ v.params = [n \in {"Login", "Name", "Status", "Age"} |-> v.params[n]]
      /\ v.params["Login"] = TextOf(q, "login") /\ v.params["Name"] = TextOf(q, "full_name")
      /\ v.params["Status"] = Chosen(q, "status", "user") /\ v.params["Age"] = IntOf(q, "age")
  <2>1. CreationComesTo(v, q, "Login", "login", 10, "Name", "full_name",
          "Status", "status", Roles, "user", "Age", "age", 0, highest)
    BY <1>1, <1>2, CreationChecked, LowerAssumption
  <2> QED
    BY <2>1, Zenon DEF CreationComesTo
<1> HIDE DEF checks, v
<1>5. v.params = [Login |-> TextOf(q, "login"), Name |-> TextOf(q, "full_name"),
                  Status |-> Chosen(q, "status", "user"), Age |-> IntOf(q, "age")]
  BY <1>4
<1>6. v = Validated(v.error, v.params)
  BY ValidatedFacts, Zenon DEF v
<1> QED
  BY <1>3, <1>4, <1>5, <1>6, Zenon DEF v

LEMMA OtherCreateValidated ==
  ASSUME NEW q
  PROVE  Validate(OtherCreateParamsDecl, q) = ValidateOtherCreateParams(q)
<1> DEFINE highest == 50
           checks == CreationChecks(q, "username", 3, "class", Classes, "warrior", "level", 1, highest)
           v == Validate(OtherCreateParamsDecl, q)
<1>1. OtherCreateParamsDecl.fields =
        CreationFields("Username", 3, "Name", "account_name", "Class", Classes, "warrior",
                       "Level", 1, highest)
  <2> DEFINE fields == CreationFields("Username", 3, "Name", "account_name", "Class", Classes,
                                      "warrior", "Level", 1, highest)
  <2>1. \E n : OtherCreateParamsDecl = TypeDecl(n, fields)
    BY Zenon DEF OtherCreateParamsDecl, CreationFields, Classes
  <2> HIDE DEF fields
  <2>2. OtherCreateParamsDecl.fields = fields
    BY <2>1, DeclFacts
  <2> QED
    BY <2>2, Zenon DEF fields
<1>2. /\ "Username" # "Name" /\ "Username" # "Class" /\ "Username" # "Level"
      /\ "Name" # "Class" /\ "Name" # "Level" /\ "Class" # "Level"
  BY Zenon
<1>3. ValidateOtherCreateParams(q) =
        Validated(FirstError(checks),
                  [Username |-> TextOf(q, "username"), Name |-> TextOf(q, "account_name"),
                   Class |-> Chosen(q, "class", "warrior"), Level |-> IntOf(q, "level")])
  BY Zenon DEF ValidateOtherCreateParams, CreationChecks, Chosen
<1> HIDE DEF highest
<1>4. /\ v.error = FirstError(checks)
      /\ v.params = [n \in {"Username", "Name", "Class", "Level"} |-> v.params[n]]
      /\ v.params["Username"] = TextOf(q, "username") /\ v.params["Name"] = TextOf(q, "account_name")
      /\ v.params["Class"] = Chosen(q, "class", "warrior") /\ v.params["Level"] = IntOf(q, "level")
  <2>1. CreationComesTo(v, q, "Username", "username", 3, "Name", "account_name",
          "Class", "class", Classes, "warrior", "Level", "level", 1, highest)
    BY <1>1, <1>2, CreationChecked, LowerAssumption
  <2> QED
    BY <2>1, Zenon DEF CreationComesTo
<1> HIDE DEF checks, v
<1>5. v.params = [Username |-> TextOf(q, "username"), Name |-> TextOf(q, "account_name"),
                  Class |-> Chosen(q, "class", "warrior"), Level |-> IntOf(q, "level")]
  BY <1>4
<1>6. v = Validated(v.error, v.params)
  BY ValidatedFacts, Zenon DEF v
<1> QED
  BY <1>3, <1>4, <1>5, <1>6, Zenon DEF v

(* A method's handler: one that must be a POST of somebody, or any request. *)
LEMMA PostHandled ==
  ASSUME NEW decls, NEW f, NEW r, f.doc.method = "POST", f.doc.auth
  PROVE  Handle(decls, f, r) =
           GuardedPost(r, CallIfValid(f.name, Validate(Struct(decls, f.params[1]), BodyQuery(r))))
<1>1. f.doc.method # ""
  BY Zenon
<1> DEFINE query == CASE f.doc.method = "POST" -> BodyQuery(r)
                      [] f.doc.method = "GET" -> URLQuery(r) [] OTHER -> <<>>
<1>2. f.doc.method # "GET"
  BY Zenon
<1>3. query = BodyQuery(r)
  BY <1>2, Zenon
<1> QED
  BY <1>1, <1>3, Zenon DEF Handle, GuardedPost, CallIfValid

LEMMA AnyHandled ==
  ASSUME NEW decls, NEW f, NEW r, f.doc.method = "", ~f.doc.auth
  PROVE  Handle(decls, f, r) =
           CallIfValid(f.name,
             Validate(Struct(decls, f.params[1]),
                      CASE r.method = "POST" -> BodyQuery(r)
                        [] r.method = "GET" -> URLQuery(r) [] OTHER -> <<>>))
BY Zenon DEF Handle, CallIfValid

LEMMA NamesAndParams ==
  /\ ProfileDecl.name = "Profile" /\ ProfileDecl.params[1] = "ProfileParams"
  /\ CreateDecl.name = "Create" /\ CreateDecl.params[1] = "CreateParams"
  /\ OtherCreateDecl.name = "Create" /\ OtherCreateDecl.params[1] = "OtherCreateParams"
<1>1. \E recv, doc : ProfileDecl = Func("Profile", recv, <<"ProfileParams">>, doc)
  BY Zenon DEF ProfileDecl
<1>2. \E recv, doc : CreateDecl = Func("Create", recv, <<"CreateParams">>, doc)
  BY Zenon DEF CreateDecl
<1>3. \E recv, doc : OtherCreateDecl = Func("Create", recv, <<"OtherCreateParams">>, doc)
  BY Zenon DEF OtherCreateDecl
<1> QED
  BY <1>1, <1>2, <1>3, DeclFacts

LEMMA DocFields ==
  /\ ProfileDecl.doc.url = "/user/profile"
  /\ ProfileDecl.doc.method = "" /\ ProfileDecl.doc.auth = FALSE
  /\ CreateDecl.doc.url = "/user/create"
  /\ CreateDecl.doc.method = "POST" /\ CreateDecl.doc.auth = TRUE
  /\ OtherCreateDecl.doc.url = "/user/create"
  /\ OtherCreateDecl.doc.method = "POST" /\ OtherCreateDecl.doc.auth = TRUE
<1> DEFINE profile == "/user/profile"
           create == "/user/create"
           none == ""
           post == "POST"
           yes == TRUE
           no == FALSE
<1>1. /\ ProfileDecl.doc = Api(profile, no, none)
      /\ CreateDecl.doc = Api(create, yes, post)
      /\ OtherCreateDecl.doc = Api(create, yes, post)
  BY Docs, Zenon
<1> HIDE DEF profile, create, none, post, yes, no
<1>2. /\ ProfileDecl.doc.url = profile
      /\ ProfileDecl.doc.method = none /\ ProfileDecl.doc.auth = no
      /\ CreateDecl.doc.url = create
      /\ CreateDecl.doc.method = post /\ CreateDecl.doc.auth = yes
      /\ OtherCreateDecl.doc.url = create
      /\ OtherCreateDecl.doc.method = post /\ OtherCreateDecl.doc.auth = yes
  BY <1>1, DeclFacts
<1> QED
  BY <1>2, Zenon DEF profile, create, none, post, yes, no

LEMMA MethodsHandled ==
  ASSUME NEW r
  PROVE  /\ Handle(ApiGo, ProfileDecl, r) = HandleProfile(r)
         /\ Handle(ApiGo, CreateDecl, r) = HandleCreate(r)
         /\ Handle(ApiGo, OtherCreateDecl, r) = HandleOtherCreate(r)
<1>1. Handle(ApiGo, ProfileDecl, r) = HandleProfile(r)
  <2> DEFINE query == CASE r.method = "POST" -> BodyQuery(r)
                        [] r.method = "GET" -> URLQuery(r) [] OTHER -> <<>>
  <2>1. Handle(ApiGo, ProfileDecl, r) =
          CallIfValid(ProfileDecl.name, Validate(Struct(ApiGo, ProfileDecl.params[1]), query))
    BY DocFields, AnyHandled, Zenon
  <2>2. HandleProfile(r) = CallIfValid("Profile", ValidateProfileParams(query))
    BY Zenon DEF HandleProfile
  <2> HIDE DEF query
  <2> QED
    BY <2>1, <2>2, NamesAndParams, Structs, ProfileValidated, Zenon
<1>2. Handle(ApiGo, CreateDecl, r) = HandleCreate(r)
  BY DocFields, PostHandled, NamesAndParams, Structs, CreateValidated, Zenon DEF HandleCreate
<1>3. Handle(ApiGo, OtherCreateDecl, r) = HandleOtherCreate(r)
  BY DocFields, PostHandled, NamesAndParams, Structs, OtherCreateValidated, Zenon DEF HandleOtherCreate
<1> QED
  BY <1>1, <1>2, <1>3, Zenon

(* The switch of a server.                                                  *)
LEMMA ServedOne ==
  ASSUME NEW decls, NEW recv, NEW r, NEW k \in Methods(decls, recv), decls[k].doc.url = r.path,
         \A i \in Methods(decls, recv) : decls[i].doc.url = r.path => i = k
  PROVE  Served(decls, recv, r) = Handle(decls, decls[k], r)
<1> DEFINE hit == {i \in Methods(decls, recv) : decls[i].doc.url = r.path}
<1>1. hit = {k}
  OBVIOUS
<1>2. (CHOOSE i \in hit : TRUE) = k
  BY <1>1
<1> QED
  BY <1>1, <1>2 DEF Served

LEMMA ServedNone ==
  ASSUME NEW decls, NEW recv, NEW r, \A i \in Methods(decls, recv) : decls[i].doc.url # r.path
  PROVE  Served(decls, recv, r) = Fail(404, <<"unknown method">>)
<1>1. {i \in Methods(decls, recv) : decls[i].doc.url = r.path} = {}
  OBVIOUS
<1> QED
  BY <1>1, Zenon DEF Served

(* For any request and any texts, the handlers that api_handlers.go keeps   *)
(* answer as those that the generator writes for api.go: the same order of  *)
(* checks, the same error, the same call.                                   *)
THEOREM HandlersGenerated == HandlersAsGenerated
<1> DEFINE profile == "/user/profile"
           create == "/user/create"
           r == request
<1>1. ServeMyApi(r) = Served(ApiGo, "MyApi", r)
  <2>0. ApiGo[6].doc.url = profile /\ ApiGo[7].doc.url = create /\ profile # create
    BY ApiGoPlaces, DocFields, Zenon
  <2>1. CASE r.path = profile
    <3>1. ServeMyApi(r) = HandleProfile(r)
      BY <2>0, <2>1, Zenon DEF ServeMyApi
    <3> HIDE DEF profile, create, r
    <3>2. Served(ApiGo, "MyApi", r) = Handle(ApiGo, ApiGo[6], r)
      BY <2>0, <2>1, MethodsOf, ServedOne
    <3> QED
      BY <3>1, <3>2, ApiGoPlaces, MethodsHandled, Zenon
  <2>2. CASE r.path = create
    <3>1. ServeMyApi(r) = HandleCreate(r)
      BY <2>0, <2>2, Zenon DEF ServeMyApi
    <3> HIDE DEF profile, create, r
    <3>2. Served(ApiGo, "MyApi", r) = Handle(ApiGo, ApiGo[7], r)
      BY <2>0, <2>2, MethodsOf, ServedOne
    <3> QED
      BY <3>1, <3>2, ApiGoPlaces, MethodsHandled, Zenon
  <2>3. CASE r.path # profile /\ r.path # create
    <3>1. ServeMyApi(r) = Fail(404, <<"unknown method">>)
      BY <2>3, Zenon DEF ServeMyApi
    <3> HIDE DEF profile, create, r
    <3>2. \A i \in Methods(ApiGo, "MyApi") : ApiGo[i].doc.url # r.path
      BY <2>0, <2>3, MethodsOf
    <3> QED
      BY <3>1, <3>2, ServedNone, Zenon
  <2> QED
    BY <2>1, <2>2, <2>3, Zenon
<1>2. ServeOtherApi(r) = Served(ApiGo, "OtherApi", r)
  <2>0. ApiGo[10].doc.url = create
    BY ApiGoPlaces, DocFields, Zenon
  <2>1. CASE r.path = create
    <3>1. ServeOtherApi(r) = HandleOtherCreate(r)
      BY <2>1, Zenon DEF ServeOtherApi
    <3> HIDE DEF create, r
    <3>2. Served(ApiGo, "OtherApi", r) = Handle(ApiGo, ApiGo[10], r)
      BY <2>0, <2>1, MethodsOf, ServedOne
    <3> QED
      BY <3>1, <3>2, ApiGoPlaces, MethodsHandled, Zenon
  <2>2. CASE r.path # create
    <3>1. ServeOtherApi(r) = Fail(404, <<"unknown method">>)
      BY <2>2, Zenon DEF ServeOtherApi
    <3> HIDE DEF create, r
    <3>2. \A i \in Methods(ApiGo, "OtherApi") : ApiGo[i].doc.url # r.path
      BY <2>0, <2>2, MethodsOf
    <3> QED
      BY <3>1, <3>2, ServedNone, Zenon
  <2> QED
    BY <2>1, <2>2, Zenon
<1> QED
  BY <1>1, <1>2, Zenon DEF HandlersAsGenerated
=============================================================================
