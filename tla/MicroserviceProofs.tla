-------------------------- MODULE MicroserviceProofs --------------------------
(***************************************************************************)
(* Proofs about Microservice, for any calls, consumers and rules: it       *)
(* implements EventLog and StatBoard, so that the theorems about these     *)
(* hold in the whole service, and with their help what the interceptors    *)
(* promise.                                                                *)
(***************************************************************************)
EXTENDS Microservice, FiniteSetTheorems, SequenceTheorems, TLAPS

EP == INSTANCE EventLogProofs WITH open <- [s \in Loggers |-> open[s]]
SP == INSTANCE StatBoardProofs WITH open <- [s \in StatCalls |-> open[s]]

OpenInv == open \in [Streams -> BOOLEAN]

(* The parts of the two components that an action leaves alone.             *)
LEMMA LogStutters ==
  ASSUME UNCHANGED evVars, UNCHANGED open
  PROVE  UNCHANGED E!vars
BY DEF evVars, E!vars, E!evVars

(* A step that leaves the board alone is a stutter of it.                   *)
LEMMA BoardStutters ==
  ASSUME UNCHANGED stVars, UNCHANGED open
  PROVE  UNCHANGED S!vars
BY DEF stVars, S!vars, S!stVars

(* The end of a stream's transport is a step of the component it belongs to. *)
LEMMA CloseStep ==
  ASSUME OpenInv, NEW s \in Streams, StreamClose(s)
  PROVE  [E!Next]_E!vars /\ [S!Next]_S!vars /\ OpenInv'
<1>1. /\ open[s]
      /\ open' = [open EXCEPT ![s] = FALSE]
      /\ UNCHANGED evVars
      /\ UNCHANGED stVars
  BY DEF StreamClose
<1>2. CASE s \in Loggers
  <2>1. [t \in Loggers |-> open[t]]' = [[t \in Loggers |-> open[t]] EXCEPT ![s] = FALSE]
    BY <1>1, <1>2 DEF OpenInv, Streams
  <2>2. E!StreamClose(s)
    BY <1>1, <1>2, <2>1 DEF E!StreamClose, evVars, E!evVars
  <2>3. s \notin StatCalls
    BY <1>2, MicroserviceAssumption DEF Loggers, StatCalls
  <2>4. [t \in StatCalls |-> open[t]]' = [t \in StatCalls |-> open[t]]
    BY <1>1, <2>3 DEF OpenInv, Streams
  <2>5. UNCHANGED S!vars
    BY <1>1, <2>4 DEF S!vars, S!stVars, stVars
  <2> QED
    BY <1>1, <1>2, <2>2, <2>5 DEF E!Next, OpenInv
<1>3. CASE s \in StatCalls
  <2>1. [t \in StatCalls |-> open[t]]' = [[t \in StatCalls |-> open[t]] EXCEPT ![s] = FALSE]
    BY <1>1, <1>3 DEF OpenInv, Streams
  <2>2. S!StreamClose(s)
    BY <1>1, <1>3, <2>1 DEF S!StreamClose, stVars, S!stVars
  <2>3. s \notin Loggers
    BY <1>3, MicroserviceAssumption DEF Loggers, StatCalls
  <2>4. [t \in Loggers |-> open[t]]' = [t \in Loggers |-> open[t]]
    BY <1>1, <2>3 DEF OpenInv, Streams
  <2>5. UNCHANGED E!vars
    BY <1>1, <2>4 DEF E!vars, E!evVars, evVars
  <2> QED
    BY <1>1, <1>3, <2>2, <2>5 DEF S!Next, OpenInv
<1> QED
  BY <1>2, <1>3 DEF Streams

(* Every other step of an RPC belongs to one component and leaves the other *)
(* alone.                                                                   *)
LEMMA RpcStep ==
  ASSUME NEW c \in Calls, Rpc(c)
  PROVE  [E!Next]_E!vars /\ [S!Next]_S!vars /\ UNCHANGED open
<1>1. CASE AddEvent(c)
  <2>1. UNCHANGED stVars /\ UNCHANGED open /\ E!AddEvent(c)
    BY <1>1 DEF AddEvent, rpcVars
  <2> QED
    BY <2>1, BoardStutters DEF E!Next
<1>2. CASE AddStat(c)
  <2>1. /\ UNCHANGED evVars /\ UNCHANGED open
        /\ S!AddByConsumer(c) \/ S!AddByMethod(c) \/ S!Counting(c)
    BY <1>2 DEF AddStat, rpcVars
  <2> QED
    BY <2>1, LogStutters DEF S!Next
<1>3. CASE CheckACL(c) \/ BizReturn(c)
  <2>1. UNCHANGED evVars /\ UNCHANGED stVars /\ UNCHANGED open
    BY <1>3 DEF CheckACL, BizReturn
  <2> QED
    BY <2>1, LogStutters, BoardStutters
<1>4. CASE c \in Loggers /\ (Logging(c) \/ LoggingReturn(c))
  <2>1. UNCHANGED stVars /\ UNCHANGED open /\ E!Logging(c)
    BY <1>4 DEF Logging, LoggingReturn, rpcVars, E!Logging
  <2> QED
    BY <1>4, <2>1, BoardStutters DEF E!Next
<1>5. CASE c \in StatCalls /\ (StatisticsRegister(c) \/ Statistics(c) \/ StatisticsReturn(c))
  <2>1. UNCHANGED evVars /\ UNCHANGED open /\ S!Statistics(c)
    BY <1>5 DEF StatisticsRegister, Statistics, StatisticsReturn, rpcVars, S!Statistics
  <2> QED
    BY <1>5, <2>1, LogStutters DEF S!Next
<1> QED
  BY <1>1, <1>2, <1>3, <1>4, <1>5 DEF Rpc

(* Every step of the service is a step or a stutter of both components.     *)
LEMMA ComponentStep ==
  ASSUME OpenInv, [Next]_vars
  PROVE  [E!Next]_E!vars /\ [S!Next]_S!vars /\ OpenInv'
<1>1. CASE StartFails \/ Start \/ Cancel \/ Stopped \/ (\E c \in Calls : Arrive(c))
  <2>1. UNCHANGED evVars /\ UNCHANGED stVars /\ UNCHANGED open
    BY <1>1 DEF StartFails, Start, Cancel, Stopped, Arrive
  <2> QED
    BY <2>1, LogStutters, BoardStutters DEF OpenInv
<1>2. ASSUME NEW c \in Calls, Rpc(c)
      PROVE  [E!Next]_E!vars /\ [S!Next]_S!vars /\ OpenInv'
  BY <1>2, RpcStep DEF OpenInv
<1>3. ASSUME NEW s \in Streams, StreamClose(s)
      PROVE  [E!Next]_E!vars /\ [S!Next]_S!vars /\ OpenInv'
  BY <1>3, CloseStep
<1>4. CASE UNCHANGED vars
  <2>1. UNCHANGED evVars /\ UNCHANGED stVars /\ UNCHANGED open
    BY <1>4 DEF vars, rpcVars
  <2> QED
    BY <2>1, LogStutters, BoardStutters DEF OpenInv
<1> QED
  BY <1>1, <1>2, <1>3, <1>4 DEF Next

(* The service starts where both components start.                          *)
LEMMA ComponentInit == Init => E!Init /\ S!Init /\ OpenInv
BY DEF Init, OpenInv

(* Whatever interceptors, handlers, server and transports do, for any calls *)
(* and rules: the call log behaves as EventLog.                             *)
THEOREM EventLogKept == Spec => KeepsEventLog
BY ComponentInit, ComponentStep, PTL DEF Spec, KeepsEventLog, E!Spec

(* And the statistics behave as StatBoard.                                  *)
THEOREM StatBoardKept == Spec => KeepsStatBoard
BY ComponentInit, ComponentStep, PTL DEF Spec, KeepsStatBoard, S!Spec

-----------------------------------------------------------------------------
(* What the theorems about the two components say in the whole service.     *)

LogFacts ==
  /\ evPc \in [Calls -> E!EvPc]
  /\ events \in Seq(Loggers)
  /\ eventsMutex \in Calls \cup {NoCall}
  /\ \A c \in Calls : evPc[c] = "adding" <=> eventsMutex = c
  /\ \A c \in Calls : evPc[c] = "new" <=> \A n \in DOMAIN log : log[n] # c
  /\ \A s \in Loggers : (\E i \in DOMAIN events : events[i] = s)
                         <=> evPc[s] \in {"receiving", "sending", "returned"}

BoardFacts ==
  /\ stPc \in [Calls -> S!StPc]
  /\ stats \in Seq(StatCalls)
  /\ \A c \in Calls : stPc[c] \in {"byConsumer", "byMethod"} <=> statsMutex = c
  /\ \A s \in StatCalls : (\E i \in DOMAIN stats : stats[i] = s)
                           <=> stPc[s] \in {"waiting", "collecting", "sending", "returned"}

(* The two instances of EventLog have the same behaviours.                  *)
LEMMA SameLog == E!Spec => EP!Spec
<1>1. E!Init => EP!Init
  BY DEF EP!Init, E!Init
<1>2. [E!Next]_E!vars => [EP!Next]_EP!vars
  BY DEF EP!Next, E!Next, EP!vars, E!vars, EP!evVars, E!evVars,
    EP!AddEvent, E!AddEvent, EP!Logging, E!Logging, EP!AddEventLock, E!AddEventLock,
    EP!AddEventSend, E!AddEventSend, EP!AddEventUnlock, E!AddEventUnlock,
    EP!LoggingRegister, E!LoggingRegister, EP!LoggingRecv, E!LoggingRecv,
    EP!LoggingSend, E!LoggingSend, EP!LoggingReturn, E!LoggingReturn,
    EP!StreamClose, E!StreamClose
<1> QED
  BY <1>1, <1>2, PTL DEF E!Spec, EP!Spec

(* The two instances of StatBoard have the same behaviours.                 *)
LEMMA SameBoard == S!Spec => SP!Spec
<1>1. S!Init => SP!Init
  BY DEF SP!Init, S!Init, SP!Zero, S!Zero, SP!Keys, S!Keys
<1>2. [S!Next]_S!vars => [SP!Next]_SP!vars
  BY DEF SP!Next, S!Next, SP!vars, S!vars, SP!stVars, S!stVars,
    SP!AddByConsumer, S!AddByConsumer, SP!AddByMethod, S!AddByMethod, SP!Lock, S!Lock,
    SP!Counting, S!Counting, SP!AtSlot, S!AtSlot, SP!PeekEmpty, S!PeekEmpty,
    SP!PeekFull, S!PeekFull, SP!Take, S!Take, SP!Put, S!Put, SP!Unlock, S!Unlock,
    SP!Statistics, S!Statistics, SP!Register, S!Register, SP!Tick, S!Tick,
    SP!Collect, S!Collect, SP!Send, S!Send, SP!Return, S!Return,
    SP!StreamClose, S!StreamClose, SP!Registered, S!Registered,
    SP!Zero, S!Zero, SP!Inc, S!Inc, SP!Plus, S!Plus, SP!Keys, S!Keys, SP!Key, S!Key
<1> QED
  BY <1>1, <1>2, PTL DEF S!Spec, SP!Spec

(* What is proved of the log alone holds in the service.                    *)
LEMMA LogHolds == Spec => []LogFacts
<1>1. EP!EventLogAssumption
  BY MicroserviceAssumption DEF EP!EventLogAssumption, Loggers
<1>2. EP!IInv => LogFacts
  BY DEF EP!IInv, EP!TypeOK, EP!EvPc, E!EvPc, EP!MutexInv, EP!LogInv, EP!RegistryInv,
    EP!Registered, LogFacts
<1> QED
  BY <1>1, <1>2, EP!Invariance, EventLogKept, SameLog, PTL DEF KeepsEventLog

(* What is proved of the board alone holds in the service.                  *)
LEMMA BoardHolds == Spec => []BoardFacts
<1>1. SP!StatBoardAssumption
  BY MicroserviceAssumption DEF SP!StatBoardAssumption, StatCalls
<1>2. SP!IInv => BoardFacts
  BY DEF SP!IInv, SP!CInv, SP!TypeOK, SP!StPc, S!StPc, SP!MutexInv, SP!Registered, BoardFacts
<1> QED
  BY <1>1, <1>2, SP!Invariance, StatBoardKept, SameBoard, PTL DEF KeepsStatBoard

-----------------------------------------------------------------------------
(* The order of one call's steps, and what it has to do with the server.    *)

Subscribed == {"waiting", "collecting", "sending", "returned"}

CallInv(c) ==
  /\ callPc[c] \in {"out", "rejected"} => evPc[c] = "new"
  /\ evPc[c] \in {"new", "adding"} => stPc[c] = "new"
  /\ callPc[c] \in {"handler", "denied", "done"} => stPc[c] \in {"counted"} \cup Subscribed
  /\ c \in Anonymous => callPc[c] \in {"out", "rejected"}
  /\ evPc[c] \in {"receiving", "sending", "returned"} => callPc[c] \in {"handler", "done"}
  /\ stPc[c] \in Subscribed => callPc[c] \in {"handler", "done"}
  /\ callPc[c] \in {"handler", "done"} => Allowed(c)

Control ==
  /\ callPc \in [Calls -> CallPc]
  /\ server = "down" => \A c \in Calls : callPc[c] = "out"
  /\ \A c \in Calls : CallInv(c)

IInv == LogFacts /\ BoardFacts /\ Control

(* A step of the server alone.  Start is the only one that writes the       *)
(* rules, and no call is in yet.                                            *)
LEMMA ServerControl ==
  ASSUME IInv, StartFails \/ Start \/ Cancel \/ Stopped
  PROVE  Control'
<1>1. UNCHANGED <<callPc, evPc, stPc>> /\ server' # "down"
  BY DEF StartFails, Start, Cancel, Stopped, evVars, stVars
<1>2. ACLRules' = ACLRules \/ \A c \in Calls : callPc[c] = "out"
  BY DEF IInv, Control, StartFails, Start, Cancel, Stopped
<1> QED
  BY <1>1, <1>2 DEF IInv, Control, CallInv, Allowed

(* A step of call c moves its own control alone.                            *)
Moves(c) ==
  /\ UNCHANGED <<server, ACLRules>>
  /\ \A d \in Calls \ {c} : /\ callPc'[d] = callPc[d]
                            /\ evPc'[d] = evPc[d]
                            /\ stPc'[d] = stPc[d]
  /\ callPc' \in [Calls -> CallPc]

(* A call moves on: interceptor, access check, handler.                     *)
LEMMA MoveControl ==
  ASSUME IInv, NEW c \in Calls, Moves(c), CallInv(c)', server # "down"
  PROVE  Control'
BY DEF IInv, Control, CallInv, Moves, Allowed

(* No step of a call is possible before the server runs, nor one of its     *)
(* goroutine before it arrives.                                             *)
LEMMA ArriveControl ==
  ASSUME IInv, NEW c \in Calls, Arrive(c)
  PROVE  Control'
<1>1. Moves(c) /\ CallInv(c)' /\ server # "down"
  BY MicroserviceAssumption
     DEF IInv, Control, CallInv, CallPc, Moves, Arrive, Allowed, evVars, stVars
<1> QED
  BY <1>1, MoveControl

(* The record in the log comes first.                                       *)
LEMMA AddEventControl ==
  ASSUME IInv, NEW c \in Calls, AddEvent(c)
  PROVE  Moves(c) /\ CallInv(c)'
<1>1. /\ callPc[c] = "auth"
      /\ UNCHANGED <<stPc, callPc, server, ACLRules>>
      /\ E!AddEvent(c)
  BY DEF AddEvent, stVars, rpcVars
<1>2. \/ evPc[c] = "new" /\ evPc' = [evPc EXCEPT ![c] = "adding"]
      \/ evPc[c] = "adding" /\ evPc' \in {evPc, [evPc EXCEPT ![c] = "added"]}
  BY <1>1 DEF E!AddEvent, E!AddEventLock, E!AddEventSend, E!AddEventUnlock
<1> QED
  BY <1>1, <1>2 DEF IInv, LogFacts, Control, CallInv, Moves, Subscribed, Allowed

(* The counts come after the record.                                        *)
LEMMA AddStatControl ==
  ASSUME IInv, NEW c \in Calls, AddStat(c)
  PROVE  Moves(c) /\ CallInv(c)'
<1>1. /\ callPc[c] = "auth" /\ evPc[c] = "added"
      /\ UNCHANGED <<evPc, callPc, server, ACLRules>>
      /\ S!AddByConsumer(c) \/ S!AddByMethod(c) \/ S!Counting(c)
  BY DEF AddStat, evVars, rpcVars
<1>2. \/ stPc' = stPc
      \/ \E p \in {"byConsumer", "between", "byMethod", "counted"} :
           stPc' = [stPc EXCEPT ![c] = p]
  BY <1>1 DEF S!AddByConsumer, S!AddByMethod, S!Counting, S!PeekEmpty, S!PeekFull,
    S!Take, S!Put, S!Unlock
<1> QED
  BY <1>1, <1>2 DEF IInv, BoardFacts, Control, CallInv, Moves, Subscribed, Allowed

(* The access check, and the return of a call that does nothing.            *)
LEMMA CheckControl ==
  ASSUME IInv, NEW c \in Calls, CheckACL(c) \/ BizReturn(c)
  PROVE  Moves(c) /\ CallInv(c)'
BY DEF IInv, Control, CallInv, CallPc, Moves, CheckACL, BizReturn, Allowed, Subscribed,
  evVars, stVars

(* Logging registers with its record and counts complete.                   *)
LEMMA LoggingControl ==
  ASSUME IInv, NEW c \in Loggers, Logging(c) \/ LoggingReturn(c)
  PROVE  Moves(c) /\ CallInv(c)'
<1>0. c \in Calls
  BY DEF Loggers
<1>1. /\ callPc[c] = "handler"
      /\ callPc' \in {callPc, [callPc EXCEPT ![c] = "done"]}
      /\ UNCHANGED <<stPc, server, ACLRules>>
      /\ E!Logging(c)
  BY DEF Logging, LoggingReturn, stVars, rpcVars, E!Logging
<1>2. \E p \in {"receiving", "sending", "returned"} : evPc' = [evPc EXCEPT ![c] = p]
  BY <1>1 DEF E!Logging, E!LoggingRegister, E!LoggingRecv, E!LoggingSend, E!LoggingReturn
<1> QED
  BY <1>0, <1>1, <1>2 DEF IInv, LogFacts, Control, CallInv, CallPc, Moves, Subscribed, Allowed

(* So does Statistics.                                                      *)
LEMMA StatisticsControl ==
  ASSUME IInv, NEW c \in StatCalls,
         StatisticsRegister(c) \/ Statistics(c) \/ StatisticsReturn(c)
  PROVE  Moves(c) /\ CallInv(c)'
<1>0. c \in Calls
  BY DEF StatCalls
<1>1. /\ callPc[c] = "handler"
      /\ callPc' \in {callPc, [callPc EXCEPT ![c] = "done"]}
      /\ UNCHANGED <<evPc, server, ACLRules>>
      /\ S!Statistics(c)
  BY DEF StatisticsRegister, Statistics, StatisticsReturn, evVars, rpcVars, S!Statistics
<1>2. \E p \in Subscribed : stPc' = [stPc EXCEPT ![c] = p]
  BY <1>1 DEF S!Statistics, S!Register, S!Tick, S!Collect, S!Send, S!Return, Subscribed
<1> QED
  BY <1>0, <1>1, <1>2 DEF IInv, BoardFacts, Control, CallInv, CallPc, Moves, Subscribed, Allowed

(* No step of the service breaks the control invariant.                     *)
LEMMA NextControl == IInv /\ [Next]_vars => Control'
<1> SUFFICES ASSUME IInv, [Next]_vars PROVE Control'
  OBVIOUS
<1>1. CASE StartFails \/ Start \/ Cancel \/ Stopped
  BY <1>1, ServerControl
<1>2. ASSUME NEW c \in Calls, Arrive(c) PROVE Control'
  BY <1>2, ArriveControl
<1>3. ASSUME NEW c \in Calls, Rpc(c) PROVE Control'
  <2>1. Moves(c) /\ CallInv(c)'
    BY <1>3, AddEventControl, AddStatControl, CheckControl, LoggingControl, StatisticsControl
       DEF Rpc
  <2>2. callPc[c] # "out"
    BY <1>3 DEF Rpc, AddEvent, AddStat, CheckACL, BizReturn, Logging, LoggingReturn,
      StatisticsRegister, Statistics, StatisticsReturn
  <2> QED
    BY <2>1, <2>2, MoveControl DEF IInv, Control
<1>4. CASE (\E s \in Streams : StreamClose(s)) \/ UNCHANGED vars
  <2>1. UNCHANGED <<callPc, evPc, stPc, server, ACLRules>>
    BY <1>4 DEF StreamClose, vars, evVars, stVars, rpcVars
  <2> QED
    BY <2>1 DEF IInv, Control, CallInv, Allowed
<1> QED
  BY <1>1, <1>2, <1>3, <1>4 DEF Next

(* Control, and the facts of both components, hold throughout.              *)
THEOREM Invariance == Spec => []IInv
<1>1. Init => Control
  BY DEF Init, Control, CallInv, CallPc, Subscribed, E!Init, S!Init
<1>2. IInv /\ [Next]_vars => Control'
  BY NextControl
<1> QED
  BY <1>1, <1>2, LogHolds, BoardHolds, PTL DEF Spec, IInv

(* No call is served or denied before its record is complete, and a call    *)
(* without consumer leaves no record, for any calls and any rules.          *)
THEOREM AuditHolds == Spec => []Audited
<1>1. ASSUME IInv, NEW c \in Calls, callPc[c] \in {"handler", "denied", "done"}
      PROVE  /\ \E n \in DOMAIN log : log[n] = c
             /\ eventsMutex # c
             /\ stPc[c] \notin {"new", "byConsumer", "between", "byMethod"}
  <2>1. stPc[c] \in {"counted"} \cup Subscribed
    BY <1>1 DEF IInv, Control, CallInv
  <2>2. evPc[c] \notin {"new", "adding"}
    BY <1>1, <2>1 DEF IInv, Control, CallInv, Subscribed
  <2> QED
    BY <1>1, <2>1, <2>2 DEF IInv, LogFacts, Subscribed
<1>2. ASSUME IInv, NEW c \in Calls, c \in Anonymous
      PROVE  stPc[c] = "new" /\ \A n \in DOMAIN log : log[n] # c
  BY <1>2 DEF IInv, Control, CallInv, LogFacts
<1>3. IInv => Audited
  BY <1>1, <1>2 DEF Audited
<1> QED
  BY <1>3, Invariance, PTL

(* No goroutine ever holds EventsMutex and StatsMutex, or waits for the     *)
(* first with the second in hand.                                           *)
THEOREM OneMutexHolds == Spec => []OneMutex
<1>1. IInv => OneMutex
  <2> SUFFICES ASSUME IInv
               PROVE  /\ eventsMutex # NoCall => statsMutex # eventsMutex
                      /\ \A c \in Calls : evPc[c] \in {"new", "adding"} => stPc[c] = "new"
    BY DEF OneMutex
  <2>1. \A c \in Calls : evPc[c] \in {"new", "adding"} => stPc[c] = "new"
    BY DEF IInv, Control, CallInv
  <2>2. \A c \in Calls : eventsMutex = c => statsMutex # c
    BY <2>1 DEF IInv, LogFacts, BoardFacts
  <2>3. eventsMutex \in Calls \cup {NoCall}
    BY DEF IInv, LogFacts
  <2> QED
    BY <2>1, <2>2, <2>3
<1> QED
  BY <1>1, Invariance, PTL

(* ms.Events and ms.Stats only ever hold channels of calls that the rules   *)
(* allow, whatever the rules are.                                           *)
THEOREM SubscriptionsAllowed == Spec => []OnlyAllowedSubscribe
<1>1. IInv => OnlyAllowedSubscribe
  <2> SUFFICES ASSUME IInv
               PROVE  /\ \A i \in DOMAIN events : Allowed(events[i])
                      /\ \A i \in DOMAIN stats : Allowed(stats[i])
    BY DEF OnlyAllowedSubscribe
  <2>1. ASSUME NEW i \in DOMAIN events PROVE Allowed(events[i])
    <3>1. events[i] \in Loggers
      BY DEF IInv, LogFacts
    <3>2. evPc[events[i]] \in {"receiving", "sending", "returned"}
      BY <3>1 DEF IInv, LogFacts
    <3> QED
      BY <3>1, <3>2 DEF IInv, Control, CallInv, Loggers
  <2>2. ASSUME NEW i \in DOMAIN stats PROVE Allowed(stats[i])
    <3>1. stats[i] \in StatCalls
      BY DEF IInv, BoardFacts
    <3>2. stPc[stats[i]] \in Subscribed
      BY <3>1 DEF IInv, BoardFacts, Subscribed
    <3> QED
      BY <3>1, <3>2 DEF IInv, Control, CallInv, StatCalls
  <2> QED
    BY <2>1, <2>2
<1> QED
  BY <1>1, Invariance, PTL

-----------------------------------------------------------------------------
(* The log and the board, compared by the numbers of calls in them.         *)

(* The log holds a call once.                                               *)
LogOnce ==
  /\ log \in Seq(Calls)
  /\ \A m, n \in DOMAIN log : log[m] = log[n] => m = n

(* What a slot is owed is a number, and nothing before it is registered.    *)
DueFacts ==
  /\ due \in [StatCalls -> [Consumers \cup Methods -> Nat]]
  /\ \A s \in StatCalls : stPc[s] \notin Subscribed => \A k \in Consumers : due[s][k] = 0

LEMMA HistoriesHold == Spec => [](LogOnce /\ DueFacts)
<1>1. EP!EventLogAssumption
  BY MicroserviceAssumption DEF EP!EventLogAssumption, Loggers
<1>2. EP!IInv => LogOnce
  BY DEF EP!IInv, EP!TypeOK, EP!LogInv, LogOnce
<1>3. SP!StatBoardAssumption
  BY MicroserviceAssumption DEF SP!StatBoardAssumption, StatCalls
<1>4. SP!IInv => DueFacts
  BY DEF SP!IInv, SP!CInv, SP!TypeOK, SP!FreshInv, SP!Registered, SP!Zero, SP!Stat, SP!Keys,
    DueFacts, Subscribed
<1> QED
  BY <1>1, <1>2, <1>3, <1>4, EP!Invariance, EventLogKept, SameLog,
     SP!Invariance, StatBoardKept, SameBoard, PTL DEF KeepsEventLog, KeepsStatBoard

(* The calls of consumer k in the log that have entered addByConsumer, and  *)
(* those among them that were logged after Statistics call s registered.    *)
Entered(k) == {n \in DOMAIN log : Consumer[log[n]] = k /\ stPc[log[n]] # "new"}
Since(s, k) == {n \in Entered(k) : n > statJoined[s]}

AgreeInv ==
  /\ statJoined \in [StatCalls -> Nat]
  /\ \A s \in StatCalls, k \in Consumers : stPc[s] \in Subscribed =>
       /\ due[s][k] <= Cardinality(Entered(k))
       /\ due[s][k] >= Cardinality(Since(s, k))

Sound == IInv /\ LogOnce /\ DueFacts

LEMMA CountFacts ==
  ASSUME LogOnce
  PROVE  /\ Len(log) \in Nat /\ DOMAIN log = 1 .. Len(log)
         /\ \A T \in SUBSET DOMAIN log :
              IsFiniteSet(T) /\ Cardinality(T) \in Nat
<1>1. Len(log) \in Nat /\ DOMAIN log = 1 .. Len(log)
  BY LenProperties DEF LogOnce
<1>2. IsFiniteSet(DOMAIN log)
  BY <1>1, FS_Interval
<1> QED
  BY <1>1, <1>2, FS_Subset, FS_CardinalityType

(* A step that neither counts a call of a consumer nor subscribes.          *)
LEMMA AgreeStays ==
  ASSUME AgreeInv, UNCHANGED statJoined,
         \A k \in Consumers : Entered(k)' = Entered(k),
         \A s \in StatCalls : stPc'[s] \in Subscribed =>
           stPc[s] \in Subscribed /\ \A k \in Consumers : due'[s][k] = due[s][k]
  PROVE  AgreeInv'
<1>1. \A s \in StatCalls, k \in Consumers : Since(s, k)' = Since(s, k)
  BY DEF Since
<1> QED
  BY <1>1 DEF AgreeInv

(* The calls in the log and their first step into the board stay the same.  *)
LEMMA EnteredStays ==
  ASSUME UNCHANGED log, LogOnce, \A c \in Calls : stPc'[c] = "new" <=> stPc[c] = "new"
  PROVE  \A k : Entered(k)' = Entered(k)
<1>1. \A n \in DOMAIN log : log[n] \in Calls
  BY DEF LogOnce
<1> QED
  BY <1>1 DEF Entered

(* addEvent: a call that enters the log has not been counted.               *)
LEMMA AddEventAgrees ==
  ASSUME Sound, AgreeInv, NEW c \in Calls, AddEvent(c)
  PROVE  AgreeInv'
<1>1. UNCHANGED <<stPc, due, statJoined>> /\ E!AddEvent(c)
  BY DEF AddEvent, stVars, rpcVars
<1>2. CASE E!AddEventLock(c)
  <2>1. evPc[c] = "new" /\ log' = Append(log, c)
    BY <1>2 DEF E!AddEventLock
  <2>2. stPc[c] = "new"
    BY <2>1 DEF Sound, IInv, Control, CallInv
  <2>3. /\ log \in Seq(Calls) /\ DOMAIN log = 1 .. Len(log) /\ Len(log) \in Nat
        /\ DOMAIN log' = 1 .. Len(log) + 1 /\ log'[Len(log) + 1] = c
        /\ \A n \in 1 .. Len(log) : log'[n] = log[n]
    <3>1. log \in Seq(Calls)
      BY DEF Sound, LogOnce
    <3> QED
      BY <2>1, <3>1, AppendProperties, LenProperties
  <2>4. \A k : Entered(k)' = Entered(k)
    BY <1>1, <2>2, <2>3 DEF Entered
  <2> QED
    BY <1>1, <2>4, AgreeStays
<1>3. CASE E!AddEventSend(c) \/ E!AddEventUnlock(c)
  <2>1. UNCHANGED log
    BY <1>3 DEF E!AddEventSend, E!AddEventUnlock
  <2> QED
    BY <1>1, <2>1, EnteredStays, AgreeStays DEF Sound
<1> QED
  BY <1>1, <1>2, <1>3 DEF E!AddEvent

(* addByConsumer: the call is in the log once, and counts one for its       *)
(* consumer on both sides.                                                  *)
LEMMA AddByConsumerAgrees ==
  ASSUME Sound, AgreeInv, NEW c \in Calls, callPc[c] = "auth", evPc[c] = "added",
         UNCHANGED <<log, statJoined>>, S!AddByConsumer(c)
  PROVE  AgreeInv'
<1>1. /\ stPc[c] = "new" /\ stPc' = [stPc EXCEPT ![c] = "byConsumer"]
      /\ due' = [s \in StatCalls |-> IF S!Registered(s) THEN S!Inc(due[s], Consumer[c]) ELSE due[s]]
  BY DEF S!AddByConsumer, S!Lock
<1>2. stPc \in [Calls -> S!StPc] /\ StatCalls \subseteq Calls /\ Consumer[c] \in Consumers
  BY MicroserviceAssumption DEF Sound, IInv, BoardFacts, StatCalls
<1>3. \A s \in StatCalls : stPc'[s] \in Subscribed => stPc[s] \in Subscribed /\ S!Registered(s)
  BY <1>1, <1>2 DEF Subscribed, S!Registered
<1>4. PICK m \in DOMAIN log : log[m] = c
  BY DEF Sound, IInv, LogFacts
<1>5. /\ \A k : k # Consumer[c] => Entered(k)' = Entered(k)
      /\ Entered(Consumer[c])' = Entered(Consumer[c]) \cup {m}
      /\ m \notin Entered(Consumer[c])
  BY <1>1, <1>2, <1>4 DEF Sound, LogOnce, Entered
<1>6. ASSUME NEW s \in StatCalls, NEW k \in Consumers, stPc'[s] \in Subscribed
      PROVE  due'[s][k] <= Cardinality(Entered(k)') /\ due'[s][k] >= Cardinality(Since(s, k)')
  <2>1. /\ due[s][k] \in Nat
        /\ due[s][k] <= Cardinality(Entered(k)) /\ due[s][k] >= Cardinality(Since(s, k))
    BY <1>3, <1>6 DEF AgreeInv, Sound, DueFacts
  <2>2. due'[s][k] = IF k = Consumer[c] THEN due[s][k] + 1 ELSE due[s][k]
    BY <1>1, <1>2, <1>3, <1>6 DEF S!Inc, Sound, DueFacts
  <2>3. CASE k # Consumer[c]
    <3>1. Entered(k)' = Entered(k) /\ Since(s, k)' = Since(s, k)
      BY <1>5, <2>3 DEF Since
    <3> QED
      BY <2>1, <2>2, <2>3, <3>1
  <2>4. CASE k = Consumer[c]
    <3>1. Since(s, k)' \in {Since(s, k), Since(s, k) \cup {m}}
      BY <1>5, <2>4 DEF Since
    <3>2. Entered(k) \in SUBSET DOMAIN log /\ Since(s, k) \in SUBSET DOMAIN log
      BY DEF Entered, Since
    <3>3. /\ IsFiniteSet(Entered(k)) /\ Cardinality(Entered(k)) \in Nat
          /\ IsFiniteSet(Since(s, k)) /\ Cardinality(Since(s, k)) \in Nat
      BY <3>2, CountFacts DEF Sound
    <3>4. Cardinality(Entered(k)') = Cardinality(Entered(k)) + 1
      BY <1>5, <2>4, <3>3, FS_AddElement
    <3>5. Cardinality(Since(s, k) \cup {m}) \in {Cardinality(Since(s, k)), Cardinality(Since(s, k)) + 1}
      BY <3>3, FS_AddElement
    <3>6. Cardinality(Since(s, k)') \in {Cardinality(Since(s, k)), Cardinality(Since(s, k)) + 1}
      BY <3>1, <3>5
    <3> QED
      BY <2>1, <2>2, <2>4, <3>3, <3>4, <3>6
  <2> QED
    BY <2>3, <2>4
<1> QED
  BY <1>6 DEF AgreeInv

(* addByMethod raises a counter that is no consumer's.                      *)
LEMMA AddStatAgrees ==
  ASSUME Sound, AgreeInv, NEW c \in Calls, AddStat(c)
  PROVE  AgreeInv'
<1>1. /\ callPc[c] = "auth" /\ evPc[c] = "added" /\ UNCHANGED <<log, statJoined>>
      /\ S!AddByConsumer(c) \/ S!AddByMethod(c) \/ S!Counting(c)
  BY DEF AddStat, evVars, rpcVars
<1>2. stPc \in [Calls -> S!StPc] /\ StatCalls \subseteq Calls
  BY DEF Sound, IInv, BoardFacts, StatCalls
<1>3. CASE S!AddByMethod(c)
  <2>1. /\ stPc[c] = "between" /\ stPc' = [stPc EXCEPT ![c] = "byMethod"]
        /\ due' = [s \in StatCalls |-> IF S!Registered(s) THEN S!Inc(due[s], Method[c]) ELSE due[s]]
    BY <1>3 DEF S!AddByMethod, S!Lock
  <2>2. \A s \in StatCalls, k \in Consumers : due'[s][k] = due[s][k]
    BY <2>1, MicroserviceAssumption DEF S!Inc, Sound, DueFacts
  <2>3. \A d \in Calls : /\ stPc'[d] = "new" <=> stPc[d] = "new"
                         /\ stPc'[d] \in Subscribed => stPc[d] \in Subscribed
    BY <1>2, <2>1 DEF Subscribed
  <2> QED
    BY <1>1, <1>2, <2>2, <2>3, EnteredStays, AgreeStays DEF Sound
<1>4. CASE S!Counting(c)
  <2>1. UNCHANGED due
    BY <1>4 DEF S!Counting, S!PeekEmpty, S!PeekFull, S!Take, S!Put, S!Unlock
  <2>2. \/ UNCHANGED stPc
        \/ /\ statsMutex = c
           /\ stPc' \in {[stPc EXCEPT ![c] = "between"], [stPc EXCEPT ![c] = "counted"]}
    BY <1>4 DEF S!Counting, S!PeekEmpty, S!PeekFull, S!Take, S!Put, S!Unlock
  <2>3. statsMutex = c => stPc[c] \in {"byConsumer", "byMethod"}
    BY DEF Sound, IInv, BoardFacts
  <2>4. \A d \in Calls : /\ stPc'[d] = "new" <=> stPc[d] = "new"
                         /\ stPc'[d] \in Subscribed => stPc[d] \in Subscribed
    BY <1>2, <2>2, <2>3 DEF Subscribed
  <2> QED
    BY <1>1, <1>2, <2>1, <2>4, EnteredStays, AgreeStays DEF Sound
<1> QED
  BY <1>1, <1>3, <1>4, AddByConsumerAgrees

(* Statistics registers: it is owed nothing, and nothing is logged since.   *)
LEMMA RegisterAgrees ==
  ASSUME Sound, AgreeInv, NEW c \in StatCalls, StatisticsRegister(c)
  PROVE  AgreeInv'
<1>1. /\ statJoined' = [statJoined EXCEPT ![c] = Len(log)] /\ UNCHANGED <<log, due>>
      /\ stPc[c] = "counted" /\ stPc' = [stPc EXCEPT ![c] = "waiting"]
  BY DEF StatisticsRegister, evVars, S!Register
<1>2. stPc \in [Calls -> S!StPc] /\ StatCalls \subseteq Calls
  BY DEF Sound, IInv, BoardFacts, StatCalls
<1>3. \A k : Entered(k)' = Entered(k)
  <2>1. \A d \in Calls : stPc'[d] = "new" <=> stPc[d] = "new"
    BY <1>1, <1>2
  <2> QED
    BY <1>1, <2>1, EnteredStays DEF Sound
<1>4. Len(log) \in Nat /\ DOMAIN log = 1 .. Len(log)
  BY CountFacts DEF Sound
<1>5. statJoined' \in [StatCalls -> Nat]
  BY <1>1, <1>4 DEF AgreeInv
<1>6. ASSUME NEW s \in StatCalls, NEW k \in Consumers, stPc'[s] \in Subscribed
      PROVE  due'[s][k] <= Cardinality(Entered(k)') /\ due'[s][k] >= Cardinality(Since(s, k)')
  <2>1. CASE s # c
    <3>1. stPc[s] \in Subscribed /\ Since(s, k)' = Since(s, k)
      BY <1>1, <1>2, <1>3, <1>6, <2>1 DEF AgreeInv, Since
    <3> QED
      BY <1>1, <1>3, <3>1 DEF AgreeInv
  <2>2. CASE s = c
    <3>1. due'[s][k] = 0
      BY <1>1, <2>2 DEF Sound, DueFacts, Subscribed
    <3>2. statJoined'[s] = Len(log)
      BY <1>1, <2>2 DEF AgreeInv
    <3>3. Since(s, k)' = {}
      <4>1. \A n \in DOMAIN log : ~(n > Len(log))
        BY <1>4
      <4> QED
        BY <1>1, <3>2, <4>1 DEF Since, Entered
    <3>4. Entered(k) \in SUBSET DOMAIN log
      BY DEF Entered
    <3>5. Cardinality(Entered(k)) \in Nat
      BY <3>4, CountFacts DEF Sound
    <3> QED
      BY <1>3, <3>1, <3>3, <3>5, FS_EmptySet
  <2> QED
    BY <2>1, <2>2
<1> QED
  BY <1>5, <1>6 DEF AgreeInv

(* What else a call does leaves the numbers alone.                          *)
LEMMA HandlerAgrees ==
  ASSUME Sound, AgreeInv, NEW c \in Calls,
         \/ CheckACL(c) \/ BizReturn(c) \/ Logging(c) \/ LoggingReturn(c)
         \/ Statistics(c) \/ StatisticsReturn(c)
  PROVE  AgreeInv'
<1>1. UNCHANGED <<log, due, statJoined>>
  BY DEF CheckACL, BizReturn, Logging, LoggingReturn, Statistics, StatisticsReturn,
    evVars, stVars, rpcVars, E!LoggingRegister, E!LoggingRecv, E!LoggingSend, E!LoggingReturn,
    S!Tick, S!Collect, S!Send, S!Return
<1>2. UNCHANGED stPc \/ (stPc[c] \in Subscribed /\ \E p \in Subscribed : stPc' = [stPc EXCEPT ![c] = p])
  BY DEF CheckACL, BizReturn, Logging, LoggingReturn, Statistics, StatisticsReturn, stVars,
    S!Tick, S!Collect, S!Send, S!Return, Subscribed
<1>3. stPc \in [Calls -> S!StPc] /\ StatCalls \subseteq Calls
  BY DEF Sound, IInv, BoardFacts, StatCalls
<1>4. \A d \in Calls : /\ stPc'[d] = "new" <=> stPc[d] = "new"
                       /\ stPc'[d] \in Subscribed => stPc[d] \in Subscribed
  BY <1>2, <1>3 DEF Subscribed
<1> QED
  BY <1>1, <1>3, <1>4, EnteredStays, AgreeStays DEF Sound

LEMMA AgreeStep ==
  ASSUME Sound, AgreeInv, [Next]_vars
  PROVE  AgreeInv'
<1>1. CASE \/ StartFails \/ Start \/ Cancel \/ Stopped \/ UNCHANGED vars
           \/ (\E c \in Calls : Arrive(c)) \/ \E s \in Streams : StreamClose(s)
  <2>1. UNCHANGED <<log, due, stPc, statJoined>>
    BY <1>1 DEF StartFails, Start, Cancel, Stopped, Arrive, StreamClose, vars, evVars, stVars, rpcVars
  <2> QED
    BY <2>1, EnteredStays, AgreeStays DEF Sound
<1>2. ASSUME NEW c \in Calls, Rpc(c)
      PROVE  AgreeInv'
  BY <1>2, AddEventAgrees, AddStatAgrees, RegisterAgrees, HandlerAgrees DEF Rpc
<1> QED
  BY <1>1, <1>2 DEF Next

(* For any calls, consumers and interleaving: what a statistics client is   *)
(* owed for a consumer lies between the consumer's calls logged since it    *)
(* subscribed that are through addByConsumer and all of them in the log.    *)
THEOREM LogAgrees == Spec => []LogAndBoardAgree
<1>1. Init => AgreeInv
  BY DEF Init, AgreeInv, S!Init, Subscribed, StatCalls
<1>2. Sound /\ AgreeInv /\ [Next]_vars => AgreeInv'
  BY AgreeStep
<1>3. ASSUME Sound, AgreeInv
      PROVE  LogAndBoardAgree
  <2> SUFFICES ASSUME NEW s \in StatCalls, NEW k \in Consumers, S!Registered(s)
               PROVE  LET by == {n \in DOMAIN log : Consumer[log[n]] = k}
                          through == {n \in by : /\ n > statJoined[s]
                                                 /\ stPc[log[n]] \notin {"new", "byConsumer"}}
                      IN  /\ due[s][k] <= Cardinality(by)
                          /\ due[s][k] >= Cardinality(through)
    BY DEF LogAndBoardAgree
  <2> DEFINE by == {n \in DOMAIN log : Consumer[log[n]] = k}
             through == {n \in by : n > statJoined[s] /\ stPc[log[n]] \notin {"new", "byConsumer"}}
  <2>1. /\ by \in SUBSET DOMAIN log /\ Entered(k) \in SUBSET by
        /\ Since(s, k) \in SUBSET DOMAIN log /\ through \in SUBSET Since(s, k)
    BY DEF Entered, Since
  <2>2. /\ due[s][k] \in Nat /\ due[s][k] <= Cardinality(Entered(k))
        /\ due[s][k] >= Cardinality(Since(s, k))
    BY <1>3 DEF AgreeInv, S!Registered, Subscribed, Sound, DueFacts
  <2> HIDE DEF by, through
  <2>3. IsFiniteSet(by) /\ IsFiniteSet(Since(s, k))
    BY <1>3, <2>1, CountFacts DEF Sound
  <2>4. Cardinality(Entered(k)) <= Cardinality(by) /\ Cardinality(through) <= Cardinality(Since(s, k))
    BY <2>1, <2>3, FS_Subset
  <2>5. /\ Cardinality(by) \in Nat /\ Cardinality(Entered(k)) \in Nat
        /\ Cardinality(Since(s, k)) \in Nat /\ Cardinality(through) \in Nat
    BY <2>1, <2>3, FS_Subset, FS_CardinalityType
  <2>6. due[s][k] <= Cardinality(by) /\ due[s][k] >= Cardinality(through)
    BY <2>2, <2>4, <2>5
  <2> QED
    BY <2>6 DEF by, through
<1> QED
  BY <1>1, <1>2, <1>3, Invariance, HistoriesHold, PTL DEF Spec, Sound
=============================================================================
