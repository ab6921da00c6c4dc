---------------------------- MODULE Microservice ----------------------------
(***************************************************************************)
(* The gRPC microservice (chapter2/hw3/service.go): the interceptors,      *)
(* which take every RPC through the call log (EventLog), the statistics    *)
(* (StatBoard) and the access check to its handler, and the life of the    *)
(* server from StartMyMicroservice to grpcServer.Stop.  The unary and the  *)
(* stream interceptor have the same body and share one model.              *)
(*                                                                         *)
(* grpc itself is external, modelled from what service.go relies on: each  *)
(* RPC runs on a goroutine of its own; Stop closes the transports and does *)
(* not wait for the handlers; Send fails once the transport is closed.     *)
(***************************************************************************)
EXTENDS Naturals, Sequences, FiniteSets

CONSTANTS
  Calls,             \* the RPCs clients may issue
  Anonymous,         \* those without "consumer" metadata
  Consumers,         \* values of the metadata key "consumer"
  Methods,           \* full method names
  Consumer,          \* who makes each call
  Method,            \* and which method it calls
  LoggingMethod,     \* /main.Admin/Logging
  StatisticsMethod,  \* /main.Admin/Statistics
  ACLs,              \* what ACLData may say: consumer -> its rules; a rule
                     \* is the set of methods its regular expression matches
  EventsCap,         \* capacity of a Logging channel
  NoCall

Loggers == {c \in Calls : Method[c] = LoggingMethod}
StatCalls == {c \in Calls : Method[c] = StatisticsMethod}
Streams == Loggers \cup StatCalls

ASSUME MicroserviceAssumption ==
  /\ Anonymous \subseteq Calls
  /\ Consumers \cap Methods = {}
  /\ Consumer \in [Calls -> Consumers]
  /\ Method \in [Calls -> Methods]
  /\ LoggingMethod # StatisticsMethod
  /\ \A acl \in ACLs : /\ DOMAIN acl \subseteq Consumers
                       /\ \A k \in DOMAIN acl : acl[k] \in Seq(SUBSET Methods)
  /\ EventsCap \in Nat \ {0}
  /\ NoCall \notin Calls

VARIABLES
  eventsMutex, events, chan, lastEvent, next, evPc, log, joined, delivered,
  statsMutex, stats, slot, pos, step, currStats, lastStat, stPc, due, sent,
  open,        \* is a stream still up, as the transport sees it
  callPc,      \* where each RPC is between interceptor, handler and answer
  server,      \* life of the service
  ACLRules,    \* ms.ACLRules
  statJoined   \* history: Len(log) when each Statistics call registered

E == INSTANCE EventLog WITH open <- [s \in Loggers |-> open[s]]
S == INSTANCE StatBoard WITH open <- [s \in StatCalls |-> open[s]]

evVars == <<eventsMutex, events, chan, lastEvent, next, evPc, log, joined, delivered>>
stVars == <<statsMutex, stats, slot, pos, step, currStats, lastStat, stPc, due, sent>>
rpcVars == <<open, callPc, server, ACLRules, statJoined>>
vars == <<evVars, stVars, rpcVars>>

CallPc == {"out", "auth", "rejected", "denied", "handler", "done"}
Server == {"down", "failed", "running", "stopping", "stopped"}

NoRules == <<>>

TypeOK ==
  /\ open \in [Streams -> BOOLEAN]
  /\ E!TypeOK
  /\ S!TypeOK
  /\ callPc \in [Calls -> CallPc]
  /\ server \in Server
  /\ ACLRules \in ACLs \cup {NoRules}
  /\ statJoined \in [StatCalls -> Nat]

Init ==
  /\ open = [s \in Streams |-> TRUE]
  /\ callPc = [c \in Calls |-> "out"]
  /\ server = "down"
  /\ ACLRules = NoRules
  /\ statJoined = [s \in StatCalls |-> 0]
  /\ E!Init
  /\ S!Init

-----------------------------------------------------------------------------
(* The life of the server.                                                  *)

(* StartMyMicroservice: the ACL does not parse or the port is taken.        *)
StartFails ==
  /\ server = "down"
  /\ server' = "failed"
  /\ UNCHANGED <<evVars, stVars, open, callPc, ACLRules, statJoined>>

(* A consumer with no rule at all is not in the map that newMyService fills. *)
Start ==
  /\ server = "down"
  /\ server' = "running"
  /\ ACLRules' \in ACLs
  /\ UNCHANGED <<evVars, stVars, open, callPc, statJoined>>

(* Mutant: the end of the context clears both lists, without their mutexes. *)
CancelClears ==
  /\ server = "running"
  /\ server' = "stopping"
  /\ events' = <<>>
  /\ stats' = <<>>
  /\ UNCHANGED <<eventsMutex, chan, lastEvent, next, evPc, log, joined, delivered>>
  /\ UNCHANGED <<statsMutex, slot, pos, step, currStats, lastStat, stPc, due, sent>>
  /\ UNCHANGED <<open, callPc, ACLRules, statJoined>>

(* <-ctx.Done(): the goroutine goes on to grpcServer.Stop, which closes the *)
(* transports one after the other (StreamClose).                            *)
Cancel ==
  /\ server = "running"
  /\ server' = "stopping"
  /\ UNCHANGED <<evVars, stVars, open, callPc, ACLRules, statJoined>>

(* Stop returns, with all transports closed; Serve returns as well.         *)
Stopped ==
  /\ server = "stopping"
  /\ \A s \in Streams : callPc[s] \in {"auth", "handler"} => ~open[s]
  /\ server' = "stopped"
  /\ UNCHANGED <<evVars, stVars, open, callPc, ACLRules, statJoined>>

-----------------------------------------------------------------------------
(* The interceptor.                                                         *)

(* Without the metadata key the call is rejected before it leaves a trace.  *)
Arrive(c) ==
  /\ server \in {"running", "stopping"}
  /\ callPc[c] = "out"
  /\ callPc' = [callPc EXCEPT ![c] = IF c \in Anonymous THEN "rejected" ELSE "auth"]
  /\ UNCHANGED <<evVars, stVars, open, server, ACLRules, statJoined>>

(* Mutant: addEvent returns without Unlock. *)
AddEventNoUnlock(c) ==
  /\ callPc[c] = "auth"
  /\ UNCHANGED <<stVars, rpcVars>>
  /\ E!AddEventLock(c) \/ E!AddEventSend(c)

AddEvent(c) ==
  /\ callPc[c] = "auth"
  /\ UNCHANGED <<stVars, rpcVars>>
  /\ E!AddEvent(c)

(* Mutant: the statistics run beside the log, not after it. *)
AddStatBeside(c) ==
  /\ callPc[c] = "auth"
  /\ UNCHANGED <<evVars, rpcVars>>
  /\ S!AddByConsumer(c) \/ S!AddByMethod(c) \/ S!Counting(c)

AddStat(c) ==
  /\ callPc[c] = "auth"
  /\ evPc[c] = "added"
  /\ UNCHANGED <<evVars, rpcVars>>
  /\ S!AddByConsumer(c) \/ S!AddByMethod(c) \/ S!Counting(c)

Allowed(c) ==
  /\ Consumer[c] \in DOMAIN ACLRules
  /\ \E i \in DOMAIN ACLRules[Consumer[c]] : Method[c] \in ACLRules[Consumer[c]][i]

(* Mutant: the access check comes before the records. *)
CheckACLFirst(c) ==
  /\ callPc[c] = "auth"
  /\ callPc' = [callPc EXCEPT ![c] = IF Allowed(c) THEN "handler" ELSE "denied"]
  /\ UNCHANGED <<evVars, stVars, open, server, ACLRules, statJoined>>

(* Mutant: a known consumer may call everything. *)
CheckACLKnown(c) ==
  /\ callPc[c] = "auth"
  /\ stPc[c] = "counted"
  /\ callPc' = [callPc EXCEPT ![c] =
                  IF Consumer[c] \in DOMAIN ACLRules THEN "handler" ELSE "denied"]
  /\ UNCHANGED <<evVars, stVars, open, server, ACLRules, statJoined>>

(* The rules are never written after the start: one step, no lock to hold.  *)
CheckACL(c) ==
  /\ callPc[c] = "auth"
  /\ stPc[c] = "counted"
  /\ callPc' = [callPc EXCEPT ![c] = IF Allowed(c) THEN "handler" ELSE "denied"]
  /\ UNCHANGED <<evVars, stVars, open, server, ACLRules, statJoined>>

-----------------------------------------------------------------------------
(* The handlers.                                                            *)

(* Check, Add and Test do nothing. *)
BizReturn(c) ==
  /\ callPc[c] = "handler"
  /\ c \notin Streams
  /\ callPc' = [callPc EXCEPT ![c] = "done"]
  /\ UNCHANGED <<evVars, stVars, open, server, ACLRules, statJoined>>

Logging(s) ==
  /\ callPc[s] = "handler"
  /\ UNCHANGED <<stVars, rpcVars>>
  /\ E!LoggingRegister(s) \/ E!LoggingRecv(s) \/ E!LoggingSend(s)

(* Mutant: the error of Send is ignored, the event is sent again. *)
LoggingRetries(s) ==
  /\ callPc[s] = "handler"
  /\ evPc[s] = "sending"
  /\ UNCHANGED vars

LoggingReturn(s) ==
  /\ callPc[s] = "handler"
  /\ callPc' = [callPc EXCEPT ![s] = "done"]
  /\ UNCHANGED <<stVars, open, server, ACLRules, statJoined>>
  /\ E!LoggingReturn(s)

StatisticsRegister(s) ==
  /\ callPc[s] = "handler"
  /\ statJoined' = [statJoined EXCEPT ![s] = Len(log)]
  /\ UNCHANGED <<evVars, open, callPc, server, ACLRules>>
  /\ S!Register(s)

Statistics(s) ==
  /\ callPc[s] = "handler"
  /\ UNCHANGED <<evVars, rpcVars>>
  /\ S!Tick(s) \/ S!Collect(s) \/ S!Send(s)

StatisticsReturn(s) ==
  /\ callPc[s] = "handler"
  /\ callPc' = [callPc EXCEPT ![s] = "done"]
  /\ UNCHANGED <<evVars, open, server, ACLRules, statJoined>>
  /\ S!Return(s)

(* The transport under a stream goes away: the client cancels, its          *)
(* connection drops, or Stop closes it.  Nothing else notices the end of    *)
(* a unary call's transport, and an answered call has none.                 *)
StreamClose(s) ==
  /\ callPc[s] \in {"auth", "handler"}
  /\ open[s]
  /\ open' = [open EXCEPT ![s] = FALSE]
  /\ UNCHANGED <<evVars, stVars, callPc, server, ACLRules, statJoined>>

Rpc(c) ==
  \/ AddEvent(c) \/ AddStat(c) \/ CheckACL(c) \/ BizReturn(c)
  \/ c \in Loggers /\ (Logging(c) \/ LoggingReturn(c))
  \/ c \in StatCalls /\ (StatisticsRegister(c) \/ Statistics(c) \/ StatisticsReturn(c))

Next ==
  \/ StartFails \/ Start \/ Cancel \/ Stopped
  \/ \E c \in Calls : Arrive(c) \/ Rpc(c)
  \/ \E s \in Streams : StreamClose(s)

Spec == Init /\ [][Next]_vars

(* A goroutine that can run does run, ticks come, clients with an open      *)
(* stream read, and Stop goes through all transports.  Calls, client-side   *)
(* cancellations and the context's end are never assumed.  Each goroutine   *)
(* takes a mutex at most four times, so weak fairness is enough.            *)
Fairness ==
  /\ \A c \in Calls : WF_vars(Rpc(c))
  /\ \A s \in Streams : WF_vars(server = "stopping" /\ StreamClose(s))
  /\ WF_vars(Stopped)

FairSpec == Spec /\ Fairness

-----------------------------------------------------------------------------
(* Whatever the interceptors, the handlers and the server do, the call log  *)
(* behaves as EventLog, so that its invariants hold in the whole service.   *)
KeepsEventLog == E!Spec

(* And the statistics behave as StatBoard.                                  *)
KeepsStatBoard == S!Spec

(* No call is answered, served or denied before its record is complete: it  *)
(* is in the log, addEvent has handed it to every logger, and both counters *)
(* are up; a denied call leaves the same trace as a served one, a call      *)
(* without consumer leaves none.                                            *)
Audited ==
  \A c \in Calls :
    /\ callPc[c] \in {"handler", "denied", "done"} =>
         /\ \E n \in DOMAIN log : log[n] = c
         /\ eventsMutex # c
         /\ stPc[c] \notin {"new", "byConsumer", "between", "byMethod"}
    /\ c \in Anonymous => stPc[c] = "new" /\ \A n \in DOMAIN log : log[n] # c

(* No goroutine holds both mutexes, or takes part in the statistics before  *)
(* it left the log: the two lists cannot wait on each other in a cycle.     *)
OneMutex ==
  /\ eventsMutex # NoCall => statsMutex # eventsMutex
  /\ \A c \in Calls : evPc[c] \in {"new", "adding"} => stPc[c] = "new"

(* Only a consumer with a matching rule gets a channel in ms.Events or a    *)
(* slot in ms.Stats.                                                        *)
OnlyAllowedSubscribe ==
  /\ \A i \in DOMAIN events : Allowed(events[i])
  /\ \A i \in DOMAIN stats : Allowed(stats[i])

(* The log and the board tell the same story: what a statistics client is   *)
(* owed for a consumer never exceeds that consumer's calls in the log, and  *)
(* counts at least those logged after it subscribed that are through        *)
(* addByConsumer.                                                           *)
LogAndBoardAgree ==
  \A s \in StatCalls, k \in Consumers :
    LET by == {n \in DOMAIN log : Consumer[log[n]] = k}
        through == {n \in by : /\ n > statJoined[s]
                               /\ stPc[log[n]] \notin {"new", "byConsumer"}}
    IN  S!Registered(s) =>
          /\ due[s][k] <= Cardinality(by)
          /\ due[s][k] >= Cardinality(through)

(* The mutex holder waits for room in the channel of a logger. *)
Stalled ==
  /\ eventsMutex # NoCall
  /\ next \in DOMAIN events
  /\ Len(chan[events[next]]) = EventsCap

(* Two things alone can hang a call in the interceptor: a log channel that  *)
(* is full because a logger's stream closed, and the lost race in the       *)
(* statistics.  In a run with neither, every call is served or denied: from *)
(* some time on none is in the interceptor, where a call is once.           *)
CallsProceed ==
  ([](~S!Wedged) /\ []\A s \in Loggers : open[s])
    => <>[]\A c \in Calls : callPc[c] # "auth"

(* What Stop leaves behind, in a run in which nothing hangs: only Logging   *)
(* and Statistics goroutines that wait on their own, empty channel.  All    *)
(* others come to an end.                                                   *)
OnlyReceiversStay ==
  ([]~Stalled /\ []~S!Wedged /\ <>(server = "stopped"))
    => <>[]\A c \in Calls :
         \/ callPc[c] \in {"out", "rejected", "denied", "done"}
         \/ c \in Loggers /\ evPc[c] = "receiving" /\ chan[c] = <<>>
         \/ c \in StatCalls /\ stPc[c] = "collecting" /\ slot[c] = <<>>

(* service_test.go:83 says of TestServerLeak that it checks that all        *)
(* goroutines are stopped and there are no leaks: once Stop is called, no   *)
(* RPC keeps its goroutine for good.                                        *)
NoLeak ==
  \A c \in Calls :
    server = "stopping" ~> callPc[c] \notin {"auth", "handler"}
=============================================================================
