------------------------------ MODULE EventLog ------------------------------
(***************************************************************************)
(* The call log of the microservice (chapter2/hw3/service.go): addEvent,   *)
(* which every intercepted RPC runs once, and the Logging stream handler.  *)
(*                                                                         *)
(* Each RPC is served by a goroutine of its own and is identified with the *)
(* event it records: Host, Consumer and Method are functions of the call.  *)
(* A Logging RPC first records its own event like any other call, then     *)
(* registers a buffered channel in ms.Events and forwards what arrives     *)
(* there to its client.  The channel is named after the call that made it. *)
(***************************************************************************)
EXTENDS Naturals, Sequences, FiniteSets

CONSTANTS
  Calls,       \* the RPCs, each with its goroutine
  Loggers,     \* the calls of /main.Admin/Logging
  EventsCap,   \* capacity of a Logging channel (1000 in the code)
  NoCall       \* "nobody": the mutex is free, nothing is in hand

ASSUME EventLogAssumption ==
  /\ Loggers \subseteq Calls
  /\ EventsCap \in Nat \ {0}
  /\ NoCall \notin Calls

VARIABLES
  eventsMutex,  \* holder of ms.EventsMutex
  events,       \* ms.Events: the registered channels, in order
  chan,         \* content of each Logging channel
  lastEvent,    \* the event a Logging goroutine took off its channel
  next,         \* position of the mutex holder in its range over ms.Events
  evPc,         \* control of each goroutine in this component
  open,         \* is the Logging stream still up, as the transport sees it
  log,          \* history: calls in the order they entered addEvent
  joined,       \* history: Len(log) when a logger registered
  delivered     \* history: what Send handed to each logger's client

evVars == <<eventsMutex, events, chan, lastEvent, next, evPc,
            log, joined, delivered>>
vars == <<evVars, open>>

EvPc == {"new", "adding", "added", "receiving", "sending", "returned"}

TypeOK ==
  /\ eventsMutex \in Calls \cup {NoCall}
  /\ events \in Seq(Loggers)
  /\ chan \in [Loggers -> Seq(Calls)]
  /\ lastEvent \in [Loggers -> Calls \cup {NoCall}]
  /\ \A s \in Loggers : evPc[s] \in {"sending", "returned"} => lastEvent[s] \in Calls
  /\ next \in Nat
  /\ evPc \in [Calls -> EvPc]
  /\ open \in [Loggers -> BOOLEAN]
  /\ log \in Seq(Calls)
  /\ joined \in [Loggers -> Nat]
  /\ delivered \in [Loggers -> Seq(Calls)]

Init ==
  /\ eventsMutex = NoCall
  /\ events = <<>>
  /\ chan = [s \in Loggers |-> <<>>]
  /\ lastEvent = [s \in Loggers |-> NoCall]
  /\ next = 1
  /\ evPc = [c \in Calls |-> "new"]
  /\ open = [s \in Loggers |-> TRUE]
  /\ log = <<>>
  /\ joined = [s \in Loggers |-> 0]
  /\ delivered = [s \in Loggers |-> <<>>]

-----------------------------------------------------------------------------
(* addEvent: Lock, one channel send per registered logger, Unlock.  A send  *)
(* on a full channel blocks with the mutex held.                            *)

AddEventLock(c) ==
  /\ evPc[c] = "new"
  /\ eventsMutex = NoCall
  /\ eventsMutex' = c
  /\ next' = 1
  /\ evPc' = [evPc EXCEPT ![c] = "adding"]
  /\ log' = Append(log, c)
  /\ UNCHANGED <<events, chan, lastEvent, joined, delivered, open>>

(* Mutant: select with a default: an event for a full channel is dropped. *)
AddEventSendOrDrop(c) ==
  /\ evPc[c] = "adding"
  /\ next \in DOMAIN events
  /\ chan' = IF Len(chan[events[next]]) < EventsCap
               THEN [chan EXCEPT ![events[next]] = Append(@, c)]
               ELSE chan
  /\ next' = next + 1
  /\ UNCHANGED <<eventsMutex, events, lastEvent, evPc, log, joined, delivered, open>>

AddEventSend(c) ==
  /\ evPc[c] = "adding"
  /\ next \in DOMAIN events
  /\ Len(chan[events[next]]) < EventsCap
  /\ chan' = [chan EXCEPT ![events[next]] = Append(@, c)]
  /\ next' = next + 1
  /\ UNCHANGED <<eventsMutex, events, lastEvent, evPc, log, joined, delivered, open>>

AddEventUnlock(c) ==
  /\ evPc[c] = "adding"
  /\ next \notin DOMAIN events
  /\ eventsMutex' = NoCall
  /\ evPc' = [evPc EXCEPT ![c] = "added"]
  /\ UNCHANGED <<events, chan, lastEvent, next, log, joined, delivered, open>>

(* Mutant: the registration does not lock. *)
LoggingRegisterNoLock(s) ==
  /\ evPc[s] = "added"
  /\ events' = Append(events, s)
  /\ evPc' = [evPc EXCEPT ![s] = "receiving"]
  /\ joined' = [joined EXCEPT ![s] = Len(log)]
  /\ UNCHANGED <<eventsMutex, chan, lastEvent, next, log, delivered, open>>

(* Logging: the registration is a critical section in which nothing blocks, *)
(* so it is one step that needs the mutex free.                             *)
LoggingRegister(s) ==
  /\ evPc[s] = "added"
  /\ eventsMutex = NoCall
  /\ events' = Append(events, s)
  /\ evPc' = [evPc EXCEPT ![s] = "receiving"]
  /\ joined' = [joined EXCEPT ![s] = Len(log)]
  /\ UNCHANGED <<eventsMutex, chan, lastEvent, next, log, delivered, open>>

(* Mutant: the handler receives with the mutex held. *)
LoggingRecvLocked(s) ==
  /\ evPc[s] = "receiving"
  /\ eventsMutex = NoCall
  /\ chan[s] # <<>>
  /\ lastEvent' = [lastEvent EXCEPT ![s] = Head(chan[s])]
  /\ chan' = [chan EXCEPT ![s] = Tail(@)]
  /\ evPc' = [evPc EXCEPT ![s] = "sending"]
  /\ UNCHANGED <<eventsMutex, events, next, log, joined, delivered, open>>

LoggingRecv(s) ==
  /\ evPc[s] = "receiving"
  /\ chan[s] # <<>>
  /\ lastEvent' = [lastEvent EXCEPT ![s] = Head(chan[s])]
  /\ chan' = [chan EXCEPT ![s] = Tail(@)]
  /\ evPc' = [evPc EXCEPT ![s] = "sending"]
  /\ UNCHANGED <<eventsMutex, events, next, log, joined, delivered, open>>

(* Mutant: the handler returns after its first event. *)
LoggingSendOnce(s) ==
  /\ evPc[s] = "sending"
  /\ open[s]
  /\ delivered' = [delivered EXCEPT ![s] = Append(@, lastEvent[s])]
  /\ evPc' = [evPc EXCEPT ![s] = "returned"]
  /\ UNCHANGED <<eventsMutex, events, chan, lastEvent, next, log, joined, open>>

(* srv.Send: it succeeds while the stream is up (and waits, for as long as   *)
(* the client does not read).                                               *)
LoggingSend(s) ==
  /\ evPc[s] = "sending"
  /\ open[s]
  /\ delivered' = [delivered EXCEPT ![s] = Append(@, lastEvent[s])]
  /\ evPc' = [evPc EXCEPT ![s] = "receiving"]
  /\ UNCHANGED <<eventsMutex, events, chan, lastEvent, next, log, joined, open>>

(* srv.Send on a closed stream: the handler returns the error.  Its channel *)
(* stays in ms.Events.                                                      *)
LoggingReturn(s) ==
  /\ evPc[s] = "sending"
  /\ ~open[s]
  /\ evPc' = [evPc EXCEPT ![s] = "returned"]
  /\ UNCHANGED <<eventsMutex, events, chan, lastEvent, next, log, joined, delivered, open>>

(* The client cancels or its connection drops; no goroutine is told.        *)
StreamClose(s) ==
  /\ open[s]
  /\ open' = [open EXCEPT ![s] = FALSE]
  /\ UNCHANGED evVars

AddEvent(c) == AddEventLock(c) \/ AddEventSend(c) \/ AddEventUnlock(c)

Logging(s) ==
  LoggingRegister(s) \/ LoggingRecv(s) \/ LoggingSend(s) \/ LoggingReturn(s)

Next ==
  \/ \E c \in Calls : AddEvent(c)
  \/ \E s \in Loggers : Logging(s) \/ StreamClose(s)

Spec == Init /\ [][Next]_vars

(* A goroutine that can run does run, and a client with an open stream      *)
(* reads.  That a call arrives, or that a stream ends, is never assumed.    *)
(* Weak fairness is enough: a call takes the mutex at most twice.           *)
Fairness ==
  /\ \A c \in Calls : WF_vars(AddEventSend(c)) /\ WF_vars(AddEventUnlock(c))
  /\ \A s \in Loggers : WF_vars(Logging(s))

FairSpec == Spec /\ Fairness

-----------------------------------------------------------------------------
Registered(s) == evPc[s] \in {"receiving", "sending", "returned"}

(* Number of calls whose event has been sent on the i-th channel: the mutex *)
(* holder is the last of the log and has served the channels below next.    *)
Published(i) ==
  IF eventsMutex # NoCall /\ i >= next THEN Len(log) - 1 ELSE Len(log)

(* What logger s has taken off its channel without handing it to its client. *)
InHand(s) == IF evPc[s] \in {"sending", "returned"} THEN <<lastEvent[s]>> ELSE <<>>

(* EventsMutex is held exactly by the one goroutine between Lock and Unlock *)
(* of addEvent, and that goroutine is the last one that entered the log:    *)
(* nobody overtakes a call that is being recorded, even a blocked one.      *)
MutexInv ==
  /\ \A c \in Calls : evPc[c] = "adding" <=> eventsMutex = c
  /\ eventsMutex # NoCall =>
       /\ log # <<>>
       /\ log[Len(log)] = eventsMutex
       /\ next \in 1 .. Len(events) + 1

(* ms.Events holds the channel of every logger that ever registered, once:  *)
(* addEvent serves each of them once per call, the returned ones included.  *)
RegistryInv ==
  /\ \A s \in Loggers : Registered(s) <=> \E i \in DOMAIN events : events[i] = s
  /\ \A i, j \in DOMAIN events : events[i] = events[j] => i = j

(* Every logger gets every call recorded after it registered, in the order  *)
(* in which the calls entered addEvent, none lost, repeated or swapped:     *)
(* what its client got, the event in its goroutine's hand and the content   *)
(* of its channel are together exactly the published part of the log.       *)
StreamExact ==
  \A i \in DOMAIN events :
    LET s == events[i] IN
      delivered[s] \o InHand(s) \o chan[s]
        = SubSeq(log, joined[s] + 1, Published(i))

(* addEvent does not return before the event is in the hands of every       *)
(* logger registered at that moment: when a call's record is complete, its  *)
(* event is in the channel, in the goroutine or with the client of each     *)
(* logger that joined before it.                                            *)
RecordedForAll ==
  \A c \in Calls, s \in Loggers, n \in DOMAIN log :
    /\ log[n] = c
    /\ evPc[c] \notin {"new", "adding"}
    /\ Registered(s)
    /\ n > joined[s]
    => Len(delivered[s] \o InHand(s) \o chan[s]) >= n - joined[s]

(* If no logger's stream ever closes, addEvent always returns, however      *)
(* small the channels are: the loggers drain what the mutex holder waits    *)
(* for.                                                                     *)
AddEventReturns ==
  ([]\A s \in Loggers : open[s])
    => \A c \in Calls : evPc[c] = "adding" ~> evPc[c] = "added"

(* If no logger's stream ever closes, every call recorded after a logger    *)
(* registered reaches that logger's client.                                 *)
LogReachesClient ==
  ([]\A s \in Loggers : open[s])
    => \A s \in Loggers, n \in 1 .. Cardinality(Calls) :
         (Registered(s) /\ Len(log) >= joined[s] + n)
           ~> Len(delivered[s]) >= n

(* hw7.md:19 promises that two logging clients both get the stream of logs. *)
(* For one client that stays connected, this is: every call recorded after  *)
(* it registered reaches it, whatever the other logging clients do.         *)
BothGetTheLog ==
  \A s \in Loggers :
    ([]open[s]) =>
      \A n \in 1 .. Cardinality(Calls) :
        (Registered(s) /\ Len(log) >= joined[s] + n) ~> Len(delivered[s]) >= n

(* The log keeps the promise of Broadcast: publishing is taking the mutex   *)
(* in addEvent, subscribing is registering the channel, and everything in   *)
(* between (the sends one by one, the buffers, the goroutine) is hidden.    *)
Log == INSTANCE Broadcast WITH
         Messages <- Calls,
         Subscribers <- Loggers,
         subscribed <- {s \in Loggers : Registered(s)}

KeepsBroadcast == Log!Spec
=============================================================================
