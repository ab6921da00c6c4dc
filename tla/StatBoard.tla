----------------------------- MODULE StatBoard -----------------------------
(***************************************************************************)
(* The call statistics of the microservice (chapter2/hw3/service.go):      *)
(* addByConsumer and addByMethod, which every intercepted RPC runs one     *)
(* after the other, and the Statistics stream handler.                     *)
(*                                                                         *)
(* A Statistics RPC registers a channel of capacity 1 in ms.Stats, its     *)
(* slot.  Counting a call means, for each slot: look whether it is empty   *)
(* (len), start a new Stat or receive the old one, add one, put it back.   *)
(* The goroutine of the RPC empties the slot after each tick, and takes no *)
(* mutex to do so.                                                         *)
(*                                                                         *)
(* A Stat has a map per consumer and a map per method.  The two have no    *)
(* key in common, so that one function over both stands for the pair.      *)
(***************************************************************************)
EXTENDS Naturals, Sequences, FiniteSets, Functions

CONSTANTS
  Calls,      \* the RPCs, each with its goroutine
  StatCalls,  \* the calls of /main.Admin/Statistics
  Consumers,  \* values of the metadata key "consumer"
  Methods,    \* full method names
  Consumer,   \* who makes each call
  Method,     \* and which method it calls
  NoCall      \* "nobody": the mutex is free

ASSUME StatBoardAssumption ==
  /\ StatCalls \subseteq Calls
  /\ Consumers \cap Methods = {}
  /\ Consumer \in [Calls -> Consumers]
  /\ Method \in [Calls -> Methods]
  /\ NoCall \notin Calls

VARIABLES
  statsMutex,  \* holder of ms.StatsMutex
  stats,       \* ms.Stats: the registered slots, in order
  slot,        \* content of each slot, at most one Stat
  pos,         \* position of the mutex holder in its range over ms.Stats
  step,        \* what the mutex holder does next with the slot at pos
  currStats,   \* the Stat the mutex holder works on
  lastStat,    \* the Stat a Statistics goroutine took out of its slot
  stPc,        \* control of each goroutine in this component
  open,        \* is the Statistics stream still up, as the transport sees it
  due,         \* history: what was counted since each slot was registered
  sent         \* history: the sum of what Send handed to each client

stVars == <<statsMutex, stats, slot, pos, step, currStats, lastStat, stPc, due, sent>>
vars == <<stVars, open>>

Keys == Consumers \cup Methods
Stat == [Keys -> Nat]
StPc == {"new", "byConsumer", "between", "byMethod", "counted",
         "waiting", "collecting", "sending", "returned"}

Zero == [k \in Keys |-> 0]
Inc(stat, key) == [stat EXCEPT ![key] = @ + 1]
Plus(a, b) == [k \in Keys |-> a[k] + b[k]]

Registered(s) == stPc[s] \in {"waiting", "collecting", "sending", "returned"}

TypeOK ==
  /\ statsMutex \in Calls \cup {NoCall}
  /\ stats \in Seq(StatCalls)
  /\ slot \in [StatCalls -> Seq(Stat)]
  /\ \A s \in StatCalls : Len(slot[s]) <= 1
  /\ pos \in Nat
  /\ step \in {"peek", "take", "put"}
  /\ currStats \in Stat
  /\ lastStat \in [StatCalls -> Stat]
  /\ stPc \in [Calls -> StPc]
  /\ open \in [StatCalls -> BOOLEAN]
  /\ due \in [StatCalls -> Stat]
  /\ sent \in [StatCalls -> Stat]

Init ==
  /\ statsMutex = NoCall
  /\ stats = <<>>
  /\ slot = [s \in StatCalls |-> <<>>]
  /\ pos = 1
  /\ step = "peek"
  /\ currStats = Zero
  /\ lastStat = [s \in StatCalls |-> Zero]
  /\ stPc = [c \in Calls |-> "new"]
  /\ open = [s \in StatCalls |-> TRUE]
  /\ due = [s \in StatCalls |-> Zero]
  /\ sent = [s \in StatCalls |-> Zero]

-----------------------------------------------------------------------------
(* addByConsumer and addByMethod differ only in the counter they raise.     *)

Key(c) == IF stPc[c] = "byConsumer" THEN Consumer[c] ELSE Method[c]

(* Mutant: the counting functions do not lock. *)
NoLock(c, key) ==
  /\ statsMutex' = c
  /\ pos' = 1
  /\ step' = "peek"
  /\ due' = [s \in StatCalls |-> IF Registered(s) THEN Inc(due[s], key) ELSE due[s]]
  /\ UNCHANGED <<stats, slot, currStats, lastStat, sent, open>>

(* Taking the mutex; from here on the slots registered now owe one more. *)
Lock(c, key) ==
  /\ statsMutex = NoCall
  /\ statsMutex' = c
  /\ pos' = 1
  /\ step' = "peek"
  /\ due' = [s \in StatCalls |-> IF Registered(s) THEN Inc(due[s], key) ELSE due[s]]
  /\ UNCHANGED <<stats, slot, currStats, lastStat, sent, open>>

AddByConsumer(c) ==
  /\ stPc[c] = "new"
  /\ Lock(c, Consumer[c])
  /\ stPc' = [stPc EXCEPT ![c] = "byConsumer"]

AddByMethod(c) ==
  /\ stPc[c] = "between"
  /\ Lock(c, Method[c])
  /\ stPc' = [stPc EXCEPT ![c] = "byMethod"]

AtSlot(c, what) ==
  /\ statsMutex = c
  /\ pos \in DOMAIN stats
  /\ step = what

(* len(chanStats) == 0: nothing to add to, start a new Stat. *)
PeekEmpty(c) ==
  /\ AtSlot(c, "peek")
  /\ slot[stats[pos]] = <<>>
  /\ currStats' = Zero
  /\ step' = "put"
  /\ UNCHANGED <<statsMutex, stats, slot, pos, lastStat, stPc, due, sent, open>>

(* len(chanStats) # 0: decide to receive it. *)
PeekFull(c) ==
  /\ AtSlot(c, "peek")
  /\ slot[stats[pos]] # <<>>
  /\ step' = "take"
  /\ UNCHANGED <<statsMutex, stats, slot, pos, currStats, lastStat, stPc, due, sent, open>>

(* Mutant: the old Stat is copied, not received. *)
TakeCopy(c) ==
  /\ AtSlot(c, "take")
  /\ slot[stats[pos]] # <<>>
  /\ currStats' = slot[stats[pos]][1]
  /\ step' = "put"
  /\ UNCHANGED <<statsMutex, stats, slot, pos, lastStat, stPc, due, sent, open>>

(* currStats = <-chanStats: waits until there is one. *)
Take(c) ==
  /\ AtSlot(c, "take")
  /\ slot[stats[pos]] # <<>>
  /\ currStats' = slot[stats[pos]][1]
  /\ slot' = [slot EXCEPT ![stats[pos]] = <<>>]
  /\ step' = "put"
  /\ UNCHANGED <<statsMutex, stats, pos, lastStat, stPc, due, sent, open>>

(* currStats.By...[...]++ and chanStats <- currStats: waits for room. *)
Put(c) ==
  /\ AtSlot(c, "put")
  /\ slot[stats[pos]] = <<>>
  /\ slot' = [slot EXCEPT ![stats[pos]] = <<Inc(currStats, Key(c))>>]
  /\ pos' = pos + 1
  /\ step' = "peek"
  /\ UNCHANGED <<statsMutex, stats, currStats, lastStat, stPc, due, sent, open>>

(* Mutant: a return without Unlock. *)
UnlockForgotten(c) ==
  /\ statsMutex = c
  /\ pos \notin DOMAIN stats
  /\ stPc[c] \in {"byConsumer", "byMethod"}
  /\ stPc' = [stPc EXCEPT ![c] = IF @ = "byConsumer" THEN "between" ELSE "counted"]
  /\ UNCHANGED <<statsMutex, stats, slot, pos, step, currStats, lastStat, due, sent, open>>

Unlock(c) ==
  /\ statsMutex = c
  /\ pos \notin DOMAIN stats
  /\ statsMutex' = NoCall
  /\ stPc' = [stPc EXCEPT ![c] = IF @ = "byConsumer" THEN "between" ELSE "counted"]
  /\ UNCHANGED <<stats, slot, pos, step, currStats, lastStat, due, sent, open>>

-----------------------------------------------------------------------------
(* Statistics: the registration is a critical section in which nothing      *)
(* blocks, so it is one step that needs the mutex free.  The interval is    *)
(* positive (time.NewTicker panics otherwise); a tick may come at any time. *)

Register(s) ==
  /\ stPc[s] = "counted"
  /\ statsMutex = NoCall
  /\ stats' = Append(stats, s)
  /\ stPc' = [stPc EXCEPT ![s] = "waiting"]
  /\ UNCHANGED <<statsMutex, slot, pos, step, currStats, lastStat, due, sent, open>>

Tick(s) ==
  /\ stPc[s] = "waiting"
  /\ stPc' = [stPc EXCEPT ![s] = "collecting"]
  /\ UNCHANGED <<statsMutex, stats, slot, pos, step, currStats, lastStat, due, sent, open>>

(* Mutant: Statistics reads the slot and leaves the Stat in it. *)
CollectCopy(s) ==
  /\ stPc[s] = "collecting"
  /\ slot[s] # <<>>
  /\ lastStat' = [lastStat EXCEPT ![s] = slot[s][1]]
  /\ stPc' = [stPc EXCEPT ![s] = "sending"]
  /\ UNCHANGED <<statsMutex, stats, slot, pos, step, currStats, due, sent, open>>

(* lastStat := <-currSrvStats: waits for a call to be counted; no mutex.    *)
Collect(s) ==
  /\ stPc[s] = "collecting"
  /\ slot[s] # <<>>
  /\ lastStat' = [lastStat EXCEPT ![s] = slot[s][1]]
  /\ slot' = [slot EXCEPT ![s] = <<>>]
  /\ stPc' = [stPc EXCEPT ![s] = "sending"]
  /\ UNCHANGED <<statsMutex, stats, pos, step, currStats, due, sent, open>>

(* Mutant: the handler returns after its first Stat. *)
SendOnce(s) ==
  /\ stPc[s] = "sending"
  /\ open[s]
  /\ sent' = [sent EXCEPT ![s] = Plus(@, lastStat[s])]
  /\ stPc' = [stPc EXCEPT ![s] = "returned"]
  /\ UNCHANGED <<statsMutex, stats, slot, pos, step, currStats, lastStat, due, open>>

Send(s) ==
  /\ stPc[s] = "sending"
  /\ open[s]
  /\ sent' = [sent EXCEPT ![s] = Plus(@, lastStat[s])]
  /\ stPc' = [stPc EXCEPT ![s] = "waiting"]
  /\ UNCHANGED <<statsMutex, stats, slot, pos, step, currStats, lastStat, due, open>>

(* srv.Send on a closed stream: the handler returns; its slot stays.        *)
Return(s) ==
  /\ stPc[s] = "sending"
  /\ ~open[s]
  /\ stPc' = [stPc EXCEPT ![s] = "returned"]
  /\ UNCHANGED <<statsMutex, stats, slot, pos, step, currStats, lastStat, due, sent, open>>

(* The client cancels or its connection drops; no goroutine is told.        *)
StreamClose(s) ==
  /\ open[s]
  /\ open' = [open EXCEPT ![s] = FALSE]
  /\ UNCHANGED stVars

Counting(c) == PeekEmpty(c) \/ PeekFull(c) \/ Take(c) \/ Put(c) \/ Unlock(c)

Statistics(s) == Register(s) \/ Tick(s) \/ Collect(s) \/ Send(s) \/ Return(s)

Next ==
  \/ \E c \in Calls : AddByConsumer(c) \/ AddByMethod(c) \/ Counting(c)
  \/ \E s \in StatCalls : Statistics(s) \/ StreamClose(s)

Spec == Init /\ [][Next]_vars

(* A goroutine that can run does run, ticks come, and a client with an open *)
(* stream reads.  That a call arrives, or that a stream ends, is never      *)
(* assumed.  Weak fairness is enough: a call takes the mutex at most three  *)
(* times.                                                                   *)
Fairness ==
  /\ \A c \in Calls : WF_vars(Counting(c)) /\ WF_vars(AddByMethod(c))
  /\ \A s \in StatCalls : WF_vars(Statistics(s))

FairSpec == Spec /\ Fairness

-----------------------------------------------------------------------------
(* StatsMutex is held exactly by the goroutine between Lock and Unlock of   *)
(* addByConsumer or addByMethod, and ms.Stats holds the slot of every       *)
(* Statistics call that ever registered, once.                              *)
MutexInv ==
  /\ \A c \in Calls : stPc[c] \in {"byConsumer", "byMethod"} <=> statsMutex = c
  /\ statsMutex # NoCall => pos \in 1 .. Len(stats) + 1
  /\ \A s \in StatCalls : Registered(s) <=> \E i \in DOMAIN stats : stats[i] = s
  /\ \A i, j \in DOMAIN stats : stats[i] = stats[j] => i = j

(* The mutex holder never waits to put a Stat back: it alone fills slots,   *)
(* and the one it is about to fill is empty.                                *)
PutNeverBlocks ==
  statsMutex # NoCall /\ pos \in DOMAIN stats /\ step = "put"
    => slot[stats[pos]] = <<>>

(* Where the counts of slot stats[i] are that its client has not been sent. *)
InSlot(s, k) == IF slot[s] = <<>> THEN 0 ELSE slot[s][1][k]
InHand(s, k) == IF stPc[s] \in {"sending", "returned"} THEN lastStat[s][k] ELSE 0
InWork(i, k) == IF statsMutex # NoCall /\ pos = i /\ step = "put"
                  THEN currStats[k] ELSE 0
ToCome(i, k) == IF statsMutex # NoCall /\ i >= pos /\ k = Key(statsMutex)
                  THEN 1 ELSE 0

(* No count is lost or doubled, for any subscriber and any counter,         *)
(* whatever the interleaving of the receive of Statistics (no mutex) with   *)
(* the look, receive and send of the counting call: everything counted      *)
(* since the registration has been sent to the client or sits in exactly    *)
(* one place on the way.                                                    *)
Conservation ==
  \A i \in DOMAIN stats, k \in Keys :
    LET s == stats[i] IN
      due[s][k] = sent[s][k] + InHand(s, k) + InSlot(s, k)
                    + InWork(i, k) + ToCome(i, k)

(* The mutex holder has seen a Stat in the slot, and Statistics has taken   *)
(* it before the holder's receive: nobody else can fill the slot now.       *)
Wedged ==
  /\ statsMutex # NoCall
  /\ pos \in DOMAIN stats
  /\ step = "take"
  /\ slot[stats[pos]] = <<>>

(* A wedged board never recovers: not when the client goes, not when the    *)
(* next tick comes (the goroutine of the slot then waits for the holder of  *)
(* the mutex, which waits for it).                                          *)
WedgedForever == [][Wedged => Wedged']_vars

(* The lost race between len and the receive is the only way to hang: in a  *)
(* run without it every call that began to be counted gets through both     *)
(* functions, also when stat clients stop reading or leave.                 *)
CountingReturns ==
  ([]~Wedged) => \A c \in Calls : stPc[c] = "byConsumer" ~> stPc[c] = "counted"

(* In a run without that lost race a client that stays connected is sent    *)
(* every call counted since it registered, whatever the other clients do:   *)
(* unlike a log channel, the slot of a client that left blocks nobody.      *)
StatReachesClient ==
  ([]~Wedged) =>
    \A s \in StatCalls :
      ([]open[s]) =>
        \A k \in Keys, n \in 1 .. Cardinality(Calls) :
          (Registered(s) /\ due[s][k] >= n) ~> sent[s][k] >= n

(* hw7.md:19 promises that two or more statistics clients, with different   *)
(* intervals, are each sent the statistics asynchronously.  For a client    *)
(* that stays connected: every call counted since it registered is sent.    *)
EachClientIsSent ==
  \A s \in StatCalls :
    ([]open[s]) =>
      \A k \in Keys, n \in 1 .. Cardinality(Calls) :
        (Registered(s) /\ due[s][k] >= n) ~> sent[s][k] >= n
=============================================================================
