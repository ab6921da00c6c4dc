--------------------------- MODULE StatBoardProofs ---------------------------
(***************************************************************************)
(* Proofs about StatBoard, for any calls, consumers, methods and number of *)
(* Statistics clients: the mutex and the slots are used as intended, every *)
(* count is somewhere, and a lost race hangs the board for good.           *)
(***************************************************************************)
EXTENDS StatBoard, SequenceTheorems, TLAPS

(* Nothing is owed to, held for or sent to a client before it registers.    *)
FreshInv ==
  \A s \in StatCalls : ~Registered(s) =>
    slot[s] = <<>> /\ due[s] = Zero /\ sent[s] = Zero

CInv == TypeOK /\ MutexInv /\ PutNeverBlocks /\ FreshInv

IInv == CInv /\ Conservation

(* The list of slots.                                                       *)
LEMMA ListFacts ==
  ASSUME TypeOK
  PROVE  /\ Len(stats) \in Nat /\ DOMAIN stats = 1 .. Len(stats)
         /\ \A i \in DOMAIN stats : stats[i] \in StatCalls
BY ElementOfSeq, LenProperties DEF TypeOK

(* Stats are functions to Nat, and a raised one is again.                   *)
LEMMA StatFacts ==
  /\ Zero \in Stat
  /\ \A a \in Stat, k \in Keys : Inc(a, k) \in Stat
  /\ \A a, b \in Stat : Plus(a, b) \in Stat
  /\ \A c \in Calls : Consumer[c] \in Keys /\ Method[c] \in Keys /\ Key(c) \in Keys
  /\ \A a \in Stat : Len(<<a>>) = 1 /\ <<a>> \in Seq(Stat) /\ <<a>>[1] = a
BY StatBoardAssumption DEF Zero, Stat, Inc, Plus, Keys, Key

(* A slot is empty or holds one Stat.                                       *)
LEMMA SlotFacts ==
  ASSUME TypeOK, NEW s \in StatCalls
  PROVE  slot[s] = <<>> \/ (slot[s][1] \in Stat /\ slot[s] = <<slot[s][1]>>)
<1>1. slot[s] \in Seq(Stat) /\ Len(slot[s]) <= 1
  BY DEF TypeOK
<1>2. CASE slot[s] # <<>>
  <2>1. Len(slot[s]) = 1
    <3>1. \A q \in Seq(Stat) : q # <<>> => Len(q) \in Nat \ {0}
      BY EmptySeq
    <3>2. Len(slot[s]) \in Nat \ {0}
      BY <1>1, <1>2, <3>1
    <3>3. \A n \in Nat \ {0} : n <= 1 => n = 1
      OBVIOUS
    <3> QED
      BY <1>1, <3>2, <3>3
  <2>2. slot[s][1] \in Stat
    BY <1>1, <2>1, ElementOfSeq
  <2>3. /\ <<slot[s][1]>> \in Seq(Stat) /\ Len(<<slot[s][1]>>) = 1
        /\ <<slot[s][1]>>[1] = slot[s][1]
    BY <2>2, StatFacts
  <2>4. \A i \in 1 .. Len(slot[s]) : slot[s][i] = <<slot[s][1]>>[i]
    BY <2>1, <2>3
  <2>5. slot[s] = <<slot[s][1]>>
    BY ONLY <1>1, <2>1, <2>3, <2>4, SeqEqual
  <2> QED
    BY <2>2, <2>5
<1> QED
  BY <1>2

(* No slots, nothing counted.                                               *)
LEMMA InitIInv == Init => IInv
<1> SUFFICES ASSUME Init PROVE IInv
  OBVIOUS
<1> USE StatBoardAssumption DEF Init
<1>1. TypeOK
  BY StatFacts, EmptySeq DEF TypeOK, StPc
<1>2. MutexInv /\ PutNeverBlocks /\ FreshInv /\ Conservation
  BY DEF MutexInv, PutNeverBlocks, FreshInv, Conservation, Registered
<1> QED
  BY <1>1, <1>2 DEF IInv, CInv

(* Every step keeps the types.                                              *)
LEMMA TypeStep ==
  ASSUME TypeOK, Next
  PROVE  TypeOK'
<1> USE StatBoardAssumption DEF TypeOK, StPc
<1>1. ASSUME NEW c \in Calls, AddByConsumer(c) \/ AddByMethod(c) PROVE TypeOK'
  <2>1. \A k \in Keys : [s \in StatCalls |-> IF Registered(s) THEN Inc(due[s], k) ELSE due[s]]
                          \in [StatCalls -> Stat]
    BY StatFacts
  <2>2. PICK k \in Keys : Lock(c, k)
    BY <1>1, StatFacts DEF AddByConsumer, AddByMethod
  <2>3. due' \in [StatCalls -> Stat]
    BY <2>1, <2>2 DEF Lock
  <2>4. stPc' \in [Calls -> StPc]
    BY <1>1 DEF AddByConsumer, AddByMethod
  <2> QED
    BY <2>2, <2>3, <2>4 DEF Lock
<1>2. ASSUME NEW c \in Calls, PeekEmpty(c) \/ PeekFull(c) PROVE TypeOK'
  BY <1>2, StatFacts DEF PeekEmpty, PeekFull, AtSlot
<1>3. ASSUME NEW c \in Calls, Take(c) PROVE TypeOK'
  <2>1. stats[pos] \in StatCalls
    BY <1>3, ListFacts DEF Take, AtSlot
  <2>2. slot[stats[pos]][1] \in Stat
    BY <1>3, <2>1, SlotFacts DEF Take
  <2>3. slot' \in [StatCalls -> Seq(Stat)] /\ \A s \in StatCalls : Len(slot'[s]) <= 1
    BY <1>3, <2>1, EmptySeq DEF Take
  <2> QED
    BY <1>3, <2>2, <2>3 DEF Take
<1>4. ASSUME NEW c \in Calls, Put(c) PROVE TypeOK'
  <2>1. <<Inc(currStats, Key(c))>> \in Seq(Stat) /\ Len(<<Inc(currStats, Key(c))>>) = 1
    <3>1. Inc(currStats, Key(c)) \in Stat
      BY StatFacts
    <3> QED
      BY <3>1, StatFacts
  <2>2. slot' \in [StatCalls -> Seq(Stat)] /\ \A s \in StatCalls : Len(slot'[s]) <= 1
    <3> DEFINE v == <<Inc(currStats, Key(c))>>
    <3>1. slot' = [slot EXCEPT ![stats[pos]] = v]
      BY <1>4 DEF Put
    <3>2. v \in Seq(Stat) /\ Len(v) <= 1
      BY <2>1
    <3> HIDE DEF v
    <3> QED
      BY <3>1, <3>2
  <2> QED
    BY <1>4, <2>2 DEF Put
<1>5. ASSUME NEW c \in Calls, Unlock(c) PROVE TypeOK'
  BY <1>5 DEF Unlock
<1>6. ASSUME NEW s \in StatCalls, Register(s) PROVE TypeOK'
  BY <1>6, AppendProperties DEF Register
<1>7. ASSUME NEW s \in StatCalls, Tick(s) \/ Return(s) \/ StreamClose(s) PROVE TypeOK'
  BY <1>7 DEF Tick, Return, StreamClose, stVars
<1>8. ASSUME NEW s \in StatCalls, Collect(s) PROVE TypeOK'
  <2>1. slot[s][1] \in Stat
    BY <1>8, SlotFacts DEF Collect
  <2>2. slot' \in [StatCalls -> Seq(Stat)] /\ \A t \in StatCalls : Len(slot'[t]) <= 1
    BY <1>8, EmptySeq DEF Collect
  <2> QED
    BY <1>8, <2>1, <2>2 DEF Collect
<1>9. ASSUME NEW s \in StatCalls, Send(s) PROVE TypeOK'
  <2>1. Plus(sent[s], lastStat[s]) \in Stat
    BY StatFacts
  <2> QED
    BY <1>9, <2>1 DEF Send
<1> QED
  BY <1>1, <1>2, <1>3, <1>4, <1>5, <1>6, <1>7, <1>8, <1>9 DEF Next, Counting, Statistics

-----------------------------------------------------------------------------
(* The control part of the invariant.                                       *)

LEMMA LockControl ==
  ASSUME CInv, NEW c \in Calls, AddByConsumer(c) \/ AddByMethod(c)
  PROVE  CInv'
<1> USE StatBoardAssumption DEF CInv
<1>1. TypeOK'
  BY TypeStep DEF Next
<1>2. /\ statsMutex = NoCall /\ statsMutex' = c /\ pos' = 1 /\ step' = "peek"
      /\ UNCHANGED <<stats, slot, sent>>
      /\ \A s \in StatCalls : ~Registered(s) => due'[s] = due[s]
  BY DEF AddByConsumer, AddByMethod, Lock
<1>3. /\ stPc'[c] \in {"byConsumer", "byMethod"}
      /\ \A d \in Calls \ {c} : stPc'[d] = stPc[d]
      /\ stPc[c] \in {"new", "between"}
  BY DEF AddByConsumer, AddByMethod, TypeOK
<1>4. \A s \in StatCalls : Registered(s)' <=> Registered(s)
  BY <1>3 DEF Registered
<1>5. MutexInv'
  <2>1. \A d \in Calls : stPc'[d] \in {"byConsumer", "byMethod"} <=> statsMutex' = d
    BY <1>2, <1>3 DEF MutexInv
  <2>2. pos' \in 1 .. Len(stats') + 1
    BY <1>2, ListFacts
  <2>3. /\ \A s \in StatCalls : Registered(s)' <=> \E i \in DOMAIN stats' : stats'[i] = s
        /\ \A i, j \in DOMAIN stats' : stats'[i] = stats'[j] => i = j
    BY <1>2, <1>4 DEF MutexInv
  <2> QED
    BY <2>1, <2>2, <2>3 DEF MutexInv
<1>6. PutNeverBlocks'
  BY <1>2 DEF PutNeverBlocks
<1>7. FreshInv'
  BY <1>2, <1>4 DEF FreshInv
<1> QED
  BY <1>1, <1>5, <1>6, <1>7

(* The steps at one slot belong to the mutex holder.                        *)
LEMMA SlotControl ==
  ASSUME CInv, NEW c \in Calls, PeekEmpty(c) \/ PeekFull(c) \/ Take(c) \/ Put(c)
  PROVE  CInv'
<1> USE StatBoardAssumption DEF CInv
<1>1. TypeOK'
  BY TypeStep DEF Next, Counting
<1>2. /\ statsMutex = c /\ pos \in DOMAIN stats
      /\ UNCHANGED <<statsMutex, stats, stPc, due, sent>>
      /\ pos' \in {pos, pos + 1}
      /\ \A s \in StatCalls : s # stats[pos] => slot'[s] = slot[s]
  BY DEF PeekEmpty, PeekFull, Take, Put, AtSlot, TypeOK
<1>3. MutexInv'
  <2>1. pos' \in 1 .. Len(stats') + 1
    BY <1>2, ListFacts DEF MutexInv
  <2> QED
    BY <1>2, <2>1 DEF MutexInv, Registered
<1>4. stats[pos] \in StatCalls /\ Registered(stats[pos])
  BY <1>2, ListFacts DEF MutexInv
<1>5. FreshInv'
  BY <1>2, <1>4 DEF FreshInv, Registered
<1>6. PutNeverBlocks'
  <2>1. CASE PeekEmpty(c) \/ PeekFull(c)
    BY <2>1 DEF PeekEmpty, PeekFull, PutNeverBlocks
  <2>2. CASE Take(c)
    BY <2>2, <1>4 DEF Take, PutNeverBlocks, TypeOK
  <2>3. CASE Put(c)
    BY <2>3 DEF Put, PutNeverBlocks
  <2> QED
    BY <2>1, <2>2, <2>3
<1> QED
  BY <1>1, <1>3, <1>5, <1>6

(* Unlock frees the mutex.                                                  *)
LEMMA UnlockControl ==
  ASSUME CInv, NEW c \in Calls, Unlock(c)
  PROVE  CInv'
<1> USE StatBoardAssumption DEF CInv, Unlock
<1>1. TypeOK'
  BY TypeStep DEF Next, Counting
<1>2. \A s \in StatCalls : Registered(s)' <=> Registered(s)
  BY DEF Registered, MutexInv, TypeOK
<1>3. \A d \in Calls : stPc'[d] \notin {"byConsumer", "byMethod"}
  BY DEF MutexInv, TypeOK
<1>4. MutexInv'
  BY <1>2, <1>3 DEF MutexInv
<1>5. PutNeverBlocks' /\ FreshInv'
  BY <1>2 DEF PutNeverBlocks, FreshInv
<1> QED
  BY <1>1, <1>4, <1>5

(* A new slot is empty and last in the list.                                *)
LEMMA RegisterControl ==
  ASSUME CInv, NEW s \in StatCalls, Register(s)
  PROVE  CInv'
<1> USE StatBoardAssumption DEF CInv, Register
<1>1. TypeOK'
  BY TypeStep DEF Next, Statistics
<1>2. /\ DOMAIN stats' = 1 .. Len(stats) + 1 /\ DOMAIN stats = 1 .. Len(stats)
      /\ Len(stats) \in Nat
      /\ \A i \in DOMAIN stats : stats'[i] = stats[i]
      /\ stats'[Len(stats) + 1] = s
  BY AppendProperties, LenProperties DEF TypeOK
<1>3. ~Registered(s) /\ \A t \in StatCalls : Registered(t)' <=> Registered(t) \/ t = s
  BY DEF Registered, TypeOK
<1>4. MutexInv'
  <2>1. \A d \in Calls : stPc'[d] \notin {"byConsumer", "byMethod"}
    BY DEF MutexInv, TypeOK
  <2>2. \A t \in StatCalls :
          (\E i \in DOMAIN stats' : stats'[i] = t) <=> (\E i \in DOMAIN stats : stats[i] = t) \/ t = s
    BY <1>2
  <2>3. \A i \in DOMAIN stats : stats[i] # s
    BY <1>3 DEF MutexInv
  <2>4. \A i, j \in DOMAIN stats' : stats'[i] = stats'[j] => i = j
    BY <1>2, <2>3 DEF MutexInv
  <2>5. \A t \in StatCalls : Registered(t)' <=> \E i \in DOMAIN stats' : stats'[i] = t
    BY <1>3, <2>2 DEF MutexInv
  <2> QED
    BY <2>1, <2>4, <2>5 DEF MutexInv
<1>5. PutNeverBlocks' /\ FreshInv'
  BY <1>3 DEF PutNeverBlocks, FreshInv
<1> QED
  BY <1>1, <1>4, <1>5

(* The loop of Statistics touches neither mutex nor list.                   *)
LEMMA LoopControl ==
  ASSUME CInv, NEW s \in StatCalls,
         Tick(s) \/ Collect(s) \/ Send(s) \/ Return(s) \/ StreamClose(s)
  PROVE  CInv'
<1> USE StatBoardAssumption DEF CInv
<1>1. TypeOK'
  BY TypeStep DEF Next, Statistics
<1>2. /\ UNCHANGED <<statsMutex, stats, pos, step, due>>
      /\ \A t \in StatCalls : slot'[t] \in {slot[t], <<>>}
      /\ \A t \in StatCalls : ~Registered(t) => sent'[t] = sent[t]
  BY DEF Tick, Collect, Send, Return, StreamClose, stVars, Registered, TypeOK
<1>3. /\ \A d \in Calls : stPc'[d] \in {"byConsumer", "byMethod"}
                            <=> stPc[d] \in {"byConsumer", "byMethod"}
      /\ \A t \in StatCalls : Registered(t)' <=> Registered(t)
  BY DEF Tick, Collect, Send, Return, StreamClose, stVars, Registered, TypeOK
<1>4. MutexInv'
  BY <1>2, <1>3 DEF MutexInv
<1>5. PutNeverBlocks'
  BY <1>2, ListFacts DEF PutNeverBlocks
<1>6. FreshInv'
  BY <1>2, <1>3 DEF FreshInv
<1> QED
  BY <1>1, <1>4, <1>5, <1>6

-----------------------------------------------------------------------------
(* Conservation, action by action.                                          *)

(* Everything that is owed for counter k of slot stats[i], where it is.     *)
Whereabouts(i, k) ==
  sent[stats[i]][k] + InHand(stats[i], k) + InSlot(stats[i], k) + InWork(i, k) + ToCome(i, k)

(* What a slot is owed is a sum of numbers.                                 *)
LEMMA TermFacts ==
  ASSUME TypeOK, NEW i \in DOMAIN stats, NEW k \in Keys
  PROVE  /\ i \in Nat /\ stats[i] \in StatCalls
         /\ due[stats[i]][k] \in Nat /\ sent[stats[i]][k] \in Nat
         /\ InHand(stats[i], k) \in Nat /\ InSlot(stats[i], k) \in Nat
         /\ InWork(i, k) \in Nat /\ ToCome(i, k) \in Nat
<1>1. i \in Nat /\ stats[i] \in StatCalls
  BY ListFacts
<1>2. due[stats[i]] \in Stat /\ sent[stats[i]] \in Stat /\ lastStat[stats[i]] \in Stat
  BY <1>1 DEF TypeOK
<1>3. InSlot(stats[i], k) \in Nat
  BY <1>1, SlotFacts DEF InSlot, Stat
<1>4. InHand(stats[i], k) \in Nat
  BY <1>2 DEF InHand, Stat
<1>5. InWork(i, k) \in Nat /\ ToCome(i, k) \in Nat
  BY DEF InWork, ToCome, TypeOK, Stat
<1> QED
  BY <1>1, <1>2, <1>3, <1>4, <1>5 DEF Stat

(* Taking the mutex makes one count due and promises it to every slot.      *)
LEMMA LockConserves ==
  ASSUME CInv, Conservation, NEW c \in Calls, AddByConsumer(c) \/ AddByMethod(c)
  PROVE  Conservation'
<1> USE StatBoardAssumption DEF CInv
<1>1. PICK key \in Keys : Lock(c, key) /\ key = Key(c)'
  BY StatFacts DEF AddByConsumer, AddByMethod, Key, TypeOK
<1>2. \A s \in StatCalls : /\ stPc'[s] \in {"sending", "returned"}
                                <=> stPc[s] \in {"sending", "returned"}
  BY DEF AddByConsumer, AddByMethod, TypeOK
<1> SUFFICES ASSUME NEW i \in DOMAIN stats, NEW k \in Keys
             PROVE  due'[stats[i]][k] = Whereabouts(i, k)'
  BY <1>1 DEF Conservation, Whereabouts, Lock
<1> DEFINE s == stats[i]
<1>3. s \in StatCalls /\ i \in Nat /\ Registered(s) /\ i >= 1
  BY ListFacts DEF MutexInv
<1>4. due[s][k] = Whereabouts(i, k)
  BY DEF Conservation, Whereabouts
<1>5. /\ statsMutex = NoCall /\ statsMutex' = c /\ pos' = 1 /\ step' = "peek"
      /\ stats' = stats /\ slot' = slot /\ lastStat' = lastStat /\ sent' = sent
      /\ due'[s] = Inc(due[s], key)
  BY <1>1, <1>3 DEF Lock
<1>6. InWork(i, k) = 0 /\ InWork(i, k)' = 0 /\ ToCome(i, k) = 0
  BY <1>5 DEF InWork, ToCome
<1>7. ToCome(i, k)' = IF k = key THEN 1 ELSE 0
  BY <1>1, <1>3, <1>5 DEF ToCome
<1>8. InHand(s, k)' = InHand(s, k) /\ InSlot(s, k)' = InSlot(s, k)
  BY <1>2, <1>3, <1>5 DEF InHand, InSlot
<1>9. due'[s][k] = due[s][k] + (IF k = key THEN 1 ELSE 0)
  <2>1. due[s] \in Stat
    BY <1>3 DEF TypeOK
  <2> QED
    BY <1>1, <1>5, <2>1 DEF Inc, Stat
<1> QED
  BY <1>4, <1>5, <1>6, <1>7, <1>8, <1>9, TermFacts DEF Whereabouts

(* The look, the receive and the send move a Stat between the slot and the  *)
(* counting goroutine; with the send, the promised count becomes real.      *)
LEMMA SlotConserves ==
  ASSUME CInv, Conservation, NEW c \in Calls, PeekEmpty(c) \/ PeekFull(c) \/ Take(c) \/ Put(c)
  PROVE  Conservation'
<1> USE StatBoardAssumption DEF CInv
<1>1. /\ statsMutex = c /\ pos \in DOMAIN stats /\ c # NoCall
      /\ UNCHANGED <<statsMutex, stats, stPc, due, sent, lastStat>>
  BY DEF PeekEmpty, PeekFull, Take, Put, AtSlot
<1> SUFFICES ASSUME NEW i \in DOMAIN stats, NEW k \in Keys
             PROVE  due[stats[i]][k] = Whereabouts(i, k)'
  BY <1>1 DEF Conservation, Whereabouts
<1> DEFINE s == stats[i]
<1>2. s \in StatCalls /\ i \in Nat /\ pos \in Nat
  BY ListFacts DEF TypeOK
<1>3. due[s][k] = Whereabouts(i, k)
  BY DEF Conservation, Whereabouts
<1>4. InHand(s, k)' = InHand(s, k) /\ Key(c)' = Key(c)
  BY <1>1 DEF InHand, Key
<1>5. i # pos => s # stats[pos]
  BY <1>1 DEF MutexInv
<1>6. CASE PeekEmpty(c) \/ PeekFull(c)
  <2>1. slot' = slot /\ pos' = pos /\ step = "peek"
    BY <1>6 DEF PeekEmpty, PeekFull, AtSlot
  <2>2. InSlot(s, k)' = InSlot(s, k) /\ ToCome(i, k)' = ToCome(i, k)
    BY <1>1, <1>4, <2>1 DEF InSlot, ToCome
  <2>3. InWork(i, k) = 0 /\ InWork(i, k)' = 0
    BY <1>6, <2>1 DEF InWork, PeekEmpty, PeekFull, Zero
  <2> QED
    BY <1>1, <1>3, <1>4, <2>2, <2>3 DEF Whereabouts
<1>7. CASE Take(c)
  <2>1. /\ pos' = pos /\ step = "take" /\ step' = "put" /\ slot[stats[pos]] # <<>>
        /\ currStats' = slot[stats[pos]][1]
        /\ slot' = [slot EXCEPT ![stats[pos]] = <<>>]
    BY <1>7 DEF Take, AtSlot
  <2>2. ToCome(i, k)' = ToCome(i, k) /\ InWork(i, k) = 0
    BY <1>1, <1>4, <2>1 DEF ToCome, InWork
  <2>3. /\ InSlot(s, k)' + InWork(i, k)' = InSlot(s, k)
        /\ InSlot(s, k)' \in Nat /\ InWork(i, k)' \in Nat
    <3>1. CASE i = pos
      <4>1. InSlot(s, k)' = 0 /\ InWork(i, k)' = InSlot(s, k)
        BY <1>1, <1>2, <2>1, <3>1 DEF InSlot, InWork, TypeOK
      <4> QED
        BY <4>1, TermFacts
    <3>2. CASE i # pos
      <4>1. InSlot(s, k)' = InSlot(s, k) /\ InWork(i, k)' = 0
        BY <1>1, <1>2, <1>5, <2>1, <3>2 DEF InSlot, InWork, TypeOK
      <4> QED
        BY <4>1, TermFacts
    <3> QED
      BY <3>1, <3>2
  <2> QED
    BY <1>1, <1>3, <1>4, <2>2, <2>3, TermFacts DEF Whereabouts
<1>8. CASE Put(c)
  <2>1. /\ pos' = pos + 1 /\ step = "put" /\ step' = "peek" /\ slot[stats[pos]] = <<>>
        /\ slot' = [slot EXCEPT ![stats[pos]] = <<Inc(currStats, Key(c))>>]
    BY <1>8 DEF Put, AtSlot
  <2>2. InWork(i, k)' = 0
    BY <2>1 DEF InWork
  <2>3. CASE i = pos
    <3>1. ToCome(i, k)' = 0 /\ ToCome(i, k) = IF k = Key(c) THEN 1 ELSE 0
      BY <1>1, <1>2, <2>1, <2>3 DEF ToCome
    <3>2. InSlot(s, k) = 0 /\ InWork(i, k) = currStats[k]
      BY <1>1, <2>1, <2>3 DEF InSlot, InWork
    <3>3. InSlot(s, k)' = Inc(currStats, Key(c))[k]
      BY <1>1, <1>2, <2>1, <2>3 DEF InSlot, TypeOK
    <3>4. Inc(currStats, Key(c))[k] = currStats[k] + (IF k = Key(c) THEN 1 ELSE 0)
      BY DEF Inc, Stat, TypeOK
    <3> QED
      BY <1>1, <1>3, <1>4, <2>2, <3>1, <3>2, <3>3, <3>4, TermFacts DEF Whereabouts
  <2>4. CASE i # pos
    <3>1. ToCome(i, k)' = ToCome(i, k)
      BY <1>1, <1>2, <1>4, <2>1, <2>4 DEF ToCome
    <3>2. InSlot(s, k)' = InSlot(s, k) /\ InWork(i, k) = 0
      BY <1>1, <1>2, <1>5, <2>1, <2>4 DEF InSlot, InWork, TypeOK
    <3> QED
      BY <1>1, <1>3, <1>4, <2>2, <3>1, <3>2 DEF Whereabouts
  <2> QED
    BY <2>3, <2>4
<1> QED
  BY <1>6, <1>7, <1>8

(* Unlock owes nobody anything.                                             *)
LEMMA UnlockConserves ==
  ASSUME CInv, Conservation, NEW c \in Calls, Unlock(c)
  PROVE  Conservation'
<1> USE StatBoardAssumption DEF CInv
<1> SUFFICES ASSUME NEW i \in DOMAIN stats, NEW k \in Keys
             PROVE  due[stats[i]][k] = Whereabouts(i, k)'
  BY DEF Conservation, Whereabouts, Unlock
<1>1. due[stats[i]][k] = Whereabouts(i, k)
  BY DEF Conservation, Whereabouts
<1>2. /\ i \in Nat /\ pos \in Nat /\ i < pos /\ stats[i] \in StatCalls
      /\ statsMutex = c /\ statsMutex' = NoCall /\ c # NoCall
  BY ListFacts DEF MutexInv, TypeOK, Unlock
<1>3. /\ InWork(i, k) = 0 /\ ToCome(i, k) = 0
      /\ InWork(i, k)' = 0 /\ ToCome(i, k)' = 0
  BY <1>2 DEF InWork, ToCome
<1>4. stPc'[stats[i]] \in {"sending", "returned"} <=> stPc[stats[i]] \in {"sending", "returned"}
  BY <1>2 DEF Unlock, MutexInv, TypeOK
<1>5. InHand(stats[i], k)' = InHand(stats[i], k) /\ InSlot(stats[i], k)' = InSlot(stats[i], k)
  BY <1>4 DEF InHand, InSlot, Unlock
<1> QED
  BY <1>1, <1>3, <1>5 DEF Whereabouts, Unlock

(* A new slot starts with nothing owed.                                     *)
LEMMA RegisterConserves ==
  ASSUME CInv, Conservation, NEW s \in StatCalls, Register(s)
  PROVE  Conservation'
<1> USE StatBoardAssumption DEF CInv
<1>1. /\ DOMAIN stats' = 1 .. Len(stats) + 1 /\ DOMAIN stats = 1 .. Len(stats)
      /\ Len(stats) \in Nat
      /\ \A i \in DOMAIN stats : stats'[i] = stats[i] /\ stats[i] \in StatCalls
      /\ stats'[Len(stats) + 1] = s
  BY ListFacts, AppendProperties, LenProperties DEF Register, TypeOK
<1>2. statsMutex = NoCall /\ UNCHANGED <<statsMutex, slot, lastStat, due, sent>>
  BY DEF Register
<1> SUFFICES ASSUME NEW i \in DOMAIN stats', NEW k \in Keys
             PROVE  due[stats'[i]][k] = Whereabouts(i, k)'
  BY <1>2 DEF Conservation, Whereabouts
<1>3. InWork(i, k)' = 0 /\ ToCome(i, k)' = 0
  BY <1>2 DEF InWork, ToCome
<1>4. CASE i \in DOMAIN stats
  <2>1. due[stats[i]][k] = Whereabouts(i, k) /\ stats[i] # s
    BY <1>4 DEF Conservation, Whereabouts, MutexInv, Registered, Register
  <2>2. InWork(i, k) = 0 /\ ToCome(i, k) = 0
    BY <1>2 DEF InWork, ToCome
  <2>3. \A t \in StatCalls \ {s} : InHand(t, k)' = InHand(t, k) /\ InSlot(t, k)' = InSlot(t, k)
    BY <1>2 DEF InHand, InSlot, Register, TypeOK
  <2>4. stats'[i] = stats[i] /\ stats[i] \in StatCalls
    BY <1>1, <1>4
  <2>5. Whereabouts(i, k)' = sent[stats[i]][k] + InHand(stats[i], k) + InSlot(stats[i], k) + 0 + 0
    BY <1>2, <1>3, <2>1, <2>3, <2>4 DEF Whereabouts
  <2> QED
    BY <2>1, <2>2, <2>4, <2>5 DEF Whereabouts
<1>5. CASE i = Len(stats) + 1
  <2>1. slot[s] = <<>> /\ due[s] = Zero /\ sent[s] = Zero
    BY DEF FreshInv, Registered, Register
  <2>2. InHand(s, k)' = 0 /\ InSlot(s, k)' = 0
    BY <1>2, <2>1 DEF InHand, InSlot, Register, TypeOK
  <2>3. Whereabouts(i, k)' = Zero[k] + 0 + 0 + 0 + 0
    BY <1>1, <1>2, <1>3, <1>5, <2>1, <2>2 DEF Whereabouts
  <2> QED
    BY <1>1, <1>5, <2>1, <2>3 DEF Zero
<1> QED
  BY <1>1, <1>4, <1>5

(* The loop of Statistics moves a Stat from the slot over the goroutine's   *)
(* hand to the client.                                                      *)
LEMMA LoopConserves ==
  ASSUME CInv, Conservation, NEW s \in StatCalls,
         Tick(s) \/ Collect(s) \/ Send(s) \/ Return(s) \/ StreamClose(s)
  PROVE  Conservation'
<1> USE StatBoardAssumption DEF CInv
<1>1. UNCHANGED <<statsMutex, stats, pos, step, currStats, due>>
  BY DEF Tick, Collect, Send, Return, StreamClose, stVars
<1> SUFFICES ASSUME NEW i \in DOMAIN stats, NEW k \in Keys
             PROVE  due[stats[i]][k] = Whereabouts(i, k)'
  BY <1>1 DEF Conservation, Whereabouts
<1> DEFINE t == stats[i]
<1>2. t \in StatCalls /\ due[t][k] = Whereabouts(i, k)
  BY ListFacts DEF Conservation, Whereabouts
<1>3. InWork(i, k)' = InWork(i, k) /\ ToCome(i, k)' = ToCome(i, k)
  <2>1. statsMutex # NoCall => Key(statsMutex)' = Key(statsMutex)
    BY <1>1 DEF Key, MutexInv, Tick, Collect, Send, Return, StreamClose, stVars, TypeOK
  <2> QED
    BY <1>1, <2>1 DEF InWork, ToCome
<1>4. sent'[t][k] + InHand(t, k)' + InSlot(t, k)' = sent[t][k] + InHand(t, k) + InSlot(t, k)
  <2>1. CASE t # s
    BY <1>1, <1>2, <2>1
    DEF Tick, Collect, Send, Return, StreamClose, stVars, InHand, InSlot, TypeOK
  <2>2. CASE t = s /\ Collect(s)
    <3>1. InHand(t, k) = 0 /\ InSlot(t, k)' = 0 /\ InHand(t, k)' = InSlot(t, k) /\ sent' = sent
      BY <1>1, <1>2, <2>2 DEF Collect, InHand, InSlot, TypeOK
    <3> QED
      BY <3>1, TermFacts
  <2>3. CASE t = s /\ Send(s)
    <3>1. InHand(t, k) = lastStat[t][k] /\ InHand(t, k)' = 0 /\ InSlot(t, k)' = InSlot(t, k)
      BY <1>1, <1>2, <2>3 DEF Send, InHand, InSlot, TypeOK
    <3>2. sent'[t][k] = sent[t][k] + lastStat[t][k]
      BY <1>1, <1>2, <2>3 DEF Send, Plus, TypeOK
    <3> QED
      BY <3>1, <3>2, TermFacts
  <2>4. CASE t = s /\ (Tick(s) \/ Return(s) \/ StreamClose(s))
    BY <1>1, <1>2, <2>4 DEF Tick, Return, StreamClose, stVars, InHand, InSlot, TypeOK
  <2> QED
    BY <2>1, <2>2, <2>3, <2>4
<1> QED
  BY <1>1, <1>2, <1>3, <1>4 DEF Whereabouts

-----------------------------------------------------------------------------
(* The theorems.                                                            *)

LEMMA NextIInv ==
  ASSUME IInv, [Next]_vars
  PROVE  IInv'
<1>0. CInv /\ Conservation
  BY DEF IInv
<1>1. SUFFICES CInv' /\ Conservation'
  BY DEF IInv
<1>2. ASSUME NEW c \in Calls, AddByConsumer(c) \/ AddByMethod(c) \/ Counting(c)
      PROVE  CInv' /\ Conservation'
  BY <1>0, <1>2, LockControl, SlotControl, UnlockControl,
     LockConserves, SlotConserves, UnlockConserves DEF Counting
<1>3. ASSUME NEW s \in StatCalls, Statistics(s) \/ StreamClose(s)
      PROVE  CInv' /\ Conservation'
  BY <1>0, <1>3, RegisterControl, LoopControl, RegisterConserves, LoopConserves DEF Statistics
<1>4. CASE UNCHANGED vars
  <2> USE <1>0, <1>4 DEF vars, stVars
  <2>1. TypeOK'
    BY DEF CInv, TypeOK
  <2>2. MutexInv' /\ PutNeverBlocks' /\ FreshInv'
    BY DEF CInv, MutexInv, PutNeverBlocks, FreshInv, Registered
  <2>3. Conservation'
    BY DEF Conservation, InHand, InSlot, InWork, ToCome, Key
  <2> QED
    BY <2>1, <2>2, <2>3 DEF CInv
<1> QED
  BY <1>2, <1>3, <1>4 DEF Next

(* Every reachable state satisfies the inductive invariant.                 *)
THEOREM Invariance == Spec => []IInv
BY InitIInv, NextIInv, PTL DEF Spec

(* The variables keep their types; no slot ever holds more than one Stat.   *)
THEOREM TypeCorrect == Spec => []TypeOK
<1>1. IInv => TypeOK
  BY DEF IInv, CInv
<1> QED
  BY <1>1, Invariance, PTL

(* StatsMutex is held exactly between Lock and Unlock of addByConsumer and  *)
(* addByMethod, and ms.Stats lists each registered slot once, for any       *)
(* number of calls and clients.                                             *)
THEOREM MutexCorrect == Spec => []MutexInv
<1>1. IInv => MutexInv
  BY DEF IInv, CInv
<1> QED
  BY <1>1, Invariance, PTL

(* The send of a counting function into a slot never waits: capacity 1 is   *)
(* enough for any number of calls and clients.                              *)
THEOREM PutCorrect == Spec => []PutNeverBlocks
<1>1. IInv => PutNeverBlocks
  BY DEF IInv, CInv
<1> QED
  BY <1>1, Invariance, PTL

(* No count is lost or doubled between the counting functions and the       *)
(* clients, for any number of calls, clients, consumers and methods.        *)
THEOREM CountsConserved == Spec => []Conservation
<1>1. IInv => Conservation
  BY DEF IInv
<1> QED
  BY <1>1, Invariance, PTL

(* Once Statistics has taken the Stat that a counting goroutine had seen,   *)
(* the board is stuck in every continuation.                                *)
THEOREM WedgeIsFinal == Spec => WedgedForever
<1>1. ASSUME IInv, [Next]_vars PROVE [Wedged => Wedged']_vars
  <2> SUFFICES ASSUME Next, Wedged PROVE Wedged'
    BY <1>1
  <2> USE StatBoardAssumption DEF Wedged
  <2>0. TypeOK /\ MutexInv
    BY <1>1 DEF IInv, CInv
  <2>1. ASSUME NEW c \in Calls, AddByConsumer(c) \/ AddByMethod(c) PROVE FALSE
    BY <2>1 DEF AddByConsumer, AddByMethod, Lock
  <2>2. ASSUME NEW c \in Calls, Counting(c) PROVE FALSE
    BY <2>2 DEF Counting, PeekEmpty, PeekFull, Take, Put, Unlock, AtSlot
  <2>3. ASSUME NEW s \in StatCalls, Statistics(s) \/ StreamClose(s) PROVE Wedged'
    <3>1. UNCHANGED <<statsMutex, stats, pos, step>>
      BY <2>3 DEF Statistics, Register, Tick, Collect, Send, Return, StreamClose, stVars
    <3>2. slot'[stats[pos]] = <<>>
      BY <2>0, <2>3, ListFacts
      DEF Statistics, Register, Tick, Collect, Send, Return, StreamClose, stVars, TypeOK
    <3> QED
      BY <3>1, <3>2
  <2> QED
    BY <2>1, <2>2, <2>3 DEF Next
<1> QED
  BY <1>1, Invariance, PTL DEF Spec, WedgedForever

-----------------------------------------------------------------------------
(* What can block.  ENABLED is beyond the prover: the guards of the actions *)
(* of a counting call are spelt out.                                        *)
CountingCan(c) ==
  /\ statsMutex = c
  /\ pos \in DOMAIN stats =>
       \/ step = "peek"
       \/ step = "take" /\ slot[stats[pos]] # <<>>
       \/ step = "put" /\ slot[stats[pos]] = <<>>

OnlyTheRaceBlocks == statsMutex # NoCall => CountingCan(statsMutex) \/ Wedged

(* A call that counts can go on whatever the statistics clients do, but for *)
(* the lost race between the look at a slot and the receive from it         *)
(* (service.go:57, 63).                                                     *)
THEOREM CountingMoves == Spec => []OnlyTheRaceBlocks
<1>1. IInv => OnlyTheRaceBlocks
  <2> SUFFICES ASSUME IInv, statsMutex # NoCall PROVE CountingCan(statsMutex) \/ Wedged
    BY Zenon DEF OnlyTheRaceBlocks
  <2>1. step \in {"peek", "take", "put"} /\ PutNeverBlocks
    BY DEF IInv, CInv, TypeOK
  <2> QED
    BY <2>1 DEF CountingCan, Wedged, PutNeverBlocks
<1> QED
  BY <1>1, Invariance, PTL
=============================================================================
