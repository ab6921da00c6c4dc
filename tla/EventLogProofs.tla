--------------------------- MODULE EventLogProofs ---------------------------
(***************************************************************************)
(* Proofs about EventLog, for every set of calls, every capacity of the    *)
(* channels and every length of the log: its invariants, and that it       *)
(* implements Broadcast.                                                   *)
(***************************************************************************)
EXTENDS EventLog, SequenceTheorems, TLAPS

-----------------------------------------------------------------------------
(* Lemmas about sequences.                                                  *)

(* A segment of a sequence does not see what is appended to the sequence.   *)
LEMMA SegmentStable ==
  ASSUME NEW T, NEW q \in Seq(T), NEW x \in T,
         NEW j \in Nat, NEW n \in Nat, n <= Len(q)
  PROVE  SubSeq(Append(q, x), j + 1, n) = SubSeq(q, j + 1, n)
<1>1. Append(q, x) \in Seq(T) /\ Len(Append(q, x)) = Len(q) + 1
  BY AppendProperties
<1>2. \A i \in 1 .. Len(q) : Append(q, x)[i] = q[i]
  BY AppendProperties
<1> QED
  BY <1>1, <1>2

(* A segment that reaches the end grows by what is appended.                *)
LEMMA SegmentGrows ==
  ASSUME NEW T, NEW q \in Seq(T), NEW x \in T, NEW j \in 0 .. Len(q)
  PROVE  SubSeq(Append(q, x), j + 1, Len(q) + 1) = Append(SubSeq(q, j + 1, Len(q)), x)
<1> DEFINE a == SubSeq(Append(q, x), j + 1, Len(q) + 1)
           b == Append(SubSeq(q, j + 1, Len(q)), x)
<1>1. a \in Seq(T) /\ Len(a) = Len(q) + 1 - j
  BY AppendProperties, SubSeqProperties
<1>2. b \in Seq(T) /\ Len(b) = Len(q) + 1 - j
  BY AppendProperties, SubSeqProperties
<1>3. \A i \in 1 .. Len(a) : a[i] = b[i]
  BY AppendProperties, SubSeqProperties
<1> QED
  BY <1>1, <1>2, <1>3, SeqEqual

(* Appending to the last part appends to the whole.                         *)
LEMMA AppendLast ==
  ASSUME NEW T, NEW p \in Seq(T), NEW q \in Seq(T), NEW x \in T
  PROVE  p \o Append(q, x) = Append(p \o q, x)
BY AppendIsConcat, ConcatAssociative, ConcatProperties

(* Moving the head of the last part to the end of the first.                *)
LEMMA MoveHead ==
  ASSUME NEW T, NEW p \in Seq(T), NEW q \in Seq(T), q # <<>>
  PROVE  (p \o <<Head(q)>>) \o Tail(q) = (p \o <<>>) \o q
<1>1. Head(q) \in T /\ Tail(q) \in Seq(T)
  BY HeadTailProperties
<1>2. <<Head(q)>> \o Tail(q) = q
  BY HeadTailProperties, ConcatProperties, SeqEqual, <1>1
<1> QED
  BY <1>1, <1>2, ConcatAssociative, ConcatEmptySeq

-----------------------------------------------------------------------------
(* The inductive invariant.                                                 *)

(* The log holds exactly the calls that entered addEvent, each of them once. *)
LogInv ==
  /\ \A c \in Calls : evPc[c] = "new" <=> \A n \in DOMAIN log : log[n] # c
  /\ \A m, n \in DOMAIN log : log[m] = log[n] => m = n

(* A channel is registered with all of the log before it published.         *)
JoinedInv == \A i \in DOMAIN events : joined[events[i]] <= Published(i)

(* Nothing reaches a logger before it registers.                            *)
FreshInv ==
  \A s \in Loggers : ~Registered(s) => delivered[s] = <<>> /\ chan[s] = <<>>

IInv == TypeOK /\ MutexInv /\ RegistryInv /\ LogInv /\ JoinedInv /\ FreshInv /\ StreamExact

(* The initial states satisfy it.                                           *)
LEMMA InitIInv == Init => IInv
<1> SUFFICES ASSUME Init PROVE IInv
  OBVIOUS
<1> USE EventLogAssumption DEF Init
<1>1. TypeOK
  BY DEF TypeOK, EvPc
<1>2. MutexInv /\ RegistryInv
  BY DEF MutexInv, RegistryInv, Registered
<1>3. LogInv /\ JoinedInv /\ FreshInv /\ StreamExact
  BY DEF LogInv, JoinedInv, FreshInv, StreamExact, Registered
<1> QED
  BY <1>1, <1>2, <1>3 DEF IInv

(* Type correctness is preserved by every step.                             *)
LEMMA TypeStep ==
  ASSUME TypeOK, Next
  PROVE  TypeOK'
<1> USE EventLogAssumption DEF TypeOK, EvPc
<1>1. ASSUME NEW c \in Calls, AddEventLock(c) PROVE TypeOK'
  BY <1>1, AppendProperties DEF AddEventLock
<1>2. ASSUME NEW c \in Calls, AddEventSend(c) PROVE TypeOK'
  <2>1. events[next] \in Loggers
    BY <1>2, ElementOfSeq, LenProperties DEF AddEventSend
  <2>2. Append(chan[events[next]], c) \in Seq(Calls)
    BY <2>1, AppendProperties
  <2> QED
    BY <1>2, <2>1, <2>2 DEF AddEventSend
<1>3. ASSUME NEW c \in Calls, AddEventUnlock(c) PROVE TypeOK'
  BY <1>3 DEF AddEventUnlock
<1>4. ASSUME NEW s \in Loggers, LoggingRegister(s) PROVE TypeOK'
  BY <1>4, AppendProperties, LenProperties DEF LoggingRegister
<1>5. ASSUME NEW s \in Loggers, LoggingRecv(s) PROVE TypeOK'
  <2>1. Head(chan[s]) \in Calls /\ Tail(chan[s]) \in Seq(Calls)
    BY <1>5, HeadTailProperties DEF LoggingRecv
  <2> QED
    BY <1>5, <2>1 DEF LoggingRecv
<1>6. ASSUME NEW s \in Loggers, LoggingSend(s) PROVE TypeOK'
  <2>1. lastEvent[s] \in Calls
    BY <1>6 DEF LoggingSend
  <2> QED
    BY <1>6, <2>1, AppendProperties DEF LoggingSend
<1>7. ASSUME NEW s \in Loggers, LoggingReturn(s) PROVE TypeOK'
  BY <1>7 DEF LoggingReturn
<1>8. ASSUME NEW s \in Loggers, StreamClose(s) PROVE TypeOK'
  BY <1>8 DEF StreamClose, evVars
<1> QED
  BY <1>1, <1>2, <1>3, <1>4, <1>5, <1>6, <1>7, <1>8 DEF Next, AddEvent, Logging

(* Facts about the two lists that the provers need again and again.         *)
LEMMA ListFacts ==
  ASSUME TypeOK
  PROVE  /\ Len(events) \in Nat /\ DOMAIN events = 1 .. Len(events)
         /\ \A i \in DOMAIN events : events[i] \in Loggers
         /\ Len(log) \in Nat /\ DOMAIN log = 1 .. Len(log)
         /\ \A n \in DOMAIN log : log[n] \in Calls
BY ElementOfSeq, LenProperties DEF TypeOK

(* The control part of the invariant: mutex, registry, log, joining points. *)
CInv == TypeOK /\ MutexInv /\ RegistryInv /\ LogInv /\ JoinedInv /\ FreshInv

(* Lock keeps the control part: the caller starts its way down the list.    *)
LEMMA AddEventLockControl ==
  ASSUME CInv, NEW c \in Calls, AddEventLock(c)
  PROVE  CInv'
<1> USE EventLogAssumption DEF CInv, AddEventLock
<1>1. /\ log' \in Seq(Calls)
      /\ Len(log') = Len(log) + 1
      /\ DOMAIN log' = 1 .. Len(log) + 1
      /\ \A i \in DOMAIN log : log'[i] = log[i]
      /\ log'[Len(log) + 1] = c
      /\ log' # <<>>
      /\ DOMAIN log = 1 .. Len(log) /\ Len(log) \in Nat
  <2>1. log \in Seq(Calls) /\ log' = Append(log, c)
    BY DEF TypeOK
  <2>2. \A q \in Seq(Calls) :
          /\ Append(q, c) \in Seq(Calls) /\ Len(Append(q, c)) = Len(q) + 1
          /\ \A i \in 1 .. Len(q) : Append(q, c)[i] = q[i]
          /\ Append(q, c)[Len(q) + 1] = c
    BY AppendProperties
  <2>3. \A q \in Seq(Calls) : DOMAIN q = 1 .. Len(q) /\ Len(q) \in Nat
    BY LenProperties
  <2>4. Append(log, c) # <<>>
    BY <2>1, AppendProperties
  <2> QED
    BY <2>1, <2>2, <2>3, <2>4
<1>2. TypeOK'
  BY TypeStep DEF Next, AddEvent
<1>3. MutexInv'
  <2>1. \A d \in Calls : evPc'[d] = "adding" <=> d = c
    BY DEF MutexInv, TypeOK
  <2>2. next' \in 1 .. Len(events') + 1
    BY ListFacts
  <2> QED
    BY <1>1, <2>1, <2>2 DEF MutexInv
<1>4. RegistryInv'
  BY DEF RegistryInv, Registered, TypeOK
<1>5. LogInv'
  <2>1. \A n \in DOMAIN log : log[n] # c
    BY DEF LogInv
  <2>2. \A m, n \in DOMAIN log' : log'[m] = log'[n] => m = n
    BY <1>1, <2>1 DEF LogInv
  <2>3. \A d \in Calls : evPc'[d] = "new" <=> evPc[d] = "new" /\ d # c
    BY DEF TypeOK
  <2>4. \A d \in Calls :
          (\A n \in DOMAIN log' : log'[n] # d) <=> (\A n \in DOMAIN log : log[n] # d) /\ d # c
    BY <1>1
  <2> QED
    BY <2>2, <2>3, <2>4 DEF LogInv
<1>6. JoinedInv'
  BY <1>1, LenProperties DEF JoinedInv, Published, TypeOK
<1>7. FreshInv'
  BY DEF FreshInv, Registered, TypeOK
<1> QED
  BY <1>2, <1>3, <1>4, <1>5, <1>6, <1>7

(* A send moves the mutex holder one place on.                              *)
LEMMA AddEventSendControl ==
  ASSUME CInv, NEW c \in Calls, AddEventSend(c)
  PROVE  CInv'
<1> USE EventLogAssumption DEF CInv, AddEventSend
<1>1. TypeOK'
  BY TypeStep DEF Next, AddEvent
<1>2. MutexInv'
  BY LenProperties DEF MutexInv, TypeOK
<1>3. RegistryInv'
  BY DEF RegistryInv, Registered
<1>4. LogInv'
  BY DEF LogInv
<1>5. JoinedInv'
  <2>1. \A i \in DOMAIN events : joined[events[i]] \in Nat
    BY ListFacts DEF TypeOK
  <2>2. \A i \in DOMAIN events :
          Published(i) \in Int /\ Published(i)' \in Int /\ Published(i)' >= Published(i)
    <3>1. Len(log) \in Nat /\ DOMAIN events \subseteq Nat /\ next \in Nat
      BY ListFacts DEF TypeOK
    <3>2. next' = next + 1 /\ eventsMutex' = eventsMutex /\ log' = log
      OBVIOUS
    <3> QED
      BY <3>1, <3>2 DEF Published
  <2> QED
    BY <2>1, <2>2 DEF JoinedInv
<1>6. FreshInv'
  <2>1. Registered(events[next])
    BY ElementOfSeq, LenProperties DEF RegistryInv, TypeOK
  <2> QED
    BY <2>1 DEF FreshInv, Registered, TypeOK
<1> QED
  BY <1>1, <1>2, <1>3, <1>4, <1>5, <1>6

(* Unlock frees the mutex, and the call is logged for good.                 *)
LEMMA AddEventUnlockControl ==
  ASSUME CInv, NEW c \in Calls, AddEventUnlock(c)
  PROVE  CInv'
<1> USE EventLogAssumption DEF CInv, AddEventUnlock
<1>1. TypeOK'
  BY TypeStep DEF Next, AddEvent
<1>2. MutexInv'
  BY DEF MutexInv, TypeOK
<1>3. RegistryInv' /\ FreshInv'
  BY DEF RegistryInv, FreshInv, Registered, TypeOK
<1>4. LogInv'
  BY DEF LogInv, TypeOK
<1>5. JoinedInv'
  <2>1. \A i \in DOMAIN events : joined[events[i]] \in Nat
    BY ListFacts DEF TypeOK
  <2>2. \A i \in DOMAIN events :
          Published(i) \in Int /\ Published(i)' \in Int /\ Published(i)' >= Published(i)
    BY ListFacts DEF Published, TypeOK
  <2> QED
    BY <2>1, <2>2 DEF JoinedInv
<1> QED
  BY <1>1, <1>2, <1>3, <1>4, <1>5

(* Registration needs the free mutex, and appends a new logger.             *)
LEMMA LoggingRegisterControl ==
  ASSUME CInv, NEW s \in Loggers, LoggingRegister(s)
  PROVE  CInv'
<1> USE EventLogAssumption DEF CInv, LoggingRegister
<1>1. /\ Len(events') = Len(events) + 1
      /\ DOMAIN events' = 1 .. Len(events) + 1
      /\ \A i \in DOMAIN events : events'[i] = events[i]
      /\ events'[Len(events) + 1] = s
      /\ DOMAIN events = 1 .. Len(events) /\ Len(events) \in Nat
      /\ \A i \in DOMAIN events : events[i] \in Loggers
  BY AppendProperties, LenProperties, ElementOfSeq DEF TypeOK
<1>2. TypeOK'
  BY TypeStep DEF Next, Logging
<1>3. MutexInv'
  BY DEF MutexInv, TypeOK
<1>4. RegistryInv'
  <2>1. \A t \in Loggers : Registered(t)' <=> Registered(t) \/ t = s
    BY DEF Registered, TypeOK
  <2>2. ~Registered(s)
    BY DEF Registered
  <2>3. \A t \in Loggers :
          (\E i \in DOMAIN events' : events'[i] = t)
            <=> (\E i \in DOMAIN events : events[i] = t) \/ t = s
    BY <1>1
  <2>4. \A i \in DOMAIN events : events[i] # s
    BY <2>2 DEF RegistryInv
  <2>5. \A i, j \in DOMAIN events' : events'[i] = events'[j] => i = j
    BY <1>1, <2>4 DEF RegistryInv
  <2> QED
    BY <2>1, <2>3, <2>5 DEF RegistryInv
<1>5. LogInv'
  BY DEF LogInv, TypeOK
<1>6. JoinedInv'
  BY <1>1, LenProperties DEF JoinedInv, Published, TypeOK
<1>7. FreshInv'
  BY DEF FreshInv, Registered, TypeOK
<1> QED
  BY <1>2, <1>3, <1>4, <1>5, <1>6, <1>7

(* Receiving, sending and returning touch neither mutex nor list.           *)
LEMMA LoggingLoopControl ==
  ASSUME CInv, NEW s \in Loggers,
         LoggingRecv(s) \/ LoggingSend(s) \/ LoggingReturn(s) \/ StreamClose(s)
  PROVE  CInv'
<1> USE EventLogAssumption
    DEF CInv, LoggingRecv, LoggingSend, LoggingReturn, StreamClose, evVars
<1>1. TypeOK'
  BY TypeStep DEF Next, Logging
<1>2. \A c \in Calls : /\ evPc'[c] = "new" <=> evPc[c] = "new"
                       /\ evPc'[c] = "adding" <=> evPc[c] = "adding"
  BY DEF TypeOK
<1>3. \A t \in Loggers : Registered(t)' <=> Registered(t)
  BY DEF TypeOK, Registered
<1>4. /\ UNCHANGED <<eventsMutex, events, next, log, joined>>
      /\ \A t \in Loggers : ~Registered(t) => UNCHANGED <<delivered[t], chan[t]>>
  BY DEF TypeOK, Registered
<1>5. MutexInv' /\ LogInv' /\ JoinedInv'
  BY ONLY <1>2, <1>4, CInv DEF CInv, MutexInv, LogInv, JoinedInv, Published
<1>6. RegistryInv' /\ FreshInv'
  BY ONLY <1>3, <1>4, CInv DEF CInv, RegistryInv, FreshInv
<1> QED
  BY <1>1, <1>5, <1>6

-----------------------------------------------------------------------------
(* StreamExact, action by action.                                           *)

(* The stream of a logger: what its client got, what is in hand, what waits. *)
Stream(s) == delivered[s] \o InHand(s) \o chan[s]

(* Types of the streams, as the steps below use them.                       *)
LEMMA StreamTypes ==
  ASSUME TypeOK, NEW s \in Loggers
  PROVE  /\ delivered[s] \in Seq(Calls) /\ chan[s] \in Seq(Calls)
         /\ InHand(s) \in Seq(Calls)
         /\ delivered[s] \o InHand(s) \in Seq(Calls)
         /\ Stream(s) \in Seq(Calls)
<1>1. delivered[s] \in Seq(Calls) /\ chan[s] \in Seq(Calls)
  BY DEF TypeOK
<1>2. InHand(s) \in Seq(Calls)
  BY EventLogAssumption DEF InHand, TypeOK
<1> QED
  BY <1>1, <1>2, ConcatProperties DEF Stream

(* Lock publishes a call that was not in the log before.                    *)
LEMMA AddEventLockStream ==
  ASSUME CInv, StreamExact, NEW c \in Calls, AddEventLock(c)
  PROVE  StreamExact'
<1> USE EventLogAssumption DEF CInv
<1> SUFFICES ASSUME NEW i \in DOMAIN events'
             PROVE  (Stream(events[i]) = SubSeq(log, joined[events[i]] + 1, Published(i)))'
  BY DEF StreamExact, Stream
<1> DEFINE s == events[i]
<1>1. i \in DOMAIN events /\ s \in Loggers /\ s' = s /\ i >= 1
  BY ListFacts DEF AddEventLock
<1>2. Stream(s) = SubSeq(log, joined[s] + 1, Len(log))
  BY <1>1 DEF StreamExact, Stream, Published, AddEventLock
<1>3. Stream(s)' = Stream(s)
  BY <1>1 DEF Stream, InHand, RegistryInv, Registered, AddEventLock, TypeOK
<1>4. Published(i)' = Len(log) /\ log' = Append(log, c) /\ joined[s]' = joined[s]
  BY <1>1, AppendProperties, ListFacts DEF Published, AddEventLock, TypeOK
<1>5. SubSeq(log, joined[s] + 1, Len(log)) = SubSeq(Append(log, c), joined[s] + 1, Len(log))
  <2>1. log \in Seq(Calls) /\ joined[s] \in Nat /\ Len(log) \in Nat /\ Len(log) <= Len(log)
    BY <1>1, ListFacts DEF TypeOK
  <2> QED
    BY <2>1, SegmentStable
<1> QED
  BY <1>1, <1>2, <1>3, <1>4, <1>5

(* A send lengthens one stream by the call being published.                 *)
LEMMA AddEventSendStream ==
  ASSUME CInv, StreamExact, NEW c \in Calls, AddEventSend(c)
  PROVE  StreamExact'
<1> USE EventLogAssumption DEF CInv
<1> SUFFICES ASSUME NEW i \in DOMAIN events
             PROVE  (Stream(events[i]) = SubSeq(log, joined[events[i]] + 1, Published(i)))'
  BY DEF StreamExact, Stream, AddEventSend
<1> DEFINE s == events[i]
<1>1. s \in Loggers /\ s' = s /\ log' = log /\ joined' = joined /\ next \in DOMAIN events
  BY ListFacts DEF AddEventSend
<1>2. Stream(s) = SubSeq(log, joined[s] + 1, Published(i))
  BY DEF StreamExact, Stream
<1>3. eventsMutex = c /\ log[Len(log)] = c /\ Len(log) \in Nat \ {0}
  BY ListFacts, EmptySeq DEF MutexInv, AddEventSend, TypeOK
<1>4. InHand(s)' = InHand(s) /\ delivered'[s] = delivered[s]
  BY DEF InHand, AddEventSend
<1>5. CASE i = next
  <2>1. chan'[s] = Append(chan[s], c)
    BY <1>1, <1>5 DEF AddEventSend, TypeOK
  <2>2. Stream(s)' = Append(Stream(s), c)
    <3>1. delivered[s] \o InHand(s) \in Seq(Calls) /\ chan[s] \in Seq(Calls)
      BY <1>1, StreamTypes
    <3>2. (delivered[s] \o InHand(s)) \o Append(chan[s], c)
            = Append((delivered[s] \o InHand(s)) \o chan[s], c)
      <4>1. \A p, q \in Seq(Calls) : p \o Append(q, c) = Append(p \o q, c)
        BY AppendLast
      <4> QED
        BY <3>1, <4>1
    <3>3. Stream(s)' = (delivered'[s] \o InHand(s)') \o chan'[s]
      BY <1>1 DEF Stream, AddEventSend
    <3>4. Stream(s) = (delivered[s] \o InHand(s)) \o chan[s]
      BY DEF Stream
    <3> QED
      BY <1>4, <2>1, <3>2, <3>3, <3>4
  <2>3. Published(i) = Len(log) - 1 /\ Published(i)' = Len(log)
    BY <1>3, <1>5, ListFacts DEF Published, AddEventSend, TypeOK
  <2>4. joined[s] + 1 \in 1 .. Len(log)
    BY <1>1, <1>3, <2>3 DEF JoinedInv, TypeOK
  <2>5. SubSeq(log, joined[s] + 1, Len(log))
          = SubSeq(log, joined[s] + 1, Len(log) - 1) \o <<c>>
    <3>1. log \in Seq(Calls) /\ Len(log) \in joined[s] + 1 .. Len(log)
      BY <1>3, <2>4 DEF TypeOK
    <3> QED
      BY <1>3, <2>4, <3>1, SubSeqRecursiveSecond
  <2>6. Append(Stream(s), c) = Stream(s) \o <<c>>
    BY <1>1, StreamTypes, AppendIsConcat
  <2> QED
    BY <1>1, <1>2, <2>2, <2>3, <2>5, <2>6
<1>6. CASE i # next
  <2>1. chan'[s] = chan[s]
    BY <1>1, <1>6 DEF AddEventSend, RegistryInv, TypeOK
  <2>2. Stream(s)' = Stream(s)
    BY <1>1, <1>4, <2>1 DEF Stream
  <2>3. Published(i)' = Published(i)
    <3>1. i \in Nat /\ next \in Nat
      BY ListFacts DEF TypeOK
    <3>2. i >= next + 1 <=> i >= next
      BY <1>6, <3>1
    <3> QED
      BY <3>2 DEF Published, AddEventSend
  <2> QED
    BY <1>1, <1>2, <2>2, <2>3
<1> QED
  BY <1>5, <1>6

(* Unlock leaves all streams as they are.                                   *)
LEMMA AddEventUnlockStream ==
  ASSUME CInv, StreamExact, NEW c \in Calls, AddEventUnlock(c)
  PROVE  StreamExact'
<1> USE EventLogAssumption DEF CInv
<1> SUFFICES ASSUME NEW i \in DOMAIN events
             PROVE  (Stream(events[i]) = SubSeq(log, joined[events[i]] + 1, Published(i)))'
  BY DEF StreamExact, Stream, AddEventUnlock
<1>1. Stream(events[i]) = SubSeq(log, joined[events[i]] + 1, Published(i))
  BY DEF StreamExact, Stream
<1>2. i < next
  BY ListFacts DEF AddEventUnlock, MutexInv, TypeOK
<1>3. Published(i)' = Published(i)
  BY <1>2, ListFacts DEF Published, AddEventUnlock, TypeOK
<1>4. Stream(events[i])' = Stream(events[i])
  BY ListFacts DEF Stream, InHand, AddEventUnlock, TypeOK
<1> QED
  BY <1>1, <1>3, <1>4 DEF AddEventUnlock

(* A logger that registers has an empty stream to compare.                  *)
LEMMA LoggingRegisterStream ==
  ASSUME CInv, StreamExact, NEW s \in Loggers, LoggingRegister(s)
  PROVE  StreamExact'
<1> USE EventLogAssumption DEF CInv
<1>1. /\ Len(events) \in Nat /\ DOMAIN events = 1 .. Len(events)
      /\ DOMAIN events' = 1 .. Len(events) + 1
      /\ \A i \in DOMAIN events : events'[i] = events[i] /\ events[i] \in Loggers
      /\ events'[Len(events) + 1] = s
  BY ListFacts, AppendProperties, LenProperties DEF LoggingRegister, TypeOK
<1> SUFFICES ASSUME NEW i \in DOMAIN events'
             PROVE  (Stream(events[i]) = SubSeq(log, joined[events[i]] + 1, Published(i)))'
  BY DEF StreamExact, Stream
<1>2. Published(i)' = Len(log)
  BY DEF Published, LoggingRegister
<1>3. CASE i \in DOMAIN events
  <2>1. events[i] # s
    BY <1>3 DEF RegistryInv, Registered, LoggingRegister
  <2>2. events[i] \in Loggers /\ events'[i] = events[i]
    BY <1>1, <1>3
  <2>3. \A t \in Loggers \ {s} : Stream(t)' = Stream(t) /\ joined'[t] = joined[t]
    BY DEF Stream, InHand, LoggingRegister, TypeOK
  <2>4. Stream(events[i]) = SubSeq(log, joined[events[i]] + 1, Len(log))
    BY <1>3 DEF StreamExact, Stream, Published, LoggingRegister
  <2> QED
    BY <1>2, <2>1, <2>2, <2>3, <2>4 DEF LoggingRegister
<1>4. CASE i = Len(events) + 1
  <2>1. delivered[s] = <<>> /\ chan[s] = <<>>
    BY DEF FreshInv, Registered, LoggingRegister
  <2>2. InHand(s)' = <<>> /\ joined'[s] = Len(log)
    BY DEF InHand, LoggingRegister, TypeOK
  <2>3. (<<>> \o <<>>) \o <<>> = <<>>
    BY EmptySeq, ConcatEmptySeq
  <2>4. Stream(s)' = <<>>
    BY <2>1, <2>2, <2>3 DEF Stream, LoggingRegister
  <2>5. SubSeq(log, Len(log) + 1, Len(log)) = <<>>
    BY ListFacts, SubSeqEmpty
  <2> QED
    BY <1>1, <1>2, <1>4, <2>2, <2>4, <2>5 DEF LoggingRegister
<1> QED
  BY <1>1, <1>3, <1>4

(* The loop of Logging moves events along the stream and changes nothing.   *)
LEMMA LoggingLoopStream ==
  ASSUME CInv, StreamExact, NEW s \in Loggers,
         LoggingRecv(s) \/ LoggingSend(s) \/ LoggingReturn(s) \/ StreamClose(s)
  PROVE  StreamExact'
<1> USE EventLogAssumption DEF CInv
<1>1. UNCHANGED <<eventsMutex, events, next, log, joined>>
  BY DEF LoggingRecv, LoggingSend, LoggingReturn, StreamClose, evVars
<1>2. Stream(s)' = Stream(s)
  <2>1. CASE LoggingRecv(s)
    <3>1. InHand(s) = <<>> /\ InHand(s)' = <<Head(chan[s])>>
      BY <2>1 DEF LoggingRecv, InHand, TypeOK
    <3>2. chan'[s] = Tail(chan[s]) /\ delivered'[s] = delivered[s] /\ chan[s] # <<>>
      BY <2>1 DEF LoggingRecv, TypeOK
    <3> QED
      BY <3>1, <3>2, StreamTypes, MoveHead DEF Stream
  <2>2. CASE LoggingSend(s)
    <3>1. InHand(s) = <<lastEvent[s]>> /\ InHand(s)' = <<>> /\ lastEvent[s] \in Calls
      BY <2>2 DEF LoggingSend, InHand, TypeOK
    <3>2. delivered'[s] = Append(delivered[s], lastEvent[s]) /\ chan'[s] = chan[s]
      BY <2>2 DEF LoggingSend, TypeOK
    <3>3. Append(delivered[s], lastEvent[s]) = delivered[s] \o <<lastEvent[s]>>
      BY <3>1, StreamTypes, AppendIsConcat
    <3>4. Append(delivered[s], lastEvent[s]) \in Seq(Calls)
      BY <3>1, StreamTypes, AppendProperties
    <3> QED
      BY <3>1, <3>2, <3>3, <3>4, ConcatEmptySeq DEF Stream
  <2>3. CASE LoggingReturn(s) \/ StreamClose(s)
    BY <2>3 DEF LoggingReturn, StreamClose, evVars, Stream, InHand, TypeOK
  <2> QED
    BY <2>1, <2>2, <2>3
<1>3. \A t \in Loggers : t # s => Stream(t)' = Stream(t)
  BY DEF LoggingRecv, LoggingSend, LoggingReturn, StreamClose, evVars, Stream, InHand, TypeOK
<1>4. \A i \in DOMAIN events : Stream(events[i])' = Stream(events[i])
  BY <1>1, <1>2, <1>3, ListFacts
<1> QED
  BY <1>1, <1>4 DEF StreamExact, Stream, Published

-----------------------------------------------------------------------------
(* The theorems.                                                            *)

LEMMA NextIInv ==
  ASSUME IInv, [Next]_vars
  PROVE  IInv'
<1>0. CInv /\ StreamExact
  BY DEF IInv, CInv
<1>1. SUFFICES CInv' /\ StreamExact'
  BY DEF IInv, CInv
<1>2. ASSUME NEW c \in Calls, AddEvent(c) PROVE CInv' /\ StreamExact'
  BY <1>0, <1>2, AddEventLockControl, AddEventSendControl, AddEventUnlockControl,
     AddEventLockStream, AddEventSendStream, AddEventUnlockStream DEF AddEvent
<1>3. ASSUME NEW s \in Loggers, Logging(s) \/ StreamClose(s)
      PROVE  CInv' /\ StreamExact'
  BY <1>0, <1>3, LoggingRegisterControl, LoggingLoopControl,
     LoggingRegisterStream, LoggingLoopStream DEF Logging
<1>4. CASE UNCHANGED vars
  <2> USE <1>0, <1>4 DEF vars, evVars
  <2>1. TypeOK' /\ MutexInv' /\ LogInv'
    BY DEF CInv, TypeOK, MutexInv, LogInv
  <2>2. RegistryInv' /\ JoinedInv' /\ FreshInv'
    BY DEF CInv, RegistryInv, JoinedInv, FreshInv, Registered, Published
  <2>3. StreamExact'
    BY DEF StreamExact, InHand, Published
  <2> QED
    BY <2>1, <2>2, <2>3 DEF CInv
<1> QED
  BY <1>2, <1>3, <1>4 DEF Next

(* Every reachable state satisfies the inductive invariant.                 *)
THEOREM Invariance == Spec => []IInv
BY InitIInv, NextIInv, PTL DEF Spec

(* The variables keep their types; in particular no Logging goroutine ever  *)
(* hands its client an event that is not a recorded call.                   *)
THEOREM TypeCorrect == Spec => []TypeOK
<1>1. IInv => TypeOK
  BY DEF IInv
<1> QED
  BY <1>1, Invariance, PTL

(* EventsMutex is held exactly between Lock and Unlock of addEvent, by the  *)
(* last call of the log, however many calls and loggers there are.          *)
THEOREM MutexCorrect == Spec => []MutexInv
<1>1. IInv => MutexInv
  BY DEF IInv
<1> QED
  BY <1>1, Invariance, PTL

(* ms.Events holds each logger that registered exactly once, for good.      *)
THEOREM RegistryCorrect == Spec => []RegistryInv
<1>1. IInv => RegistryInv
  BY DEF IInv
<1> QED
  BY <1>1, Invariance, PTL

(* Each logger's stream is gapless, in order and free of repetitions, for   *)
(* any number of calls and loggers and any channel capacity: addEvent and   *)
(* Logging together never lose, double or swap an event.                    *)
THEOREM StreamCorrect == Spec => []StreamExact
<1>1. IInv => StreamExact
  BY DEF IInv
<1> QED
  BY <1>1, Invariance, PTL

(* When addEvent has returned for a call, each logger that had registered   *)
(* before has its event in its channel, in its hand or with its client.     *)
THEOREM RecordedCorrect == Spec => []RecordedForAll
<1>1. IInv => RecordedForAll
  <2> SUFFICES ASSUME IInv, NEW c \in Calls, NEW s \in Loggers, NEW n \in DOMAIN log,
                      log[n] = c, evPc[c] \notin {"new", "adding"},
                      Registered(s), n > joined[s]
               PROVE  Len(Stream(s)) >= n - joined[s]
    BY DEF RecordedForAll, Stream
  <2> USE EventLogAssumption DEF IInv
  <2>1. PICK i \in DOMAIN events : events[i] = s
    BY DEF RegistryInv
  <2>2. n <= Published(i) /\ Published(i) <= Len(log) /\ Published(i) \in Int
    <3>1. eventsMutex # NoCall => n # Len(log)
      BY DEF MutexInv, TypeOK
    <3>2. n \in Nat /\ Len(log) \in Nat /\ n <= Len(log)
      BY ListFacts
    <3> QED
      BY <3>1, <3>2 DEF Published
  <2>3. Stream(s) = SubSeq(log, joined[s] + 1, Published(i))
    BY <2>1 DEF StreamExact, Stream
  <2>4. joined[s] \in Nat /\ n \in Nat
    BY ListFacts DEF TypeOK
  <2>5. \A k \in joined[s] + 1 .. Published(i) : log[k] \in Calls
    BY <2>2, <2>4, ListFacts
  <2>6. Len(Stream(s)) = Published(i) - joined[s]
    BY <2>2, <2>3, <2>4, <2>5, SubSeqProperties
  <2> QED
    BY <2>2, <2>4, <2>6
<1> QED
  BY <1>1, Invariance, PTL

-----------------------------------------------------------------------------
(* EventLog implements Broadcast.                                           *)

(* What follows a prefix p of a segment is an entry of the whole sequence.  *)
LEMMA EntryOfSegment ==
  ASSUME NEW T, NEW q \in Seq(T), NEW j \in Nat, NEW k \in Nat, k <= Len(q),
         NEW p \in Seq(T), NEW x \in T, NEW r \in Seq(T),
         (p \o <<x>>) \o r = SubSeq(q, j + 1, k)
  PROVE  j + Len(p) + 1 \in 1 .. Len(q) /\ q[j + Len(p) + 1] = x
<1> DEFINE w == (p \o <<x>>) \o r
<1>1. Len(p) \in Nat /\ Len(r) \in Nat /\ Len(q) \in Nat
  BY LenProperties
<1>2. p \o <<x>> \in Seq(T) /\ Len(p \o <<x>>) = Len(p) + 1 /\ (p \o <<x>>)[Len(p) + 1] = x
  <2>1. Append(p, x) = p \o <<x>>
    BY AppendIsConcat
  <2>2. /\ Append(p, x) \in Seq(T) /\ Len(Append(p, x)) = Len(p) + 1
        /\ Append(p, x)[Len(p) + 1] = x
    BY AppendProperties
  <2> QED
    BY <2>1, <2>2
<1>3. Len(w) = Len(p) + 1 + Len(r) /\ w[Len(p) + 1] = x
  BY <1>1, <1>2, ConcatProperties
<1>4. \A i \in j + 1 .. k : q[i] \in T
  BY <1>1, ElementOfSeq
<1>5. /\ Len(w) = IF j + 1 <= k THEN k - j ELSE 0
      /\ \A i \in 1 .. k - j : w[i] = q[j + i]
  <2>0. j + 1 \in Int /\ k \in Int
    OBVIOUS
  <2>1. /\ Len(SubSeq(q, j + 1, k)) = IF j + 1 <= k THEN k - (j + 1) + 1 ELSE 0
        /\ \A i \in 1 .. k - (j + 1) + 1 : SubSeq(q, j + 1, k)[i] = q[(j + 1) + i - 1]
    BY <1>4, <2>0, SubSeqProperties
  <2>2. /\ k - (j + 1) + 1 = k - j
        /\ \A i \in 1 .. k - j : (j + 1) + i - 1 = j + i
    OBVIOUS
  <2> QED
    BY <2>1, <2>2
<1> HIDE DEF w
<1>6. j + 1 <= k /\ Len(p) + 1 \in 1 .. k - j
  BY <1>1, <1>3, <1>5
<1>7. w[Len(p) + 1] = q[j + (Len(p) + 1)]
  BY <1>5, <1>6
<1>8. j + (Len(p) + 1) = j + Len(p) + 1 /\ j + Len(p) + 1 \in 1 .. Len(q)
  BY <1>1, <1>6
<1> QED
  BY <1>3, <1>7, <1>8

(* Nothing published, nobody joined.                                        *)
LEMMA RefineInit == Init => Log!Init
BY EventLogAssumption DEF Init, Log!Init, Registered

(* Every step is one of Broadcast or leaves its variables alone.            *)
LEMMA RefineNext ==
  ASSUME IInv, [Next]_vars
  PROVE  [Log!Next]_Log!bVars
<1> USE EventLogAssumption
<1>0. TypeOK
  BY DEF IInv
<1> DEFINE subs == {t \in Loggers : Registered(t)}
<1>1. ASSUME NEW c \in Calls, AddEventLock(c) PROVE Log!Publish(c)
  <2>1. \A n \in DOMAIN log : log[n] # c
    BY <1>1 DEF IInv, LogInv, AddEventLock
  <2>2. subs' = subs
    BY <1>0, <1>1 DEF AddEventLock, Registered, TypeOK
  <2> QED
    BY <1>1, <2>1, <2>2 DEF AddEventLock, Log!Publish
<1>2. ASSUME NEW s \in Loggers, LoggingRegister(s) PROVE Log!Subscribe(s)
  <2>1. s \notin subs
    BY <1>2 DEF Registered, LoggingRegister
  <2>2. subs' = subs \cup {s}
    BY <1>0, <1>2 DEF LoggingRegister, Registered, TypeOK
  <2> QED
    BY <1>2, <2>1, <2>2 DEF LoggingRegister, Log!Subscribe
<1>3. ASSUME NEW s \in Loggers, LoggingSend(s) PROVE Log!Deliver(s)
  <2>1. Registered(s)
    BY <1>3 DEF Registered, LoggingSend
  <2>2. PICK i \in DOMAIN events : events[i] = s
    BY <2>1 DEF IInv, RegistryInv
  <2>3. (delivered[s] \o <<lastEvent[s]>>) \o chan[s] = SubSeq(log, joined[s] + 1, Published(i))
    BY <1>3, <2>2 DEF IInv, StreamExact, InHand, LoggingSend
  <2>4. lastEvent[s] \in Calls /\ delivered[s] \in Seq(Calls) /\ chan[s] \in Seq(Calls)
    BY <1>0, <1>3 DEF LoggingSend, TypeOK
  <2>5. joined[s] \in Nat /\ log \in Seq(Calls)
    BY <1>0 DEF TypeOK
  <2>6. Published(i) \in Nat /\ Published(i) <= Len(log)
    <3>1. Len(log) \in Nat /\ (log # <<>> => Len(log) > 0)
      BY <2>5, EmptySeq
    <3>2. eventsMutex # NoCall => log # <<>>
      BY DEF IInv, MutexInv
    <3> QED
      BY <3>1, <3>2 DEF Published
  <2>7. /\ joined[s] + Len(delivered[s]) + 1 \in 1 .. Len(log)
        /\ log[joined[s] + Len(delivered[s]) + 1] = lastEvent[s]
    <3>1. \A k \in Nat, p, r \in Seq(Calls), x \in Calls :
            k <= Len(log) /\ (p \o <<x>>) \o r = SubSeq(log, joined[s] + 1, k)
              => /\ joined[s] + Len(p) + 1 \in 1 .. Len(log)
                 /\ log[joined[s] + Len(p) + 1] = x
      BY <2>5, EntryOfSegment
    <3> QED
      BY <2>3, <2>4, <2>6, <3>1
  <2>8. subs' = subs
    BY <1>0, <1>3 DEF LoggingSend, Registered, TypeOK
  <2> QED
    BY <1>0, <1>3, <2>1, <2>7, <2>8, ListFacts DEF LoggingSend, Log!Deliver
<1>4. ASSUME NEW c \in Calls, AddEventSend(c) \/ AddEventUnlock(c)
      PROVE  UNCHANGED Log!bVars
  BY <1>0, <1>4 DEF AddEventSend, AddEventUnlock, Log!bVars, Registered, TypeOK
<1>5. ASSUME NEW s \in Loggers, LoggingRecv(s) \/ LoggingReturn(s) \/ StreamClose(s)
      PROVE  UNCHANGED Log!bVars
  BY <1>0, <1>5 DEF LoggingRecv, LoggingReturn, StreamClose, evVars, Log!bVars, Registered, TypeOK
<1>6. CASE UNCHANGED vars
  BY <1>6 DEF vars, evVars, Log!bVars, Registered
<1> QED
  BY <1>1, <1>2, <1>3, <1>4, <1>5, <1>6 DEF Next, AddEvent, Logging, Log!Next

(* For any number of calls and loggers and any channel capacity, addEvent   *)
(* and Logging implement the abstract log: what a client is sent is, entry  *)
(* by entry, the published log from the point at which it subscribed.       *)
THEOREM BroadcastImplemented == Spec => KeepsBroadcast
<1>1. Init => Log!Init
  BY RefineInit
<1>2. IInv /\ [Next]_vars => [Log!Next]_Log!bVars
  BY RefineNext
<1> QED
  BY <1>1, <1>2, Invariance, PTL DEF Spec, KeepsBroadcast, Log!Spec

-----------------------------------------------------------------------------
(* What can block.  ENABLED is beyond the prover: the guards are spelt out. *)

AddEventCan(c) ==
  /\ evPc[c] = "adding"
  /\ next \in DOMAIN events => Len(chan[events[next]]) < EventsCap

LoggingCan(s) ==
  \/ evPc[s] = "added" /\ eventsMutex = NoCall
  \/ evPc[s] = "receiving" /\ chan[s] # <<>>
  \/ evPc[s] = "sending"

(* A handler returns only when its stream has ended.                        *)
GoneInv == \A s \in Loggers : evPc[s] = "returned" => ~open[s]

(* Who holds the mutex can go on, or waits for a handler that can go on, or *)
(* for one that has returned because its client has gone.                   *)
OnlyGoneBlock ==
  eventsMutex # NoCall =>
    \/ AddEventCan(eventsMutex)
    \/ /\ next \in DOMAIN events
       /\ events[next] \in Loggers
       /\ LoggingCan(events[next]) \/ (evPc[events[next]] = "returned" /\ ~open[events[next]])

LEMMA GoneStep ==
  ASSUME TypeOK, GoneInv, [Next]_vars
  PROVE  GoneInv'
<1> USE EventLogAssumption DEF GoneInv
<1>1. ASSUME NEW c \in Calls, AddEvent(c) PROVE GoneInv'
  <2>1. open' = open /\ \E pc \in {"adding", "added"} : evPc' = [evPc EXCEPT ![c] = pc]
                          \/ evPc' = evPc
    BY <1>1 DEF AddEvent, AddEventLock, AddEventSend, AddEventUnlock
  <2> QED
    BY <2>1 DEF TypeOK
<1>2. ASSUME NEW s \in Loggers, LoggingReturn(s) PROVE GoneInv'
  BY <1>2 DEF LoggingReturn, TypeOK
<1>3. ASSUME NEW s \in Loggers, LoggingRegister(s) \/ LoggingRecv(s) \/ LoggingSend(s)
      PROVE  GoneInv'
  <2>1. open' = open /\ \E pc \in {"receiving", "sending"} : evPc' = [evPc EXCEPT ![s] = pc]
    BY <1>3 DEF LoggingRegister, LoggingRecv, LoggingSend
  <2> QED
    BY <2>1 DEF TypeOK
<1>4. ASSUME NEW s \in Loggers, StreamClose(s) PROVE GoneInv'
  BY <1>4 DEF StreamClose, evVars, TypeOK
<1>5. CASE UNCHANGED vars
  BY <1>5 DEF vars, evVars
<1> QED
  BY <1>1, <1>2, <1>3, <1>4, <1>5 DEF Next, Logging

(* addEvent can block the service for ever in one way only: on the full     *)
(* channel of a handler whose client has gone (service.go:48).  Otherwise   *)
(* whoever holds EventsMutex, or the handler it waits for, can take a step. *)
THEOREM OnlyGoneLoggersBlock == Spec => []OnlyGoneBlock
<1>1. Init => GoneInv
  BY EventLogAssumption DEF Init, GoneInv
<1>2. TypeOK /\ GoneInv /\ [Next]_vars => GoneInv'
  BY GoneStep
<1>3. IInv /\ GoneInv => OnlyGoneBlock
  <2> SUFFICES ASSUME IInv, GoneInv, eventsMutex # NoCall, ~AddEventCan(eventsMutex)
               PROVE  /\ next \in DOMAIN events
                      /\ events[next] \in Loggers
                      /\ \/ LoggingCan(events[next])
                         \/ evPc[events[next]] = "returned" /\ ~open[events[next]]
    BY Zenon DEF OnlyGoneBlock
  <2>1. TypeOK /\ MutexInv /\ RegistryInv
    BY Zenon DEF IInv
  <2>2. eventsMutex \in Calls /\ evPc[eventsMutex] = "adding"
    BY <2>1 DEF TypeOK, MutexInv
  <2>3. next \in DOMAIN events /\ ~(Len(chan[events[next]]) < EventsCap)
    BY <2>2, Zenon DEF AddEventCan
  <2> DEFINE s == events[next]
  <2>4. s \in Loggers
    BY <2>1, <2>3 DEF TypeOK
  <2>5. Registered(s)
    BY <2>1, <2>3, <2>4, Zenon DEF RegistryInv
  <2>6. chan[s] # <<>>
    <3>1. chan[s] = <<>> => Len(chan[s]) = 0
      OBVIOUS
    <3> QED
      BY <2>3, <3>1, EventLogAssumption
  <2> QED
    BY <2>3, <2>4, <2>5, <2>6, Zenon DEF Registered, LoggingCan, GoneInv
<1>4. IInv => TypeOK
  BY Zenon DEF IInv
<1> QED
  BY <1>1, <1>2, <1>3, <1>4, Invariance, PTL DEF Spec
=============================================================================
