----------------------------- MODULE SignerProofs -----------------------------
(***************************************************************************)
(* Proofs about the signer, for any inputs, any number of helpers and any  *)
(* capacity of the pipes.                                                  *)
(*                                                                         *)
(* SingleHash and MultiHash have an invariant each (SHInv, MHInv), which   *)
(* every step of their own modules keeps, those of their surroundings      *)
(* included (SHStep, MHStep).  Glue is what the composition adds: a job    *)
(* closes its pipe after it has returned, a reader stops at the end of a   *)
(* closed pipe, and what was sent is what was taken followed by what is    *)
(* queued.  With Glue every step of the whole is for each job a step of    *)
(* its own specification or a stutter (JobsStep), so that SHInv, MHInv and *)
(* Glue together, IInv, are inductive.                                     *)
(*                                                                         *)
(* The result: CRInv says what CombineResults has collected.  When it has  *)
(* sent, everything has arrived, and the workers' numbers in the two       *)
(* histories are bijections whose composition leads from each part to the  *)
(* input it was made from (Origin).  Sorting composes one more bijection   *)
(* with it; that a sorted arrangement exists is SortedExists.              *)
(***************************************************************************)
EXTENDS Signer, FiniteSetTheorems, SequenceTheorems, TLAPS

(* The pipe operators of the jobs are those of Pipe.                        *)
LEMMA SamePipes ==
  /\ \A S : SH!PipeOf(S) = PipeOf(S) /\ MH!PipeOf(S) = PipeOf(S) /\ CR!PipeOf(S) = PipeOf(S)
  /\ SH!NewPipe = NewPipe /\ MH!NewPipe = NewPipe /\ CR!NewPipe = NewPipe
  /\ \A p : SH!HasRoom(p) = HasRoom(p) /\ MH!HasRoom(p) = HasRoom(p) /\ CR!HasRoom(p) = HasRoom(p)
  /\ \A p : SH!HasNext(p) = HasNext(p) /\ MH!HasNext(p) = HasNext(p) /\ CR!HasNext(p) = HasNext(p)
  /\ \A p : SH!Exhausted(p) = Exhausted(p) /\ MH!Exhausted(p) = Exhausted(p)
            /\ CR!Exhausted(p) = Exhausted(p)
  /\ \A p : SH!First(p) = First(p) /\ MH!First(p) = First(p) /\ CR!First(p) = First(p)
  /\ \A p : SH!Rest(p) = Rest(p) /\ MH!Rest(p) = Rest(p) /\ CR!Rest(p) = Rest(p)
  /\ \A p : SH!Close(p) = Close(p) /\ MH!Close(p) = Close(p) /\ CR!Close(p) = Close(p)
  /\ \A p, v : SH!Put(p, v) = Put(p, v) /\ MH!Put(p, v) = Put(p, v) /\ CR!Put(p, v) = Put(p, v)
<1>1. \A S : SH!PipeOf(S) = PipeOf(S) /\ MH!PipeOf(S) = PipeOf(S) /\ CR!PipeOf(S) = PipeOf(S)
  BY DEF PipeOf, SH!PipeOf, MH!PipeOf, CR!PipeOf
<1>2. SH!NewPipe = NewPipe /\ MH!NewPipe = NewPipe /\ CR!NewPipe = NewPipe
  BY DEF NewPipe, SH!NewPipe, MH!NewPipe, CR!NewPipe
<1>3. \A p : SH!HasRoom(p) = HasRoom(p) /\ MH!HasRoom(p) = HasRoom(p) /\ CR!HasRoom(p) = HasRoom(p)
  BY DEF HasRoom, SH!HasRoom, MH!HasRoom, CR!HasRoom
<1>4. \A p : SH!HasNext(p) = HasNext(p) /\ MH!HasNext(p) = HasNext(p) /\ CR!HasNext(p) = HasNext(p)
  BY DEF HasNext, SH!HasNext, MH!HasNext, CR!HasNext
<1>5. \A p : SH!Exhausted(p) = Exhausted(p) /\ MH!Exhausted(p) = Exhausted(p)
             /\ CR!Exhausted(p) = Exhausted(p)
  BY DEF Exhausted, SH!Exhausted, MH!Exhausted, CR!Exhausted
<1>6. \A p : SH!First(p) = First(p) /\ MH!First(p) = First(p) /\ CR!First(p) = First(p)
  BY DEF First, SH!First, MH!First, CR!First
<1>7. \A p : SH!Rest(p) = Rest(p) /\ MH!Rest(p) = Rest(p) /\ CR!Rest(p) = Rest(p)
  BY DEF Rest, SH!Rest, MH!Rest, CR!Rest
<1>8. \A p : SH!Close(p) = Close(p) /\ MH!Close(p) = Close(p) /\ CR!Close(p) = Close(p)
  BY DEF Close, SH!Close, MH!Close, CR!Close
<1>9. \A p, v : SH!Put(p, v) = Put(p, v) /\ MH!Put(p, v) = Put(p, v) /\ CR!Put(p, v) = Put(p, v)
  BY DEF Put, SH!Put, MH!Put, CR!Put
<1> QED
  BY <1>1, <1>2, <1>3, <1>4, <1>5, <1>6, <1>7, <1>8, <1>9

(* What sending, receiving and closing make of a pipe.                      *)
LEMMA PutFacts ==
  ASSUME NEW S, NEW p \in PipeOf(S), NEW v \in S
  PROVE  /\ Put(p, v) \in PipeOf(S)
         /\ Put(p, v).queue = Append(p.queue, v)
         /\ Put(p, v).closed = p.closed
<1>1. p.queue \in Seq(S)
  BY DEF PipeOf
<1>2. Append(p.queue, v) \in Seq(S)
  BY <1>1, AppendProperties
<1> QED
  BY <1>2 DEF PipeOf, Put

LEMMA RestFacts ==
  ASSUME NEW S, NEW p \in PipeOf(S), HasNext(p)
  PROVE  /\ Rest(p) \in PipeOf(S)
         /\ Rest(p).queue = Tail(p.queue)
         /\ Rest(p).closed = p.closed
         /\ First(p) \in S
<1>1. p.queue \in Seq(S) /\ p.queue # <<>>
  BY DEF PipeOf, HasNext
<1>2. Tail(p.queue) \in Seq(S) /\ Head(p.queue) \in S
  BY <1>1, HeadTailProperties
<1> QED
  BY <1>2 DEF PipeOf, Rest, First

LEMMA CloseFacts ==
  ASSUME NEW S, NEW p \in PipeOf(S)
  PROVE  /\ Close(p) \in PipeOf(S)
         /\ Close(p).queue = p.queue
         /\ Close(p).closed = TRUE
BY DEF PipeOf, Close

LEMMA NewPipeFacts ==
  ASSUME NEW S
  PROVE  NewPipe \in PipeOf(S) /\ NewPipe.queue = <<>> /\ NewPipe.closed = FALSE
BY EmptySeq DEF NewPipe, PipeOf

-----------------------------------------------------------------------------
(* SingleHash.                                                              *)

Numbers == 1 .. MaxValues

Computing == {n \in Numbers : workerPc[n] \notin {"none", "done"}}

(* A worker and a helper for every value taken, the wait group counts the   *)
(* workers that are not done, and the job returns after them.               *)
SHFlow ==
  /\ \A n \in Numbers : workerPc[n] = "none" <=> n > Len(shData)
  /\ \A n \in Numbers : helper[n] = "none" <=> n > Len(shData)
  /\ shWG = Cardinality(Computing)
  /\ shPc = "returned" => Computing = {}
  /\ hashed.closed => shPc = "returned"

(* The token of quotaCh belongs to one worker, and so does the flag.        *)
SHQuota ==
  /\ \A n \in Numbers : workerPc[n] \in {"quota", "hashing", "hashed"} => quotaCh = 1
  /\ \A m, n \in Numbers :
       {workerPc[m], workerPc[n]} \subseteq {"quota", "hashing", "hashed"} => m = n
  /\ overheat = 1 => \E n \in Numbers : workerPc[n] = "hashing"

(* The token of waitCh belongs to the helper or to the worker.              *)
SHLock ==
  \A n \in Numbers :
    /\ helper[n] \in {"locked", "filled"} => waitCh[n] = 1 /\ workerPc[n] \notin {"joined", "sent"}
    /\ workerPc[n] \in {"joined", "sent"} => waitCh[n] = 1
    /\ helper[n] \in {"none", "started", "locked"} => leftSide[n] = Empty
    /\ helper[n] \in {"filled", "done"} => leftSide[n] = Crc32(shData[n])

(* A worker that has sent has given one result, made from its value.        *)
SHGiven ==
  /\ \A i \in DOMAIN shResults :
       /\ shResults[i].by \in 1 .. Len(shData)
       /\ workerPc[shResults[i].by] \in {"sent", "done"}
       /\ shResults[i].value \in SH!MayGive(shData[shResults[i].by])
  /\ \A i, j \in DOMAIN shResults : shResults[i].by = shResults[j].by => i = j
  /\ \A n \in Numbers : workerPc[n] \in {"sent", "done"} =>
       \E i \in DOMAIN shResults : shResults[i].by = n

SHInv == SH!TypeOK /\ SHFlow /\ SHQuota /\ SHLock /\ SHGiven

LEMMA ConstantFacts ==
  /\ MaxValues \in Nat
  /\ PipeCap \in Nat \ {0}
  /\ ThLimit \in Nat \ {0}
  /\ MD5CalculatorLimit = 1
  /\ SH!Workers = Numbers
  /\ MH!Workers = Numbers
  /\ IsFiniteSet(Numbers) /\ Cardinality(Numbers) = MaxValues
<1>1. MaxValues \in Nat
  BY SignerAssumption, LenProperties DEF MaxValues
<1>2. IsFiniteSet(1 .. MaxValues) /\ Cardinality(1 .. MaxValues) = MaxValues
  BY <1>1, FS_Interval
<1> QED
  BY <1>1, <1>2, SignerAssumption, PipeAssumption DEF Numbers, SH!Workers, MH!Workers

LEMMA SHStart ==
  ASSUME raw = NewPipe, hashed = NewPipe, SH!Init
  PROVE  SHInv
<1> USE ConstantFacts
<1>1. SH!TypeOK
  <2>1. raw \in PipeOf(Data) /\ hashed \in PipeOf(SH!Hashes)
    BY NewPipeFacts
  <2>2. <<>> \in Seq(Data) /\ Len(<<>>) = 0
        /\ <<>> \in Seq([by : SH!Workers, value : SH!Hashes])
    BY EmptySeq
  <2>3. SH!Empty \in SH!LeftSides
    BY DEF SH!LeftSides
  <2> QED
    BY <2>1, <2>2, <2>3, SamePipes DEF SH!Init, SH!TypeOK
<1>2. Computing = {}
  BY DEF SH!Init, Computing
<1>3. SHFlow
  <2>1. shData = <<>> /\ Len(shData) = 0 /\ shWG = 0 /\ shPc = "ranging" /\ ~hashed.closed
    BY NewPipeFacts DEF SH!Init
  <2>2. \A n \in Numbers : workerPc[n] = "none" /\ helper[n] = "none" /\ n > 0
    BY DEF SH!Init, Numbers
  <2>3. Cardinality(Computing) = 0
    BY <1>2, FS_EmptySet
  <2> QED
    BY <1>2, <2>1, <2>2, <2>3 DEF SHFlow
<1>4. SHQuota /\ SHLock
  BY DEF SHQuota, SHLock, SH!Init, SH!Empty, Empty
<1>5. SHGiven
  BY DEF SHGiven, SH!Init
<1> QED
  BY <1>1, <1>3, <1>4, <1>5 DEF SHInv

(* The steps of the jobs around it.                                         *)
SHOther == SH!Feed \/ SH!FeedEnds \/ SH!Drain \/ SH!CloseOut

(* The value of a worker that has started.                                  *)
LEMMA SHValue ==
  ASSUME SH!TypeOK, SHFlow, NEW n \in Numbers, workerPc[n] # "none" \/ helper[n] # "none"
  PROVE  n \in 1 .. Len(shData) /\ shData[n] \in Data /\ helper[n] # "none"
<1>1. shData \in Seq(Data) /\ Len(shData) \in Nat
  BY LenProperties DEF SH!TypeOK
<1>2. n \in Nat /\ n >= 1 /\ n <= Len(shData) /\ helper[n] # "none"
  BY <1>1, ConstantFacts DEF SHFlow, Numbers
<1> QED
  BY <1>1, <1>2, ElementOfSeq

LEMMA SHTypeStep ==
  ASSUME SH!TypeOK, SHFlow, SH!Next, shWG' \in 0 .. MaxValues
  PROVE  SH!TypeOK'
<1> USE ConstantFacts, SamePipes DEF SH!TypeOK
<1>1. CASE SH!Take
  <2> DEFINE n == Len(shData) + 1
  <2>1. raw' \in PipeOf(Data) /\ First(raw) \in Data
    BY <1>1, RestFacts DEF SH!Take
  <2>2. /\ shData' = Append(shData, First(raw)) /\ shPc' = shPc /\ hashed' = hashed
        /\ n \in Numbers
        /\ workerPc' = [workerPc EXCEPT ![n] = "started"]
        /\ helper' = [helper EXCEPT ![n] = "started"]
        /\ UNCHANGED <<quotaCh, overheat, waitCh, leftSide, shResults>>
    BY <1>1 DEF SH!Take
  <2>3. shData' \in Seq(Data) /\ Len(shData') = n
    BY <2>1, <2>2, AppendProperties
  <2> QED
    BY <2>1, <2>2, <2>3 DEF Numbers
<1>2. CASE SH!RangeEnds \/ SH!Return
  BY <1>2 DEF SH!RangeEnds, SH!Return
<1>3. ASSUME NEW n \in Numbers, SH!Helper(n)
      PROVE  SH!TypeOK'
  <2>1. CASE SH!HelperFill(n)
    <3>1. helper[n] = "locked" /\ leftSide' = [leftSide EXCEPT ![n] = SH!Crc32(shData[n])]
          /\ helper' = [helper EXCEPT ![n] = "filled"]
          /\ UNCHANGED <<raw, hashed, shPc, shData, quotaCh, overheat, workerPc, waitCh, shResults>>
      BY <2>1 DEF SH!HelperFill
    <3>2. SH!Crc32(shData[n]) \in SH!LeftSides
      BY <3>1, SHValue DEF SH!LeftSides
    <3> QED
      BY <3>1, <3>2
  <2> QED
    BY <1>3, <2>1 DEF SH!Helper, SH!HelperLock, SH!HelperUnlock
<1>4. ASSUME NEW n \in Numbers, SH!Worker(n)
      PROVE  SH!TypeOK'
  <2>1. CASE SH!SendResult(n)
    <3> DEFINE r == <<leftSide[n], SH!RightSide(shData[n])>>
    <3>1. /\ workerPc[n] = "joined"
          /\ hashed' = Put(hashed, r)
          /\ shResults' = Append(shResults, [by |-> n, value |-> r])
          /\ workerPc' = [workerPc EXCEPT ![n] = "sent"]
          /\ UNCHANGED <<raw, shPc, shData, quotaCh, overheat, helper, waitCh, leftSide>>
      BY <2>1 DEF SH!SendResult
    <3>2. r \in SH!Hashes
      BY <3>1, SHValue DEF SH!Hashes
    <3>3. hashed' \in PipeOf(SH!Hashes)
      BY <3>1, <3>2, PutFacts
    <3>4. [by |-> n, value |-> r] \in [by : SH!Workers, value : SH!Hashes]
      BY <3>2
    <3>5. shResults' \in Seq([by : SH!Workers, value : SH!Hashes])
      BY <3>1, <3>4, AppendProperties
    <3> QED
      BY <3>1, <3>3, <3>5
  <2>2. CASE SH!EnterQuota(n)
    BY <2>2 DEF SH!EnterQuota
  <2>5. CASE SH!LeaveQuota(n)
    BY <2>5 DEF SH!LeaveQuota
  <2>3. CASE SH!OverheatLock(n) \/ SH!OverheatUnlock(n)
    BY <2>3 DEF SH!OverheatLock, SH!OverheatUnlock
  <2>4. CASE SH!Join(n) \/ SH!WorkerDone(n)
    BY <2>4 DEF SH!Join, SH!WorkerDone
  <2> QED
    BY <1>4, <2>1, <2>2, <2>3, <2>4, <2>5 DEF SH!Worker
<1>5. CASE SH!Feed
  BY <1>5, PutFacts DEF SH!Feed, SH!ownVars
<1>6. CASE SH!FeedEnds
  BY <1>6, CloseFacts DEF SH!FeedEnds, SH!ownVars
<1>7. CASE SH!Drain
  BY <1>7, RestFacts DEF SH!Drain, SH!ownVars
<1>8. CASE SH!CloseOut
  BY <1>8, CloseFacts DEF SH!CloseOut, SH!ownVars
<1> QED
  BY <1>1, <1>2, <1>3, <1>4, <1>5, <1>6, <1>7, <1>8 DEF SH!Next, SH!Step, SH!Main

LEMMA SHFlowStep ==
  ASSUME SH!TypeOK, SHFlow, SH!Next
  PROVE  SHFlow' /\ shWG' \in 0 .. MaxValues
<1> USE ConstantFacts, SamePipes
<1>0. /\ shData \in Seq(Data) /\ Len(shData) \in Nat
      /\ workerPc \in [Numbers -> {"none", "started", "quota", "hashing", "hashed",
                                   "right", "joined", "sent", "done"}]
      /\ helper \in [Numbers -> {"none", "started", "locked", "filled", "done"}]
      /\ raw \in PipeOf(Data) /\ hashed \in PipeOf(SH!Hashes)
  BY LenProperties DEF SH!TypeOK
<1>1. IsFiniteSet(Computing) /\ IsFiniteSet(Computing') /\ Cardinality(Computing) \in Nat
  <2>1. Computing \in SUBSET Numbers /\ Computing' \in SUBSET Numbers
    BY DEF Computing
  <2> QED
    BY <2>1, FS_Subset, FS_CardinalityType
<1>2. Cardinality(Computing') \in 0 .. MaxValues
  <2>1. Computing' \in SUBSET Numbers /\ Cardinality(Numbers) = MaxValues
    BY FS_Interval DEF Computing, Numbers
  <2> QED
    BY <1>1, <2>1, FS_Subset, FS_CardinalityType
<1>3. SUFFICES SHFlow'
  BY <1>2 DEF SHFlow
<1>4. CASE SH!Take
  <2> DEFINE m == Len(shData) + 1
  <2>1. /\ shPc = "ranging" /\ shData' = Append(shData, First(raw)) /\ shWG' = shWG + 1
        /\ m \in Numbers /\ First(raw) \in Data
        /\ workerPc' = [workerPc EXCEPT ![m] = "started"]
        /\ helper' = [helper EXCEPT ![m] = "started"]
        /\ UNCHANGED <<hashed, shPc>>
    BY <1>0, <1>4, RestFacts DEF SH!Take
  <2>2. Len(shData') = m
    BY <1>0, <2>1, AppendProperties
  <2>3. m \notin Computing
    BY <1>0 DEF SHFlow, Computing
  <2>4. Computing' = Computing \cup {m}
    BY <1>0, <2>1 DEF Computing
  <2>5. Cardinality(Computing') = Cardinality(Computing) + 1
    BY <1>1, <2>3, <2>4, FS_AddElement
  <2> QED
    BY <1>0, <2>1, <2>2, <2>5 DEF SHFlow, Numbers
<1>5. CASE SH!RangeEnds
  <2>1. Computing' = Computing /\ shPc' = "waiting" /\ shPc = "ranging"
    BY <1>5 DEF SH!RangeEnds, Computing
  <2> QED
    BY <1>5, <2>1 DEF SHFlow, SH!RangeEnds
<1>6. CASE SH!Return
  <2>1. Computing' = Computing /\ Cardinality(Computing) = 0
    BY <1>6 DEF SH!Return, Computing, SHFlow
  <2>2. Computing = {}
    BY <1>1, <2>1, FS_EmptySet
  <2> QED
    BY <1>6, <2>1, <2>2 DEF SHFlow, SH!Return
<1>7. ASSUME NEW n \in Numbers, SH!Helper(n)
      PROVE  SHFlow'
  <2>1. /\ helper[n] # "none"
        /\ \E h \in {"locked", "filled", "done"} : helper' = [helper EXCEPT ![n] = h]
        /\ UNCHANGED <<hashed, shPc, shData, shWG, workerPc>>
    BY <1>7 DEF SH!Helper, SH!HelperLock, SH!HelperFill, SH!HelperUnlock
  <2>2. Computing' = Computing
    BY <2>1 DEF Computing
  <2> QED
    BY <1>0, <2>1, <2>2 DEF SHFlow
<1>8. ASSUME NEW n \in Numbers, SH!WorkerDone(n)
      PROVE  SHFlow'
  <2>1. /\ workerPc[n] = "sent" /\ workerPc' = [workerPc EXCEPT ![n] = "done"]
        /\ shWG' = shWG - 1
        /\ UNCHANGED <<hashed, shPc, shData, helper>>
    BY <1>8 DEF SH!WorkerDone
  <2>2. Computing' = Computing \ {n} /\ n \in Computing
    BY <1>0, <2>1 DEF Computing
  <2>3. Cardinality(Computing') = Cardinality(Computing) - 1
    BY <1>1, <2>2, FS_RemoveElement
  <2> QED
    BY <1>0, <2>1, <2>2, <2>3 DEF SHFlow
<1>9. ASSUME NEW n \in Numbers, SH!Worker(n), ~SH!WorkerDone(n)
      PROVE  SHFlow'
  <2>1. /\ workerPc[n] \notin {"none", "done"}
        /\ \E w \in {"quota", "hashing", "hashed", "right", "joined", "sent"} :
             workerPc' = [workerPc EXCEPT ![n] = w]
        /\ UNCHANGED <<shPc, shData, shWG, helper>>
        /\ hashed'.closed = hashed.closed
    <3>1. CASE SH!SendResult(n)
      <4> DEFINE r == <<leftSide[n], SH!RightSide(shData[n])>>
      <4>1. workerPc[n] = "joined" /\ hashed' = Put(hashed, r)
            /\ workerPc' = [workerPc EXCEPT ![n] = "sent"]
            /\ UNCHANGED <<shPc, shData, shWG, helper>>
        BY <3>1 DEF SH!SendResult
      <4> HIDE DEF r
      <4>2. hashed'.closed = hashed.closed
        BY <1>0, <4>1 DEF Put, PipeOf
      <4> QED
        BY <4>1, <4>2
    <3>2. CASE SH!EnterQuota(n) \/ SH!OverheatLock(n) \/ SH!OverheatUnlock(n)
      BY <3>2 DEF SH!EnterQuota, SH!OverheatLock, SH!OverheatUnlock
    <3>3. CASE SH!LeaveQuota(n) \/ SH!Join(n)
      BY <3>3 DEF SH!LeaveQuota, SH!Join
    <3> QED
      BY <1>9, <3>1, <3>2, <3>3 DEF SH!Worker
  <2>2. Computing' = Computing
    BY <1>0, <2>1 DEF Computing
  <2> QED
    BY <1>0, <2>1, <2>2 DEF SHFlow
<1>10. CASE SHOther
  <2>1. /\ UNCHANGED <<shPc, shData, shWG, workerPc, helper>>
        /\ hashed'.closed => hashed.closed \/ shPc = "returned"
    <3>1. CASE SH!Feed \/ SH!FeedEnds
      BY <3>1 DEF SH!Feed, SH!FeedEnds, SH!ownVars
    <3>2. CASE SH!Drain
      BY <1>0, <3>2, RestFacts DEF SH!Drain, SH!ownVars
    <3>3. CASE SH!CloseOut
      BY <3>3 DEF SH!CloseOut, SH!ownVars
    <3> QED
      BY <1>10, <3>1, <3>2, <3>3 DEF SHOther
  <2>2. Computing' = Computing
    BY <2>1 DEF Computing
  <2> QED
    BY <2>1, <2>2 DEF SHFlow
<1> QED
  BY <1>4, <1>5, <1>6, <1>7, <1>8, <1>9, <1>10
     DEF SHOther, SH!Next, SH!Step, SH!Main, SH!Worker

LEMMA SHQuotaStep ==
  ASSUME SH!TypeOK, SHFlow, SHQuota, SH!Next
  PROVE  SHQuota'
<1> USE ConstantFacts
<1>0. /\ workerPc \in [Numbers -> {"none", "started", "quota", "hashing", "hashed",
                                   "right", "joined", "sent", "done"}]
      /\ quotaCh \in 0 .. 1 /\ overheat \in {0, 1} /\ Len(shData) \in Nat
  BY LenProperties DEF SH!TypeOK
<1>1. CASE SH!Take
  <2>1. /\ Len(shData) + 1 \in Numbers
        /\ workerPc' = [workerPc EXCEPT ![Len(shData) + 1] = "started"]
        /\ UNCHANGED <<quotaCh, overheat>>
    BY <1>1 DEF SH!Take
  <2>2. workerPc[Len(shData) + 1] = "none"
    BY <1>0, <2>1 DEF SHFlow
  <2> QED
    BY <1>0, <2>1, <2>2 DEF SHQuota
<1>2. ASSUME NEW n \in Numbers, SH!EnterQuota(n)
      PROVE  SHQuota'
  BY <1>0, <1>2 DEF SHQuota, SH!EnterQuota
<1>3. ASSUME NEW n \in Numbers, SH!OverheatLock(n)
      PROVE  SHQuota'
  BY <1>0, <1>3 DEF SHQuota, SH!OverheatLock
<1>4. ASSUME NEW n \in Numbers, SH!OverheatUnlock(n)
      PROVE  SHQuota'
  BY <1>0, <1>4 DEF SHQuota, SH!OverheatUnlock
<1>5. ASSUME NEW n \in Numbers, SH!LeaveQuota(n)
      PROVE  SHQuota'
  BY <1>0, <1>5 DEF SHQuota, SH!LeaveQuota
<1>6. ASSUME NEW n \in Numbers, SH!Join(n) \/ SH!SendResult(n) \/ SH!WorkerDone(n)
      PROVE  SHQuota'
  <2>1. /\ workerPc[n] \in {"right", "joined", "sent"}
        /\ \E w \in {"joined", "sent", "done"} : workerPc' = [workerPc EXCEPT ![n] = w]
        /\ UNCHANGED <<quotaCh, overheat>>
    BY <1>6 DEF SH!Join, SH!SendResult, SH!WorkerDone
  <2> QED
    BY <1>0, <2>1 DEF SHQuota
<1>7. CASE UNCHANGED <<workerPc, quotaCh, overheat>>
  BY <1>7 DEF SHQuota
<1>8. ASSUME NEW n \in Numbers, SH!Helper(n)
      PROVE  UNCHANGED <<workerPc, quotaCh, overheat>>
  BY <1>8 DEF SH!Helper, SH!HelperLock, SH!HelperFill, SH!HelperUnlock
<1>9. CASE SH!RangeEnds \/ SH!Return \/ SHOther
  BY <1>7, <1>9 DEF SH!RangeEnds, SH!Return, SHOther, SH!Feed, SH!FeedEnds, SH!Drain,
                    SH!CloseOut, SH!ownVars
<1> QED
  BY <1>1, <1>2, <1>3, <1>4, <1>5, <1>6, <1>7, <1>8, <1>9
     DEF SHOther, SH!Next, SH!Step, SH!Main, SH!Worker

LEMMA SHLockStep ==
  ASSUME SH!TypeOK, SHFlow, SHLock, SH!Next
  PROVE  SHLock'
<1> USE ConstantFacts DEF SH!Empty, Empty, SH!Crc32, Crc32
<1>0. /\ workerPc \in [Numbers -> {"none", "started", "quota", "hashing", "hashed",
                                   "right", "joined", "sent", "done"}]
      /\ helper \in [Numbers -> {"none", "started", "locked", "filled", "done"}]
      /\ waitCh \in [Numbers -> {0, 1}]
      /\ leftSide \in [Numbers -> SH!LeftSides]
      /\ shData \in Seq(Data) /\ Len(shData) \in Nat
  BY LenProperties DEF SH!TypeOK
<1>1. CASE SH!Take
  <2> DEFINE m == Len(shData) + 1
  <2>1. /\ m \in Numbers /\ raw \in PipeOf(Data) /\ HasNext(raw)
        /\ shData' = Append(shData, First(raw))
        /\ workerPc' = [workerPc EXCEPT ![m] = "started"]
        /\ helper' = [helper EXCEPT ![m] = "started"]
        /\ UNCHANGED <<waitCh, leftSide>>
    BY <1>1, SamePipes DEF SH!Take, SH!TypeOK
  <2>2. \A n \in Numbers : helper[n] # "none" => shData'[n] = shData[n]
    <3>1. \A n \in Numbers : helper[n] # "none" => n \in 1 .. Len(shData)
      BY <1>0 DEF SHFlow, Numbers
    <3> QED
      BY <1>0, <2>1, <3>1, RestFacts, AppendProperties
  <2>3. workerPc[m] = "none" /\ helper[m] = "none"
    BY <1>0, <2>1 DEF SHFlow
  <2>4. SUFFICES ASSUME NEW n \in Numbers
                 PROVE  /\ helper'[n] \in {"locked", "filled"} =>
                             waitCh'[n] = 1 /\ workerPc'[n] \notin {"joined", "sent"}
                        /\ workerPc'[n] \in {"joined", "sent"} => waitCh'[n] = 1
                        /\ helper'[n] \in {"none", "started", "locked"} => leftSide'[n] = Empty
                        /\ helper'[n] \in {"filled", "done"} => leftSide'[n] = Crc32(shData'[n])
    BY DEF SHLock
  <2> HIDE DEF Empty, Crc32, m
  <2> QED
    BY <1>0, <2>1, <2>2, <2>3 DEF SHLock
<1>2. ASSUME NEW n \in Numbers, SH!HelperLock(n)
      PROVE  SHLock'
  BY <1>0, <1>2 DEF SHLock, SH!HelperLock
<1>3. ASSUME NEW n \in Numbers, SH!HelperFill(n)
      PROVE  SHLock'
  BY <1>0, <1>3 DEF SHLock, SH!HelperFill
<1>4. ASSUME NEW n \in Numbers, SH!HelperUnlock(n)
      PROVE  SHLock'
  BY <1>0, <1>4 DEF SHLock, SH!HelperUnlock
<1>5. ASSUME NEW n \in Numbers, SH!Join(n)
      PROVE  SHLock'
  BY <1>0, <1>5 DEF SHLock, SH!Join
<1>6. ASSUME NEW n \in Numbers, SH!SendResult(n)
      PROVE  SHLock'
  <2>1. /\ workerPc[n] = "joined" /\ workerPc' = [workerPc EXCEPT ![n] = "sent"]
        /\ UNCHANGED <<shData, helper, waitCh, leftSide>>
    BY <1>6 DEF SH!SendResult
  <2> QED
    BY <1>0, <2>1 DEF SHLock
<1>7. ASSUME NEW n \in Numbers, SH!WorkerDone(n)
      PROVE  SHLock'
  BY <1>0, <1>7 DEF SHLock, SH!WorkerDone
<1>8. ASSUME NEW n \in Numbers,
             SH!EnterQuota(n) \/ SH!OverheatLock(n) \/ SH!OverheatUnlock(n) \/ SH!LeaveQuota(n)
      PROVE  SHLock'
  <2>1. /\ workerPc[n] \notin {"joined", "sent"}
        /\ \E w \in {"quota", "hashing", "hashed", "right"} :
             workerPc' = [workerPc EXCEPT ![n] = w]
        /\ UNCHANGED <<shData, helper, waitCh, leftSide>>
    BY <1>8 DEF SH!EnterQuota, SH!OverheatLock, SH!OverheatUnlock, SH!LeaveQuota
  <2> QED
    BY <1>0, <2>1 DEF SHLock
<1>9. CASE UNCHANGED <<workerPc, helper, waitCh, leftSide, shData>>
  BY <1>9 DEF SHLock
<1>10. CASE SH!RangeEnds \/ SH!Return \/ SHOther
  BY <1>9, <1>10 DEF SH!RangeEnds, SH!Return, SHOther, SH!Feed, SH!FeedEnds, SH!Drain,
                     SH!CloseOut, SH!ownVars
<1> QED
  BY <1>1, <1>2, <1>3, <1>4, <1>5, <1>6, <1>7, <1>8, <1>10
     DEF SHOther, SH!Next, SH!Step, SH!Main, SH!Helper, SH!Worker

(* What a worker sends is made from its value.                              *)
LEMMA SHResult ==
  ASSUME SH!TypeOK, SHFlow, SHLock, NEW n \in Numbers
  PROVE  <<leftSide[n], SH!RightSide(shData[n])>> \in SH!MayGive(shData[n])
<1>1. helper[n] \in {"none", "started", "locked", "filled", "done"}
  BY ConstantFacts DEF SH!TypeOK
<1>2. leftSide[n] \in {SH!Empty, SH!Crc32(shData[n])}
  BY <1>1 DEF SHLock, SH!Empty, Empty, SH!Crc32, Crc32
<1> QED
  BY <1>2 DEF SH!MayGive

LEMMA SHGivenStep ==
  ASSUME SH!TypeOK, SHFlow, SHLock, SHGiven, SH!Next
  PROVE  SHGiven'
<1> USE ConstantFacts
<1> DEFINE Result == [by : SH!Workers, value : SH!Hashes]
<1>0. /\ workerPc \in [Numbers -> {"none", "started", "quota", "hashing", "hashed",
                                   "right", "joined", "sent", "done"}]
      /\ shData \in Seq(Data) /\ Len(shData) \in Nat
      /\ shResults \in Seq(Result) /\ Len(shResults) \in Nat
      /\ DOMAIN shResults = 1 .. Len(shResults)
  BY LenProperties DEF SH!TypeOK
<1>1. CASE SH!Take
  <2> DEFINE m == Len(shData) + 1
  <2>1. /\ m \in Numbers /\ raw \in PipeOf(Data) /\ HasNext(raw)
        /\ shData' = Append(shData, First(raw))
        /\ workerPc' = [workerPc EXCEPT ![m] = "started"]
        /\ shResults' = shResults
    BY <1>1, SamePipes DEF SH!Take, SH!TypeOK
  <2>2. Len(shData') = Len(shData) + 1 /\ \A n \in 1 .. Len(shData) : shData'[n] = shData[n]
    BY <1>0, <2>1, RestFacts, AppendProperties
  <2>3. workerPc[m] = "none"
    BY <1>0, <2>1 DEF SHFlow
  <2>4. ASSUME NEW i \in DOMAIN shResults'
        PROVE  /\ shResults'[i].by \in 1 .. Len(shData')
               /\ workerPc'[shResults'[i].by] \in {"sent", "done"}
               /\ shResults'[i].value \in SH!MayGive(shData'[shResults'[i].by])
    <3> DEFINE n == shResults[i].by
    <3>1. n \in 1 .. Len(shData) /\ workerPc[n] \in {"sent", "done"}
          /\ shResults[i].value \in SH!MayGive(shData[n])
      BY <2>1 DEF SHGiven
    <3>2. n \in 1 .. Len(shData') /\ shData'[n] = shData[n] /\ n # m /\ n \in Numbers
      BY <1>0, <2>1, <2>2, <3>1 DEF Numbers
    <3> HIDE DEF n
    <3>3. workerPc'[n] = workerPc[n]
      BY <1>0, <2>1, <3>2
    <3>4. shResults'[i] = shResults[i] /\ n = shResults[i].by
      BY <2>1 DEF n
    <3> QED
      BY <3>1, <3>2, <3>3, <3>4
  <2>5. \A n \in Numbers : workerPc'[n] \in {"sent", "done"} => workerPc[n] \in {"sent", "done"}
    BY <1>0, <2>1
  <2> QED
    BY <2>1, <2>4, <2>5 DEF SHGiven
<1>2. ASSUME NEW n \in Numbers, SH!SendResult(n)
      PROVE  SHGiven'
  <2> DEFINE r == <<leftSide[n], SH!RightSide(shData[n])>>
             e == [by |-> n, value |-> r]
  <2>1. /\ workerPc[n] = "joined" /\ workerPc' = [workerPc EXCEPT ![n] = "sent"]
        /\ shResults' = Append(shResults, e)
        /\ shData' = shData
    BY <1>2 DEF SH!SendResult
  <2>2. n \in 1 .. Len(shData) /\ shData[n] \in Data
    BY <2>1, SHValue
  <2>3. r \in SH!MayGive(shData[n]) /\ e.by = n /\ e.value = r
    BY SHResult
  <2>4. r \in SH!Hashes /\ e \in Result
    BY <1>0, <2>2 DEF SH!Hashes, SH!TypeOK
  <2> HIDE DEF e, r, Result
  <2>5. /\ Len(shResults') = Len(shResults) + 1
        /\ \A i \in DOMAIN shResults : shResults'[i] = shResults[i]
        /\ shResults'[Len(shResults) + 1] = e
        /\ DOMAIN shResults' = 1 .. Len(shResults) + 1
    <3>1. \A q \in Seq(Result) :
            /\ Append(q, e) \in Seq(Result) /\ Len(Append(q, e)) = Len(q) + 1
            /\ \A i \in 1 .. Len(q) : Append(q, e)[i] = q[i]
            /\ Append(q, e)[Len(q) + 1] = e
      BY <2>4, AppendProperties
    <3>2. \A q \in Seq(Result) : DOMAIN q = 1 .. Len(q)
      BY LenProperties
    <3> QED
      BY <1>0, <2>1, <3>1, <3>2
  <2>6. \A i \in DOMAIN shResults : shResults[i].by # n /\ shResults[i].by \in Numbers
    BY <1>0, <2>1 DEF SHGiven, Numbers, SH!TypeOK
  <2>7. \A i \in DOMAIN shResults' : i \in DOMAIN shResults \/ i = Len(shResults) + 1
    BY <1>0, <2>5
  <2>8. ASSUME NEW i \in DOMAIN shResults'
        PROVE  /\ shResults'[i].by \in 1 .. Len(shData')
               /\ workerPc'[shResults'[i].by] \in {"sent", "done"}
               /\ shResults'[i].value \in SH!MayGive(shData'[shResults'[i].by])
    <3>1. CASE i \in DOMAIN shResults
      <4>1. workerPc'[shResults[i].by] = workerPc[shResults[i].by]
        BY <1>0, <2>1, <2>6, <3>1
      <4> QED
        BY <2>1, <2>5, <3>1, <4>1 DEF SHGiven
    <3>2. CASE i = Len(shResults) + 1
      <4>1. workerPc'[n] = "sent"
        BY <1>0, <2>1
      <4> QED
        BY <2>1, <2>2, <2>3, <2>5, <3>2, <4>1
    <3> QED
      BY <2>7, <3>1, <3>2
  <2>9. \A i, j \in DOMAIN shResults' : shResults'[i].by = shResults'[j].by => i = j
    BY <2>3, <2>5, <2>6, <2>7 DEF SHGiven
  <2>10. \A m \in Numbers : workerPc'[m] \in {"sent", "done"} =>
            \E i \in DOMAIN shResults' : shResults'[i].by = m
    <3> SUFFICES ASSUME NEW m \in Numbers, workerPc'[m] \in {"sent", "done"}
                 PROVE  \E i \in DOMAIN shResults' : shResults'[i].by = m
      OBVIOUS
    <3>1. CASE m = n
      BY <1>0, <2>3, <2>5, <3>1
    <3>2. CASE m # n
      <4>1. workerPc[m] \in {"sent", "done"}
        BY <1>0, <2>1, <3>2
      <4>2. PICK i \in DOMAIN shResults : shResults[i].by = m
        BY <4>1 DEF SHGiven
      <4>3. i \in DOMAIN shResults' /\ shResults'[i].by = m
        BY <1>0, <2>5, <4>2
      <4> QED
        BY <4>3
    <3> QED
      BY <3>1, <3>2
  <2> QED
    BY <2>8, <2>9, <2>10 DEF SHGiven
<1>3. ASSUME NEW n \in Numbers, SH!Worker(n), ~SH!SendResult(n)
      PROVE  SHGiven'
  <2>1. /\ \E w \in {"quota", "hashing", "hashed", "right", "joined", "done"} :
             /\ workerPc' = [workerPc EXCEPT ![n] = w]
             /\ w \in {"sent", "done"} <=> workerPc[n] \in {"sent", "done"}
        /\ UNCHANGED <<shData, shResults>>
    <3>1. CASE SH!EnterQuota(n) \/ SH!OverheatLock(n) \/ SH!OverheatUnlock(n)
      BY <3>1 DEF SH!EnterQuota, SH!OverheatLock, SH!OverheatUnlock
    <3>2. CASE SH!LeaveQuota(n) \/ SH!Join(n) \/ SH!WorkerDone(n)
      BY <3>2 DEF SH!LeaveQuota, SH!Join, SH!WorkerDone
    <3> QED
      BY <1>3, <3>1, <3>2 DEF SH!Worker
  <2>2. \A m \in Numbers : workerPc'[m] \in {"sent", "done"} <=> workerPc[m] \in {"sent", "done"}
    BY <1>0, <2>1
  <2>3. \A i \in DOMAIN shResults : shResults[i].by \in Numbers
    BY <1>0 DEF SHGiven, Numbers, SH!TypeOK
  <2> QED
    BY <2>1, <2>2, <2>3 DEF SHGiven
<1>4. CASE UNCHANGED <<workerPc, shData, shResults>>
  BY <1>4 DEF SHGiven
<1>5. ASSUME NEW n \in Numbers, SH!Helper(n)
      PROVE  SHGiven'
  BY <1>4, <1>5 DEF SH!Helper, SH!HelperLock, SH!HelperFill, SH!HelperUnlock
<1>6. CASE SH!RangeEnds \/ SH!Return \/ SHOther
  BY <1>4, <1>6 DEF SH!RangeEnds, SH!Return, SHOther, SH!Feed, SH!FeedEnds, SH!Drain,
                     SH!CloseOut, SH!ownVars
<1> QED
  BY <1>1, <1>2, <1>3, <1>5, <1>6
     DEF SHOther, SH!Next, SH!Step, SH!Main, SH!Worker

LEMMA SHStutter ==
  ASSUME SHInv, UNCHANGED SH!vars
  PROVE  SHInv'
<1>1. UNCHANGED <<raw, hashed, shPc, shData, shWG, quotaCh, overheat, workerPc, helper,
                  waitCh, leftSide, shResults>>
  BY DEF SH!vars, SH!ownVars
<1>2. Computing' = Computing
  BY <1>1 DEF Computing
<1>3. SH!TypeOK'
  BY <1>1 DEF SHInv, SH!TypeOK
<1>4. SHFlow' /\ SHQuota'
  BY <1>1, <1>2 DEF SHInv, SHFlow, SHQuota
<1>5. SHLock' /\ SHGiven'
  BY <1>1 DEF SHInv, SHLock, SHGiven
<1> QED
  BY <1>3, <1>4, <1>5 DEF SHInv

LEMMA SHStep ==
  ASSUME SHInv, [SH!Next]_SH!vars
  PROVE  SHInv'
<1>1. CASE SH!Next
  BY <1>1, SHTypeStep, SHFlowStep, SHQuotaStep, SHLockStep, SHGivenStep DEF SHInv
<1> QED
  BY <1>1, SHStutter

(* What the invariant says of the properties.                               *)
LEMMA SHSafe ==
  ASSUME SHInv
  PROVE  NeverOverheats /\ JoinWaits /\ SH!OutClosedLast
<1> USE ConstantFacts DEF SHInv
<1>1. NeverOverheats
  BY DEF NeverOverheats, SH!NeverOverheats, SHQuota, SH!TypeOK
<1>2. JoinWaits
  <2> SUFFICES ASSUME NEW n \in Numbers, workerPc[n] = "joined"
               PROVE  \/ helper[n] = "done" /\ leftSide[n] = SH!Crc32(shData[n])
                      \/ helper[n] = "started" /\ leftSide[n] = SH!Empty
    BY DEF JoinWaits, SH!JoinWaits
  <2>1. helper[n] \in {"started", "locked", "filled", "done"}
    BY SHValue DEF SH!TypeOK
  <2> QED
    BY <2>1 DEF SHLock, SH!Crc32, Crc32, SH!Empty, Empty
<1>3. SH!OutClosedLast
  BY DEF SH!OutClosedLast, SHFlow, Computing
<1> QED
  BY <1>1, <1>2, <1>3

(* Every step of the job is one of its stage, or changes nothing of it.     *)
LEMMA SHStage ==
  ASSUME SHInv, [SH!Next]_SH!vars
  PROVE  [SH!Job!Next]_SH!Job!sVars
<1> USE ConstantFacts DEF SHInv
<1>1. CASE SH!Take
  <2>1. shPc = "ranging" /\ shPc' = shPc /\ shResults' = shResults
        /\ First(raw) \in Data /\ shData' = Append(shData, First(raw))
    BY <1>1, SamePipes, RestFacts DEF SH!Take, SH!TypeOK
  <2>2. SH!Job!Take(First(raw))
    BY <2>1 DEF SH!Job!Take
  <2> QED
    BY <2>1, <2>2 DEF SH!Job!Next
<1>2. ASSUME NEW n \in Numbers, SH!SendResult(n)
      PROVE  SH!Job!Next
  <2> DEFINE r == <<leftSide[n], SH!RightSide(shData[n])>>
  <2>1. /\ workerPc[n] = "joined" /\ shResults' = Append(shResults, [by |-> n, value |-> r])
        /\ shData' = shData /\ shPc' = shPc
    BY <1>2 DEF SH!SendResult
  <2>2. n \in DOMAIN shData /\ r \in SH!MayGive(shData[n])
    BY <2>1, SHValue, SHResult, LenProperties DEF SH!TypeOK
  <2>3. shPc # "returned"
    BY <2>1 DEF SHFlow, Computing
  <2>4. ~SH!Job!Given(n)
    BY <2>1 DEF SH!Job!Given, SHGiven
  <2>5. SH!Job!Give(n)
    BY <2>1, <2>2, <2>3, <2>4 DEF SH!Job!Give
  <2> QED
    BY <2>2, <2>5 DEF SH!Job!Next
<1>3. CASE SH!Return
  <2>1. shPc' = "returned" /\ UNCHANGED <<shData, shResults>> /\ Cardinality(Computing) = 0
    BY <1>3 DEF SH!Return, SHFlow
  <2>2. Computing = {}
    <3>1. IsFiniteSet(Computing)
      BY FS_Subset DEF Computing
    <3> QED
      BY <2>1, <3>1, FS_EmptySet
  <2>3. \A n \in DOMAIN shData : SH!Job!Given(n)
    <3> SUFFICES ASSUME NEW n \in DOMAIN shData
                 PROVE  SH!Job!Given(n)
      OBVIOUS
    <3>1. n \in Numbers /\ ~(n > Len(shData))
      BY LenProperties DEF SH!TypeOK, Numbers
    <3>2. workerPc[n] = "done"
      BY <2>2, <3>1 DEF SHFlow, Computing
    <3> QED
      BY <3>1, <3>2 DEF SHGiven, SH!Job!Given
  <2> QED
    BY <2>1, <2>3 DEF SH!Job!Return, SH!Job!Next
<1>4. ASSUME NEW n \in Numbers, SH!Worker(n), ~SH!SendResult(n)
      PROVE  UNCHANGED <<shData, shResults, shPc>>
  BY <1>4 DEF SH!Worker, SH!EnterQuota, SH!OverheatLock, SH!OverheatUnlock, SH!LeaveQuota,
              SH!Join, SH!WorkerDone
<1>5. ASSUME NEW n \in Numbers, SH!Helper(n)
      PROVE  UNCHANGED <<shData, shResults, shPc>>
  BY <1>5 DEF SH!Helper, SH!HelperLock, SH!HelperFill, SH!HelperUnlock
<1>6. CASE SHOther \/ UNCHANGED SH!vars
  BY <1>6 DEF SHOther, SH!Feed, SH!FeedEnds, SH!Drain, SH!CloseOut, SH!vars, SH!ownVars,
              SH!Job!sVars
<1>7. CASE SH!RangeEnds
  BY <1>7 DEF SH!RangeEnds, SH!Job!sVars
<1>8. CASE UNCHANGED <<shData, shResults, shPc>>
  BY <1>8 DEF SH!Job!sVars
<1> QED
  BY <1>1, <1>2, <1>3, <1>4, <1>5, <1>6, <1>7, <1>8
     DEF SHOther, SH!Next, SH!Step, SH!Main, SH!Worker

-----------------------------------------------------------------------------
(* MultiHash.                                                               *)

MHComputing == {n \in Numbers : mhWorkerPc[n] \notin {"none", "done"}}

(* As in SingleHash.                                                        *)
MHFlow ==
  /\ \A n \in Numbers : mhWorkerPc[n] = "none" <=> n > Len(mhData)
  /\ mhWG = Cardinality(MHComputing)
  /\ mhPc = "returned" => MHComputing = {}
  /\ multi.closed => mhPc = "returned"

(* The wait group of a worker counts the slots that are still empty.        *)
Unfilled(n) == {th \in MH!Th : sums[n][th] = Empty}

MHSums ==
  \A n \in Numbers :
    /\ mhWorkerPc[n] \in {"none", "started"} => \A th \in MH!Th : sums[n][th] = Empty
    /\ \A th \in MH!Th : sums[n][th] \in {Empty, Crc32(<<th - 1, mhData[n]>>)}
    /\ mhWorkerPc[n] = "waiting" => innerWG[n] = Cardinality(Unfilled(n))

(* A worker that has sent has given the one result of its value.            *)
MHGiven ==
  /\ \A i \in DOMAIN mhResults :
       /\ mhResults[i].by \in 1 .. Len(mhData)
       /\ mhWorkerPc[mhResults[i].by] \in {"sent", "done"}
       /\ mhResults[i].value = MH!MultiHashOf(mhData[mhResults[i].by])
  /\ \A i, j \in DOMAIN mhResults : mhResults[i].by = mhResults[j].by => i = j
  /\ \A n \in Numbers : mhWorkerPc[n] \in {"sent", "done"} =>
       \E i \in DOMAIN mhResults : mhResults[i].by = n

MHInv == MH!TypeOK /\ MHFlow /\ MHSums /\ MHGiven

LEMMA ThFacts ==
  /\ MH!Th = 1 .. ThLimit
  /\ IsFiniteSet(MH!Th)
  /\ Cardinality(MH!Th) = ThLimit
  /\ \A x : MH!Crc32(x) = Crc32(x) /\ Crc32(x) # Empty
  /\ MH!Empty = Empty
<1>1. MH!Th = 1 .. ThLimit /\ IsFiniteSet(MH!Th) /\ Cardinality(MH!Th) = ThLimit
  BY ConstantFacts, FS_Interval DEF MH!Th
<1>2. \A x : MH!Crc32(x) = Crc32(x) /\ Crc32(x) # Empty
  BY DEF MH!Crc32, Crc32, Empty
<1> QED
  BY <1>1, <1>2 DEF MH!Empty, Empty

LEMMA UnfilledFacts ==
  ASSUME NEW n
  PROVE  /\ IsFiniteSet(Unfilled(n)) /\ Cardinality(Unfilled(n)) \in 0 .. ThLimit
         /\ Cardinality(Unfilled(n)) = 0 <=> Unfilled(n) = {}
<1>1. Unfilled(n) \in SUBSET MH!Th
  BY DEF Unfilled
<1>2. IsFiniteSet(Unfilled(n)) /\ Cardinality(Unfilled(n)) <= ThLimit
  BY <1>1, ThFacts, FS_Subset
<1> QED
  BY <1>2, ConstantFacts, FS_CardinalityType, FS_EmptySet

LEMMA MHStart ==
  ASSUME hashed = NewPipe, multi = NewPipe, MH!Init
  PROVE  MHInv
<1> USE ConstantFacts
<1>1. MH!TypeOK
  <2>1. hashed \in PipeOf(SH!Hashes) /\ multi \in PipeOf([MH!Th -> MH!Sums])
    BY NewPipeFacts
  <2>2. <<>> \in Seq(SH!Hashes) /\ Len(<<>>) = 0
        /\ <<>> \in Seq([by : MH!Workers, value : [MH!Th -> MH!Sums]])
    BY EmptySeq
  <2>3. MH!Empty \in MH!Sums
    BY DEF MH!Sums
  <2> QED
    BY <2>1, <2>2, <2>3, SamePipes DEF MH!Init, MH!TypeOK
<1>2. MHComputing = {}
  BY DEF MH!Init, MHComputing
<1>3. MHFlow
  <2>1. mhData = <<>> /\ Len(mhData) = 0 /\ mhWG = 0 /\ mhPc = "ranging" /\ ~multi.closed
    BY NewPipeFacts DEF MH!Init
  <2>2. \A n \in Numbers : mhWorkerPc[n] = "none" /\ n > 0
    BY DEF MH!Init, Numbers
  <2>3. Cardinality(MHComputing) = 0
    BY <1>2, FS_EmptySet
  <2> QED
    BY <1>2, <2>1, <2>2, <2>3 DEF MHFlow
<1>4. MHSums
  BY ThFacts DEF MHSums, MH!Init
<1>5. MHGiven
  BY DEF MHGiven, MH!Init
<1> QED
  BY <1>1, <1>3, <1>4, <1>5 DEF MHInv

(* The steps of the jobs around it.                                         *)
MHOther == MH!Feed \/ MH!FeedEnds \/ MH!Drain \/ MH!CloseOut

LEMMA MHValue ==
  ASSUME MH!TypeOK, MHFlow, NEW n \in Numbers, mhWorkerPc[n] # "none"
  PROVE  n \in 1 .. Len(mhData) /\ mhData[n] \in SH!Hashes
<1>1. mhData \in Seq(SH!Hashes) /\ Len(mhData) \in Nat
  BY LenProperties DEF MH!TypeOK
<1>2. n \in Nat /\ n >= 1 /\ n <= Len(mhData)
  BY <1>1, ConstantFacts DEF MHFlow, Numbers
<1> QED
  BY <1>1, <1>2, ElementOfSeq

LEMMA ChecksumFacts ==
  ASSUME NEW th \in MH!Th, NEW d \in SH!Hashes
  PROVE  MH!Crc32(<<th - 1, d>>) \in MH!Sums
<1> DEFINE Checksums == {MH!Crc32(<<t - 1, e>>) : t \in MH!Th, e \in SH!Hashes}
<1>1. MH!Crc32(<<th - 1, d>>) \in Checksums
  OBVIOUS
<1>2. MH!Sums = {MH!Empty} \cup Checksums
  BY DEF MH!Sums
<1> QED
  BY <1>1, <1>2

LEMMA MHTypeStep ==
  ASSUME MH!TypeOK, MHFlow, MHSums, MH!Next, mhWG' \in 0 .. MaxValues
  PROVE  MH!TypeOK'
<1> USE ConstantFacts, SamePipes DEF MH!TypeOK
<1>1. CASE MH!Take
  <2> DEFINE n == Len(mhData) + 1
  <2>1. hashed' \in PipeOf(SH!Hashes) /\ First(hashed) \in SH!Hashes
    BY <1>1, RestFacts DEF MH!Take
  <2>2. /\ mhData' = Append(mhData, First(hashed)) /\ mhPc' = mhPc /\ multi' = multi
        /\ n \in Numbers
        /\ mhWorkerPc' = [mhWorkerPc EXCEPT ![n] = "started"]
        /\ UNCHANGED <<innerWG, sums, mhResults>>
    BY <1>1 DEF MH!Take
  <2>3. mhData' \in Seq(SH!Hashes) /\ Len(mhData') = n
    BY <2>1, <2>2, AppendProperties
  <2> QED
    BY <2>1, <2>2, <2>3 DEF Numbers
<1>2. CASE MH!RangeEnds \/ MH!Return
  BY <1>2 DEF MH!RangeEnds, MH!Return
<1>3. ASSUME NEW n \in Numbers, NEW th \in MH!Th, MH!HelperDone(n, th)
      PROVE  MH!TypeOK'
  <2>1. /\ mhWorkerPc[n] = "waiting" /\ sums[n][th] = Empty
        /\ sums' = [sums EXCEPT ![n][th] = MH!Crc32(<<th - 1, mhData[n]>>)]
        /\ innerWG' = [innerWG EXCEPT ![n] = @ - 1]
        /\ UNCHANGED <<hashed, multi, mhPc, mhData, mhWorkerPc, mhResults>>
    BY <1>3, ThFacts DEF MH!HelperDone
  <2>2. MH!Crc32(<<th - 1, mhData[n]>>) \in MH!Sums
    BY <2>1, MHValue, ChecksumFacts
  <2>3. innerWG[n] \in 1 .. ThLimit
    <3>1. th \in Unfilled(n) /\ innerWG[n] = Cardinality(Unfilled(n))
      BY <2>1 DEF Unfilled, MHSums
    <3> QED
      BY <3>1, UnfilledFacts
  <2> QED
    BY <2>1, <2>2, <2>3
<1>4. ASSUME NEW n \in Numbers, MH!SendResult(n)
      PROVE  MH!TypeOK'
  <2>1. /\ multi' = Put(multi, sums[n])
        /\ mhResults' = Append(mhResults, [by |-> n, value |-> sums[n]])
        /\ mhWorkerPc' = [mhWorkerPc EXCEPT ![n] = "sent"]
        /\ UNCHANGED <<hashed, mhPc, mhData, innerWG, sums>>
    BY <1>4 DEF MH!SendResult
  <2>2. sums[n] \in [MH!Th -> MH!Sums]
    OBVIOUS
  <2>3. multi' \in PipeOf([MH!Th -> MH!Sums])
    BY <2>1, <2>2, PutFacts
  <2>4. [by |-> n, value |-> sums[n]] \in [by : MH!Workers, value : [MH!Th -> MH!Sums]]
    BY <2>2
  <2>5. mhResults' \in Seq([by : MH!Workers, value : [MH!Th -> MH!Sums]])
    BY <2>1, <2>4, AppendProperties
  <2> QED
    BY <2>1, <2>3, <2>5
<1>5. ASSUME NEW n \in Numbers, MH!Spawn(n) \/ MH!WorkerDone(n)
      PROVE  MH!TypeOK'
  <2>1. CASE MH!Spawn(n)
    BY <2>1 DEF MH!Spawn
  <2>2. CASE MH!WorkerDone(n)
    BY <2>2 DEF MH!WorkerDone
  <2> QED
    BY <1>5, <2>1, <2>2
<1>6. CASE MH!Feed
  BY <1>6, PutFacts DEF MH!Feed, MH!ownVars
<1>7. CASE MH!FeedEnds
  BY <1>7, CloseFacts DEF MH!FeedEnds, MH!ownVars
<1>8. CASE MH!Drain
  BY <1>8, RestFacts DEF MH!Drain, MH!ownVars
<1>9. CASE MH!CloseOut
  BY <1>9, CloseFacts DEF MH!CloseOut, MH!ownVars
<1> QED
  BY <1>1, <1>2, <1>3, <1>4, <1>5, <1>6, <1>7, <1>8, <1>9
     DEF MH!Next, MH!Step, MH!Main, MH!Helper, MH!Worker

LEMMA MHFlowStep ==
  ASSUME MH!TypeOK, MHFlow, MH!Next
  PROVE  MHFlow' /\ mhWG' \in 0 .. MaxValues
<1> USE ConstantFacts, SamePipes
<1>0. /\ mhData \in Seq(SH!Hashes) /\ Len(mhData) \in Nat
      /\ mhWorkerPc \in [Numbers -> {"none", "started", "waiting", "sent", "done"}]
      /\ hashed \in PipeOf(SH!Hashes) /\ multi \in PipeOf([MH!Th -> MH!Sums])
      /\ sums \in [Numbers -> [MH!Th -> MH!Sums]]
  BY LenProperties DEF MH!TypeOK
<1>1. IsFiniteSet(MHComputing) /\ IsFiniteSet(MHComputing') /\ Cardinality(MHComputing) \in Nat
  <2>1. MHComputing \in SUBSET Numbers /\ MHComputing' \in SUBSET Numbers
    BY DEF MHComputing
  <2> QED
    BY <2>1, FS_Subset, FS_CardinalityType
<1>2. Cardinality(MHComputing') \in 0 .. MaxValues
  <2>1. MHComputing' \in SUBSET Numbers /\ Cardinality(Numbers) = MaxValues
    BY FS_Interval DEF MHComputing, Numbers
  <2> QED
    BY <1>1, <2>1, FS_Subset, FS_CardinalityType
<1>3. SUFFICES MHFlow'
  BY <1>2 DEF MHFlow
<1>4. CASE MH!Take
  <2> DEFINE m == Len(mhData) + 1
  <2>1. /\ mhPc = "ranging" /\ mhData' = Append(mhData, First(hashed)) /\ mhWG' = mhWG + 1
        /\ m \in Numbers /\ First(hashed) \in SH!Hashes
        /\ mhWorkerPc' = [mhWorkerPc EXCEPT ![m] = "started"]
        /\ UNCHANGED <<multi, mhPc>>
    BY <1>0, <1>4, RestFacts DEF MH!Take
  <2>2. Len(mhData') = m
    BY <1>0, <2>1, AppendProperties
  <2>3. m \notin MHComputing
    BY <1>0 DEF MHFlow, MHComputing
  <2>4. MHComputing' = MHComputing \cup {m}
    BY <1>0, <2>1 DEF MHComputing
  <2>5. Cardinality(MHComputing') = Cardinality(MHComputing) + 1
    BY <1>1, <2>3, <2>4, FS_AddElement
  <2> QED
    BY <1>0, <2>1, <2>2, <2>5 DEF MHFlow, Numbers
<1>5. CASE MH!RangeEnds
  <2>1. MHComputing' = MHComputing /\ mhPc' = "waiting" /\ mhPc = "ranging"
    BY <1>5 DEF MH!RangeEnds, MHComputing
  <2> QED
    BY <1>5, <2>1 DEF MHFlow, MH!RangeEnds
<1>6. CASE MH!Return
  <2>1. MHComputing' = MHComputing /\ Cardinality(MHComputing) = 0
    BY <1>6 DEF MH!Return, MHComputing, MHFlow
  <2>2. MHComputing = {}
    BY <1>1, <2>1, FS_EmptySet
  <2> QED
    BY <1>6, <2>1, <2>2 DEF MHFlow, MH!Return
<1>7. ASSUME NEW n \in Numbers, MH!WorkerDone(n)
      PROVE  MHFlow'
  <2>1. /\ mhWorkerPc[n] = "sent" /\ mhWorkerPc' = [mhWorkerPc EXCEPT ![n] = "done"]
        /\ mhWG' = mhWG - 1
        /\ UNCHANGED <<multi, mhPc, mhData>>
    BY <1>7 DEF MH!WorkerDone
  <2>2. MHComputing' = MHComputing \ {n} /\ n \in MHComputing
    BY <1>0, <2>1 DEF MHComputing
  <2>3. Cardinality(MHComputing') = Cardinality(MHComputing) - 1
    BY <1>1, <2>2, FS_RemoveElement
  <2> QED
    BY <1>0, <2>1, <2>2, <2>3 DEF MHFlow
<1>8. ASSUME NEW n \in Numbers, MH!Spawn(n) \/ MH!SendResult(n)
      PROVE  MHFlow'
  <2>1. /\ mhWorkerPc[n] \notin {"none", "done"}
        /\ \E w \in {"waiting", "sent"} : mhWorkerPc' = [mhWorkerPc EXCEPT ![n] = w]
        /\ UNCHANGED <<mhPc, mhData, mhWG>>
        /\ multi'.closed = multi.closed
    <3>1. CASE MH!SendResult(n)
      <4>1. mhWorkerPc[n] = "waiting" /\ multi' = Put(multi, sums[n])
            /\ mhWorkerPc' = [mhWorkerPc EXCEPT ![n] = "sent"]
            /\ UNCHANGED <<mhPc, mhData, mhWG>>
        BY <3>1 DEF MH!SendResult
      <4>2. multi'.closed = multi.closed
        BY <1>0, <4>1 DEF Put, PipeOf
      <4> QED
        BY <4>1, <4>2
    <3> QED
      BY <1>8, <3>1 DEF MH!Spawn
  <2>2. MHComputing' = MHComputing
    BY <1>0, <2>1 DEF MHComputing
  <2> QED
    BY <1>0, <2>1, <2>2 DEF MHFlow
<1>9. ASSUME NEW n \in Numbers, NEW th \in MH!Th, MH!HelperDone(n, th)
      PROVE  MHFlow'
  <2>1. UNCHANGED <<multi, mhPc, mhData, mhWG, mhWorkerPc>>
    BY <1>9 DEF MH!HelperDone
  <2>2. MHComputing' = MHComputing
    BY <2>1 DEF MHComputing
  <2> QED
    BY <2>1, <2>2 DEF MHFlow
<1>10. CASE MHOther
  <2>1. /\ UNCHANGED <<mhPc, mhData, mhWG, mhWorkerPc>>
        /\ multi'.closed => multi.closed \/ mhPc = "returned"
    <3>1. CASE MH!Feed \/ MH!FeedEnds
      BY <3>1 DEF MH!Feed, MH!FeedEnds, MH!ownVars
    <3>2. CASE MH!Drain
      BY <1>0, <3>2, RestFacts DEF MH!Drain, MH!ownVars
    <3>3. CASE MH!CloseOut
      BY <3>3 DEF MH!CloseOut, MH!ownVars
    <3> QED
      BY <1>10, <3>1, <3>2, <3>3 DEF MHOther
  <2>2. MHComputing' = MHComputing
    BY <2>1 DEF MHComputing
  <2> QED
    BY <2>1, <2>2 DEF MHFlow
<1> QED
  BY <1>4, <1>5, <1>6, <1>7, <1>8, <1>9, <1>10
     DEF MHOther, MH!Next, MH!Step, MH!Main, MH!Helper, MH!Worker

LEMMA MHSumsStep ==
  ASSUME MH!TypeOK, MHFlow, MHSums, MH!Next
  PROVE  MHSums'
<1> USE ConstantFacts, ThFacts
<1>0. /\ mhWorkerPc \in [Numbers -> {"none", "started", "waiting", "sent", "done"}]
      /\ innerWG \in [Numbers -> 0 .. ThLimit]
      /\ sums \in [Numbers -> [MH!Th -> MH!Sums]]
      /\ mhData \in Seq(SH!Hashes) /\ Len(mhData) \in Nat
  BY LenProperties DEF MH!TypeOK
<1>1. CASE MH!Take
  <2> DEFINE m == Len(mhData) + 1
  <2>1. /\ m \in Numbers /\ hashed \in PipeOf(SH!Hashes) /\ HasNext(hashed)
        /\ mhData' = Append(mhData, First(hashed))
        /\ mhWorkerPc' = [mhWorkerPc EXCEPT ![m] = "started"]
        /\ UNCHANGED <<innerWG, sums>>
    BY <1>1, SamePipes DEF MH!Take, MH!TypeOK
  <2>2. \A n \in Numbers : mhWorkerPc[n] # "none" => mhData'[n] = mhData[n] /\ n # m
    <3>1. \A n \in Numbers : mhWorkerPc[n] # "none" => n \in 1 .. Len(mhData)
      BY <1>0 DEF MHFlow, Numbers
    <3> QED
      BY <1>0, <2>1, <3>1, RestFacts, AppendProperties
  <2>3. mhWorkerPc[m] = "none"
    BY <1>0, <2>1 DEF MHFlow
  <2>4. \A n \in Numbers : Unfilled(n)' = Unfilled(n)
    BY <2>1 DEF Unfilled
  <2> HIDE DEF m
  <2>5. ASSUME NEW n \in Numbers
        PROVE  /\ mhWorkerPc'[n] \in {"none", "started"} => \A th \in MH!Th : sums'[n][th] = Empty
               /\ \A th \in MH!Th : sums'[n][th] \in {Empty, Crc32(<<th - 1, mhData'[n]>>)}
               /\ mhWorkerPc'[n] = "waiting" => innerWG'[n] = Cardinality(Unfilled(n)')
    BY <1>0, <2>1, <2>2, <2>3, <2>4 DEF MHSums
  <2> QED
    BY <2>5 DEF MHSums
<1>2. ASSUME NEW n \in Numbers, MH!Spawn(n)
      PROVE  MHSums'
  <2>1. /\ mhWorkerPc[n] = "started" /\ mhWorkerPc' = [mhWorkerPc EXCEPT ![n] = "waiting"]
        /\ innerWG' = [innerWG EXCEPT ![n] = ThLimit]
        /\ UNCHANGED <<sums, mhData>>
    BY <1>2 DEF MH!Spawn
  <2>2. \A m : Unfilled(m)' = Unfilled(m)
    BY <2>1 DEF Unfilled
  <2>3. Unfilled(n) = MH!Th
    BY <2>1 DEF Unfilled, MHSums
  <2> QED
    BY <1>0, <2>1, <2>2, <2>3 DEF MHSums
<1>3. ASSUME NEW n \in Numbers, NEW th \in MH!Th, MH!HelperDone(n, th)
      PROVE  MHSums'
  <2> DEFINE c == Crc32(<<th - 1, mhData[n]>>)
  <2>1. /\ mhWorkerPc[n] = "waiting" /\ sums[n][th] = Empty
        /\ sums' = [sums EXCEPT ![n][th] = c]
        /\ innerWG' = [innerWG EXCEPT ![n] = @ - 1]
        /\ UNCHANGED <<mhWorkerPc, mhData>>
    BY <1>3 DEF MH!HelperDone
  <2>2. c # Empty
    OBVIOUS
  <2> HIDE DEF c
  <2>3. \A m \in Numbers, t \in MH!Th : sums'[m][t] = IF m = n /\ t = th THEN c ELSE sums[m][t]
    BY <1>0, <2>1
  <2>4. \A m \in Numbers : m # n => Unfilled(m)' = Unfilled(m)
    BY <2>3 DEF Unfilled
  <2>5. Unfilled(n)' = Unfilled(n) \ {th} /\ th \in Unfilled(n)
    BY <2>1, <2>2, <2>3 DEF Unfilled
  <2>6. Cardinality(Unfilled(n)') = Cardinality(Unfilled(n)) - 1
    BY <2>5, UnfilledFacts, FS_RemoveElement
  <2>7. innerWG'[n] = Cardinality(Unfilled(n)')
    BY <1>0, <2>1, <2>6 DEF MHSums
  <2>8. \A m \in Numbers : m # n => innerWG'[m] = innerWG[m]
    BY <1>0, <2>1
  <2>9. \A m \in Numbers, t \in MH!Th : sums'[m][t] \in {Empty, Crc32(<<t - 1, mhData'[m]>>)}
    BY <2>1, <2>3 DEF MHSums, c
  <2> QED
    BY <2>1, <2>3, <2>4, <2>7, <2>8, <2>9 DEF MHSums
<1>4. ASSUME NEW n \in Numbers, MH!SendResult(n) \/ MH!WorkerDone(n)
      PROVE  MHSums'
  <2>1. /\ mhWorkerPc[n] \in {"waiting", "sent"}
        /\ \E w \in {"sent", "done"} : mhWorkerPc' = [mhWorkerPc EXCEPT ![n] = w]
        /\ UNCHANGED <<sums, mhData, innerWG>>
    BY <1>4 DEF MH!SendResult, MH!WorkerDone
  <2>2. \A m : Unfilled(m)' = Unfilled(m)
    BY <2>1 DEF Unfilled
  <2> QED
    BY <1>0, <2>1, <2>2 DEF MHSums
<1>5. CASE UNCHANGED <<mhWorkerPc, innerWG, sums, mhData>>
  <2>1. \A m : Unfilled(m)' = Unfilled(m)
    BY <1>5 DEF Unfilled
  <2> QED
    BY <1>5, <2>1 DEF MHSums
<1>6. CASE MH!RangeEnds \/ MH!Return \/ MHOther
  BY <1>5, <1>6 DEF MH!RangeEnds, MH!Return, MHOther, MH!Feed, MH!FeedEnds, MH!Drain,
                    MH!CloseOut, MH!ownVars
<1> QED
  BY <1>1, <1>2, <1>3, <1>4, <1>6
     DEF MHOther, MH!Next, MH!Step, MH!Main, MH!Helper, MH!Worker

(* A worker whose wait group is at zero has all its checksums.              *)
LEMMA MHResult ==
  ASSUME MH!TypeOK, MHFlow, MHSums, NEW n \in Numbers,
         mhWorkerPc[n] = "waiting", innerWG[n] = 0
  PROVE  sums[n] = MH!MultiHashOf(mhData[n])
<1> USE ConstantFacts, ThFacts
<1>1. Unfilled(n) = {}
  BY UnfilledFacts DEF MHSums
<1>2. \A th \in MH!Th : sums[n][th] = Crc32(<<th - 1, mhData[n]>>)
  BY <1>1 DEF MHSums, Unfilled
<1>3. sums[n] \in [MH!Th -> MH!Sums]
  BY DEF MH!TypeOK
<1> QED
  BY <1>2, <1>3 DEF MH!MultiHashOf

LEMMA MHGivenStep ==
  ASSUME MH!TypeOK, MHFlow, MHSums, MHGiven, MH!Next
  PROVE  MHGiven'
<1> USE ConstantFacts
<1> DEFINE Result == [by : MH!Workers, value : [MH!Th -> MH!Sums]]
<1>0. /\ mhWorkerPc \in [Numbers -> {"none", "started", "waiting", "sent", "done"}]
      /\ mhData \in Seq(SH!Hashes) /\ Len(mhData) \in Nat
      /\ mhResults \in Seq(Result) /\ Len(mhResults) \in Nat
      /\ DOMAIN mhResults = 1 .. Len(mhResults)
      /\ sums \in [Numbers -> [MH!Th -> MH!Sums]]
  BY LenProperties DEF MH!TypeOK
<1>1. CASE MH!Take
  <2> DEFINE m == Len(mhData) + 1
  <2>1. /\ m \in Numbers /\ hashed \in PipeOf(SH!Hashes) /\ HasNext(hashed)
        /\ mhData' = Append(mhData, First(hashed))
        /\ mhWorkerPc' = [mhWorkerPc EXCEPT ![m] = "started"]
        /\ mhResults' = mhResults
    BY <1>1, SamePipes DEF MH!Take, MH!TypeOK
  <2>2. Len(mhData') = Len(mhData) + 1 /\ \A n \in 1 .. Len(mhData) : mhData'[n] = mhData[n]
    BY <1>0, <2>1, RestFacts, AppendProperties
  <2>3. mhWorkerPc[m] = "none"
    BY <1>0, <2>1 DEF MHFlow
  <2>4. ASSUME NEW i \in DOMAIN mhResults'
        PROVE  /\ mhResults'[i].by \in 1 .. Len(mhData')
               /\ mhWorkerPc'[mhResults'[i].by] \in {"sent", "done"}
               /\ mhResults'[i].value = MH!MultiHashOf(mhData'[mhResults'[i].by])
    <3> DEFINE n == mhResults[i].by
    <3>1. n \in 1 .. Len(mhData) /\ mhWorkerPc[n] \in {"sent", "done"}
          /\ mhResults[i].value = MH!MultiHashOf(mhData[n])
      BY <2>1 DEF MHGiven
    <3>2. n \in 1 .. Len(mhData') /\ mhData'[n] = mhData[n] /\ n # m /\ n \in Numbers
      BY <1>0, <2>1, <2>2, <3>1 DEF Numbers
    <3> HIDE DEF n
    <3>3. mhWorkerPc'[n] = mhWorkerPc[n]
      BY <1>0, <2>1, <3>2
    <3>4. mhResults'[i] = mhResults[i] /\ n = mhResults[i].by
      BY <2>1 DEF n
    <3> QED
      BY <3>1, <3>2, <3>3, <3>4
  <2>5. \A n \in Numbers : mhWorkerPc'[n] \in {"sent", "done"} => mhWorkerPc[n] \in {"sent", "done"}
    BY <1>0, <2>1
  <2> QED
    BY <2>1, <2>4, <2>5 DEF MHGiven
<1>2. ASSUME NEW n \in Numbers, MH!SendResult(n)
      PROVE  MHGiven'
  <2> DEFINE r == sums[n]
             e == [by |-> n, value |-> r]
  <2>1. /\ mhWorkerPc[n] = "waiting" /\ innerWG[n] = 0
        /\ mhWorkerPc' = [mhWorkerPc EXCEPT ![n] = "sent"]
        /\ mhResults' = Append(mhResults, e)
        /\ mhData' = mhData
    BY <1>2 DEF MH!SendResult
  <2>2. n \in 1 .. Len(mhData)
    BY <2>1, MHValue
  <2>3. r = MH!MultiHashOf(mhData[n]) /\ e.by = n /\ e.value = r
    BY <2>1, MHResult
  <2>4. e \in Result
    BY <1>0
  <2> HIDE DEF e, r, Result
  <2>5. /\ Len(mhResults') = Len(mhResults) + 1
        /\ \A i \in DOMAIN mhResults : mhResults'[i] = mhResults[i]
        /\ mhResults'[Len(mhResults) + 1] = e
        /\ DOMAIN mhResults' = 1 .. Len(mhResults) + 1
    BY <1>0, <2>1, <2>4, AppendProperties, LenProperties
  <2>6. \A i \in DOMAIN mhResults : mhResults[i].by # n /\ mhResults[i].by \in Numbers
    <3>1. Len(mhData) <= MaxValues
      BY DEF MH!TypeOK
    <3> QED
      BY <1>0, <2>1, <3>1 DEF MHGiven, Numbers
  <2>7. \A i \in DOMAIN mhResults' : i \in DOMAIN mhResults \/ i = Len(mhResults) + 1
    BY <1>0, <2>5
  <2>8. ASSUME NEW i \in DOMAIN mhResults'
        PROVE  /\ mhResults'[i].by \in 1 .. Len(mhData')
               /\ mhWorkerPc'[mhResults'[i].by] \in {"sent", "done"}
               /\ mhResults'[i].value = MH!MultiHashOf(mhData'[mhResults'[i].by])
    <3>1. CASE i \in DOMAIN mhResults
      <4>1. mhWorkerPc'[mhResults[i].by] = mhWorkerPc[mhResults[i].by]
        BY <1>0, <2>1, <2>6, <3>1
      <4> QED
        BY <2>1, <2>5, <3>1, <4>1 DEF MHGiven
    <3>2. CASE i = Len(mhResults) + 1
      <4>1. mhWorkerPc'[n] = "sent"
        BY <1>0, <2>1
      <4> QED
        BY <2>1, <2>2, <2>3, <2>5, <3>2, <4>1
    <3> QED
      BY <2>7, <3>1, <3>2
  <2>9. \A i, j \in DOMAIN mhResults' : mhResults'[i].by = mhResults'[j].by => i = j
    BY <2>3, <2>5, <2>6, <2>7 DEF MHGiven
  <2>10. \A m \in Numbers : mhWorkerPc'[m] \in {"sent", "done"} =>
            \E i \in DOMAIN mhResults' : mhResults'[i].by = m
    <3> SUFFICES ASSUME NEW m \in Numbers, mhWorkerPc'[m] \in {"sent", "done"}
                 PROVE  \E i \in DOMAIN mhResults' : mhResults'[i].by = m
      OBVIOUS
    <3>1. CASE m = n
      BY <1>0, <2>3, <2>5, <3>1
    <3>2. CASE m # n
      <4>1. mhWorkerPc[m] \in {"sent", "done"}
        BY <1>0, <2>1, <3>2
      <4>2. PICK i \in DOMAIN mhResults : mhResults[i].by = m
        BY <4>1 DEF MHGiven
      <4>3. i \in DOMAIN mhResults' /\ mhResults'[i].by = m
        BY <1>0, <2>5, <4>2
      <4> QED
        BY <4>3
    <3> QED
      BY <3>1, <3>2
  <2> QED
    BY <2>8, <2>9, <2>10 DEF MHGiven
<1>3. ASSUME NEW n \in Numbers, MH!Spawn(n) \/ MH!WorkerDone(n)
      PROVE  MHGiven'
  <2>1. /\ \E w \in {"waiting", "done"} :
             /\ mhWorkerPc' = [mhWorkerPc EXCEPT ![n] = w]
             /\ w \in {"sent", "done"} <=> mhWorkerPc[n] \in {"sent", "done"}
        /\ UNCHANGED <<mhData, mhResults>>
    BY <1>3 DEF MH!Spawn, MH!WorkerDone
  <2>2. \A m \in Numbers :
          mhWorkerPc'[m] \in {"sent", "done"} <=> mhWorkerPc[m] \in {"sent", "done"}
    BY <1>0, <2>1
  <2>3. \A i \in DOMAIN mhResults : mhResults[i].by \in Numbers
    BY <1>0 DEF MHGiven, Numbers, MH!TypeOK
  <2> QED
    BY <2>1, <2>2, <2>3 DEF MHGiven
<1>4. CASE UNCHANGED <<mhWorkerPc, mhData, mhResults>>
  BY <1>4 DEF MHGiven
<1>5. ASSUME NEW n \in Numbers, NEW th \in MH!Th, MH!HelperDone(n, th)
      PROVE  MHGiven'
  BY <1>4, <1>5 DEF MH!HelperDone
<1>6. CASE MH!RangeEnds \/ MH!Return \/ MHOther
  BY <1>4, <1>6 DEF MH!RangeEnds, MH!Return, MHOther, MH!Feed, MH!FeedEnds, MH!Drain,
                    MH!CloseOut, MH!ownVars
<1> QED
  BY <1>1, <1>2, <1>3, <1>5, <1>6
     DEF MHOther, MH!Next, MH!Step, MH!Main, MH!Helper, MH!Worker

LEMMA MHStutter ==
  ASSUME MHInv, UNCHANGED MH!vars
  PROVE  MHInv'
<1>1. UNCHANGED <<hashed, multi, mhPc, mhData, mhWG, mhWorkerPc, innerWG, sums, mhResults>>
  BY DEF MH!vars, MH!ownVars
<1>2. MHComputing' = MHComputing /\ \A m : Unfilled(m)' = Unfilled(m)
  BY <1>1 DEF MHComputing, Unfilled
<1>3. MH!TypeOK'
  BY <1>1 DEF MHInv, MH!TypeOK
<1>4. MHFlow' /\ MHSums'
  BY <1>1, <1>2 DEF MHInv, MHFlow, MHSums
<1>5. MHGiven'
  BY <1>1 DEF MHInv, MHGiven
<1> QED
  BY <1>3, <1>4, <1>5 DEF MHInv

LEMMA MHStep ==
  ASSUME MHInv, [MH!Next]_MH!vars
  PROVE  MHInv'
<1>1. CASE MH!Next
  BY <1>1, MHTypeStep, MHFlowStep, MHSumsStep, MHGivenStep DEF MHInv
<1> QED
  BY <1>1, MHStutter

LEMMA MHSafe ==
  ASSUME MHInv
  PROVE  MH!OutClosedLast
BY ConstantFacts DEF MHInv, MH!OutClosedLast, MHFlow, MHComputing

(* Every step of the job is one of its stage, or changes nothing of it.     *)
LEMMA MHStage ==
  ASSUME MHInv, [MH!Next]_MH!vars
  PROVE  [MH!Job!Next]_MH!Job!sVars
<1> USE ConstantFacts DEF MHInv
<1>1. CASE MH!Take
  <2>1. mhPc = "ranging" /\ mhPc' = mhPc /\ mhResults' = mhResults
        /\ First(hashed) \in SH!Hashes /\ mhData' = Append(mhData, First(hashed))
    BY <1>1, SamePipes, RestFacts DEF MH!Take, MH!TypeOK
  <2>2. MH!Job!Take(First(hashed))
    BY <2>1 DEF MH!Job!Take
  <2> QED
    BY <2>1, <2>2 DEF MH!Job!Next
<1>2. ASSUME NEW n \in Numbers, MH!SendResult(n)
      PROVE  MH!Job!Next
  <2>1. /\ mhWorkerPc[n] = "waiting" /\ innerWG[n] = 0
        /\ mhResults' = Append(mhResults, [by |-> n, value |-> sums[n]])
        /\ mhData' = mhData /\ mhPc' = mhPc
    BY <1>2 DEF MH!SendResult
  <2>2. n \in DOMAIN mhData /\ sums[n] \in MH!MustGive(mhData[n])
    BY <2>1, MHValue, MHResult, LenProperties DEF MH!TypeOK, MH!MustGive
  <2>3. mhPc # "returned"
    BY <2>1 DEF MHFlow, MHComputing
  <2>4. ~MH!Job!Given(n)
    BY <2>1 DEF MH!Job!Given, MHGiven
  <2>5. MH!Job!Give(n)
    BY <2>1, <2>2, <2>3, <2>4 DEF MH!Job!Give
  <2> QED
    BY <2>2, <2>5 DEF MH!Job!Next
<1>3. CASE MH!Return
  <2>1. mhPc' = "returned" /\ UNCHANGED <<mhData, mhResults>> /\ Cardinality(MHComputing) = 0
    BY <1>3 DEF MH!Return, MHFlow
  <2>2. MHComputing = {}
    <3>1. IsFiniteSet(MHComputing)
      BY FS_Subset DEF MHComputing
    <3> QED
      BY <2>1, <3>1, FS_EmptySet
  <2>3. \A n \in DOMAIN mhData : MH!Job!Given(n)
    <3> SUFFICES ASSUME NEW n \in DOMAIN mhData
                 PROVE  MH!Job!Given(n)
      OBVIOUS
    <3>1. n \in Numbers /\ ~(n > Len(mhData))
      BY LenProperties DEF MH!TypeOK, Numbers
    <3>2. mhWorkerPc[n] = "done"
      BY <2>2, <3>1 DEF MHFlow, MHComputing
    <3> QED
      BY <3>1, <3>2 DEF MHGiven, MH!Job!Given
  <2> QED
    BY <2>1, <2>3 DEF MH!Job!Return, MH!Job!Next
<1>4. ASSUME NEW n \in Numbers, MH!Spawn(n) \/ MH!WorkerDone(n)
      PROVE  UNCHANGED <<mhData, mhResults, mhPc>>
  BY <1>4 DEF MH!Spawn, MH!WorkerDone
<1>5. ASSUME NEW n \in Numbers, NEW th \in MH!Th, MH!HelperDone(n, th)
      PROVE  UNCHANGED <<mhData, mhResults, mhPc>>
  BY <1>5 DEF MH!HelperDone
<1>6. CASE MHOther \/ UNCHANGED MH!vars
  BY <1>6 DEF MHOther, MH!Feed, MH!FeedEnds, MH!Drain, MH!CloseOut, MH!vars, MH!ownVars,
              MH!Job!sVars
<1>7. CASE MH!RangeEnds
  BY <1>7 DEF MH!RangeEnds, MH!Job!sVars
<1>8. CASE UNCHANGED <<mhData, mhResults, mhPc>>
  BY <1>8 DEF MH!Job!sVars
<1> QED
  BY <1>1, <1>2, <1>3, <1>4, <1>5, <1>6, <1>7, <1>8
     DEF MHOther, MH!Next, MH!Step, MH!Main, MH!Helper, MH!Worker

-----------------------------------------------------------------------------
(* The pipes between the jobs.                                              *)

(* A sequence of results, each by another worker, has room for one more     *)
(* while some worker has none.                                              *)
LEMMA ResultsBound ==
  ASSUME NEW S, NEW rs \in Seq([by : Numbers, value : S]), NEW n \in Numbers,
         \A i \in DOMAIN rs : rs[i].by # n,
         \A i, j \in DOMAIN rs : rs[i].by = rs[j].by => i = j
  PROVE  Len(rs) < MaxValues
<1> DEFINE Entries == 1 .. Len(rs)
           f == [i \in Entries |-> rs[i].by]
           Others == Numbers \ {n}
<1>1. Len(rs) \in Nat /\ DOMAIN rs = Entries
  BY LenProperties
<1>2. f \in Injection(Entries, Others)
  <2>1. \A i \in Entries : rs[i] \in [by : Numbers, value : S]
    BY ElementOfSeq
  <2>2. f \in [Entries -> Others]
    BY <1>1, <2>1
  <2>3. \A i, j \in Entries : f[i] = f[j] => i = j
    BY <1>1
  <2> HIDE DEF f
  <2> QED
    BY <2>2, <2>3 DEF Injection, IsInjective
<1>3. IsFiniteSet(Others) /\ Cardinality(Others) = MaxValues - 1
  BY ConstantFacts, FS_RemoveElement
<1>4. Cardinality(Entries) = Len(rs)
  BY <1>1, FS_Interval
<1> HIDE DEF f, Entries, Others
<1>5. Cardinality(Entries) <= Cardinality(Others)
  BY <1>2, <1>3, FS_Injection
<1> QED
  BY <1>1, <1>3, <1>4, <1>5, ConstantFacts

(* What a step of a job does to its pipes and to its history.               *)
LEMMA SHSummary ==
  ASSUME SHInv, SH!Step
  PROVE  \/ /\ HasNext(raw) /\ raw' = Rest(raw) /\ shData' = Append(shData, First(raw))
            /\ shPc = "ranging"
            /\ UNCHANGED <<hashed, shPc, shResults>>
         \/ /\ HasRoom(hashed) /\ Len(shResults) < MaxValues
            /\ \E n \in Numbers, r \in SH!Hashes :
                 /\ hashed' = Put(hashed, r)
                 /\ shResults' = Append(shResults, [by |-> n, value |-> r])
            /\ UNCHANGED <<raw, shPc, shData>>
         \/ UNCHANGED <<raw, hashed, shPc, shData, shResults>>
         \/ shPc = "ranging" /\ Exhausted(raw) /\ UNCHANGED <<raw, hashed, shData, shResults>>
         \/ shPc = "waiting" /\ UNCHANGED <<raw, hashed, shData, shResults>>
<1> USE ConstantFacts, SamePipes
<1>1. CASE SH!Take
  BY <1>1 DEF SH!Take
<1>2. CASE SH!RangeEnds
  BY <1>2 DEF SH!RangeEnds
<1>3. CASE SH!Return
  BY <1>3 DEF SH!Return
<1>4. ASSUME NEW n \in Numbers, SH!SendResult(n)
      PROVE  /\ HasRoom(hashed) /\ Len(shResults) < MaxValues
             /\ \E r \in SH!Hashes :
                  /\ hashed' = Put(hashed, r)
                  /\ shResults' = Append(shResults, [by |-> n, value |-> r])
             /\ UNCHANGED <<raw, shPc, shData>>
  <2> DEFINE r == <<leftSide[n], SH!RightSide(shData[n])>>
  <2>1. /\ hashed' = Put(hashed, r) /\ HasRoom(hashed) /\ workerPc[n] = "joined"
        /\ shResults' = Append(shResults, [by |-> n, value |-> r])
        /\ UNCHANGED <<raw, shPc, shData>>
    BY <1>4 DEF SH!SendResult
  <2>2. r \in SH!Hashes
    BY <2>1, SHValue DEF SH!Hashes, SH!TypeOK, SHInv
  <2>3. shResults \in Seq([by : Numbers, value : SH!Hashes])
    BY DEF SHInv, SH!TypeOK
  <2>4. \A i \in DOMAIN shResults : shResults[i].by # n
    BY <2>1 DEF SHInv, SHGiven
  <2>5. \A i, j \in DOMAIN shResults : shResults[i].by = shResults[j].by => i = j
    BY DEF SHInv, SHGiven
  <2>6. Len(shResults) < MaxValues
    BY <2>3, <2>4, <2>5, ResultsBound
  <2> HIDE DEF r
  <2> QED
    BY <2>1, <2>2, <2>6
<1>5. ASSUME NEW n \in Numbers, SH!Helper(n)
      PROVE  UNCHANGED <<raw, hashed, shPc, shData, shResults>>
  BY <1>5 DEF SH!Helper, SH!HelperLock, SH!HelperFill, SH!HelperUnlock
<1>6. ASSUME NEW n \in Numbers, SH!Worker(n), ~SH!SendResult(n)
      PROVE  UNCHANGED <<raw, hashed, shPc, shData, shResults>>
  BY <1>6 DEF SH!Worker, SH!EnterQuota, SH!OverheatLock, SH!OverheatUnlock, SH!LeaveQuota,
              SH!Join, SH!WorkerDone
<1> QED
  BY <1>1, <1>2, <1>3, <1>4, <1>5, <1>6 DEF SH!Step, SH!Main

LEMMA MHSummary ==
  ASSUME MHInv, MH!Step
  PROVE  \/ /\ HasNext(hashed) /\ hashed' = Rest(hashed)
            /\ mhData' = Append(mhData, First(hashed))
            /\ mhPc = "ranging"
            /\ UNCHANGED <<multi, mhPc, mhResults>>
         \/ /\ HasRoom(multi) /\ Len(mhResults) < MaxValues
            /\ \E n \in Numbers, r \in [MH!Th -> MH!Sums] :
                 /\ multi' = Put(multi, r)
                 /\ mhResults' = Append(mhResults, [by |-> n, value |-> r])
            /\ UNCHANGED <<hashed, mhPc, mhData>>
         \/ UNCHANGED <<hashed, multi, mhPc, mhData, mhResults>>
         \/ mhPc = "ranging" /\ Exhausted(hashed) /\ UNCHANGED <<hashed, multi, mhData, mhResults>>
         \/ mhPc = "waiting" /\ UNCHANGED <<hashed, multi, mhData, mhResults>>
<1> USE ConstantFacts, SamePipes
<1>1. CASE MH!Take
  BY <1>1 DEF MH!Take
<1>2. CASE MH!RangeEnds
  BY <1>2 DEF MH!RangeEnds
<1>3. CASE MH!Return
  BY <1>3 DEF MH!Return
<1>4. ASSUME NEW n \in Numbers, MH!SendResult(n)
      PROVE  /\ HasRoom(multi) /\ Len(mhResults) < MaxValues
             /\ \E r \in [MH!Th -> MH!Sums] :
                  /\ multi' = Put(multi, r)
                  /\ mhResults' = Append(mhResults, [by |-> n, value |-> r])
             /\ UNCHANGED <<hashed, mhPc, mhData>>
  <2> DEFINE r == sums[n]
  <2>1. /\ multi' = Put(multi, r) /\ HasRoom(multi) /\ mhWorkerPc[n] = "waiting"
        /\ mhResults' = Append(mhResults, [by |-> n, value |-> r])
        /\ UNCHANGED <<hashed, mhPc, mhData>>
    BY <1>4 DEF MH!SendResult
  <2>2. r \in [MH!Th -> MH!Sums]
    BY DEF MH!TypeOK, MHInv
  <2>3. mhResults \in Seq([by : Numbers, value : [MH!Th -> MH!Sums]])
    BY DEF MHInv, MH!TypeOK
  <2>4. \A i \in DOMAIN mhResults : mhResults[i].by # n
    BY <2>1 DEF MHInv, MHGiven
  <2>5. \A i, j \in DOMAIN mhResults : mhResults[i].by = mhResults[j].by => i = j
    BY DEF MHInv, MHGiven
  <2>6. Len(mhResults) < MaxValues
    BY <2>3, <2>4, <2>5, ResultsBound
  <2> HIDE DEF r
  <2> QED
    BY <2>1, <2>2, <2>6
<1>5. ASSUME NEW n \in Numbers, MH!Spawn(n) \/ MH!WorkerDone(n)
      PROVE  UNCHANGED <<hashed, multi, mhPc, mhData, mhResults>>
  BY <1>5 DEF MH!Spawn, MH!WorkerDone
<1>6. ASSUME NEW n \in Numbers, NEW th \in MH!Th, MH!HelperDone(n, th)
      PROVE  UNCHANGED <<hashed, multi, mhPc, mhData, mhResults>>
  BY <1>6 DEF MH!HelperDone
<1> QED
  BY <1>1, <1>2, <1>3, <1>4, <1>5, <1>6
     DEF MH!Step, MH!Main, MH!Helper, MH!Worker

(* Sending and receiving in terms of what has been taken and what is queued. *)
LEMMA PassPut ==
  ASSUME NEW S, NEW t \in Seq(S), NEW q \in Seq(S), NEW v \in S
  PROVE  t \o Append(q, v) = Append(t \o q, v)
<1>1. <<v>> \in Seq(S)
  OBVIOUS
<1>2. t \o q \in Seq(S)
  BY ConcatProperties
<1>3. Append(q, v) = q \o <<v>> /\ Append(t \o q, v) = (t \o q) \o <<v>>
  BY <1>2, AppendIsConcat
<1>4. (t \o q) \o <<v>> = t \o (q \o <<v>>)
  BY <1>1, ConcatAssociative
<1> QED
  BY <1>3, <1>4

LEMMA PassTake ==
  ASSUME NEW S, NEW t \in Seq(S), NEW q \in Seq(S), q # <<>>
  PROVE  Append(t, Head(q)) \o Tail(q) = t \o q
<1>1. Head(q) \in S /\ Tail(q) \in Seq(S) /\ Head(q) = q[1] /\ Len(q) \in Nat \ {0}
  BY HeadTailProperties, EmptySeq
<1>2. Tail(q) = SubSeq(q, 2, Len(q))
  BY TailIsSubSeq
<1>3. SubSeq(q, 1, Len(q)) = <<q[1]>> \o SubSeq(q, 1 + 1, Len(q))
  <2>1. 1 \in 1 .. Len(q) /\ Len(q) \in 1 .. Len(q)
    BY <1>1
  <2> QED
    BY <2>1, SubSeqRecursiveFirst
<1>4. q = <<Head(q)>> \o Tail(q)
  BY <1>1, <1>2, <1>3, SubSeqFull
<1>5. Append(t, Head(q)) = t \o <<Head(q)>>
  BY <1>1, AppendIsConcat
<1>6. <<Head(q)>> \in Seq(S)
  BY <1>1
<1>7. (t \o <<Head(q)>>) \o Tail(q) = t \o (<<Head(q)>> \o Tail(q))
  BY <1>1, <1>6, ConcatAssociative
<1> QED
  BY <1>4, <1>5, <1>7

(* The values of a sequence of results.                                     *)
ValuesOf(rs) == [i \in 1 .. Len(rs) |-> rs[i].value]

HasValues(rs) ==
  /\ Len(ValuesOf(rs)) = Len(rs)
  /\ \A i \in 1 .. Len(rs) : ValuesOf(rs)[i] = rs[i].value

LEMMA HaveValues ==
  ASSUME NEW R, NEW rs \in Seq(R)
  PROVE  HasValues(rs)
<1> DEFINE n == Len(rs)
           S == {rs[i].value : i \in 1 .. n}
           v == [i \in 1 .. n |-> rs[i].value]
<1>1. n \in Nat
  BY LenProperties
<1> HIDE DEF n
<1>2. v \in [1 .. n -> S]
  OBVIOUS
<1>3. \A i \in 1 .. n : v[i] = rs[i].value
  OBVIOUS
<1> HIDE DEF S, v
<1>4. Len(v) = n
  BY <1>1, <1>2, SeqDef, LenProperties
<1>5. ValuesOf(rs) = v
  BY DEF ValuesOf, v, n
<1> QED
  BY <1>3, <1>4, <1>5 DEF HasValues, n

LEMMA ValuesFacts ==
  ASSUME NEW R, NEW S, NEW rs \in Seq(R), \A e \in R : e.value \in S
  PROVE  ValuesOf(rs) \in Seq(S)
<1>1. \A i \in 1 .. Len(rs) : rs[i] \in R
  BY ElementOfSeq
<1>2. Len(rs) \in Nat /\ \A i \in 1 .. Len(rs) : rs[i].value \in S
  BY <1>1, LenProperties
<1>3. ValuesOf(rs) \in [1 .. Len(rs) -> S]
  BY <1>2 DEF ValuesOf
<1> QED
  BY <1>2, <1>3, SeqDef

LEMMA ValuesAppend ==
  ASSUME NEW R, NEW S, NEW rs \in Seq(R), \A e \in R : e.value \in S, NEW e \in R
  PROVE  ValuesOf(Append(rs, e)) = Append(ValuesOf(rs), e.value)
<1> DEFINE us == Append(rs, e)
           vs == ValuesOf(rs)
           a == ValuesOf(us)
           b == Append(vs, e.value)
<1>1. /\ us \in Seq(R) /\ Len(us) = Len(rs) + 1 /\ \A i \in 1 .. Len(rs) : us[i] = rs[i]
      /\ us[Len(rs) + 1] = e /\ Len(rs) \in Nat
  BY AppendProperties, LenProperties
<1>2. vs \in Seq(S) /\ Len(vs) = Len(rs) /\ \A i \in 1 .. Len(rs) : vs[i] = rs[i].value
  <2>1. HasValues(rs)
    BY HaveValues
  <2>2. vs \in Seq(S)
    BY ValuesFacts
  <2> QED
    BY <2>1, <2>2 DEF HasValues
<1> HIDE DEF us
<1>3. a \in Seq(S) /\ Len(a) = Len(us) /\ \A i \in 1 .. Len(us) : a[i] = us[i].value
  <2>1. HasValues(us)
    BY <1>1, HaveValues
  <2>2. a \in Seq(S)
    BY <1>1, ValuesFacts
  <2> QED
    BY <2>1, <2>2 DEF HasValues
<1> HIDE DEF vs, a
<1>4. /\ b \in Seq(S) /\ Len(b) = Len(vs) + 1 /\ b[Len(vs) + 1] = e.value
      /\ \A i \in 1 .. Len(vs) : b[i] = vs[i]
  BY <1>2, AppendProperties
<1> HIDE DEF b
<1>5. \A i \in 1 .. Len(a) : a[i] = b[i]
  BY <1>1, <1>2, <1>3, <1>4
<1>6. a = b
  BY <1>1, <1>2, <1>3, <1>4, <1>5, SeqEqual
<1> QED
  BY <1>6 DEF us, vs, a, b

(* A pipe whose values do not matter.                                       *)
IsPipe(p) == p = [queue |-> p.queue, closed |-> p.closed]

LEMMA AnyPipeFacts ==
  ASSUME NEW p, IsPipe(p)
  PROVE  /\ \A v : IsPipe(Put(p, v)) /\ Put(p, v).queue = Append(p.queue, v)
                   /\ Put(p, v).closed = p.closed
         /\ IsPipe(Rest(p)) /\ Rest(p).queue = Tail(p.queue) /\ Rest(p).closed = p.closed
         /\ IsPipe(Close(p)) /\ Close(p).queue = p.queue /\ Close(p).closed = TRUE
<1> DEFINE q == p.queue
           c == p.closed
<1>1. p = [queue |-> q, closed |-> c]
  BY DEF IsPipe
<1> HIDE DEF q, c
<1>2. \A r : [p EXCEPT !.queue = r] = [queue |-> r, closed |-> c]
  BY <1>1
<1>3. \A d : [p EXCEPT !.closed = d] = [queue |-> q, closed |-> d]
  BY <1>1
<1>4. p.queue = q /\ p.closed = c
  BY DEF q, c
<1>5. \A v : Put(p, v) = [p EXCEPT !.queue = Append(q, v)]
  BY <1>4 DEF Put
<1>6. \A v : Put(p, v) = [queue |-> Append(q, v), closed |-> c]
  BY <1>2, <1>5, Zenon
<1>7. Rest(p) = [p EXCEPT !.queue = Tail(q)]
  BY <1>4 DEF Rest
<1>8. Rest(p) = [queue |-> Tail(q), closed |-> c]
  BY <1>2, <1>7, Zenon
<1>9. Close(p) = [queue |-> q, closed |-> TRUE]
  BY <1>3, Zenon DEF Close
<1>10. \A x, y : IsPipe([queue |-> x, closed |-> y])
  BY DEF IsPipe
<1> QED
  BY <1>4, <1>6, <1>8, <1>9, <1>10

GlueTypes ==
  /\ jobPc \in [Jobs -> {"launched", "running", "returned", "done"}]
  /\ sourceSent \in 0 .. MaxValues
  /\ crPc \in {"new", "ranging", "sending", "returned"}
  /\ received \in Seq([MH!Th -> MH!Sums])
  /\ IsPipe(combined)

(* A pipe is closed by the job that writes it, when that job has returned.  *)
ClosedWhenDone ==
  /\ raw.closed <=> jobPc["source"] = "done"
  /\ hashed.closed <=> jobPc["SingleHash"] = "done"
  /\ multi.closed <=> jobPc["MultiHash"] = "done"
  /\ combined.closed <=> jobPc["CombineResults"] = "done"

ReturnsWhenFinished ==
  /\ jobPc["source"] \in {"returned", "done"} => sourceSent = MaxValues
  /\ jobPc["SingleHash"] \in {"returned", "done"} => shPc = "returned"
  /\ jobPc["MultiHash"] \in {"returned", "done"} => mhPc = "returned"
  /\ jobPc["CombineResults"] \in {"returned", "done"} => crPc = "returned"

(* What a job has taken and what is still in its pipe is, in this order,    *)
(* what the job before has sent.                                            *)
Carried ==
  /\ shData \o raw.queue = SubSeq(Inputs, 1, sourceSent)
  /\ mhData \o hashed.queue = ValuesOf(shResults)
  /\ received \o multi.queue = ValuesOf(mhResults)

ReadToTheEnd ==
  /\ shPc # "ranging" => Exhausted(raw)
  /\ mhPc # "ranging" => Exhausted(hashed)
  /\ crPc \in {"sending", "returned"} => Exhausted(multi)

Glue == GlueTypes /\ ClosedWhenDone /\ ReturnsWhenFinished /\ Carried /\ ReadToTheEnd

IInv == SHInv /\ MHInv /\ Glue

(* The types that the pipes have by the invariants of the jobs.             *)
LEMMA PipeTypes ==
  ASSUME IInv
  PROVE  /\ raw \in PipeOf(Data) /\ hashed \in PipeOf(SH!Hashes)
         /\ multi \in PipeOf([MH!Th -> MH!Sums])
         /\ raw.queue \in Seq(Data) /\ hashed.queue \in Seq(SH!Hashes)
         /\ multi.queue \in Seq([MH!Th -> MH!Sums])
         /\ shData \in Seq(Data) /\ mhData \in Seq(SH!Hashes)
         /\ received \in Seq([MH!Th -> MH!Sums])
         /\ shResults \in Seq([by : Numbers, value : SH!Hashes])
         /\ mhResults \in Seq([by : Numbers, value : [MH!Th -> MH!Sums]])
<1>1. raw \in PipeOf(Data) /\ hashed \in PipeOf(SH!Hashes) /\ multi \in PipeOf([MH!Th -> MH!Sums])
  BY SamePipes DEF IInv, SHInv, MHInv, SH!TypeOK, MH!TypeOK
<1>2. raw.queue \in Seq(Data) /\ hashed.queue \in Seq(SH!Hashes)
      /\ multi.queue \in Seq([MH!Th -> MH!Sums])
  BY <1>1 DEF PipeOf
<1>3. shData \in Seq(Data) /\ mhData \in Seq(SH!Hashes) /\ received \in Seq([MH!Th -> MH!Sums])
  BY DEF IInv, SHInv, MHInv, SH!TypeOK, MH!TypeOK, Glue, GlueTypes
<1>4. /\ shResults \in Seq([by : Numbers, value : SH!Hashes])
      /\ mhResults \in Seq([by : Numbers, value : [MH!Th -> MH!Sums]])
  BY ConstantFacts DEF IInv, SHInv, MHInv, SH!TypeOK, MH!TypeOK
<1> QED
  BY <1>1, <1>2, <1>3, <1>4

LEMMA SentFacts ==
  ASSUME NEW n \in 0 .. MaxValues
  PROVE  /\ SubSeq(Inputs, 1, n) \in Seq(Data) /\ Len(SubSeq(Inputs, 1, n)) = n
         /\ n < MaxValues => /\ Inputs[n + 1] \in Data
                             /\ SubSeq(Inputs, 1, n + 1) = Append(SubSeq(Inputs, 1, n), Inputs[n + 1])
<1>0. /\ Len(Inputs) \in Nat /\ MaxValues = Len(Inputs) /\ DOMAIN Inputs = 1 .. Len(Inputs)
      /\ Inputs \in Seq(Nat)
  BY SignerAssumption, LenProperties DEF MaxValues
<1>1. \A i \in 1 .. Len(Inputs) : Inputs[i] \in Data
  BY <1>0 DEF Data
<1>2. \A i \in 1 .. n : Inputs[i] \in Data
  BY <1>0, <1>1
<1>3. SubSeq(Inputs, 1, n) \in Seq(Data)
      /\ Len(SubSeq(Inputs, 1, n)) = IF 1 <= n THEN n - 1 + 1 ELSE 0
  <2>1. n \in Int /\ 1 \in Int
    BY <1>0
  <2> QED
    BY <1>2, <2>1, SubSeqProperties
<1>4. ASSUME n < MaxValues
      PROVE  /\ Inputs[n + 1] \in Data
             /\ SubSeq(Inputs, 1, n + 1) = Append(SubSeq(Inputs, 1, n), Inputs[n + 1])
  <2>1. n + 1 \in 1 .. Len(Inputs) /\ 1 \in 1 .. Len(Inputs) /\ n + 1 \in 1 .. Len(Inputs)
    BY <1>0, <1>4
  <2>2. SubSeq(Inputs, 1, n + 1) = SubSeq(Inputs, 1, (n + 1) - 1) \o <<Inputs[n + 1]>>
    <3>1. n + 1 \in 1 .. Len(Inputs)
      BY <2>1
    <3> QED
      BY <1>0, <2>1, <3>1, SubSeqRecursiveSecond
  <2>3. (n + 1) - 1 = n
    BY <1>0
  <2> QED
    BY <1>1, <1>3, <2>1, <2>2, <2>3, AppendIsConcat
<1> QED
  BY <1>0, <1>3, <1>4

LEMMA CarriedLengths ==
  ASSUME IInv
  PROVE  /\ Len(shData) + Len(raw.queue) = sourceSent
         /\ Len(mhData) + Len(hashed.queue) = Len(shResults)
         /\ Len(received) + Len(multi.queue) = Len(mhResults)
<1>1. Len(shData \o raw.queue) = Len(shData) + Len(raw.queue)
  BY PipeTypes, ConcatProperties
<1>2. Len(mhData \o hashed.queue) = Len(mhData) + Len(hashed.queue)
  BY PipeTypes, ConcatProperties
<1>3. Len(received \o multi.queue) = Len(received) + Len(multi.queue)
  BY PipeTypes, ConcatProperties
<1>4. Len(SubSeq(Inputs, 1, sourceSent)) = sourceSent
  BY SentFacts DEF IInv, Glue, GlueTypes
<1>5. Len(ValuesOf(shResults)) = Len(shResults) /\ Len(ValuesOf(mhResults)) = Len(mhResults)
  <2>1. HasValues(shResults) /\ HasValues(mhResults)
    BY PipeTypes, HaveValues
  <2> QED
    BY <2>1 DEF HasValues
<1> QED
  BY <1>1, <1>2, <1>3, <1>4, <1>5 DEF IInv, Glue, Carried

(* Every step of the whole is a step of each job in its surroundings, or    *)
(* does not touch it.                                                       *)
LEMMA SourceSendJobs ==
  ASSUME IInv, SourceSend
  PROVE  SH!Feed /\ UNCHANGED MH!vars /\ UNCHANGED CR!vars
<1>1. /\ sourceSent < MaxValues /\ HasRoom(raw) /\ raw' = Put(raw, Inputs[sourceSent + 1])
      /\ UNCHANGED <<hashed, multi, combined, shVars, mhVars, crVars>>
  BY DEF SourceSend, MaxValues
<1>2. Inputs[sourceSent + 1] \in Data
  BY <1>1, SentFacts DEF IInv, Glue, GlueTypes
<1>3. SH!Feed
  BY <1>1, <1>2, CarriedLengths, SamePipes DEF SH!Feed, SH!ownVars, shVars
<1> QED
  BY <1>1, <1>3 DEF MH!vars, MH!ownVars, CR!vars, CR!ownVars, mhVars, crVars

LEMMA RunSingleHashJobs ==
  ASSUME IInv, RunSingleHash
  PROVE  SH!Step /\ [MH!Feed]_MH!vars /\ UNCHANGED CR!vars
<1>1. SH!Step /\ UNCHANGED <<multi, combined, mhVars, crVars>>
  BY DEF RunSingleHash
<1>2. CASE UNCHANGED hashed
  BY <1>1, <1>2 DEF MH!vars, MH!ownVars, CR!vars, CR!ownVars, mhVars, crVars
<1>3. CASE ~UNCHANGED hashed
  <2>1. PICK r \in SH!Hashes : /\ HasRoom(hashed) /\ Len(shResults) < MaxValues
                               /\ hashed' = Put(hashed, r)
    BY <1>1, <1>3, SHSummary DEF IInv
  <2>2. MH!Feed
    BY <1>1, <2>1, CarriedLengths, SamePipes DEF MH!Feed, MH!ownVars, mhVars
  <2> QED
    BY <1>1, <2>2 DEF CR!vars, CR!ownVars, crVars
<1> QED
  BY <1>2, <1>3

LEMMA RunMultiHashJobs ==
  ASSUME IInv, RunMultiHash
  PROVE  [SH!Drain]_SH!vars /\ MH!Step /\ [CR!Feed]_CR!vars
<1>1. MH!Step /\ UNCHANGED <<raw, combined, shVars, crVars>>
  BY DEF RunMultiHash
<1>2. [SH!Drain]_SH!vars
  <2>1. hashed' = hashed \/ (HasNext(hashed) /\ hashed' = Rest(hashed))
    <3>1. MHInv /\ MH!Step
      BY <1>1 DEF IInv
    <3> HIDE DEF MHInv
    <3> QED
      BY <3>1, MHSummary
  <2>2. CASE hashed' = hashed
    BY <1>1, <2>2 DEF SH!vars, SH!ownVars, shVars
  <2>3. CASE HasNext(hashed) /\ hashed' = Rest(hashed)
    BY <1>1, <2>3, SamePipes DEF SH!Drain, SH!ownVars, shVars
  <2> QED
    BY <2>1, <2>2, <2>3
<1>3. [CR!Feed]_CR!vars
  <2>1. CASE UNCHANGED multi
    BY <1>1, <2>1 DEF CR!vars, CR!ownVars, crVars
  <2>2. CASE ~UNCHANGED multi
    <3>1. PICK r \in [MH!Th -> MH!Sums] : /\ HasRoom(multi) /\ Len(mhResults) < MaxValues
                                          /\ multi' = Put(multi, r)
      BY <1>1, <2>2, MHSummary DEF IInv
    <3>2. CR!Feed
      BY <1>1, <3>1, CarriedLengths, SamePipes DEF CR!Feed, CR!ownVars, crVars
    <3> QED
      BY <3>2
  <2> QED
    BY <2>1, <2>2
<1> QED
  BY <1>1, <1>2, <1>3

LEMMA RunCombineResultsJobs ==
  ASSUME IInv, RunCombineResults
  PROVE  UNCHANGED SH!vars /\ [MH!Drain]_MH!vars /\ CR!Step
<1>1. CR!Step /\ UNCHANGED <<raw, hashed, shVars, mhVars>>
  BY DEF RunCombineResults
<1>2. multi' = multi \/ (HasNext(multi) /\ multi' = Rest(multi))
  <2>1. CASE CR!Start
    BY <2>1 DEF CR!Start
  <2>2. CASE CR!Take
    BY <2>2, SamePipes DEF CR!Take
  <2>3. CASE CR!RangeEnds
    BY <2>3 DEF CR!RangeEnds
  <2>4. CASE CR!SendResult
    BY <2>4 DEF CR!SendResult
  <2> QED
    BY <1>1, <2>1, <2>2, <2>3, <2>4 DEF CR!Step
<1>3. CASE multi' = multi
  BY <1>1, <1>3 DEF SH!vars, SH!ownVars, shVars, MH!vars, MH!ownVars, mhVars
<1>4. CASE HasNext(multi) /\ multi' = Rest(multi)
  BY <1>1, <1>4, SamePipes DEF SH!vars, SH!ownVars, shVars, MH!Drain, MH!ownVars, mhVars
<1> QED
  BY <1>2, <1>3, <1>4

LEMMA SinkReceiveJobs ==
  ASSUME SinkReceive
  PROVE  UNCHANGED SH!vars /\ UNCHANGED MH!vars /\ CR!Drain
BY SamePipes
   DEF SinkReceive, SH!vars, SH!ownVars, shVars, MH!vars, MH!ownVars, mhVars, CR!Drain,
       CR!ownVars, crVars

LEMMA CalmJobs ==
  ASSUME UNCHANGED <<pipeVars, shVars, mhVars, crVars>>
  PROVE  UNCHANGED SH!vars /\ UNCHANGED MH!vars /\ UNCHANGED CR!vars
BY DEF pipeVars, SH!vars, SH!ownVars, shVars, MH!vars, MH!ownVars, mhVars, CR!vars,
       CR!ownVars, crVars

LEMMA CloseNextJobs ==
  ASSUME IInv, NEW j \in Jobs, CloseNext(j)
  PROVE  [SH!FeedEnds \/ SH!CloseOut]_SH!vars
         /\ [MH!FeedEnds \/ MH!CloseOut]_MH!vars
         /\ [CR!FeedEnds \/ CR!CloseOut]_CR!vars
<1> USE SamePipes DEF SH!vars, SH!ownVars, shVars, MH!vars, MH!ownVars, mhVars, CR!vars,
        CR!ownVars, crVars
<1>1. /\ jobPc[j] = "returned" /\ UNCHANGED <<shVars, mhVars, crVars>>
      /\ raw' = IF j = "source" THEN Close(raw) ELSE raw
      /\ hashed' = IF j = "SingleHash" THEN Close(hashed) ELSE hashed
      /\ multi' = IF j = "MultiHash" THEN Close(multi) ELSE multi
      /\ combined' = IF j = "CombineResults" THEN Close(combined) ELSE combined
  BY DEF CloseNext
<1>2. ClosedWhenDone /\ ReturnsWhenFinished
  BY DEF IInv, Glue
<1>3. CASE j = "source"
  <2>1. ~raw.closed
    BY <1>1, <1>2, <1>3 DEF ClosedWhenDone
  <2> QED
    BY <1>1, <1>3, <2>1 DEF SH!FeedEnds
<1>4. CASE j = "SingleHash"
  <2>1. ~hashed.closed /\ shPc = "returned"
    BY <1>1, <1>2, <1>4 DEF ClosedWhenDone, ReturnsWhenFinished
  <2> QED
    BY <1>1, <1>4, <2>1 DEF SH!CloseOut, MH!FeedEnds
<1>5. CASE j = "MultiHash"
  <2>1. ~multi.closed /\ mhPc = "returned"
    BY <1>1, <1>2, <1>5 DEF ClosedWhenDone, ReturnsWhenFinished
  <2> QED
    BY <1>1, <1>5, <2>1 DEF MH!CloseOut, CR!FeedEnds
<1>6. CASE j = "CombineResults"
  <2>1. ~combined.closed /\ crPc = "returned"
    BY <1>1, <1>2, <1>6 DEF ClosedWhenDone, ReturnsWhenFinished
  <2> QED
    BY <1>1, <1>6, <2>1 DEF CR!CloseOut
<1>7. CASE j = "sink"
  BY <1>1, <1>7
<1> QED
  BY <1>3, <1>4, <1>5, <1>6, <1>7 DEF Jobs

LEMMA JobsStep ==
  ASSUME IInv, [Next]_vars
  PROVE  [SH!Next]_SH!vars /\ [MH!Next]_MH!vars /\ [CR!Next]_CR!vars
<1> USE DEF SH!Next, MH!Next, CR!Next
<1>1. CASE SourceSend
  BY <1>1, SourceSendJobs
<1>2. CASE RunSingleHash
  BY <1>2, RunSingleHashJobs
<1>3. CASE RunMultiHash
  BY <1>3, RunMultiHashJobs
<1>4. CASE RunCombineResults
  BY <1>4, RunCombineResultsJobs
<1>5. CASE SinkReceive
  BY <1>5, SinkReceiveJobs
<1>6. ASSUME NEW j \in Jobs, CloseNext(j)
      PROVE  [SH!Next]_SH!vars /\ [MH!Next]_MH!vars /\ [CR!Next]_CR!vars
  BY <1>6, CloseNextJobs
<1>7. CASE Wait \/ UNCHANGED vars
  BY <1>7, CalmJobs DEF Wait, vars
<1>8. ASSUME NEW j \in Jobs, Start(j) \/ Return(j)
      PROVE  [SH!Next]_SH!vars /\ [MH!Next]_MH!vars /\ [CR!Next]_CR!vars
  BY <1>8, CalmJobs DEF Start, Return
<1> QED
  BY <1>1, <1>2, <1>3, <1>4, <1>5, <1>6, <1>7, <1>8 DEF Next, Running

(* Each step keeps what is said of the pipes.                               *)
LEMMA SourceSendGlue ==
  ASSUME IInv, SourceSend
  PROVE  Glue'
<1>1. /\ jobPc["source"] = "running" /\ sourceSent < MaxValues /\ HasRoom(raw)
      /\ raw' = Put(raw, Inputs[sourceSent + 1]) /\ sourceSent' = sourceSent + 1
      /\ UNCHANGED <<hashed, multi, combined, jobPc, shPc, shData, shResults, mhPc, mhData,
                     mhResults, crPc, received>>
  BY DEF SourceSend, MaxValues, runVars, shVars, mhVars, crVars
<1>2. GlueTypes /\ ClosedWhenDone /\ ReturnsWhenFinished /\ Carried /\ ReadToTheEnd
  BY DEF IInv, Glue
<1>3. sourceSent \in 0 .. MaxValues /\ MaxValues \in Nat
  BY <1>2, ConstantFacts DEF GlueTypes
<1>4. /\ Inputs[sourceSent + 1] \in Data
      /\ SubSeq(Inputs, 1, sourceSent + 1) = Append(SubSeq(Inputs, 1, sourceSent), Inputs[sourceSent + 1])
  BY <1>1, <1>3, SentFacts
<1>5. raw'.queue = Append(raw.queue, Inputs[sourceSent + 1]) /\ raw'.closed = raw.closed
  BY <1>1, <1>4, PipeTypes, PutFacts
<1>6. shData \o raw'.queue = Append(shData \o raw.queue, Inputs[sourceSent + 1])
  <2>1. \A t, q \in Seq(Data), v \in Data : t \o Append(q, v) = Append(t \o q, v)
    BY PassPut
  <2>2. shData \in Seq(Data) /\ raw.queue \in Seq(Data)
    BY PipeTypes
  <2> QED
    BY <1>4, <1>5, <2>1, <2>2
<1>7. GlueTypes'
  BY <1>1, <1>2, <1>3 DEF GlueTypes
<1>8. ClosedWhenDone' /\ ReturnsWhenFinished'
  BY <1>1, <1>2, <1>5 DEF ClosedWhenDone, ReturnsWhenFinished
<1>9. Carried'
  BY <1>1, <1>2, <1>4, <1>6 DEF Carried
<1>10. ReadToTheEnd'
  BY <1>1, <1>2 DEF ReadToTheEnd, Exhausted, HasRoom
<1> QED
  BY <1>7, <1>8, <1>9, <1>10 DEF Glue

LEMMA RunSingleHashGlue ==
  ASSUME IInv, RunSingleHash
  PROVE  Glue'
<1>1. /\ SHInv /\ SH!Step
      /\ UNCHANGED <<multi, combined, jobPc, sourceSent, mhPc, mhData, mhResults, crPc, received>>
  BY DEF IInv, RunSingleHash, runVars, endVars, mhVars, crVars
<1>2. GlueTypes /\ ClosedWhenDone /\ ReturnsWhenFinished /\ Carried /\ ReadToTheEnd
  BY DEF IInv, Glue
<1>3. GlueTypes'
  BY <1>1, <1>2 DEF GlueTypes
<1>4. CASE /\ HasNext(raw) /\ raw' = Rest(raw) /\ shData' = Append(shData, First(raw))
           /\ shPc = "ranging"
           /\ UNCHANGED <<hashed, shPc, shResults>>
  <2>1. raw.queue # <<>> /\ raw'.queue = Tail(raw.queue) /\ raw'.closed = raw.closed
        /\ First(raw) = Head(raw.queue)
    BY <1>4, PipeTypes, RestFacts DEF HasNext, First
  <2>2. shData' \o raw'.queue = shData \o raw.queue
    BY <1>4, <2>1, PipeTypes, PassTake
  <2>3. Carried'
    BY <1>1, <1>2, <1>4, <2>2 DEF Carried
  <2>4. ClosedWhenDone' /\ ReturnsWhenFinished' /\ ReadToTheEnd'
    BY <1>1, <1>2, <1>4, <2>1 DEF ClosedWhenDone, ReturnsWhenFinished, ReadToTheEnd
  <2> QED
    BY <1>3, <2>3, <2>4 DEF Glue
<1>5. CASE /\ HasRoom(hashed)
           /\ \E n \in Numbers, r \in SH!Hashes :
                /\ hashed' = Put(hashed, r)
                /\ shResults' = Append(shResults, [by |-> n, value |-> r])
           /\ UNCHANGED <<raw, shPc, shData>>
  <2>1. PICK n \in Numbers, r \in SH!Hashes :
                /\ hashed' = Put(hashed, r)
                /\ shResults' = Append(shResults, [by |-> n, value |-> r])
    BY <1>5
  <2>2. hashed'.queue = Append(hashed.queue, r) /\ hashed'.closed = hashed.closed
    BY <2>1, PipeTypes, PutFacts
  <2>3. mhData \o hashed'.queue = Append(mhData \o hashed.queue, r)
    <3>1. \A t, q \in Seq(SH!Hashes), v \in SH!Hashes : t \o Append(q, v) = Append(t \o q, v)
      BY PassPut
    <3>2. mhData \in Seq(SH!Hashes) /\ hashed.queue \in Seq(SH!Hashes)
      BY PipeTypes
    <3> QED
      BY <2>2, <3>1, <3>2
  <2>4. ValuesOf(shResults') = Append(ValuesOf(shResults), r)
    <3> DEFINE Given == [by : Numbers, value : SH!Hashes]
               e == [by |-> n, value |-> r]
    <3>1. shResults \in Seq(Given) /\ e \in Given /\ e.value = r
      BY PipeTypes
    <3>2. \A g \in Given : g.value \in SH!Hashes
      OBVIOUS
    <3> HIDE DEF Given, e
    <3>3. ValuesOf(Append(shResults, e)) = Append(ValuesOf(shResults), e.value)
      BY <3>1, <3>2, ValuesAppend
    <3> QED
      BY <2>1, <3>1, <3>3 DEF e
  <2>5. Carried'
    BY <1>1, <1>2, <1>5, <2>3, <2>4 DEF Carried
  <2>6. ClosedWhenDone' /\ ReturnsWhenFinished'
    BY <1>1, <1>2, <1>5, <2>2 DEF ClosedWhenDone, ReturnsWhenFinished
  <2>7. ReadToTheEnd'
    BY <1>1, <1>2, <1>5 DEF ReadToTheEnd, Exhausted, HasRoom
  <2> QED
    BY <1>3, <2>5, <2>6, <2>7 DEF Glue
<1>6. CASE UNCHANGED <<raw, hashed, shPc, shData, shResults>>
  <2>1. ClosedWhenDone' /\ ReturnsWhenFinished'
    BY <1>1, <1>2, <1>6 DEF ClosedWhenDone, ReturnsWhenFinished
  <2>2. Carried' /\ ReadToTheEnd'
    BY <1>1, <1>2, <1>6 DEF Carried, ReadToTheEnd
  <2> QED
    BY <1>3, <2>1, <2>2 DEF Glue
<1>7. CASE /\ shPc # "returned" /\ (shPc = "ranging" => Exhausted(raw))
           /\ UNCHANGED <<raw, hashed, shData, shResults>>
  <2>1. ClosedWhenDone' /\ ReturnsWhenFinished'
    BY <1>1, <1>2, <1>7 DEF ClosedWhenDone, ReturnsWhenFinished
  <2>2. Carried' /\ ReadToTheEnd'
    BY <1>1, <1>2, <1>7 DEF Carried, ReadToTheEnd
  <2> QED
    BY <1>3, <2>1, <2>2 DEF Glue
<1> QED
  BY <1>1, <1>4, <1>5, <1>6, <1>7, SHSummary

LEMMA RunMultiHashGlue ==
  ASSUME IInv, RunMultiHash
  PROVE  Glue'
<1>1. /\ MHInv /\ MH!Step
      /\ UNCHANGED <<raw, combined, jobPc, sourceSent, shPc, shData, shResults, crPc, received>>
  BY DEF IInv, RunMultiHash, runVars, endVars, shVars, crVars
<1>2. GlueTypes /\ ClosedWhenDone /\ ReturnsWhenFinished /\ Carried /\ ReadToTheEnd
  BY DEF IInv, Glue
<1>3. GlueTypes'
  BY <1>1, <1>2 DEF GlueTypes
<1>4. CASE /\ HasNext(hashed) /\ hashed' = Rest(hashed) /\ mhData' = Append(mhData, First(hashed))
           /\ mhPc = "ranging"
           /\ UNCHANGED <<multi, mhPc, mhResults>>
  <2>1. hashed.queue # <<>> /\ hashed'.queue = Tail(hashed.queue) /\ hashed'.closed = hashed.closed
        /\ First(hashed) = Head(hashed.queue)
    BY <1>4, PipeTypes, RestFacts DEF HasNext, First
  <2>2. mhData' \o hashed'.queue = mhData \o hashed.queue
    BY <1>4, <2>1, PipeTypes, PassTake
  <2>3. Carried'
    BY <1>1, <1>2, <1>4, <2>2 DEF Carried
  <2>4. ClosedWhenDone' /\ ReturnsWhenFinished' /\ ReadToTheEnd'
    BY <1>1, <1>2, <1>4, <2>1 DEF ClosedWhenDone, ReturnsWhenFinished, ReadToTheEnd
  <2> QED
    BY <1>3, <2>3, <2>4 DEF Glue
<1>5. CASE /\ HasRoom(multi)
           /\ \E n \in Numbers, r \in [MH!Th -> MH!Sums] :
                /\ multi' = Put(multi, r)
                /\ mhResults' = Append(mhResults, [by |-> n, value |-> r])
           /\ UNCHANGED <<hashed, mhPc, mhData>>
  <2>1. PICK n \in Numbers, r \in [MH!Th -> MH!Sums] :
                /\ multi' = Put(multi, r)
                /\ mhResults' = Append(mhResults, [by |-> n, value |-> r])
    BY <1>5
  <2>2. multi'.queue = Append(multi.queue, r) /\ multi'.closed = multi.closed
    BY <2>1, PipeTypes, PutFacts
  <2>3. received \o multi'.queue = Append(received \o multi.queue, r)
    <3>1. \A t, q \in Seq([MH!Th -> MH!Sums]), v \in [MH!Th -> MH!Sums] :
            t \o Append(q, v) = Append(t \o q, v)
      BY PassPut
    <3>2. received \in Seq([MH!Th -> MH!Sums]) /\ multi.queue \in Seq([MH!Th -> MH!Sums])
      BY PipeTypes
    <3> QED
      BY <2>2, <3>1, <3>2
  <2>4. ValuesOf(mhResults') = Append(ValuesOf(mhResults), r)
    <3> DEFINE Given == [by : Numbers, value : [MH!Th -> MH!Sums]]
               e == [by |-> n, value |-> r]
    <3>1. mhResults \in Seq(Given) /\ e \in Given /\ e.value = r
      BY PipeTypes
    <3>2. \A g \in Given : g.value \in [MH!Th -> MH!Sums]
      OBVIOUS
    <3> HIDE DEF Given, e
    <3>3. ValuesOf(Append(mhResults, e)) = Append(ValuesOf(mhResults), e.value)
      BY <3>1, <3>2, ValuesAppend
    <3> QED
      BY <2>1, <3>1, <3>3 DEF e
  <2>5. Carried'
    BY <1>1, <1>2, <1>5, <2>3, <2>4 DEF Carried
  <2>6. ClosedWhenDone' /\ ReturnsWhenFinished'
    BY <1>1, <1>2, <1>5, <2>2 DEF ClosedWhenDone, ReturnsWhenFinished
  <2>7. ReadToTheEnd'
    BY <1>1, <1>2, <1>5 DEF ReadToTheEnd, Exhausted, HasRoom
  <2> QED
    BY <1>3, <2>5, <2>6, <2>7 DEF Glue
<1>6. CASE UNCHANGED <<hashed, multi, mhPc, mhData, mhResults>>
  <2>1. ClosedWhenDone' /\ ReturnsWhenFinished'
    BY <1>1, <1>2, <1>6 DEF ClosedWhenDone, ReturnsWhenFinished
  <2>2. Carried' /\ ReadToTheEnd'
    BY <1>1, <1>2, <1>6 DEF Carried, ReadToTheEnd
  <2> QED
    BY <1>3, <2>1, <2>2 DEF Glue
<1>7. CASE /\ mhPc # "returned" /\ (mhPc = "ranging" => Exhausted(hashed))
           /\ UNCHANGED <<hashed, multi, mhData, mhResults>>
  <2>1. ClosedWhenDone' /\ ReturnsWhenFinished'
    BY <1>1, <1>2, <1>7 DEF ClosedWhenDone, ReturnsWhenFinished
  <2>2. Carried' /\ ReadToTheEnd'
    BY <1>1, <1>2, <1>7 DEF Carried, ReadToTheEnd
  <2> QED
    BY <1>3, <2>1, <2>2 DEF Glue
<1> QED
  BY <1>1, <1>4, <1>5, <1>6, <1>7, MHSummary

LEMMA RunCombineResultsGlue ==
  ASSUME IInv, RunCombineResults
  PROVE  Glue'
<1>1. /\ CR!Step /\ jobPc["CombineResults"] = "running"
      /\ UNCHANGED <<raw, hashed, jobPc, sourceSent, shPc, shData, shResults, mhPc, mhData,
                     mhResults>>
  BY DEF RunCombineResults, runVars, endVars, shVars, mhVars
<1>2. GlueTypes /\ ClosedWhenDone /\ ReturnsWhenFinished /\ Carried /\ ReadToTheEnd
  BY DEF IInv, Glue
<1>3. CASE CR!Take
  <2>1. /\ crPc = "ranging" /\ HasNext(multi) /\ multi' = Rest(multi)
        /\ received' = Append(received, First(multi)) /\ UNCHANGED <<combined, crPc>>
    BY <1>3, SamePipes DEF CR!Take
  <2>2. multi.queue # <<>> /\ multi'.queue = Tail(multi.queue) /\ multi'.closed = multi.closed
        /\ First(multi) = Head(multi.queue) /\ First(multi) \in [MH!Th -> MH!Sums]
    BY <2>1, PipeTypes, RestFacts DEF HasNext, First
  <2>3. received' \o multi'.queue = received \o multi.queue
    BY <2>1, <2>2, PipeTypes, PassTake
  <2>4. GlueTypes'
    BY <1>1, <1>2, <2>1, <2>2, AppendProperties DEF GlueTypes
  <2>5. Carried'
    BY <1>1, <1>2, <2>1, <2>3 DEF Carried
  <2>6. ClosedWhenDone' /\ ReturnsWhenFinished' /\ ReadToTheEnd'
    BY <1>1, <1>2, <2>1, <2>2 DEF ClosedWhenDone, ReturnsWhenFinished, ReadToTheEnd
  <2> QED
    BY <2>4, <2>5, <2>6 DEF Glue
<1>4. CASE CR!Start \/ CR!RangeEnds \/ CR!SendResult
  <2>1. /\ UNCHANGED <<multi, received>>
        /\ IsPipe(combined') /\ combined'.closed = combined.closed
        /\ crPc' \in {"ranging", "sending", "returned"}
        /\ crPc' \in {"sending", "returned"} => Exhausted(multi)
    <3>1. IsPipe(combined)
      BY <1>2 DEF GlueTypes
    <3>2. CASE CR!Start
      BY <3>1, <3>2 DEF CR!Start
    <3>3. CASE CR!RangeEnds
      BY <3>1, <3>3, SamePipes DEF CR!RangeEnds
    <3>4. CASE CR!SendResult
      BY <1>2, <3>1, <3>4, SamePipes, AnyPipeFacts DEF CR!SendResult, ReadToTheEnd
    <3> QED
      BY <1>4, <3>2, <3>3, <3>4
  <2>2. GlueTypes'
    BY <1>1, <1>2, <2>1 DEF GlueTypes
  <2>3. ClosedWhenDone'
    BY <1>1, <1>2, <2>1 DEF ClosedWhenDone
  <2>4. ReturnsWhenFinished'
    BY <1>1, <1>2, <2>1 DEF ReturnsWhenFinished
  <2>5. Carried'
    BY <1>1, <1>2, <2>1 DEF Carried
  <2>6. ReadToTheEnd'
    BY <1>1, <1>2, <2>1 DEF ReadToTheEnd
  <2> QED
    BY <2>2, <2>3, <2>4, <2>5, <2>6 DEF Glue
<1> QED
  BY <1>1, <1>3, <1>4 DEF CR!Step

LEMMA SinkReceiveGlue ==
  ASSUME IInv, SinkReceive
  PROVE  Glue'
<1>1. /\ combined' = Rest(combined)
      /\ UNCHANGED <<raw, hashed, multi, jobPc, sourceSent, shPc, shData, shResults, mhPc, mhData,
                     mhResults, crPc, received>>
  BY DEF SinkReceive, runVars, shVars, mhVars, crVars
<1>2. GlueTypes /\ ClosedWhenDone /\ ReturnsWhenFinished /\ Carried /\ ReadToTheEnd
  BY DEF IInv, Glue
<1>3. IsPipe(combined') /\ combined'.closed = combined.closed
  BY <1>1, <1>2, AnyPipeFacts DEF GlueTypes
<1>4. GlueTypes' /\ ClosedWhenDone' /\ ReturnsWhenFinished'
  BY <1>1, <1>2, <1>3 DEF GlueTypes, ClosedWhenDone, ReturnsWhenFinished
<1>5. Carried' /\ ReadToTheEnd'
  BY <1>1, <1>2 DEF Carried, ReadToTheEnd
<1> QED
  BY <1>4, <1>5 DEF Glue

LEMMA ReturnGlue ==
  ASSUME IInv, NEW j \in Jobs, Start(j) \/ Return(j)
  PROVE  Glue'
<1>1. /\ \/ jobPc[j] = "launched" /\ jobPc' = [jobPc EXCEPT ![j] = "running"]
         \/ jobPc[j] = "running" /\ Finished(j) /\ jobPc' = [jobPc EXCEPT ![j] = "returned"]
      /\ UNCHANGED <<raw, hashed, multi, combined, sourceSent, shPc, shData, shResults, mhPc,
                     mhData, mhResults, crPc, received>>
  BY DEF Start, Return, pipeVars, endVars, shVars, mhVars, crVars
<1>2. GlueTypes /\ ClosedWhenDone /\ ReturnsWhenFinished /\ Carried /\ ReadToTheEnd
  BY DEF IInv, Glue
<1>3. GlueTypes'
  BY <1>1, <1>2 DEF GlueTypes
<1>4. ClosedWhenDone'
  BY <1>1, <1>2 DEF ClosedWhenDone, GlueTypes, Jobs
<1>5. ReturnsWhenFinished'
  BY <1>1, <1>2 DEF ReturnsWhenFinished, GlueTypes, Jobs, Finished, MaxValues
<1>6. Carried' /\ ReadToTheEnd'
  BY <1>1, <1>2 DEF Carried, ReadToTheEnd
<1> QED
  BY <1>3, <1>4, <1>5, <1>6 DEF Glue

LEMMA CloseNextGlue ==
  ASSUME IInv, NEW j \in Jobs, CloseNext(j)
  PROVE  Glue'
<1>1. /\ jobPc[j] = "returned" /\ jobPc' = [jobPc EXCEPT ![j] = "done"]
      /\ raw' = IF j = "source" THEN Close(raw) ELSE raw
      /\ hashed' = IF j = "SingleHash" THEN Close(hashed) ELSE hashed
      /\ multi' = IF j = "MultiHash" THEN Close(multi) ELSE multi
      /\ combined' = IF j = "CombineResults" THEN Close(combined) ELSE combined
      /\ UNCHANGED <<sourceSent, shPc, shData, shResults, mhPc, mhData, mhResults, crPc, received>>
  BY DEF CloseNext, endVars, shVars, mhVars, crVars
<1>2. GlueTypes /\ ClosedWhenDone /\ ReturnsWhenFinished /\ Carried /\ ReadToTheEnd
  BY DEF IInv, Glue
<1>3. /\ raw'.queue = raw.queue /\ (raw'.closed <=> raw.closed \/ j = "source")
      /\ hashed'.queue = hashed.queue /\ (hashed'.closed <=> hashed.closed \/ j = "SingleHash")
      /\ multi'.queue = multi.queue /\ (multi'.closed <=> multi.closed \/ j = "MultiHash")
      /\ combined'.closed <=> combined.closed \/ j = "CombineResults"
      /\ IsPipe(combined')
  <2>1. raw'.queue = raw.queue /\ (raw'.closed <=> raw.closed \/ j = "source")
    BY <1>1, PipeTypes, CloseFacts
  <2>2. hashed'.queue = hashed.queue /\ (hashed'.closed <=> hashed.closed \/ j = "SingleHash")
    BY <1>1, PipeTypes, CloseFacts
  <2>3. multi'.queue = multi.queue /\ (multi'.closed <=> multi.closed \/ j = "MultiHash")
    BY <1>1, PipeTypes, CloseFacts
  <2>4. (combined'.closed <=> combined.closed \/ j = "CombineResults") /\ IsPipe(combined')
    BY <1>1, <1>2, AnyPipeFacts DEF GlueTypes
  <2> QED
    BY <2>1, <2>2, <2>3, <2>4
<1>4. GlueTypes'
  BY <1>1, <1>2, <1>3 DEF GlueTypes
<1>5. ClosedWhenDone'
  BY <1>1, <1>2, <1>3 DEF ClosedWhenDone, GlueTypes, Jobs
<1>6. ReturnsWhenFinished'
  BY <1>1, <1>2 DEF ReturnsWhenFinished, GlueTypes, Jobs
<1>7. Carried'
  BY <1>1, <1>2, <1>3 DEF Carried
<1>8. ReadToTheEnd'
  BY <1>1, <1>2, <1>3 DEF ReadToTheEnd, Exhausted
<1> QED
  BY <1>4, <1>5, <1>6, <1>7, <1>8 DEF Glue

LEMMA CalmGlue ==
  ASSUME IInv, Wait \/ UNCHANGED vars
  PROVE  Glue'
<1>1. UNCHANGED <<raw, hashed, multi, combined, jobPc, sourceSent, shPc, shData, shResults, mhPc,
                  mhData, mhResults, crPc, received>>
  BY DEF Wait, vars, pipeVars, runVars, endVars, shVars, mhVars, crVars
<1> QED
  BY <1>1 DEF IInv, Glue, GlueTypes, ClosedWhenDone, ReturnsWhenFinished, Carried, ReadToTheEnd

LEMMA StartInv ==
  ASSUME Init
  PROVE  IInv
<1>1. /\ raw = NewPipe /\ hashed = NewPipe /\ multi = NewPipe /\ combined = NewPipe
      /\ jobPc = [j \in Jobs |-> "launched"] /\ sourceSent = 0
      /\ SH!Init /\ MH!Init /\ CR!Init
  BY DEF Init
<1>2. SHInv /\ MHInv
  BY <1>1, SHStart, MHStart
<1>3. NewPipe.queue = <<>> /\ NewPipe.closed = FALSE /\ IsPipe(NewPipe)
  BY DEF NewPipe, IsPipe
<1>4. /\ shPc = "ranging" /\ mhPc = "ranging" /\ crPc = "new"
      /\ shData = <<>> /\ mhData = <<>> /\ received = <<>>
      /\ shResults = <<>> /\ mhResults = <<>>
  BY <1>1 DEF SH!Init, MH!Init, CR!Init
<1>5. GlueTypes
  <2>1. 0 \in 0 .. MaxValues
    BY ConstantFacts
  <2>2. <<>> \in Seq([MH!Th -> MH!Sums])
    BY EmptySeq
  <2> QED
    BY <1>1, <1>3, <1>4, <2>1, <2>2 DEF GlueTypes
<1>6. ClosedWhenDone /\ ReturnsWhenFinished
  BY <1>1, <1>3 DEF ClosedWhenDone, ReturnsWhenFinished, Jobs
<1>7. Carried
  <2>1. <<>> \o <<>> = <<>>
    BY EmptySeq, ConcatEmptySeq
  <2>2. SubSeq(Inputs, 1, 0) = <<>>
    BY SubSeqEmpty
  <2>3. ValuesOf(<<>>) = <<>>
    BY EmptySeq DEF ValuesOf
  <2> QED
    BY <1>1, <1>3, <1>4, <2>1, <2>2, <2>3 DEF Carried
<1>8. ReadToTheEnd
  BY <1>4 DEF ReadToTheEnd
<1> QED
  BY <1>2, <1>5, <1>6, <1>7, <1>8 DEF IInv, Glue

LEMMA StepInv ==
  ASSUME IInv, [Next]_vars
  PROVE  IInv'
<1>1. SHInv' /\ MHInv'
  BY JobsStep, SHStep, MHStep DEF IInv
<1>2. Glue'
  BY SourceSendGlue, RunSingleHashGlue, RunMultiHashGlue, RunCombineResultsGlue, SinkReceiveGlue,
     ReturnGlue, CloseNextGlue, CalmGlue DEF Next, Running
<1> QED
  BY <1>1, <1>2 DEF IInv

-----------------------------------------------------------------------------
(* What holds of the whole.                                                 *)

LEMMA Invariance == Spec => []IInv
<1>1. Init => IInv
  BY StartInv
<1>2. IInv /\ [Next]_vars => IInv'
  BY StepInv
<1> QED
  BY <1>1, <1>2, PTL DEF Spec

(* The state of SingleHash and of MultiHash has its type, the wait groups,  *)
(* the quota and the tokens of waitCh stay in their ranges, and no job      *)
(* takes more values than there are inputs.                                 *)
THEOREM JobsTypeCorrect == Spec => [](SH!TypeOK /\ MH!TypeOK)
<1>1. IInv => SH!TypeOK /\ MH!TypeOK
  BY DEF IInv, SHInv, MHInv
<1> QED
  BY <1>1, Invariance, PTL

(* However many workers and whatever the helpers do, MD5 is computed by one *)
(* worker at a time and finds the flag of the overheat lock free.           *)
THEOREM QuotaAdmitsOne == Spec => []NeverOverheats
<1>1. IInv => NeverOverheats
  BY SHSafe DEF IInv
<1> QED
  BY <1>1, Invariance, PTL

(* No worker sends the left side while its helper is writing it.            *)
THEOREM LeftSideSettled == Spec => []JoinWaits
<1>1. IInv => JoinWaits
  BY SHSafe DEF IInv
<1> QED
  BY <1>1, Invariance, PTL

(* ExecutePipeline closes a pipe only after the last worker that could send *)
(* on it.                                                                   *)
THEOREM ClosedLast == Spec => []NoPanic
<1>1. IInv => NoPanic
  BY SHSafe, MHSafe DEF IInv, NoPanic
<1> QED
  BY <1>1, Invariance, PTL

(* Each job runs in the surroundings its own module assumes, and SingleHash *)
(* and MultiHash are stages: each of their steps takes a value, gives the   *)
(* one result of a value, returns after the last one, or changes nothing    *)
(* that a stage shows.                                                      *)
THEOREM JobsKept == Spec => KeepsJobs
<1>1. Init => /\ raw = SH!NewPipe /\ hashed = SH!NewPipe /\ SH!Init
              /\ hashed = MH!NewPipe /\ multi = MH!NewPipe /\ MH!Init
              /\ multi = CR!NewPipe /\ combined = CR!NewPipe /\ CR!Init
  BY SamePipes DEF Init
<1>2. Init => SH!Job!Init /\ MH!Job!Init
  BY DEF Init, SH!Init, MH!Init, SH!Job!Init, MH!Job!Init
<1>3. IInv /\ [Next]_vars => [SH!Next]_SH!vars /\ [MH!Next]_MH!vars /\ [CR!Next]_CR!vars
  BY JobsStep
<1>4. IInv /\ [Next]_vars => [SH!Job!Next]_SH!Job!sVars /\ [MH!Job!Next]_MH!Job!sVars
  BY JobsStep, SHStage, MHStage DEF IInv
<1>5. Spec => SH!Spec
  BY <1>1, <1>3, Invariance, PTL DEF Spec, SH!Spec
<1>6. Spec => MH!Spec
  BY <1>1, <1>3, Invariance, PTL DEF Spec, MH!Spec
<1>7. Spec => CR!Spec
  BY <1>1, <1>3, Invariance, PTL DEF Spec, CR!Spec
<1>8. Spec => SH!KeepsStage
  BY <1>2, <1>4, Invariance, PTL DEF Spec, SH!KeepsStage, SH!Job!Spec
<1>9. Spec => MH!KeepsStage
  BY <1>2, <1>4, Invariance, PTL DEF Spec, MH!KeepsStage, MH!Job!Spec
<1> QED
  BY <1>5, <1>6, <1>7, <1>8, <1>9 DEF KeepsJobs

-----------------------------------------------------------------------------
(* CombineResults and the result.                                           *)

Blanks == [i \in 1 .. blanks |-> Empty]

(* What CombineResults has collected, and where its one string is.          *)
CRInv ==
  /\ blanks \in Nat
  /\ crPc = "new" => received = <<>>
  /\ crPc = "ranging" => parts = Blanks \o received
  /\ crPc \in {"sending", "returned"} => parts = CR!Sorted(Blanks \o received)
  /\ crPc # "returned" => combined.queue = <<>> /\ testResult = <<>>
  /\ crPc = "returned" => \/ combined.queue = <<parts>> /\ testResult = <<>>
                          \/ combined.queue = <<>> /\ testResult = <<parts>>

LEMMA BlanksFacts ==
  ASSUME NEW S, blanks \in Nat
  PROVE  Blanks \in Seq(S \cup {Empty}) /\ Len(Blanks) = blanks
<1>1. Blanks \in [1 .. blanks -> S \cup {Empty}]
  BY DEF Blanks
<1>2. Blanks \in Seq(S \cup {Empty})
  BY <1>1, SeqDef
<1> QED
  BY <1>1, <1>2, LenProperties

LEMMA CRStart ==
  ASSUME Init
  PROVE  CRInv
<1>1. combined.queue = <<>> /\ testResult = <<>> /\ crPc = "new" /\ blanks = 0 /\ received = <<>>
  BY DEF Init, CR!Init, NewPipe
<1> QED
  BY <1>1 DEF CRInv

LEMMA CRStepInv ==
  ASSUME IInv, CRInv, [Next]_vars
  PROVE  CRInv'
<1> DEFINE S == [MH!Th -> MH!Sums]
<1>0. /\ received \in Seq(S) /\ multi \in PipeOf(S) /\ multi.queue \in Seq(S)
      /\ Len(multi.queue) \in Nat
      /\ crPc \in {"new", "ranging", "sending", "returned"}
      /\ IsPipe(combined)
  BY PipeTypes, LenProperties DEF IInv, Glue, GlueTypes
<1>1. ASSUME CR!Start, UNCHANGED testResult
      PROVE  CRInv'
  <2>1. /\ crPc = "new" /\ crPc' = "ranging" /\ blanks' = Len(multi.queue)
        /\ parts' = [i \in 1 .. Len(multi.queue) |-> Empty]
        /\ UNCHANGED <<multi, combined, received>>
    BY <1>1 DEF CR!Start, CR!Empty, Empty
  <2>2. received = <<>> /\ combined.queue = <<>> /\ testResult = <<>>
    BY <2>1 DEF CRInv
  <2>3. parts' = Blanks' /\ Blanks' \in Seq(S \cup {Empty})
    <3>1. parts' = Blanks'
      BY <2>1 DEF Blanks
    <3>2. parts' \in [1 .. Len(multi.queue) -> S \cup {Empty}]
      BY <2>1
    <3> QED
      BY <1>0, <3>1, <3>2, SeqDef
  <2>4. Blanks' \o <<>> = Blanks'
    BY <2>3, ConcatEmptySeq
  <2> QED
    BY <1>0, <1>1, <2>1, <2>2, <2>3, <2>4 DEF CRInv
<1>2. ASSUME CR!Take, UNCHANGED testResult
      PROVE  CRInv'
  <2>1. /\ crPc = "ranging" /\ HasNext(multi) /\ received' = Append(received, First(multi))
        /\ parts' = Append(parts, First(multi)) /\ UNCHANGED <<combined, crPc, blanks>>
    BY <1>2, SamePipes DEF CR!Take
  <2>2. First(multi) \in S \cup {Empty} /\ received \in Seq(S \cup {Empty})
    BY <1>0, <2>1, RestFacts, SeqMonotonic
  <2>3. Blanks \in Seq(S \cup {Empty}) /\ Blanks' = Blanks
    BY <2>1, BlanksFacts DEF CRInv, Blanks
  <2>4. Blanks \o Append(received, First(multi)) = Append(Blanks \o received, First(multi))
    <3> HIDE DEF S
    <3>1. \A t, q \in Seq(S \cup {Empty}), v \in S \cup {Empty} :
            t \o Append(q, v) = Append(t \o q, v)
      BY PassPut
    <3> QED
      BY <2>2, <2>3, <3>1
  <2> QED
    BY <1>2, <2>1, <2>3, <2>4 DEF CRInv
<1>3. ASSUME CR!RangeEnds, UNCHANGED testResult
      PROVE  CRInv'
  <2>1. /\ crPc = "ranging" /\ crPc' = "sending" /\ parts' = CR!Sorted(parts)
        /\ UNCHANGED <<combined, received, blanks>>
    BY <1>3 DEF CR!RangeEnds
  <2> QED
    BY <1>3, <2>1 DEF CRInv, Blanks
<1>4. ASSUME CR!SendResult, UNCHANGED testResult
      PROVE  CRInv'
  <2>1. /\ crPc = "sending" /\ crPc' = "returned" /\ combined' = Put(combined, parts)
        /\ UNCHANGED <<parts, received, blanks>>
    BY <1>4, SamePipes DEF CR!SendResult
  <2>2. combined.queue = <<>> /\ testResult = <<>> /\ parts = CR!Sorted(Blanks \o received)
        /\ Blanks' = Blanks
    BY <2>1 DEF CRInv, Blanks
  <2>3. combined'.queue = Append(combined.queue, parts)
    <3>1. \A v : Put(combined, v).queue = Append(combined.queue, v)
      BY <1>0, AnyPipeFacts
    <3> QED
      BY <2>1, <3>1
  <2>4. combined'.queue = <<parts>>
    <3>1. \A v : Append(<<>>, v) = <<v>>
      OBVIOUS
    <3> QED
      BY <2>2, <2>3, <3>1
  <2> QED
    BY <1>4, <2>1, <2>2, <2>4 DEF CRInv
<1>5. CASE SinkReceive
  <2>1. /\ HasNext(combined) /\ testResult' = <<First(combined)>> /\ combined' = Rest(combined)
        /\ UNCHANGED <<crPc, parts, blanks, received>>
    BY <1>5 DEF SinkReceive, crVars
  <2>2. combined.queue = <<parts>> /\ crPc = "returned" /\ parts = CR!Sorted(Blanks \o received)
        /\ Blanks' = Blanks
    BY <1>0, <2>1 DEF CRInv, HasNext, Blanks
  <2>3. combined'.queue = Tail(<<parts>>) /\ First(combined) = Head(<<parts>>)
    BY <1>0, <2>1, <2>2, AnyPipeFacts DEF First
  <2>4. combined'.queue = <<>> /\ testResult' = <<parts>>
    BY <2>1, <2>3
  <2> QED
    BY <2>1, <2>2, <2>4 DEF CRInv
<1>6. ASSUME combined'.queue = combined.queue, UNCHANGED <<crPc, parts, blanks, received, testResult>>
      PROVE  CRInv'
  BY <1>6 DEF CRInv, Blanks
<1>7. CASE RunCombineResults
  BY <1>1, <1>2, <1>3, <1>4, <1>7 DEF RunCombineResults, CR!Step, endVars
<1>8. CASE SourceSend \/ RunSingleHash \/ RunMultiHash \/ Wait \/ UNCHANGED vars
  BY <1>6, <1>8 DEF SourceSend, RunSingleHash, RunMultiHash, Wait, vars, pipeVars, endVars, crVars
<1>9. ASSUME NEW j \in Jobs, Start(j) \/ Return(j) \/ CloseNext(j)
      PROVE  CRInv'
  <2>1. UNCHANGED <<crPc, parts, blanks, received, testResult>>
    BY <1>9 DEF Start, Return, CloseNext, endVars, crVars
  <2>2. combined' = combined \/ combined' = Close(combined)
    BY <1>9 DEF Start, Return, CloseNext, pipeVars
  <2>3. combined'.queue = combined.queue
    BY <1>0, <2>2, AnyPipeFacts
  <2> QED
    BY <1>6, <2>1, <2>3
<1> QED
  BY <1>5, <1>7, <1>8, <1>9 DEF Next, Running

-----------------------------------------------------------------------------
(* Arrangements: reordering a sequence by a bijection.                      *)

OneToOne(f, A, B) ==
  /\ f \in [A -> B]
  /\ \A x, y \in A : f[x] = f[y] => x = y
  /\ \A z \in B : \E x \in A : f[x] = z

LEMMA Bijections ==
  ASSUME NEW f, NEW A, NEW B
  PROVE  /\ f \in Bijection(A, B) <=> OneToOne(f, A, B)
         /\ f \in CR!Bijection(A, B) <=> OneToOne(f, A, B)
<1>1. f \in Bijection(A, B) <=> OneToOne(f, A, B)
  BY DEF Bijection, Injection, Surjection, IsInjective, OneToOne
<1>2. f \in CR!Bijection(A, B) <=> OneToOne(f, A, B)
  BY DEF CR!Bijection, CR!Injection, CR!Surjection, CR!IsInjective, OneToOne
<1> QED
  BY <1>1, <1>2

LEMMA SameCount ==
  ASSUME NEW f, NEW A, NEW B, OneToOne(f, A, B), IsFiniteSet(A)
  PROVE  IsFiniteSet(B) /\ Cardinality(A) = Cardinality(B)
<1>1. f \in Bijection(A, B)
  BY Bijections
<1>2. ExistsBijection(A, B)
  BY <1>1 DEF ExistsBijection
<1> QED
  BY <1>2, FS_Bijection

LEMMA OntoItself ==
  ASSUME NEW m \in Nat, NEW f \in [1 .. m -> 1 .. m],
         \A x, y \in 1 .. m : f[x] = f[y] => x = y
  PROVE  OneToOne(f, 1 .. m, 1 .. m)
<1>1. f \in Injection(1 .. m, 1 .. m)
  BY DEF Injection, IsInjective
<1>2. IsFiniteSet(1 .. m)
  BY FS_Interval
<1>3. f \in Surjection(1 .. m, 1 .. m)
  BY <1>1, <1>2, FS_Injection
<1> QED
  BY <1>3 DEF Surjection, OneToOne

LEMMA Composed ==
  ASSUME NEW f, NEW g, NEW A, NEW B, NEW C, OneToOne(f, A, B), OneToOne(g, B, C)
  PROVE  OneToOne([x \in A |-> g[f[x]]], A, C)
<1> DEFINE h == [x \in A |-> g[f[x]]]
<1>1. h \in [A -> C]
  BY DEF OneToOne
<1>2. \A x, y \in A : h[x] = h[y] => x = y
  BY DEF OneToOne
<1>3. ASSUME NEW z \in C
      PROVE  \E x \in A : h[x] = z
  <2>1. PICK y \in B : g[y] = z
    BY DEF OneToOne
  <2>2. PICK x \in A : f[x] = y
    BY DEF OneToOne
  <2> QED
    BY <2>1, <2>2
<1> HIDE DEF h
<1>4. OneToOne(h, A, C)
  BY <1>1, <1>2, <1>3 DEF OneToOne
<1> QED
  BY <1>4 DEF h

LEMMA Reversed ==
  ASSUME NEW f, NEW A, NEW B, OneToOne(f, A, B)
  PROVE  \E g : OneToOne(g, B, A) /\ (\A x \in A : g[f[x]] = x) /\ \A y \in B : f[g[y]] = y
<1> DEFINE g == [y \in B |-> CHOOSE x \in A : f[x] = y]
<1>1. \A y \in B : g[y] \in A /\ f[g[y]] = y
  BY DEF OneToOne
<1>2. g \in [B -> A]
  BY <1>1
<1> HIDE DEF g
<1>3. \A x \in A : f[x] \in B /\ g[f[x]] = x
  BY <1>1 DEF OneToOne
<1>4. OneToOne(g, B, A)
  BY <1>1, <1>2, <1>3 DEF OneToOne
<1> QED
  BY <1>1, <1>3, <1>4

Arranged(s, p, D) == [i \in D |-> s[p[i]]]

LEMMA ArrangementsAre ==
  ASSUME NEW s, NEW D, DOMAIN s = D, NEW t
  PROVE  t \in CR!Arrangements(s)
           <=> \E p : OneToOne(p, D, D) /\ t = Arranged(s, p, D)
BY Bijections DEF CR!Arrangements, Arranged

(* A sequence and an arrangement of it have the same arrangements.          *)
LEMMA SameArrangements ==
  ASSUME NEW s, NEW D, DOMAIN s = D, NEW q, OneToOne(q, D, D)
  PROVE  CR!Arrangements(Arranged(s, q, D)) = CR!Arrangements(s)
<1> DEFINE u == Arranged(s, q, D)
<1>1. DOMAIN u = D /\ \A i \in D : u[i] = s[q[i]]
  BY DEF Arranged
<1>2. q \in [D -> D]
  BY DEF OneToOne
<1> HIDE DEF u
<1>3. ASSUME NEW p, OneToOne(p, D, D)
      PROVE  Arranged(u, p, D) \in CR!Arrangements(s)
  <2> DEFINE c == [i \in D |-> q[p[i]]]
  <2>1. OneToOne(c, D, D)
    BY <1>3, Composed
  <2>2. \A i \in D : p[i] \in D
    BY <1>3 DEF OneToOne
  <2>3. Arranged(u, p, D) = Arranged(s, c, D)
    BY <1>1, <2>2 DEF Arranged
  <2> HIDE DEF c
  <2> QED
    BY <2>1, <2>3, ArrangementsAre
<1>4. PICK r : OneToOne(r, D, D) /\ \A i \in D : q[r[i]] = i
  <2>1. \E g : /\ OneToOne(g, D, D) /\ (\A x \in D : g[q[x]] = x)
              /\ \A y \in D : q[g[y]] = y
    BY Reversed
  <2> QED
    BY <2>1
<1>5. ASSUME NEW p, OneToOne(p, D, D)
      PROVE  Arranged(s, p, D) \in CR!Arrangements(u)
  <2> DEFINE c == [i \in D |-> r[p[i]]]
  <2>1. OneToOne(c, D, D)
    BY <1>4, <1>5, Composed
  <2>2. \A i \in D : p[i] \in D /\ r[p[i]] \in D /\ q[r[p[i]]] = p[i]
    BY <1>4, <1>5 DEF OneToOne
  <2>3. Arranged(s, p, D) = Arranged(u, c, D)
    BY <1>1, <2>2 DEF Arranged
  <2> HIDE DEF c
  <2> QED
    BY <1>1, <2>1, <2>3, ArrangementsAre
<1>6. \A t : t \in CR!Arrangements(u) => t \in CR!Arrangements(s)
  BY <1>1, <1>3, ArrangementsAre
<1>7. \A t : t \in CR!Arrangements(s) => t \in CR!Arrangements(u)
  BY <1>5, ArrangementsAre
<1>8. CR!Arrangements(u) = CR!Arrangements(s)
  BY <1>6, <1>7
<1> QED
  BY <1>8 DEF u

(* The order in which the positions of s are sorted: by the parts, and      *)
(* equal parts by their positions.                                          *)
NotAfter(s, j, i) == Precedes(s[j], s[i]) \/ (s[j] = s[i] /\ j <= i)

LEMMA NotAfterFacts ==
  ASSUME NEW m \in Nat, NEW s \in [1 .. m -> PossibleParts]
  PROVE  /\ \A i \in 1 .. m : NotAfter(s, i, i)
         /\ \A i, j \in 1 .. m : NotAfter(s, j, i) \/ NotAfter(s, i, j)
         /\ \A i, j \in 1 .. m : NotAfter(s, j, i) /\ NotAfter(s, i, j) => i = j
         /\ \A i, j, k \in 1 .. m : NotAfter(s, i, j) /\ NotAfter(s, j, k) => NotAfter(s, i, k)
<1> DEFINE P(a, b) == Precedes(a, b)
<1>1. \A i \in 1 .. m : s[i] \in PossibleParts
  OBVIOUS
<1>2. /\ \A a \in PossibleParts : ~P(a, a)
      /\ \A a, b \in PossibleParts : P(a, b) \/ P(b, a) \/ a = b
      /\ \A a, b, c \in PossibleParts : P(a, b) /\ P(b, c) => P(a, c)
  BY OrderAssumption
<1>3. \A i, j : NotAfter(s, j, i) <=> P(s[j], s[i]) \/ (s[j] = s[i] /\ j <= i)
  BY DEF NotAfter
<1> HIDE DEF P
<1>4. \A i \in 1 .. m : NotAfter(s, i, i)
  BY <1>3
<1>5. \A i, j \in 1 .. m : NotAfter(s, j, i) \/ NotAfter(s, i, j)
  BY <1>1, <1>2, <1>3
<1>6. \A i, j \in 1 .. m : NotAfter(s, j, i) /\ NotAfter(s, i, j) => i = j
  <2> SUFFICES ASSUME NEW i \in 1 .. m, NEW j \in 1 .. m, NotAfter(s, j, i), NotAfter(s, i, j)
               PROVE  i = j
    OBVIOUS
  <2>1. ~P(s[i], s[i]) /\ ~P(s[j], s[j])
    BY <1>1, <1>2
  <2>2. ~(P(s[i], s[j]) /\ P(s[j], s[i]))
    BY <1>1, <1>2, <2>1
  <2> QED
    BY <1>3, <2>1, <2>2
<1>7. ASSUME NEW i \in 1 .. m, NEW j \in 1 .. m, NEW k \in 1 .. m,
             NotAfter(s, i, j), NotAfter(s, j, k)
      PROVE  NotAfter(s, i, k)
  <2>1. P(s[i], s[j]) /\ P(s[j], s[k]) => P(s[i], s[k])
    BY <1>1, <1>2
  <2> QED
    BY <1>3, <1>7, <2>1
<1> QED
  BY <1>4, <1>5, <1>6, <1>7

(* A sequence of parts can be sorted: position i goes where the number of   *)
(* positions not after it says.                                             *)
LEMMA SortedExists ==
  ASSUME NEW m \in Nat, NEW s \in [1 .. m -> PossibleParts]
  PROVE  CR!Sorted(s) \in CR!Arrangements(s)
<1> DEFINE D == 1 .. m
           L(j, i) == NotAfter(s, j, i)
           Below(i) == {j \in D : L(j, i)}
           r == [i \in D |-> Cardinality(Below(i))]
<1>1. /\ \A i \in D : L(i, i)
      /\ \A i, j \in D : L(j, i) \/ L(i, j)
      /\ \A i, j \in D : L(j, i) /\ L(i, j) => i = j
      /\ \A i, j, k \in D : L(i, j) /\ L(j, k) => L(i, k)
  BY NotAfterFacts
<1>2. IsFiniteSet(D) /\ Cardinality(D) = m
  BY FS_Interval
<1> HIDE DEF L
<1>3. \A i \in D : /\ IsFiniteSet(Below(i)) /\ Cardinality(Below(i)) \in Nat
                   /\ Cardinality(Below(i)) <= m /\ Cardinality(Below(i)) # 0
  <2> SUFFICES ASSUME NEW i \in D
               PROVE  /\ IsFiniteSet(Below(i)) /\ Cardinality(Below(i)) \in Nat
                      /\ Cardinality(Below(i)) <= m /\ Cardinality(Below(i)) # 0
    OBVIOUS
  <2>1. Below(i) \in SUBSET D /\ i \in Below(i)
    BY <1>1
  <2> HIDE DEF D, Below
  <2> QED
    BY <1>2, <2>1, FS_Subset, FS_CardinalityType, FS_EmptySet
<1>4. \A i, j \in D : L(j, i) /\ i # j => Cardinality(Below(j)) < Cardinality(Below(i))
  <2> SUFFICES ASSUME NEW i \in D, NEW j \in D, L(j, i), i # j
               PROVE  Cardinality(Below(j)) < Cardinality(Below(i))
    OBVIOUS
  <2>1. Below(j) \in SUBSET Below(i) /\ i \in Below(i) /\ i \notin Below(j)
    BY <1>1
  <2>2. IsFiniteSet(Below(i)) /\ Cardinality(Below(i)) \in Nat /\ Cardinality(Below(j)) \in Nat
    BY <1>3
  <2> HIDE DEF D, Below
  <2> QED
    BY <2>1, <2>2, FS_Subset
<1>5. r \in [D -> D]
  BY <1>3
<1> HIDE DEF Below
<1>5a. \A i \in D : r[i] \in Nat
  BY <1>3
<1>5b. \A i, j \in D : L(j, i) /\ i # j => r[j] < r[i]
  BY <1>4
<1> HIDE DEF r, D
<1>6. \A i, j \in D : r[i] = r[j] => i = j
  BY <1>1, <1>5a, <1>5b
<1>7. \A i, j \in D : r[i] < r[j] => L(i, j)
  BY <1>1, <1>5a, <1>5b
<1>8. OneToOne(r, D, D)
  BY <1>5, <1>6, OntoItself DEF D
<1>9. PICK p : OneToOne(p, D, D) /\ \A i \in D : r[p[i]] = i
  <2>1. \E g : /\ OneToOne(g, D, D) /\ (\A x \in D : g[r[x]] = x)
               /\ \A y \in D : r[g[y]] = y
    BY <1>8, Reversed
  <2> QED
    BY <2>1
<1> DEFINE t == Arranged(s, p, D)
<1>10. DOMAIN s = D
  BY DEF D
<1>11. t \in CR!Arrangements(s)
  BY <1>9, <1>10, ArrangementsAre
<1>12. DOMAIN t = D /\ \A i \in D : p[i] \in D /\ t[i] = s[p[i]]
  BY <1>9 DEF Arranged, OneToOne
<1> HIDE DEF t
<1>13. \A i, j \in D : i < j => Precedes(t[i], t[j]) \/ t[i] = t[j]
  <2> SUFFICES ASSUME NEW i \in D, NEW j \in D, i < j
               PROVE  Precedes(t[i], t[j]) \/ t[i] = t[j]
    OBVIOUS
  <2>1. L(p[i], p[j])
    BY <1>7, <1>9, <1>12
  <2> QED
    BY <1>12, <2>1 DEF L, NotAfter
<1>14. CR!Ascending(t)
  BY <1>12, <1>13 DEF CR!Ascending
<1> QED
  BY <1>11, <1>14 DEF CR!Sorted

(* When CombineResults has sent, all that the inputs became has arrived.    *)
LEMMA AllArrived ==
  ASSUME IInv, CRInv, testResult # <<>>
  PROVE  /\ testResult = <<CR!Sorted(Blanks \o received)>>
         /\ received = ValuesOf(mhResults) /\ mhData = ValuesOf(shResults) /\ shData = Inputs
         /\ \A n \in Numbers : n <= Len(shData) => workerPc[n] = "done"
         /\ \A n \in Numbers : n <= Len(mhData) => mhWorkerPc[n] = "done"
<1>1. crPc = "returned" /\ testResult = <<CR!Sorted(Blanks \o received)>>
  BY DEF CRInv, IInv, Glue, GlueTypes
<1>2. Exhausted(multi) /\ jobPc["MultiHash"] = "done" /\ mhPc = "returned"
  BY <1>1 DEF IInv, Glue, ReadToTheEnd, ClosedWhenDone, ReturnsWhenFinished, Exhausted
<1>3. Exhausted(hashed) /\ jobPc["SingleHash"] = "done" /\ shPc = "returned"
  BY <1>2 DEF IInv, Glue, ReadToTheEnd, ClosedWhenDone, ReturnsWhenFinished, Exhausted
<1>4. Exhausted(raw) /\ jobPc["source"] = "done" /\ sourceSent = MaxValues
  BY <1>3 DEF IInv, Glue, ReadToTheEnd, ClosedWhenDone, ReturnsWhenFinished, Exhausted
<1>5. received = ValuesOf(mhResults)
  <2>1. received \o <<>> = ValuesOf(mhResults)
    BY <1>2 DEF IInv, Glue, Carried, Exhausted
  <2> QED
    BY <2>1, PipeTypes, ConcatEmptySeq
<1>6. mhData = ValuesOf(shResults)
  <2>1. mhData \o <<>> = ValuesOf(shResults)
    BY <1>3 DEF IInv, Glue, Carried, Exhausted
  <2> QED
    BY <2>1, PipeTypes, ConcatEmptySeq
<1>7. shData = Inputs
  <2>1. shData \o <<>> = SubSeq(Inputs, 1, Len(Inputs))
    BY <1>4 DEF IInv, Glue, Carried, Exhausted, MaxValues
  <2>2. shData \o <<>> = shData
    BY PipeTypes, ConcatEmptySeq
  <2>3. SubSeq(Inputs, 1, Len(Inputs)) = Inputs
    BY SignerAssumption, SubSeqFull
  <2> QED
    BY <2>1, <2>2, <2>3
<1>8. \A n \in Numbers : n <= Len(shData) => workerPc[n] = "done"
  <2>1. Len(shData) \in Nat
    BY PipeTypes, LenProperties
  <2> QED
    BY <1>3, <2>1 DEF IInv, SHInv, SHFlow, Computing, Numbers
<1>9. \A n \in Numbers : n <= Len(mhData) => mhWorkerPc[n] = "done"
  <2>1. Len(mhData) \in Nat
    BY PipeTypes, LenProperties
  <2> QED
    BY <1>2, <2>1 DEF IInv, MHInv, MHFlow, MHComputing, Numbers
<1> QED
  BY <1>1, <1>5, <1>6, <1>7, <1>8, <1>9

(* Results of m workers, one of each, are as many, and each is by one.      *)
LEMMA OneResultEach ==
  ASSUME NEW rs, NEW k \in Nat, NEW m \in Nat, DOMAIN rs = 1 .. k,
         \A i \in DOMAIN rs : rs[i].by \in 1 .. m,
         \A i, j \in DOMAIN rs : rs[i].by = rs[j].by => i = j,
         \A n \in 1 .. m : \E i \in DOMAIN rs : rs[i].by = n
  PROVE  k = m /\ OneToOne([i \in 1 .. k |-> rs[i].by], 1 .. k, 1 .. m)
<1> DEFINE f == [i \in 1 .. k |-> rs[i].by]
<1>1. OneToOne(f, 1 .. k, 1 .. m)
  BY DEF OneToOne
<1>2. IsFiniteSet(1 .. k) /\ Cardinality(1 .. k) = k /\ Cardinality(1 .. m) = m
  <2>1. \A z \in Nat : IsFiniteSet(1 .. z) /\ Cardinality(1 .. z) = z
    BY FS_Interval
  <2> QED
    BY <2>1
<1> HIDE DEF f
<1>3. Cardinality(1 .. k) = Cardinality(1 .. m)
  BY <1>1, <1>2, SameCount
<1> QED
  BY <1>1, <1>2, <1>3 DEF f

(* The results of the workers have the values that were put in them.        *)
LEMMA ResultValues ==
  ASSUME IInv
  PROVE  /\ Len(ValuesOf(shResults)) = Len(shResults)
         /\ \A i \in 1 .. Len(shResults) : ValuesOf(shResults)[i] = shResults[i].value
         /\ Len(ValuesOf(mhResults)) = Len(mhResults)
         /\ \A i \in 1 .. Len(mhResults) : ValuesOf(mhResults)[i] = mhResults[i].value
<1>1. HasValues(shResults)
  BY PipeTypes, HaveValues
<1>2. HasValues(mhResults)
  BY PipeTypes, HaveValues
<1> QED
  BY <1>1, <1>2 DEF HasValues

(* Each part that came in was made from an input of its own.                *)
LEMMA Origin ==
  ASSUME IInv, CRInv, testResult # <<>>
  PROVE  /\ received \in Seq([MH!Th -> MH!Sums]) /\ Len(received) = MaxValues
         /\ \E o : /\ OneToOne(o, Numbers, Numbers)
                   /\ \A i \in Numbers :
                        \E h \in SH!MayGive(Inputs[o[i]]) :
                          /\ received[i] = MH!MultiHashOf(h)
                          /\ InTime => h = SH!SingleHashOf(Inputs[o[i]])
<1> DEFINE k == Len(shResults)
           l == Len(mhResults)
           f == [i \in 1 .. k |-> shResults[i].by]
           g == [i \in 1 .. l |-> mhResults[i].by]
<1>1. /\ k \in Nat /\ DOMAIN shResults = 1 .. k /\ l \in Nat /\ DOMAIN mhResults = 1 .. l
      /\ DOMAIN Inputs = 1 .. MaxValues /\ MaxValues \in Nat /\ MaxValues = Len(Inputs)
  BY PipeTypes, LenProperties, ConstantFacts, SignerAssumption DEF MaxValues
<1>2. /\ received = ValuesOf(mhResults) /\ mhData = ValuesOf(shResults) /\ shData = Inputs
      /\ \A n \in Numbers : n <= Len(shData) => workerPc[n] = "done"
      /\ \A n \in Numbers : n <= Len(mhData) => mhWorkerPc[n] = "done"
  BY AllArrived
<1>3. Len(mhData) = k /\ \A i \in 1 .. k : mhData[i] = shResults[i].value
  <2> HIDE DEF f, g
  <2> QED
    BY <1>2, ResultValues
<1>4. Len(received) = l /\ \A i \in 1 .. l : received[i] = mhResults[i].value
  <2> HIDE DEF f, g
  <2> QED
    BY <1>2, ResultValues
<1>5. k = MaxValues /\ OneToOne(f, 1 .. k, 1 .. MaxValues)
  <2>1. \A i \in DOMAIN shResults : shResults[i].by \in 1 .. MaxValues
    BY <1>1, <1>2 DEF IInv, SHInv, SHGiven
  <2>2. \A i, j \in DOMAIN shResults : shResults[i].by = shResults[j].by => i = j
    BY DEF IInv, SHInv, SHGiven
  <2>3. \A n \in 1 .. MaxValues : \E i \in DOMAIN shResults : shResults[i].by = n
    BY <1>1, <1>2 DEF IInv, SHInv, SHGiven, Numbers
  <2> QED
    BY <1>1, <2>1, <2>2, <2>3, OneResultEach
<1>6. l = MaxValues /\ OneToOne(g, 1 .. l, 1 .. MaxValues)
  <2>1. \A i \in DOMAIN mhResults : mhResults[i].by \in 1 .. MaxValues
    BY <1>3, <1>5 DEF IInv, MHInv, MHGiven
  <2>2. \A i, j \in DOMAIN mhResults : mhResults[i].by = mhResults[j].by => i = j
    BY DEF IInv, MHInv, MHGiven
  <2>3. \A n \in 1 .. MaxValues : \E i \in DOMAIN mhResults : mhResults[i].by = n
    BY <1>1, <1>2, <1>3, <1>5 DEF IInv, MHInv, MHGiven, Numbers
  <2> QED
    BY <1>1, <2>1, <2>2, <2>3, OneResultEach
<1> DEFINE o == [i \in Numbers |-> f[g[i]]]
<1>7. OneToOne(f, Numbers, Numbers) /\ OneToOne(g, Numbers, Numbers)
  BY <1>5, <1>6 DEF Numbers
<1>8. OneToOne(o, Numbers, Numbers)
  <2> HIDE DEF f, g
  <2> QED
    BY <1>7, Composed
<1>9. ASSUME NEW i \in Numbers
      PROVE  \E h \in SH!MayGive(Inputs[o[i]]) :
               /\ received[i] = MH!MultiHashOf(h)
               /\ InTime => h = SH!SingleHashOf(Inputs[o[i]])
  <2> DEFINE h == shResults[mhResults[i].by].value
  <2>1. /\ i \in 1 .. l /\ g[i] = mhResults[i].by /\ mhResults[i].by \in 1 .. k
        /\ o[i] = shResults[mhResults[i].by].by
    BY <1>5, <1>6, <1>7 DEF Numbers, OneToOne
  <2>2. received[i] = MH!MultiHashOf(h)
    BY <1>1, <1>3, <1>4, <2>1 DEF IInv, MHInv, MHGiven
  <2>3. h \in SH!MayGive(Inputs[o[i]])
    BY <1>1, <1>2, <2>1 DEF IInv, SHInv, SHGiven
  <2>4. InTime => h[1] # Empty
    BY <1>1, <2>1 DEF InTime
  <2> HIDE DEF h, o
  <2>5. InTime => h = SH!SingleHashOf(Inputs[o[i]])
    BY <2>3, <2>4 DEF SH!MayGive, SH!SingleHashOf, SH!Empty, Empty
  <2> QED
    BY <2>2, <2>3, <2>5
<1> HIDE DEF o
<1> QED
  BY <1>4, <1>6, <1>8, <1>9, PipeTypes

(* A part tells the hash it was made from, and the hash the value.          *)
LEMMA PartsTell ==
  /\ \A h : MH!MultiHashOf(h) # Empty
  /\ \A d, e : \A h \in SH!MayGive(e) : MadeFrom(MH!MultiHashOf(h), d) <=> d = e
  /\ \A d : ~MadeFrom(Empty, d)
<1>1. \A h : MH!MultiHashOf(h) # Empty
  <2> SUFFICES ASSUME NEW h, MH!MultiHashOf(h) = <<>>
               PROVE  FALSE
    BY DEF Empty
  <2>1. DOMAIN MH!MultiHashOf(h) = 1 .. ThLimit
    BY ThFacts DEF MH!MultiHashOf
  <2>2. Len(<<>>) = 0 /\ <<>> \in Seq(Nat)
    BY EmptySeq
  <2>3. DOMAIN <<>> = 1 .. 0
    BY <2>2, LenProperties
  <2> QED
    BY <2>1, <2>3, ConstantFacts
<1>2. \A h, k : MH!MultiHashOf(h) = MH!MultiHashOf(k) => h = k
  <2> SUFFICES ASSUME NEW h, NEW k, MH!MultiHashOf(h) = MH!MultiHashOf(k)
               PROVE  h = k
    OBVIOUS
  <2>1. 1 \in MH!Th
    BY ThFacts, ConstantFacts
  <2>2. Crc32(<<1 - 1, h>>) = Crc32(<<1 - 1, k>>)
    BY <2>1, ThFacts DEF MH!MultiHashOf
  <2>3. <<1 - 1, h>> = <<1 - 1, k>>
    BY <2>2 DEF Crc32
  <2> QED
    BY <2>3
<1>3. \A d, e : \A h : h \in SH!MayGive(d) /\ h \in SH!MayGive(e) => d = e
  <2>1. \A x, y : SH!RightSide(x) = SH!RightSide(y) => x = y
    BY DEF SH!RightSide, SH!Crc32, SH!Md5
  <2>2. \A d : \A h \in SH!MayGive(d) : h[2] = SH!RightSide(d)
    BY DEF SH!MayGive
  <2> QED
    BY <2>1, <2>2
<1>4. \A d, e : \A h \in SH!MayGive(e) : MadeFrom(MH!MultiHashOf(h), d) <=> d = e
  <2> SUFFICES ASSUME NEW d, NEW e, NEW h \in SH!MayGive(e)
               PROVE  MadeFrom(MH!MultiHashOf(h), d) <=> d = e
    OBVIOUS
  <2>1. MadeFrom(MH!MultiHashOf(h), d) => h \in SH!MayGive(d)
    BY <1>2 DEF MadeFrom
  <2>2. d = e => MadeFrom(MH!MultiHashOf(h), d)
    BY DEF MadeFrom
  <2> QED
    BY <1>3, <2>1, <2>2
<1>5. \A d : ~MadeFrom(Empty, d)
  BY <1>1 DEF MadeFrom
<1> QED
  BY <1>1, <1>4, <1>5

(* What CombineResults sorts: the blanks, and one part per input.           *)
LEMMA Collected ==
  ASSUME IInv, CRInv, NEW o, OneToOne(o, Numbers, Numbers),
         received \in Seq([MH!Th -> MH!Sums]), Len(received) = MaxValues,
         \A i \in Numbers : \E h \in SH!MayGive(Inputs[o[i]]) : received[i] = MH!MultiHashOf(h)
  PROVE  LET w == Blanks \o received
         IN  /\ w \in [1 .. blanks + MaxValues -> PossibleParts]
             /\ \A i \in 1 .. blanks + MaxValues :
                  IF i <= blanks THEN w[i] = Empty
                  ELSE i - blanks \in Numbers /\ w[i] = received[i - blanks]
<1> DEFINE w == Blanks \o received
           S == [MH!Th -> MH!Sums]
<1>1. blanks \in Nat /\ MaxValues \in Nat
  BY ConstantFacts DEF CRInv
<1>2. Blanks \in Seq(S \cup {Empty}) /\ Len(Blanks) = blanks
  BY <1>1, BlanksFacts
<1>3. received \in Seq(S \cup {Empty})
  BY SeqMonotonic
<1>4. \A i \in 1 .. blanks : Blanks[i] = Empty
  BY DEF Blanks
<1> HIDE DEF S
<1>5. /\ w \in Seq(S \cup {Empty}) /\ Len(w) = blanks + MaxValues
      /\ \A i \in 1 .. blanks + MaxValues :
           w[i] = IF i <= blanks THEN Blanks[i] ELSE received[i - blanks]
  BY <1>2, <1>3, ConcatProperties
<1>6. DOMAIN w = 1 .. blanks + MaxValues /\ w = [i \in DOMAIN w |-> w[i]]
  BY <1>5, LenProperties
<1> HIDE DEF w
<1>7. \A i \in 1 .. blanks + MaxValues :
        IF i <= blanks THEN w[i] = Empty
        ELSE i - blanks \in Numbers /\ w[i] = received[i - blanks]
  BY <1>1, <1>4, <1>5 DEF Numbers
<1>8. \A i \in Numbers : received[i] \in PossibleParts
  <2> SUFFICES ASSUME NEW i \in Numbers
               PROVE  received[i] \in PossibleParts
    OBVIOUS
  <2>1. o[i] \in 1 .. MaxValues
    BY DEF OneToOne, Numbers
  <2>2. Inputs[o[i]] \in Data
    BY <2>1, SignerAssumption, LenProperties DEF Data, MaxValues
  <2>3. PICK h \in SH!MayGive(Inputs[o[i]]) : received[i] = MH!MultiHashOf(h)
    OBVIOUS
  <2>4. h \in UNION {SH!MayGive(d) : d \in Data}
    BY <2>2, <2>3
  <2> QED
    BY <2>3, <2>4 DEF PossibleParts
<1>9. \A i \in DOMAIN w : w[i] \in PossibleParts
  BY <1>6, <1>7, <1>8 DEF PossibleParts
<1>10. w \in [1 .. blanks + MaxValues -> PossibleParts]
  BY <1>6, <1>9
<1> QED
  BY <1>7, <1>10 DEF w

PartsFrom(t, d) == {i \in DOMAIN t : MadeFrom(t[i], d)}
InputsAt(d) == {j \in DOMAIN Inputs : Inputs[j] = d}

(* Behind the blanks, the positions whose part was made from d answer one   *)
(* to one to the inputs that are d.                                         *)
LEMMA OnePartEach ==
  ASSUME NEW w, NEW p, NEW o, NEW d, blanks \in Nat, MaxValues \in Nat,
         DOMAIN Inputs = 1 .. MaxValues, OneToOne(o, 1 .. MaxValues, 1 .. MaxValues),
         OneToOne(p, 1 .. blanks + MaxValues, 1 .. blanks + MaxValues),
         \A i \in 1 .. blanks + MaxValues :
           IF i <= blanks THEN ~MadeFrom(w[i], d)
           ELSE /\ i - blanks \in 1 .. MaxValues
                /\ MadeFrom(w[i], d) <=> d = Inputs[o[i - blanks]]
  PROVE  Cardinality(PartsFrom(Arranged(w, p, 1 .. blanks + MaxValues), d))
           = Cardinality(InputsAt(d))
<1> DEFINE M == 1 .. blanks + MaxValues
           t == Arranged(w, p, M)
           A == {i \in DOMAIN t : MadeFrom(t[i], d)}
           B == {j \in DOMAIN Inputs : Inputs[j] = d}
           f == [i \in A |-> o[p[i] - blanks]]
<1>1. DOMAIN t = M /\ \A i \in M : p[i] \in M /\ t[i] = w[p[i]]
  BY DEF Arranged, OneToOne
<1> HIDE DEF t
<1>2. \A i \in A : /\ i \in M /\ p[i] \in M /\ ~(p[i] <= blanks) /\ p[i] - blanks \in 1 .. MaxValues
                   /\ o[p[i] - blanks] \in 1 .. MaxValues /\ Inputs[o[p[i] - blanks]] = d
  <2> SUFFICES ASSUME NEW i \in A
               PROVE  /\ i \in M /\ p[i] \in M /\ ~(p[i] <= blanks) /\ p[i] - blanks \in 1 .. MaxValues
                      /\ o[p[i] - blanks] \in 1 .. MaxValues /\ Inputs[o[p[i] - blanks]] = d
    OBVIOUS
  <2>1. i \in M /\ p[i] \in M /\ MadeFrom(w[p[i]], d)
    BY <1>1
  <2>2. ~(p[i] <= blanks) /\ p[i] - blanks \in 1 .. MaxValues /\ Inputs[o[p[i] - blanks]] = d
    BY <2>1
  <2> QED
    BY <2>1, <2>2 DEF OneToOne
<1>3. f \in [A -> B]
  BY <1>2
<1>4. \A x, y \in A : f[x] = f[y] => x = y
  <2> SUFFICES ASSUME NEW x \in A, NEW y \in A, f[x] = f[y]
               PROVE  x = y
    OBVIOUS
  <2>1. p[x] - blanks = p[y] - blanks
    BY <1>2 DEF OneToOne
  <2>2. p[x] = p[y]
    BY <1>2, <2>1
  <2> QED
    BY <1>2, <2>2 DEF OneToOne
<1>5. ASSUME NEW j \in B
      PROVE  \E x \in A : f[x] = j
  <2>1. PICK k \in 1 .. MaxValues : o[k] = j
    BY DEF OneToOne
  <2>2. k + blanks \in M /\ ~(k + blanks <= blanks) /\ (k + blanks) - blanks = k
    OBVIOUS
  <2>3. PICK x \in M : p[x] = k + blanks
    BY <2>2 DEF OneToOne
  <2>4. MadeFrom(w[k + blanks], d)
    BY <2>1, <2>2
  <2>5. x \in A
    BY <1>1, <2>3, <2>4
  <2>6. f[x] = j
    BY <2>1, <2>2, <2>3, <2>5
  <2> QED
    BY <2>5, <2>6
<1>6. IsFiniteSet(A)
  <2>1. IsFiniteSet(M)
    BY FS_Interval
  <2>2. A \in SUBSET M
    BY <1>1
  <2> HIDE DEF A, M
  <2> QED
    BY <2>1, <2>2, FS_Subset
<1> HIDE DEF f, A, B
<1>7. OneToOne(f, A, B)
  BY <1>3, <1>4, <1>5 DEF OneToOne
<1>8. Cardinality(A) = Cardinality(B)
  BY <1>6, <1>7, SameCount
<1> QED
  BY <1>8 DEF A, B, t, M, PartsFrom, InputsAt

LEMMA ResultSafe ==
  ASSUME IInv, CRInv
  PROVE  ResultExact
<1> SUFFICES ASSUME testResult # <<>>
             PROVE  /\ OnePartPerInput(testResult[1])
                    /\ InTime => testResult = <<Expected>>
  BY DEF ResultExact
<1> DEFINE w == Blanks \o received
           M == 1 .. blanks + MaxValues
<1>1. testResult = <<CR!Sorted(w)>>
  BY AllArrived
<1>2. received \in Seq([MH!Th -> MH!Sums]) /\ Len(received) = MaxValues
  BY Origin
<1>3. PICK o : /\ OneToOne(o, Numbers, Numbers)
               /\ \A i \in Numbers :
                    \E h \in SH!MayGive(Inputs[o[i]]) :
                      /\ received[i] = MH!MultiHashOf(h)
                      /\ InTime => h = SH!SingleHashOf(Inputs[o[i]])
  BY Origin
<1>4. /\ w \in [M -> PossibleParts]
      /\ \A i \in M : IF i <= blanks THEN w[i] = Empty
                      ELSE i - blanks \in Numbers /\ w[i] = received[i - blanks]
  BY <1>2, <1>3, Collected
<1>5. /\ blanks \in Nat /\ MaxValues \in Nat /\ MaxValues = Len(Inputs)
      /\ DOMAIN Inputs = 1 .. MaxValues
  BY ConstantFacts, SignerAssumption, LenProperties DEF CRInv, MaxValues
<1> HIDE DEF w
<1>6. blanks + MaxValues \in Nat
  BY <1>5
<1>7. CR!Sorted(w) \in CR!Arrangements(w)
  BY <1>4, <1>6, SortedExists
<1>8. DOMAIN w = M
  BY <1>4
<1>9. PICK p : OneToOne(p, M, M) /\ CR!Sorted(w) = Arranged(w, p, M)
  BY <1>7, <1>8, ArrangementsAre
<1>10. OnePartPerInput(CR!Sorted(w))
  <2> DEFINE t == Arranged(w, p, M)
  <2>1. Len(t) = blanks + MaxValues
    <3>1. t \in [1 .. blanks + MaxValues -> {w[p[i]] : i \in M}]
      BY DEF Arranged
    <3>2. t \in Seq({w[p[i]] : i \in M})
      BY <1>6, <3>1, SeqDef
    <3> HIDE DEF t
    <3>3. DOMAIN t = 1 .. Len(t) /\ Len(t) \in Nat
      BY <3>2, LenProperties
    <3> QED
      BY <1>6, <3>1, <3>3
  <2>2. ASSUME NEW d
        PROVE  Cardinality(PartsFrom(t, d)) = Cardinality(InputsAt(d))
    <3>1. \A i \in M : IF i <= blanks THEN ~MadeFrom(w[i], d)
                       ELSE /\ i - blanks \in 1 .. MaxValues
                            /\ MadeFrom(w[i], d) <=> d = Inputs[o[i - blanks]]
      <4> SUFFICES ASSUME NEW i \in M
                   PROVE  IF i <= blanks THEN ~MadeFrom(w[i], d)
                          ELSE /\ i - blanks \in 1 .. MaxValues
                               /\ MadeFrom(w[i], d) <=> d = Inputs[o[i - blanks]]
        OBVIOUS
      <4>1. CASE i <= blanks
        BY <1>4, <4>1, PartsTell
      <4>2. CASE ~(i <= blanks)
        <5>1. i - blanks \in Numbers /\ w[i] = received[i - blanks]
          BY <1>4, <4>2
        <5>2. PICK h \in SH!MayGive(Inputs[o[i - blanks]]) :
                received[i - blanks] = MH!MultiHashOf(h)
          BY <1>3, <5>1
        <5>3. MadeFrom(MH!MultiHashOf(h), d) <=> d = Inputs[o[i - blanks]]
          BY <5>2, PartsTell
        <5> QED
          BY <4>2, <5>1, <5>2, <5>3 DEF Numbers
      <4> QED
        BY <4>1, <4>2
    <3>2. OneToOne(o, 1 .. MaxValues, 1 .. MaxValues)
      BY <1>3 DEF Numbers
    <3> QED
      BY <1>5, <1>9, <3>1, <3>2, OnePartEach
  <2> HIDE DEF t
  <2> QED
    BY <1>5, <1>9, <2>1, <2>2 DEF OnePartPerInput, PartsFrom, InputsAt, t
<1>11. ASSUME InTime
       PROVE  CR!Sorted(w) = Expected
  <2> DEFINE e == [i \in DOMAIN Inputs |-> MH!MultiHashOf(SH!SingleHashOf(Inputs[i]))]
  <2>1. blanks = 0 /\ M = Numbers
    BY <1>5, <1>11 DEF InTime, Numbers
  <2>2. \A i \in Numbers : w[i] = received[i] /\ o[i] \in Numbers
    BY <1>3, <1>4, <1>5, <2>1 DEF Numbers, OneToOne
  <2>3. \A i \in Numbers : received[i] = e[o[i]]
    BY <1>3, <1>5, <1>11, <2>2 DEF Numbers
  <2>4. DOMAIN e = Numbers
    BY <1>5 DEF Numbers
  <2> HIDE DEF e
  <2>5. w = Arranged(e, o, Numbers)
    BY <1>4, <2>1, <2>2, <2>3 DEF Arranged
  <2>6. CR!Arrangements(w) = CR!Arrangements(e)
    BY <1>3, <2>4, <2>5, SameArrangements
  <2>7. CR!Sorted(w) = CR!Sorted(e)
    BY <2>6 DEF CR!Sorted
  <2> QED
    BY <2>7 DEF e, Expected
<1>12. testResult[1] = CR!Sorted(w)
  BY <1>1
<1> QED
  BY <1>1, <1>10, <1>11, <1>12

(* In every interleaving the result has one part per input, made from it,   *)
(* and nothing else but the blanks; and it is the one hw2.md defines when   *)
(* no helper is late and no result early.                                   *)
THEOREM ResultCorrect == Spec => []ResultExact
<1>1. Init => IInv /\ CRInv
  BY StartInv, CRStart
<1>2. IInv /\ CRInv /\ [Next]_vars => IInv' /\ CRInv'
  BY StepInv, CRStepInv
<1>3. IInv /\ CRInv => ResultExact
  BY ResultSafe
<1> QED
  BY <1>1, <1>2, <1>3, PTL DEF Spec

-----------------------------------------------------------------------------
(* No deadlock.  What lets a goroutine go on: the guards of its steps.      *)
SingleHashCan ==
  /\ jobPc["SingleHash"] # "launched"
  /\ \/ shPc = "ranging" /\ HasNext(raw) /\ Len(shData) < MaxValues
     \/ shPc = "ranging" /\ Exhausted(raw)
     \/ shPc = "waiting" /\ shWG = 0
     \/ \E n \in Numbers :
          \/ helper[n] = "started" /\ waitCh[n] = 0
          \/ helper[n] = "locked"
          \/ helper[n] = "filled" /\ waitCh[n] = 1
          \/ workerPc[n] = "started" /\ quotaCh < MD5CalculatorLimit
          \/ workerPc[n] = "quota" /\ overheat = 0
          \/ workerPc[n] = "hashing" /\ overheat = 1
          \/ workerPc[n] = "hashed" /\ quotaCh > 0
          \/ workerPc[n] = "right" /\ waitCh[n] = 0
          \/ workerPc[n] = "joined" /\ HasRoom(hashed)
          \/ workerPc[n] = "sent" /\ waitCh[n] = 1

MultiHashCan ==
  /\ jobPc["MultiHash"] = "running"
  /\ \/ mhPc = "ranging" /\ HasNext(hashed) /\ Len(mhData) < MaxValues
     \/ mhPc = "ranging" /\ Exhausted(hashed)
     \/ mhPc = "waiting" /\ mhWG = 0
     \/ \E n \in Numbers :
          \/ mhWorkerPc[n] = "started"
          \/ mhWorkerPc[n] = "waiting" /\ \E th \in MH!Th : sums[n][th] = Empty
          \/ mhWorkerPc[n] = "waiting" /\ innerWG[n] = 0 /\ HasRoom(multi)
          \/ mhWorkerPc[n] = "sent"

CombineResultsCan ==
  /\ jobPc["CombineResults"] = "running"
  /\ \/ crPc = "new"
     \/ crPc = "ranging" /\ (HasNext(multi) \/ Exhausted(multi))
     \/ crPc = "sending" /\ HasRoom(combined)

SomeStepCan ==
  \/ jobPc["source"] = "running" /\ sourceSent < Len(Inputs) /\ HasRoom(raw)
  \/ SingleHashCan \/ MultiHashCan \/ CombineResultsCan
  \/ jobPc["sink"] = "running" /\ testResult = <<>> /\ HasNext(combined)
  \/ \E j \in Jobs : \/ jobPc[j] \in {"launched", "returned"}
                     \/ jobPc[j] = "running" /\ Finished(j)
  \/ mainPc = "waiting" /\ wg = 0

(* The process comes to rest only when everything is done.                  *)
RestsWhenDone ==
  ~SomeStepCan =>
    /\ mainPc = "returned" /\ testResult # <<>>
    /\ \A j \in Jobs : jobPc[j] = "done"
    /\ \A n \in Numbers : helper[n] = "done" /\ workerPc[n] = "done"

(* The tokens that are in the channels have an owner, who gives them back.  *)
SHTokens ==
  /\ \A n \in Numbers : workerPc[n] = "hashing" => overheat = 1
  /\ quotaCh = 1 => \E n \in Numbers : workerPc[n] \in {"quota", "hashing", "hashed"}
  /\ \A n \in Numbers : waitCh[n] = 1 =>
       helper[n] \in {"locked", "filled"} \/ workerPc[n] \in {"joined", "sent"}

LEMMA SHTokensStart ==
  ASSUME SH!Init
  PROVE  SHTokens
BY ConstantFacts DEF SH!Init, SHTokens

LEMMA SHTokensStep ==
  ASSUME SHInv, SHTokens, SH!Next
  PROVE  SHTokens'
<1> USE ConstantFacts
<1>0. /\ workerPc \in [Numbers -> {"none", "started", "quota", "hashing", "hashed",
                                   "right", "joined", "sent", "done"}]
      /\ helper \in [Numbers -> {"none", "started", "locked", "filled", "done"}]
      /\ waitCh \in [Numbers -> {0, 1}]
      /\ quotaCh \in 0 .. 1 /\ overheat \in {0, 1} /\ Len(shData) \in Nat
      /\ SHQuota /\ SHLock
  BY LenProperties DEF SHInv, SH!TypeOK
<1>1. CASE SH!Take
  <2>1. /\ Len(shData) + 1 \in Numbers
        /\ workerPc' = [workerPc EXCEPT ![Len(shData) + 1] = "started"]
        /\ helper' = [helper EXCEPT ![Len(shData) + 1] = "started"]
        /\ UNCHANGED <<quotaCh, overheat, waitCh>>
    BY <1>1 DEF SH!Take
  <2>2. workerPc[Len(shData) + 1] = "none" /\ helper[Len(shData) + 1] = "none"
    BY <1>0, <2>1 DEF SHInv, SHFlow
  <2> DEFINE m == Len(shData) + 1
  <2> HIDE DEF m
  <2> QED
    BY <1>0, <2>1, <2>2 DEF SHTokens, m
<1>2. ASSUME NEW n \in Numbers, SH!EnterQuota(n)
      PROVE  SHTokens'
  BY <1>0, <1>2 DEF SHTokens, SH!EnterQuota
<1>3. ASSUME NEW n \in Numbers, SH!OverheatLock(n)
      PROVE  SHTokens'
  BY <1>0, <1>3 DEF SHTokens, SH!OverheatLock
<1>4. ASSUME NEW n \in Numbers, SH!OverheatUnlock(n)
      PROVE  SHTokens'
  BY <1>0, <1>4 DEF SHTokens, SHQuota, SH!OverheatUnlock
<1>5. ASSUME NEW n \in Numbers, SH!LeaveQuota(n)
      PROVE  SHTokens'
  BY <1>0, <1>5 DEF SHTokens, SH!LeaveQuota
<1>6. ASSUME NEW n \in Numbers, SH!Join(n)
      PROVE  SHTokens'
  BY <1>0, <1>6 DEF SHTokens, SH!Join
<1>7. ASSUME NEW n \in Numbers, SH!SendResult(n)
      PROVE  SHTokens'
  <2>1. /\ workerPc[n] = "joined" /\ workerPc' = [workerPc EXCEPT ![n] = "sent"]
        /\ UNCHANGED <<helper, waitCh, quotaCh, overheat>>
    BY <1>7 DEF SH!SendResult
  <2> QED
    BY <1>0, <2>1 DEF SHTokens
<1>8. ASSUME NEW n \in Numbers, SH!WorkerDone(n)
      PROVE  SHTokens'
  BY <1>0, <1>8 DEF SHTokens, SH!WorkerDone
<1>9. ASSUME NEW n \in Numbers, SH!HelperLock(n)
      PROVE  SHTokens'
  BY <1>0, <1>9 DEF SHTokens, SH!HelperLock
<1>10. ASSUME NEW n \in Numbers, SH!HelperFill(n)
       PROVE  SHTokens'
  BY <1>0, <1>10 DEF SHTokens, SH!HelperFill
<1>11. ASSUME NEW n \in Numbers, SH!HelperUnlock(n)
       PROVE  SHTokens'
  BY <1>0, <1>11 DEF SHTokens, SH!HelperUnlock
<1>12. CASE SH!RangeEnds \/ SH!Return \/ SHOther
  <2>1. UNCHANGED <<workerPc, helper, waitCh, quotaCh, overheat>>
    BY <1>12 DEF SH!RangeEnds, SH!Return, SHOther, SH!Feed, SH!FeedEnds, SH!Drain,
                 SH!CloseOut, SH!ownVars
  <2> QED
    BY <2>1 DEF SHTokens
<1> QED
  BY <1>1, <1>2, <1>3, <1>4, <1>5, <1>6, <1>7, <1>8, <1>9, <1>10, <1>11, <1>12
     DEF SHOther, SH!Next, SH!Step, SH!Main, SH!Helper, SH!Worker

(* The wait group of ExecutePipeline counts the jobs that are not done, and *)
(* the last job does not return without a result.                           *)
Left(j) == IF jobPc[j] = "done" THEN 0 ELSE 1

RunInv ==
  /\ mainPc \in {"waiting", "returned"}
  /\ wg = Left("source") + Left("SingleHash") + Left("MultiHash") + Left("CombineResults") + Left("sink")
  /\ jobPc["sink"] \in {"returned", "done"} => testResult # <<>>

LEMMA RunInvStart ==
  ASSUME Init
  PROVE  RunInv
BY DEF Init, RunInv, Left, Jobs

(* A closed pipe before the last job that is empty has been read.           *)
LEMMA LastReads ==
  ASSUME IInv, CRInv, Exhausted(combined)
  PROVE  testResult # <<>>
<1>1. crPc = "returned"
  BY DEF IInv, Glue, ClosedWhenDone, ReturnsWhenFinished, Exhausted
<1>2. combined.queue = <<>>
  BY DEF Exhausted
<1> QED
  BY <1>1, <1>2 DEF CRInv

LEMMA RunInvStep ==
  ASSUME IInv, CRInv, RunInv, [Next]_vars
  PROVE  RunInv'
<1>0. jobPc \in [Jobs -> {"launched", "running", "returned", "done"}]
  BY DEF IInv, Glue, GlueTypes
<1>1. ASSUME NEW j \in Jobs, Start(j)
      PROVE  RunInv'
  BY <1>0, <1>1 DEF RunInv, Start, Left, Jobs, endVars
<1>2. ASSUME NEW j \in Jobs, Return(j)
      PROVE  RunInv'
  <2>1. /\ jobPc[j] = "running" /\ jobPc' = [jobPc EXCEPT ![j] = "returned"]
        /\ UNCHANGED <<wg, mainPc, testResult>>
    BY <1>2 DEF Return, endVars
  <2>2. j = "sink" => testResult # <<>>
    BY <1>2, LastReads DEF Return, Finished
  <2> QED
    BY <1>0, <2>1, <2>2 DEF RunInv, Left, Jobs
<1>3. ASSUME NEW j \in Jobs, CloseNext(j)
      PROVE  RunInv'
  <2>1. /\ jobPc[j] = "returned" /\ jobPc' = [jobPc EXCEPT ![j] = "done"]
        /\ wg' = wg - 1 /\ UNCHANGED <<mainPc, testResult>>
    BY <1>3 DEF CloseNext, endVars
  <2> QED
    BY <1>0, <2>1 DEF RunInv, Left, Jobs
<1>4. CASE Wait
  BY <1>4 DEF Wait, RunInv, Left, endVars
<1>5. CASE SinkReceive
  <2>1. testResult' # <<>> /\ UNCHANGED <<jobPc, wg, mainPc>>
    BY <1>5 DEF SinkReceive, runVars
  <2> QED
    BY <2>1 DEF RunInv, Left
<1>6. CASE UNCHANGED <<jobPc, wg, mainPc, testResult>>
  BY <1>6 DEF RunInv, Left
<1>7. CASE SourceSend \/ RunSingleHash \/ RunMultiHash \/ RunCombineResults \/ UNCHANGED vars
  BY <1>6, <1>7 DEF SourceSend, RunSingleHash, RunMultiHash, RunCombineResults, vars, runVars, endVars
<1> QED
  BY <1>1, <1>2, <1>3, <1>4, <1>5, <1>7 DEF Next, Running

(* Results of different workers are no more than there are workers.         *)
LEMMA ResultsAtMost ==
  ASSUME NEW S, NEW rs \in Seq([by : Numbers, value : S]),
         \A i, j \in DOMAIN rs : rs[i].by = rs[j].by => i = j
  PROVE  Len(rs) <= MaxValues
<1> DEFINE Entries == 1 .. Len(rs)
           f == [i \in Entries |-> rs[i].by]
<1>1. Len(rs) \in Nat /\ DOMAIN rs = Entries
  BY LenProperties
<1>2. f \in Injection(Entries, Numbers)
  <2>1. \A i \in Entries : rs[i] \in [by : Numbers, value : S]
    BY ElementOfSeq
  <2>2. f \in [Entries -> Numbers]
    BY <1>1, <2>1
  <2>3. \A i, j \in Entries : f[i] = f[j] => i = j
    BY <1>1
  <2> HIDE DEF f
  <2> QED
    BY <2>2, <2>3 DEF Injection, IsInjective
<1>3. Cardinality(Entries) = Len(rs)
  BY <1>1, FS_Interval
<1> HIDE DEF f, Entries
<1>4. Cardinality(Entries) <= Cardinality(Numbers)
  BY <1>2, ConstantFacts, FS_Injection
<1> QED
  BY <1>3, <1>4, ConstantFacts

(* What is queued can be taken, and an empty pipe has room.                 *)
LEMMA QueuesMove ==
  ASSUME IInv
  PROVE  /\ HasNext(raw) => Len(shData) < MaxValues
         /\ HasNext(hashed) => Len(mhData) < MaxValues
         /\ \A p : p.queue = <<>> /\ ~p.closed => HasRoom(p)
<1>1. /\ Len(shData) \in Nat /\ Len(raw.queue) \in Nat /\ (raw.queue # <<>> => Len(raw.queue) > 0)
      /\ Len(mhData) \in Nat /\ Len(hashed.queue) \in Nat
      /\ (hashed.queue # <<>> => Len(hashed.queue) > 0)
  BY PipeTypes, LenProperties, EmptySeq
<1>2. sourceSent <= MaxValues /\ sourceSent \in Nat /\ MaxValues \in Nat
  BY ConstantFacts DEF IInv, Glue, GlueTypes
<1>3. Len(shResults) <= MaxValues /\ Len(shResults) \in Nat
  <2>1. shResults \in Seq([by : Numbers, value : SH!Hashes])
    BY PipeTypes
  <2>2. \A i, j \in DOMAIN shResults : shResults[i].by = shResults[j].by => i = j
    BY DEF IInv, SHInv, SHGiven
  <2> QED
    BY <2>1, <2>2, ResultsAtMost, LenProperties
<1>4. Len(shData) + Len(raw.queue) = sourceSent /\ Len(mhData) + Len(hashed.queue) = Len(shResults)
  BY CarriedLengths
<1>5. ASSUME NEW p, p.queue = <<>>, ~p.closed
      PROVE  HasRoom(p)
  BY <1>5, ConstantFacts, EmptySeq DEF HasRoom
<1>6. HasNext(raw) => Len(shData) < MaxValues
  BY <1>1, <1>2, <1>4 DEF HasNext
<1>7. HasNext(hashed) => Len(mhData) < MaxValues
  BY <1>1, <1>2, <1>3, <1>4 DEF HasNext
<1> QED
  BY <1>5, <1>6, <1>7

(* A worker of SingleHash that is under way can go on, or another one or    *)
(* its helper can, if its results have room.                                *)
LEMMA SHWorkersMove ==
  ASSUME SHInv, SHTokens, jobPc["SingleHash"] # "launched", HasRoom(hashed), Computing # {}
  PROVE  SingleHashCan
<1> USE ConstantFacts
<1>1. PICK n \in Numbers : workerPc[n] \notin {"none", "done"}
  BY DEF Computing
<1>2. /\ workerPc \in [Numbers -> {"none", "started", "quota", "hashing", "hashed",
                                   "right", "joined", "sent", "done"}]
      /\ waitCh \in [Numbers -> {0, 1}] /\ quotaCh \in 0 .. 1 /\ overheat \in {0, 1}
  BY DEF SHInv, SH!TypeOK
<1>3. ASSUME NEW m \in Numbers, workerPc[m] \in {"quota", "hashing", "hashed"}
      PROVE  SingleHashCan
  <2>1. CASE workerPc[m] = "quota"
    <3>1. overheat # 1
      BY <2>1 DEF SHInv, SHQuota
    <3> QED
      BY <1>2, <2>1, <3>1 DEF SingleHashCan
  <2>2. CASE workerPc[m] = "hashing"
    BY <2>2 DEF SHTokens, SingleHashCan
  <2>3. CASE workerPc[m] = "hashed"
    <3>1. quotaCh > 0
      BY <1>2, <2>3 DEF SHInv, SHQuota
    <3> QED
      BY <2>3, <3>1 DEF SingleHashCan
  <2> QED
    BY <1>3, <2>1, <2>2, <2>3
<1>4. CASE workerPc[n] = "started"
  <2>1. CASE quotaCh = 1
    BY <1>3, <2>1 DEF SHTokens
  <2>2. CASE quotaCh # 1
    <3>1. quotaCh < MD5CalculatorLimit
      BY <1>2, <2>2
    <3> QED
      BY <1>4, <3>1 DEF SingleHashCan
  <2> QED
    BY <2>1, <2>2
<1>5. CASE workerPc[n] = "right"
  <2>1. CASE waitCh[n] = 0
    BY <1>5, <2>1 DEF SingleHashCan
  <2>2. CASE waitCh[n] = 1
    <3>1. helper[n] \in {"locked", "filled"}
      BY <1>5, <2>2 DEF SHTokens
    <3> QED
      BY <2>2, <3>1 DEF SingleHashCan
  <2> QED
    BY <1>2, <2>1, <2>2
<1>6. CASE workerPc[n] = "joined"
  BY <1>6 DEF SingleHashCan
<1>7. CASE workerPc[n] = "sent"
  <2>1. waitCh[n] = 1
    BY <1>7 DEF SHInv, SHLock
  <2> QED
    BY <1>7, <2>1 DEF SingleHashCan
<1> QED
  BY <1>1, <1>2, <1>3, <1>4, <1>5, <1>6, <1>7

(* So can one of MultiHash.                                                 *)
LEMMA MHWorkersMove ==
  ASSUME MHInv, jobPc["MultiHash"] = "running", HasRoom(multi), MHComputing # {}
  PROVE  MultiHashCan
<1> USE ConstantFacts
<1>1. PICK n \in Numbers : mhWorkerPc[n] \notin {"none", "done"}
  BY DEF MHComputing
<1>2. mhWorkerPc[n] \in {"none", "started", "waiting", "sent", "done"}
  BY DEF MHInv, MH!TypeOK
<1>3. CASE mhWorkerPc[n] = "waiting"
  <2>1. innerWG[n] = Cardinality(Unfilled(n))
    BY <1>3 DEF MHInv, MHSums
  <2>2. CASE Unfilled(n) = {}
    <3>1. innerWG[n] = 0
      BY <2>1, <2>2, UnfilledFacts
    <3> QED
      BY <1>3, <3>1 DEF MultiHashCan
  <2>3. CASE Unfilled(n) # {}
    <3>1. \E th \in MH!Th : sums[n][th] = Empty
      BY <2>3 DEF Unfilled
    <3> QED
      BY <1>3, <3>1 DEF MultiHashCan
  <2> QED
    BY <2>2, <2>3
<1>4. CASE mhWorkerPc[n] = "started" \/ mhWorkerPc[n] = "sent"
  BY <1>4 DEF MultiHashCan
<1> QED
  BY <1>1, <1>2, <1>3, <1>4

(* Where nothing can go on, each job has ended and closed its pipe: first   *)
(* from the end of the pipeline to its beginning, no pipe holds anything,   *)
(* then from the beginning to the end, no job waits.                        *)
LEMMA RestsAtEnd ==
  ASSUME IInv, CRInv, SHTokens, RunInv, ~SomeStepCan
  PROVE  /\ mainPc = "returned" /\ testResult # <<>>
         /\ \A j \in Jobs : jobPc[j] = "done"
         /\ \A n \in Numbers : helper[n] = "done" /\ workerPc[n] = "done"
<1>1. /\ ClosedWhenDone /\ ReturnsWhenFinished /\ ReadToTheEnd /\ SHInv /\ MHInv
      /\ jobPc \in [Jobs -> {"launched", "running", "returned", "done"}]
      /\ crPc \in {"new", "ranging", "sending", "returned"}
      /\ raw.closed \in BOOLEAN /\ hashed.closed \in BOOLEAN /\ multi.closed \in BOOLEAN
  BY PipeTypes DEF IInv, Glue, GlueTypes, PipeOf
<1>2. /\ ~SingleHashCan /\ ~MultiHashCan /\ ~CombineResultsCan
      /\ \A j \in Jobs : jobPc[j] = "done" \/ (jobPc[j] = "running" /\ ~Finished(j))
  BY <1>1 DEF SomeStepCan
<1>3. \A p : p.queue = <<>> /\ ~p.closed => HasRoom(p)
  BY QueuesMove
<1>4. "source" \in Jobs /\ "SingleHash" \in Jobs /\ "MultiHash" \in Jobs
      /\ "CombineResults" \in Jobs /\ "sink" \in Jobs
  BY DEF Jobs
<1>5. /\ jobPc["CombineResults"] = "running" => crPc = "ranging" /\ ~multi.closed
      /\ multi.queue = <<>>
  <2>1. CASE jobPc["CombineResults"] = "done"
    BY <1>1, <2>1 DEF ReturnsWhenFinished, ReadToTheEnd, Exhausted
  <2>2. CASE jobPc["CombineResults"] = "running"
    <3>1. crPc # "new" /\ crPc # "returned"
      BY <1>2, <1>4, <2>2 DEF CombineResultsCan, Finished
    <3>2. crPc # "sending"
      <4>1. SUFFICES ASSUME crPc = "sending" PROVE FALSE
        OBVIOUS
      <4>2. combined.queue = <<>> /\ ~combined.closed
        BY <1>1, <2>2, <4>1 DEF CRInv, ClosedWhenDone
      <4> QED
        BY <1>2, <1>3, <2>2, <4>1, <4>2 DEF CombineResultsCan
    <3>3. crPc = "ranging" /\ ~HasNext(multi) /\ ~Exhausted(multi)
      BY <1>1, <1>2, <2>2, <3>1, <3>2 DEF CombineResultsCan
    <3> QED
      BY <1>1, <2>2, <3>3 DEF HasNext, Exhausted
  <2> QED
    BY <1>2, <1>4, <2>1, <2>2
<1>6. /\ jobPc["MultiHash"] = "running" /\ mhPc = "ranging" => ~hashed.closed
      /\ hashed.queue = <<>>
  <2>1. mhPc \in {"ranging", "waiting", "returned"}
    BY <1>1 DEF MHInv, MH!TypeOK
  <2>2. CASE mhPc # "ranging"
    BY <1>1, <2>2 DEF ReadToTheEnd, Exhausted
  <2>3. CASE mhPc = "ranging"
    <3>1. jobPc["MultiHash"] = "running"
      BY <1>1, <1>2, <1>4, <2>3 DEF ReturnsWhenFinished
    <3>2. ~HasNext(hashed) /\ ~Exhausted(hashed)
      BY <1>2, <2>3, <3>1, QueuesMove DEF MultiHashCan
    <3> QED
      BY <3>2 DEF HasNext, Exhausted
  <2> QED
    BY <2>1, <2>2, <2>3
<1>7. jobPc["SingleHash"] = "done" /\ Computing = {}
  <2>1. jobPc["SingleHash"] # "launched"
    BY <1>2, <1>4
  <2>2. Computing = {}
    <3>1. CASE hashed.closed
      BY <1>1, <3>1 DEF SHInv, SHFlow
    <3>2. CASE ~hashed.closed
      BY <1>1, <1>2, <1>3, <1>6, <2>1, <3>2, SHWorkersMove
    <3> QED
      BY <3>1, <3>2
  <2>3. SUFFICES ASSUME jobPc["SingleHash"] = "running" PROVE FALSE
    BY <1>2, <1>4, <2>2
  <2>4. shPc \in {"ranging", "waiting", "returned"} /\ shPc # "returned"
    BY <1>1, <1>2, <1>4, <2>3 DEF SHInv, SH!TypeOK, Finished
  <2>5. shPc # "waiting"
    <3>1. shWG = 0
      BY <1>1, <2>2, FS_EmptySet DEF SHInv, SHFlow
    <3> QED
      BY <1>2, <2>1, <3>1 DEF SingleHashCan
  <2>6. ~HasNext(raw) /\ ~Exhausted(raw)
    BY <1>2, <2>1, <2>4, <2>5, QueuesMove DEF SingleHashCan
  <2>7. raw.queue = <<>> /\ ~raw.closed
    BY <2>6 DEF HasNext, Exhausted
  <2>8. jobPc["source"] = "running" /\ sourceSent # Len(Inputs)
    BY <1>1, <1>2, <1>4, <2>7 DEF ClosedWhenDone, Finished
  <2>9. sourceSent < Len(Inputs)
    BY <2>8, ConstantFacts DEF IInv, Glue, GlueTypes, MaxValues
  <2> QED
    BY <1>3, <2>7, <2>8, <2>9 DEF SomeStepCan
<1>8. jobPc["MultiHash"] = "done"
  <2>1. SUFFICES ASSUME jobPc["MultiHash"] = "running" PROVE FALSE
    BY <1>2, <1>4
  <2>2. mhPc = "waiting"
    BY <1>1, <1>2, <1>4, <1>6, <1>7, <2>1 DEF ClosedWhenDone, MHInv, MH!TypeOK, Finished
  <2>3. MHComputing # {}
    <3>1. mhWG # 0 /\ mhWG = Cardinality(MHComputing)
      BY <1>1, <1>2, <2>1, <2>2 DEF MultiHashCan, MHInv, MHFlow
    <3> QED
      BY <3>1, FS_EmptySet
  <2>4. HasRoom(multi)
    BY <1>1, <1>3, <1>5, <2>1 DEF ClosedWhenDone
  <2> QED
    BY <1>1, <1>2, <2>1, <2>3, <2>4, MHWorkersMove
<1>9. jobPc["CombineResults"] = "done"
  BY <1>1, <1>2, <1>4, <1>5, <1>8 DEF ClosedWhenDone
<1>10. jobPc["source"] = "done"
  <2>1. shPc = "returned"
    BY <1>1, <1>7 DEF ReturnsWhenFinished
  <2>2. raw.closed
    BY <1>1, <2>1 DEF ReadToTheEnd, Exhausted
  <2> QED
    BY <1>1, <2>2 DEF ClosedWhenDone
<1>11. jobPc["sink"] = "done"
  <2>1. SUFFICES ASSUME jobPc["sink"] = "running" PROVE FALSE
    BY <1>2, <1>4
  <2>2. testResult = <<>> /\ ~Exhausted(combined)
    BY <1>2, <1>4, <2>1 DEF Finished
  <2>3. ~HasNext(combined)
    BY <2>1, <2>2 DEF SomeStepCan
  <2> QED
    BY <1>1, <1>9, <2>2, <2>3 DEF ClosedWhenDone, HasNext, Exhausted
<1>12. \A j \in Jobs : jobPc[j] = "done"
  BY <1>7, <1>8, <1>9, <1>10, <1>11 DEF Jobs
<1>13. mainPc = "returned" /\ testResult # <<>>
  <2>1. wg = 0
    BY <1>7, <1>8, <1>9, <1>10, <1>11 DEF RunInv, Left
  <2> QED
    BY <1>11, <2>1 DEF RunInv, SomeStepCan
<1>14. ASSUME NEW n \in Numbers
       PROVE  helper[n] = "done" /\ workerPc[n] = "done"
  <2>1. n <= Len(shData)
    <3>1. shData = Inputs
      BY <1>13, AllArrived
    <3> QED
      BY <3>1, SignerAssumption, LenProperties DEF Numbers, MaxValues
  <2>2. workerPc[n] = "done"
    BY <1>13, <2>1, AllArrived
  <2>3. /\ helper[n] \in {"none", "started", "locked", "filled", "done"} /\ helper[n] # "none"
        /\ waitCh[n] \in {0, 1}
    BY <1>1, <2>1, ConstantFacts, LenProperties DEF SHInv, SH!TypeOK, SHFlow, Numbers
  <2>4. helper[n] # "locked" /\ ~(helper[n] = "filled" /\ waitCh[n] = 1)
        /\ ~(helper[n] = "started" /\ waitCh[n] = 0)
    BY <1>2, <1>7 DEF SingleHashCan
  <2>5. helper[n] # "filled"
    BY <1>1, <2>4 DEF SHInv, SHLock
  <2>6. helper[n] # "started"
    BY <2>2, <2>3, <2>4 DEF SHTokens
  <2> QED
    BY <2>2, <2>3, <2>4, <2>5, <2>6
<1> QED
  BY <1>12, <1>13, <1>14

(* No deadlock: in every interleaving, for any inputs and any capacity of   *)
(* the pipes, some goroutine can go on until ExecutePipeline has returned   *)
(* with a result, every job is done and no worker or helper is left behind. *)
THEOREM SignerNeverStuck == Spec => []RestsWhenDone
<1> DEFINE Inv == IInv /\ CRInv /\ SHTokens /\ RunInv
<1>1. Init => Inv
  <2> SUFFICES ASSUME Init PROVE Inv
    OBVIOUS
  <2>1. SHTokens
    BY SHTokensStart DEF Init
  <2> QED
    BY <2>1, StartInv, CRStart, RunInvStart
<1>2. Inv /\ [Next]_vars => Inv'
  <2> SUFFICES ASSUME Inv, [Next]_vars PROVE Inv'
    OBVIOUS
  <2>1. SHTokens'
    <3>1. CASE SH!Next
      BY <3>1, SHTokensStep DEF IInv
    <3>2. CASE UNCHANGED SH!vars
      BY <3>2 DEF SH!vars, SH!ownVars, SHTokens
    <3> QED
      BY <3>1, <3>2, JobsStep
  <2> QED
    BY <2>1, StepInv, CRStepInv, RunInvStep
<1>3. Inv => RestsWhenDone
  BY RestsAtEnd DEF RestsWhenDone
<1> QED
  BY <1>1, <1>2, <1>3, PTL DEF Spec
=============================================================================
