------------------------ MODULE ExecutePipelineProofs ------------------------
(***************************************************************************)
(* Proofs about ExecutePipeline, for any number of jobs and values, any    *)
(* capacity of the pipes and any mix of jobs that range over their input   *)
(* and jobs that return early.                                             *)
(***************************************************************************)
EXTENDS ExecutePipeline, FiniteSetTheorems, SequenceTheorems, NaturalsInduction,
        WellFoundedInduction, TLAPS

(* The values t + 1 .. g, in order.                                         *)
Run(t, g) == [k \in 1 .. g - t |-> t + k]

(* Sending the next value.                                                  *)
LEMMA RunGrows ==
  ASSUME NEW t \in Nat, NEW g \in Nat, t <= g
  PROVE  Append(Run(t, g), g + 1) = Run(t, g + 1)
<1>1. Run(t, g) \in Seq(Nat) /\ Len(Run(t, g)) = g - t
  BY DEF Run
<1>2. Run(t, g + 1) \in Seq(Nat) /\ Len(Run(t, g + 1)) = g + 1 - t
  BY DEF Run
<1>3. /\ Append(Run(t, g), g + 1) \in Seq(Nat)
      /\ Len(Append(Run(t, g), g + 1)) = g + 1 - t
  BY <1>1, AppendProperties
<1>4. ASSUME NEW k \in 1 .. g + 1 - t
      PROVE  Append(Run(t, g), g + 1)[k] = Run(t, g + 1)[k]
  BY <1>1, AppendProperties DEF Run
<1> QED
  BY <1>2, <1>3, <1>4, SeqEqual

(* Nothing queued: all that was given is taken.                             *)
LEMMA RunEnds ==
  ASSUME NEW t \in Nat, NEW g \in Nat, t <= g, Run(t, g) = <<>>
  PROVE  t = g
<1>1. Run(t, g) \in Seq(Nat) /\ Len(Run(t, g)) = g - t
  BY DEF Run
<1>2. Len(Run(t, g)) = 0
  BY <1>1, EmptySeq
<1> QED
  BY <1>1, <1>2

(* Taking the first value.                                                  *)
LEMMA RunShrinks ==
  ASSUME NEW t \in Nat, NEW g \in Nat, t <= g, Run(t, g) # <<>>
  PROVE  t < g /\ Head(Run(t, g)) = t + 1 /\ Tail(Run(t, g)) = Run(t + 1, g)
<1>1. Run(t, g) \in Seq(Nat) /\ Len(Run(t, g)) = g - t
  BY DEF Run
<1>2. t < g
  BY <1>1, EmptySeq
<1>3. Run(t + 1, g) \in Seq(Nat) /\ Len(Run(t + 1, g)) = g - (t + 1)
  BY <1>2 DEF Run
<1> DEFINE rest == Tail(Run(t, g))
<1>4. /\ rest \in Seq(Nat)
      /\ Len(rest) = g - t - 1
      /\ \A k \in 1 .. Len(rest) : rest[k] = Run(t, g)[k + 1]
  <2>1. \A q \in Seq(Nat) : q # <<>> =>
          /\ Tail(q) \in Seq(Nat)
          /\ Len(Tail(q)) = Len(q) - 1
          /\ \A k \in 1 .. Len(Tail(q)) : Tail(q)[k] = q[k + 1]
    BY HeadTailProperties
  <2>2. /\ rest \in Seq(Nat)
        /\ Len(rest) = Len(Run(t, g)) - 1
        /\ \A k \in 1 .. Len(rest) : rest[k] = Run(t, g)[k + 1]
    BY <1>1, <2>1
  <2> HIDE DEF rest
  <2> QED
    BY <1>1, <2>2
<1>5. ASSUME NEW k \in 1 .. g - (t + 1) PROVE rest[k] = Run(t + 1, g)[k]
  <2>1. k \in 1 .. Len(rest) /\ k + 1 \in 1 .. g - t
    BY <1>2, <1>4
  <2>2. Run(t, g)[k + 1] = t + (k + 1) /\ Run(t + 1, g)[k] = (t + 1) + k
    BY <2>1, <1>2 DEF Run
  <2> QED
    BY <1>4, <2>1, <2>2
<1>6. rest = Run(t + 1, g)
  <2> HIDE DEF rest
  <2> QED
    BY <1>2, <1>3, <1>4, <1>5, SeqEqual
<1>7. Head(Run(t, g)) = Run(t, g)[1]
  BY <1>1
<1> QED
  BY <1>2, <1>6, <1>7, 1 \in 1 .. g - t DEF Run

-----------------------------------------------------------------------------
(* The inductive invariant. *)

(* The goroutines that wg counts. *)
Active == {i \in Jobs : jobPc[i] \in {"running", "returned"}}

RunnerInv ==
  /\ wg = Cardinality(Active)
  /\ mainPc # "launching" => \A i \in Jobs : jobPc[i] # "none"

(* Nobody gives what he has not taken, or takes what was not given, or more *)
(* than his limit.                                                          *)
CountInv ==
  /\ \A i \in Pipes : taken[i] <= given[i - 1]
  /\ \A i \in Pipes : i < N => given[i] <= taken[i]
  /\ \A i \in Pipes : limit[i] < inputs => taken[i] <= limit[i]

(* A job that ranges, behind jobs that range, returns with everything given. *)
DrainInv ==
  \A i \in Jobs :
    /\ jobPc[i] \in {"returned", "done"}
    /\ i < N
    /\ \A j \in Pipes : j <= i => Drains(j)
    => given[i] = inputs

IInv == TypeOK /\ RunnerInv /\ CountInv /\ InOrder /\ ClosedByWriter /\ DrainInv

(* Jobs and pipes, and who their neighbours are.                            *)
LEMMA JobFacts ==
  /\ Pipes \subseteq Jobs /\ 1 \in Jobs /\ N \in Jobs
  /\ \A i \in Pipes : i - 1 \in Jobs /\ i # 1
  /\ \A i \in Jobs : i < N => i + 1 \in Pipes /\ i + 1 - 1 = i
  /\ \A i \in Jobs : i \in Nat /\ (i # 1 => i \in Pipes)
  /\ IsFiniteSet(Jobs) /\ Cardinality(Jobs) = N
BY ExecutePipelineAssumption, FS_Interval DEF Jobs, Pipes

(* Nothing started, nothing sent.                                           *)
LEMMA InitIInv == Init => IInv
<1> SUFFICES ASSUME Init PROVE IInv
  OBVIOUS
<1> USE ExecutePipelineAssumption, PipeAssumption, JobFacts DEF Init
<1>1. TypeOK
  BY DEF TypeOK, NewPipe, PipeOf
<1>2. Active = {}
  BY DEF Active
<1>3. RunnerInv
  BY <1>2, FS_EmptySet DEF RunnerInv
<1>4. CountInv /\ ClosedByWriter /\ DrainInv
  BY DEF CountInv, ClosedByWriter, DrainInv, NewPipe
<1>5. InOrder
  BY DEF InOrder, NewPipe
<1> QED
  BY <1>1, <1>3, <1>4, <1>5 DEF IInv

-----------------------------------------------------------------------------
(* Sets of jobs are finite and have at most N elements.                     *)
LEMMA JobSets ==
  \A S : S \subseteq Jobs =>
    /\ IsFiniteSet(S) /\ Cardinality(S) \in 0 .. N
    /\ Cardinality(S) = 0 <=> S = {}
    /\ \A i \in S : Cardinality(S \ {i}) = Cardinality(S) - 1
    /\ \A i \in Jobs \ S : Cardinality(S \cup {i}) = Cardinality(S) + 1
<1> SUFFICES ASSUME NEW S, S \subseteq Jobs
             PROVE  /\ IsFiniteSet(S) /\ Cardinality(S) \in 0 .. N
                    /\ Cardinality(S) = 0 <=> S = {}
                    /\ \A i \in S : Cardinality(S \ {i}) = Cardinality(S) - 1
                    /\ \A i \in Jobs \ S : Cardinality(S \cup {i}) = Cardinality(S) + 1
  OBVIOUS
<1>1. IsFiniteSet(S) /\ Cardinality(S) <= N
  BY JobFacts, FS_Subset
<1>2. Cardinality(S) \in Nat
  BY <1>1, FS_CardinalityType
<1>3. Cardinality(S) = 0 <=> S = {}
  BY <1>1, FS_EmptySet
<1> QED
  BY <1>1, <1>2, <1>3, FS_AddElement, FS_RemoveElement, ExecutePipelineAssumption

(* wg counts the goroutine that starts.                                     *)
LEMMA LaunchStep ==
  ASSUME IInv, NEW i \in Jobs, Launch(i)
  PROVE  IInv'
<1> USE ExecutePipelineAssumption DEF IInv, Jobs, Pipes, job, Launch
<1>1. Active' = Active \cup {i} /\ i \notin Active
  BY DEF Active, TypeOK
<1>2. wg' = Cardinality(Active') /\ wg' \in 0 .. N
  <2>1. Active \subseteq Jobs /\ Active \cup {i} \subseteq Jobs /\ i \in Jobs \ Active
    BY <1>1 DEF Active
  <2>2. /\ Cardinality(Active') = Cardinality(Active) + 1
        /\ Cardinality(Active') \in 0 .. N
    BY <1>1, <2>1, JobSets
  <2> QED
    BY <2>2 DEF RunnerInv
<1>3. TypeOK'
  BY <1>2 DEF TypeOK
<1>4. RunnerInv'
  BY <1>2 DEF RunnerInv, TypeOK, Jobs
<1>5. CountInv' /\ InOrder'
  BY DEF CountInv, InOrder
<1>6. ClosedByWriter'
  <2>1. \A j \in Jobs : jobPc'[j] = "done" <=> jobPc[j] = "done"
    BY DEF TypeOK
  <2>2. mainPc' # "returned"
    OBVIOUS
  <2> QED
    BY <2>1, <2>2, JobFacts DEF ClosedByWriter
<1>7. DrainInv'
  BY DEF DrainInv, Drains, TypeOK
<1> QED
  BY <1>3, <1>4, <1>5, <1>6, <1>7

(* With wg at 0 and all started, all jobs are done.                         *)
LEMMA WaitStep == IInv /\ Wait => IInv'
<1> SUFFICES ASSUME IInv, Wait PROVE IInv'
  OBVIOUS
<1> USE ExecutePipelineAssumption DEF IInv, Jobs, Pipes, job, Wait
<1>1. Active = {}
  BY Active \subseteq Jobs, JobSets DEF RunnerInv, Active
<1>2. \A i \in Jobs : jobPc[i] = "done"
  BY <1>1 DEF Active, RunnerInv, TypeOK
<1>3. TypeOK' /\ CountInv' /\ InOrder' /\ DrainInv'
  BY DEF TypeOK, CountInv, InOrder, DrainInv, Drains
<1>4. RunnerInv'
  BY DEF RunnerInv, Active
<1>5. ClosedByWriter'
  BY <1>2 DEF ClosedByWriter
<1> QED
  BY <1>3, <1>4, <1>5

(* What is known of the pipe that job i reads.                              *)
LEMMA PipeFacts ==
  ASSUME TypeOK, InOrder, CountInv, NEW i \in Pipes
  PROVE  /\ taken[i] \in Nat /\ given[i - 1] \in Nat /\ given[i - 1] <= inputs
         /\ inputs \in Nat /\ taken[i] <= given[i - 1]
         /\ pipes[i].queue = Run(taken[i], given[i - 1])
         /\ pipes[i].queue \in Seq(1 .. inputs) /\ Len(pipes[i].queue) \in Nat
         /\ pipes[i].closed \in BOOLEAN
         /\ pipes[i] = [queue |-> pipes[i].queue, closed |-> pipes[i].closed]
<1> USE ExecutePipelineAssumption, JobFacts
<1>1. pipes[i] \in [queue : Seq(1 .. inputs), closed : BOOLEAN]
  BY DEF TypeOK, PipeOf
<1>2. pipes[i] = [queue |-> pipes[i].queue, closed |-> pipes[i].closed]
  BY <1>1
<1>3. pipes[i].queue \in Seq(1 .. inputs) /\ pipes[i].closed \in BOOLEAN
  BY <1>1
<1>4. Len(pipes[i].queue) \in Nat
  BY <1>3, LenProperties
<1>5. i \in Jobs /\ i - 1 \in Jobs
  OBVIOUS
<1>6. inputs \in Nat /\ taken[i] \in 0 .. inputs /\ given[i - 1] \in 0 .. inputs
  BY <1>5 DEF TypeOK
<1>7. taken[i] <= given[i - 1]
  BY DEF CountInv
<1>8. pipes[i].queue = Run(taken[i], given[i - 1])
  BY DEF InOrder, Run
<1> QED
  BY <1>2, <1>3, <1>4, <1>6, <1>7, <1>8

(* What receiving, sending and closing make of a pipe.                      *)
LEMMA ChannelFacts ==
  ASSUME NEW q, NEW c
  PROVE  /\ First([queue |-> q, closed |-> c]) = Head(q)
         /\ Rest([queue |-> q, closed |-> c]) = [queue |-> Tail(q), closed |-> c]
         /\ \A v : Put([queue |-> q, closed |-> c], v) = [queue |-> Append(q, v), closed |-> c]
         /\ Close([queue |-> q, closed |-> c]) = [queue |-> q, closed |-> TRUE]
<1> DEFINE p == [queue |-> q, closed |-> c]
<1>1. p.queue = q
  OBVIOUS
<1>2. \A r : [p EXCEPT !.queue = r] = [queue |-> r, closed |-> c]
  OBVIOUS
<1>3. \A d : [p EXCEPT !.closed = d] = [queue |-> q, closed |-> d]
  OBVIOUS
<1>4. Rest(p) = [p EXCEPT !.queue = Tail(q)] /\ First(p) = Head(q)
  BY <1>1 DEF Rest, First
<1>5. \A v : Put(p, v) = [p EXCEPT !.queue = Append(q, v)]
  BY <1>1 DEF Put
<1>6. Close(p) = [queue |-> q, closed |-> TRUE]
  BY <1>3, Zenon DEF Close
<1>7. Rest(p) = [queue |-> Tail(q), closed |-> c]
  BY <1>2, <1>4, Zenon
<1>8. \A v : Put(p, v) = [queue |-> Append(q, v), closed |-> c]
  BY <1>2, <1>5, Zenon
<1> QED
  BY <1>4, <1>6, <1>7, <1>8

(* The first value of the queue is the next one to take.                    *)
LEMMA TakeValueStep ==
  ASSUME IInv, NEW i \in Pipes, TakeValue(i)
  PROVE  IInv'
<1> DEFINE t == taken[i]
           g == given[i - 1]
           q == pipes[i].queue
<1>0. TypeOK /\ RunnerInv /\ CountInv /\ InOrder /\ ClosedByWriter /\ DrainInv
  BY DEF IInv
<1>1. /\ t \in Nat /\ g \in Nat /\ inputs \in Nat /\ t <= g /\ g <= inputs
      /\ q = Run(t, g) /\ q \in Seq(1 .. inputs) /\ Len(q) \in Nat
      /\ pipes[i].closed \in BOOLEAN
      /\ pipes[i] = [queue |-> q, closed |-> pipes[i].closed]
  BY <1>0, PipeFacts
<1>2. /\ jobPc[i] = "running" /\ ~Holding(i)
      /\ t < limit[i] \/ limit[i] = inputs
      /\ q # <<>>
      /\ UNCHANGED <<inputs, limit, jobPc, wg, mainPc, given>>
  BY DEF TakeValue, HasNext, job
<1>3. t < g /\ Head(q) = t + 1 /\ Tail(q) = Run(t + 1, g)
  BY <1>1, <1>2, RunShrinks
<1>4. /\ taken' = [taken EXCEPT ![i] = t + 1]
      /\ pipes' = [pipes EXCEPT ![i] = [queue |-> Tail(q), closed |-> pipes[i].closed]]
  <2>1. First(pipes[i]) = t + 1 /\ Rest(pipes[i]) = [queue |-> Tail(q), closed |-> pipes[i].closed]
    BY <1>1, <1>3, ChannelFacts
  <2> HIDE DEF t, q
  <2> QED
    BY <2>1 DEF TakeValue
<1>5. Tail(q) \in Seq(1 .. inputs) /\ Len(Tail(q)) <= PipeCap
  <2>1. \A r \in Seq(1 .. inputs) : r # <<>> =>
          Tail(r) \in Seq(1 .. inputs) /\ Len(Tail(r)) = Len(r) - 1
    BY HeadTailProperties
  <2>2. Len(q) <= PipeCap /\ PipeCap \in Nat
    BY <1>0, PipeAssumption DEF TypeOK
  <2> QED
    BY <1>1, <1>2, <2>1, <2>2
<1>6. TypeOK'
  <2>1. [queue |-> Tail(q), closed |-> pipes[i].closed] \in PipeOf(1 .. inputs)
    BY <1>1, <1>5 DEF PipeOf
  <2>2. t + 1 \in 0 .. inputs
    BY <1>1, <1>3
  <2> HIDE DEF q, t, g
  <2> QED
    BY <1>0, <1>2, <1>4, <1>5, <2>1, <2>2 DEF TypeOK
<1>7. RunnerInv'
  BY <1>0, <1>2 DEF RunnerInv, Active
<1>8. CountInv'
  <2>1. limit[i] < inputs => t + 1 <= limit[i]
    BY <1>0, <1>1, <1>2 DEF TypeOK
  <2>2. i < N => given[i] <= t
    BY <1>0 DEF CountInv
  <2>3. \A j \in Pipes : j # i => taken'[j] = taken[j]
    BY <1>4, <1>0 DEF TypeOK
  <2>4. taken'[i] = t + 1
    BY <1>4, <1>0, JobFacts DEF TypeOK
  <2>5. i < N => given[i] <= t + 1
    <3>1. given[i] \in 0 .. inputs
      BY <1>0, JobFacts DEF TypeOK
    <3> QED
      BY <2>2, <3>1, <1>1
  <2>6. taken'[i] <= given'[i - 1]
    BY <1>1, <1>2, <1>3, <2>4
  <2>7. limit'[i] < inputs' => taken'[i] <= limit'[i]
    BY <1>2, <2>1, <2>4
  <2>8. i < N => given'[i] <= taken'[i]
    BY <1>2, <2>4, <2>5
  <2> HIDE DEF t, g, q
  <2>9. \A j \in Pipes : taken'[j] <= given'[j - 1]
    BY <1>0, <1>2, <2>3, <2>6 DEF CountInv
  <2>10. \A j \in Pipes : j < N => given'[j] <= taken'[j]
    BY <1>0, <1>2, <2>3, <2>8 DEF CountInv
  <2>11. \A j \in Pipes : limit'[j] < inputs' => taken'[j] <= limit'[j]
    BY <1>0, <1>2, <2>3, <2>7 DEF CountInv
  <2> QED
    BY <2>9, <2>10, <2>11 DEF CountInv
<1>9. /\ \A j \in Pipes : pipes'[j].closed = pipes[j].closed
      /\ \A j \in Pipes : j # i => pipes'[j].queue = pipes[j].queue /\ taken'[j] = taken[j]
      /\ pipes'[i].queue = Run(t + 1, g) /\ taken'[i] = t + 1
  BY <1>0, <1>3, <1>4, JobFacts DEF TypeOK
<1>10. InOrder'
  <2>1. \A j \in Pipes : pipes[j].queue = Run(taken[j], given[j - 1])
    BY <1>0 DEF InOrder, Run
  <2>2. \A j \in Pipes : pipes'[j].queue = Run(taken'[j], given'[j - 1])
    BY <1>0, <1>2, <1>9, <2>1
  <2> QED
    BY <2>2 DEF InOrder, Run
<1>11. ClosedByWriter'
  BY <1>0, <1>2, <1>9 DEF ClosedByWriter
<1>12. DrainInv'
  BY <1>0, <1>2 DEF DrainInv, Drains
<1> QED
  BY <1>6, <1>7, <1>8, <1>10, <1>11, <1>12 DEF IInv

(* The value sent is the next one after all in the queue.                   *)
LEMMA GiveValueStep ==
  ASSUME IInv, NEW i \in Jobs, GiveValue(i)
  PROVE  IInv'
<1> DEFINE n == i + 1
           t == taken[n]
           g == given[i]
           q == pipes[n].queue
<1>0. /\ TypeOK /\ RunnerInv /\ CountInv /\ InOrder /\ ClosedByWriter /\ DrainInv
      /\ i < N /\ n \in Pipes /\ n - 1 = i
  BY JobFacts DEF IInv, GiveValue
<1>1. /\ t \in Nat /\ g \in Nat /\ inputs \in Nat /\ t <= g /\ g <= inputs
      /\ q = Run(t, g) /\ q \in Seq(1 .. inputs) /\ Len(q) \in Nat
      /\ pipes[n].closed \in BOOLEAN
      /\ pipes[n] = [queue |-> q, closed |-> pipes[n].closed]
  BY <1>0, PipeFacts
<1>2. /\ jobPc[i] = "running"
      /\ IF i = 1 THEN g < inputs ELSE g < taken[i]
      /\ Len(q) < PipeCap
      /\ UNCHANGED <<inputs, limit, jobPc, wg, mainPc, taken>>
  BY DEF GiveValue, Holding, HasRoom, job
<1>3. g < inputs /\ (i \in Pipes => g + 1 <= taken[i])
  <2>1. i \in Pipes => i # 1 /\ taken[i] \in 0 .. inputs
    BY <1>0, JobFacts DEF TypeOK
  <2> QED
    BY <1>1, <1>2, <2>1, JobFacts
<1>4. /\ given' = [given EXCEPT ![i] = g + 1]
      /\ pipes' = [pipes EXCEPT ![n] = [queue |-> Append(q, g + 1), closed |-> pipes[n].closed]]
      /\ Append(q, g + 1) = Run(t, g + 1)
  <2>1. Put(pipes[n], g + 1) = [queue |-> Append(q, g + 1), closed |-> pipes[n].closed]
    <3>1. pipes[n] = [queue |-> q, closed |-> pipes[n].closed]
      BY <1>1
    <3>2. \A r, c, v : Put([queue |-> r, closed |-> c], v) = [queue |-> Append(r, v), closed |-> c]
      BY ChannelFacts
    <3> HIDE DEF q, g, n
    <3> QED
      BY <3>1, <3>2, Zenon
  <2>2. Append(q, g + 1) = Run(t, g + 1)
    BY <1>1, RunGrows
  <2>3. pipes' = [pipes EXCEPT ![n] = Put(pipes[n], g + 1)] /\ given' = [given EXCEPT ![i] = g + 1]
    BY DEF GiveValue
  <2> QED
    BY <2>1, <2>2, <2>3
<1>5. Append(q, g + 1) \in Seq(1 .. inputs) /\ Len(Append(q, g + 1)) <= PipeCap
  <2>1. \A r \in Seq(1 .. inputs), v \in 1 .. inputs :
          Append(r, v) \in Seq(1 .. inputs) /\ Len(Append(r, v)) = Len(r) + 1
    BY AppendProperties
  <2>2. g + 1 \in 1 .. inputs /\ PipeCap \in Nat
    BY <1>1, <1>3, PipeAssumption
  <2> QED
    BY <1>1, <1>2, <2>1, <2>2
<1>6. TypeOK'
  <2>1. [queue |-> Append(q, g + 1), closed |-> pipes[n].closed] \in PipeOf(1 .. inputs)
    BY <1>1, <1>5 DEF PipeOf
  <2>2. g + 1 \in 0 .. inputs
    BY <1>1, <1>3
  <2> HIDE DEF q, t, g, n
  <2> QED
    BY <1>0, <1>2, <1>4, <1>5, <2>1, <2>2 DEF TypeOK
<1>7. RunnerInv'
  BY <1>0, <1>2 DEF RunnerInv, Active
<1>8. /\ \A j \in Pipes : pipes'[j].closed = pipes[j].closed
      /\ \A j \in Pipes : j # n => pipes'[j].queue = pipes[j].queue
      /\ pipes'[n].queue = Run(t, g + 1)
      /\ given'[i] = g + 1
      /\ \A j \in Jobs : j # i => given'[j] = given[j]
  BY <1>0, <1>4 DEF TypeOK
<1>9. \A j \in Pipes : (j - 1 = i <=> j = n) /\ j - 1 \in Jobs /\ j \in Jobs
  BY JobFacts DEF Pipes, Jobs
<1>10. CountInv'
  <2>1. t <= g + 1
    BY <1>1
  <2> HIDE DEF g
  <2>2. \A j \in Pipes : taken[j] <= given'[j - 1]
    BY <1>0, <1>8, <1>9, <2>1 DEF CountInv
  <2>3. \A j \in Pipes : j < N => given'[j] <= taken[j]
    BY <1>0, <1>3, <1>8, <1>9 DEF CountInv
  <2> QED
    BY <1>0, <1>2, <2>2, <2>3 DEF CountInv
<1>11. InOrder'
  <2>1. \A j \in Pipes : pipes[j].queue = Run(taken[j], given[j - 1])
    BY <1>0 DEF InOrder, Run
  <2>2. \A j \in Pipes : j # n => given'[j - 1] = given[j - 1]
    BY <1>8, <1>9
  <2>3. given'[n - 1] = g + 1
    BY <1>0, <1>8
  <2> HIDE DEF g, n
  <2>4. \A j \in Pipes : pipes'[j].queue = Run(taken'[j], given'[j - 1])
    BY <1>2, <1>8, <2>1, <2>2, <2>3
  <2> QED
    BY <2>4 DEF InOrder, Run
<1>12. ClosedByWriter'
  BY <1>0, <1>2, <1>8 DEF ClosedByWriter
<1>13. DrainInv'
  BY <1>0, <1>2, <1>8 DEF DrainInv, Drains
<1> QED
  BY <1>6, <1>7, <1>10, <1>11, <1>12, <1>13 DEF IInv

(* A job that ranges returns on a closed, empty pipe only.                  *)
LEMMA JobReturnsStep ==
  ASSUME IInv, NEW i \in Jobs, JobReturns(i)
  PROVE  IInv'
<1>0. /\ TypeOK /\ RunnerInv /\ CountInv /\ InOrder /\ ClosedByWriter /\ DrainInv
      /\ jobPc[i] = "running" /\ jobPc' = [jobPc EXCEPT ![i] = "returned"]
      /\ UNCHANGED <<inputs, limit, pipes, wg, mainPc, taken, given>>
  BY DEF IInv, JobReturns, job
<1>1. TypeOK'
  BY <1>0 DEF TypeOK
<1>2. RunnerInv'
  <2>1. Active' = Active
    BY <1>0 DEF Active, TypeOK
  <2> QED
    BY <1>0, <2>1 DEF RunnerInv, TypeOK
<1>3. CountInv' /\ InOrder'
  BY <1>0 DEF CountInv, InOrder
<1>4. ClosedByWriter'
  <2>1. \A j \in Jobs : jobPc'[j] = "done" <=> jobPc[j] = "done"
    BY <1>0 DEF TypeOK
  <2>2. mainPc # "returned"
    BY <1>0 DEF ClosedByWriter
  <2> QED
    BY <1>0, <2>1, <2>2, JobFacts DEF ClosedByWriter
<1>5. ASSUME i < N, \A j \in Pipes : j <= i => Drains(j) PROVE given[i] = inputs
  <2>1. CASE i = 1
    BY <2>1 DEF JobReturns
  <2>2. CASE i # 1
    <3>1. i \in Pipes /\ i - 1 \in Jobs /\ i \in Nat /\ N \in Nat
      BY <2>2, JobFacts, ExecutePipelineAssumption
    <3>2. ~Holding(i) /\ Exhausted(pipes[i])
      <4>1. limit[i] = inputs
        BY <1>5, <3>1 DEF Drains
      <4>2. inputs \in Nat
        BY <1>0 DEF TypeOK
      <4> QED
        BY <2>2, <4>1, <4>2 DEF JobReturns
    <3>3. pipes[i].closed /\ Run(taken[i], given[i - 1]) = <<>>
      BY <1>0, <3>1, <3>2, PipeFacts DEF Exhausted
    <3>4. taken[i] \in Nat /\ given[i - 1] \in Nat /\ taken[i] <= given[i - 1]
      BY <1>0, <3>1, PipeFacts
    <3>5. taken[i] = given[i - 1]
      BY <3>3, <3>4, RunEnds
    <3>6. jobPc[i - 1] = "done"
      BY <1>0, <3>1, <3>3 DEF ClosedByWriter
    <3>7. given[i - 1] = inputs
      <4>1. i - 1 < N /\ \A j \in Pipes : j <= i - 1 => Drains(j)
        BY <1>5, <3>1 DEF Pipes
      <4> QED
        BY <1>0, <3>1, <3>6, <4>1 DEF DrainInv
    <3>8. given[i] = taken[i]
      <4>1. given[i] \in 0 .. inputs /\ inputs \in Nat
        BY <1>0 DEF TypeOK
      <4>2. given[i] <= taken[i]
        BY <1>0, <1>5, <3>1 DEF CountInv
      <4>3. i \in 2 .. N - 1
        BY <1>5, <3>1 DEF Pipes
      <4> QED
        BY <3>2, <3>4, <4>1, <4>2, <4>3 DEF Holding
    <3> QED
      BY <3>5, <3>7, <3>8
  <2> QED
    BY <2>1, <2>2
<1>6. DrainInv'
  <2>1. \A j \in Jobs : j # i => jobPc'[j] = jobPc[j]
    BY <1>0 DEF TypeOK
  <2> QED
    BY <1>0, <1>5, <2>1 DEF DrainInv, Drains
<1> QED
  BY <1>1, <1>2, <1>3, <1>4, <1>6 DEF IInv

(* The one pipe that is closed is that of the job that is done.             *)
LEMMA CloseNextStep ==
  ASSUME IInv, NEW i \in Jobs, CloseNext(i)
  PROVE  IInv'
<1>0. /\ TypeOK /\ RunnerInv /\ CountInv /\ InOrder /\ ClosedByWriter /\ DrainInv
      /\ jobPc[i] = "returned" /\ jobPc' = [jobPc EXCEPT ![i] = "done"]
      /\ pipes' = IF i < N THEN [pipes EXCEPT ![i + 1] = Close(@)] ELSE pipes
      /\ wg' = wg - 1
      /\ UNCHANGED <<inputs, limit, mainPc, taken, given>>
  BY DEF IInv, CloseNext, job
<1>1. wg' = Cardinality(Active') /\ wg' \in 0 .. N
  <2>1. Active' = Active \ {i} /\ i \in Active
    BY <1>0 DEF Active, TypeOK
  <2>2. Active \subseteq Jobs /\ Active \ {i} \subseteq Jobs
    BY DEF Active
  <2>3. /\ Cardinality(Active') = Cardinality(Active) - 1
        /\ Cardinality(Active') \in 0 .. N
    BY <2>1, <2>2, JobSets
  <2> QED
    BY <1>0, <2>3 DEF RunnerInv
<1>2. \A j \in Pipes : /\ pipes[j].queue \in Seq(1 .. inputs) /\ pipes[j].closed \in BOOLEAN
                      /\ pipes[j] = [queue |-> pipes[j].queue, closed |-> pipes[j].closed]
  BY <1>0, PipeFacts
<1>3. \A j \in Pipes : j # i + 1 => pipes'[j] = pipes[j]
  BY <1>0, JobFacts DEF TypeOK
<1>4. ASSUME i + 1 \in Pipes
      PROVE  pipes'[i + 1] = [queue |-> pipes[i + 1].queue, closed |-> TRUE]
  <2>1. i < N
    BY <1>4, JobFacts, ExecutePipelineAssumption DEF Pipes
  <2>2. pipes'[i + 1] = Close(pipes[i + 1])
    BY <1>0, <1>4, <2>1 DEF TypeOK
  <2> QED
    BY <1>2, <1>4, <2>2, ChannelFacts
<1>5. TypeOK'
  <2>1. /\ DOMAIN pipes' = Pipes
        /\ \A j \in Pipes : pipes'[j] \in PipeOf(1 .. inputs) /\ pipes'[j].queue = pipes[j].queue
    <3>1. DOMAIN pipes' = Pipes
      BY <1>0 DEF TypeOK
    <3>2. \A j \in Pipes : pipes'[j] \in PipeOf(1 .. inputs) /\ pipes'[j].queue = pipes[j].queue
      <4> TAKE j \in Pipes
      <4>1. CASE j = i + 1
        <5>1. pipes'[j] = [queue |-> pipes[j].queue, closed |-> TRUE]
          BY <1>4, <4>1
        <5>2. \A r \in Seq(1 .. inputs) : /\ [queue |-> r, closed |-> TRUE] \in PipeOf(1 .. inputs)
                                          /\ [queue |-> r, closed |-> TRUE].queue = r
          BY DEF PipeOf
        <5> QED
          BY <1>2, <5>1, <5>2
      <4>2. CASE j # i + 1
        BY <1>0, <1>3, <4>2 DEF TypeOK
      <4> QED
        BY <4>1, <4>2
    <3> QED
      BY <3>1, <3>2
  <2>2. pipes' \in [Pipes -> PipeOf(1 .. inputs)]
    <3>1. CASE i < N
      <4>1. Close(pipes[i + 1]) \in PipeOf(1 .. inputs)
        BY <1>0, <1>4, <2>1, <3>1, JobFacts DEF TypeOK
      <4>2. pipes' = [pipes EXCEPT ![i + 1] = Close(pipes[i + 1])]
        BY <1>0, <3>1
      <4> QED
        BY <1>0, <4>1, <4>2 DEF TypeOK
    <3>2. CASE ~(i < N)
      BY <1>0, <3>2 DEF TypeOK
    <3> QED
      BY <3>1, <3>2
  <2> QED
    BY <1>0, <1>1, <2>1, <2>2 DEF TypeOK
<1>6. RunnerInv'
  BY <1>0, <1>1 DEF RunnerInv, TypeOK
<1>7. \A j \in Pipes : pipes'[j].queue = pipes[j].queue
  BY <1>3, <1>4
<1>8. CountInv' /\ InOrder'
  BY <1>0, <1>7 DEF CountInv, InOrder
<1>9. ClosedByWriter'
  <2>1. \A j \in Jobs : jobPc'[j] = "done" <=> (j = i \/ jobPc[j] = "done")
    BY <1>0 DEF TypeOK
  <2>2. \A j \in Pipes : j - 1 \in Jobs /\ (j - 1 = i <=> j = i + 1)
    BY JobFacts DEF Pipes
  <2>3. mainPc # "returned"
    BY <1>0 DEF ClosedByWriter
  <2> QED
    BY <1>0, <1>3, <1>4, <2>1, <2>2, <2>3 DEF ClosedByWriter
<1>10. DrainInv'
  <2>1. \A j \in Jobs : jobPc'[j] \in {"returned", "done"} => jobPc[j] \in {"returned", "done"}
    BY <1>0 DEF TypeOK
  <2> QED
    BY <1>0, <2>1 DEF DrainInv, Drains
<1> QED
  BY <1>5, <1>6, <1>8, <1>9, <1>10 DEF IInv

(* No step of the pipeline breaks the inductive invariant.                  *)
LEMMA NextIInv == IInv /\ [Next]_vars => IInv'
<1> SUFFICES ASSUME IInv, [Next]_vars PROVE IInv'
  OBVIOUS
<1>1. CASE Next
  BY <1>1, LaunchStep, WaitStep, TakeValueStep, GiveValueStep, JobReturnsStep, CloseNextStep
     DEF Next, Job
<1>2. CASE UNCHANGED vars
  BY <1>2 DEF vars, job, IInv, TypeOK, RunnerInv, Active, CountInv, InOrder, ClosedByWriter,
    DrainInv, Drains
<1> QED
  BY <1>1, <1>2

(* The inductive invariant holds in every reachable state.                  *)
THEOREM Invariance == Spec => []IInv
BY InitIInv, NextIInv, PTL DEF Spec

(* The variables keep their types; no pipe is ever over its capacity.       *)
THEOREM TypeCorrect == Spec => []TypeOK
<1>1. IInv => TypeOK
  BY DEF IInv
<1> QED
  BY <1>1, Invariance, PTL

(* Between two jobs no value is lost, doubled or overtaken, for any number  *)
(* of jobs and values and any capacity.                                     *)
THEOREM OrderCorrect == Spec => []InOrder
<1>1. IInv => InOrder
  BY DEF IInv
<1> QED
  BY <1>1, Invariance, PTL

(* Pipes are closed by their writer and only after its return, and          *)
(* ExecutePipeline returns after all jobs: no send on a closed pipe, no     *)
(* second close, however the jobs are scheduled.                            *)
THEOREM ClosingCorrect == Spec => []ClosedByWriter
<1>1. IInv => ClosedByWriter
  BY DEF IInv
<1> QED
  BY <1>1, Invariance, PTL

(* A job that leaves more values behind than a pipe holds, while all jobs   *)
(* before it range, keeps ExecutePipeline from ever returning.              *)
THEOREM LeaverCorrect == Spec => []LeaverBlocks
<1>1. ASSUME IInv, mainPc = "returned", NEW i \in Pipes,
             \A j \in Pipes : j < i => Drains(j), limit[i] + PipeCap < inputs
      PROVE  FALSE
  <2>1. TypeOK /\ CountInv /\ InOrder /\ ClosedByWriter /\ DrainInv
    BY <1>1 DEF IInv
  <2>2. /\ i - 1 \in Jobs /\ i - 1 < N /\ i \in Jobs /\ PipeCap \in Nat
        /\ \A j \in Pipes : j <= i - 1 => Drains(j)
    BY <1>1, ExecutePipelineAssumption, PipeAssumption DEF Jobs, Pipes
  <2>3. jobPc[i - 1] = "done"
    BY <1>1, <2>1, <2>2 DEF ClosedByWriter
  <2>4. given[i - 1] = inputs
    BY <2>1, <2>2, <2>3 DEF DrainInv
  <2>5. limit[i] \in Nat /\ taken[i] \in Nat /\ inputs \in Nat
    BY <2>1, <2>2 DEF TypeOK
  <2>6. taken[i] <= limit[i]
    BY <1>1, <2>1, <2>2, <2>5 DEF CountInv
  <2>7. Len(Run(taken[i], inputs)) = inputs - taken[i]
    BY <1>1, <2>2, <2>5, <2>6 DEF Run
  <2>8. Len(Run(taken[i], inputs)) <= PipeCap
    <3>1. pipes[i].queue = Run(taken[i], inputs)
      BY <2>1, <2>4, PipeFacts
    <3> QED
      BY <2>1, <3>1 DEF TypeOK
  <2> QED
    BY <1>1, <2>2, <2>5, <2>6, <2>7, <2>8
<1>2. IInv => LeaverBlocks
  BY <1>1 DEF LeaverBlocks
<1> QED
  BY <1>2, Invariance, PTL

-----------------------------------------------------------------------------
(* No deadlock.  What lets a goroutine go on: the guards of its steps.      *)
MayTake(i) ==
  /\ i \in Pipes /\ jobPc[i] = "running" /\ ~Holding(i)
  /\ taken[i] < limit[i] \/ limit[i] = inputs
  /\ HasNext(pipes[i])

MayGive(i) ==
  /\ i < N /\ jobPc[i] = "running"
  /\ IF i = 1 THEN given[i] < inputs ELSE Holding(i)
  /\ HasRoom(pipes[i + 1])

MayReturn(i) ==
  /\ jobPc[i] = "running"
  /\ IF i = 1 THEN given[i] = inputs
     ELSE ~Holding(i) /\ ((limit[i] < inputs /\ taken[i] = limit[i]) \/ Exhausted(pipes[i]))

MayLaunch(i) ==
  mainPc = "launching" /\ jobPc[i] = "none" /\ \A j \in 1 .. i - 1 : jobPc[j] # "none"

MayMove(i) == MayLaunch(i) \/ MayTake(i) \/ MayGive(i) \/ MayReturn(i) \/ jobPc[i] = "returned"

(* Until ExecutePipeline has returned, some goroutine can go on.            *)
NeverStuck ==
  (inputs <= PipeCap \/ \A i \in Pipes : Drains(i)) /\ mainPc # "returned" =>
    (mainPc = "waiting" /\ wg = 0) \/ \E i \in Jobs : MayMove(i)

(* A job that ranges ends with its input read to the end.                   *)
EndInv ==
  \A i \in Pipes : jobPc[i] \in {"returned", "done"} /\ Drains(i) => Exhausted(pipes[i])

LaunchInv == mainPc = "launching" => jobPc[N] = "none"

LEMMA InitEndInv == Init => EndInv /\ LaunchInv
BY JobFacts DEF Init, EndInv, LaunchInv

LEMMA LaunchInvStep == IInv /\ LaunchInv /\ [Next]_vars => LaunchInv'
<1> SUFFICES ASSUME IInv, LaunchInv, [Next]_vars PROVE LaunchInv'
  OBVIOUS
<1> USE JobFacts DEF LaunchInv
<1>1. jobPc \in [Jobs -> {"none", "running", "returned", "done"}]
  BY DEF IInv, TypeOK
<1>2. ASSUME NEW i \in Jobs, Launch(i) PROVE LaunchInv'
  BY <1>1, <1>2 DEF Launch
<1>3. CASE Wait
  BY <1>3 DEF Wait
<1>4. ASSUME NEW i \in Jobs, TakeValue(i) \/ GiveValue(i) PROVE LaunchInv'
  BY <1>4 DEF TakeValue, GiveValue
<1>5. ASSUME NEW i \in Jobs, JobReturns(i) \/ CloseNext(i) PROVE LaunchInv'
  BY <1>1, <1>5 DEF JobReturns, CloseNext
<1>6. CASE UNCHANGED vars
  BY <1>6 DEF vars
<1> QED
  BY <1>2, <1>3, <1>4, <1>5, <1>6 DEF Next, Job

LEMMA EndInvStep == IInv /\ EndInv /\ [Next]_vars => EndInv'
<1> SUFFICES ASSUME IInv, EndInv, [Next]_vars, NEW i \in Pipes,
                    jobPc'[i] \in {"returned", "done"}, Drains(i)'
             PROVE  Exhausted(pipes[i])'
  BY DEF EndInv
<1>1. /\ jobPc \in [Jobs -> {"none", "running", "returned", "done"}]
      /\ i \in Jobs /\ i # 1 /\ DOMAIN pipes = Pipes
  BY JobFacts DEF IInv, TypeOK
<1>2. Drains(i)
  BY DEF Next, Job, Launch, Wait, TakeValue, GiveValue, JobReturns, CloseNext, vars, job, Drains
<1>3. jobPc[i] \in {"returned", "done"} => Exhausted(pipes[i])
  BY <1>2 DEF EndInv
<1>4. CASE pipes' = pipes /\ jobPc' = jobPc
  BY <1>3, <1>4 DEF Exhausted
<1>5. ASSUME NEW k \in Jobs, Launch(k) PROVE Exhausted(pipes[i])'
  BY <1>1, <1>3, <1>5 DEF Launch, Exhausted
<1>6. ASSUME NEW k \in Pipes, TakeValue(k) PROVE Exhausted(pipes[i])'
  <2>1. k # i /\ jobPc' = jobPc
    BY <1>6 DEF TakeValue
  <2>2. pipes'[i] = pipes[i]
    BY <1>6, <2>1, <1>1 DEF TakeValue
  <2> QED
    BY <1>3, <2>1, <2>2 DEF Exhausted
<1>7. ASSUME NEW k \in Jobs, GiveValue(k) PROVE Exhausted(pipes[i])'
  <2>1. Exhausted(pipes[i]) /\ ~pipes[k + 1].closed /\ jobPc' = jobPc
    BY <1>3, <1>7 DEF GiveValue, HasRoom
  <2>2. pipes'[i] = pipes[i]
    BY <1>1, <1>7, <2>1 DEF GiveValue, Exhausted
  <2> QED
    BY <2>1, <2>2 DEF Exhausted
<1>8. ASSUME NEW k \in Jobs, JobReturns(k) PROVE Exhausted(pipes[i])'
  <2>1. pipes' = pipes /\ jobPc' = [jobPc EXCEPT ![k] = "returned"]
    BY <1>8 DEF JobReturns
  <2>2. CASE k = i
    <3>1. inputs \in Nat /\ limit[i] = inputs
      BY <1>2 DEF IInv, TypeOK, Drains
    <3> QED
      BY <1>1, <1>8, <2>1, <2>2, <3>1 DEF JobReturns, Exhausted
  <2>3. CASE k # i
    BY <1>1, <1>3, <2>1, <2>3 DEF Exhausted
  <2> QED
    BY <2>2, <2>3
<1>9. ASSUME NEW k \in Jobs, CloseNext(k) PROVE Exhausted(pipes[i])'
  <2>1. jobPc' = [jobPc EXCEPT ![k] = "done"] /\ jobPc[k] = "returned"
    BY <1>9 DEF CloseNext
  <2>2. Exhausted(pipes[i])
    BY <1>1, <1>3, <2>1
  <2>3. pipes'[i] = pipes[i] \/ pipes'[i] = Close(pipes[i])
    BY <1>1, <1>9 DEF CloseNext
  <2>4. pipes[i] = [queue |-> pipes[i].queue, closed |-> pipes[i].closed]
    BY PipeFacts DEF IInv
  <2>5. Close(pipes[i]) = [queue |-> pipes[i].queue, closed |-> TRUE]
    BY <2>4, ChannelFacts
  <2> QED
    BY <2>2, <2>3, <2>5 DEF Exhausted
<1>10. CASE Wait
  BY <1>4, <1>10 DEF Wait
<1>11. CASE UNCHANGED vars
  BY <1>4, <1>11 DEF vars
<1> QED
  BY <1>5, <1>6, <1>7, <1>8, <1>9, <1>10, <1>11 DEF Next, Job

(* Of some jobs one is the first and one the last.                          *)
LEMMA FirstOfJobs ==
  ASSUME NEW S, S \subseteq Nat, S # {}
  PROVE  \E k \in S : \A i \in S : k <= i
<1> DEFINE Less == {r \in Nat \X Nat : r[1] < r[2]}
<1>1. IsWellFoundedOn(Less, Nat)
  BY NatLessThanWellFounded DEF OpToRel
<1>2. \E i \in S : \A k \in S : ~(<<k, i>> \in Less)
  <2> HIDE DEF Less
  <2> QED
    BY <1>1, WFMin
<1>3. PICK i \in S : \A k \in S : ~(<<k, i>> \in Less)
  BY <1>2
<1>4. ASSUME NEW k \in S PROVE i <= k
  <2>1. <<k, i>> \in Nat \X Nat /\ <<k, i>>[1] = k /\ <<k, i>>[2] = i
    OBVIOUS
  <2>2. ~(k < i)
    BY <1>3, <2>1
  <2> QED
    BY <2>2
<1> QED
  BY <1>4

LEMMA LastOfJobs ==
  ASSUME NEW S, S \subseteq Jobs, S # {}
  PROVE  \E k \in S : \A i \in S : i <= k
<1> DEFINE T == {N - i : i \in S}
<1>1. N \in Nat /\ \A i \in S : i \in Nat /\ N - i \in Nat
  BY ExecutePipelineAssumption DEF Jobs
<1>2. T \subseteq Nat /\ T # {}
  BY <1>1
<1>3. PICK t \in T : \A u \in T : t <= u
  <2> HIDE DEF T
  <2> QED
    BY <1>2, FirstOfJobs
<1>4. PICK k \in S : t = N - k
  OBVIOUS
<1>5. \A i \in S : N - k <= N - i
  BY <1>3, <1>4
<1> QED
  BY <1>1, <1>5

(* A running job with something to read, or nothing more to wait for, and   *)
(* room to pass on what it has, can go on.                                  *)
LEMMA FreeJobMoves ==
  ASSUME IInv, NEW i \in Jobs, jobPc[i] = "running",
         i = 1 \/ HasNext(pipes[i]) \/ pipes[i].closed,
         i < N /\ given[i] < inputs => HasRoom(pipes[i + 1])
  PROVE  MayMove(i)
<1>1. TypeOK /\ CountInv /\ inputs \in Nat /\ taken[i] \in 0 .. inputs /\ given[i] \in 0 .. inputs
  BY DEF IInv, TypeOK
<1>2. N \in Nat /\ N > 1
  BY ExecutePipelineAssumption
<1>3. CASE i = 1
  <2>1. given[i] < inputs \/ given[i] = inputs
    BY <1>1
  <2> QED
    BY <1>2, <1>3, <2>1 DEF MayMove, MayGive, MayReturn
<1>4. CASE i # 1 /\ Holding(i)
  <2>1. i < N /\ given[i] < inputs
    BY <1>1, <1>2, <1>4 DEF Holding, Jobs
  <2> QED
    BY <1>4, <2>1 DEF MayMove, MayGive
<1>5. CASE i # 1 /\ ~Holding(i)
  <2>1. i \in Pipes /\ limit[i] \in 0 .. inputs
    BY <1>1, <1>5, JobFacts DEF TypeOK
  <2>2. taken[i] < limit[i] \/ limit[i] = inputs \/ (limit[i] < inputs /\ taken[i] = limit[i])
    BY <1>1, <2>1 DEF CountInv
  <2>3. HasNext(pipes[i]) \/ Exhausted(pipes[i])
    BY <1>5 DEF HasNext, Exhausted
  <2> QED
    BY <1>5, <2>1, <2>2, <2>3 DEF MayMove, MayTake, MayReturn
<1> QED
  BY <1>3, <1>4, <1>5

LEMMA RoomInPipe ==
  ASSUME IInv, NEW i \in Jobs, i < N, jobPc[i] = "running",
         ~HasNext(pipes[i + 1]) \/ (inputs <= PipeCap /\ given[i] < inputs)
  PROVE  HasRoom(pipes[i + 1])
<1>1. PICK j \in Pipes : j = i + 1 /\ j - 1 = i
  BY JobFacts
<1>2. /\ taken[j] \in Nat /\ given[i] \in Nat /\ inputs \in Nat /\ taken[j] <= given[i]
      /\ pipes[j].queue = Run(taken[j], given[i])
  <2>1. TypeOK /\ InOrder /\ CountInv
    BY DEF IInv
  <2>2. /\ taken[j] \in Nat /\ given[j - 1] \in Nat /\ inputs \in Nat /\ taken[j] <= given[j - 1]
        /\ pipes[j].queue = Run(taken[j], given[j - 1])
    BY <2>1, PipeFacts
  <2> QED
    BY <1>1, <2>2
<1>3. ~pipes[j].closed
  <2>1. pipes[j].closed <=> jobPc[j - 1] = "done"
    BY DEF IInv, ClosedByWriter
  <2> QED
    BY <1>1, <2>1
<1>4. Len(pipes[j].queue) = given[i] - taken[j]
  BY <1>2 DEF Run
<1>5. PipeCap \in Nat \ {0}
  BY PipeAssumption
<1>6. CASE ~HasNext(pipes[i + 1])
  BY <1>1, <1>3, <1>5, <1>6 DEF HasNext, HasRoom
<1>7. CASE inputs <= PipeCap /\ given[i] < inputs
  BY <1>1, <1>2, <1>3, <1>4, <1>5, <1>7 DEF HasRoom
<1> QED
  BY <1>6, <1>7

(* No deadlock: with jobs that range over their input, or with no more      *)
(* values than a pipe holds, some goroutine of ExecutePipeline can go on    *)
(* until it has returned, for any number of jobs and values.  If all range, *)
(* the last of the running jobs that have something to read has room to     *)
(* write; otherwise the first running job can go on.                        *)
THEOREM PipelineNeverStuck == Spec => []NeverStuck
<1> DEFINE Inv == IInv /\ EndInv /\ LaunchInv
<1>1. Inv => NeverStuck
  <2> SUFFICES ASSUME Inv, mainPc # "returned", inputs <= PipeCap \/ \A i \in Pipes : Drains(i),
                      ~(mainPc = "waiting" /\ wg = 0), \A i \in Jobs : ~MayMove(i)
               PROVE  FALSE
    BY DEF NeverStuck
  <2>1. IInv /\ TypeOK /\ RunnerInv /\ ClosedByWriter /\ N \in Nat /\ N > 1
    BY ExecutePipelineAssumption DEF IInv
  <2>2. \A i \in Jobs : jobPc[i] # "returned"
    BY DEF MayMove
  <2>3. mainPc # "launching"
    <3>1. SUFFICES ASSUME mainPc = "launching" PROVE FALSE
      OBVIOUS
    <3> DEFINE S == {i \in Jobs : jobPc[i] = "none"}
    <3>2. S \subseteq Nat /\ S # {}
      BY <3>1, JobFacts DEF LaunchInv
    <3>3. PICK k \in S : \A i \in S : k <= i
      <4> HIDE DEF S
      <4> QED
        BY <3>2, FirstOfJobs
    <3>4. \A j \in 1 .. k - 1 : jobPc[j] # "none"
      BY <2>1, <3>3 DEF Jobs
    <3> QED
      BY <3>1, <3>3, <3>4 DEF MayMove, MayLaunch
  <2>4. mainPc = "waiting" /\ wg # 0
    BY <2>1, <2>3 DEF TypeOK
  <2> DEFINE R == {i \in Jobs : jobPc[i] = "running"}
  <2>5. R = Active
    BY <2>2 DEF Active
  <2>6. R # {} /\ R \subseteq Jobs /\ R \subseteq Nat
    <3>1. Active # {}
      BY <2>1, <2>4, FS_EmptySet DEF RunnerInv
    <3> QED
      BY <2>5, <3>1, JobFacts
  <2>7. \A i \in Jobs : i \in R \/ jobPc[i] = "done"
    BY <2>1, <2>2, <2>3 DEF RunnerInv, TypeOK
  <2>8. PICK m \in R : \A i \in R : m <= i
    <3> HIDE DEF R
    <3> QED
      BY <2>6, FirstOfJobs
  <2>9. m = 1 \/ pipes[m].closed
    <3>1. SUFFICES ASSUME m # 1 PROVE pipes[m].closed
      OBVIOUS
    <3>2. m \in Pipes /\ m - 1 \in Jobs /\ m \in Nat
      BY <3>1, JobFacts
    <3>3. m - 1 \notin R
      BY <2>8, <3>2
    <3> QED
      BY <2>1, <2>7, <3>2, <3>3 DEF ClosedByWriter
  <2>10. CASE inputs <= PipeCap
    BY <2>1, <2>8, <2>9, <2>10, FreeJobMoves, RoomInPipe
  <2>11. CASE \A i \in Pipes : Drains(i)
    <3> DEFINE A == {i \in R : i = 1 \/ HasNext(pipes[i]) \/ pipes[i].closed}
    <3>1. A \subseteq Jobs /\ A # {}
      BY <2>8, <2>9
    <3>2. PICK k \in A : \A i \in A : i <= k
      <4> HIDE DEF A
      <4> QED
        BY <3>1, LastOfJobs
    <3>3. k \in Jobs /\ jobPc[k] = "running" /\ (k = 1 \/ HasNext(pipes[k]) \/ pipes[k].closed)
      OBVIOUS
    <3>4. ASSUME k < N PROVE ~HasNext(pipes[k + 1])
      <4>1. k + 1 \in Pipes /\ k + 1 \in Jobs /\ k + 1 - 1 = k /\ k \in Nat
        BY <3>3, <3>4, JobFacts
      <4>2. CASE k + 1 \in R
        BY <3>2, <4>1, <4>2
      <4>3. CASE jobPc[k + 1] = "done"
        <5>1. pipes[k + 1].closed
          BY <2>11, <4>1, <4>3 DEF EndInv, Exhausted
        <5> QED
          BY <2>1, <3>3, <4>1, <5>1 DEF ClosedByWriter
      <4> QED
        BY <2>7, <4>1, <4>2, <4>3
    <3>5. k < N => HasRoom(pipes[k + 1])
      BY <2>1, <3>3, <3>4, RoomInPipe
    <3> QED
      BY <2>1, <3>3, <3>5, FreeJobMoves
  <2> QED
    BY <2>10, <2>11
<1>2. Init => Inv
  BY InitIInv, InitEndInv
<1>3. Inv /\ [Next]_vars => Inv'
  BY NextIInv, EndInvStep, LaunchInvStep
<1> QED
  BY <1>1, <1>2, <1>3, PTL DEF Spec
=============================================================================
