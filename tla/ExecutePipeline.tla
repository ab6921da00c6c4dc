--------------------------- MODULE ExecutePipeline ---------------------------
(***************************************************************************)
(* ExecutePipeline (chapter1/hw2/signer.go): a goroutine per job, a pipe   *)
(* between neighbours, each pipe closed when the job that writes it has    *)
(* returned.  The jobs themselves come from outside; here they are those   *)
(* of main_test.go and extra_test.go: the first sends a given number of    *)
(* values, those in the middle pass on one value after the other, the last *)
(* only reads.  A job ranges over its input until that ends, or returns    *)
(* after a number of values, as the last one of TestSigner does.           *)
(***************************************************************************)
EXTENDS Pipe

CONSTANTS
  N,         \* number of jobs
  MaxInputs  \* values the first job sends at most

Jobs == 1 .. N
Pipes == 2 .. N   \* pipes[i] is between jobs i - 1 and i; the outer two are unused

ASSUME ExecutePipelineAssumption ==
  /\ N \in Nat /\ N > 1
  /\ MaxInputs \in Nat

VARIABLES
  inputs,   \* what the caller brings: values the first job sends,
  limit,    \* and values after which job i returns; inputs: no limit
  pipes,    \* the channels between the jobs
  jobPc,    \* control of each job's goroutine
  wg,       \* counter of the wait group
  mainPc,   \* the caller of ExecutePipeline
  taken,    \* number of values each job has taken
  given     \* number of values each job has sent

job == <<inputs, limit>>
vars == <<job, pipes, jobPc, wg, mainPc, taken, given>>

TypeOK ==
  /\ inputs \in 0 .. MaxInputs
  /\ limit \in [Pipes -> 0 .. inputs]
  /\ pipes \in [Pipes -> PipeOf(1 .. inputs)]
  /\ \A i \in Pipes : Len(pipes[i].queue) <= PipeCap
  /\ jobPc \in [Jobs -> {"none", "running", "returned", "done"}]
  /\ wg \in 0 .. N
  /\ mainPc \in {"launching", "waiting", "returned"}
  /\ taken \in [Jobs -> 0 .. inputs]
  /\ given \in [Jobs -> 0 .. inputs]

Init ==
  /\ inputs \in 0 .. MaxInputs
  /\ limit \in [Pipes -> 0 .. inputs]
  /\ pipes = [i \in Pipes |-> NewPipe]
  /\ jobPc = [i \in Jobs |-> "none"]
  /\ wg = 0
  /\ mainPc = "launching"
  /\ taken = [i \in Jobs |-> 0]
  /\ given = [i \in Jobs |-> 0]

-----------------------------------------------------------------------------
(* One round of the loop over the jobs: wg.Add(1) and go.                   *)
Launch(i) ==
  /\ mainPc = "launching"
  /\ jobPc[i] = "none"
  /\ \A j \in 1 .. i - 1 : jobPc[j] # "none"
  /\ wg' = wg + 1
  /\ jobPc' = [jobPc EXCEPT ![i] = "running"]
  /\ mainPc' = IF i = N THEN "waiting" ELSE mainPc
  /\ UNCHANGED <<job, pipes, taken, given>>

Wait ==
  /\ mainPc = "waiting"
  /\ wg = 0
  /\ mainPc' = "returned"
  /\ UNCHANGED <<job, pipes, jobPc, wg, taken, given>>

(* What job i has in hand and has not passed on. *)
Holding(i) == i \in 2 .. N - 1 /\ given[i] < taken[i]

(* Mutant: a job takes its values when all are there. *)
TakeLate(i) ==
  /\ jobPc[i] = "running"
  /\ ~Holding(i)
  /\ taken[i] < limit[i] \/ limit[i] = inputs
  /\ HasNext(pipes[i])
  /\ pipes[i].closed
  /\ taken' = [taken EXCEPT ![i] = First(pipes[i])]
  /\ pipes' = [pipes EXCEPT ![i] = Rest(@)]
  /\ UNCHANGED <<job, jobPc, wg, mainPc, given>>

(* v := <-in, in a range loop or on its own.                                *)
TakeValue(i) ==
  /\ jobPc[i] = "running"
  /\ ~Holding(i)
  /\ taken[i] < limit[i] \/ limit[i] = inputs
  /\ HasNext(pipes[i])
  /\ taken' = [taken EXCEPT ![i] = First(pipes[i])]
  /\ pipes' = [pipes EXCEPT ![i] = Rest(@)]
  /\ UNCHANGED <<job, jobPc, wg, mainPc, given>>

(* Mutant: a value for a full pipe is dropped. *)
GiveOrDrop(i) ==
  /\ i < N
  /\ jobPc[i] = "running"
  /\ IF i = 1 THEN given[i] < inputs ELSE Holding(i)
  /\ pipes' = IF HasRoom(pipes[i + 1])
                THEN [pipes EXCEPT ![i + 1] = Put(@, given[i] + 1)] ELSE pipes
  /\ given' = [given EXCEPT ![i] = @ + 1]
  /\ UNCHANGED <<job, jobPc, wg, mainPc, taken>>

(* out <- value: the values are numbered, so that the next is given + 1.    *)
GiveValue(i) ==
  /\ i < N
  /\ jobPc[i] = "running"
  /\ IF i = 1 THEN given[i] < inputs ELSE Holding(i)
  /\ HasRoom(pipes[i + 1])
  /\ pipes' = [pipes EXCEPT ![i + 1] = Put(@, given[i] + 1)]
  /\ given' = [given EXCEPT ![i] = @ + 1]
  /\ UNCHANGED <<job, jobPc, wg, mainPc, taken>>

(* currJob returns.                                                         *)
JobReturns(i) ==
  /\ jobPc[i] = "running"
  /\ IF i = 1 THEN given[i] = inputs
     ELSE /\ ~Holding(i)
          /\ \/ limit[i] < inputs /\ taken[i] = limit[i]
             \/ Exhausted(pipes[i])
  /\ jobPc' = [jobPc EXCEPT ![i] = "returned"]
  /\ UNCHANGED <<job, pipes, wg, mainPc, taken, given>>

(* Mutant: the pipe is left open. *)
CloseForgotten(i) ==
  /\ jobPc[i] = "returned"
  /\ wg' = wg - 1
  /\ jobPc' = [jobPc EXCEPT ![i] = "done"]
  /\ UNCHANGED <<job, pipes, mainPc, taken, given>>

(* close(pipes[currJobIdx+1]) and the deferred wg.Done.                     *)
CloseNext(i) ==
  /\ jobPc[i] = "returned"
  /\ pipes' = IF i < N THEN [pipes EXCEPT ![i + 1] = Close(@)] ELSE pipes
  /\ wg' = wg - 1
  /\ jobPc' = [jobPc EXCEPT ![i] = "done"]
  /\ UNCHANGED <<job, mainPc, taken, given>>

Job(i) ==
  \/ i \in Pipes /\ TakeValue(i)
  \/ GiveValue(i) \/ JobReturns(i) \/ CloseNext(i)

Next == Wait \/ \E i \in Jobs : Launch(i) \/ Job(i)

Spec == Init /\ [][Next]_vars

(* Every goroutine that can run does run, except that the first job may be  *)
(* idle for ever between two values: it need not be finite.                 *)
Fairness ==
  /\ WF_vars(Wait)
  /\ \A i \in Jobs : WF_vars(Launch(i)) /\ WF_vars(CloseNext(i))
  /\ \A i \in Pipes : WF_vars(Job(i))

FairSpec == Spec /\ Fairness

-----------------------------------------------------------------------------
Drains(i) == limit[i] = inputs

(* No value is lost, doubled or overtaken between two jobs: the pipe holds  *)
(* what has been given and not been taken, in order.                        *)
InOrder ==
  \A i \in Pipes :
    pipes[i].queue = [k \in 1 .. given[i - 1] - taken[i] |-> taken[i] + k]

(* A pipe is closed only by the job that writes it, when it has returned:   *)
(* no send on a closed pipe and no second close, which would both panic;    *)
(* and ExecutePipeline returns on closed pipes and finished jobs only.      *)
ClosedByWriter ==
  /\ \A i \in Pipes : pipes[i].closed <=> jobPc[i - 1] = "done"
  /\ mainPc = "returned" => \A i \in Jobs : jobPc[i] = "done"

(* Values flow (TestPipeline): what a job has sent is taken by the next one *)
(* although the sender goes on running, provided all jobs range.            *)
FreeFlow ==
  \A v \in 1 .. MaxInputs :
    (\A i \in Pipes : Drains(i)) /\ given[1] >= v ~> taken[N] >= v

(* ExecutePipeline returns when the first job does, provided all jobs range *)
(* over their input, or there are no more values than a pipe holds (the     *)
(* bound of 100 elements of hw2.md), whenever the jobs return.              *)
PipelineReturns ==
  (inputs <= PipeCap \/ \A i \in Pipes : Drains(i)) /\ jobPc[1] = "returned"
    ~> mainPc = "returned"

(* Otherwise it does not: a job that leaves more values than a pipe holds   *)
(* blocks the one before it for good, and ExecutePipeline with it.          *)
LeaverBlocks ==
  (\E i \in Pipes : /\ \A j \in Pipes : j < i => Drains(j)
                    /\ limit[i] + PipeCap < inputs)
    => mainPc # "returned"
=============================================================================
