------------------------------ MODULE MultiHash ------------------------------
(***************************************************************************)
(* The job MultiHash (chapter1/hw2/signer.go): every value that comes in   *)
(* gets a goroutine, the worker, which starts one helper per th = 0..5,    *)
(* waits for them all and sends the concatenation of their checksums.      *)
(***************************************************************************)
EXTENDS Pipe, DataSigner, FiniteSets

CONSTANTS
  Data,       \* the values that may come in
  MaxValues,  \* how many of them come in at most
  ThLimit     \* helpers per value; 6 in the code

VARIABLES
  in,       \* the pipe the job ranges over
  out,      \* the pipe its workers write
  mainPc,   \* the job's own goroutine
  rawData,  \* the values taken so far; rawData[n] is worker n's
  outerWG,  \* counter of the wait group of the workers
  pc,       \* control of each worker
  innerWG,  \* counter of each worker's wait group
  sums,     \* the slice "results" of each worker
  results   \* history: what was sent to out, and by which worker

ownVars == <<mainPc, rawData, outerWG, pc, innerWG, sums, results>>
vars == <<in, out, ownVars>>

Workers == 1 .. MaxValues
Th == 1 .. ThLimit   \* slot th stands for results[th - 1]

(* hw2.md:16 *)
MultiHashOf(d) == [th \in Th |-> Crc32(<<th - 1, d>>)]
Sums == {Empty} \cup {Crc32(<<th - 1, d>>) : th \in Th, d \in Data}

TypeOK ==
  /\ in \in PipeOf(Data)
  /\ out \in PipeOf([Th -> Sums])
  /\ mainPc \in {"ranging", "waiting", "returned"}
  /\ rawData \in Seq(Data)
  /\ Len(rawData) <= MaxValues
  /\ outerWG \in 0 .. MaxValues
  /\ pc \in [Workers -> {"none", "started", "waiting", "sent", "done"}]
  /\ innerWG \in [Workers -> 0 .. ThLimit]
  /\ sums \in [Workers -> [Th -> Sums]]
  /\ results \in Seq([by : Workers, value : [Th -> Sums]])

Init ==
  /\ mainPc = "ranging"
  /\ rawData = <<>>
  /\ outerWG = 0
  /\ pc = [n \in Workers |-> "none"]
  /\ innerWG = [n \in Workers |-> 0]
  /\ sums = [n \in Workers |-> [th \in Th |-> Empty]]
  /\ results = <<>>

-----------------------------------------------------------------------------
(* The job's own goroutine: range over in, one worker per value, then wait. *)

Take ==
  LET n == Len(rawData) + 1 IN
  /\ mainPc = "ranging"
  /\ HasNext(in)
  /\ n \in Workers
  /\ in' = Rest(in)
  /\ rawData' = Append(rawData, First(in))
  /\ outerWG' = outerWG + 1
  /\ pc' = [pc EXCEPT ![n] = "started"]
  /\ UNCHANGED <<out, mainPc, innerWG, sums, results>>

RangeEnds ==
  /\ mainPc = "ranging"
  /\ Exhausted(in)
  /\ mainPc' = "waiting"
  /\ UNCHANGED <<in, out, rawData, outerWG, pc, innerWG, sums, results>>

Return ==
  /\ mainPc = "waiting"
  /\ outerWG = 0
  /\ mainPc' = "returned"
  /\ UNCHANGED <<in, out, rawData, outerWG, pc, innerWG, sums, results>>

-----------------------------------------------------------------------------
(* The worker.  It starts its helpers one by one; since each of them only   *)
(* fills its own slot and counts down, all of them are started in one step. *)
Spawn(n) ==
  /\ pc[n] = "started"
  /\ innerWG' = [innerWG EXCEPT ![n] = ThLimit]
  /\ pc' = [pc EXCEPT ![n] = "waiting"]
  /\ UNCHANGED <<in, out, mainPc, rawData, outerWG, sums, results>>

(* The helper for th: it fills its slot and calls innerWG.Done.             *)
HelperDone(n, th) ==
  /\ pc[n] = "waiting"
  /\ sums[n][th] = Empty
  /\ sums' = [sums EXCEPT ![n][th] = Crc32(<<th - 1, rawData[n]>>)]
  /\ innerWG' = [innerWG EXCEPT ![n] = @ - 1]
  /\ UNCHANGED <<in, out, mainPc, rawData, outerWG, pc, results>>

(* innerWG.Wait, the concatenation, and out <- resultsStr.                  *)
SendResult(n) ==
  /\ pc[n] = "waiting"
  /\ innerWG[n] = 0
  /\ HasRoom(out)
  /\ out' = Put(out, sums[n])
  /\ results' = Append(results, [by |-> n, value |-> sums[n]])
  /\ pc' = [pc EXCEPT ![n] = "sent"]
  /\ UNCHANGED <<in, mainPc, rawData, outerWG, innerWG, sums>>

(* The deferred outerWG.Done.                                               *)
WorkerDone(n) ==
  /\ pc[n] = "sent"
  /\ outerWG' = outerWG - 1
  /\ pc' = [pc EXCEPT ![n] = "done"]
  /\ UNCHANGED <<in, out, mainPc, rawData, innerWG, sums, results>>

Main == Take \/ RangeEnds \/ Return
Helper(n) == \E th \in Th : HelperDone(n, th)
Worker(n) == Spawn(n) \/ SendResult(n) \/ WorkerDone(n)
Step == Main \/ \E n \in Workers : Helper(n) \/ Worker(n)

-----------------------------------------------------------------------------
(* The jobs around it: one writes in and closes it, one reads out, and      *)
(* ExecutePipeline closes out when this one has returned.                   *)

Feed ==
  /\ HasRoom(in)
  /\ Len(rawData) + Len(in.queue) < MaxValues
  /\ \E d \in Data : in' = Put(in, d)
  /\ UNCHANGED <<out, ownVars>>

FeedEnds ==
  /\ ~in.closed
  /\ in' = Close(in)
  /\ UNCHANGED <<out, ownVars>>

Drain ==
  /\ HasNext(out)
  /\ out' = Rest(out)
  /\ UNCHANGED <<in, ownVars>>

CloseOut ==
  /\ mainPc = "returned"
  /\ ~out.closed
  /\ out' = Close(out)
  /\ UNCHANGED <<in, ownVars>>

Next == Step \/ Feed \/ FeedEnds \/ Drain \/ CloseOut

Spec == in = NewPipe /\ out = NewPipe /\ Init /\ [][Next]_vars

-----------------------------------------------------------------------------
(* No send on a closed pipe, which would panic: when out is closed, no      *)
(* worker is left that could write it.                                      *)
OutClosedLast ==
  out.closed => \A n \in Workers : pc[n] \in {"none", "done"}

(* One result per value: the six checksums of that value in the order of    *)
(* th, however the helpers are scheduled; the return after all of them.     *)
MustGive(d) == {MultiHashOf(d)}
Job == INSTANCE Stage WITH
         Values <- Data,
         ResultOf <- MustGive,
         taken <- rawData,
         returned <- mainPc = "returned"

KeepsStage == Job!Spec
=============================================================================
