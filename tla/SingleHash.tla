------------------------------ MODULE SingleHash ------------------------------
(***************************************************************************)
(* The job SingleHash (chapter1/hw2/signer.go) and the checksums of        *)
(* common.go.  For every value that comes in, a goroutine of its own, the  *)
(* worker, computes crc32(md5(data)), while a second goroutine, the        *)
(* helper, computes crc32(data).  A channel of capacity 1, waitCh, is used *)
(* as a lock to wait for the helper; another, quotaCh, admits one worker   *)
(* at a time to DataSignerMd5, which has a spin lock for the process.      *)
(*                                                                         *)
(* Workers are numbered in the order in which their values come in.        *)
(***************************************************************************)
EXTENDS Pipe, DataSigner

CONSTANTS
  Data,       \* the values that may come in
  MaxValues,  \* how many of them come in at most
  MD5CalculatorLimit  \* capacity of quotaCh; 1 in the code

VARIABLES
  in,         \* the pipe the job ranges over
  out,        \* the pipe its workers write
  mainPc,     \* the job's own goroutine
  rawData,    \* the values taken so far; rawData[n] is worker n's
  outerWG,    \* counter of the wait group
  quotaCh,    \* number of tokens in quotaCh
  overheat,   \* dataSignerOverheat
  pc,         \* control of each worker
  helper,     \* control of each helper
  waitCh,     \* number of tokens in each waitCh
  leftSide,   \* leftSideHashSum of each worker
  results     \* history: what was sent to out, and by which worker

ownVars == <<mainPc, rawData, outerWG, quotaCh, overheat, pc, helper, waitCh,
             leftSide, results>>
vars == <<in, out, ownVars>>

Workers == 1 .. MaxValues

(* The left side of worker n's result is one of these two, the right side   *)
(* is a local of the worker.                                                *)
LeftSides == {Empty} \cup {Crc32(d) : d \in Data}
RightSide(d) == Crc32(Md5(d))
Hashes == LeftSides \X {RightSide(d) : d \in Data}

(* hw2.md:15 *)
SingleHashOf(d) == <<Crc32(d), RightSide(d)>>

TypeOK ==
  /\ in \in PipeOf(Data)
  /\ out \in PipeOf(Hashes)
  /\ mainPc \in {"ranging", "waiting", "returned"}
  /\ rawData \in Seq(Data)
  /\ Len(rawData) <= MaxValues
  /\ outerWG \in 0 .. MaxValues
  /\ quotaCh \in 0 .. MD5CalculatorLimit
  /\ overheat \in {0, 1}
  /\ pc \in [Workers -> {"none", "started", "quota", "hashing", "hashed",
                         "right", "joined", "sent", "done"}]
  /\ helper \in [Workers -> {"none", "started", "locked", "filled", "done"}]
  /\ waitCh \in [Workers -> {0, 1}]
  /\ leftSide \in [Workers -> LeftSides]
  /\ results \in Seq([by : Workers, value : Hashes])

Init ==
  /\ mainPc = "ranging"
  /\ rawData = <<>>
  /\ outerWG = 0
  /\ quotaCh = 0
  /\ overheat = 0
  /\ pc = [n \in Workers |-> "none"]
  /\ helper = [n \in Workers |-> "none"]
  /\ waitCh = [n \in Workers |-> 0]
  /\ leftSide = [n \in Workers |-> Empty]
  /\ results = <<>>

-----------------------------------------------------------------------------
(* The job's own goroutine: range over in, one worker per value, then wait. *)

Take ==
  LET n == Len(rawData) + 1 IN
  /\ mainPc = "ranging"
  /\ HasNext(in)
  /\ n \in Workers
  /\ in' = Rest(in)
  /\ rawData' = Append(rawData, First(in))
  /\ outerWG' = outerWG + 1
  /\ pc' = [pc EXCEPT ![n] = "started"]
  /\ helper' = [helper EXCEPT ![n] = "started"]
  /\ UNCHANGED <<out, mainPc, quotaCh, overheat, waitCh, leftSide, results>>

RangeEnds ==
  /\ mainPc = "ranging"
  /\ Exhausted(in)
  /\ mainPc' = "waiting"
  /\ UNCHANGED <<in, out, rawData, outerWG, quotaCh, overheat, pc, helper, waitCh,
                 leftSide, results>>

(* Mutant: the job does not wait for its workers. *)
ReturnNoWait ==
  /\ mainPc = "waiting"
  /\ mainPc' = "returned"
  /\ UNCHANGED <<in, out, rawData, outerWG, quotaCh, overheat, pc, helper, waitCh,
                 leftSide, results>>

Return ==
  /\ mainPc = "waiting"
  /\ outerWG = 0
  /\ mainPc' = "returned"
  /\ UNCHANGED <<in, out, rawData, outerWG, quotaCh, overheat, pc, helper, waitCh,
                 leftSide, results>>

-----------------------------------------------------------------------------
(* The helper: waitCh is full while it computes the left side.              *)

HelperLock(n) ==
  /\ helper[n] = "started"
  /\ waitCh[n] = 0
  /\ waitCh' = [waitCh EXCEPT ![n] = 1]
  /\ helper' = [helper EXCEPT ![n] = "locked"]
  /\ UNCHANGED <<in, out, mainPc, rawData, outerWG, quotaCh, overheat, pc, leftSide, results>>

HelperFill(n) ==
  /\ helper[n] = "locked"
  /\ leftSide' = [leftSide EXCEPT ![n] = Crc32(rawData[n])]
  /\ helper' = [helper EXCEPT ![n] = "filled"]
  /\ UNCHANGED <<in, out, mainPc, rawData, outerWG, quotaCh, overheat, pc, waitCh, results>>

HelperUnlock(n) ==
  /\ helper[n] = "filled"
  /\ waitCh[n] = 1
  /\ waitCh' = [waitCh EXCEPT ![n] = 0]
  /\ helper' = [helper EXCEPT ![n] = "done"]
  /\ UNCHANGED <<in, out, mainPc, rawData, outerWG, quotaCh, overheat, pc, leftSide, results>>

-----------------------------------------------------------------------------
(* The worker.                                                              *)

(* Mutant: the quota is one too large. *)
EnterQuotaTwo(n) ==
  /\ pc[n] = "started"
  /\ quotaCh <= MD5CalculatorLimit
  /\ quotaCh' = quotaCh + 1
  /\ pc' = [pc EXCEPT ![n] = "quota"]
  /\ UNCHANGED <<in, out, mainPc, rawData, outerWG, overheat, helper, waitCh, leftSide, results>>

EnterQuota(n) ==
  /\ pc[n] = "started"
  /\ quotaCh < MD5CalculatorLimit
  /\ quotaCh' = quotaCh + 1
  /\ pc' = [pc EXCEPT ![n] = "quota"]
  /\ UNCHANGED <<in, out, mainPc, rawData, outerWG, overheat, helper, waitCh, leftSide, results>>

(* DataSignerMd5 between OverheatLock and OverheatUnlock.  A compare-and-   *)
(* swap that fails changes nothing, and is tried again a second later.      *)
OverheatLock(n) ==
  /\ pc[n] = "quota"
  /\ overheat = 0
  /\ overheat' = 1
  /\ pc' = [pc EXCEPT ![n] = "hashing"]
  /\ UNCHANGED <<in, out, mainPc, rawData, outerWG, quotaCh, helper, waitCh, leftSide, results>>

OverheatUnlock(n) ==
  /\ pc[n] = "hashing"
  /\ overheat = 1
  /\ overheat' = 0
  /\ pc' = [pc EXCEPT ![n] = "hashed"]
  /\ UNCHANGED <<in, out, mainPc, rawData, outerWG, quotaCh, helper, waitCh, leftSide, results>>

LeaveQuota(n) ==
  /\ pc[n] = "hashed"
  /\ quotaCh > 0
  /\ quotaCh' = quotaCh - 1
  /\ pc' = [pc EXCEPT ![n] = "right"]
  /\ UNCHANGED <<in, out, mainPc, rawData, outerWG, overheat, helper, waitCh, leftSide, results>>

(* Mutant: waitCh has room for both. *)
JoinBoth(n) ==
  /\ pc[n] = "right"
  /\ waitCh' = [waitCh EXCEPT ![n] = 1]
  /\ pc' = [pc EXCEPT ![n] = "joined"]
  /\ UNCHANGED <<in, out, mainPc, rawData, outerWG, quotaCh, overheat, helper, leftSide, results>>

(* waitCh <- struct{}{}: waits while the helper holds it, but not for a     *)
(* helper that has not started.                                             *)
Join(n) ==
  /\ pc[n] = "right"
  /\ waitCh[n] = 0
  /\ waitCh' = [waitCh EXCEPT ![n] = 1]
  /\ pc' = [pc EXCEPT ![n] = "joined"]
  /\ UNCHANGED <<in, out, mainPc, rawData, outerWG, quotaCh, overheat, helper, leftSide, results>>

SendResult(n) ==
  LET result == <<leftSide[n], RightSide(rawData[n])>> IN
  /\ pc[n] = "joined"
  /\ HasRoom(out)
  /\ out' = Put(out, result)
  /\ results' = Append(results, [by |-> n, value |-> result])
  /\ pc' = [pc EXCEPT ![n] = "sent"]
  /\ UNCHANGED <<in, mainPc, rawData, outerWG, quotaCh, overheat, helper, waitCh, leftSide>>

(* Mutant: the worker leaves its token in waitCh. *)
WorkerDoneKeeps(n) ==
  /\ pc[n] = "sent"
  /\ outerWG' = outerWG - 1
  /\ pc' = [pc EXCEPT ![n] = "done"]
  /\ UNCHANGED <<in, out, mainPc, rawData, quotaCh, overheat, helper, waitCh, leftSide, results>>

(* <-waitCh, and the deferred outerWG.Done.                                 *)
WorkerDone(n) ==
  /\ pc[n] = "sent"
  /\ waitCh[n] = 1
  /\ waitCh' = [waitCh EXCEPT ![n] = 0]
  /\ outerWG' = outerWG - 1
  /\ pc' = [pc EXCEPT ![n] = "done"]
  /\ UNCHANGED <<in, out, mainPc, rawData, quotaCh, overheat, helper, leftSide, results>>

Main == Take \/ RangeEnds \/ Return
Helper(n) == HelperLock(n) \/ HelperFill(n) \/ HelperUnlock(n)
Worker(n) ==
  \/ EnterQuota(n) \/ OverheatLock(n) \/ OverheatUnlock(n) \/ LeaveQuota(n)
  \/ Join(n) \/ SendResult(n) \/ WorkerDone(n)
Step == Main \/ \E n \in Workers : Helper(n) \/ Worker(n)

-----------------------------------------------------------------------------
(* The jobs around it: one writes in and closes it, one reads out, and      *)
(* ExecutePipeline closes out when this one has returned.                   *)

Feed ==
  /\ HasRoom(in)
  /\ Len(rawData) + Len(in.queue) < MaxValues
  /\ \E d \in Data : in' = Put(in, d)
  /\ UNCHANGED <<out, ownVars>>

FeedEnds ==
  /\ ~in.closed
  /\ in' = Close(in)
  /\ UNCHANGED <<out, ownVars>>

Drain ==
  /\ HasNext(out)
  /\ out' = Rest(out)
  /\ UNCHANGED <<in, ownVars>>

CloseOut ==
  /\ mainPc = "returned"
  /\ ~out.closed
  /\ out' = Close(out)
  /\ UNCHANGED <<in, ownVars>>

Next == Step \/ Feed \/ FeedEnds \/ Drain \/ CloseOut

Spec == in = NewPipe /\ out = NewPipe /\ Init /\ [][Next]_vars

-----------------------------------------------------------------------------
(* DataSignerMd5 never overheats (hw2.md:22: it may only be called once at  *)
(* a time): a worker that comes to OverheatLock finds the flag free, since  *)
(* the one that had the quota before has cleared it.                        *)
NeverOverheats ==
  /\ \A n \in Workers : pc[n] = "quota" => overheat = 0
  /\ \A m, n \in Workers :
       {pc[m], pc[n]} \subseteq {"quota", "hashing", "hashed"} => m = n

(* When the worker reads leftSideHashSum, its helper has filled it or has   *)
(* not even started: never is the string read while it is being written.    *)
JoinWaits ==
  \A n \in Workers : pc[n] = "joined" =>
    \/ helper[n] = "done" /\ leftSide[n] = Crc32(rawData[n])
    \/ helper[n] = "started" /\ leftSide[n] = Empty

(* No send on a closed pipe, which would panic: when out is closed, no      *)
(* worker is left that could write it.  (A late helper may still run.)      *)
OutClosedLast ==
  out.closed => \A n \in Workers : pc[n] \in {"none", "done"}

(* One result per value, made from that value, and the return after all of  *)
(* them.  The left side may be missing.                                     *)
MayGive(d) == {<<l, RightSide(d)>> : l \in {Empty, Crc32(d)}}
Job == INSTANCE Stage WITH
         Values <- Data,
         ResultOf <- MayGive,
         taken <- rawData,
         returned <- mainPc = "returned"

KeepsStage == Job!Spec
=============================================================================
