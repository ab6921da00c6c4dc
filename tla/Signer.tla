-------------------------------- MODULE Signer --------------------------------
(***************************************************************************)
(* The whole signer (chapter1/hw2): ExecutePipeline with the five jobs of  *)
(* TestSigner.  The first job sends the inputs, the last one reads a       *)
(* single result; SingleHash, MultiHash and CombineResults in between are  *)
(* the modules of these names.                                             *)
(***************************************************************************)
EXTENDS Pipe, DataSigner, FiniteSets

CONSTANTS
  Inputs,              \* inputData of the test, a sequence
  ThLimit,             \* MultiHash: helpers per value
  MD5CalculatorLimit,  \* SingleHash: capacity of quotaCh
  Precedes(_, _)       \* lexicographic order of the final strings

VARIABLES
  raw, hashed, multi, combined,     \* pipes[1] .. pipes[4]
  jobPc,                            \* control of each job's goroutine
  wg, mainPc,                       \* the caller of ExecutePipeline
  sourceSent,                       \* inputs the first job has sent
  testResult,                       \* what the last job has read
  \* SingleHash
  shPc, shData, shWG, quotaCh, overheat, workerPc, helper, waitCh, leftSide, shResults,
  \* MultiHash
  mhPc, mhData, mhWG, mhWorkerPc, innerWG, sums, mhResults,
  \* CombineResults
  crPc, parts, blanks, received

ASSUME SignerAssumption ==
  /\ Inputs \in Seq(Nat)
  /\ ThLimit \in Nat \ {0}
  /\ MD5CalculatorLimit = 1

Data == {Inputs[i] : i \in DOMAIN Inputs}
MaxValues == Len(Inputs)
Jobs == {"source", "SingleHash", "MultiHash", "CombineResults", "sink"}

SH == INSTANCE SingleHash WITH
        in <- raw, out <- hashed, mainPc <- shPc, rawData <- shData, outerWG <- shWG,
        pc <- workerPc, results <- shResults

MH == INSTANCE MultiHash WITH
        Data <- SH!Hashes, in <- hashed, out <- multi, mainPc <- mhPc,
        rawData <- mhData, outerWG <- mhWG, pc <- mhWorkerPc, results <- mhResults

CR == INSTANCE CombineResults WITH
        Strings <- [MH!Th -> MH!Sums], in <- multi, out <- combined, mainPc <- crPc

(* The order is a strict total one on the strings that can be a part.       *)
PossibleParts == {Empty} \cup {MH!MultiHashOf(h) : h \in UNION {SH!MayGive(d) : d \in Data}}

ASSUME OrderAssumption ==
  /\ \A a \in PossibleParts : ~Precedes(a, a)
  /\ \A a, b \in PossibleParts : Precedes(a, b) \/ Precedes(b, a) \/ a = b
  /\ \A a, b, c \in PossibleParts : Precedes(a, b) /\ Precedes(b, c) => Precedes(a, c)

pipeVars == <<raw, hashed, multi, combined>>
runVars == <<jobPc, wg, mainPc>>
endVars == <<sourceSent, testResult>>
shVars == <<shPc, shData, shWG, quotaCh, overheat, workerPc, helper, waitCh, leftSide, shResults>>
mhVars == <<mhPc, mhData, mhWG, mhWorkerPc, innerWG, sums, mhResults>>
crVars == <<crPc, parts, blanks, received>>
vars == <<pipeVars, runVars, endVars, shVars, mhVars, crVars>>

(* ExecutePipeline has made the pipes and counted the goroutines; each of   *)
(* them starts when it is scheduled.                                        *)
Init ==
  /\ raw = NewPipe /\ hashed = NewPipe /\ multi = NewPipe /\ combined = NewPipe
  /\ jobPc = [j \in Jobs |-> "launched"]
  /\ wg = 5
  /\ mainPc = "waiting"
  /\ sourceSent = 0
  /\ testResult = <<>>
  /\ SH!Init /\ MH!Init /\ CR!Init

-----------------------------------------------------------------------------
Start(j) ==
  /\ jobPc[j] = "launched"
  /\ jobPc' = [jobPc EXCEPT ![j] = "running"]
  /\ UNCHANGED <<pipeVars, wg, mainPc, endVars, shVars, mhVars, crVars>>

(* for _, fibNum := range inputData { out <- fibNum }                       *)
SourceSend ==
  /\ jobPc["source"] = "running"
  /\ sourceSent < Len(Inputs)
  /\ HasRoom(raw)
  /\ raw' = Put(raw, Inputs[sourceSent + 1])
  /\ sourceSent' = sourceSent + 1
  /\ UNCHANGED <<hashed, multi, combined, runVars, testResult, shVars, mhVars, crVars>>

(* A helper of SingleHash may outlive its job.                              *)
RunSingleHash ==
  /\ jobPc["SingleHash"] # "launched"
  /\ SH!Step
  /\ UNCHANGED <<multi, combined, runVars, endVars, mhVars, crVars>>

RunMultiHash ==
  /\ jobPc["MultiHash"] = "running"
  /\ MH!Step
  /\ UNCHANGED <<raw, combined, runVars, endVars, shVars, crVars>>

RunCombineResults ==
  /\ jobPc["CombineResults"] = "running"
  /\ CR!Step
  /\ UNCHANGED <<raw, hashed, runVars, endVars, shVars, mhVars>>

(* dataRaw := <-in, also from a closed pipe.                                *)
SinkReceive ==
  /\ jobPc["sink"] = "running"
  /\ testResult = <<>>
  /\ HasNext(combined)
  /\ testResult' = <<First(combined)>>
  /\ combined' = Rest(combined)
  /\ UNCHANGED <<raw, hashed, multi, runVars, sourceSent, shVars, mhVars, crVars>>

(* Mutant: a job that has read its input to the end counts as finished. *)
FinishedReading(j) ==
  CASE j = "source" -> sourceSent = Len(Inputs)
    [] j = "SingleHash" -> shPc # "ranging"
    [] j = "MultiHash" -> mhPc # "ranging"
    [] j = "CombineResults" -> crPc \in {"sending", "returned"}
    [] j = "sink" -> testResult # <<>> \/ Exhausted(combined)

Finished(j) ==
  CASE j = "source" -> sourceSent = Len(Inputs)
    [] j = "SingleHash" -> shPc = "returned"
    [] j = "MultiHash" -> mhPc = "returned"
    [] j = "CombineResults" -> crPc = "returned"
    [] j = "sink" -> testResult # <<>> \/ Exhausted(combined)

Return(j) ==
  /\ jobPc[j] = "running"
  /\ Finished(j)
  /\ jobPc' = [jobPc EXCEPT ![j] = "returned"]
  /\ UNCHANGED <<pipeVars, wg, mainPc, endVars, shVars, mhVars, crVars>>

(* close(pipes[currJobIdx+1]) and the deferred wg.Done; the last pipe is    *)
(* read by nobody.                                                          *)
CloseNext(j) ==
  /\ jobPc[j] = "returned"
  /\ jobPc' = [jobPc EXCEPT ![j] = "done"]
  /\ wg' = wg - 1
  /\ raw' = IF j = "source" THEN Close(raw) ELSE raw
  /\ hashed' = IF j = "SingleHash" THEN Close(hashed) ELSE hashed
  /\ multi' = IF j = "MultiHash" THEN Close(multi) ELSE multi
  /\ combined' = IF j = "CombineResults" THEN Close(combined) ELSE combined
  /\ UNCHANGED <<mainPc, endVars, shVars, mhVars, crVars>>

Wait ==
  /\ mainPc = "waiting"
  /\ wg = 0
  /\ mainPc' = "returned"
  /\ UNCHANGED <<pipeVars, jobPc, wg, endVars, shVars, mhVars, crVars>>

Running ==
  \/ RunSingleHash \/ RunMultiHash \/ RunCombineResults \/ SinkReceive
  \/ \E j \in Jobs : Start(j) \/ Return(j) \/ CloseNext(j)
  \/ Wait

Next == SourceSend \/ Running

Spec == Init /\ [][Next]_vars

(* The process does not stop while a goroutine can run, but the first job   *)
(* may be idle for ever before an input.  Every step brings some goroutine  *)
(* forward, so that nothing stronger is needed.                             *)
FairSpec == Spec /\ WF_vars(Running)

-----------------------------------------------------------------------------
(* The pipes between the jobs give each of them the surroundings that its   *)
(* own module assumes, and each behaves as that module says; SingleHash and *)
(* MultiHash are stages: one result per value, from that value, and the     *)
(* return after the last one.                                               *)
KeepsJobs ==
  /\ SH!Spec /\ MH!Spec /\ CR!Spec
  /\ SH!KeepsStage /\ MH!KeepsStage

(* See SingleHash: MD5 runs alone, and the left side is not read while it   *)
(* is being written.                                                        *)
NeverOverheats == SH!NeverOverheats
JoinWaits == SH!JoinWaits

(* No send on a closed pipe, which would panic.                             *)
NoPanic == SH!OutClosedLast /\ MH!OutClosedLast

(* Two things alone can spoil the result: a helper of SingleHash that has   *)
(* not started when its worker needs it, and results that are queued before *)
(* CombineResults starts.                                                   *)
InTime ==
  /\ blanks = 0
  /\ \A i \in DOMAIN shResults : shResults[i].value[1] # Empty

Expected ==
  CR!Sorted([i \in DOMAIN Inputs |-> MH!MultiHashOf(SH!SingleHashOf(Inputs[i]))])

(* The left side of a hashed value may be missing; its right side tells     *)
(* which input it was made from.                                            *)
MadeFrom(part, d) == \E h \in SH!MayGive(d) : part = MH!MultiHashOf(h)

(* One part per input, made from that input, behind the blanks: nothing is  *)
(* lost, doubled or mixed up on the way.                                    *)
OnePartPerInput(combinedParts) ==
  /\ Len(combinedParts) = blanks + Len(Inputs)
  /\ \A d \in Data :
       Cardinality({i \in DOMAIN combinedParts : MadeFrom(combinedParts[i], d)})
         = Cardinality({i \in DOMAIN Inputs : Inputs[i] = d})

(* In every interleaving of all goroutines the result has one part per      *)
(* input; and without those two things it is the one that TestSigner        *)
(* expects, as hw2.md defines it.                                           *)
ResultExact ==
  testResult # <<>> =>
    /\ OnePartPerInput(testResult[1])
    /\ InTime => testResult = <<Expected>>

(* Once the inputs are sent, ExecutePipeline returns with every job done    *)
(* and the last one in possession of a result; and the helpers of           *)
(* SingleHash, which nothing waits for, all end.                            *)
PipelineReturns ==
  sourceSent = MaxValues ~>
    /\ mainPc = "returned"
    /\ testResult # <<>>
    /\ \A j \in Jobs : jobPc[j] = "done"
    /\ \A n \in 1 .. MaxValues : helper[n] = "done"
=============================================================================
