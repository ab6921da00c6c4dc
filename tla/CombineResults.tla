---------------------------- MODULE CombineResults ----------------------------
(***************************************************************************)
(* The job CombineResults (chapter1/hw2/signer.go): it collects all that   *)
(* comes in, sorts it and sends one string, the parts joined by "_".  The  *)
(* joined string is the sequence of its parts.  The slice it collects into *)
(* starts with as many empty strings as the pipe holds at that moment.     *)
(***************************************************************************)
EXTENDS Pipe, DataSigner, Functions

CONSTANTS
  Strings,        \* the strings that may come in
  Precedes(_, _), \* their lexicographic order; Empty comes first
  MaxValues       \* how many of them come in at most

VARIABLES
  in,        \* the pipe the job ranges over
  out,       \* the pipe it writes
  mainPc,    \* its goroutine
  parts,     \* the slice "results"
  blanks,    \* history: len(in) at the start
  received   \* history: what came in

ownVars == <<mainPc, parts, blanks, received>>
vars == <<in, out, ownVars>>

Parts == Seq(Strings \cup {Empty})

TypeOK ==
  /\ in \in PipeOf(Strings)
  /\ out \in PipeOf(Parts)
  /\ mainPc \in {"new", "ranging", "sending", "returned"}
  /\ parts \in Parts
  /\ blanks \in 0 .. PipeCap
  /\ received \in Seq(Strings)

Init ==
  /\ mainPc = "new"
  /\ parts = <<>>
  /\ blanks = 0
  /\ received = <<>>

(* sort.Strings: the one arrangement of s in which no part comes before a   *)
(* smaller one.                                                             *)
Arrangements(s) == {[i \in DOMAIN s |-> s[p[i]]] : p \in Bijection(DOMAIN s, DOMAIN s)}
Ascending(s) == \A i, j \in DOMAIN s : i < j => Precedes(s[i], s[j]) \/ s[i] = s[j]
Sorted(s) == CHOOSE t \in Arrangements(s) : Ascending(t)

(* make([]string, len(in)) *)
Start ==
  /\ mainPc = "new"
  /\ parts' = [i \in 1 .. Len(in.queue) |-> Empty]
  /\ blanks' = Len(in.queue)
  /\ mainPc' = "ranging"
  /\ UNCHANGED <<in, out, received>>

Take ==
  /\ mainPc = "ranging"
  /\ HasNext(in)
  /\ in' = Rest(in)
  /\ parts' = Append(parts, First(in))
  /\ received' = Append(received, First(in))
  /\ UNCHANGED <<out, mainPc, blanks>>

(* Mutant: the parts are not sorted. *)
RangeEndsUnsorted ==
  /\ mainPc = "ranging"
  /\ Exhausted(in)
  /\ mainPc' = "sending"
  /\ UNCHANGED <<in, out, parts, blanks, received>>

(* The range loop ends: sort.Strings, and the parts are joined.             *)
RangeEnds ==
  /\ mainPc = "ranging"
  /\ Exhausted(in)
  /\ parts' = Sorted(parts)
  /\ mainPc' = "sending"
  /\ UNCHANGED <<in, out, blanks, received>>

SendResult ==
  /\ mainPc = "sending"
  /\ HasRoom(out)
  /\ out' = Put(out, parts)
  /\ mainPc' = "returned"
  /\ UNCHANGED <<in, parts, blanks, received>>

Step == Start \/ Take \/ RangeEnds \/ SendResult

-----------------------------------------------------------------------------
(* The job before, which writes in and closes it.                           *)

Feed ==
  /\ HasRoom(in)
  /\ Len(received) + Len(in.queue) < MaxValues
  /\ \E s \in Strings : in' = Put(in, s)
  /\ UNCHANGED <<out, ownVars>>

FeedEnds ==
  /\ ~in.closed
  /\ in' = Close(in)
  /\ UNCHANGED <<out, ownVars>>

(* The job after it, and ExecutePipeline.                                   *)
Drain ==
  /\ HasNext(out)
  /\ out' = Rest(out)
  /\ UNCHANGED <<in, ownVars>>

CloseOut ==
  /\ mainPc = "returned"
  /\ ~out.closed
  /\ out' = Close(out)
  /\ UNCHANGED <<in, ownVars>>

Next == Step \/ Feed \/ FeedEnds \/ Drain \/ CloseOut

Spec == in = NewPipe /\ out = NewPipe /\ Init /\ [][Next]_vars
=============================================================================
