-------------------------------- MODULE Pipe --------------------------------
(***************************************************************************)
(* A Go channel between two jobs of the pipeline (chapter1/hw2): a queue   *)
(* of bounded length that is closed once.  Receiving from a closed channel *)
(* works until the queue is empty; sending on one panics.                  *)
(***************************************************************************)
EXTENDS Naturals, Sequences

CONSTANT PipeCap  \* length of the queue; 100 in ExecutePipeline

ASSUME PipeAssumption == PipeCap \in Nat \ {0}

PipeOf(Values) == [queue : Seq(Values), closed : BOOLEAN]

NewPipe == [queue |-> <<>>, closed |-> FALSE]

HasRoom(p) == ~p.closed /\ Len(p.queue) < PipeCap
Put(p, v) == [p EXCEPT !.queue = Append(@, v)]

HasNext(p) == p.queue # <<>>
First(p) == Head(p.queue)
Rest(p) == [p EXCEPT !.queue = Tail(@)]

(* A range loop over the channel ends. *)
Exhausted(p) == p.closed /\ p.queue = <<>>

Close(p) == [p EXCEPT !.closed = TRUE]
=============================================================================
