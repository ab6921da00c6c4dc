-------------------------------- MODULE Stage --------------------------------
(***************************************************************************)
(* What hw2.md asks of a job in the middle of the pipeline: every value    *)
(* that comes in gives exactly one result, in any order, passed on without *)
(* waiting for the others, and the job returns after the last one.         *)
(***************************************************************************)
EXTENDS Naturals, Sequences

CONSTANTS
  Values,      \* what may come in
  ResultOf(_)  \* the results the job may give for a value

VARIABLES
  taken,     \* the values that came in
  results,   \* the results so far, each with the number of its value
  returned

sVars == <<taken, results, returned>>

Init ==
  /\ taken = <<>>
  /\ results = <<>>
  /\ returned = FALSE

Given(n) == \E i \in DOMAIN results : results[i].by = n

Take(v) ==
  /\ ~returned
  /\ taken' = Append(taken, v)
  /\ UNCHANGED <<results, returned>>

Give(n) ==
  /\ ~returned
  /\ ~Given(n)
  /\ \E r \in ResultOf(taken[n]) : results' = Append(results, [by |-> n, value |-> r])
  /\ UNCHANGED <<taken, returned>>

Return ==
  /\ \A n \in DOMAIN taken : Given(n)
  /\ returned' = TRUE
  /\ UNCHANGED <<taken, results>>

Next ==
  \/ \E v \in Values : Take(v)
  \/ \E n \in DOMAIN taken : Give(n)
  \/ Return

Spec == Init /\ [][Next]_sVars
=============================================================================
