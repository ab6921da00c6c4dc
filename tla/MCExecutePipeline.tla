-------------------------- MODULE MCExecutePipeline --------------------------
(***************************************************************************)
(* An instance of ExecutePipeline for TLC: all numbers of inputs and all   *)
(* ways for the jobs to return early, with pipes that do fill up.          *)
(***************************************************************************)
EXTENDS ExecutePipeline
=============================================================================
