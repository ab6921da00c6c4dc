------------------------------- MODULE MCSigner -------------------------------
(***************************************************************************)
(* Instances of Signer for TLC.  The inputs are numbers, and the final     *)
(* strings are compared by the input they are made from, those without a   *)
(* left side before those with one.                                        *)
(***************************************************************************)
EXTENDS Signer

MCInputs == <<2, 1>>

Hash(part) == part[1][2][2]              \* the value MultiHash was given
Rank(part) == IF part = Empty THEN 0
              ELSE 2 * Hash(part)[2][2][2] + (IF Hash(part)[1] = Empty THEN 0 ELSE 1)
MCPrecedes(a, b) == Rank(a) < Rank(b)
=============================================================================
