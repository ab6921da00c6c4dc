----------------------------- MODULE MCStatBoard -----------------------------
(***************************************************************************)
(* Instances of StatBoard for TLC: two statistics clients of one consumer  *)
(* and a call by another.                                                  *)
(***************************************************************************)
EXTENDS StatBoard

CONSTANTS s1, s2, c1, user, admin, mStat, mCheck

MCStatCalls == {s1, s2}
MCCalls == MCStatCalls \cup {c1}
MCConsumers == {user, admin}
MCMethods == {mStat, mCheck}
MCConsumer == [c \in Calls |-> IF c \in MCStatCalls THEN admin ELSE user]
MCMethod == [c \in Calls |-> IF c \in MCStatCalls THEN mStat ELSE mCheck]
=============================================================================
