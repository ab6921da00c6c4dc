----------------------------- MODULE MCEventLog -----------------------------
(***************************************************************************)
(* Instances of EventLog for TLC: two loggers and two plain calls, with    *)
(* channels so small that addEvent does meet a full one.                   *)
(***************************************************************************)
EXTENDS EventLog

CONSTANTS l1, l2, c1, c2

MCLoggers == {l1, l2}
MCCalls == {l1, l2, c1, c2}
=============================================================================
