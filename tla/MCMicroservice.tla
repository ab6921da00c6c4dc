--------------------------- MODULE MCMicroservice ---------------------------
(***************************************************************************)
(* Instances of Microservice for TLC: a logger, a statistics client, a     *)
(* plain call or three and one without consumer.  The rules allow          *)
(* everything that is called, or deny the logger and the plain call.       *)
(***************************************************************************)
EXTENDS Microservice

CONSTANTS l1, s1, c1, c2, c3, a1, user, admin, mLog, mStat, mCheck

MCFourCalls == {l1, s1, c1, a1}
MCNamed == {l1, s1, c1, c2, c3}
MCNoLogger == {s1, c1}
MCAnonymous == {a1} \cap Calls
MCConsumers == {user, admin}
MCMethods == {mLog, mStat, mCheck}

ConsumerOf(c) == IF c \in {l1, s1} THEN admin ELSE user
MethodOf(c) == CASE c = l1 -> mLog [] c = s1 -> mStat [] OTHER -> mCheck
MCConsumer == [c \in Calls |-> ConsumerOf(c)]
MCMethod == [c \in Calls |-> MethodOf(c)]

AllowAll == [k \in MCConsumers |-> IF k = admin THEN <<{mLog}, {mStat}>> ELSE <<{mCheck}>>]
AdminHasStat == [k \in {admin} |-> <<{mCheck}, {mStat}>>]
MCAllowAll == {AllowAll}
MCTwoACLs == {AllowAll, AdminHasStat}

(* The statistics client meets one plain call, or two more come without it, *)
(* in the order of their names and once the logger is in its handler.       *)
(* Calls are never forced to come, so that only arrivals are cut off here.  *)
Came(c) == callPc[c] # "out"
OneSide ==
  /\ Came(s1) => ~Came(c2)
  /\ Came(c2) => Came(c1) /\ callPc[l1] \in {"handler", "done"}
  /\ Came(c3) => Came(c2)
MCFairSpec == Init /\ [][Next /\ OneSide']_vars /\ Fairness
=============================================================================
