----------------------------- MODULE Broadcast -----------------------------
(***************************************************************************)
(* What the call log promises to a Logging client, with no mutex, channel  *)
(* or goroutine in sight: there is one log; a subscriber is served, entry  *)
(* by entry, the part of it that was published after it subscribed.        *)
(***************************************************************************)
EXTENDS Naturals, Sequences

CONSTANTS Messages, Subscribers

VARIABLES
  log,         \* the published messages, in order
  subscribed,  \* the subscribers so far; nobody is ever removed
  joined,      \* length of the log when each of them subscribed
  delivered    \* what each of them has been served

bVars == <<log, subscribed, joined, delivered>>

Init ==
  /\ log = <<>>
  /\ subscribed = {}
  /\ joined = [s \in Subscribers |-> 0]
  /\ delivered = [s \in Subscribers |-> <<>>]

(* A message is published once. *)
Publish(m) ==
  /\ \A n \in DOMAIN log : log[n] # m
  /\ log' = Append(log, m)
  /\ UNCHANGED <<subscribed, joined, delivered>>

Subscribe(s) ==
  /\ s \notin subscribed
  /\ subscribed' = subscribed \cup {s}
  /\ joined' = [joined EXCEPT ![s] = Len(log)]
  /\ UNCHANGED <<log, delivered>>

Deliver(s) ==
  LET n == joined[s] + Len(delivered[s]) + 1 IN
    /\ s \in subscribed
    /\ n \in DOMAIN log
    /\ delivered' = [delivered EXCEPT ![s] = Append(@, log[n])]
    /\ UNCHANGED <<log, subscribed, joined>>

Next ==
  \/ \E m \in Messages : Publish(m)
  \/ \E s \in Subscribers : Subscribe(s) \/ Deliver(s)

Spec == Init /\ [][Next]_bVars
=============================================================================
