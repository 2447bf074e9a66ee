------------------------------- MODULE MCPoller -------------------------------
(* An instance of Poller for TLC: one queue with two messages. *)
EXTENDS Poller

CONSTANTS p1, m1, m2

OnePoller == {p1}
TwoMessages == {m1, m2}
OneQueue == [m \in TwoMessages |-> p1]
=============================================================================
