---------------------------- MODULE MCWorkforce ----------------------------
(* Instances of Workforce for TLC.                                          *)
EXTENDS Workforce, TLC

\* What the desk sends when it settles a day: both times, and the status derived from them.
Times == {[in |-> TRUE, out |-> TRUE, status |-> "derived"]}
\* The desk may also confirm a leave day.
Confirming == Times \cup {[in |-> FALSE, out |-> FALSE, status |-> "LEAVE"]}

\* Two taps at once, and one more.
Clock == {[day |-> 1, at |-> 0], [day |-> 1, at |-> 1], [day |-> 1, at |-> 3]}

\* What overlaps in the run: a decision on a leave meets whatever else is done by
\* hand, a push meets a web punch, a correction a deletion.
Meetings ==
  {{"decide", k} : k \in {"submit", "punch", "correct", "delete"}} \cup
  {{"push", "punch"}, {"correct", "delete"}}

Symmetry == Permutations(Leaves) \cup Permutations(Requests)
=============================================================================
