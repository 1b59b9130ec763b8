----------------------------- MODULE MCPayments -----------------------------
(* Instances of Payments for TLC.                                           *)
EXTENDS Payments, TLC

\* Sessions, request slots and refund keys are interchangeable (no liveness
\* property is checked under symmetry).
Symmetry == Permutations(Sessions) \cup Permutations(Reqs) \cup Permutations(Keys)
=============================================================================
