------------------------------- MODULE MCDesk -------------------------------
(* Constant values for checking the record, what is shown of it, and operators at their pages. *)
EXTENDS Desk, Views, TLC

CONSTANTS j1, j2, m1, m2, m3, c1, c2, s1, s2, a, b, x1, p1

\* Limits on the audit rows of one review: an approval that is repeated, and a reservation
\* that is repeated after a release.
TwoAttempts ==
  [e \in AuditEvent |-> IF e \in {"approved", "draft_intent"} THEN 2 ELSE 1]

Symmetry == Permutations({m1, m2, m3}) \cup Permutations({s1, s2})
=============================================================================
