------------------------------ MODULE MCScreen ------------------------------
(* Constant values for checking one tab of the browser application. *)
EXTENDS Screen, TLC

CONSTANTS j1, j2, m1, c1, s1, a, x1, t1, t2

\* Limit on the audit rows of one review: each command once.  The row of a refused draft is
\* left out; nothing a tab shows is read from it.
Once == [e \in AuditEvent |-> IF e = "draft_refused" THEN 0 ELSE 1]

Symmetry == Permutations({j1, j2}) \cup Permutations({t1, t2})
=============================================================================
