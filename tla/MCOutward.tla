----------------------------- MODULE MCOutward ------------------------------
(* Constant values for checking the outward commands. *)
EXTENDS Outward, TLC

CONSTANTS j1, m1, m2, m3, c1, c2, s1, s2, s3, a, b, i1, i2, i3

\* Limits on the rows of decisions; invocations run once and need no limit of their own.
Decisions(approved, rejected) ==
  [e \in AuditEvent |-> CASE e = "approved" -> approved
                          [] e = "rejected" -> rejected
                          [] OTHER -> Cardinality(Invocation)]

MCMaxAudit == Decisions(2, 0)

Symmetry ==
  Permutations(Invocation) \cup Permutations(MessageId) \cup Permutations(Composable)
=============================================================================
