--------------------------- MODULE MCGmailIntake ----------------------------
(* Constant values for checking imports of a mailbox. *)
EXTENDS GmailIntake

CONSTANTS j1, j2, m1, m2, m3, c1, c2, s1, s2, r1, r2

Says(first, second, sender) == [jobs |-> (j1 :> first) @@ (j2 :> second), sender |-> sender]

\* A digest of two jobs, a later word on one of them, and a message that will not parse.
Letters ==
  (m1 :> Says(c1, c1, s1)) @@ (m2 :> Says(c2, None, s2)) @@ (m3 :> Says(None, c2, s1))

Flawed == (m1 :> "none") @@ (m2 :> "none") @@ (m3 :> "unterminated")
Garbled == (m1 :> "none") @@ (m2 :> "none") @@ (m3 :> "undecodable")

\* A file that claims the id of a message of the mailbox, and says something else.
Filed == {<<m1, Says(None, c2, s1)>>}

NoFiles == {}

NoRows == [e \in AuditEvent |-> 0]
=============================================================================
