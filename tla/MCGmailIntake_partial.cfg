SPECIFICATION Spec
CONSTANTS
  None = None
  j1 = j1
  j2 = j2
  m1 = m1
  m2 = m2
  m3 = m3
  c1 = c1
  c2 = c2
  s1 = s1
  s2 = s2
  r1 = r1
  r2 = r2
  Job = {j1, j2}
  MessageId = {m1, m2, m3}
  Content = {c1, c2}
  Advancing = {c1}
  Sender = {s1, s2}
  Mailbox = {}
  Receipt = {}
  Status = {"new", "closed"}
  Terminal = {"closed"}
  Initial = "new"
  MaxRevision = 4
  MaxEvent = 2
  MaxAudit <- NoRows
  Run = {r1}
  Mail = {m1, m2, m3}
  Carries <- Letters
  Flaw <- Flawed
  Local <- NoFiles
  Limit = 2
  PageSize = 1
  MaxPages = 3
INVARIANT
  FailureStoresNothing
CHECK_DEADLOCK FALSE
