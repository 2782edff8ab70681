SPECIFICATION Spec
CONSTANTS
  None = None
  j1 = j1
  m1 = m1
  m2 = m2
  m3 = m3
  c1 = c1
  c2 = c2
  s1 = s1
  s2 = s2
  s3 = s3
  a = a
  b = b
  i1 = i1
  i2 = i2
  i3 = i3
  Job = {j1}
  Status = {"new", "closed"}
  Terminal = {"closed"}
  Initial = "new"
  MessageId = {m1, m2}
  Content = {c1}
  Advancing = {c1}
  Sender = {s1, s2}
  Composable = {s1}
  Mailbox = {a, b}
  Receipt = {i1, i2}
  Invocation = {i1, i2}
  Faults = TRUE
  MaxRevision = 1
  MaxEvent = 1
  MaxAudit <- MCMaxAudit
SYMMETRY Symmetry
INVARIANTS
  UncertainMeansSent
CHECK_DEADLOCK FALSE
