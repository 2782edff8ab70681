SPECIFICATION Spec
CONSTANTS
  None = None
  j1 = j1
  j2 = j2
  m1 = m1
  c1 = c1
  s1 = s1
  a = a
  x1 = x1
  t1 = t1
  t2 = t2
  Job = {j1, j2}
  MessageId = {m1}
  Content = {c1}
  Advancing = {c1}
  Sender = {s1}
  Mailbox = {a}
  Receipt = {x1}
  Status = {"new"}
  Terminal = {}
  Initial = "new"
  MaxRevision = 1
  MaxEvent = 3
  MaxAudit <- Once
  Task = {t1, t2}
  MaxClick = 5
  Target = a
  Faults = TRUE
SYMMETRY Symmetry
INVARIANTS
  ScreenTypeOK
  PageFollowsAnswer
  AgainOnlyIfRejected
PROPERTY StatusLandsOnShown
CHECK_DEADLOCK FALSE
