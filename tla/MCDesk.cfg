SPECIFICATION Spec
CONSTANTS
  None = None
  j1 = j1
  j2 = j2
  m1 = m1
  m2 = m2
  m3 = m3
  c1 = c1
  c2 = c2
  s1 = s1
  s2 = s2
  a = a
  b = b
  x1 = x1
  p1 = p1
  Job = {j1}
  MessageId = {m1, m2}
  Content = {c1, c2}
  Advancing = {c1}
  Sender = {s1, s2}
  Mailbox = {a, b}
  Receipt = {x1}
  Status = {"new", "closed"}
  Terminal = {"closed"}
  Initial = "new"
  MaxRevision = 2
  MaxEvent = 3
  MaxAudit <- TwoAttempts
  Page = {p1}
  Target = a
SYMMETRY Symmetry
INVARIANTS
  LedgerTypeOK
  AttemptIsApproved
  AttemptAudited
  QueueIsHonest
  AddressesAreBound
  DeskTypeOK
  ApprovalWasShown
  ReservationWasShown
PROPERTIES
  ReceiptFinal
  StatusFollowsPage
CHECK_DEADLOCK FALSE
