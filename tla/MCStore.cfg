SPECIFICATION FairSpec
CONSTANTS
  None = None
  p1 = p1
  p2 = p2
  p3 = p3
  old = old
  new = new
  edited = edited
  v1 = v1
  v2 = v2
  text = text
  retouched = retouched
  Process = {p1, p2, p3}
  Version = {v1, v2}
  Digest = {text, retouched}
  Release = {old, new, edited}
  Files <- ThreeReleases
  Statements <- OneOrTwo
  Startup = 6
  Write = 1
  MaxStarts = 3
  MaxFaults = 1
INVARIANTS
  StoreTypeOK
  StartedIsMigrated
  PatientStart
PROPERTIES
  PromiseKept
  StartSettles
CHECK_DEADLOCK FALSE
