SPECIFICATION Spec
CONSTANTS
  Domain = {d1}
  Proc = {p1}
  FwRun = {f1}
  MaxRequests = 6
  MaxFaults = 1
  BlindReads = FALSE
INVARIANTS RevokedOnNextInvocation
CHECK_DEADLOCK FALSE
