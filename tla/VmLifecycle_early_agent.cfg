SPECIFICATION Spec
CONSTANTS
  Proc = {p1, p2}
  Mount = {m1}
  MaxRequests = 4
  MaxEdits = 0
  MaxFaults = 0
SYMMETRY ProcSymmetry
INVARIANTS AgentAfterLock
CHECK_DEADLOCK FALSE
