SPECIFICATION FairSpec
CONSTANTS
  Proc = {p1, p2}
  Mount = {m1}
  MaxRequests = 3
  MaxEdits = 1
  MaxFaults = 1
INVARIANTS TypeOK UnmappedTouchesNothing EveryBootRenders RestartApplies
PROPERTIES EveryCommandEnds
CHECK_DEADLOCK FALSE
