SPECIFICATION FairSpec
CONSTANTS
  Proc = {p1, p2, p3}
  MaxRequests = 3
  MaxCrashes = 1
  MaxRotations = 1
INVARIANTS TypeOK NoFalseAlarm GuestTrustsHostKey
PROPERTIES EveryoneEnds ImplementsTrust
CHECK_DEADLOCK FALSE
