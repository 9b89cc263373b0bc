SPECIFICATION FairSpec
CONSTANTS
  Domain = {d1}
  Proc = {p1, p2}
  FwRun = {f1}
  MaxRequests = 4
  MaxFaults = 1
  BlindReads = TRUE
INVARIANTS TypeOK ProxyTracksFiles
PROPERTIES NoResurrection ProxyCatchesUp
CHECK_DEADLOCK FALSE
