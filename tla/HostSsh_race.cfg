SPECIFICATION SshSpec
CONSTANTS
  Command = {p1, p2}
  MaxPort = 3
  Requests <- MCRequests
  SshPort = {1, 2}
  MaxCommands = 2
  MaxSignals = 2
  MaxChanges = 3
INVARIANTS NothingOutlives ShownIsHeard
PROPERTIES SignalStops
CHECK_DEADLOCK FALSE
