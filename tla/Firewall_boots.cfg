SPECIFICATION FairSpec
CONSTANTS
  Run = {f1}
  HasGateway = TRUE
  MaxBoots = 2
  MaxSwitches = 2
  MaxFaults = 1
INVARIANTS TypeOK RulesMeanMode RestartReverts NeverUnfiltered NoHostServices
PROPERTIES BootReachesProfiles
CHECK_DEADLOCK FALSE
