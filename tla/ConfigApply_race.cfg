SPECIFICATION FairSpec
CONSTANTS
  p1 = p1
  p2 = p2
  Proc = {p1, p2}
  Boot = boot
  NoOne = noone
  Version = {1, 2}
  VersionOf <- OldAndNew
  Ships <- OneDropped
  MaxBoots = 2
  MaxReplacements = 1
  MaxFaults = 1
INVARIANTS TypeOK TreeWhole LockedIsCanonical
PROPERTIES AppliesItsOwn PluginsSurvive ApplyEnds
CHECK_DEADLOCK FALSE
