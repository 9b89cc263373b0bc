SPECIFICATION Spec
CONSTANTS
  Proc = {p1, p2}
  Name <- MCName
  Dir <- MCDir
  Link <- MCLink
  ConfigArg <- MCConfigArg
  MountArg <- MCMountArg
  DefaultRoot <- MCRoot
  Host <- MCHost
  BaseEntry <- MCBase
  Word = 64
  Unit <- MCUnit
  MinSwap = 2
  EditedMounts <- MCEditedMounts
  EditedDomains <- MCEditedDomains
  EditedSizes <- MCEditedSizes
  MaxCommands = 3
  MaxEdits = 1
  MaxFaults = 1
SYMMETRY ProcSymmetry
INVARIANTS TypeOK NothingExposed SizesFit PromisesKept
CHECK_DEADLOCK FALSE
