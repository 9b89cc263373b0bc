SPECIFICATION Spec
CONSTANTS
  fish = fish
  team = team
  rc = rc
  md = md
  Proc = {p1, p2}
  Boot = boot
  Name = {fish, team}
  Rel = {rc, md}
  Plans <- AllPlans
  MaxCommands = 3
  MaxRacing = 2
  MaxEdits = 1
  MaxFaults = 1
SYMMETRY ProcSymmetry
INVARIANTS TypeOK HomeIsPlan StaleIsInert HooksFailWhereTheyMay
CHECK_DEADLOCK FALSE
