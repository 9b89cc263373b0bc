SPECIFICATION Spec
CONSTANTS
  team = team
  fish = fish
  token = token
  Proc = {p1, p2}
  Name = {team, fish}
  Key = {token}
  Edition <- MCEdition
  Actives <- MCActives
  MaxCommands = 2
  MaxEdits = 1
  MaxFaults = 1
SYMMETRY ProcSymmetry
INVARIANTS RenderedComplete NoBrokenBundle
CHECK_DEADLOCK FALSE
