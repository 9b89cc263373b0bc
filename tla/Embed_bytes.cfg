SPECIFICATION Files
CONSTANTS
  MaxLength = 6
INVARIANTS BootEqualsApply
CHECK_DEADLOCK FALSE
