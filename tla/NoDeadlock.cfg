CONSTANTS
  Sessions = {s1}
  MaxRejoins = 1
SPECIFICATION Spec
INVARIANTS NoDeadlock
CHECK_DEADLOCK FALSE
