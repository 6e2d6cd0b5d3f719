\* Every client may disconnect for good, so the queue alone may stop.
CONSTANTS
  Sessions = {s1, s2}
  Slow = {s1}
  Message = {a, b}
  MaxMessages = 3
SPECIFICATION FairSpec
INVARIANTS TypeOK NotStuck
PROPERTIES ImplementsChannel AllSent
CHECK_DEADLOCK FALSE
