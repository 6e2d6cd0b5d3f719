CONSTANTS
  Sessions = {s1, s2}
  MaxRejoins = 3
SPECIFICATION FairSpec
INVARIANTS TypeOK LockOrder DeadlocksNeedClosed
PROPERTIES FramesFinish
\* closed() does deadlock, and then everything stops.
CHECK_DEADLOCK FALSE
