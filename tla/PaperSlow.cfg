\* One client with backpressure, every kind of input, errors, a corrupt
\* file; it may disconnect at any time.
CONSTANTS
  Sessions = {s1}
  Slow = {s1}
  Leavers = {s1}
  MaxClientId = 1
  InitialPapers <- EmptyOrCorrupt
  Kinds = {"Stored", "Transient", "Cursor"}
  MaxEvents = 1
  MaxErrors = 1
SPECIFICATION FairSpec
INVARIANTS TypeOK StreamContinues
PROPERTIES EventuallySaved EventuallyDrawn
\* The process may die of a null pointer, and nothing follows that.
CHECK_DEADLOCK FALSE
