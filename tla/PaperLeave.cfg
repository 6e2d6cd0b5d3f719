\* Clients that come and go with a single client id to share.
CONSTANTS
  Sessions = {s1, s2}
  Slow = {}
  Leavers = {s1, s2}
  MaxClientId = 1
  InitialPapers <- Empty
  Kinds = {"Stored"}
  MaxEvents = 1
  MaxErrors = 0
SPECIFICATION Spec
INVARIANTS NoMissedDraw StreamContinues UniqueIds
VIEW View
SYMMETRY Clients
\* The process may die of a null pointer, and nothing follows that.
CHECK_DEADLOCK FALSE
