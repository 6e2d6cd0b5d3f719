CONSTANTS
  Sessions = {s1}
  Slow = {}
  Leavers = {}
  MaxClientId = 1
  InitialPapers <- Empty
  Kinds = {"Stored"}
  MaxEvents = 1
  MaxErrors = 0
SPECIFICATION FairSpec
PROPERTIES RequestsServed
