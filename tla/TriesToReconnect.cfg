CONSTANTS
  Ids = {1, 2}
  Classes = {Polyline}
  Polyline = Polyline
  NoClass = NoClass
  MaxPending = 1
SPECIFICATION FairSpec
PROPERTIES TriesToReconnect
CHECK_DEADLOCK FALSE
