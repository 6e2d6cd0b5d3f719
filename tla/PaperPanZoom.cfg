\* Two directions that share the zoom and the frames, on a paper that may
\* shrink below the view.
CONSTANTS
  X = X
  Y = Y
  Axes = {X, Y}
  Vertical = Y
  MinUnit = 1
  MaxUnit = 2
  FirstUnit = 2
  Extents = {1, 2}
  Point <- MCPoint
  Flings <- MCFlings
  MaxVelocity = 2
  Intervals = {1}
  NaN = NaN
SPECIFICATION FairSpec
INVARIANTS TypeOK ViewInLimits FrameRequested
PROPERTIES Anchored FlingEnds
