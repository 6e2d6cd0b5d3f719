\* Three inputs on a paper with two objects.  The page that loads first gets the
\* id they were drawn under, so that it can undo one of them at once.
CONSTANTS
  Pages = {p1, p2}
  OldObjects = 2
  MaxInputs = 5
  MaxLoads = 2
SPECIFICATION Spec
INVARIANTS TypeOK ShowsSaved InputHandled UndoChangesPaper
VIEW View
SYMMETRY AllAlike
\* The bounds on inputs and loads end a behaviour.
CHECK_DEADLOCK FALSE
