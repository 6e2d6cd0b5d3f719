\* Two clients join, draw and move their cursors while the other syncs and
\* the io thread stores.  Nobody leaves.
CONSTANTS
  Sessions = {s1, s2}
  Slow = {}
  Leavers = {}
  MaxClientId = 2
  InitialPapers <- BlockOrCorrupt
  Kinds = {"Stored", "Cursor"}
  MaxEvents = 3
  MaxErrors = 0
SPECIFICATION Spec
INVARIANTS NoMissedDraw OnlyRepeatsOutOfOrder NoStreamAfterFrame StoredOnceInOrder LastCursorSent
VIEW View
SYMMETRY Clients
