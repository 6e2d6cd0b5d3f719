\* Two clients, three papers one after the other, four draws in a file whose
\* length has two bits.
CONSTANTS
  Clients = {c1, c2}
  MaxPapers = 3
  MaxDraws = 4
  Width = 4
  NoPaper = NoPaper
  Torn = Torn
SPECIFICATION Spec
INVARIANTS TypeOK StoredInOrder SyncedReadable
PROPERTIES SyncedWithAll
