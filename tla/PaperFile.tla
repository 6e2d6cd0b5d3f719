------------------------------- MODULE PaperFile -------------------------------
(***************************************************************************)
(* The file of one paper, and the SharedSessionPapers that come and go     *)
(* with its clients: each has the file open through a buffer of its own.   *)
(*                                                                         *)
(* A block is a length and then the data.  Both go to the buffer, which    *)
(* seekp() and seekg() write out: a small block stays in it until the next *)
(* seek or the end of its paper, a large one is written with its length at *)
(* once.  So the file gets whole blocks, and a process that is killed      *)
(* loses what is in the buffers.  Only a loss of power can leave part of a *)
(* block: of what was written since the machine started, it leaves so much *)
(* as it likes.                                                            *)
(*                                                                         *)
(* PaperServer has the threads and the messages of a paper.  Here the io   *)
(* thread streams or stores in one step, and lengths count blocks, modulo  *)
(* their width.                                                            *)
(***************************************************************************)
EXTENDS Naturals, SequencesExt

CONSTANTS
  Clients,
  MaxPapers,   \* bound on the papers opened in a behaviour
  MaxDraws,    \* bound on the draws
  Width,       \* offsets and lengths are numbers below this
  NoPaper,
  Torn         \* part of a block

ASSUME BoundsAssumption == MaxPapers \in Nat /\ MaxDraws \in Nat
ASSUME WidthAssumption == Width \in Nat \ {0}
ASSUME NoPaperAssumption == NoPaper \notin 1..MaxPapers
ASSUME TornAssumption == Torn \notin Seq(1..MaxDraws)

Papers == 1..MaxPapers
Draw == 1..MaxDraws

Block == Seq(Draw)

VARIABLES
  file,
  durable,      \* how much of it a loss of power cannot take any more
  draws,        \* how many there were
  opened,       \* how many papers
  current,      \* what shared_sessions has: a weak pointer
  storage,      \* the draws in each paper's storage builder
  buffer,       \* of each paper's stream
  failed,       \* the stream of the paper has failed: it throws at every seekg()
  closing,      \* papers whose last reference is gone, not closed yet
  snapshot,     \* the paper in store_shared_sessions
  dropped,      \* the paper that the io thread closes, when the list had it last
  io,           \* what the io thread does: "Stream", "Clear" or "List"
  shared_session, streaming, streaming_offset,
  received,     \* the draws of the blocks sent to a client
  synced,       \* the client got StreamSynced
  overlapped,   \* history: a paper was opened before the last was closed
  wrapped       \* history: the file became longer than its length can tell

ioVars == <<snapshot, dropped, io>>
clientVars == <<shared_session, streaming, streaming_offset, received, synced>>
vars == <<file, durable, draws, opened, current, storage, buffer, failed, closing,
          ioVars, clientVars, overlapped, wrapped>>

Init ==
  /\ file = <<>>
  /\ durable = 0
  /\ draws = 0
  /\ opened = 0
  /\ current = NoPaper
  /\ storage = [p \in Papers |-> <<>>]
  /\ buffer = [p \in Papers |-> <<>>]
  /\ failed = [p \in Papers |-> FALSE]
  /\ closing = {}
  /\ snapshot = NoPaper
  /\ dropped = NoPaper
  /\ io = "Stream"
  /\ shared_session = [c \in Clients |-> NoPaper]
  /\ streaming = [c \in Clients |-> FALSE]
  /\ streaming_offset = [c \in Clients |-> 0]
  /\ received = [c \in Clients |-> <<>>]
  /\ synced = [c \in Clients |-> FALSE]
  /\ overlapped = FALSE
  /\ wrapped = FALSE

----------------------------------------------------------------------------
\* use_count is not zero.
Alive(p) == p # NoPaper /\ (snapshot = p \/ \E c \in Clients : shared_session[c] = p)

\* The constructor.
Create(p) ==
  /\ opened' = p
  /\ current' = p
  /\ overlapped' = (overlapped \/ closing # {})

Joined(c, p) ==
  /\ shared_session' = [shared_session EXCEPT ![c] = p]
  /\ streaming' = [streaming EXCEPT ![c] = TRUE]
  /\ streaming_offset' = [streaming_offset EXCEPT ![c] = 0]
  /\ received' = [received EXCEPT ![c] = <<>>]
  /\ UNCHANGED <<file, durable, draws, storage, buffer, failed, closing, ioVars, synced,
                 wrapped>>

\* The Join command: SharedSession::get(), and the join that starts a stream.
Get(c) ==
  /\ shared_session[c] = NoPaper
  /\ \/ /\ Alive(current)
        /\ Joined(c, current)
        /\ UNCHANGED <<opened, current, overlapped>>
     \/ /\ ~Alive(current)
        /\ opened < MaxPapers
        /\ Create(opened + 1)
        /\ Joined(c, opened + 1)

\* addDraw() of something to store.  The server takes it at any time.
AddDraw(c) ==
  /\ shared_session[c] # NoPaper
  /\ draws < MaxDraws
  /\ draws' = draws + 1
  /\ storage' = [storage EXCEPT ![shared_session[c]] = Append(@, draws + 1)]
  /\ UNCHANGED <<file, durable, opened, current, buffer, failed, closing, ioVars,
                 clientVars, overlapped, wrapped>>

\* closed().  The last client may take the paper with it, and what is in the
\* storage builder then.
Leave(c) ==
  LET p == shared_session[c] IN
    /\ p # NoPaper
    /\ shared_session' = [shared_session EXCEPT ![c] = NoPaper]
    /\ streaming' = [streaming EXCEPT ![c] = FALSE]
    /\ synced' = [synced EXCEPT ![c] = FALSE]
    /\ closing' = IF snapshot # p /\ \A d \in Clients \ {c} : shared_session[d] # p
                  THEN closing \union {p} ELSE closing
    /\ UNCHANGED <<file, durable, draws, opened, current, storage, buffer, failed, ioVars,
                   streaming_offset, received, overlapped, wrapped>>

----------------------------------------------------------------------------
Written(pieces) ==
  /\ file' = file \o pieces
  /\ wrapped' = (wrapped \/ Len(file') >= Width)

\* The destructor of the paper closes its stream.
Close(p) ==
  /\ p \in closing
  /\ closing' = closing \ {p}
  /\ Written(buffer[p])
  /\ buffer' = [buffer EXCEPT ![p] = <<>>]
  /\ UNCHANGED <<durable, draws, opened, current, storage, failed, ioVars, clientVars,
                 overlapped>>

\* Mutant: leaves the block in the builder.
StoreAgain(p) ==
  /\ ~failed[p]
  /\ UNCHANGED storage
  /\ \/ Written(buffer[p]) /\ buffer' = [buffer EXCEPT ![p] = <<storage[p]>>]
     \/ Written(Append(buffer[p], storage[p])) /\ buffer' = [buffer EXCEPT ![p] = <<>>]

\* Mutant: without seekp().
StoreUnsought(p) ==
  /\ ~failed[p]
  /\ storage' = [storage EXCEPT ![p] = <<>>]
  /\ \/ buffer' = [buffer EXCEPT ![p] = Append(@, storage[p])] /\ UNCHANGED <<file, wrapped>>
     \/ Written(Append(buffer[p], storage[p])) /\ buffer' = [buffer EXCEPT ![p] = <<>>]

(***************************************************************************)
(* The end of store(), with something to store.  seekp() writes out what   *)
(* is in the buffer; a large block is written at once.                     *)
(***************************************************************************)
Store(p) ==
  /\ ~failed[p]
  /\ storage' = [storage EXCEPT ![p] = <<>>]
  /\ \/ Written(buffer[p]) /\ buffer' = [buffer EXCEPT ![p] = <<storage[p]>>]
     \/ Written(Append(buffer[p], storage[p])) /\ buffer' = [buffer EXCEPT ![p] = <<>>]

\* On a stream that has failed write() does nothing, or throws: libraries
\* differ.  Nothing catches what store_all() throws, which Killed stands for.
StoreFails(p) ==
  /\ failed[p]
  /\ storage' = [storage EXCEPT ![p] = <<>>]
  /\ UNCHANGED <<file, buffer, wrapped>>

----------------------------------------------------------------------------
\* Mutant: the buffer is not written out before the length is looked at.
SeekEndUnflushed(p) == UNCHANGED <<file, buffer, wrapped>>

\* seekg() to the end, which writes the buffer out.
SeekEnd(p) == Written(buffer[p]) /\ buffer' = [buffer EXCEPT ![p] = <<>>]

Length == Len(file') % Width

\* What stream() leaves alone.
Streaming(c) ==
  /\ io = "Stream"
  /\ streaming[c]
  /\ UNCHANGED <<durable, draws, opened, current, closing, ioVars, shared_session, overlapped>>

\* stream() sends the next block.
StreamBlock(c) ==
  LET p == shared_session[c]
      offset == streaming_offset[c]
  IN /\ Streaming(c)
     /\ ~failed[p]
     /\ SeekEnd(p)
     /\ offset < Length
     /\ file'[offset + 1] # Torn
     /\ received' = [received EXCEPT ![c] = @ \o file'[offset + 1]]
     /\ streaming_offset' = [streaming_offset EXCEPT ![c] = (offset + 1) % Width]
     /\ UNCHANGED <<storage, failed, streaming, synced>>

\* Mutant: takes what is torn for the end.
StreamPastTorn(c) ==
  LET p == shared_session[c]
      offset == streaming_offset[c]
  IN /\ Streaming(c)
     /\ ~failed[p]
     /\ SeekEnd(p)
     /\ offset < Length
     /\ file'[offset + 1] = Torn
     /\ streaming' = [streaming EXCEPT ![c] = FALSE]
     /\ synced' = [synced EXCEPT ![c] = TRUE]
     /\ UNCHANGED <<storage, failed, streaming_offset, received>>

\* The file ends before the block does, and the read fails, or goes on with
\* something else, which may fail later or not verify: an Error, and no
\* StreamSynced.
StreamTorn(c) ==
  LET p == shared_session[c]
      offset == streaming_offset[c]
  IN /\ Streaming(c)
     /\ ~failed[p]
     /\ SeekEnd(p)
     /\ offset < Length
     /\ file'[offset + 1] = Torn
     /\ \E f \in BOOLEAN :
          /\ offset + 1 = Len(file') => f
          /\ failed' = [failed EXCEPT ![p] = f]
     /\ streaming' = [streaming EXCEPT ![c] = FALSE]
     /\ UNCHANGED <<storage, streaming_offset, received, synced>>

\* The paper's stream has failed before: an Error as well.
StreamFails(c) ==
  /\ Streaming(c)
  /\ failed[shared_session[c]]
  /\ streaming' = [streaming EXCEPT ![c] = FALSE]
  /\ UNCHANGED <<file, buffer, wrapped, storage, failed, streaming_offset, received, synced>>

(***************************************************************************)
(* At the end of the file store() sends what is still in the storage       *)
(* builder, and StreamSynced, and stores it.                               *)
(***************************************************************************)
StreamEnd(c) ==
  LET p == shared_session[c] IN
    /\ Streaming(c)
    /\ ~failed[p]
    /\ streaming_offset[c] >= Len(file \o buffer[p]) % Width
    /\ IF storage[p] = <<>> THEN SeekEnd(p) /\ UNCHANGED storage ELSE Store(p)
    /\ received' = [received EXCEPT ![c] = @ \o storage[p]]
    /\ streaming' = [streaming EXCEPT ![c] = FALSE]
    /\ synced' = [synced EXCEPT ![c] = TRUE]
    /\ UNCHANGED <<failed, streaming_offset>>

----------------------------------------------------------------------------
\* store_all() stores what is in the list of the last time ...
StoreAll ==
  /\ io = "Stream"
  /\ io' = "Clear"
  /\ IF snapshot # NoPaper /\ storage[snapshot] # <<>>
     THEN Store(snapshot) \/ StoreFails(snapshot)
     ELSE UNCHANGED <<file, buffer, storage, wrapped>>
  /\ UNCHANGED <<durable, draws, opened, current, failed, closing, snapshot, dropped,
                 clientVars, overlapped>>

\* ... clears it, and has to close a paper that everybody left ...
ClearList ==
  LET gone == {snapshot} \ ({NoPaper} \union {shared_session[c] : c \in Clients}) IN
    /\ io = "Clear"
    /\ io' = "List"
    /\ snapshot' = NoPaper
    /\ dropped' = IF gone = {} THEN NoPaper ELSE snapshot
    /\ closing' = closing \union gone
    /\ UNCHANGED <<file, buffer, wrapped, durable, draws, opened, current, storage, failed,
                   clientVars, overlapped>>

\* ... before it makes another list of what is alive.
NewList ==
  /\ io = "List"
  /\ dropped \notin closing
  /\ io' = "Stream"
  /\ dropped' = NoPaper
  /\ snapshot' = IF \E c \in Clients : shared_session[c] = current THEN current ELSE NoPaper
  /\ UNCHANGED <<file, buffer, wrapped, durable, draws, opened, current, storage, failed,
                 closing, clientVars, overlapped>>

----------------------------------------------------------------------------
\* Started again; nothing of the papers that were open is left but the file.
Restarted ==
  /\ current' = NoPaper
  /\ storage' = [p \in Papers |-> <<>>]
  /\ buffer' = [p \in Papers |-> <<>>]
  /\ failed' = [p \in Papers |-> FALSE]
  /\ closing' = {}
  /\ snapshot' = NoPaper
  /\ dropped' = NoPaper
  /\ io' = "Stream"
  /\ shared_session' = [c \in Clients |-> NoPaper]
  /\ streaming' = [c \in Clients |-> FALSE]
  /\ streaming_offset' = [c \in Clients |-> 0]
  /\ received' = [c \in Clients |-> <<>>]
  /\ synced' = [c \in Clients |-> FALSE]
  /\ UNCHANGED <<draws, opened, overlapped, wrapped>>

\* A process that is killed leaves what it wrote to the system, which may not
\* have it on the disk yet.
Killed == UNCHANGED <<file, durable>> /\ Restarted

PowerLost ==
  /\ \E n \in durable..Len(file) :
       \/ file' = SubSeq(file, 1, n)
       \/ n < Len(file) /\ file' = Append(SubSeq(file, 1, n), Torn)
  /\ durable' = Len(file')
  /\ Restarted

Next ==
  \/ \E c \in Clients :
       \/ Get(c) \/ AddDraw(c) \/ Leave(c)
       \/ StreamBlock(c) \/ StreamTorn(c) \/ StreamFails(c) \/ StreamEnd(c)
  \/ \E p \in Papers : Close(p)
  \/ StoreAll \/ ClearList \/ NewList
  \/ Killed \/ PowerLost

Spec == Init /\ [][Next]_vars

----------------------------------------------------------------------------
TypeOK ==
  /\ file \in Seq(Block \union {Torn})
  /\ durable \in 0..Len(file)
  /\ draws \in 0..MaxDraws
  /\ opened \in 0..MaxPapers
  /\ {current, snapshot, dropped} \subseteq Papers \union {NoPaper}
  /\ storage \in [Papers -> Seq(Draw)]
  /\ buffer \in [Papers -> Seq(Block)] /\ \A p \in Papers : Len(buffer[p]) <= 1
  /\ failed \in [Papers -> BOOLEAN]
  /\ closing \subseteq Papers
  /\ io \in {"Stream", "Clear", "List"}
  /\ shared_session \in [Clients -> Papers \union {NoPaper}]
  /\ streaming \in [Clients -> BOOLEAN]
  /\ streaming_offset \in [Clients -> 0..Width - 1]
  /\ received \in [Clients -> Block]
  /\ synced \in [Clients -> BOOLEAN]
  /\ overlapped \in BOOLEAN
  /\ wrapped \in BOOLEAN

\* The draws of the whole blocks, in the order of the file: of the first n, and
\* of them all.
DrawsUpTo(blocks) ==
  LET upTo[n \in 0..Len(blocks)] ==
        IF n = 0 THEN <<>>
        ELSE IF blocks[n] = Torn THEN upTo[n - 1] ELSE upTo[n - 1] \o blocks[n]
  IN upTo

DrawsIn(blocks) == DrawsUpTo(blocks)[Len(blocks)]

Increasing(ds) == \A i, j \in DOMAIN ds : i < j => ds[i] < ds[j]

(***************************************************************************)
(* However papers come and go, and whatever is killed or cut off, no draw  *)
(* is stored twice and the file has them in the order in which they were   *)
(* drawn.  The order is broken only when a paper was opened while the last *)
(* one had a block in its buffer that it still had to write.               *)
(***************************************************************************)
StoredInOrder ==
  /\ IsInjective(DrawsIn(file))
  /\ overlapped \/ Increasing(DrawsIn(file))

(***************************************************************************)
(* Whoever gets StreamSynced has just then got all that is stored, what    *)
(* was in the buffer or in the storage builder included, and nothing       *)
(* twice; unless a paper was opened before the last one wrote its buffer,  *)
(* or the file is too long for its length.                                 *)
(***************************************************************************)
SyncedWithAll ==
  [][\A c \in Clients :
       ~synced[c] /\ synced'[c] /\ ~overlapped /\ ~wrapped' =>
         /\ received'[c] = DrawsIn(file' \o buffer'[shared_session[c]])
         /\ \A p \in Papers \ {shared_session[c]} : buffer'[p] = <<>>]_vars

(***************************************************************************)
(* Nobody is synced with a paper that others cannot read or that cannot be *)
(* stored: one with a torn block, or one whose stream has failed.          *)
(***************************************************************************)
SyncedReadable ==
  \A c \in Clients :
    synced[c] /\ ~wrapped =>
      ~failed[shared_session[c]] /\ \A i \in DOMAIN file : file[i] # Torn
==============================================================================
