----------------------------- MODULE PaperServer -----------------------------
(***************************************************************************)
(* One paper on the etherpaint server: SharedSessionPaper, its            *)
(* MsgSessionPapers and the process's three kinds of thread:               *)
(*   - a websocket thread per session: handlers, send_queue, closed;       *)
(*   - the update thread, which sends frames (SendFrame);                  *)
(*   - the io thread, which streams blocks and stores to disk (Io...).     *)
(* A step is what one thread does between two points where another thread  *)
(* can see the difference; the mutexes are modelled by the guards they     *)
(* amount to.  The wait of a thread for the mutex of a closing session is  *)
(* left to PaperLocks: here such an enqueue finds the websocket gone.      *)
(***************************************************************************)
EXTENDS MsgQueue, FiniteSets

CONSTANTS
  Leavers,       \* the clients that may disconnect
  MaxClientId,   \* the highest client id handed out (254 in the code)
  InitialPapers, \* what the file may hold when the server starts
  Kinds,         \* which inputs clients send: "Stored", "Transient", "Cursor"
  MaxEvents,     \* bound on the inputs accepted in a behaviour
  MaxErrors      \* bound on the rejected commands per session

ASSUME LeaversAssumption == Leavers \subseteq Sessions
ASSUME MaxClientIdAssumption == MaxClientId \in Nat \ {0}
ASSUME KindsAssumption == Kinds \subseteq {"Stored", "Transient", "Cursor"}

ClientId == 0..MaxClientId

(***************************************************************************)
(* Draw events carry the number under which the server accepted them; a   *)
(* DrawObject, or a DrawIncrement with its store flag, is "Stored".        *)
(***************************************************************************)
Event == [kind : {"ClientJoined", "ClientLeft", "Cleanup", "Stored", "Transient", "Cursor"},
          id : ClientId, n : Nat]

Ev(kind, cid, n) == [kind |-> kind, id |-> cid, n |-> n]

\* cursors: the cursor updates of a frame, one per client that moved.
Message == [type : {"StreamStart", "Block", "StreamSynced", "Frame", "Error"},
            id : ClientId, events : Seq(Event), cursors : SUBSET Event]

Msg(type, cid, evs) == [type |-> type, id |-> cid, events |-> evs, cursors |-> {}]

Frame(evs, cursors) == [type |-> "Frame", id |-> 0, events |-> evs, cursors |-> cursors]

Block == [events : Seq(Event), ok : BOOLEAN]

ASSUME InitialPapersAssumption ==
  \A p \in InitialPapers :
    p.disk \in Seq(Block) /\ p.events \in Seq({"Stored", "Transient", "Cursor"})

VARIABLES
  \* MsgSessionPaper
  shared_session, id, streaming, streaming_offset, cursor, cursor_changed,
  \* SharedSessionPaper
  msg_sessions, broadcast, storage, disk,
  seen,            \* length of broadcast when the running join() looked at it
  \* a running send_frame(), which holds the mutexes: the members it is done
  \* with, the one whose cursor it is about to read, the updates collected
  passed, reading, moved,
  \* the io thread and its statics
  need_data_sessions, notified, store_sessions, io,
  \* history: kind of every input accepted, and the draws that vanished
  events, lost, clobbered

sessionVars == <<shared_session, id, streaming, streaming_offset, cursor, cursor_changed>>
builderVars == <<broadcast, storage>>
frameVars == <<passed, reading, moved>>
paperVars == <<msg_sessions, builderVars, disk, seen, frameVars>>
ioVars == <<need_data_sessions, notified, store_sessions, io>>
ghostVars == <<events, lost, clobbered>>
vars == <<msVars, sessionVars, paperVars, ioVars, ghostVars>>

TypeOK ==
  /\ QueueTypeOK(Message)
  /\ pc \in [Sessions -> {"idle", "low", "cursor", "joining", "starting", "request", "leaving",
                         "cleanup", "dead"}]
  /\ shared_session \in [Sessions -> BOOLEAN]
  /\ id \in [Sessions -> ClientId]
  /\ streaming \in [Sessions -> BOOLEAN]
  /\ streaming_offset \in [Sessions -> Nat]
  /\ cursor \in [Sessions -> Nat]
  /\ cursor_changed \in [Sessions -> BOOLEAN]
  /\ msg_sessions \subseteq Sessions
  /\ broadcast \in Seq(Event)
  /\ storage \in Seq(Event)
  /\ disk \in Seq(Block)
  /\ seen \in Nat
  /\ passed \subseteq Sessions
  /\ reading \subseteq Sessions
  /\ moved \subseteq Event
  /\ need_data_sessions \in Seq(Sessions)
  /\ notified \in BOOLEAN
  /\ store_sessions \in BOOLEAN
  /\ io \in {"waiting", "serving", "streaming", "storing", "clearing", "snapshot", "crashed"}
  /\ events \in Seq({"Stored", "Transient", "Cursor"})
  /\ lost \subseteq Nat
  /\ clobbered \subseteq Nat

Init ==
  /\ QueueInit
  /\ shared_session = [s \in Sessions |-> FALSE]
  /\ id = [s \in Sessions |-> 0]
  /\ streaming = [s \in Sessions |-> TRUE]
  /\ streaming_offset = [s \in Sessions |-> 0]
  /\ cursor = [s \in Sessions |-> 0]
  /\ cursor_changed = [s \in Sessions |-> FALSE]
  /\ msg_sessions = {}
  /\ broadcast = <<>>
  /\ storage = <<>>
  /\ \E p \in InitialPapers : disk = p.disk /\ events = p.events
  /\ seen = 0
  /\ passed = {}
  /\ reading = {}
  /\ moved = {}
  /\ need_data_sessions = <<>>
  /\ notified = FALSE
  /\ store_sessions = FALSE
  /\ io = "waiting"
  /\ lost = {}
  /\ clobbered = {}

----------------------------------------------------------------------------
\* Mutexes: no join() has msg_sessions_mutex; no frame has shared_sessions_mutex,
\* msg_sessions_mutex and msg_builder_mutex; need_data_sessions_mutex is free.
SessionsFree == \A s \in Sessions : pc[s] \notin {"joining", "starting"}
NoFrame == passed = {} /\ reading = {}
NeedDataFree == io \notin {"serving", "streaming"}

Goto(s, label) == pc' = [pc EXCEPT ![s] = label]

\* The numbers of the stored draws in a sequence of events.
Draws(evs) == {evs[i].n : i \in {j \in DOMAIN evs : evs[j].kind = "Stored"}}

\* The shared_ptrs that keep the paper alive; with the last one it is
\* destroyed, and what its builders hold goes with it.
Alive(joined, stored) == stored \/ \E s \in Sessions : joined[s]

DestroyPaper ==
  /\ broadcast' = <<>>
  /\ storage' = <<>>
  /\ lost' = lost \union Draws(storage)

----------------------------------------------------------------------------
(***************************************************************************)
(* The Join handler.  msg_sessions_mutex is held from JoinStart to         *)
(* JoinEnd, but ClientJoined is added to the broadcast builder without     *)
(* msg_builder_mutex.  When another thread adds an event meanwhile, the    *)
(* two unlocked updates race: both may survive, or either undoes the other.*)
(* The io thread, too, can come in between: streaming is TRUE from the     *)
(* start, so a session that had an Error before it joined may have a       *)
(* request in the queue, which is served once shared_session is set.       *)
(***************************************************************************)
\* Mutant: overlooks the members that are still streaming.
FreeIdsOfLive == (1..MaxClientId) \ {id[t] : t \in {u \in msg_sessions : ~streaming[u]}}

FreeIds == (1..MaxClientId) \ {id[t] : t \in msg_sessions}
FirstFreeId == CHOOSE i \in FreeIds : \A j \in FreeIds : i <= j

JoinStart(s) ==
  /\ pc[s] = "idle"
  /\ ws[s]
  /\ ~shared_session[s]
  /\ SessionsFree
  /\ NoFrame
  /\ FreeIds # {}
  /\ shared_session' = [shared_session EXCEPT ![s] = TRUE]
  /\ seen' = Len(broadcast)
  /\ Goto(s, "joining")
  /\ UNCHANGED <<queueVars, id, streaming, streaming_offset, cursor, cursor_changed,
                 msg_sessions, builderVars, disk, frameVars, ioVars, ghostVars>>

AfterRace(joined) ==
  {Append(broadcast, joined)} \union
    IF Len(broadcast) > seen THEN {broadcast, Append(SubSeq(broadcast, 1, seen), joined)}
                             ELSE {}

JoinId(s) ==
  /\ pc[s] = "joining"
  /\ broadcast' \in AfterRace(Ev("ClientJoined", FirstFreeId, 0))
  /\ clobbered' = clobbered \union (Draws(broadcast) \ Draws(broadcast'))
  /\ id' = [id EXCEPT ![s] = FirstFreeId]
  /\ streaming' = [streaming EXCEPT ![s] = TRUE]
  /\ streaming_offset' = [streaming_offset EXCEPT ![s] = 0]
  /\ seen' = 0
  /\ Goto(s, "starting")
  /\ UNCHANGED <<queueVars, shared_session, cursor, cursor_changed, msg_sessions, storage,
                 disk, frameVars, ioVars, events, lost>>

JoinEnd(s) ==
  /\ pc[s] = "starting"
  /\ EnqueueTo(s, <<Msg("StreamStart", 0, <<>>)>>)
  /\ msg_sessions' = msg_sessions \union {s}
  /\ Goto(s, "request")
  /\ UNCHANGED <<sessionVars, builderVars, disk, seen, frameVars, ioVars, ghostVars>>

\* No id left: the program_error ends the handler and becomes an Error
\* message, but shared_session stays set, streaming is TRUE as it was, and
\* the session is not a member.
JoinFull(s) ==
  /\ pc[s] = "idle"
  /\ ws[s]
  /\ ~shared_session[s]
  /\ SessionsFree
  /\ NoFrame
  /\ FreeIds = {}
  /\ shared_session' = [shared_session EXCEPT ![s] = TRUE]
  /\ EnqueueTo(s, <<Msg("Error", 0, <<>>)>>)
  /\ UNCHANGED <<pc, id, streaming, streaming_offset, cursor, cursor_changed,
                 paperVars, ioVars, ghostVars>>

\* A second Join ("Already joined"), a draw or cursor with another client's
\* id or none, an unknown event: an Error message and nothing else.
Rejected(s) ==
  /\ pc[s] = "idle"
  /\ ws[s]
  /\ Cardinality({i \in DOMAIN wire[s] : wire[s][i].type = "Error"})
       + Cardinality({i \in DOMAIN msg_queue[s] : msg_queue[s][i].type = "Error"}) < MaxErrors
  /\ EnqueueTo(s, <<Msg("Error", 0, <<>>)>>)
  /\ UNCHANGED <<pc, sessionVars, paperVars, ioVars, ghostVars>>

\* Mutant: leaves out the request when a wake-up is already on its way.
RequestDataOnce(s) ==
  /\ pc[s] = "request"
  /\ NeedDataFree
  /\ need_data_sessions' = IF notified THEN need_data_sessions ELSE Append(need_data_sessions, s)
  /\ notified' = (notified \/ io = "waiting")
  /\ Goto(s, "idle")
  /\ UNCHANGED <<queueVars, sessionVars, paperVars, store_sessions, io, ghostVars>>

\* request_data(), after join() and from queue_low().  notify_one() is lost
\* when the io thread is not waiting.
RequestData(s) ==
  /\ pc[s] = "request"
  /\ NeedDataFree
  /\ need_data_sessions' = Append(need_data_sessions, s)
  /\ notified' = (notified \/ io = "waiting")
  /\ Goto(s, "idle")
  /\ UNCHANGED <<queueVars, sessionVars, paperVars, store_sessions, io, ghostVars>>

\* Mutant: asks for no more data, as the base class does.
QueueLowOnly(s) ==
  /\ pc[s] = "low"
  /\ Goto(s, "idle")
  /\ UNCHANGED <<queueVars, sessionVars, paperVars, ioVars, ghostVars>>

QueueLow(s) ==
  /\ pc[s] = "low"
  /\ Goto(s, IF streaming[s] THEN "request" ELSE "idle")
  /\ UNCHANGED <<queueVars, sessionVars, paperVars, ioVars, ghostVars>>

----------------------------------------------------------------------------
\* The draw and cursor handlers.  A client sends commands under the id it
\* was told by StreamSynced, or 0 since a StreamStart; validate_command asks
\* for its id, not 0, and a paper.
Told(s) ==
  \E i \in DOMAIN wire[s] :
    /\ wire[s][i].type = "StreamSynced" /\ wire[s][i].id = id[s]
    /\ \A j \in DOMAIN wire[s] : j > i => wire[s][j].type # "StreamStart"

CanCommand(s, kind) ==
  /\ pc[s] = "idle"
  /\ ws[s]
  /\ Told(s)
  /\ id[s] # 0
  /\ shared_session[s]
  /\ kind \in Kinds
  /\ Len(events) < MaxEvents
  /\ events' = Append(events, kind)

AddDraw(s, kind) ==
  /\ kind \in {"Stored", "Transient"}
  /\ CanCommand(s, kind)
  /\ NoFrame
  /\ LET draw == Ev(kind, id[s], Len(events) + 1) IN
       /\ broadcast' = Append(broadcast, draw)
       /\ storage' = IF kind = "Stored" THEN Append(storage, draw) ELSE storage
  /\ UNCHANGED <<msVars, sessionVars, msg_sessions, disk, seen, frameVars, ioVars, lost,
                 clobbered>>

\* The handler writes the position and then the flag, under no lock.
MoveCursor(s) ==
  /\ CanCommand(s, "Cursor")
  /\ cursor' = [cursor EXCEPT ![s] = Len(events) + 1]
  /\ Goto(s, "cursor")
  /\ UNCHANGED <<queueVars, shared_session, id, streaming, streaming_offset,
                 cursor_changed, paperVars, ioVars, lost, clobbered>>

FlagCursor(s) ==
  /\ pc[s] = "cursor"
  /\ cursor_changed' = [cursor_changed EXCEPT ![s] = TRUE]
  /\ Goto(s, "idle")
  /\ UNCHANGED <<queueVars, shared_session, id, streaming, streaming_offset, cursor,
                 paperVars, ioVars, ghostVars>>

----------------------------------------------------------------------------
\* closed(): leave() takes the session out of msg_sessions, then announces
\* it under the other mutex, twice; the paper is released last.
Close(s) ==
  /\ s \in Leavers
  /\ pc[s] = "idle"
  /\ Disconnect(s)
  /\ shared_session[s] => SessionsFree /\ NoFrame
  /\ msg_sessions' = msg_sessions \ {s}
  /\ Goto(s, IF shared_session[s] THEN "leaving" ELSE "idle")
  /\ UNCHANGED <<sessionVars, builderVars, disk, seen, frameVars, ioVars, ghostVars>>

ClientLeft(s) ==
  /\ pc[s] = "leaving"
  /\ NoFrame
  /\ broadcast' = Append(broadcast, Ev("ClientLeft", id[s], 0))
  /\ Goto(s, "cleanup")
  /\ UNCHANGED <<queueVars, sessionVars, msg_sessions, storage, disk, seen, frameVars, ioVars,
                 ghostVars>>

Cleanup(s) ==
  /\ pc[s] = "cleanup"
  /\ NoFrame
  /\ shared_session' = [shared_session EXCEPT ![s] = FALSE]
  /\ IF Alive(shared_session', store_sessions)
       THEN /\ broadcast' = Append(broadcast, Ev("Cleanup", id[s], 0))
            /\ UNCHANGED <<storage, lost>>
       ELSE DestroyPaper
  /\ Goto(s, "idle")
  /\ UNCHANGED <<queueVars, id, streaming, streaming_offset, cursor, cursor_changed,
                 msg_sessions, disk, seen, frameVars, ioVars, events, clobbered>>

----------------------------------------------------------------------------
(***************************************************************************)
(* The update thread: everything collected goes, as one frame, to the      *)
(* members that are not streaming.  While it collects the cursors only     *)
(* what needs none of its mutexes comes in between; so does the cursor     *)
(* handler, for which flag and position are touched in separate steps.     *)
(***************************************************************************)
FrameRuns ==
  /\ io # "crashed"
  /\ SessionsFree
  /\ UNCHANGED <<pc, shared_session, id, streaming, streaming_offset, cursor,
                 msg_sessions, storage, disk, seen, ioVars, ghostVars>>

\* A flag that is down when the frame comes to it.  Only one that goes up
\* before the frame ends makes a difference: the others SendFrame passes.
SkipCursor(s) ==
  /\ FrameRuns
  /\ s \in msg_sessions \ (passed \union reading)
  /\ ~cursor_changed[s]
  /\ pc[s] = "cursor"
  /\ passed' = passed \union {s}
  /\ UNCHANGED <<queueVars, cursor_changed, broadcast, reading, moved>>

\* Read while the handler writes it, the position may be a mixture: 0.
ReadablePositions(s) == {cursor[s]} \union IF pc[s] = "cursor" THEN {0} ELSE {}

\* Mutant: reads the position first and lowers the flag afterwards.
FrameCursorReadFirst(s) ==
  /\ FrameRuns
  /\ s \in msg_sessions \ passed
  /\ reading \subseteq {s}
  /\ IF s \in reading
       THEN /\ cursor_changed' = [cursor_changed EXCEPT ![s] = FALSE]
            /\ reading' = {}
            /\ passed' = passed \union {s}
            /\ UNCHANGED moved
       ELSE /\ cursor_changed[s]
            /\ reading' = {s}
            /\ \E n \in ReadablePositions(s) : moved' = moved \union {Ev("Cursor", id[s], n)}
            /\ UNCHANGED <<cursor_changed, passed>>
  /\ UNCHANGED <<queueVars, broadcast>>

\* A flag that is up is lowered and then, under no lock that the handler
\* takes, the position is read.
LowerFlag(s) ==
  /\ FrameRuns
  /\ s \in msg_sessions \ passed
  /\ reading = {}
  /\ cursor_changed[s]
  /\ cursor_changed' = [cursor_changed EXCEPT ![s] = FALSE]
  /\ reading' = {s}
  /\ UNCHANGED <<queueVars, broadcast, passed, moved>>

ReadCursor(s) ==
  /\ FrameRuns
  /\ s \in reading
  /\ \E n \in ReadablePositions(s) : moved' = moved \union {Ev("Cursor", id[s], n)}
  /\ passed' = passed \union {s}
  /\ reading' = {}
  /\ UNCHANGED <<queueVars, cursor_changed, broadcast>>

FrameCursor(s) == LowerFlag(s) \/ ReadCursor(s)

CollectCursors == \E s \in Sessions : SkipCursor(s) \/ FrameCursor(s)

\* Mutant: frames go to the members that are streaming, too.
LiveOrStreaming(s) == s \in msg_sessions

Live(s) == s \in msg_sessions /\ ~streaming[s]

\* The end of a frame; the flags of the members not passed are down.
FrameEnds ==
  /\ FrameRuns
  /\ reading = {}
  /\ \A s \in msg_sessions \ passed : ~cursor_changed[s]
  /\ broadcast # <<>> \/ ~NoFrame
  /\ broadcast' = <<>>
  /\ passed' = {}
  /\ moved' = {}
  /\ UNCHANGED <<cursor_changed, reading>>

Collected == IF broadcast # <<>> \/ moved # {} THEN <<Frame(broadcast, moved)>> ELSE <<>>

\* Mutant: skips members that have not been sent everything yet.
SendFrameToIdle ==
  /\ FrameEnds
  /\ EnqueueAll([s \in Sessions |->
       IF Live(s) /\ msg_queue[s] = <<>> THEN Collected ELSE <<>>])

SendFrame ==
  /\ FrameEnds
  /\ EnqueueAll([s \in Sessions |-> IF Live(s) THEN Collected ELSE <<>>])

----------------------------------------------------------------------------
(***************************************************************************)
(* The io thread.  stream_all() holds need_data_sessions_mutex except      *)
(* while it waits; it serves the queue only after a wake-up, and returns   *)
(* to io_thread() on a timeout without looking at the queue.               *)
(***************************************************************************)
\* Notified, or a spurious wake-up; one that finds the queue empty goes
\* back to waiting and is no step here.
IoWake ==
  /\ io = "waiting"
  /\ need_data_sessions # <<>>
  /\ io' = "serving"
  /\ notified' = FALSE
  /\ UNCHANGED <<msVars, sessionVars, paperVars, need_data_sessions, store_sessions, ghostVars>>

\* Also when a notification arrives too late for the deadline.  store_all()
\* has nothing to store and to drop when the snapshot is empty.
IoTimeout ==
  /\ io = "waiting"
  /\ io' = IF store_sessions THEN "storing" ELSE "snapshot"
  /\ notified' = FALSE
  /\ UNCHANGED <<msVars, sessionVars, paperVars, need_data_sessions, store_sessions, ghostVars>>

\* The pop at the end of the loop; after the last one it waits again.
PopNeedData ==
  /\ need_data_sessions' = Tail(need_data_sessions)
  /\ io' = IF Len(need_data_sessions) = 1 THEN "waiting" ELSE "serving"

\* Mutant: streams for every request, also after the end of the stream.
IoCheckNothing ==
  /\ io = "serving"
  /\ IF shared_session[Head(need_data_sessions)]
       THEN io' = "streaming" /\ UNCHANGED need_data_sessions
       ELSE PopNeedData
  /\ UNCHANGED <<msVars, sessionVars, paperVars, notified, store_sessions, ghostVars>>

\* The unlocked test of the session at the front; it stays queued while it
\* is streamed to, and is dropped when it does not need data any more.
IoCheck ==
  /\ io = "serving"
  /\ LET s == Head(need_data_sessions) IN
       IF streaming[s] /\ shared_session[s]
         THEN io' = "streaming" /\ UNCHANGED need_data_sessions
         ELSE PopNeedData
  /\ UNCHANGED <<msVars, sessionVars, paperVars, notified, store_sessions, ghostVars>>

\* stream() up to its return, with the pop that follows it.
Streamed(s) ==
  /\ io = "streaming"
  /\ s = Head(need_data_sessions)
  /\ shared_session[s]
  /\ PopNeedData
  /\ UNCHANGED <<pc, shared_session, id, cursor, cursor_changed, msg_sessions, broadcast,
                 seen, frameVars, notified, store_sessions, ghostVars>>

StreamBlock(s) ==
  /\ Streamed(s)
  /\ streaming_offset[s] < Len(disk)
  /\ disk[streaming_offset[s] + 1].ok
  /\ streaming_offset' = [streaming_offset EXCEPT ![s] = @ + 1]
  /\ EnqueueTo(s, <<Msg("Block", 0, disk[streaming_offset[s] + 1].events)>>)
  /\ UNCHANGED <<streaming, storage, disk>>

\* The exception for a block that does not verify ends the stream with an
\* Error and no StreamSynced.
StreamCorrupt(s) ==
  /\ Streamed(s)
  /\ streaming_offset[s] < Len(disk)
  /\ ~disk[streaming_offset[s] + 1].ok
  /\ EnqueueTo(s, <<Msg("Error", 0, <<>>)>>)
  /\ streaming' = [streaming EXCEPT ![s] = FALSE]
  /\ UNCHANGED <<streaming_offset, storage, disk>>

\* Mutant: does not clear the builder.
WriteStorageAgain ==
  /\ NoFrame
  /\ UNCHANGED storage
  /\ disk' = IF storage = <<>> THEN disk ELSE Append(disk, [events |-> storage, ok |-> TRUE])

\* store(): the storage builder becomes the next block of the file.
WriteStorage ==
  /\ NoFrame
  /\ storage' = <<>>
  /\ disk' = IF storage = <<>> THEN disk ELSE Append(disk, [events |-> storage, ok |-> TRUE])

\* Mutant: ends the stream with the file.
StreamEndOfFile(s) ==
  /\ Streamed(s)
  /\ streaming_offset[s] >= Len(disk)
  /\ streaming' = [streaming EXCEPT ![s] = FALSE]
  /\ EnqueueTo(s, <<Msg("StreamSynced", id[s], <<>>)>>)
  /\ WriteStorage
  /\ UNCHANGED streaming_offset

\* End of file: what is still in the storage builder ends the stream.
StreamEnd(s) ==
  /\ Streamed(s)
  /\ streaming_offset[s] >= Len(disk)
  /\ streaming' = [streaming EXCEPT ![s] = FALSE]
  /\ LET synced == Msg("StreamSynced", id[s], <<>>) IN
       EnqueueTo(s, IF storage = <<>> THEN <<synced>>
                    ELSE <<Msg("Block", 0, storage), synced>>)
  /\ WriteStorage
  /\ UNCHANGED streaming_offset

\* closed() reset shared_session after the test: a null pointer is used and
\* the process dies, its connections and threads with it.
StreamCrash ==
  /\ io = "streaming"
  /\ ~shared_session[Head(need_data_sessions)]
  /\ io' = "crashed"
  /\ ws' = [s \in Sessions |-> FALSE]
  /\ pc' = [s \in Sessions |-> "dead"]
  /\ UNCHANGED <<msg_queue, deferred, buffered, wire, sessionVars, paperVars,
                 need_data_sessions, notified, store_sessions, ghostVars>>

\* store_all(): store the paper if the previous snapshot holds it, drop the
\* snapshot, and take a new one of the papers then alive.
IoStore ==
  /\ io = "storing"
  /\ io' = "clearing"
  /\ WriteStorage
  /\ UNCHANGED <<msVars, sessionVars, msg_sessions, broadcast, seen, frameVars,
                 need_data_sessions, notified, store_sessions, ghostVars>>

IoClear ==
  /\ io = "clearing"
  /\ io' = "snapshot"
  /\ store_sessions' = FALSE
  /\ IF Alive(shared_session, FALSE) THEN UNCHANGED <<builderVars, lost>>
                                     ELSE DestroyPaper
  /\ UNCHANGED <<msVars, sessionVars, msg_sessions, disk, seen, frameVars,
                 need_data_sessions, notified, events, clobbered>>

\* Mutant: keeps only the papers that everybody left.
IoSnapshotOfLeft ==
  /\ io = "snapshot"
  /\ NoFrame
  /\ io' = "waiting"
  /\ store_sessions' = (Alive(shared_session, FALSE) /\ msg_sessions = {})
  /\ UNCHANGED <<msVars, sessionVars, paperVars, need_data_sessions, notified, ghostVars>>

IoSnapshot ==
  /\ io = "snapshot"
  /\ NoFrame
  /\ io' = "waiting"
  /\ store_sessions' = Alive(shared_session, FALSE)
  /\ UNCHANGED <<msVars, sessionVars, paperVars, need_data_sessions, notified, ghostVars>>

----------------------------------------------------------------------------
\* The callbacks of MsgQueue leave the paper alone.
Callback(s) ==
  /\ RunDeferred(s) \/ Drain(s)
  /\ UNCHANGED <<sessionVars, paperVars, ioVars, ghostVars>>

Handler(s) ==
  \/ JoinStart(s) \/ JoinId(s) \/ JoinEnd(s) \/ JoinFull(s) \/ Rejected(s)
  \/ RequestData(s) \/ QueueLow(s) \/ Callback(s)
  \/ AddDraw(s, "Stored") \/ AddDraw(s, "Transient")
  \/ MoveCursor(s) \/ FlagCursor(s)
  \/ Close(s) \/ ClientLeft(s) \/ Cleanup(s)

Stream(s) == StreamBlock(s) \/ StreamCorrupt(s) \/ StreamEnd(s)

Next ==
  \/ \E s \in Sessions : Handler(s) \/ Stream(s)
  \/ CollectCursors \/ SendFrame
  \/ IoWake \/ IoTimeout \/ IoCheck \/ StreamCrash
  \/ IoStore \/ IoClear \/ IoSnapshot

Spec == Init /\ [][Next]_vars

\* Every thread that can go on does; the handlers that wait for a client's
\* input or for it to leave have no such obligation.
ThreadStep(s) ==
  JoinId(s) \/ JoinEnd(s) \/ RequestData(s) \/ QueueLow(s) \/ Callback(s)
    \/ FlagCursor(s) \/ ClientLeft(s) \/ Cleanup(s)

IoStep ==
  \/ notified /\ IoWake
  \/ IoTimeout \/ IoCheck \/ (\E s \in Sessions : Stream(s))
  \/ IoStore \/ IoClear \/ IoSnapshot

Fairness ==
  /\ \A s \in Sessions : WF_vars(ThreadStep(s))
  /\ WF_vars(CollectCursors \/ SendFrame)
  /\ WF_vars(IoStep)

FairSpec == Spec /\ Fairness

----------------------------------------------------------------------------
\* What a client was sent, whether or not it left the server yet.
Sent(s) == wire[s] \o msg_queue[s]

InMessages(msgs) == UNION {Draws(msgs[i].events) : i \in DOMAIN msgs}
Carried(s) == InMessages(wire[s]) \union InMessages(msg_queue[s])

OnDisk == UNION {Draws(disk[i].events) : i \in DOMAIN disk}

\* Had nothing before its StreamStart, was synced and gets frames.
Synced(s) ==
  /\ Live(s)
  /\ \E i \in DOMAIN Sent(s) : Sent(s)[i].type = "StreamSynced"
  /\ Sent(s)[1].type = "StreamStart"

(***************************************************************************)
(* A client whose stream ended with StreamSynced has every stored draw of  *)
(* the paper or gets it with the next frame: the blocks read from disk,    *)
(* the tail of the storage builder and the frames leave no gap, whatever   *)
(* is drawn, saved or joined meanwhile.  The one exception is a draw       *)
(* undone by the unlocked ClientJoined of join().  A client that had an    *)
(* Error before its StreamStart is not covered: it may miss blocks that    *)
(* were streamed to it during join().                                      *)
(***************************************************************************)
NoMissedDraw ==
  \A s \in Sessions :
    Synced(s) => OnDisk \union Draws(storage)
                   \subseteq Carried(s) \union Draws(broadcast) \union clobbered

(***************************************************************************)
(* The draws a client gets are in the order in which the server accepted   *)
(* them, across blocks, tail and frames; one that comes late repeats a     *)
(* draw the client already has (an event both in the tail and in the       *)
(* first frame), so no new draw ever lands under an older one.             *)
(***************************************************************************)
\* The stored draws a client was sent: message, place in it and number.
Received(s) ==
  LET sent == Sent(s)
      DrawsOf(evs) == {j \in DOMAIN evs : evs[j].kind = "Stored"}
  IN UNION {{[msg |-> i, at |-> j, n |-> sent[i].events[j].n] : j \in DrawsOf(sent[i].events)} :
              i \in DOMAIN sent}

Before(p, q) == p.msg < q.msg \/ (p.msg = q.msg /\ p.at < q.at)

OnlyRepeatsOutOfOrder ==
  \A s \in Sessions :
    LET received == Received(s) IN
      \A p, q \in received :
        Before(p, q) /\ q.n < p.n => \E r \in received : Before(r, p) /\ r.n = q.n

(***************************************************************************)
(* The stream of a paper comes in one piece: once a client got a live      *)
(* frame, no start, block or end of a stream follows, although frames and  *)
(* stream are produced by two threads and requests for data pile up.       *)
(***************************************************************************)
NoStreamAfterFrame ==
  \A s \in Sessions :
    LET sent == Sent(s) IN
      \A i, j \in DOMAIN sent :
        i < j /\ sent[i].type = "Frame" => sent[j].type \in {"Frame", "Error"}

(***************************************************************************)
(* Every stored draw is in exactly one place: a block of the file, the     *)
(* storage builder, or gone with a paper that was destroyed; file and      *)
(* builder together are in the order of acceptance, so a later client      *)
(* draws the paper as the first ones did.                                  *)
(***************************************************************************)
Accepted == {n \in DOMAIN events : events[n] = "Stored"}

Increasing(evs) == \A i, j \in DOMAIN evs : i < j => evs[i].n < evs[j].n
AllBelow(evs, later) ==
  \A i \in DOMAIN evs, j \in DOMAIN later : evs[i].n < later[j].n

StoredOnceInOrder ==
  /\ OnDisk \union Draws(storage) \union lost = Accepted
  /\ lost \intersect (OnDisk \union Draws(storage)) = {}
  /\ Increasing(storage)
  /\ \A i \in DOMAIN disk :
       /\ Increasing(disk[i].events)
       /\ AllBelow(disk[i].events, storage)
       /\ \A j \in DOMAIN disk : i < j => AllBelow(disk[i].events, disk[j].events)

\* A paper that was there before holds its stored draws once and in order.
ASSUME InitialOrderAssumption ==
  \A p \in InitialPapers :
    /\ UNION {Draws(p.disk[i].events) : i \in DOMAIN p.disk}
         = {n \in DOMAIN p.events : p.events[n] = "Stored"}
    /\ \A i \in DOMAIN p.disk :
         /\ Increasing(p.disk[i].events)
         /\ \A k \in DOMAIN p.disk[i].events : p.disk[i].events[k].kind = "Stored"
         /\ \A j \in DOMAIN p.disk : i < j => AllBelow(p.disk[i].events, p.disk[j].events)

(***************************************************************************)
(* The chain of requests that drives a stream never breaks: an open        *)
(* session with a paper that is streaming has a request queued or about to *)
(* be, or something to send whose end will ask for more.                   *)
(***************************************************************************)
StreamContinues ==
  \A s \in Sessions :
    streaming[s] /\ ws[s] /\ shared_session[s] =>
      \/ pc[s] \in {"joining", "starting", "request", "low"}
      \/ \E i \in DOMAIN need_data_sessions : need_data_sessions[i] = s
      \/ deferred[s] > 0 \/ buffered[s]

(***************************************************************************)
(* No two members of a paper have the same client id, and none has 0, the  *)
(* id clients use for their local echo; so drawings are never mixed up.    *)
(***************************************************************************)
UniqueIds ==
  \A s, t \in msg_sessions : id[s] # 0 /\ (id[s] = id[t] => s = t)

(***************************************************************************)
(* The cursor handler and send_frame share position and flag without a     *)
(* lock: the handler may run between any two of their accesses.  Still the *)
(* last position a client moved to is never left unsent while the server   *)
(* runs: with the flag down, the handler done and no frame about to read,  *)
(* every member that was sent a position under that client's id was sent   *)
(* its last one, or the frame under way holds it.  The position may be of  *)
(* a client that had the id before, and a client that has not moved has    *)
(* none to send.  The accesses take effect in the order of the code.       *)
(***************************************************************************)
PositionsIn(moves, cid) == {c.n : c \in {d \in moves : d.id = cid}}

CursorsSent(t, cid) ==
  LET sent == Sent(t) IN PositionsIn(UNION {sent[i].cursors : i \in DOMAIN sent}, cid)

LastCursorSent ==
  io # "crashed" =>
    \A s, t \in msg_sessions :
      /\ cursor[s] # 0
      /\ pc[s] # "cursor"
      /\ ~cursor_changed[s]
      /\ s \notin reading
      /\ CursorsSent(t, id[s]) # {}
      => cursor[s] \in CursorsSent(t, id[s]) \union PositionsIn(moved, id[s])

(***************************************************************************)
(* A stored draw reaches the file, unless the paper is destroyed first.    *)
(***************************************************************************)
EventuallySaved ==
  \A n \in 1..MaxEvents :
    n \in Draws(storage) ~> n \in OnDisk \union lost \/ io = "crashed"

(***************************************************************************)
(* A draw that is stored while a client is synced reaches that client,     *)
(* unless it disconnects or the draw is lost to the race in join().        *)
(***************************************************************************)
EventuallyDrawn ==
  \A s \in Sessions : \A n \in 1..MaxEvents :
    Synced(s) /\ n \in Draws(storage)
      ~> n \in InMessages(wire[s]) \union clobbered \/ ~ws[s] \/ io = "crashed"

(***************************************************************************)
(* What the comments say and the code does not keep.                       *)
(***************************************************************************)
\* SharedSessionPaper.cpp:307: stream_all calls stream() for all clients in
\* the need_data_sessions list, so none stays in it.
RequestsServed ==
  \A s \in Sessions :
    (\E i \in DOMAIN need_data_sessions : need_data_sessions[i] = s)
      ~> ~ \E i \in DOMAIN need_data_sessions : need_data_sessions[i] = s
==============================================================================
