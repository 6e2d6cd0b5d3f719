-------------------------- MODULE PaperServerProofs --------------------------
(***************************************************************************)
(* What TLC checks of PaperServer on one or two clients, proved for any    *)
(* set of clients, any papers on disk and any bounds.                      *)
(***************************************************************************)
EXTENDS PaperServer, MsgQueueProofs, WellFoundedInduction

\* What the steps of join() rely on: one join() runs at a time, the id that
\* was free when it began still is, and so is the id it took.
Joining(s) == pc[s] \in {"joining", "starting"}

JoinOK ==
  \A s \in Sessions : Joining(s) =>
    /\ pc[s] = "joining" => FreeIds # {}
    /\ pc[s] = "starting" => id[s] \in FreeIds
    /\ \A t \in Sessions : Joining(t) => s = t

\* A member has its paper and is neither about to join nor leaving.
MembersOK ==
  \A s \in Sessions :
    /\ s \in msg_sessions => /\ shared_session[s]
                             /\ ~Joining(s) /\ pc[s] \notin {"leaving", "cleanup"}
    /\ Joining(s) => shared_session[s]

\* The io thread serves requests only while there are some.
ServingOK == io \in {"serving", "streaming"} => need_data_sessions # <<>>

----------------------------------------------------------------------------
\* A set of numbers has a least one.
LEMMA LeastNumber ==
  ASSUME NEW T, T \subseteq Nat, T # {}
  PROVE  \E i \in T : \A j \in T : i <= j
<1>1. IsWellFoundedOn(OpToRel(<, Nat), Nat)
  BY NatLessThanWellFounded
<1>2. \E i \in T : \A j \in T : ~ (<<j, i>> \in OpToRel(<, Nat))
  BY <1>1, WFMin, Zenon
<1>3. \A i, j \in Nat : <<j, i>> \in OpToRel(<, Nat) <=> j < i
  BY DEF OpToRel
<1>4. \E i \in T : \A j \in T : ~ (j < i)
  BY <1>2, <1>3, Zenon
<1> QED
  BY <1>4

\* So the search for a free id succeeds where there is one.
LEMMA FirstFreeIdIsFree ==
  ASSUME FreeIds # {}
  PROVE  FirstFreeId \in FreeIds /\ FirstFreeId \in ClientId /\ FirstFreeId # 0
<1>1. FreeIds \subseteq Nat
  BY DEF FreeIds
<1>2. \E i \in FreeIds : \A j \in FreeIds : i <= j
  BY <1>1, LeastNumber
<1>3. FirstFreeId \in FreeIds
  BY <1>2 DEF FirstFreeId
<1> QED
  BY <1>3, MaxClientIdAssumption DEF FreeIds, ClientId

\* The types of the events and messages that the actions put together.
LEMMA EventTypes ==
  /\ \A kind \in {"ClientJoined", "ClientLeft", "Cleanup", "Stored", "Transient", "Cursor"},
        cid \in ClientId, n \in Nat : Ev(kind, cid, n) \in Event
  /\ 0 \in ClientId
BY MaxClientIdAssumption DEF Ev, Event, ClientId

\* Every message the actions put together is a Message.
LEMMA MessageTypes ==
  ASSUME NEW type \in {"StreamStart", "Block", "StreamSynced", "Frame", "Error"},
         NEW cid \in ClientId, NEW evs \in Seq(Event)
  PROVE  /\ Msg(type, cid, evs) \in Message
         /\ \A cursors \in SUBSET Event : Frame(evs, cursors) \in Message
BY EventTypes DEF Msg, Frame, Message

\* The messages without events.
LEMMA EmptyMessages ==
  \A type \in {"StreamStart", "Block", "StreamSynced", "Frame", "Error"} :
    <<Msg(type, 0, <<>>)>> \in Seq(Message)
<1> SUFFICES ASSUME NEW type \in {"StreamStart", "Block", "StreamSynced", "Frame", "Error"}
             PROVE  <<Msg(type, 0, <<>>)>> \in Seq(Message)
  OBVIOUS
<1>1. <<>> \in Seq(Event)
  OBVIOUS
<1>2. Msg(type, 0, <<>>) \in Message
  BY <1>1, MessageTypes, EventTypes
<1> QED
  BY <1>2

\* Whatever becomes of the race in join(), the builder holds events.
LEMMA RaceType ==
  ASSUME TypeOK, NEW joined \in Event
  PROVE  AfterRace(joined) \subseteq Seq(Event)
<1>1. \A i \in 1..Len(broadcast) : broadcast[i] \in Event
  BY DEF TypeOK
<1>2. CASE Len(broadcast) > seen
  <2>1. SubSeq(broadcast, 1, seen) \in Seq(Event)
    BY <1>1, <1>2, SubSeqProperties DEF TypeOK
  <2>2. Append(broadcast, joined) \in Seq(Event)
           /\ Append(SubSeq(broadcast, 1, seen), joined) \in Seq(Event)
    BY <2>1 DEF TypeOK
  <2> QED
    BY <2>2 DEF AfterRace, TypeOK
<1>3. CASE ~(Len(broadcast) > seen)
  BY <1>3 DEF AfterRace, TypeOK
<1> QED
  BY <1>2, <1>3

\* Draws picks numbers out of events.
LEMMA DrawsType ==
  \A evs \in Seq(Event) : Draws(evs) \subseteq Nat
<1> SUFFICES ASSUME NEW evs \in Seq(Event) PROVE Draws(evs) \subseteq Nat
  OBVIOUS
<1>1. \A i \in DOMAIN evs : evs[i] \in Event
  BY ElementOfSeq, LenProperties
<1>2. \A e \in Event : e.n \in Nat
  BY DEF Event
<1> QED
  BY <1>1, <1>2 DEF Draws

\* The destructor empties the builders.
LEMMA DestroyType ==
  ASSUME TypeOK, DestroyPaper
  PROVE  broadcast' \in Seq(Event) /\ storage' \in Seq(Event) /\ lost' \subseteq Nat
<1>1. Draws(storage) \subseteq Nat
  BY DrawsType DEF TypeOK
<1>2. broadcast' = <<>> /\ storage' = <<>> /\ lost' = lost \union Draws(storage)
  BY DEF DestroyPaper
<1>3. lost \subseteq Nat
  BY DEF TypeOK
<1>4. lost' \subseteq Nat
  BY <1>1, <1>2, <1>3
<1> QED
  BY <1>2, <1>4

\* store() moves events from the builder to the file.
LEMMA WriteStorageType ==
  ASSUME TypeOK, WriteStorage
  PROVE  storage' \in Seq(Event) /\ disk' \in Seq(Block)
<1>1. [events |-> storage, ok |-> TRUE] \in Block
  BY DEF TypeOK, Block
<1> QED
  BY <1>1 DEF WriteStorage, TypeOK

\* The pop of a request leaves requests.
LEMMA NeedDataType ==
  ASSUME TypeOK, need_data_sessions # <<>>, PopNeedData
  PROVE  need_data_sessions' \in Seq(Sessions) /\ io' \in {"waiting", "serving"}
BY DEF PopNeedData, TypeOK

\* A thread that goes to one of its labels.
LEMMA GotoType ==
  ASSUME TypeOK, NEW s \in Sessions,
         NEW label \in {"idle", "low", "cursor", "joining", "starting", "request", "leaving",
                        "cleanup", "dead"},
         Goto(s, label)
  PROVE  pc' \in [Sessions -> {"idle", "low", "cursor", "joining", "starting", "request",
                               "leaving", "cleanup", "dead"}]
BY DEF TypeOK, Goto

----------------------------------------------------------------------------
(***************************************************************************)
(* What the steps do to the queues: an enqueue of messages, a callback, or *)
(* nothing but that connections close.                                     *)
(***************************************************************************)
LEMMA EnqueueOne ==
  ASSUME NEW s \in Sessions, NEW msgs \in Seq(Message), EnqueueTo(s, msgs)
  PROVE  \E q \in [Sessions -> Seq(Message)] : EnqueueAll(q) /\ q[s] = msgs
<1> DEFINE q == [t \in Sessions |-> IF t = s THEN msgs ELSE <<>>]
<1>1. q \in [Sessions -> Seq(Message)] /\ q[s] = msgs
  OBVIOUS
<1>2. EnqueueAll(q)
  BY DEF EnqueueTo
<1> HIDE DEF q
<1> QED
  BY <1>1, <1>2, Zenon

\* Each way stream() can end enqueues something to its session.
LEMMA StreamEnqueues ==
  ASSUME TypeOK, NEW s \in Sessions, Stream(s)
  PROVE  \E q \in [Sessions -> Seq(Message)] : EnqueueAll(q) /\ q[s] # <<>>
<1>1. CASE StreamBlock(s)
  <2> DEFINE block == Msg("Block", 0, disk[streaming_offset[s] + 1].events)
  <2>1. disk[streaming_offset[s] + 1] \in Block
    BY <1>1 DEF StreamBlock, TypeOK
  <2>2. disk[streaming_offset[s] + 1].events \in Seq(Event)
    BY <2>1 DEF Block
  <2>3. block \in Message
    BY <2>2, MessageTypes, EventTypes
  <2>4. EnqueueTo(s, <<block>>)
    BY <1>1 DEF StreamBlock
  <2> HIDE DEF block
  <2>5. <<block>> \in Seq(Message) /\ <<block>> # <<>>
    BY <2>3
  <2>6. PICK q \in [Sessions -> Seq(Message)] : EnqueueAll(q) /\ q[s] = <<block>>
    BY <2>4, <2>5, EnqueueOne
  <2> QED
    BY <2>5, <2>6, Zenon
<1>2. CASE StreamCorrupt(s)
  <2> DEFINE error == Msg("Error", 0, <<>>)
  <2>1. EnqueueTo(s, <<error>>) /\ <<error>> \in Seq(Message)
    BY <1>2, EmptyMessages DEF StreamCorrupt
  <2> HIDE DEF error
  <2>2. PICK q \in [Sessions -> Seq(Message)] : EnqueueAll(q) /\ q[s] = <<error>>
    BY <2>1, EnqueueOne
  <2>3. <<error>> # <<>>
    OBVIOUS
  <2> QED
    BY <2>2, <2>3, Zenon
<1>3. CASE StreamEnd(s)
  <2> DEFINE synced == Msg("StreamSynced", id[s], <<>>)
             block == Msg("Block", 0, storage)
             msgs == IF storage = <<>> THEN <<synced>> ELSE <<block, synced>>
  <2>1. synced \in Message /\ block \in Message
    <3>1. <<>> \in Seq(Event) /\ storage \in Seq(Event) /\ id[s] \in ClientId
      BY DEF TypeOK
    <3> QED
      BY <3>1, MessageTypes, EventTypes
  <2>2. EnqueueTo(s, msgs)
    BY <1>3 DEF StreamEnd
  <2> HIDE DEF synced, block
  <2>3. msgs \in Seq(Message) /\ msgs # <<>>
    BY <2>1
  <2> HIDE DEF msgs
  <2>4. PICK q \in [Sessions -> Seq(Message)] : EnqueueAll(q) /\ q[s] = msgs
    BY <2>2, <2>3, EnqueueOne
  <2> QED
    BY <2>3, <2>4, Zenon
<1> QED
  BY <1>1, <1>2, <1>3 DEF Stream

\* What a frame has collected is nothing or one message.
LEMMA CollectedType ==
  ASSUME TypeOK
  PROVE  /\ Frame(broadcast, moved) \in Message
         /\ Collected = IF broadcast # <<>> \/ moved # {} THEN <<Frame(broadcast, moved)>> ELSE <<>>
         /\ Collected \in Seq(Message)
<1>1. Frame(broadcast, moved) \in Message
  BY MessageTypes, EventTypes DEF TypeOK
<1> QED
  BY <1>1 DEF Collected

\* A frame is an enqueue of well-formed messages.
LEMMA FrameEnqueues ==
  ASSUME TypeOK, SendFrame
  PROVE  \E q \in [Sessions -> Seq(Message)] : EnqueueAll(q)
<1> DEFINE q == [s \in Sessions |-> IF Live(s) THEN Collected ELSE <<>>]
<1>1. EnqueueAll(q)
  BY DEF SendFrame
<1>2. q \in [Sessions -> Seq(Message)]
  BY CollectedType
<1> HIDE DEF q
<1> QED
  BY <1>1, <1>2

\* While a frame collects the cursors it sends nothing and touches nothing else.
LEMMA CollectKeeps ==
  ASSUME CollectCursors
  PROVE  FrameRuns /\ UNCHANGED <<queueVars, broadcast>>
BY DEF CollectCursors, SkipCursor, FrameCursor, LowerFlag, ReadCursor

\* No step does anything else to the queues.
LEMMA QueueStep ==
  ASSUME TypeOK, [Next]_vars
  PROVE  \/ \E q \in [Sessions -> Seq(Message)] : EnqueueAll(q)
         \/ \E s \in Sessions : RunDeferred(s) \/ Drain(s)
         \/ /\ UNCHANGED <<msg_queue, deferred, buffered, wire>>
            /\ ws' \in [Sessions -> BOOLEAN]
            /\ \A s \in Sessions : ws'[s] => ws[s]
<1> USE DEF msVars, queueVars, sessionVars, builderVars, paperVars, frameVars, ioVars,
            ghostVars
<1>1. UNCHANGED queueVars => /\ UNCHANGED <<msg_queue, deferred, buffered, wire>>
                             /\ ws' \in [Sessions -> BOOLEAN]
                             /\ \A s \in Sessions : ws'[s] => ws[s]
  BY DEF TypeOK, QueueTypeOK
<1>2. ASSUME NEW s \in Sessions, JoinEnd(s) \/ JoinFull(s) \/ Rejected(s)
      PROVE  \E q \in [Sessions -> Seq(Message)] : EnqueueAll(q)
  BY <1>2, EmptyMessages, EnqueueOne DEF JoinEnd, JoinFull, Rejected
<1>3. ASSUME NEW s \in Sessions, Handler(s),
             ~JoinEnd(s), ~JoinFull(s), ~Rejected(s), ~Callback(s), ~Close(s)
      PROVE  UNCHANGED queueVars
  BY <1>3 DEF Handler, JoinStart, JoinId, RequestData, QueueLow, AddDraw, MoveCursor,
              FlagCursor, ClientLeft, Cleanup
<1>4. ASSUME NEW s \in Sessions, Close(s)
      PROVE  /\ UNCHANGED <<msg_queue, deferred, buffered, wire>>
             /\ ws' \in [Sessions -> BOOLEAN]
             /\ \A t \in Sessions : ws'[t] => ws[t]
  BY <1>4 DEF Close, Disconnect, TypeOK, QueueTypeOK
<1>5. CASE StreamCrash
  BY <1>5 DEF StreamCrash
<1>6. CASE CollectCursors \/ IoWake \/ IoTimeout \/ IoCheck \/ IoStore \/ IoClear \/ IoSnapshot
  BY <1>1, <1>6, CollectKeeps DEF IoWake, IoTimeout, IoCheck, IoStore, IoClear, IoSnapshot
<1>7. CASE UNCHANGED vars
  BY <1>1, <1>7 DEF vars
<1> QED
  BY <1>1, <1>2, <1>3, <1>4, <1>5, <1>6, <1>7, StreamEnqueues, FrameEnqueues
     DEF Next, Callback

\* The queues keep their types.
LEMMA QueueTypeStep ==
  ASSUME TypeOK, [Next]_vars
  PROVE  QueueTypeOK(Message)'
<1>1. CASE /\ UNCHANGED <<msg_queue, deferred, buffered, wire>>
           /\ ws' \in [Sessions -> BOOLEAN]
  BY <1>1 DEF TypeOK, QueueTypeOK
<1> QED
  BY <1>1, QueueStep, EnqueueAllType, CallbackType DEF TypeOK

\* NotStuck, proved for the queue alone, holds in the paper as well.
LEMMA NotStuckStep ==
  ASSUME TypeOK, NotStuck, [Next]_vars
  PROVE  NotStuck'
<1>1. CASE /\ UNCHANGED <<msg_queue, deferred, buffered, wire>>
           /\ \A s \in Sessions : ws'[s] => ws[s]
  BY <1>1 DEF NotStuck
<1> QED
  BY <1>1, QueueStep, EnqueueNotStuck, CallbackNotStuck DEF TypeOK

----------------------------------------------------------------------------
(***************************************************************************)
(* Type correctness: every step of every thread.                           *)
(***************************************************************************)
LEMMA TypeStep ==
  ASSUME TypeOK, JoinOK, ServingOK, [Next]_vars
  PROVE  TypeOK'
<1> DEFINE Labels == {"idle", "low", "cursor", "joining", "starting", "request",
                      "leaving", "cleanup", "dead"}
<1> USE DEF msVars, queueVars, sessionVars, builderVars, paperVars, frameVars, ioVars,
            ghostVars
<1>0. QueueTypeOK(Message)'
  BY QueueTypeStep
<1>1. ASSUME NEW s \in Sessions, JoinStart(s) PROVE TypeOK'
  <2>1. shared_session' \in [Sessions -> BOOLEAN] /\ seen' \in Nat
    BY <1>1 DEF JoinStart, TypeOK
  <2>2. pc' \in [Sessions -> Labels]
    BY <1>1, GotoType DEF JoinStart
  <2> QED
    BY <1>0, <1>1, <2>1, <2>2 DEF JoinStart, TypeOK
<1>2. ASSUME NEW s \in Sessions, JoinId(s) PROVE TypeOK'
  <2>1. FirstFreeId \in ClientId
    BY <1>2, FirstFreeIdIsFree DEF JoinId, JoinOK, Joining
  <2>2. Ev("ClientJoined", FirstFreeId, 0) \in Event
    BY <2>1, EventTypes
  <2>3. broadcast' \in Seq(Event)
    BY <1>2, <2>2, RaceType DEF JoinId
  <2>4. clobbered' \subseteq Nat
    BY <1>2, DrawsType, <2>3 DEF JoinId, TypeOK
  <2> QED
    BY <1>0, <1>2, <2>1, <2>3, <2>4 DEF JoinId, Goto, TypeOK
<1>3. ASSUME NEW s \in Sessions, JoinEnd(s) \/ JoinFull(s) \/ Rejected(s) PROVE TypeOK'
  BY <1>0, <1>3 DEF JoinEnd, JoinFull, Rejected, Goto, TypeOK
<1>4. ASSUME NEW s \in Sessions, RequestData(s) \/ QueueLow(s) PROVE TypeOK'
  <2>1. need_data_sessions' \in Seq(Sessions) /\ notified' \in BOOLEAN
    <3>1. CASE RequestData(s)
      <4>1. need_data_sessions' \in Seq(Sessions)
        BY <3>1 DEF RequestData, TypeOK
      <4>2. notified' \in BOOLEAN
        BY <3>1, Zenon DEF RequestData, TypeOK
      <4> QED
        BY <4>1, <4>2
    <3>2. CASE QueueLow(s)
      BY <3>2 DEF QueueLow, TypeOK
    <3> QED
      BY <1>4, <3>1, <3>2
  <2>2. pc' \in [Sessions -> Labels]
    BY <1>4, GotoType DEF RequestData, QueueLow
  <2> QED
    BY <1>0, <1>4, <2>1, <2>2 DEF RequestData, QueueLow, TypeOK
<1>5. ASSUME NEW s \in Sessions, Callback(s) PROVE TypeOK'
  <2>1. pc' \in [Sessions -> Labels]
    BY <1>5 DEF Callback, RunDeferred, Drain, SendQueue, AfterSend, TypeOK
  <2> QED
    BY <1>0, <1>5, <2>1 DEF Callback, TypeOK
<1>6. ASSUME NEW s \in Sessions, NEW kind, AddDraw(s, kind) PROVE TypeOK'
  <2>1. Ev(kind, id[s], Len(events) + 1) \in Event
    BY <1>6, EventTypes DEF AddDraw, TypeOK
  <2>2. kind \in {"Stored", "Transient", "Cursor"} /\ events' = Append(events, kind)
    BY <1>6 DEF AddDraw, CanCommand
  <2> QED
    <3>1. broadcast' \in Seq(Event) /\ storage' \in Seq(Event)
      BY <1>6, <2>1 DEF AddDraw, TypeOK
    <3>2. events' \in Seq({"Stored", "Transient", "Cursor"})
      BY <2>2 DEF TypeOK
    <3> QED
      BY <1>0, <1>6, <3>1, <3>2 DEF AddDraw, TypeOK
<1>7. ASSUME NEW s \in Sessions, MoveCursor(s) \/ FlagCursor(s) PROVE TypeOK'
  <2>1. /\ events' \in Seq({"Stored", "Transient", "Cursor"})
        /\ cursor' \in [Sessions -> Nat]
        /\ cursor_changed' \in [Sessions -> BOOLEAN]
    <3>1. CASE MoveCursor(s)
      <4>1. events' = Append(events, "Cursor") /\ cursor' = [cursor EXCEPT ![s] = Len(events) + 1]
        BY <3>1 DEF MoveCursor, CanCommand
      <4>2. events' \in Seq({"Stored", "Transient", "Cursor"})
        BY <4>1 DEF TypeOK
      <4>3. cursor' \in [Sessions -> Nat]
        BY <4>1 DEF TypeOK
      <4> QED
        BY <3>1, <4>2, <4>3 DEF MoveCursor, TypeOK
    <3>2. CASE FlagCursor(s)
      BY <3>2 DEF FlagCursor, TypeOK
    <3> QED
      BY <1>7, <3>1, <3>2
  <2>2. pc' \in [Sessions -> Labels]
    BY <1>7, GotoType DEF MoveCursor, FlagCursor
  <2> QED
    BY <1>0, <1>7, <2>1, <2>2 DEF MoveCursor, FlagCursor, TypeOK
<1>8. ASSUME NEW s \in Sessions, Close(s) PROVE TypeOK'
  BY <1>0, <1>8 DEF Close, Disconnect, Goto, TypeOK
<1>9. ASSUME NEW s \in Sessions, ClientLeft(s) PROVE TypeOK'
  <2>1. Ev("ClientLeft", id[s], 0) \in Event
    BY <1>9, EventTypes DEF TypeOK
  <2> QED
    <3>1. broadcast' \in Seq(Event)
      BY <1>9, <2>1 DEF ClientLeft, TypeOK
    <3>2. pc' \in [Sessions -> Labels]
      BY <1>9, GotoType DEF ClientLeft
    <3> QED
      BY <1>0, <1>9, <3>1, <3>2 DEF ClientLeft, TypeOK
<1>10. ASSUME NEW s \in Sessions, Cleanup(s) PROVE TypeOK'
  <2>1. Ev("Cleanup", id[s], 0) \in Event
    BY <1>10, EventTypes DEF TypeOK
  <2> QED
    <3>1. /\ broadcast' \in Seq(Event) /\ storage' \in Seq(Event)
          /\ lost' \subseteq Nat
          /\ shared_session' \in [Sessions -> BOOLEAN]
      <4>1. shared_session' \in [Sessions -> BOOLEAN]
        BY <1>10 DEF Cleanup, TypeOK
      <4>2. CASE Alive(shared_session', store_sessions)
        <5>1. broadcast' = Append(broadcast, Ev("Cleanup", id[s], 0)) /\ UNCHANGED <<storage, lost>>
          BY <1>10, <4>2 DEF Cleanup
        <5>2. broadcast' \in Seq(Event)
          BY <2>1, <5>1 DEF TypeOK
        <5> QED
          BY <4>1, <5>1, <5>2 DEF TypeOK
      <4>3. CASE ~Alive(shared_session', store_sessions)
        BY <1>10, <4>1, <4>3, DestroyType DEF Cleanup
      <4> QED
        BY <4>1, <4>2, <4>3
    <3>2. pc' \in [Sessions -> Labels]
      BY <1>10, GotoType DEF Cleanup
    <3> QED
      BY <1>0, <1>10, <3>1, <3>2 DEF Cleanup, TypeOK
<1>11. ASSUME CollectCursors \/ SendFrame PROVE TypeOK'
  <2>1. CASE SendFrame
    BY <1>0, <2>1 DEF SendFrame, FrameEnds, FrameRuns, TypeOK
  <2>2. CASE CollectCursors
    <3>1. PICK s \in Sessions : SkipCursor(s) \/ LowerFlag(s) \/ ReadCursor(s)
      BY <2>2 DEF CollectCursors, FrameCursor
    <3>2. /\ cursor_changed' \in [Sessions -> BOOLEAN]
          /\ passed' \subseteq Sessions /\ reading' \subseteq Sessions
      BY <3>1 DEF SkipCursor, LowerFlag, ReadCursor, TypeOK
    <3>3. moved' \subseteq Event
      <4>1. \A n \in ReadablePositions(s) : Ev("Cursor", id[s], n) \in Event
        BY EventTypes DEF ReadablePositions, TypeOK
      <4> QED
        BY <3>1, <4>1 DEF SkipCursor, LowerFlag, ReadCursor, TypeOK
    <3> QED
      BY <1>0, <2>2, <3>2, <3>3, CollectKeeps DEF FrameRuns, TypeOK
  <2> QED
    BY <1>11, <2>1, <2>2
<1>12. ASSUME IoWake \/ IoTimeout \/ IoCheck PROVE TypeOK'
  BY <1>0, <1>12, NeedDataType DEF IoWake, IoTimeout, IoCheck, ServingOK, TypeOK
<1>13. ASSUME NEW s \in Sessions, Stream(s) PROVE TypeOK'
  <2>1. /\ need_data_sessions' \in Seq(Sessions)
        /\ io' \in {"waiting", "serving"}
    BY <1>13, NeedDataType DEF Stream, StreamBlock, StreamCorrupt, StreamEnd, Streamed, ServingOK
  <2>2. CASE StreamBlock(s)
    <3>1. streaming_offset' \in [Sessions -> Nat]
      BY <2>2 DEF StreamBlock, TypeOK
    <3> QED
      BY <1>0, <2>1, <2>2, <3>1 DEF StreamBlock, Streamed, TypeOK
  <2>3. CASE StreamCorrupt(s)
    BY <1>0, <2>1, <2>3 DEF StreamCorrupt, Streamed, TypeOK
  <2>4. CASE StreamEnd(s)
    <3>1. storage' \in Seq(Event) /\ disk' \in Seq(Block)
      BY <2>4, WriteStorageType DEF StreamEnd
    <3> QED
      BY <1>0, <2>1, <2>4, <3>1 DEF StreamEnd, Streamed, TypeOK
  <2> QED
    BY <1>13, <2>2, <2>3, <2>4 DEF Stream
<1>14. ASSUME StreamCrash PROVE TypeOK'
  BY <1>0, <1>14 DEF StreamCrash, TypeOK
<1>15. ASSUME IoStore PROVE TypeOK'
  BY <1>0, <1>15, WriteStorageType DEF IoStore, TypeOK
<1>16. ASSUME IoClear \/ IoSnapshot PROVE TypeOK'
  <2>1. Alive(shared_session, FALSE) \in BOOLEAN
    BY DEF Alive
  <2> QED
    <3>1. /\ broadcast' \in Seq(Event) /\ storage' \in Seq(Event)
          /\ lost' \subseteq Nat
          /\ store_sessions' \in BOOLEAN
      <4>1. CASE IoClear /\ Alive(shared_session, FALSE)
        BY <4>1 DEF IoClear, TypeOK
      <4>2. CASE IoClear /\ ~Alive(shared_session, FALSE)
        BY <4>2, DestroyType DEF IoClear
      <4>3. CASE IoSnapshot
        BY <2>1, <4>3 DEF IoSnapshot, TypeOK
      <4> QED
        BY <1>16, <4>1, <4>2, <4>3
    <3> QED
      BY <1>0, <1>16, <3>1 DEF IoClear, IoSnapshot, TypeOK
<1>17. CASE UNCHANGED vars
  BY <1>0, <1>17 DEF vars, TypeOK
<1> QED
  BY <1>1, <1>2, <1>3, <1>4, <1>5, <1>6, <1>7, <1>8, <1>9, <1>10, <1>11, <1>12, <1>13, <1>14, <1>15, <1>16, <1>17 DEF Next, Handler

(***************************************************************************)
(* One join() at a time, and its free id stays free.                       *)
(***************************************************************************)
LEMMA JoinStep ==
  ASSUME TypeOK, JoinOK, MembersOK, [Next]_vars
  PROVE  JoinOK'
<1> USE DEF msVars, queueVars, sessionVars, builderVars, paperVars, frameVars, ioVars,
            ghostVars
\* No thread comes to a label of join(), and there are no new members.
<1>1. ASSUME \A t \in Sessions : Joining(t)' => pc'[t] = pc[t],
             msg_sessions' \subseteq msg_sessions, id' = id
      PROVE  JoinOK'
  <2>1. FreeIds \subseteq FreeIds'
    BY <1>1 DEF FreeIds
  <2> QED
    BY <1>1, <2>1 DEF JoinOK, Joining
<1>2. ASSUME NEW s \in Sessions, JoinStart(s) PROVE JoinOK'
  <2>1. FreeIds' = FreeIds /\ FreeIds # {}
    BY <1>2 DEF JoinStart, FreeIds
  <2>2. \A t \in Sessions : Joining(t)' => t = s /\ pc'[t] = "joining"
    BY <1>2 DEF JoinStart, SessionsFree, Goto, Joining, TypeOK
  <2> QED
    BY <2>1, <2>2 DEF JoinOK
<1>3. ASSUME NEW s \in Sessions, JoinId(s) PROVE JoinOK'
  <2>1. \A t \in Sessions : Joining(t)' => t = s /\ pc'[t] = "starting"
    BY <1>3 DEF JoinId, Goto, JoinOK, Joining, TypeOK
  <2>2. FirstFreeId \in FreeIds
    BY <1>3, FirstFreeIdIsFree DEF JoinId, JoinOK, Joining
  <2>3. s \notin msg_sessions
    BY <1>3 DEF JoinId, MembersOK, Joining
  <2>4. FreeIds' = FreeIds /\ id'[s] = FirstFreeId
    BY <1>3, <2>3 DEF JoinId, FreeIds, TypeOK
  <2> QED
    BY <2>1, <2>2, <2>4 DEF JoinOK
<1>4. ASSUME NEW s \in Sessions, Handler(s), ~JoinStart(s), ~JoinId(s) PROVE JoinOK'
  <2>1. CASE JoinEnd(s)
    BY <2>1 DEF JoinEnd, Goto, JoinOK, Joining, TypeOK
  <2>2. CASE ~JoinEnd(s)
    <3>1. msg_sessions' \subseteq msg_sessions /\ id' = id
      BY <1>4, <2>2 DEF Handler, JoinFull, Rejected, RequestData, QueueLow, Callback, AddDraw,
                  MoveCursor, FlagCursor, Close, ClientLeft, Cleanup
    <3>2. \A t \in Sessions : Joining(t)' => pc'[t] = pc[t]
      BY <1>4, <2>2 DEF Handler, JoinFull, Rejected, RequestData, QueueLow, Callback, AddDraw,
                  MoveCursor, FlagCursor, Close, ClientLeft, Cleanup, Goto, RunDeferred, Drain,
                  SendQueue, AfterSend, Joining, TypeOK
    <3> QED
      BY <1>1, <3>1, <3>2
  <2> QED
    BY <2>1, <2>2
<1>5. ASSUME NEW s \in Sessions, Stream(s) PROVE JoinOK'
  BY <1>1, <1>5 DEF Stream, StreamBlock, StreamCorrupt, StreamEnd, Streamed
<1>6. CASE CollectCursors \/ SendFrame \/ StreamCrash
  BY <1>1, <1>6, CollectKeeps DEF SendFrame, FrameEnds, FrameRuns, StreamCrash, Joining
<1>7. CASE IoWake \/ IoTimeout \/ IoCheck \/ IoStore \/ IoClear \/ IoSnapshot
  BY <1>1, <1>7 DEF IoWake, IoTimeout, IoCheck, IoStore, IoClear, IoSnapshot
<1>8. CASE UNCHANGED vars
  BY <1>1, <1>8 DEF vars
<1> QED
  BY <1>2, <1>3, <1>4, <1>5, <1>6, <1>7, <1>8 DEF Next

(***************************************************************************)
(* A session joins before it is a member and leaves before it loses its    *)
(* paper.                                                                  *)
(***************************************************************************)
LEMMA MembersStep ==
  ASSUME TypeOK, MembersOK, [Next]_vars
  PROVE  MembersOK'
<1> USE DEF msVars, queueVars, sessionVars, builderVars, paperVars, frameVars, ioVars,
            ghostVars
<1>1. ASSUME NEW s \in Sessions, Handler(s) PROVE MembersOK'
  <2>1. ASSUME NEW t \in Sessions, t # s
        PROVE  /\ pc'[t] = pc[t] /\ shared_session'[t] = shared_session[t]
               /\ t \in msg_sessions' <=> t \in msg_sessions
    BY <1>1, <2>1 DEF Handler, JoinStart, JoinId, JoinEnd, JoinFull, Rejected, RequestData,
                      QueueLow, Callback, AddDraw, MoveCursor, FlagCursor, Close, ClientLeft,
                      Cleanup, Goto, RunDeferred, Drain, SendQueue, TypeOK
  <2>2. CASE JoinStart(s) \/ JoinId(s) \/ JoinEnd(s) \/ JoinFull(s) \/ Rejected(s)
    BY <2>1, <2>2 DEF JoinStart, JoinId, JoinEnd, JoinFull, Rejected, Goto, MembersOK,
                      Joining, TypeOK
  <2>3. CASE RequestData(s) \/ QueueLow(s) \/ MoveCursor(s) \/ FlagCursor(s)
               \/ AddDraw(s, "Stored") \/ AddDraw(s, "Transient")
    BY <2>1, <2>3 DEF RequestData, QueueLow, MoveCursor, FlagCursor, AddDraw, CanCommand, Goto,
                      MembersOK, Joining, TypeOK
  <2>4. CASE Callback(s)
    <3>1. pc'[s] \in {pc[s], "low", "idle"} /\ pc[s] = "idle"
             /\ UNCHANGED <<msg_sessions, shared_session>>
      BY <2>4 DEF Callback, RunDeferred, Drain, SendQueue, AfterSend, TypeOK
    <3> QED
      BY <2>1, <3>1 DEF MembersOK, Joining
  <2>5. CASE Close(s) \/ ClientLeft(s) \/ Cleanup(s)
    BY <2>1, <2>5 DEF Close, ClientLeft, Cleanup, Goto, MembersOK, Joining, TypeOK
  <2> QED
    BY <1>1, <2>2, <2>3, <2>4, <2>5 DEF Handler
<1>2. ASSUME NEW s \in Sessions, Stream(s) PROVE MembersOK'
  BY <1>2 DEF Stream, StreamBlock, StreamCorrupt, StreamEnd, Streamed, MembersOK, Joining
<1>3. CASE CollectCursors \/ SendFrame \/ StreamCrash
  BY <1>3, CollectKeeps DEF SendFrame, FrameEnds, FrameRuns, StreamCrash, MembersOK, Joining
<1>4. CASE IoWake \/ IoTimeout \/ IoCheck \/ IoStore \/ IoClear \/ IoSnapshot
  BY <1>4 DEF IoWake, IoTimeout, IoCheck, IoStore, IoClear, IoSnapshot, MembersOK, Joining
<1>5. CASE UNCHANGED vars
  BY <1>5 DEF vars, MembersOK, Joining
<1> QED
  BY <1>1, <1>2, <1>3, <1>4, <1>5 DEF Next

(***************************************************************************)
(* A request stays in the list while it is served.                         *)
(***************************************************************************)
LEMMA ServingStep ==
  ASSUME TypeOK, ServingOK, [Next]_vars
  PROVE  ServingOK'
<1> USE DEF msVars, queueVars, sessionVars, builderVars, paperVars, frameVars, ioVars,
            ghostVars
<1>1. CASE UNCHANGED <<io, need_data_sessions>>
  BY <1>1 DEF ServingOK
<1>2. ASSUME NEW s \in Sessions, RequestData(s) PROVE ServingOK'
  BY <1>2 DEF RequestData, NeedDataFree, ServingOK
<1>3. ASSUME need_data_sessions # <<>>, PopNeedData PROVE ServingOK'
  <2>1. need_data_sessions \in Seq(Sessions)
    BY DEF TypeOK
  <2>2. Len(Tail(need_data_sessions)) = Len(need_data_sessions) - 1
    BY <1>3, <2>1, HeadTailProperties
  <2>3. Len(need_data_sessions) # 1 => Tail(need_data_sessions) # <<>>
    <3>1. Len(<<>>) = 0 /\ Len(need_data_sessions) \in Nat
      BY <2>1
    <3>2. Tail(need_data_sessions) = <<>> => Len(need_data_sessions) - 1 = 0
      BY <2>2, <3>1, Zenon
    <3> QED
      BY <3>1, <3>2
  <2> QED
    BY <1>3, <2>3 DEF PopNeedData, ServingOK
<1>4. ASSUME NEW s \in Sessions, Handler(s), ~RequestData(s)
      PROVE  UNCHANGED <<io, need_data_sessions>>
  BY <1>4 DEF Handler, JoinStart, JoinId, JoinEnd, JoinFull, Rejected, QueueLow, Callback,
              AddDraw, MoveCursor, FlagCursor, Close, ClientLeft, Cleanup
<1>5. ASSUME NEW s \in Sessions, Stream(s) PROVE ServingOK'
  BY <1>3, <1>5 DEF Stream, StreamBlock, StreamCorrupt, StreamEnd, Streamed, ServingOK
<1>6. CASE CollectCursors \/ SendFrame
  BY <1>1, <1>6, CollectKeeps DEF SendFrame, FrameEnds, FrameRuns
<1>7. CASE IoWake \/ IoTimeout \/ IoStore \/ IoClear \/ IoSnapshot \/ StreamCrash
  BY <1>7 DEF IoWake, IoTimeout, IoStore, IoClear, IoSnapshot, StreamCrash, ServingOK
<1>8. CASE IoCheck
  BY <1>3, <1>8 DEF IoCheck, ServingOK
<1>9. CASE UNCHANGED vars
  BY <1>1, <1>9 DEF vars
<1> QED
  BY <1>1, <1>2, <1>4, <1>5, <1>6, <1>7, <1>8, <1>9 DEF Next

----------------------------------------------------------------------------
(***************************************************************************)
(* Type correctness, with the facts about join(), the members and the io   *)
(* thread that it takes.                                                   *)
(***************************************************************************)
LEMMA TypeInvariant == Spec => [](TypeOK /\ JoinOK /\ MembersOK /\ ServingOK)
<1>1. Init => TypeOK /\ JoinOK /\ MembersOK /\ ServingOK
  <2> SUFFICES ASSUME Init PROVE TypeOK /\ JoinOK /\ MembersOK /\ ServingOK
    OBVIOUS
  <2>1. QueueTypeOK(Message)
    BY DEF Init, QueueInit, QueueTypeOK
  <2>2. disk \in Seq(Block) /\ events \in Seq({"Stored", "Transient", "Cursor"})
    BY InitialPapersAssumption DEF Init
  <2>3. 0 \in ClientId
    BY EventTypes
  <2>4. /\ pc = [s \in Sessions |-> "idle"]
        /\ id \in [Sessions -> ClientId]
        /\ shared_session \in [Sessions -> BOOLEAN]
        /\ streaming \in [Sessions -> BOOLEAN]
        /\ cursor_changed \in [Sessions -> BOOLEAN]
        /\ streaming_offset \in [Sessions -> Nat]
        /\ cursor \in [Sessions -> Nat]
    BY <2>3 DEF Init, QueueInit
  <2>5. TypeOK
    <3>1. pc \in [Sessions -> {"idle", "low", "cursor", "joining", "starting", "request",
                               "leaving", "cleanup", "dead"}]
      BY <2>4
    <3>2. /\ broadcast \in Seq(Event) /\ storage \in Seq(Event)
          /\ need_data_sessions \in Seq(Sessions)
      BY DEF Init
    <3>3. /\ msg_sessions \subseteq Sessions /\ seen \in Nat
          /\ notified \in BOOLEAN /\ store_sessions \in BOOLEAN
          /\ lost \subseteq Nat /\ clobbered \subseteq Nat
          /\ io = "waiting" /\ passed = {} /\ reading = {} /\ moved = {}
      BY DEF Init
    <3> QED
      BY <2>1, <2>2, <2>4, <3>1, <3>2, <3>3 DEF TypeOK
  <2> QED
    BY <2>4, <2>5 DEF Init, JoinOK, MembersOK, Joining, ServingOK
<1> QED
  BY <1>1, TypeStep, JoinStep, MembersStep, ServingStep, PTL DEF Spec

\* Types, for any clients, papers and bounds.
THEOREM TypeCorrect == Spec => []TypeOK
BY TypeInvariant, PTL

----------------------------------------------------------------------------
(***************************************************************************)
(* Ids are unique: join() takes one that no member has, and no step        *)
(* between the search and the membership changes ids or members.           *)
(***************************************************************************)
LEMMA UniqueIdsStep ==
  ASSUME TypeOK, JoinOK, MembersOK, UniqueIds, [Next]_vars
  PROVE  UniqueIds'
<1> USE DEF msVars, queueVars, sessionVars, builderVars, paperVars, frameVars, ioVars,
            ghostVars
<1>1. CASE msg_sessions' \subseteq msg_sessions /\ \A t \in msg_sessions : id'[t] = id[t]
  BY <1>1 DEF UniqueIds
<1>2. ASSUME NEW s \in Sessions, JoinEnd(s) PROVE UniqueIds'
  <2>1. id[s] \in FreeIds /\ msg_sessions' = msg_sessions \union {s} /\ id' = id
    BY <1>2 DEF JoinEnd, JoinOK, Joining
  <2>2. id[s] # 0 /\ \A t \in msg_sessions : id[t] # id[s]
    BY <2>1, MaxClientIdAssumption DEF FreeIds
  <2> QED
    BY <2>1, <2>2 DEF UniqueIds
<1>3. ASSUME NEW s \in Sessions, Handler(s), ~JoinEnd(s)
      PROVE  msg_sessions' \subseteq msg_sessions /\ \A t \in msg_sessions : id'[t] = id[t]
  <2>1. CASE JoinId(s)
    <3>1. s \notin msg_sessions
      BY <2>1 DEF JoinId, MembersOK, Joining
    <3> QED
      BY <2>1, <3>1 DEF JoinId, TypeOK
  <2>2. CASE ~JoinId(s)
    BY <1>3, <2>2 DEF Handler, JoinStart, JoinFull, Rejected, RequestData, QueueLow, Callback,
                AddDraw, MoveCursor, FlagCursor, Close, ClientLeft, Cleanup
  <2> QED
    BY <2>1, <2>2
<1>4. ASSUME NEW s \in Sessions, Stream(s)
      PROVE  msg_sessions' = msg_sessions /\ id' = id
  BY <1>4 DEF Stream, StreamBlock, StreamCorrupt, StreamEnd, Streamed
<1>5. CASE CollectCursors \/ SendFrame \/ StreamCrash
  BY <1>1, <1>5, CollectKeeps DEF SendFrame, FrameEnds, FrameRuns, StreamCrash
<1>6. CASE IoWake \/ IoTimeout \/ IoCheck \/ IoStore \/ IoClear \/ IoSnapshot
  BY <1>1, <1>6 DEF IoWake, IoTimeout, IoCheck, IoStore, IoClear, IoSnapshot
<1>7. CASE UNCHANGED vars
  BY <1>1, <1>7 DEF vars
<1> QED
  BY <1>1, <1>2, <1>3, <1>4, <1>5, <1>6, <1>7 DEF Next

\* No two members share an id, however many ids and clients there are.
THEOREM IdsUnique == Spec => []UniqueIds
<1>1. Init => UniqueIds
  BY DEF Init, UniqueIds
<1> QED
  BY <1>1, UniqueIdsStep, TypeInvariant, PTL DEF Spec

----------------------------------------------------------------------------
(***************************************************************************)
(* Streams go on: StreamContinues needs that a queue is never left behind, *)
(* and that the io thread drops no request of a session that streams.      *)
(***************************************************************************)
Requested(s) == \E i \in DOMAIN need_data_sessions : need_data_sessions[i] = s

\* The pop only takes the request at the front.
LEMMA PopKeepsOthers ==
  ASSUME TypeOK, need_data_sessions # <<>>, PopNeedData,
         NEW t \in Sessions, t # Head(need_data_sessions), Requested(t)
  PROVE  Requested(t)'
<1>1. need_data_sessions \in Seq(Sessions) /\ need_data_sessions' = Tail(need_data_sessions)
  BY DEF TypeOK, PopNeedData
<1>2. PICK i \in 1..Len(need_data_sessions) : need_data_sessions[i] = t
  BY <1>1 DEF Requested
<1>3. i # 1
  BY <1>1, <1>2
<1>4. i - 1 \in 1..Len(Tail(need_data_sessions)) /\ Tail(need_data_sessions)[i - 1] = t
  BY <1>1, <1>2, <1>3, HeadTailProperties
<1>5. DOMAIN Tail(need_data_sessions) = 1..Len(Tail(need_data_sessions))
  <2>1. Tail(need_data_sessions) \in Seq(Sessions)
    BY <1>1, HeadTailProperties
  <2> QED
    BY <2>1, LenProperties
<1>6. i - 1 \in DOMAIN need_data_sessions' /\ need_data_sessions'[i - 1] = t
  BY <1>1, <1>4, <1>5, Zenon
<1> QED
  BY <1>6, Zenon DEF Requested

\* After an enqueue to an open session something will be sent.
LEMMA EnqueueWillSend ==
  ASSUME TypeOK, NotStuck, NEW q \in [Sessions -> Seq(Message)], EnqueueAll(q),
         NEW t \in Sessions
  PROVE  /\ deferred[t] > 0 => deferred'[t] > 0
         /\ buffered'[t] = buffered[t]
         /\ ws[t] /\ q[t] # <<>> => deferred'[t] > 0 \/ buffered'[t]
<1>1. deferred[t] \in Nat
  BY DEF TypeOK, QueueTypeOK
<1>2. /\ deferred'[t] = deferred[t] + (IF ws[t] /\ msg_queue[t] = <<>> /\ q[t] # <<>>
                                        THEN 1 ELSE 0)
      /\ buffered' = buffered
  BY DEF EnqueueAll, Deferrals
<1>3. ws[t] /\ msg_queue[t] # <<>> => deferred[t] > 0 \/ buffered[t]
  BY DEF NotStuck
<1> QED
  BY <1>1, <1>2, <1>3

\* A callback that empties the queue goes on to queue_low(); else the
\* socket is full.
LEMMA CallbackWillSend ==
  ASSUME TypeOK, NEW s \in Sessions, RunDeferred(s) \/ Drain(s), ws[s]
  PROVE  pc'[s] = "low" \/ buffered'[s]
<1>1. PICK blocked \in BOOLEAN : SendQueue(s, blocked)
  BY DEF RunDeferred, Drain, TypeOK, QueueTypeOK
<1>2. PICK k \in 0..Len(msg_queue[s]), full \in BOOLEAN :
        /\ Sendable(s, blocked, k, full)
        /\ buffered' = [buffered EXCEPT ![s] = full]
        /\ pc' = [pc EXCEPT ![s] = AfterSend(s, k)]
  BY <1>1 DEF SendQueue
<1>3. k < Len(msg_queue[s]) => full
  BY <1>2 DEF Sendable
<1>4. Len(msg_queue[s]) \in Nat
  BY DEF TypeOK, QueueTypeOK
<1>5. buffered'[s] = full /\ pc'[s] = AfterSend(s, k)
  BY <1>2 DEF TypeOK, QueueTypeOK
<1> QED
  BY <1>3, <1>4, <1>5 DEF AfterSend

\* What keeps the stream of a session going.
Driven(s) ==
  \/ pc[s] \in {"joining", "starting", "request", "low"}
  \/ Requested(s)
  \/ deferred[s] > 0 \/ buffered[s]

LEMMA ContinuesStep ==
  ASSUME TypeOK, ServingOK, NotStuck, StreamContinues, [Next]_vars
  PROVE  StreamContinues'
<1> USE DEF msVars, queueVars, sessionVars, builderVars, paperVars, frameVars, ioVars,
            ghostVars
<1>0. \A t \in Sessions : streaming[t] /\ ws[t] /\ shared_session[t] => Driven(t)
  BY DEF StreamContinues, Driven, Requested
<1> SUFFICES ASSUME NEW t \in Sessions, streaming'[t], ws'[t], shared_session'[t]
             PROVE  Driven(t)'
  BY DEF StreamContinues, Driven, Requested
<1>1. CASE UNCHANGED <<pc, need_data_sessions, deferred, buffered, streaming, ws,
                       shared_session>>
  BY <1>0, <1>1 DEF Driven, Requested
\* Enqueues: the session waits for no less than before.
<1>2. ASSUME NEW q \in [Sessions -> Seq(Message)], EnqueueAll(q)
      PROVE  /\ deferred[t] > 0 \/ buffered[t] => deferred'[t] > 0 \/ buffered'[t]
             /\ ws[t]
             /\ q[t] # <<>> => deferred'[t] > 0 \/ buffered'[t]
  <2>1. ws[t]
    BY <1>2 DEF EnqueueAll
  <2> QED
    BY <1>2, <2>1, EnqueueWillSend
<1>3. ASSUME NEW s \in Sessions, Handler(s) PROVE Driven(t)'
  <2>1. CASE JoinStart(s) \/ JoinId(s)
    <3>1. UNCHANGED <<need_data_sessions, deferred, buffered, ws>>
      BY <2>1 DEF JoinStart, JoinId
    <3>2. CASE t = s
      BY <2>1, <3>2 DEF JoinStart, JoinId, Goto, Driven, TypeOK
    <3>3. CASE t # s
      <4>1. streaming[t] /\ shared_session[t] /\ pc'[t] = pc[t]
        BY <2>1, <3>3 DEF JoinStart, JoinId, Goto, TypeOK
      <4> QED
        BY <1>0, <3>1, <4>1 DEF Driven, Requested
    <3> QED
      BY <3>2, <3>3
  <2>2. CASE JoinEnd(s)
    <3>1. CASE t = s
      BY <2>2, <3>1 DEF JoinEnd, Goto, Driven, TypeOK
    <3>2. CASE t # s
      <4>1. streaming[t] /\ shared_session[t] /\ pc'[t] = pc[t] /\ UNCHANGED need_data_sessions
        BY <2>2, <3>2 DEF JoinEnd, Goto, TypeOK
      <4>2. PICK q \in [Sessions -> Seq(Message)] : EnqueueAll(q)
        BY <2>2, EmptyMessages, EnqueueOne DEF JoinEnd
      <4> QED
        BY <1>0, <1>2, <4>1, <4>2 DEF Driven, Requested
    <3> QED
      BY <3>1, <3>2
  <2>3. CASE JoinFull(s) \/ Rejected(s)
    <3>1. streaming[t] /\ UNCHANGED <<pc, need_data_sessions>>
      BY <2>3 DEF JoinFull, Rejected
    <3>2. shared_session[t] \/ t = s
      BY <2>3 DEF JoinFull, Rejected, TypeOK
    <3> DEFINE error == <<Msg("Error", 0, <<>>)>>
    <3>3. error # <<>> /\ error \in Seq(Message) /\ EnqueueTo(s, error)
      BY <2>3, EmptyMessages DEF JoinFull, Rejected
    <3> HIDE DEF error
    <3>4. PICK q \in [Sessions -> Seq(Message)] : EnqueueAll(q) /\ q[s] = error
      BY <3>3, EnqueueOne
    <3>5. q[s] # <<>>
      BY <3>3, <3>4, Zenon
    <3> QED
      BY <1>0, <1>2, <3>1, <3>2, <3>4, <3>5 DEF Driven, Requested
  <2>4. CASE RequestData(s)
    <3>1. need_data_sessions' = Append(need_data_sessions, s)
      BY <2>4 DEF RequestData
    <3>2. Requested(t) \/ t = s => Requested(t)'
      <4>1. need_data_sessions \in Seq(Sessions)
        BY DEF TypeOK
      <4>2. /\ DOMAIN need_data_sessions' = 1..Len(need_data_sessions) + 1
            /\ need_data_sessions'[Len(need_data_sessions) + 1] = s
            /\ \A i \in DOMAIN need_data_sessions :
                 i \in DOMAIN need_data_sessions' /\ need_data_sessions'[i] = need_data_sessions[i]
        BY <3>1, <4>1, AppendProperties
      <4>3. Len(need_data_sessions) + 1 \in DOMAIN need_data_sessions'
        BY <4>1, <4>2
      <4> QED
        BY <4>2, <4>3, Zenon DEF Requested
    <3>3. /\ t # s => pc'[t] = pc[t]
          /\ UNCHANGED <<deferred, buffered, streaming, ws, shared_session>>
      BY <2>4 DEF RequestData, Goto, TypeOK
    <3> QED
      BY <1>0, <3>2, <3>3 DEF Driven
  <2>5. CASE QueueLow(s)
    <3>1. UNCHANGED <<need_data_sessions, deferred, buffered, streaming, ws, shared_session>>
      BY <2>5 DEF QueueLow
    <3>2. pc'[t] = pc[t] \/ pc'[t] = "request"
      BY <2>5, <3>1 DEF QueueLow, Goto, TypeOK
    <3> QED
      BY <1>0, <3>1, <3>2 DEF Driven, Requested
  <2>6. CASE Callback(s)
    <3>1. UNCHANGED <<need_data_sessions, streaming, ws, shared_session>>
      BY <2>6 DEF Callback, RunDeferred, Drain
    <3>2. CASE t = s
      BY <2>6, <3>1, <3>2, CallbackWillSend DEF Callback, Driven
    <3>3. CASE t # s
      <4>1. pc'[t] = pc[t] /\ deferred'[t] = deferred[t] /\ buffered'[t] = buffered[t]
        BY <2>6, <3>3 DEF Callback, RunDeferred, Drain, SendQueue, TypeOK, QueueTypeOK
      <4> QED
        BY <1>0, <3>1, <4>1 DEF Driven, Requested
    <3> QED
      BY <3>2, <3>3
  <2>7. CASE Close(s) \/ ClientLeft(s) \/ Cleanup(s) \/ MoveCursor(s) \/ FlagCursor(s)
               \/ AddDraw(s, "Stored") \/ AddDraw(s, "Transient")
    <3>1. UNCHANGED <<need_data_sessions, deferred, buffered, streaming>>
      BY <2>7 DEF Close, ClientLeft, Cleanup, MoveCursor, FlagCursor, AddDraw, Disconnect
    <3>2. ws[t] /\ shared_session[t]
      BY <2>7 DEF Close, ClientLeft, Cleanup, MoveCursor, FlagCursor, AddDraw, Disconnect,
                  TypeOK, QueueTypeOK
    <3>3. pc[t] \in {"joining", "starting", "request", "low"} => pc'[t] = pc[t]
      BY <2>7 DEF Close, ClientLeft, Cleanup, MoveCursor, FlagCursor, AddDraw, CanCommand,
                  Goto, TypeOK
    <3> QED
      BY <1>0, <3>1, <3>2, <3>3 DEF Driven, Requested
  <2> QED
    BY <1>3, <2>1, <2>2, <2>3, <2>4, <2>5, <2>6, <2>7 DEF Handler
<1>4. ASSUME NEW s \in Sessions, Stream(s) PROVE Driven(t)'
  <2>1. PICK q \in [Sessions -> Seq(Message)] : EnqueueAll(q) /\ q[s] # <<>>
    BY <1>4, StreamEnqueues
  <2>2. /\ s = Head(need_data_sessions) /\ need_data_sessions # <<>> /\ PopNeedData
        /\ UNCHANGED <<pc, shared_session>>
    BY <1>4 DEF Stream, StreamBlock, StreamCorrupt, StreamEnd, Streamed, ServingOK
  <2>3. streaming[t]
    BY <1>4 DEF Stream, StreamBlock, StreamCorrupt, StreamEnd, TypeOK
  <2>4. t # s /\ Requested(t) => Requested(t)'
    BY <2>2, PopKeepsOthers
  <2> QED
    BY <1>0, <1>2, <2>1, <2>2, <2>3, <2>4 DEF Driven
<1>5. CASE SendFrame
  <2>1. PICK q \in [Sessions -> Seq(Message)] : EnqueueAll(q)
    BY <1>5, FrameEnqueues
  <2>2. streaming[t] /\ UNCHANGED <<pc, need_data_sessions, shared_session>>
    BY <1>5 DEF SendFrame, FrameEnds, FrameRuns
  <2> QED
    BY <1>0, <1>2, <2>1, <2>2 DEF Driven, Requested
<1>6. CASE IoCheck
  <2>1. UNCHANGED <<pc, ws, deferred, buffered, streaming, shared_session>>
    BY <1>6 DEF IoCheck
  <2>2. Requested(t) => Requested(t)'
    <3>1. CASE UNCHANGED need_data_sessions
      BY <3>1 DEF Requested
    <3>2. CASE PopNeedData /\ ~(streaming[Head(need_data_sessions)]
                                 /\ shared_session[Head(need_data_sessions)])
      <4>1. t # Head(need_data_sessions)
        BY <2>1, <3>2
      <4> QED
        BY <1>6, <3>2, <4>1, PopKeepsOthers DEF IoCheck, ServingOK
    <3> QED
      BY <1>6, <3>1, <3>2 DEF IoCheck
  <2> QED
    BY <1>0, <2>1, <2>2 DEF Driven
<1>7. CASE CollectCursors \/ IoWake \/ IoTimeout \/ IoStore \/ IoClear \/ IoSnapshot
  BY <1>1, <1>7, CollectKeeps DEF FrameRuns, IoWake, IoTimeout, IoStore, IoClear, IoSnapshot
<1>8. CASE StreamCrash
  BY <1>8 DEF StreamCrash
<1>9. CASE UNCHANGED vars
  BY <1>1, <1>9 DEF vars
<1> QED
  BY <1>3, <1>4, <1>5, <1>6, <1>7, <1>8, <1>9 DEF Next

(***************************************************************************)
(* No stream breaks off, for any number of clients, papers and blocks.     *)
(***************************************************************************)
THEOREM StreamsContinue == Spec => []StreamContinues
<1>1. Init => NotStuck /\ StreamContinues
  BY DEF Init, QueueInit, NotStuck, StreamContinues
<1>2. /\ TypeOK /\ JoinOK /\ ServingOK
      /\ NotStuck /\ StreamContinues
      /\ [Next]_vars
      => NotStuck' /\ StreamContinues'
  BY NotStuckStep, ContinuesStep
<1> QED
  BY <1>1, <1>2, TypeInvariant, PTL DEF Spec

----------------------------------------------------------------------------
(***************************************************************************)
(* The seam of stream and frames: what a client is sent, and that it       *)
(* misses nothing; and that what is stored is stored once and in order.    *)
(***************************************************************************)
HasType(msgs, type) == \E i \in DOMAIN msgs : msgs[i].type = type

\* The client's first message was StreamStart.
Clean(s) == Sent(s) # <<>> /\ Sent(s)[1].type = "StreamStart"

----------------------------------------------------------------------------
(***************************************************************************)
(* Sent grows at its end only, by what is enqueued.                        *)
(***************************************************************************)
LEMMA SentType ==
  ASSUME TypeOK, NEW s \in Sessions
  PROVE  /\ wire[s] \in Seq(Message) /\ msg_queue[s] \in Seq(Message)
         /\ Sent(s) \in Seq(Message)
BY DEF TypeOK, QueueTypeOK, Sent

LEMMA EnqueueSent ==
  ASSUME TypeOK, NEW q \in [Sessions -> Seq(Message)], EnqueueAll(q), NEW s \in Sessions
  PROVE  Sent(s)' = IF ws[s] THEN Sent(s) \o q[s] ELSE Sent(s)
<1>1. wire[s] \in Seq(Message) /\ msg_queue[s] \in Seq(Message) /\ q[s] \in Seq(Message)
  BY SentType
<1>2. wire' = wire /\ msg_queue'[s] = IF ws[s] THEN msg_queue[s] \o q[s] ELSE msg_queue[s]
  BY DEF EnqueueAll, Taken
<1>3. wire[s] \o (msg_queue[s] \o q[s]) = (wire[s] \o msg_queue[s]) \o q[s]
  <2>1. \A a, b, c \in Seq(Message) : a \o (b \o c) = (a \o b) \o c
    BY ConcatAssociative
  <2> QED
    BY <1>1, <2>1, Zenon
<1> QED
  BY <1>2, <1>3 DEF Sent

LEMMA EnqueueToSent ==
  ASSUME TypeOK, NEW s \in Sessions, NEW msgs \in Seq(Message), EnqueueTo(s, msgs),
         NEW t \in Sessions
  PROVE  Sent(t)' = IF t = s /\ ws[s] THEN Sent(t) \o msgs ELSE Sent(t)
<1> DEFINE q == [u \in Sessions |-> IF u = s THEN msgs ELSE <<>>]
<1>1. q \in [Sessions -> Seq(Message)] /\ q[t] = IF t = s THEN msgs ELSE <<>>
  OBVIOUS
<1>2. EnqueueAll(q)
  BY DEF EnqueueTo
<1> HIDE DEF q
<1>3. Sent(t)' = IF ws[t] THEN Sent(t) \o q[t] ELSE Sent(t)
  BY <1>1, <1>2, EnqueueSent
<1>4. Sent(t) \o <<>> = Sent(t)
  BY SentType, ConcatEmptySeq
<1> QED
  BY <1>1, <1>3, <1>4

LEMMA CallbackSent ==
  ASSUME TypeOK, NEW s \in Sessions, RunDeferred(s) \/ Drain(s), NEW t \in Sessions
  PROVE  Sent(t)' = Sent(t)
<1>1. ASSUME NEW blocked \in BOOLEAN, SendQueue(s, blocked) PROVE Sent(t)' = Sent(t)
  <2>1. PICK k \in 0..Len(msg_queue[s]) : Send(s, k)
    BY <1>1 DEF SendQueue
  <2>2. t = s => wire'[t] \o msg_queue'[t] = wire[t] \o msg_queue[t]
    BY <2>1, SendSplits DEF TypeOK
  <2>3. t # s => wire'[t] = wire[t] /\ msg_queue'[t] = msg_queue[t]
    BY <2>1 DEF Send, TypeOK, QueueTypeOK
  <2> QED
    BY <2>2, <2>3 DEF Sent
<1> QED
  BY <1>1 DEF RunDeferred, Drain, TypeOK, QueueTypeOK, Sent

\* What stream() sends in each of its ends.
LEMMA StreamSent ==
  ASSUME TypeOK, NEW s \in Sessions, Stream(s), NEW t \in Sessions
  PROVE  \/ Sent(t)' = Sent(t) /\ ~(t = s /\ ws[s])
         \/ t = s /\ ws[s] /\ \E msgs \in Seq(Message) :
              /\ Sent(t)' = Sent(t) \o msgs
              /\ \/ /\ StreamBlock(s)
                    /\ msgs = <<Msg("Block", 0, disk[streaming_offset[s] + 1].events)>>
                 \/ StreamCorrupt(s) /\ msgs = <<Msg("Error", 0, <<>>)>>
                 \/ /\ StreamEnd(s)
                    /\ msgs = IF storage = <<>> THEN <<Msg("StreamSynced", id[s], <<>>)>>
                              ELSE <<Msg("Block", 0, storage), Msg("StreamSynced", id[s], <<>>)>>
<1>1. CASE StreamBlock(s)
  <2> DEFINE msgs == <<Msg("Block", 0, disk[streaming_offset[s] + 1].events)>>
  <2>1. disk[streaming_offset[s] + 1] \in Block
    BY <1>1 DEF StreamBlock, TypeOK
  <2>2. disk[streaming_offset[s] + 1].events \in Seq(Event)
    BY <2>1 DEF Block
  <2>3. msgs \in Seq(Message)
    BY <2>2, MessageTypes, EventTypes
  <2>4. EnqueueTo(s, msgs)
    BY <1>1 DEF StreamBlock
  <2>5. msgs = <<Msg("Block", 0, disk[streaming_offset[s] + 1].events)>>
    OBVIOUS
  <2> HIDE DEF msgs
  <2>6. Sent(t)' = IF t = s /\ ws[s] THEN Sent(t) \o msgs ELSE Sent(t)
    BY <2>3, <2>4, EnqueueToSent
  <2> QED
    BY <1>1, <2>3, <2>5, <2>6, Zenon
<1>2. CASE StreamCorrupt(s)
  <2> DEFINE msgs == <<Msg("Error", 0, <<>>)>>
  <2>1. EnqueueTo(s, msgs) /\ msgs \in Seq(Message) /\ msgs = <<Msg("Error", 0, <<>>)>>
    BY <1>2, EmptyMessages DEF StreamCorrupt
  <2> HIDE DEF msgs
  <2>2. Sent(t)' = IF t = s /\ ws[s] THEN Sent(t) \o msgs ELSE Sent(t)
    BY <2>1, EnqueueToSent
  <2> QED
    BY <1>2, <2>1, <2>2, Zenon
<1>3. CASE StreamEnd(s)
  <2> DEFINE synced == Msg("StreamSynced", id[s], <<>>)
             block == Msg("Block", 0, storage)
             msgs == IF storage = <<>> THEN <<synced>> ELSE <<block, synced>>
  <2>1. synced \in Message /\ block \in Message
    <3>1. <<>> \in Seq(Event) /\ storage \in Seq(Event) /\ id[s] \in ClientId
      BY DEF TypeOK
    <3> QED
      BY <3>1, MessageTypes, EventTypes
  <2>2. EnqueueTo(s, msgs)
    BY <1>3 DEF StreamEnd
  <2>3. msgs = IF storage = <<>> THEN <<Msg("StreamSynced", id[s], <<>>)>>
               ELSE <<Msg("Block", 0, storage), Msg("StreamSynced", id[s], <<>>)>>
    OBVIOUS
  <2> HIDE DEF synced, block
  <2>4. msgs \in Seq(Message)
    BY <2>1
  <2> HIDE DEF msgs
  <2>5. Sent(t)' = IF t = s /\ ws[s] THEN Sent(t) \o msgs ELSE Sent(t)
    BY <2>2, <2>4, EnqueueToSent
  <2> QED
    BY <1>3, <2>3, <2>4, <2>5, Zenon
<1> QED
  BY <1>1, <1>2, <1>3 DEF Stream

\* What a frame has collected goes to the live members, and to nobody else.
LEMMA FrameSent ==
  ASSUME TypeOK, SendFrame, NEW t \in Sessions
  PROVE  /\ Frame(broadcast, moved) \in Message
         /\ Sent(t)' = IF ws[t] /\ Live(t) /\ (broadcast # <<>> \/ moved # {})
                       THEN Sent(t) \o <<Frame(broadcast, moved)>>
                       ELSE Sent(t)
<1> DEFINE q == [s \in Sessions |-> IF Live(s) THEN Collected ELSE <<>>]
<1>1. EnqueueAll(q)
  BY DEF SendFrame
<1>2. q \in [Sessions -> Seq(Message)] /\ q[t] = IF Live(t) THEN Collected ELSE <<>>
  BY CollectedType
<1> HIDE DEF q
<1>3. Sent(t)' = IF ws[t] THEN Sent(t) \o q[t] ELSE Sent(t)
  BY <1>1, <1>2, EnqueueSent
<1>4. Sent(t) \o <<>> = Sent(t)
  BY SentType, ConcatEmptySeq
<1>5. Sent(t)' = IF ws[t] /\ Live(t) THEN Sent(t) \o Collected ELSE Sent(t)
  BY <1>2, <1>3, <1>4, Zenon
<1> QED
  BY <1>4, <1>5, CollectedType, Zenon

\* What a step does to what a client was sent.
LEMMA SentStep ==
  ASSUME TypeOK, [Next]_vars, NEW t \in Sessions
  PROVE  \/ Sent(t)' = Sent(t)
         \/ ws[t] /\ JoinEnd(t) /\ Sent(t)' = Sent(t) \o <<Msg("StreamStart", 0, <<>>)>>
         \/ ws[t] /\ Sent(t)' = Sent(t) \o <<Msg("Error", 0, <<>>)>>
              /\ (JoinFull(t) \/ Rejected(t))
         \/ ws[t] /\ Stream(t)
         \/ /\ ws[t] /\ SendFrame /\ Live(t)
            /\ Sent(t)' = Sent(t) \o <<Frame(broadcast, moved)>>
<1> USE DEF msVars, queueVars, sessionVars, builderVars, paperVars, frameVars, ioVars,
            ghostVars
<1>1. UNCHANGED <<wire, msg_queue>> => Sent(t)' = Sent(t)
  BY DEF Sent
<1>2. ASSUME NEW s \in Sessions, Handler(s)
      PROVE  \/ Sent(t)' = Sent(t)
             \/ ws[t] /\ JoinEnd(t) /\ Sent(t)' = Sent(t) \o <<Msg("StreamStart", 0, <<>>)>>
             \/ ws[t] /\ Sent(t)' = Sent(t) \o <<Msg("Error", 0, <<>>)>>
                  /\ (JoinFull(t) \/ Rejected(t))
  <2>1. CASE JoinEnd(s)
    <3>1. EnqueueTo(s, <<Msg("StreamStart", 0, <<>>)>>)
      BY <2>1 DEF JoinEnd
    <3>2. Sent(t)' = IF t = s /\ ws[s] THEN Sent(t) \o <<Msg("StreamStart", 0, <<>>)>> ELSE Sent(t)
      BY <3>1, EmptyMessages, EnqueueToSent
    <3> QED
      BY <2>1, <3>2, Zenon
  <2>2. CASE JoinFull(s) \/ Rejected(s)
    <3>1. EnqueueTo(s, <<Msg("Error", 0, <<>>)>>)
      BY <2>2 DEF JoinFull, Rejected
    <3>2. Sent(t)' = IF t = s /\ ws[s] THEN Sent(t) \o <<Msg("Error", 0, <<>>)>> ELSE Sent(t)
      BY <3>1, EmptyMessages, EnqueueToSent
    <3> QED
      BY <2>2, <3>2, Zenon
  <2>3. CASE Callback(s)
    BY <2>3, CallbackSent DEF Callback
  <2>4. CASE ~JoinEnd(s) /\ ~JoinFull(s) /\ ~Rejected(s) /\ ~Callback(s)
    BY <1>1, <1>2, <2>4 DEF Handler, JoinStart, JoinId, RequestData, QueueLow, AddDraw,
          MoveCursor, FlagCursor, Close, ClientLeft, Cleanup, Disconnect
  <2> QED
    BY <2>1, <2>2, <2>3, <2>4
<1>3. ASSUME NEW s \in Sessions, Stream(s)
      PROVE  Sent(t)' = Sent(t) \/ (ws[t] /\ Stream(t))
  BY <1>3, StreamSent
<1>4. CASE SendFrame
  BY <1>4, FrameSent
<1>5. CASE CollectCursors \/ StreamCrash \/ IoWake \/ IoTimeout \/ IoCheck \/ IoStore \/ IoClear
             \/ IoSnapshot
  BY <1>1, <1>5, CollectKeeps DEF StreamCrash, IoWake, IoTimeout, IoCheck, IoStore, IoClear, IoSnapshot
<1>6. CASE UNCHANGED vars
  BY <1>1, <1>6 DEF vars
<1> QED
  BY <1>2, <1>3, <1>4, <1>5, <1>6, Zenon DEF Next

----------------------------------------------------------------------------
\* The io thread streams to a client that needs it.
StreamingOK == io = "streaming" => streaming[Head(need_data_sessions)]

\* Members and those about to be are connected, and after a crash no thread goes on.
ConnectedOK ==
  /\ io # "crashed" => \A s \in Sessions : s \in msg_sessions \/ Joining(s) => ws[s]
  /\ io = "crashed" => \A s \in Sessions : pc[s] = "dead" /\ ~ws[s]

LEMMA StreamingStep ==
  ASSUME TypeOK, ServingOK, StreamingOK, [Next]_vars
  PROVE  StreamingOK'
<1> USE DEF msVars, queueVars, sessionVars, builderVars, paperVars, frameVars, ioVars,
            ghostVars
<1>1. CASE UNCHANGED <<io, need_data_sessions, streaming>>
  BY <1>1 DEF StreamingOK
<1>2. ASSUME NEW s \in Sessions, Handler(s) PROVE StreamingOK'
  <2>1. CASE JoinId(s)
    <3>1. \A u \in Sessions : streaming[u] => streaming'[u]
      BY <2>1 DEF JoinId, TypeOK
    <3>2. io = "streaming" => Head(need_data_sessions) \in Sessions
      BY HeadTailProperties DEF ServingOK, TypeOK
    <3> QED
      BY <2>1, <3>1, <3>2 DEF JoinId, StreamingOK
  <2>2. CASE RequestData(s)
    BY <2>2 DEF RequestData, NeedDataFree, StreamingOK
  <2>3. CASE ~JoinId(s) /\ ~RequestData(s)
    BY <1>1, <1>2, <2>3 DEF Handler, JoinStart, JoinEnd, JoinFull, Rejected, QueueLow, Callback,
              AddDraw, MoveCursor, FlagCursor, Close, ClientLeft, Cleanup
  <2> QED
    BY <2>1, <2>2, <2>3
<1>3. ASSUME PopNeedData PROVE StreamingOK'
  BY <1>3 DEF PopNeedData, StreamingOK
<1>4. ASSUME NEW s \in Sessions, Stream(s) PROVE StreamingOK'
  BY <1>3, <1>4 DEF Stream, StreamBlock, StreamCorrupt, StreamEnd, Streamed
<1>5. CASE CollectCursors \/ SendFrame
  BY <1>1, <1>5, CollectKeeps DEF SendFrame, FrameEnds, FrameRuns
<1>6. CASE IoWake \/ IoTimeout \/ IoStore \/ IoClear \/ IoSnapshot \/ StreamCrash
  BY <1>6 DEF IoWake, IoTimeout, IoStore, IoClear, IoSnapshot, StreamCrash, StreamingOK
<1>7. CASE IoCheck
  BY <1>3, <1>7 DEF IoCheck, StreamingOK
<1>8. CASE UNCHANGED vars
  BY <1>1, <1>8 DEF vars
<1> QED
  BY <1>2, <1>4, <1>5, <1>6, <1>7, <1>8 DEF Next

LEMMA ConnectedStep ==
  ASSUME TypeOK, ServingOK, ConnectedOK, [Next]_vars
  PROVE  ConnectedOK'
<1> USE DEF msVars, queueVars, sessionVars, builderVars, paperVars, frameVars, ioVars,
            ghostVars
<1>1. ASSUME NEW s \in Sessions, Handler(s) PROVE ConnectedOK'
  <2>1. UNCHANGED io
    BY <1>1 DEF Handler, JoinStart, JoinId, JoinEnd, JoinFull, Rejected, RequestData,
                      QueueLow, Callback, AddDraw, MoveCursor, FlagCursor, Close, ClientLeft,
                      Cleanup
  <2>2. pc[s] # "dead"
    BY <1>1 DEF Handler, JoinStart, JoinId, JoinEnd, JoinFull, Rejected, RequestData,
                      QueueLow, Callback, AddDraw, MoveCursor, FlagCursor, Close, ClientLeft,
                      Cleanup, CanCommand, RunDeferred, Drain
  <2>3. io # "crashed"
    BY <2>2 DEF ConnectedOK
  <2>4. ASSUME NEW t \in Sessions, t # s
        PROVE  /\ pc'[t] = pc[t] /\ ws'[t] = ws[t]
               /\ t \in msg_sessions' <=> t \in msg_sessions
    BY <1>1, <2>4 DEF Handler, JoinStart, JoinId, JoinEnd, JoinFull, Rejected, RequestData,
                      QueueLow, Callback, AddDraw, MoveCursor, FlagCursor, Close, ClientLeft,
                      Cleanup, Goto, RunDeferred, Drain, SendQueue, TypeOK, QueueTypeOK,
                      EnqueueTo, EnqueueAll, Disconnect
  <2>5. CASE JoinStart(s) \/ JoinId(s) \/ JoinEnd(s)
    <3>1. ws'[s]
      BY <2>3, <2>5 DEF JoinStart, JoinId, JoinEnd, EnqueueTo, EnqueueAll, ConnectedOK, Joining
    <3> QED
      BY <2>1, <2>3, <2>4, <3>1 DEF ConnectedOK, Joining
  <2>6. CASE JoinFull(s) \/ Rejected(s) \/ RequestData(s) \/ QueueLow(s) \/ Callback(s)
               \/ MoveCursor(s) \/ FlagCursor(s) \/ ClientLeft(s) \/ Cleanup(s)
               \/ AddDraw(s, "Stored") \/ AddDraw(s, "Transient")
    <3>1. UNCHANGED <<ws, msg_sessions>>
      BY <2>6 DEF JoinFull, Rejected, RequestData, QueueLow, Callback, AddDraw, MoveCursor,
                  FlagCursor, ClientLeft, Cleanup, RunDeferred, Drain, EnqueueTo, EnqueueAll
    <3>2. ~Joining(s)' \/ pc'[s] = pc[s]
      BY <2>6 DEF JoinFull, Rejected, RequestData, QueueLow, Callback, AddDraw, MoveCursor,
                  FlagCursor, ClientLeft, Cleanup, RunDeferred, Drain, SendQueue, AfterSend,
                  Goto, Joining, TypeOK
    <3> QED
      BY <2>1, <2>3, <2>4, <3>1, <3>2 DEF ConnectedOK, Joining
  <2>7. CASE Close(s)
    <3>1. s \notin msg_sessions' /\ ~Joining(s)'
      BY <2>7 DEF Close, Goto, Joining, TypeOK
    <3> QED
      BY <2>1, <2>3, <2>4, <3>1 DEF ConnectedOK, Joining
  <2> QED
    BY <1>1, <2>5, <2>6, <2>7 DEF Handler
<1>2. ASSUME UNCHANGED <<pc, ws, msg_sessions>>, io # "crashed", io' # "crashed"
      PROVE  ConnectedOK'
  BY <1>2 DEF ConnectedOK, Joining
<1>3. ASSUME NEW s \in Sessions, Stream(s) PROVE ConnectedOK'
  BY <1>2, <1>3 DEF Stream, StreamBlock, StreamCorrupt, StreamEnd, Streamed, EnqueueTo,
                    EnqueueAll, PopNeedData
<1>4. CASE CollectCursors \/ SendFrame
  BY <1>2, <1>4, CollectKeeps DEF SendFrame, FrameEnds, FrameRuns, EnqueueAll
<1>5. CASE StreamCrash
  BY <1>5 DEF StreamCrash, ConnectedOK
<1>6. CASE IoWake \/ IoTimeout \/ IoCheck \/ IoStore \/ IoClear \/ IoSnapshot
  BY <1>2, <1>6 DEF IoWake, IoTimeout, IoCheck, IoStore, IoClear, IoSnapshot, PopNeedData
<1>7. CASE UNCHANGED vars
  BY <1>7 DEF vars, ConnectedOK, Joining
<1> QED
  BY <1>1, <1>3, <1>4, <1>5, <1>6, <1>7 DEF Next

----------------------------------------------------------------------------
(***************************************************************************)
(* The places of two sequences put together.                               *)
(***************************************************************************)
LEMMA Places ==
  ASSUME NEW S, NEW a \in Seq(S), NEW b \in Seq(S)
  PROVE  /\ a \o b \in Seq(S)
         /\ DOMAIN a = 1..Len(a) /\ DOMAIN b = 1..Len(b) /\ Len(a) \in Nat /\ Len(b) \in Nat
         /\ DOMAIN (a \o b) = 1..Len(a) + Len(b)
         /\ \A i \in 1..Len(a) : (a \o b)[i] = a[i]
         /\ \A i \in 1..Len(b) : (a \o b)[Len(a) + i] = b[i]
         /\ \A i \in 1..Len(a) + Len(b) : i \notin 1..Len(a) =>
              i - Len(a) \in 1..Len(b) /\ (a \o b)[i] = b[i - Len(a)]
<1>1. Len(a \o b) = Len(a) + Len(b) /\ a \o b \in Seq(S)
  OBVIOUS
<1>2. \A i \in 1..Len(a) + Len(b) : (a \o b)[i] = IF i <= Len(a) THEN a[i] ELSE b[i - Len(a)]
  OBVIOUS
<1>3. DOMAIN a = 1..Len(a) /\ DOMAIN b = 1..Len(b) /\ Len(a) \in Nat /\ Len(b) \in Nat
      /\ DOMAIN (a \o b) = 1..Len(a) + Len(b)
  BY <1>1, LenProperties
<1> QED
  BY <1>1, <1>2, <1>3

LEMMA HasTypeConcat ==
  ASSUME NEW a \in Seq(Message), NEW b \in Seq(Message), NEW type
  PROVE  HasType(a \o b, type) <=> HasType(a, type) \/ HasType(b, type)
<1>1. ASSUME HasType(a \o b, type) PROVE HasType(a, type) \/ HasType(b, type)
  BY <1>1, Places DEF HasType
<1>2. ASSUME HasType(a, type) PROVE HasType(a \o b, type)
  BY <1>2, Places DEF HasType
<1>3. ASSUME HasType(b, type) PROVE HasType(a \o b, type)
  <2>1. PICK i \in 1..Len(b) : b[i].type = type
    BY <1>3, Places DEF HasType
  <2>2. (a \o b)[Len(a) + i].type = type /\ Len(a) + i \in DOMAIN (a \o b)
    BY <2>1, Places
  <2> QED
    BY <2>2 DEF HasType
<1> QED
  BY <1>1, <1>2, <1>3

LEMMA HasTypeOne ==
  ASSUME NEW m, NEW type
  PROVE  HasType(<<m>>, type) <=> m.type = type
<1>1. DOMAIN <<m>> = {1} /\ <<m>>[1] = m
  OBVIOUS
<1> QED
  BY <1>1 DEF HasType

LEMMA MessageOf ==
  /\ \A type, cid, evs : Msg(type, cid, evs).type = type /\ Msg(type, cid, evs).events = evs
  /\ \A evs, cursors : Frame(evs, cursors).type = "Frame" /\ Frame(evs, cursors).events = evs
BY DEF Msg, Frame

\* A client that got a frame is live while it is connected.
FramesOK ==
  \A s \in Sessions : HasType(Sent(s), "Frame") /\ ws[s] => s \in msg_sessions /\ ~streaming[s]

\* What stream() sends, by type.
LEMMA StreamTypes ==
  ASSUME TypeOK, NEW t \in Sessions, ws[t], Stream(t)
  PROVE  \E msgs \in Seq(Message) :
           /\ Sent(t)' = Sent(t) \o msgs
           /\ ~HasType(msgs, "Frame") /\ ~HasType(msgs, "StreamStart")
           /\ HasType(msgs, "StreamSynced") => StreamEnd(t)
<1>1. PICK msgs \in Seq(Message) :
        /\ Sent(t)' = Sent(t) \o msgs
        /\ \/ /\ StreamBlock(t)
              /\ msgs = <<Msg("Block", 0, disk[streaming_offset[t] + 1].events)>>
           \/ StreamCorrupt(t) /\ msgs = <<Msg("Error", 0, <<>>)>>
           \/ /\ StreamEnd(t)
              /\ msgs = IF storage = <<>> THEN <<Msg("StreamSynced", id[t], <<>>)>>
                        ELSE <<Msg("Block", 0, storage), Msg("StreamSynced", id[t], <<>>)>>
  BY StreamSent
<1>2. \A i \in DOMAIN msgs :
        /\ msgs[i].type \in {"Block", "Error", "StreamSynced"}
        /\ msgs[i].type = "StreamSynced" => StreamEnd(t)
  <2>1. CASE StreamBlock(t) /\ msgs = <<Msg("Block", 0, disk[streaming_offset[t] + 1].events)>>
    BY <2>1, MessageOf
  <2>2. CASE msgs = <<Msg("Error", 0, <<>>)>>
    BY <2>2, MessageOf
  <2>3. CASE StreamEnd(t) /\ msgs = <<Msg("StreamSynced", id[t], <<>>)>>
    BY <2>3, MessageOf
  <2>4. CASE StreamEnd(t) /\ msgs = <<Msg("Block", 0, storage), Msg("StreamSynced", id[t], <<>>)>>
    BY <2>4, MessageOf
  <2> QED
    BY <1>1, <2>1, <2>2, <2>3, <2>4
<1>3. ~HasType(msgs, "Frame") /\ ~HasType(msgs, "StreamStart")
      /\ (HasType(msgs, "StreamSynced") => StreamEnd(t))
  BY <1>2 DEF HasType
<1> QED
  BY <1>1, <1>3

LEMMA FramesStep ==
  ASSUME TypeOK, MembersOK, ServingOK, StreamingOK, FramesOK, [Next]_vars
  PROVE  FramesOK'
<1> USE DEF msVars, queueVars, sessionVars, builderVars, paperVars, frameVars, ioVars,
            ghostVars
<1> SUFFICES ASSUME NEW t \in Sessions, HasType(Sent(t), "Frame")', ws'[t]
             PROVE  t \in msg_sessions' /\ ~streaming'[t]
  BY DEF FramesOK
<1>1. ws[t]
  <2>1. CASE UNCHANGED ws
    BY <2>1
  <2> QED
    BY <2>1, QueueStep DEF EnqueueAll, RunDeferred, Drain
<1>2. t \in msg_sessions /\ ~streaming[t]
  <2>1. CASE HasType(Sent(t), "Frame")
    BY <1>1, <2>1 DEF FramesOK
  <2>2. CASE SendFrame /\ Live(t)
    BY <2>2 DEF Live
  <2>3. CASE ~HasType(Sent(t), "Frame") /\ ~(SendFrame /\ Live(t))
    <3>1. ASSUME NEW type \in {"StreamStart", "Error"},
                 Sent(t)' = Sent(t) \o <<Msg(type, 0, <<>>)>>
          PROVE  FALSE
      <4>1. <<Msg(type, 0, <<>>)>> \in Seq(Message) /\ ~HasType(<<Msg(type, 0, <<>>)>>, "Frame")
        BY EmptyMessages, HasTypeOne, MessageOf
      <4>2. Sent(t) \in Seq(Message)
        BY SentType
      <4>3. ~HasType(Sent(t) \o <<Msg(type, 0, <<>>)>>, "Frame")
        BY <2>3, <4>1, <4>2, HasTypeConcat
      <4> QED
        BY <3>1, <4>3 DEF HasType
    <3>2. CASE Stream(t)
      <4>1. PICK msgs \in Seq(Message) : Sent(t)' = Sent(t) \o msgs /\ ~HasType(msgs, "Frame")
        BY <1>1, <3>2, StreamTypes
      <4>2. Sent(t) \in Seq(Message)
        BY SentType
      <4>3. ~HasType(Sent(t) \o msgs, "Frame")
        BY <2>3, <4>1, <4>2, HasTypeConcat
      <4> QED
        BY <4>1, <4>3 DEF HasType
    <3>3. CASE Sent(t)' = Sent(t)
      BY <2>3, <3>3 DEF HasType
    <3> QED
      BY <2>3, <3>1, <3>2, <3>3, SentStep
  <2> QED
    BY <2>1, <2>2, <2>3
<1>3. ASSUME NEW s \in Sessions, Handler(s) PROVE t \in msg_sessions' /\ ~streaming'[t]
  <2>1. CASE JoinId(s)
    <3>1. t # s
      BY <1>2, <2>1 DEF JoinId, MembersOK, Joining
    <3> QED
      BY <1>2, <2>1, <3>1 DEF JoinId, TypeOK
  <2>2. CASE JoinEnd(s)
    BY <1>2, <2>2 DEF JoinEnd
  <2>3. CASE Close(s)
    <3>1. t # s
      BY <2>3 DEF Close, Disconnect, TypeOK, QueueTypeOK
    <3> QED
      BY <1>2, <2>3, <3>1 DEF Close
  <2>4. CASE ~JoinId(s) /\ ~JoinEnd(s) /\ ~Close(s)
    BY <1>2, <1>3, <2>4 DEF Handler, JoinStart, JoinFull, Rejected, RequestData, QueueLow,
          Callback, AddDraw, MoveCursor, FlagCursor, ClientLeft, Cleanup
  <2> QED
    BY <2>1, <2>2, <2>3, <2>4
<1>4. ASSUME NEW s \in Sessions, Stream(s) PROVE t \in msg_sessions' /\ ~streaming'[t]
  BY <1>2, <1>4 DEF Stream, StreamBlock, StreamCorrupt, StreamEnd, Streamed, TypeOK
<1>5. CASE CollectCursors \/ SendFrame \/ StreamCrash
  BY <1>2, <1>5, CollectKeeps DEF SendFrame, FrameEnds, FrameRuns, StreamCrash
<1>6. CASE IoWake \/ IoTimeout \/ IoCheck \/ IoStore \/ IoClear \/ IoSnapshot
  BY <1>2, <1>6 DEF IoWake, IoTimeout, IoCheck, IoStore, IoClear, IoSnapshot
<1>7. CASE UNCHANGED vars
  BY <1>2, <1>7 DEF vars
<1> QED
  BY <1>3, <1>4, <1>5, <1>6, <1>7 DEF Next

\* What comes after a frame, in a sequence of messages.
AfterFrame(msgs) ==
  \A i, j \in DOMAIN msgs :
    i < j /\ msgs[i].type = "Frame" => msgs[j].type \in {"Frame", "Error"}

LEMMA AfterFrameConcat ==
  ASSUME NEW a \in Seq(Message), NEW b \in Seq(Message), AfterFrame(a),
         \/ HasType(a, "Frame") /\ \A i \in DOMAIN b : b[i].type \in {"Frame", "Error"}
         \/ ~HasType(a, "Frame") /\ (~HasType(b, "Frame") \/ Len(b) = 1)
  PROVE  AfterFrame(a \o b)
<1> SUFFICES ASSUME NEW i \in 1..Len(a) + Len(b), NEW j \in 1..Len(a) + Len(b),
                    i < j, (a \o b)[i].type = "Frame"
             PROVE  (a \o b)[j].type \in {"Frame", "Error"}
  BY Places DEF AfterFrame
<1>1. CASE i \in 1..Len(a) /\ j \in 1..Len(a)
  <2>1. a[i].type = "Frame" /\ (a \o b)[j] = a[j] /\ DOMAIN a = 1..Len(a)
    BY <1>1, Places
  <2> QED
    BY <1>1, <2>1 DEF AfterFrame
<1>2. CASE i \in 1..Len(a) /\ j \notin 1..Len(a)
  <2>1. /\ a[i].type = "Frame" /\ DOMAIN a = 1..Len(a) /\ DOMAIN b = 1..Len(b)
        /\ j - Len(a) \in 1..Len(b) /\ (a \o b)[j] = b[j - Len(a)]
    BY <1>2, Places
  <2>2. HasType(a, "Frame")
    BY <1>2, <2>1 DEF HasType
  <2> QED
    BY <2>1, <2>2
<1>3. CASE i \notin 1..Len(a)
  <2>1. Len(a) \in Nat /\ Len(b) \in Nat
    OBVIOUS
  <2>2. /\ i - Len(a) \in 1..Len(b) /\ (a \o b)[i] = b[i - Len(a)]
        /\ DOMAIN b = 1..Len(b)
    BY <1>3, Places
  <2>3. j \notin 1..Len(a)
    BY <1>3, <2>1
  <2>4. j - Len(a) \in 1..Len(b) /\ (a \o b)[j] = b[j - Len(a)]
    BY <2>3, Places
  <2>5. Len(b) # 1
    BY <2>1, <2>2, <2>4
  <2>6. HasType(b, "Frame")
    BY <2>2 DEF HasType
  <2> QED
    BY <2>2, <2>4, <2>5, <2>6
<1> QED
  BY <1>1, <1>2, <1>3

LEMMA AfterFrameStep ==
  ASSUME TypeOK, MembersOK, ServingOK, StreamingOK, FramesOK, NoStreamAfterFrame, [Next]_vars
  PROVE  NoStreamAfterFrame'
<1>1. NoStreamAfterFrame = \A s \in Sessions : AfterFrame(Sent(s))
  BY DEF NoStreamAfterFrame, AfterFrame
<1>2. NoStreamAfterFrame' = \A s \in Sessions : AfterFrame(Sent(s)')
  BY DEF NoStreamAfterFrame, AfterFrame
<1> SUFFICES ASSUME NEW t \in Sessions PROVE AfterFrame(Sent(t)')
  BY <1>2
<1>3. AfterFrame(Sent(t)) /\ Sent(t) \in Seq(Message)
  BY <1>1, SentType
<1>4. CASE ws[t] /\ JoinEnd(t) /\ Sent(t)' = Sent(t) \o <<Msg("StreamStart", 0, <<>>)>>
  <2>1. t \notin msg_sessions
    BY <1>4 DEF JoinEnd, MembersOK, Joining
  <2>2. ~HasType(Sent(t), "Frame")
    BY <1>4, <2>1 DEF FramesOK
  <2>3. <<Msg("StreamStart", 0, <<>>)>> \in Seq(Message) /\ Len(<<Msg("StreamStart", 0, <<>>)>>) = 1
    BY EmptyMessages
  <2> QED
    BY <1>3, <1>4, <2>2, <2>3, AfterFrameConcat
<1>5. CASE Sent(t)' = Sent(t) \o <<Msg("Error", 0, <<>>)>>
  <2>1. <<Msg("Error", 0, <<>>)>> \in Seq(Message)
        /\ \A i \in DOMAIN <<Msg("Error", 0, <<>>)>> :
             <<Msg("Error", 0, <<>>)>>[i].type \in {"Frame", "Error"}
        /\ Len(<<Msg("Error", 0, <<>>)>>) = 1
    BY EmptyMessages, MessageOf
  <2> QED
    BY <1>3, <1>5, <2>1, AfterFrameConcat
<1>6. CASE ws[t] /\ Stream(t)
  <2>1. t = Head(need_data_sessions) /\ io = "streaming"
    BY <1>6 DEF Stream, StreamBlock, StreamCorrupt, StreamEnd, Streamed
  <2>2. ~HasType(Sent(t), "Frame")
    BY <1>6, <2>1 DEF StreamingOK, FramesOK
  <2>3. PICK msgs \in Seq(Message) : Sent(t)' = Sent(t) \o msgs /\ ~HasType(msgs, "Frame")
    BY <1>6, StreamTypes
  <2>4. AfterFrame(Sent(t) \o msgs)
    BY <1>3, <2>2, <2>3, AfterFrameConcat
  <2> QED
    BY <2>3, <2>4
<1>7. CASE SendFrame /\ Sent(t)' = Sent(t) \o <<Frame(broadcast, moved)>>
  <2> DEFINE frame == Frame(broadcast, moved)
  <2>1. frame \in Message /\ frame.type = "Frame"
    BY <1>7, FrameSent, MessageOf
  <2> HIDE DEF frame
  <2>2. <<frame>> \in Seq(Message) /\ Len(<<frame>>) = 1
        /\ \A i \in DOMAIN <<frame>> : <<frame>>[i].type \in {"Frame", "Error"}
    BY <2>1
  <2>3. AfterFrame(Sent(t) \o <<frame>>)
    BY <1>3, <2>2, AfterFrameConcat
  <2> QED
    BY <1>7, <2>3 DEF frame
<1> QED
  BY <1>3, <1>4, <1>5, <1>6, <1>7, SentStep

----------------------------------------------------------------------------
(***************************************************************************)
(* The draws in sequences of events and of messages.                       *)
(***************************************************************************)
LEMMA DrawsConcat ==
  ASSUME NEW a \in Seq(Event), NEW b \in Seq(Event)
  PROVE  Draws(a \o b) = Draws(a) \union Draws(b)
<1>1. ASSUME NEW n \in Draws(a \o b) PROVE n \in Draws(a) \union Draws(b)
  <2>1. PICK i \in DOMAIN (a \o b) : (a \o b)[i].kind = "Stored" /\ n = (a \o b)[i].n
    BY <1>1 DEF Draws
  <2>2. CASE i \in 1..Len(a)
    <3>1. i \in DOMAIN a /\ (a \o b)[i] = a[i]
      BY <2>2, Places
    <3> QED
      BY <2>1, <3>1 DEF Draws
  <2>3. CASE i \notin 1..Len(a)
    <3>1. i - Len(a) \in DOMAIN b /\ (a \o b)[i] = b[i - Len(a)]
      BY <2>1, <2>3, Places
    <3> QED
      BY <2>1, <3>1 DEF Draws
  <2> QED
    BY <2>2, <2>3
<1>2. ASSUME NEW n \in Draws(a) PROVE n \in Draws(a \o b)
  <2>1. PICK i \in DOMAIN a : a[i].kind = "Stored" /\ n = a[i].n
    BY <1>2 DEF Draws
  <2>2. i \in DOMAIN (a \o b) /\ (a \o b)[i] = a[i]
    BY <2>1, Places
  <2> QED
    BY <2>1, <2>2 DEF Draws
<1>3. ASSUME NEW n \in Draws(b) PROVE n \in Draws(a \o b)
  <2>1. PICK i \in DOMAIN b : b[i].kind = "Stored" /\ n = b[i].n
    BY <1>3 DEF Draws
  <2>2. Len(a) + i \in DOMAIN (a \o b) /\ (a \o b)[Len(a) + i] = b[i]
    BY <2>1, Places
  <2> QED
    BY <2>1, <2>2 DEF Draws
<1> QED
  BY <1>1, <1>2, <1>3

LEMMA DrawsAppend ==
  ASSUME NEW a \in Seq(Event), NEW e \in Event
  PROVE  Draws(Append(a, e)) = Draws(a) \union (IF e.kind = "Stored" THEN {e.n} ELSE {})
<1>1. Append(a, e) = a \o <<e>> /\ <<e>> \in Seq(Event)
  BY AppendIsConcat
<1>2. Draws(<<e>>) = IF e.kind = "Stored" THEN {e.n} ELSE {}
  <2>1. DOMAIN <<e>> = {1} /\ <<e>>[1] = e
    OBVIOUS
  <2> QED
    BY <2>1 DEF Draws
<1>3. Draws(a \o <<e>>) = Draws(a) \union Draws(<<e>>)
  BY <1>1, DrawsConcat
<1> QED
  BY <1>1, <1>2, <1>3

LEMMA DrawsNone == Draws(<<>>) = {}
<1>1. DOMAIN <<>> = {}
  OBVIOUS
<1> QED
  BY <1>1 DEF Draws

LEMMA InMessagesConcat ==
  ASSUME NEW a \in Seq(Message), NEW b \in Seq(Message)
  PROVE  InMessages(a \o b) = InMessages(a) \union InMessages(b)
<1>1. ASSUME NEW n \in InMessages(a \o b) PROVE n \in InMessages(a) \union InMessages(b)
  <2>1. PICK i \in DOMAIN (a \o b) : n \in Draws((a \o b)[i].events)
    BY <1>1 DEF InMessages
  <2>2. CASE i \in 1..Len(a)
    <3>1. i \in DOMAIN a /\ (a \o b)[i] = a[i]
      BY <2>2, Places
    <3> QED
      BY <2>1, <3>1 DEF InMessages
  <2>3. CASE i \notin 1..Len(a)
    <3>1. i - Len(a) \in DOMAIN b /\ (a \o b)[i] = b[i - Len(a)]
      BY <2>1, <2>3, Places
    <3> QED
      BY <2>1, <3>1 DEF InMessages
  <2> QED
    BY <2>2, <2>3
<1>2. ASSUME NEW n \in InMessages(a) PROVE n \in InMessages(a \o b)
  <2>1. PICK i \in DOMAIN a : n \in Draws(a[i].events)
    BY <1>2 DEF InMessages
  <2>2. i \in DOMAIN (a \o b) /\ (a \o b)[i] = a[i]
    BY <2>1, Places
  <2> QED
    BY <2>1, <2>2 DEF InMessages
<1>3. ASSUME NEW n \in InMessages(b) PROVE n \in InMessages(a \o b)
  <2>1. PICK i \in DOMAIN b : n \in Draws(b[i].events)
    BY <1>3 DEF InMessages
  <2>2. Len(a) + i \in DOMAIN (a \o b) /\ (a \o b)[Len(a) + i] = b[i]
    BY <2>1, Places
  <2> QED
    BY <2>1, <2>2 DEF InMessages
<1> QED
  BY <1>1, <1>2, <1>3

LEMMA InMessagesOne ==
  ASSUME NEW m
  PROVE  InMessages(<<m>>) = Draws(m.events)
<1>1. DOMAIN <<m>> = {1} /\ <<m>>[1] = m
  OBVIOUS
<1> QED
  BY <1>1 DEF InMessages

LEMMA CarriedIsSent ==
  ASSUME TypeOK, NEW s \in Sessions
  PROVE  Carried(s) = InMessages(Sent(s))
<1>1. wire[s] \in Seq(Message) /\ msg_queue[s] \in Seq(Message)
  BY SentType
<1> QED
  BY <1>1, InMessagesConcat DEF Carried, Sent

\* store() moves the draws from the builder to the file.
LEMMA WriteStorageDraws ==
  ASSUME TypeOK, WriteStorage
  PROVE  /\ OnDisk' \union Draws(storage') = OnDisk \union Draws(storage)
         /\ Len(disk') >= Len(disk) /\ \A i \in 1..Len(disk) : disk'[i] = disk[i]
<1>1. storage' = <<>> /\ Draws(storage') = {}
  BY DrawsNone DEF WriteStorage
<1>2. disk \in Seq(Block) /\ Len(disk) \in Nat
  BY DEF TypeOK
<1>3. CASE storage = <<>>
  <2>1. disk' = disk /\ Draws(storage) = {}
    BY <1>3, DrawsNone DEF WriteStorage
  <2> QED
    BY <1>1, <1>2, <2>1 DEF OnDisk
<1>4. CASE storage # <<>>
  <2> DEFINE b == [events |-> storage, ok |-> TRUE]
  <2>1. b \in Block /\ b.events = storage
    BY DEF Block, TypeOK
  <2>2. disk' = Append(disk, b)
    BY <1>4 DEF WriteStorage
  <2> HIDE DEF b
  <2>3. /\ Len(disk') = Len(disk) + 1
        /\ \A i \in 1..Len(disk) : disk'[i] = disk[i]
        /\ disk'[Len(disk) + 1] = b
        /\ DOMAIN disk' = 1..Len(disk) + 1 /\ DOMAIN disk = 1..Len(disk)
    BY <1>2, <2>1, <2>2, AppendProperties, LenProperties
  <2>4. ASSUME NEW n \in OnDisk' PROVE n \in OnDisk \union Draws(storage)
    <3>1. PICK i \in DOMAIN disk' : n \in Draws(disk'[i].events)
      BY <2>4 DEF OnDisk
    <3>2. CASE i \in 1..Len(disk)
      BY <2>3, <3>1, <3>2 DEF OnDisk
    <3>3. CASE i = Len(disk) + 1
      BY <2>1, <2>3, <3>1, <3>3
    <3> QED
      BY <1>2, <2>3, <3>2, <3>3
  <2>5. ASSUME NEW n \in OnDisk PROVE n \in OnDisk'
    <3>1. PICK i \in DOMAIN disk : n \in Draws(disk[i].events)
      BY <2>5 DEF OnDisk
    <3>2. i \in DOMAIN disk' /\ disk'[i] = disk[i]
      BY <1>2, <2>3, <3>1
    <3> QED
      BY <3>1, <3>2 DEF OnDisk
  <2>6. Draws(storage) \subseteq OnDisk'
    <3>1. Len(disk) + 1 \in DOMAIN disk' /\ disk'[Len(disk) + 1].events = storage
      BY <1>2, <2>1, <2>3
    <3> QED
      BY <3>1 DEF OnDisk
  <2> QED
    BY <1>1, <1>2, <2>3, <2>4, <2>5, <2>6
<1> QED
  BY <1>3, <1>4

----------------------------------------------------------------------------
(***************************************************************************)
(* What a step does to the draws on their way: new ones go into both       *)
(* builders, the file keeps its blocks, and the broadcast builder loses    *)
(* draws only to a frame, to the race in join(), or with its last member.  *)
(***************************************************************************)
KeepsFile ==
  /\ OnDisk' \union Draws(storage') \subseteq OnDisk \union Draws(storage) \union Draws(broadcast')
  /\ Len(disk') >= Len(disk) /\ \A i \in 1..Len(disk) : disk'[i] = disk[i]
  /\ clobbered \subseteq clobbered'

KeepsBroadcast == Draws(broadcast) \subseteq Draws(broadcast') \union clobbered'

LEMMA BuildersStep ==
  ASSUME TypeOK, MembersOK, [Next]_vars
  PROVE  KeepsFile /\ (KeepsBroadcast \/ SendFrame \/ msg_sessions = {})
<1> USE DEF msVars, queueVars, sessionVars, builderVars, paperVars, frameVars, ioVars,
            ghostVars
<1>1. Len(disk) \in Nat /\ broadcast \in Seq(Event) /\ storage \in Seq(Event)
  BY DEF TypeOK
<1>2. UNCHANGED <<disk, storage>> => OnDisk' \union Draws(storage') = OnDisk \union Draws(storage)
                                     /\ Len(disk') >= Len(disk)
                                     /\ \A i \in 1..Len(disk) : disk'[i] = disk[i]
  BY <1>1 DEF OnDisk
<1>3. UNCHANGED <<builderVars, disk, clobbered>> => KeepsFile /\ KeepsBroadcast
  BY <1>2 DEF KeepsFile, KeepsBroadcast
<1>4. ASSUME DestroyPaper, UNCHANGED <<disk, clobbered>> PROVE KeepsFile
  <2>1. OnDisk' = OnDisk /\ Draws(storage') = {}
    BY <1>4, DrawsNone DEF DestroyPaper, OnDisk
  <2> QED
    BY <1>1, <1>4, <2>1 DEF KeepsFile
<1>5. ASSUME NEW e \in Event, broadcast' = Append(broadcast, e), UNCHANGED clobbered
      PROVE  KeepsBroadcast
  BY <1>1, <1>5, DrawsAppend DEF KeepsBroadcast
<1>6. ASSUME NEW s \in Sessions, Handler(s)
      PROVE  KeepsFile /\ (KeepsBroadcast \/ msg_sessions = {})
  <2>1. CASE JoinId(s)
    <3>1. UNCHANGED <<disk, storage>>
             /\ clobbered' = clobbered \union (Draws(broadcast) \ Draws(broadcast'))
      BY <2>1 DEF JoinId
    <3> QED
      BY <1>2, <3>1 DEF KeepsFile, KeepsBroadcast
  <2>2. ASSUME NEW kind \in {"Stored", "Transient"}, AddDraw(s, kind)
        PROVE  KeepsFile /\ KeepsBroadcast
    <3> DEFINE draw == Ev(kind, id[s], Len(events) + 1)
    <3>1. draw \in Event /\ draw.kind = kind
      <4>1. id[s] \in ClientId /\ Len(events) + 1 \in Nat
        BY DEF TypeOK
      <4> QED
        BY <4>1, EventTypes DEF Ev
    <3>2. /\ broadcast' = Append(broadcast, draw)
          /\ storage' = IF kind = "Stored" THEN Append(storage, draw) ELSE storage
          /\ UNCHANGED <<disk, clobbered>>
      BY <2>2 DEF AddDraw
    <3> HIDE DEF draw
    <3>3. KeepsBroadcast
      BY <1>5, <3>1, <3>2
    <3>4. OnDisk' = OnDisk
      BY <3>2 DEF OnDisk
    <3>5. Draws(storage') \subseteq Draws(storage) \union Draws(broadcast')
      BY <1>1, <3>1, <3>2, DrawsAppend
    <3> QED
      BY <1>1, <3>2, <3>3, <3>4, <3>5 DEF KeepsFile
  <2>3. CASE ClientLeft(s)
    <3>1. Ev("ClientLeft", id[s], 0) \in Event
      BY EventTypes DEF TypeOK
    <3> QED
      BY <1>2, <1>5, <2>3, <3>1 DEF ClientLeft, KeepsFile
  <2>4. CASE Cleanup(s)
    <3>1. Ev("Cleanup", id[s], 0) \in Event
      BY EventTypes DEF TypeOK
    <3>2. CASE broadcast' = Append(broadcast, Ev("Cleanup", id[s], 0)) /\ UNCHANGED <<storage, lost>>
      BY <1>2, <1>5, <2>4, <3>1, <3>2 DEF Cleanup, KeepsFile
    <3>3. CASE DestroyPaper /\ ~Alive(shared_session', store_sessions)
      <4>1. \A t \in Sessions : ~shared_session'[t]
        BY <3>3 DEF Alive
      <4>2. \A t \in msg_sessions : shared_session'[t]
        BY <2>4 DEF Cleanup, MembersOK, TypeOK
      <4>3. msg_sessions = {}
        BY <4>1, <4>2 DEF TypeOK
      <4> QED
        BY <1>4, <2>4, <3>3, <4>3 DEF Cleanup
    <3> QED
      BY <2>4, <3>2, <3>3 DEF Cleanup
  <2>5. CASE ~JoinId(s) /\ ~AddDraw(s, "Stored") /\ ~AddDraw(s, "Transient") /\ ~ClientLeft(s)
               /\ ~Cleanup(s)
    BY <1>3, <1>6, <2>5 DEF Handler, JoinStart, JoinEnd, JoinFull, Rejected, RequestData,
          QueueLow, Callback, MoveCursor, FlagCursor, CanCommand, Close
  <2> QED
    BY <2>1, <2>2, <2>3, <2>4, <2>5
<1>7. ASSUME NEW s \in Sessions, Stream(s) PROVE KeepsFile /\ KeepsBroadcast
  <2>1. CASE StreamBlock(s) \/ StreamCorrupt(s)
    BY <1>3, <2>1 DEF StreamBlock, StreamCorrupt, Streamed
  <2>2. CASE StreamEnd(s)
    <3>1. WriteStorage /\ UNCHANGED <<broadcast, clobbered>>
      BY <2>2 DEF StreamEnd, Streamed
    <3> QED
      BY <3>1, WriteStorageDraws DEF KeepsFile, KeepsBroadcast
  <2> QED
    BY <1>7, <2>1, <2>2 DEF Stream
<1>8. CASE SendFrame
  BY <1>2, <1>8 DEF SendFrame, FrameEnds, FrameRuns, KeepsFile
<1>9. CASE CollectCursors \/ StreamCrash \/ IoWake \/ IoTimeout \/ IoCheck \/ IoSnapshot
  BY <1>3, <1>9, CollectKeeps DEF FrameRuns, StreamCrash, IoWake, IoTimeout, IoCheck, IoSnapshot
<1>10. CASE IoStore
  <2>1. WriteStorage /\ UNCHANGED <<broadcast, clobbered>>
    BY <1>10 DEF IoStore
  <2> QED
    BY <2>1, WriteStorageDraws DEF KeepsFile, KeepsBroadcast
<1>11. CASE IoClear
  <2>1. CASE Alive(shared_session, FALSE)
    BY <1>3, <1>11, <2>1 DEF IoClear
  <2>2. CASE ~Alive(shared_session, FALSE)
    <3>1. msg_sessions = {}
      BY <2>2 DEF Alive, MembersOK, TypeOK
    <3> QED
      BY <1>4, <1>11, <2>2, <3>1 DEF IoClear
  <2> QED
    BY <2>1, <2>2
<1>12. CASE UNCHANGED vars
  BY <1>3, <1>12 DEF vars
<1> QED
  BY <1>6, <1>7, <1>8, <1>9, <1>10, <1>11, <1>12 DEF Next

(***************************************************************************)
(* What a client is sent in a step, with who may send StreamStart and      *)
(* StreamSynced.                                                           *)
(***************************************************************************)
LEMMA GrowStep ==
  ASSUME TypeOK, [Next]_vars, NEW t \in Sessions
  PROVE  \E msgs \in Seq(Message) :
           /\ Sent(t)' = Sent(t) \o msgs
           /\ HasType(msgs, "StreamStart") => JoinEnd(t) /\ ~HasType(msgs, "StreamSynced")
           /\ HasType(msgs, "StreamSynced") => StreamEnd(t)
<1>1. CASE Sent(t)' = Sent(t)
  <2>1. Sent(t) \o <<>> = Sent(t) /\ <<>> \in Seq(Message)
    BY SentType, ConcatEmptySeq
  <2>2. \A type : ~HasType(<<>>, type)
    BY DEF HasType
  <2> QED
    BY <1>1, <2>1, <2>2, Zenon
<1>2. CASE JoinEnd(t) /\ Sent(t)' = Sent(t) \o <<Msg("StreamStart", 0, <<>>)>>
  <2>1. <<Msg("StreamStart", 0, <<>>)>> \in Seq(Message)
        /\ ~HasType(<<Msg("StreamStart", 0, <<>>)>>, "StreamSynced")
    BY EmptyMessages, HasTypeOne, MessageOf
  <2> QED
    BY <1>2, <2>1
<1>3. CASE Sent(t)' = Sent(t) \o <<Msg("Error", 0, <<>>)>>
  <2>1. <<Msg("Error", 0, <<>>)>> \in Seq(Message)
        /\ ~HasType(<<Msg("Error", 0, <<>>)>>, "StreamSynced")
        /\ ~HasType(<<Msg("Error", 0, <<>>)>>, "StreamStart")
    BY EmptyMessages, HasTypeOne, MessageOf
  <2> QED
    BY <1>3, <2>1
<1>4. CASE ws[t] /\ Stream(t)
  BY <1>4, StreamTypes
<1>5. CASE SendFrame /\ Sent(t)' = Sent(t) \o <<Frame(broadcast, moved)>>
  <2> DEFINE frame == Frame(broadcast, moved)
  <2>1. frame \in Message /\ frame.type = "Frame"
    BY <1>5, FrameSent, MessageOf
  <2>2. Sent(t)' = Sent(t) \o <<frame>>
    BY <1>5
  <2> HIDE DEF frame
  <2>3. <<frame>> \in Seq(Message) /\ ~HasType(<<frame>>, "StreamSynced")
        /\ ~HasType(<<frame>>, "StreamStart")
    BY <2>1, HasTypeOne
  <2> QED
    BY <2>2, <2>3
<1> QED
  BY <1>1, <1>2, <1>3, <1>4, <1>5, SentStep

\* The fields of a session that decide what it is sent.
LEMMA FieldsStep ==
  ASSUME TypeOK, [Next]_vars, NEW t \in Sessions
  PROVE  /\ ws'[t] => ws[t]
         /\ \/ JoinId(t) \/ JoinEnd(t) \/ Stream(t)
            \/ Close(t) /\ ~ws'[t] /\ t \notin msg_sessions'
            \/ /\ streaming'[t] = streaming[t]
               /\ streaming_offset'[t] = streaming_offset[t]
               /\ t \in msg_sessions' <=> t \in msg_sessions
<1> USE DEF msVars, queueVars, sessionVars, builderVars, paperVars, frameVars, ioVars,
            ghostVars
<1>1. ws'[t] => ws[t]
  <2>1. CASE UNCHANGED ws
    BY <2>1
  <2> QED
    BY <2>1, QueueStep DEF EnqueueAll, RunDeferred, Drain
<1> DEFINE Kept == /\ streaming'[t] = streaming[t]
                   /\ streaming_offset'[t] = streaming_offset[t]
                   /\ t \in msg_sessions' <=> t \in msg_sessions
<1>2. UNCHANGED <<streaming, streaming_offset, msg_sessions>> => Kept
  OBVIOUS
<1>3. ASSUME NEW s \in Sessions, Handler(s)
      PROVE  JoinId(t) \/ JoinEnd(t) \/ (Close(t) /\ ~ws'[t] /\ t \notin msg_sessions') \/ Kept
  <2>1. CASE JoinId(s) \/ JoinEnd(s)
    BY <2>1 DEF JoinId, JoinEnd, TypeOK
  <2>2. CASE Close(s)
    BY <2>2 DEF Close, Disconnect, TypeOK, QueueTypeOK
  <2>3. CASE ~JoinId(s) /\ ~JoinEnd(s) /\ ~Close(s)
    BY <1>2, <1>3, <2>3 DEF Handler, JoinStart, JoinFull, Rejected, RequestData, QueueLow,
          Callback, AddDraw, MoveCursor, FlagCursor, ClientLeft, Cleanup
  <2> QED
    BY <2>1, <2>2, <2>3
<1>4. ASSUME NEW s \in Sessions, Stream(s) PROVE Stream(t) \/ Kept
  <2>1. CASE t = s
    BY <1>4, <2>1
  <2>2. CASE t # s
    <3>1. streaming \in [Sessions -> BOOLEAN] /\ streaming_offset \in [Sessions -> Nat]
      BY DEF TypeOK
    <3>2. UNCHANGED msg_sessions
      BY <1>4 DEF Stream, StreamBlock, StreamCorrupt, StreamEnd, Streamed
    <3>3. /\ UNCHANGED streaming \/ streaming' = [streaming EXCEPT ![s] = FALSE]
          /\ \/ UNCHANGED streaming_offset
             \/ streaming_offset' = [streaming_offset EXCEPT ![s] = @ + 1]
      BY <1>4 DEF Stream, StreamBlock, StreamCorrupt, StreamEnd
    <3> QED
      BY <2>2, <3>1, <3>2, <3>3
  <2> QED
    BY <2>1, <2>2
<1>5. CASE CollectCursors \/ SendFrame \/ StreamCrash
  BY <1>1, <1>2, <1>5, CollectKeeps DEF SendFrame, FrameEnds, FrameRuns, StreamCrash
<1>6. CASE IoWake \/ IoTimeout \/ IoCheck \/ IoStore \/ IoClear \/ IoSnapshot
  BY <1>2, <1>6 DEF IoWake, IoTimeout, IoCheck, IoStore, IoClear, IoSnapshot
<1>7. CASE UNCHANGED vars
  BY <1>2, <1>7 DEF vars
<1> QED
  BY <1>1, <1>3, <1>4, <1>5, <1>6, <1>7 DEF Next

----------------------------------------------------------------------------
(***************************************************************************)
(* Nothing is missed.  A client whose first message was StreamStart has    *)
(* been a member since, and while it is streaming it has the blocks of the *)
(* file up to its offset.                                                  *)
(***************************************************************************)
StartsWith(msgs, type) == msgs # <<>> /\ msgs[1].type = type

SyncOK(s) ==
  /\ ws[s] /\ Sent(s) = <<>> => streaming_offset[s] = 0
  /\ ws[s] /\ StartsWith(Sent(s), "StreamStart") => s \in msg_sessions
  /\ ws[s] /\ StartsWith(Sent(s), "StreamStart") /\ streaming[s] =>
       /\ ~HasType(Sent(s), "StreamSynced")
       /\ streaming_offset[s] <= Len(disk)
       /\ \A i \in 1..streaming_offset[s] : Draws(disk[i].events) \subseteq Carried(s)

SyncsOK == \A s \in Sessions : SyncOK(s)

LEMMA StartsConcat ==
  ASSUME NEW a \in Seq(Message), NEW b \in Seq(Message)
  PROVE  /\ a \o b = <<>> => a = <<>> /\ b = <<>>
         /\ a # <<>> => (StartsWith(a \o b, "StreamStart") <=> StartsWith(a, "StreamStart"))
         /\ StartsWith(a \o b, "StreamStart") =>
              StartsWith(a, "StreamStart") \/ (a = <<>> /\ HasType(b, "StreamStart"))
<1>1. CASE a = <<>>
  <2>1. a \o b = b
    BY <1>1
  <2>2. b # <<>> => 1 \in DOMAIN b
    OBVIOUS
  <2> QED
    BY <1>1, <2>1, <2>2 DEF StartsWith, HasType
<1>2. CASE a # <<>>
  <2>1. 1 \in 1..Len(a) /\ a \o b # <<>>
    BY <1>2
  <2>2. (a \o b)[1] = a[1]
    BY <2>1, Places
  <2> QED
    BY <1>2, <2>1, <2>2 DEF StartsWith
<1> QED
  BY <1>1, <1>2

\* In a step what was carried is carried still.
LEMMA CarriedGrows ==
  ASSUME TypeOK, TypeOK', NEW t \in Sessions, NEW msgs \in Seq(Message),
         Sent(t)' = Sent(t) \o msgs
  PROVE  Carried(t)' = Carried(t) \union InMessages(msgs)
<1>1. Sent(t) \in Seq(Message) /\ Carried(t) = InMessages(Sent(t))
  BY SentType, CarriedIsSent
<1>2. Carried(t)' = InMessages(Sent(t)')
  <2>1. wire'[t] \in Seq(Message) /\ msg_queue'[t] \in Seq(Message)
    BY DEF TypeOK, QueueTypeOK
  <2> QED
    BY <2>1, InMessagesConcat DEF Carried, Sent, InMessages
<1>3. InMessages(Sent(t) \o msgs) = InMessages(Sent(t)) \union InMessages(msgs)
  BY <1>1, InMessagesConcat
<1> QED
  BY <1>1, <1>2, <1>3

LEMMA SyncsStep ==
  ASSUME TypeOK, TypeOK', MembersOK, ServingOK, StreamingOK, ConnectedOK, SyncsOK, [Next]_vars
  PROVE  SyncsOK'
<1> SUFFICES ASSUME NEW t \in Sessions PROVE SyncOK(t)'
  BY DEF SyncsOK
<1>1. PICK msgs \in Seq(Message) :
        /\ Sent(t)' = Sent(t) \o msgs
        /\ HasType(msgs, "StreamStart") => JoinEnd(t) /\ ~HasType(msgs, "StreamSynced")
        /\ HasType(msgs, "StreamSynced") => StreamEnd(t)
  BY GrowStep
<1>2. SyncOK(t) /\ Sent(t) \in Seq(Message)
  BY SentType DEF SyncsOK
<1>3. /\ Sent(t)' = <<>> => Sent(t) = <<>> /\ msgs = <<>>
      /\ StartsWith(Sent(t)', "StreamStart") =>
           StartsWith(Sent(t), "StreamStart") \/ (Sent(t) = <<>> /\ JoinEnd(t))
  BY <1>1, <1>2, StartsConcat
<1>4. ws'[t] => ws[t]
  BY FieldsStep
<1>5. KeepsFile
  BY BuildersStep
<1>6. Carried(t) \subseteq Carried(t)'
  BY <1>1, CarriedGrows
<1>7. JoinEnd(t) => streaming_offset' = streaming_offset /\ streaming' = streaming
                    /\ t \in msg_sessions' /\ t \notin msg_sessions
  BY DEF JoinEnd, sessionVars, MembersOK, Joining
<1>8. JoinId(t) => streaming_offset'[t] = 0 /\ t \notin msg_sessions /\ msg_sessions' = msg_sessions
  BY DEF JoinId, MembersOK, Joining, TypeOK
<1>9. Stream(t) => msg_sessions' = msg_sessions /\ t = Head(need_data_sessions)
                   /\ io = "streaming" /\ streaming[t]
  BY DEF Stream, StreamBlock, StreamCorrupt, StreamEnd, Streamed, StreamingOK
<1>10. ASSUME ws'[t], Sent(t)' = <<>> PROVE streaming_offset'[t] = 0
  <2>1. ws[t] /\ streaming_offset[t] = 0 /\ msgs = <<>> /\ Sent(t) = <<>>
    BY <1>2, <1>3, <1>4, <1>10 DEF SyncOK
  <2>2. ~Stream(t)
    <3> SUFFICES ASSUME Stream(t) PROVE FALSE
      OBVIOUS
    <3>1. PICK more \in Seq(Message) : Sent(t)' = Sent(t) \o more /\ more # <<>>
      BY <2>1, StreamSent
    <3> QED
      BY <1>2, <1>10, <3>1, StartsConcat
  <2> QED
    BY <1>7, <1>8, <1>10, <2>1, <2>2, FieldsStep
<1>11. ASSUME ws'[t], StartsWith(Sent(t)', "StreamStart") PROVE t \in msg_sessions'
  <2>1. CASE JoinEnd(t)
    BY <1>7, <2>1
  <2>2. CASE ~JoinEnd(t)
    <3>1. t \in msg_sessions
      BY <1>2, <1>3, <1>4, <1>11, <2>2 DEF SyncOK
    <3> QED
      BY <1>8, <1>9, <1>11, <2>2, <3>1, FieldsStep
  <2> QED
    BY <2>1, <2>2
<1>12. ASSUME ws'[t], StartsWith(Sent(t)', "StreamStart"), streaming'[t]
       PROVE  /\ ~HasType(Sent(t)', "StreamSynced")
              /\ streaming_offset'[t] <= Len(disk')
              /\ \A i \in 1..streaming_offset'[t] : Draws(disk'[i].events) \subseteq Carried(t)'
  <2>0. ws[t] /\ Len(disk) \in Nat /\ Len(disk') \in Nat /\ streaming_offset[t] \in Nat
    BY <1>4, <1>12 DEF TypeOK
  <2>1. CASE Sent(t) = <<>> /\ JoinEnd(t)
    <3>1. streaming_offset'[t] = 0
      BY <1>2, <1>7, <2>0, <2>1 DEF SyncOK
    <3>2. ~HasType(msgs, "StreamSynced")
      <4>1. ~StreamEnd(t) \/ HasType(msgs, "StreamStart")
        BY <1>1, <1>2, <1>12, <2>1, StartsConcat DEF StartsWith
      <4>2. HasType(msgs, "StreamStart")
        BY <1>1, <1>2, <1>12, <2>1, StartsConcat DEF StartsWith
      <4> QED
        BY <1>1, <4>2
    <3>3. ~HasType(Sent(t), "StreamSynced")
      BY <2>1 DEF HasType
    <3> QED
      BY <1>1, <1>2, <2>0, <3>1, <3>2, <3>3, HasTypeConcat
  <2>2. CASE StartsWith(Sent(t), "StreamStart")
    <3>1. t \in msg_sessions /\ ~JoinEnd(t) /\ ~JoinId(t)
      BY <1>2, <1>7, <1>8, <2>0, <2>2 DEF SyncOK
    <3>2. CASE Stream(t)
      <4>1. streaming[t] /\ ~StreamEnd(t) /\ ~StreamCorrupt(t)
        BY <1>9, <1>12, <3>2 DEF StreamEnd, StreamCorrupt, TypeOK
      <4>2. StreamBlock(t)
        BY <3>2, <4>1 DEF Stream
      <4>3. ~HasType(Sent(t)', "StreamSynced")
        BY <1>1, <1>2, <2>0, <2>2, <4>1, HasTypeConcat DEF SyncOK
      <4>4. /\ streaming_offset[t] + 1 <= Len(disk) /\ disk' = disk
            /\ streaming_offset'[t] = streaming_offset[t] + 1
        BY <2>0, <4>2 DEF StreamBlock, TypeOK
      <4>5. Draws(disk[streaming_offset[t] + 1].events) \subseteq Carried(t)'
        <5> DEFINE block == Msg("Block", 0, disk[streaming_offset[t] + 1].events)
        <5>1. block.events = disk[streaming_offset[t] + 1].events
          BY MessageOf
        <5>2. PICK more \in Seq(Message) : Sent(t)' = Sent(t) \o more /\ more = <<block>>
          BY <2>0, <3>2, <4>1, StreamSent
        <5> HIDE DEF block
        <5>3. Carried(t)' = Carried(t) \union InMessages(more)
          BY <5>2, CarriedGrows
        <5> QED
          BY <5>1, <5>2, <5>3, InMessagesOne
      <4>6. \A i \in 1..streaming_offset[t] : Draws(disk[i].events) \subseteq Carried(t)
        BY <1>2, <2>0, <2>2, <4>1 DEF SyncOK
      <4>7. \A i \in 1..streaming_offset[t] + 1 : Draws(disk[i].events) \subseteq Carried(t)'
        BY <1>6, <2>0, <4>5, <4>6
      <4> QED
        BY <4>3, <4>4, <4>7
    <3>3. CASE ~Stream(t)
      <4>1. streaming[t] /\ streaming_offset'[t] = streaming_offset[t]
        BY <1>12, <3>1, <3>3, FieldsStep
      <4>2. ~HasType(Sent(t)', "StreamSynced")
        <5>1. ~HasType(msgs, "StreamSynced")
          BY <1>1, <3>3 DEF Stream
        <5>2. ~HasType(Sent(t), "StreamSynced")
          BY <1>2, <2>0, <2>2, <4>1 DEF SyncOK
        <5> QED
          BY <1>1, <1>2, <5>1, <5>2, HasTypeConcat
      <4>3. streaming_offset[t] <= Len(disk)
            /\ \A i \in 1..streaming_offset[t] : Draws(disk[i].events) \subseteq Carried(t)
        BY <1>2, <2>0, <2>2, <4>1 DEF SyncOK
      <4>4. Len(disk') >= Len(disk) /\ \A i \in 1..Len(disk) : disk'[i] = disk[i]
        BY <1>5 DEF KeepsFile
      <4>5. \A i \in 1..streaming_offset[t] : disk'[i] = disk[i]
        BY <2>0, <4>3, <4>4
      <4>6. \A i \in 1..streaming_offset[t] : Draws(disk'[i].events) \subseteq Carried(t)'
        BY <1>6, <4>3, <4>5
      <4> QED
        BY <2>0, <4>1, <4>2, <4>3, <4>4, <4>6
    <3> QED
      BY <3>2, <3>3
  <2> QED
    BY <1>3, <1>12, <2>1, <2>2
<1>13. (HasType(Sent(t), "StreamSynced"))' = HasType(Sent(t)', "StreamSynced")
       /\ (StartsWith(Sent(t), "StreamStart"))' = StartsWith(Sent(t)', "StreamStart")
  BY DEF HasType, StartsWith
<1> QED
  BY <1>10, <1>11, <1>12, <1>13 DEF SyncOK

LEMMA NoMissedStep ==
  ASSUME TypeOK, TypeOK', MembersOK, ServingOK, StreamingOK, ConnectedOK, SyncsOK,
         NoMissedDraw, [Next]_vars
  PROVE  NoMissedDraw'
<1> SUFFICES ASSUME NEW t \in Sessions, Synced(t)'
             PROVE  OnDisk' \union Draws(storage')
                      \subseteq Carried(t)' \union Draws(broadcast') \union clobbered'
  BY DEF NoMissedDraw, OnDisk, Draws
<1>1. PICK msgs \in Seq(Message) :
        /\ Sent(t)' = Sent(t) \o msgs
        /\ HasType(msgs, "StreamStart") => JoinEnd(t) /\ ~HasType(msgs, "StreamSynced")
        /\ HasType(msgs, "StreamSynced") => StreamEnd(t)
  BY GrowStep
<1>2. SyncOK(t) /\ Sent(t) \in Seq(Message) /\ Sent(t)' \in Seq(Message)
  BY <1>1, SentType, Places DEF SyncsOK
<1>3. /\ t \in msg_sessions' /\ ~streaming'[t]
      /\ HasType(Sent(t)', "StreamSynced") /\ StartsWith(Sent(t)', "StreamStart")
  <2>1. t \in msg_sessions' /\ ~streaming'[t] /\ Sent(t)'[1].type = "StreamStart"
        /\ HasType(Sent(t)', "StreamSynced")
    BY DEF Synced, Live, HasType
  <2>2. Sent(t)' # <<>>
    BY <2>1 DEF HasType
  <2> QED
    BY <2>1, <2>2 DEF StartsWith
<1>4. KeepsFile /\ (KeepsBroadcast \/ SendFrame \/ msg_sessions = {})
  BY BuildersStep
<1>5. Carried(t)' = Carried(t) \union InMessages(msgs)
  BY <1>1, CarriedGrows
<1>6. CASE Synced(t)
  <2>1. OnDisk \union Draws(storage) \subseteq Carried(t) \union Draws(broadcast) \union clobbered
    BY <1>6 DEF NoMissedDraw
  <2>2. Draws(broadcast) \subseteq Draws(broadcast') \union clobbered' \union Carried(t)'
    <3>1. t \in msg_sessions
      BY <1>6 DEF Synced, Live
    <3>2. CASE SendFrame
      <4>1. ws[t] /\ Live(t)
        BY <1>6, <3>1, <3>2 DEF SendFrame, FrameEnds, FrameRuns, ConnectedOK, Synced
      <4>0. SUFFICES ASSUME broadcast # <<>> PROVE Draws(broadcast) \subseteq Carried(t)'
        BY DrawsNone
      <4> DEFINE frame == Frame(broadcast, moved)
      <4>2. frame \in Message /\ frame.events = broadcast /\ Sent(t)' = Sent(t) \o <<frame>>
        BY <3>2, <4>0, <4>1, FrameSent, MessageOf
      <4> HIDE DEF frame
      <4>3. <<frame>> \in Seq(Message)
        BY <4>2
      <4>4. Carried(t)' = Carried(t) \union InMessages(<<frame>>)
        BY <4>2, <4>3, CarriedGrows
      <4> QED
        BY <4>2, <4>4, InMessagesOne
    <3> QED
      BY <1>4, <3>1, <3>2 DEF KeepsBroadcast
  <2> QED
    BY <1>4, <1>5, <2>1, <2>2 DEF KeepsFile
<1>7. CASE ~Synced(t) /\ Stream(t)
  <2>1. /\ t \in msg_sessions /\ io = "streaming" /\ streaming[t]
        /\ msg_sessions' = msg_sessions
    BY <1>3, <1>7 DEF Stream, StreamBlock, StreamCorrupt, StreamEnd, Streamed, StreamingOK
  <2>2. ws[t]
    BY <2>1 DEF ConnectedOK
  <2>3. ~JoinEnd(t)
    BY <2>1 DEF JoinEnd, MembersOK, Joining
  <2>4. StartsWith(Sent(t), "StreamStart")
    BY <1>1, <1>2, <1>3, <2>3, StartsConcat
  <2>5. /\ ~HasType(Sent(t), "StreamSynced") /\ streaming_offset[t] <= Len(disk)
        /\ \A i \in 1..streaming_offset[t] : Draws(disk[i].events) \subseteq Carried(t)
    BY <1>2, <2>1, <2>2, <2>4 DEF SyncOK
  <2>6. StreamEnd(t)
    BY <1>1, <1>2, <1>3, <2>5, HasTypeConcat
  <2>7. disk \in Seq(Block) /\ Len(disk) \in Nat /\ streaming_offset[t] \in Nat
        /\ storage \in Seq(Event)
    BY DEF TypeOK
  <2>8. OnDisk \subseteq Carried(t)
    <3>1. streaming_offset[t] >= Len(disk)
      BY <2>6 DEF StreamEnd
    <3>2. \A i \in DOMAIN disk : Draws(disk[i].events) \subseteq Carried(t)
      BY <2>5, <2>7, <3>1
    <3> QED
      BY <3>2 DEF OnDisk
  <2>9. Draws(storage) \subseteq Carried(t)'
    <3>1. CASE storage = <<>>
      BY <3>1, DrawsNone
    <3>2. CASE storage # <<>>
      <4> DEFINE block == Msg("Block", 0, storage)
                 synced == Msg("StreamSynced", id[t], <<>>)
      <4>0. block.events = storage
        BY MessageOf
      <4>1. ~StreamBlock(t) /\ ~StreamCorrupt(t)
        BY <2>6, <2>7 DEF StreamBlock, StreamCorrupt, StreamEnd
      <4>2. PICK more \in Seq(Message) : Sent(t)' = Sent(t) \o more /\ more = <<block, synced>>
        BY <1>7, <2>2, <3>2, <4>1, StreamSent
      <4> HIDE DEF block, synced
      <4>3. Carried(t)' = Carried(t) \union InMessages(more)
        BY <4>2, CarriedGrows
      <4>4. 1 \in DOMAIN more /\ more[1] = block
        BY <4>2
      <4>5. Draws(storage) \subseteq InMessages(more)
        BY <4>0, <4>4 DEF InMessages
      <4> QED
        BY <4>3, <4>5
    <3> QED
      BY <3>1, <3>2
  <2>10. OnDisk' \union Draws(storage') = OnDisk \union Draws(storage)
    BY <2>6, WriteStorageDraws DEF StreamEnd
  <2> QED
    BY <1>5, <2>8, <2>9, <2>10
<1>8. CASE ~Synced(t) /\ ~Stream(t)
  <2>1. ~HasType(msgs, "StreamSynced")
    BY <1>1, <1>8 DEF Stream
  <2>2. HasType(Sent(t), "StreamSynced")
    BY <1>1, <1>2, <1>3, <2>1, HasTypeConcat
  <2>3. Sent(t) # <<>>
    BY <2>2 DEF HasType
  <2>4. StartsWith(Sent(t), "StreamStart")
    BY <1>1, <1>2, <1>3, <2>3, StartsConcat
  <2>5. ~JoinEnd(t)
    <3> SUFFICES ASSUME JoinEnd(t) PROVE FALSE
      OBVIOUS
    <3>1. ws[t] /\ t \notin msg_sessions
      BY DEF JoinEnd, ConnectedOK, MembersOK, Joining
    <3> QED
      BY <1>2, <2>4, <3>1 DEF SyncOK
  <2>6. ~JoinId(t)
    BY <1>3 DEF JoinId, MembersOK, Joining
  <2>7. t \in msg_sessions /\ ~streaming[t]
    BY <1>3, <1>8, <2>5, <2>6, FieldsStep
  <2> QED
    BY <1>8, <2>2, <2>4, <2>7 DEF Synced, Live, HasType, StartsWith
<1> QED
  BY <1>6, <1>7, <1>8

----------------------------------------------------------------------------
LEMMA SeamInvariant ==
  Spec => [](/\ TypeOK /\ JoinOK /\ MembersOK /\ ServingOK
             /\ StreamingOK /\ ConnectedOK /\ FramesOK /\ SyncsOK
             /\ NoStreamAfterFrame /\ NoMissedDraw)
<1>1. Init => StreamingOK /\ ConnectedOK /\ FramesOK /\ SyncsOK /\ NoStreamAfterFrame /\ NoMissedDraw
  <2> SUFFICES ASSUME Init
               PROVE  StreamingOK /\ ConnectedOK /\ FramesOK /\ SyncsOK /\ NoStreamAfterFrame
                      /\ NoMissedDraw
    OBVIOUS
  <2>1. /\ io = "waiting" /\ msg_sessions = {}
        /\ \A s \in Sessions : /\ wire[s] = <<>> /\ msg_queue[s] = <<>> /\ pc[s] = "idle"
                               /\ streaming_offset[s] = 0
    BY DEF Init, QueueInit
  <2>2. \A s \in Sessions : Sent(s) = <<>>
    <3>1. <<>> \o <<>> = <<>>
      OBVIOUS
    <3> QED
      BY <2>1, <3>1 DEF Sent
  <2>3. StreamingOK /\ ConnectedOK
    BY <2>1 DEF StreamingOK, ConnectedOK, Joining
  <2>4. FramesOK /\ NoStreamAfterFrame
    BY <2>2 DEF FramesOK, HasType, NoStreamAfterFrame
  <2>5. SyncsOK
    BY <2>1, <2>2 DEF SyncsOK, SyncOK, StartsWith
  <2>6. NoMissedDraw
    BY <2>1 DEF NoMissedDraw, Synced, Live
  <2> QED
    BY <2>3, <2>4, <2>5, <2>6
<1>2. /\ TypeOK /\ JoinOK /\ MembersOK /\ ServingOK
      /\ StreamingOK /\ ConnectedOK /\ FramesOK /\ SyncsOK
      /\ NoStreamAfterFrame /\ NoMissedDraw
      /\ [Next]_vars
      => /\ StreamingOK' /\ ConnectedOK' /\ FramesOK' /\ SyncsOK'
         /\ NoStreamAfterFrame' /\ NoMissedDraw'
  BY TypeStep, StreamingStep, ConnectedStep, FramesStep, SyncsStep, AfterFrameStep, NoMissedStep
<1> QED
  BY <1>1, <1>2, TypeInvariant, PTL DEF Spec

(***************************************************************************)
(* The stream of a paper comes in one piece, before all frames: nothing    *)
(* of it is sent to a client that got a frame, for any number of clients   *)
(* whose requests and frames cross.                                        *)
(***************************************************************************)
THEOREM StreamBeforeFrames == Spec => []NoStreamAfterFrame
BY SeamInvariant, PTL

(***************************************************************************)
(* Whoever is synced has every stored draw, or the next frame brings it,   *)
(* for any number of clients that join, draw and leave, any file and any   *)
(* number of draws.                                                        *)
(***************************************************************************)
THEOREM NothingMissed == Spec => []NoMissedDraw
BY SeamInvariant, PTL

----------------------------------------------------------------------------
(***************************************************************************)
(* Every stored draw is in one place and in order.  It takes that only     *)
(* stored draws get into the storage builder and so into the file.         *)
(***************************************************************************)
StoredOnly(evs) == \A k \in DOMAIN evs : evs[k].kind = "Stored"

OnlyStored == StoredOnly(storage) /\ \A i \in DOMAIN disk : StoredOnly(disk[i].events)

LEMMA StoredWrite ==
  ASSUME TypeOK, OnlyStored, StoredOnceInOrder, WriteStorage, UNCHANGED <<events, lost>>
  PROVE  OnlyStored' /\ StoredOnceInOrder'
<1>1. /\ storage' = <<>> /\ StoredOnly(storage') /\ Increasing(storage')
      /\ \A evs : AllBelow(evs, storage')
  BY DEF WriteStorage, StoredOnly, Increasing, AllBelow
<1>2. Accepted' = Accepted /\ lost' = lost
      /\ OnDisk' \union Draws(storage') = OnDisk \union Draws(storage)
  BY WriteStorageDraws DEF Accepted
<1>3. ASSUME NEW i \in DOMAIN disk'
      PROVE  /\ StoredOnly(disk'[i].events) /\ Increasing(disk'[i].events)
             /\ \A j \in DOMAIN disk' : i < j => AllBelow(disk'[i].events, disk'[j].events)
  <2>1. CASE storage = <<>>
    <3>1. disk' = disk
      BY <2>1 DEF WriteStorage
    <3> QED
      BY <1>3, <3>1 DEF OnlyStored, StoredOnceInOrder
  <2>2. CASE storage # <<>>
    <3> DEFINE b == [events |-> storage, ok |-> TRUE]
    <3>1. b \in Block /\ b.events = storage /\ disk \in Seq(Block) /\ Len(disk) \in Nat
      BY DEF Block, TypeOK
    <3>2. disk' = Append(disk, b)
      BY <2>2 DEF WriteStorage
    <3> HIDE DEF b
    <3>3. /\ \A j \in 1..Len(disk) : disk'[j] = disk[j]
          /\ disk'[Len(disk) + 1] = b
          /\ DOMAIN disk' = 1..Len(disk) + 1 /\ DOMAIN disk = 1..Len(disk)
      BY <3>1, <3>2, AppendProperties, LenProperties
    <3>4. CASE i \in 1..Len(disk)
      <4>1. disk'[i] = disk[i] /\ i \in DOMAIN disk
        BY <3>3, <3>4
      <4>2. ASSUME NEW j \in DOMAIN disk', i < j
            PROVE  AllBelow(disk[i].events, disk'[j].events)
        <5>1. CASE j \in 1..Len(disk)
          BY <3>3, <4>1, <4>2, <5>1 DEF StoredOnceInOrder
        <5>2. CASE j = Len(disk) + 1
          BY <3>1, <3>3, <4>1, <5>2 DEF StoredOnceInOrder
        <5> QED
          BY <3>1, <3>3, <5>1, <5>2
      <4> QED
        BY <4>1, <4>2 DEF OnlyStored, StoredOnceInOrder
    <3>5. CASE i = Len(disk) + 1
      <4>1. disk'[i].events = storage /\ \A j \in DOMAIN disk' : ~(i < j)
        BY <3>1, <3>3, <3>5
      <4> QED
        BY <4>1 DEF OnlyStored, StoredOnceInOrder
    <3> QED
      BY <1>3, <3>1, <3>3, <3>4, <3>5
  <2> QED
    BY <2>1, <2>2
<1> QED
  BY <1>1, <1>2, <1>3 DEF OnlyStored, StoredOnceInOrder

LEMMA StoredDestroy ==
  ASSUME TypeOK, OnlyStored, StoredOnceInOrder, DestroyPaper, UNCHANGED <<events, disk>>
  PROVE  OnlyStored' /\ StoredOnceInOrder'
<1>1. /\ storage' = <<>> /\ StoredOnly(storage') /\ Increasing(storage')
      /\ \A evs : AllBelow(evs, storage')
  BY DEF DestroyPaper, StoredOnly, Increasing, AllBelow
<1>2. /\ Accepted' = Accepted /\ OnDisk' = OnDisk /\ Draws(storage') = {}
      /\ lost' = lost \union Draws(storage)
  BY DrawsNone DEF DestroyPaper, Accepted, OnDisk
<1>3. ASSUME NEW n \in Draws(storage), n \in OnDisk PROVE FALSE
  <2>1. PICK k \in DOMAIN storage : n = storage[k].n
    BY <1>3 DEF Draws
  <2>2. PICK i \in DOMAIN disk : n \in Draws(disk[i].events)
    BY <1>3 DEF OnDisk
  <2>3. PICK l \in DOMAIN disk[i].events : n = disk[i].events[l].n
    BY <2>2 DEF Draws
  <2>4. disk[i].events[l].n < storage[k].n
    BY <2>1, <2>2, <2>3 DEF StoredOnceInOrder, AllBelow
  <2>5. n \in Nat
    BY <1>3, DrawsType DEF TypeOK
  <2> QED
    BY <2>1, <2>3, <2>4, <2>5
<1> QED
  BY <1>1, <1>2, <1>3 DEF OnlyStored, StoredOnceInOrder

\* An input that is accepted has the highest number so far.
LEMMA StoredAccept ==
  ASSUME TypeOK, OnlyStored, StoredOnceInOrder, NEW s \in Sessions,
         NEW kind \in {"Stored", "Transient", "Cursor"},
         events' = Append(events, kind),
         storage' = IF kind = "Stored" THEN Append(storage, Ev(kind, id[s], Len(events) + 1))
                    ELSE storage,
         UNCHANGED <<disk, lost>>
  PROVE  OnlyStored' /\ StoredOnceInOrder'
<1> DEFINE new == Len(events) + 1
           draw == Ev(kind, id[s], new)
<1>1. /\ Len(events) \in Nat /\ new \in Nat /\ draw \in Event
      /\ draw.kind = kind /\ draw.n = new
      /\ storage \in Seq(Event) /\ Len(storage) \in Nat
  <2>1. id[s] \in ClientId /\ Len(events) \in Nat
    BY DEF TypeOK
  <2> QED
    BY <2>1, EventTypes DEF Ev, TypeOK
<1>2. /\ DOMAIN events = 1..Len(events) /\ DOMAIN events' = 1..new
      /\ events'[new] = kind /\ \A n \in 1..Len(events) : events'[n] = events[n]
  <2>1. events \in Seq({"Stored", "Transient", "Cursor"})
    BY DEF TypeOK
  <2> QED
    BY <2>1, AppendProperties, LenProperties
<1>3. storage' = IF kind = "Stored" THEN Append(storage, draw) ELSE storage
  OBVIOUS
<1> HIDE DEF draw
<1>4. Accepted' = Accepted \union (IF kind = "Stored" THEN {new} ELSE {}) /\ new \notin Accepted
  BY <1>1, <1>2 DEF Accepted
<1>5. Draws(storage') = Draws(storage) \union (IF kind = "Stored" THEN {new} ELSE {})
  BY <1>1, <1>3, DrawsAppend
<1>6. OnDisk' = OnDisk /\ lost' = lost
  BY DEF OnDisk
<1>7. \A n \in Accepted : n < new
  BY <1>1, <1>2 DEF Accepted
<1>8. ASSUME NEW evs, StoredOnly(evs), Draws(evs) \subseteq Accepted
      PROVE  \A k \in DOMAIN evs : evs[k].n < new
  BY <1>7, <1>8 DEF StoredOnly, Draws
<1>9. \A k \in DOMAIN storage : storage[k].n < new
  <2>1. Draws(storage) \subseteq Accepted /\ StoredOnly(storage)
    BY DEF StoredOnceInOrder, OnlyStored
  <2> QED
    BY <1>8, <2>1
<1>10. \A i \in DOMAIN disk : \A k \in DOMAIN disk[i].events : disk[i].events[k].n < new
  <2> SUFFICES ASSUME NEW i \in DOMAIN disk
               PROVE  \A k \in DOMAIN disk[i].events : disk[i].events[k].n < new
    OBVIOUS
  <2>1. Draws(disk[i].events) \subseteq Accepted /\ StoredOnly(disk[i].events)
    BY DEF StoredOnceInOrder, OnlyStored, OnDisk
  <2> QED
    BY <1>8, <2>1
<1>11. /\ StoredOnly(storage') /\ Increasing(storage')
       /\ \A i \in DOMAIN disk : AllBelow(disk[i].events, storage')
  <2>1. CASE kind # "Stored"
    BY <1>3, <2>1 DEF OnlyStored, StoredOnceInOrder
  <2>2. CASE kind = "Stored"
    <3>1. /\ DOMAIN storage = 1..Len(storage) /\ DOMAIN storage' = 1..Len(storage) + 1
          /\ storage'[Len(storage) + 1] = draw
          /\ \A k \in 1..Len(storage) : storage'[k] = storage[k]
      BY <1>1, <1>3, <2>2, AppendProperties, LenProperties
    <3>2. StoredOnly(storage')
      BY <1>1, <2>2, <3>1 DEF OnlyStored, StoredOnly
    <3>3. Increasing(storage')
      <4> SUFFICES ASSUME NEW i \in DOMAIN storage', NEW j \in DOMAIN storage', i < j
                   PROVE  storage'[i].n < storage'[j].n
        BY DEF Increasing
      <4>1. i \in DOMAIN storage /\ storage'[i] = storage[i]
        BY <1>1, <3>1
      <4>2. CASE j \in DOMAIN storage
        BY <3>1, <4>1, <4>2 DEF StoredOnceInOrder, Increasing
      <4>3. CASE j = Len(storage) + 1
        BY <1>1, <1>9, <3>1, <4>1, <4>3
      <4> QED
        BY <1>1, <3>1, <4>2, <4>3
    <3>4. ASSUME NEW i \in DOMAIN disk PROVE AllBelow(disk[i].events, storage')
      <4> SUFFICES ASSUME NEW k \in DOMAIN disk[i].events, NEW j \in DOMAIN storage'
                   PROVE  disk[i].events[k].n < storage'[j].n
        BY DEF AllBelow
      <4>1. CASE j \in DOMAIN storage
        BY <3>1, <3>4, <4>1 DEF StoredOnceInOrder, AllBelow
      <4>2. CASE j = Len(storage) + 1
        BY <1>1, <1>10, <3>1, <3>4, <4>2
      <4> QED
        BY <1>1, <3>1, <4>1, <4>2
    <3> QED
      BY <3>2, <3>3, <3>4
  <2> QED
    BY <2>1, <2>2
<1>12. new \notin OnDisk \union Draws(storage) \union lost
  BY <1>4 DEF StoredOnceInOrder
<1> HIDE DEF new
<1>13. OnlyStored'
  BY <1>11 DEF OnlyStored
<1>14. /\ OnDisk' \union Draws(storage') \union lost' = Accepted'
       /\ lost' \intersect (OnDisk' \union Draws(storage')) = {}
  BY <1>4, <1>5, <1>6, <1>12 DEF StoredOnceInOrder
<1>15. (Draws(storage))' = Draws(storage')
  BY DEF Draws
<1> QED
  BY <1>11, <1>13, <1>14, <1>15 DEF StoredOnceInOrder

LEMMA StoredStep ==
  ASSUME TypeOK, OnlyStored, StoredOnceInOrder, [Next]_vars
  PROVE  OnlyStored' /\ StoredOnceInOrder'
<1> USE DEF msVars, queueVars, sessionVars, builderVars, paperVars, frameVars, ioVars,
            ghostVars
<1>1. UNCHANGED <<disk, storage, events, lost>> => OnlyStored' /\ StoredOnceInOrder'
  BY DEF OnlyStored, StoredOnceInOrder, OnDisk, Accepted
<1>2. ASSUME NEW s \in Sessions, Handler(s) PROVE OnlyStored' /\ StoredOnceInOrder'
  <2>1. ASSUME NEW kind \in {"Stored", "Transient"}, AddDraw(s, kind)
        PROVE  OnlyStored' /\ StoredOnceInOrder'
    <3>1. /\ events' = Append(events, kind)
          /\ storage' = IF kind = "Stored" THEN Append(storage, Ev(kind, id[s], Len(events) + 1))
                        ELSE storage
          /\ UNCHANGED <<disk, lost>>
      BY <2>1 DEF AddDraw, CanCommand
    <3> QED
      BY <3>1, StoredAccept
  <2>2. CASE MoveCursor(s)
    <3>1. events' = Append(events, "Cursor") /\ UNCHANGED <<storage, disk, lost>>
      BY <2>2 DEF MoveCursor, CanCommand
    <3> QED
      BY <3>1, StoredAccept
  <2>3. CASE Cleanup(s)
    BY <1>1, <2>3, StoredDestroy DEF Cleanup
  <2>4. CASE ~AddDraw(s, "Stored") /\ ~AddDraw(s, "Transient") /\ ~MoveCursor(s) /\ ~Cleanup(s)
    BY <1>1, <1>2, <2>4 DEF Handler, JoinStart, JoinId, JoinEnd, JoinFull, Rejected, RequestData,
          QueueLow, Callback, FlagCursor, Close, ClientLeft
  <2> QED
    BY <2>1, <2>2, <2>3, <2>4
<1>3. ASSUME NEW s \in Sessions, Stream(s) PROVE OnlyStored' /\ StoredOnceInOrder'
  <2>1. CASE StreamBlock(s) \/ StreamCorrupt(s)
    BY <1>1, <2>1 DEF StreamBlock, StreamCorrupt, Streamed
  <2>2. CASE StreamEnd(s)
    BY <2>2, StoredWrite DEF StreamEnd, Streamed
  <2> QED
    BY <1>3, <2>1, <2>2 DEF Stream
<1>4. CASE CollectCursors \/ SendFrame \/ StreamCrash \/ IoWake \/ IoTimeout \/ IoCheck
             \/ IoSnapshot
  BY <1>1, <1>4, CollectKeeps DEF SendFrame, FrameEnds, FrameRuns, StreamCrash, IoWake, IoTimeout, IoCheck, IoSnapshot
<1>5. CASE IoStore
  BY <1>5, StoredWrite DEF IoStore
<1>6. CASE IoClear
  BY <1>1, <1>6, StoredDestroy DEF IoClear
<1>7. CASE UNCHANGED vars
  BY <1>1, <1>7 DEF vars
<1> QED
  BY <1>2, <1>3, <1>4, <1>5, <1>6, <1>7 DEF Next

(***************************************************************************)
(* No stored draw is ever in two places or none, and file and builder keep *)
(* the order in which the draws were accepted, for any number of clients   *)
(* and draws and any file that was in order.                               *)
(***************************************************************************)
THEOREM StoredInOnePlace == Spec => []StoredOnceInOrder
<1>1. Init => OnlyStored /\ StoredOnceInOrder
  <2> SUFFICES ASSUME Init PROVE OnlyStored /\ StoredOnceInOrder
    OBVIOUS
  <2>1. PICK p \in InitialPapers : disk = p.disk /\ events = p.events
    BY DEF Init
  <2>2. /\ storage = <<>> /\ StoredOnly(storage) /\ Increasing(storage)
        /\ Draws(storage) = {} /\ lost = {}
        /\ \A evs : AllBelow(evs, storage)
    BY DrawsNone DEF Init, StoredOnly, Increasing, AllBelow
  <2>3. OnDisk = Accepted
    BY <2>1, InitialOrderAssumption DEF OnDisk, Accepted
  <2>4. \A i \in DOMAIN disk :
          /\ StoredOnly(disk[i].events) /\ Increasing(disk[i].events)
          /\ \A j \in DOMAIN disk : i < j => AllBelow(disk[i].events, disk[j].events)
    BY <2>1, InitialOrderAssumption DEF StoredOnly
  <2> QED
    BY <2>2, <2>3, <2>4 DEF OnlyStored, StoredOnceInOrder
<1>2. TypeOK /\ OnlyStored /\ StoredOnceInOrder /\ [Next]_vars => OnlyStored' /\ StoredOnceInOrder'
  BY StoredStep
<1> QED
  BY <1>1, <1>2, TypeInvariant, PTL DEF Spec

----------------------------------------------------------------------------
(***************************************************************************)
(* Cursors.  Frames alone carry positions, so who was sent one is live;    *)
(* and a client has moved only since it joined.                            *)
(***************************************************************************)
MoverOK(s) ==
  /\ cursor[s] # 0 => ~Joining(s) /\ (shared_session[s] \/ ~ws[s])
  /\ pc[s] \in {"leaving", "cleanup"} => ~ws[s]

CursorsOK ==
  /\ \A s \in Sessions : MoverOK(s)
  /\ \A t \in Sessions : ~HasType(Sent(t), "Frame") => \A cid : CursorsSent(t, cid) = {}

\* The positions under a client id in a sequence of messages.
Positions(msgs, cid) ==
  {c.n : c \in {d \in UNION {msgs[i].cursors : i \in DOMAIN msgs} : d.id = cid}}

LEMMA PositionsConcat ==
  ASSUME NEW a \in Seq(Message), NEW b \in Seq(Message), NEW cid
  PROVE  Positions(a \o b, cid) = Positions(a, cid) \union Positions(b, cid)
<1> DEFINE In(msgs) == UNION {msgs[i].cursors : i \in DOMAIN msgs}
<1>1. ASSUME NEW c \in In(a \o b) PROVE c \in In(a) \union In(b)
  <2>1. PICK i \in DOMAIN (a \o b) : c \in (a \o b)[i].cursors
    BY <1>1
  <2>2. CASE i \in 1..Len(a)
    <3>1. i \in DOMAIN a /\ (a \o b)[i] = a[i]
      BY <2>2, Places
    <3> QED
      BY <2>1, <3>1
  <2>3. CASE i \notin 1..Len(a)
    <3>1. i - Len(a) \in DOMAIN b /\ (a \o b)[i] = b[i - Len(a)]
      BY <2>1, <2>3, Places
    <3> QED
      BY <2>1, <3>1
  <2> QED
    BY <2>2, <2>3
<1>2. ASSUME NEW c \in In(a) PROVE c \in In(a \o b)
  <2>1. PICK i \in DOMAIN a : c \in a[i].cursors
    BY <1>2
  <2>2. i \in DOMAIN (a \o b) /\ (a \o b)[i] = a[i]
    BY <2>1, Places
  <2> QED
    BY <2>1, <2>2
<1>3. ASSUME NEW c \in In(b) PROVE c \in In(a \o b)
  <2>1. PICK i \in DOMAIN b : c \in b[i].cursors
    BY <1>3
  <2>2. Len(a) + i \in DOMAIN (a \o b) /\ (a \o b)[Len(a) + i] = b[i]
    BY <2>1, Places
  <2> QED
    BY <2>1, <2>2
<1>4. In(a \o b) = In(a) \union In(b)
  BY <1>1, <1>2, <1>3
<1>5. \A msgs : Positions(msgs, cid) = {c.n : c \in {d \in In(msgs) : d.id = cid}}
  BY DEF Positions
<1> HIDE DEF In
<1> QED
  BY <1>4, <1>5

\* What a step sends of positions: the next frame, to the live members.
LEMMA PositionsOfFrame ==
  \A cid : Positions(<<Frame(broadcast, moved)>>, cid) = PositionsIn(moved, cid)
<1> DEFINE frame == Frame(broadcast, moved)
<1>1. frame.cursors = moved
  BY DEF Frame
<1> HIDE DEF frame
<1>2. DOMAIN <<frame>> = {1} /\ <<frame>>[1] = frame
  OBVIOUS
<1>3. UNION {<<frame>>[i].cursors : i \in DOMAIN <<frame>>} = moved
  BY <1>1, <1>2
<1>4. \A cid : Positions(<<frame>>, cid) = PositionsIn(moved, cid)
  BY <1>3, Zenon DEF Positions, PositionsIn
<1> QED
  BY <1>4 DEF frame

LEMMA PositionsGrow ==
  ASSUME TypeOK, SendFrame, NEW t \in Sessions,
         Sent(t)' = Sent(t) \o <<Frame(broadcast, moved)>>
  PROVE  /\ HasType(Sent(t)', "Frame")
         /\ \A cid : Positions(Sent(t)', cid) = Positions(Sent(t), cid) \union PositionsIn(moved, cid)
<1> DEFINE frame == Frame(broadcast, moved)
<1>1. frame \in Message /\ frame.type = "Frame" /\ Sent(t) \in Seq(Message)
  BY FrameSent, MessageOf, SentType
<1>2. Sent(t)' = Sent(t) \o <<frame>> /\ \A cid : Positions(<<frame>>, cid) = PositionsIn(moved, cid)
  BY PositionsOfFrame
<1> HIDE DEF frame
<1>3. <<frame>> \in Seq(Message) /\ HasType(<<frame>>, "Frame")
  BY <1>1, HasTypeOne
<1>4. HasType(Sent(t) \o <<frame>>, "Frame")
  BY <1>1, <1>3, HasTypeConcat
<1>5. \A cid : Positions(Sent(t) \o <<frame>>, cid)
                 = Positions(Sent(t), cid) \union Positions(<<frame>>, cid)
  BY <1>1, <1>3, PositionsConcat
<1> QED
  BY <1>2, <1>4, <1>5

LEMMA PositionsStep ==
  ASSUME TypeOK, [Next]_vars, NEW t \in Sessions
  PROVE  \/ /\ \A cid : Positions(Sent(t)', cid) = Positions(Sent(t), cid)
            /\ HasType(Sent(t), "Frame") => HasType(Sent(t)', "Frame")
         \/ /\ SendFrame /\ Live(t) /\ HasType(Sent(t)', "Frame")
            /\ \A cid : Positions(Sent(t)', cid) = Positions(Sent(t), cid) \union PositionsIn(moved, cid)
<1>0. Sent(t) \in Seq(Message)
  BY SentType
<1>1. ASSUME NEW msgs \in Seq(Message), Sent(t)' = Sent(t) \o msgs,
             \A i \in DOMAIN msgs : msgs[i].cursors = {}
      PROVE  /\ \A cid : Positions(Sent(t)', cid) = Positions(Sent(t), cid)
             /\ HasType(Sent(t), "Frame") => HasType(Sent(t)', "Frame")
  <2>1. \A cid : Positions(msgs, cid) = {}
    BY <1>1 DEF Positions
  <2>2. \A cid : Positions(Sent(t) \o msgs, cid) = Positions(Sent(t), cid) \union Positions(msgs, cid)
    BY <1>0, PositionsConcat
  <2>3. HasType(Sent(t), "Frame") => HasType(Sent(t) \o msgs, "Frame")
    BY <1>0, HasTypeConcat
  <2> QED
    BY <1>1, <2>1, <2>2, <2>3
<1>2. \A type, cid, evs : Msg(type, cid, evs).cursors = {}
  BY DEF Msg
<1>3. CASE Sent(t)' = Sent(t)
  BY <1>3
<1>4. ASSUME NEW type \in {"StreamStart", "Error"}, Sent(t)' = Sent(t) \o <<Msg(type, 0, <<>>)>>
      PROVE  /\ \A cid : Positions(Sent(t)', cid) = Positions(Sent(t), cid)
             /\ HasType(Sent(t), "Frame") => HasType(Sent(t)', "Frame")
  <2>1. <<Msg(type, 0, <<>>)>> \in Seq(Message)
    BY EmptyMessages
  <2>2. \A i \in DOMAIN <<Msg(type, 0, <<>>)>> : <<Msg(type, 0, <<>>)>>[i].cursors = {}
    BY <1>2
  <2> QED
    BY <1>1, <1>4, <2>1, <2>2
<1>5. CASE ws[t] /\ Stream(t)
  <2>1. PICK msgs \in Seq(Message) :
          /\ Sent(t)' = Sent(t) \o msgs
          /\ \/ msgs = <<Msg("Block", 0, disk[streaming_offset[t] + 1].events)>>
             \/ msgs = <<Msg("Error", 0, <<>>)>>
             \/ msgs = IF storage = <<>> THEN <<Msg("StreamSynced", id[t], <<>>)>>
                       ELSE <<Msg("Block", 0, storage), Msg("StreamSynced", id[t], <<>>)>>
    BY <1>5, StreamSent
  <2>2. \A i \in DOMAIN msgs : msgs[i].cursors = {}
    BY <1>2, <2>1
  <2> QED
    BY <1>1, <2>1, <2>2
<1>6. CASE SendFrame /\ Live(t) /\ Sent(t)' = Sent(t) \o <<Frame(broadcast, moved)>>
  BY <1>6, PositionsGrow
<1> QED
  BY <1>3, <1>4, <1>5, <1>6, SentStep

LEMMA CursorsSentIs == \A t, cid : CursorsSent(t, cid) = Positions(Sent(t), cid)
BY DEF CursorsSent, PositionsIn, Positions

\* The fields that decide which positions are still to be sent.
LEMMA CursorFieldsStep ==
  ASSUME TypeOK, MembersOK, [Next]_vars, NEW s \in Sessions, s \in msg_sessions',
         io' # "crashed", ~CollectCursors, ~SendFrame
  PROVE  \/ JoinEnd(s) /\ UNCHANGED cursor
         \/ pc'[s] = "cursor" \/ cursor_changed'[s]
         \/ /\ s \in msg_sessions
            /\ cursor'[s] = cursor[s] /\ cursor_changed'[s] = cursor_changed[s]
            /\ id'[s] = id[s] /\ (pc[s] = "cursor" => pc'[s] = "cursor")
<1> USE DEF msVars, queueVars, sessionVars, builderVars, paperVars, frameVars, ioVars,
            ghostVars
<1> DEFINE Kept == /\ s \in msg_sessions
                   /\ cursor'[s] = cursor[s] /\ cursor_changed'[s] = cursor_changed[s]
                   /\ id'[s] = id[s] /\ (pc[s] = "cursor" => pc'[s] = "cursor")
<1>1. UNCHANGED <<msg_sessions, cursor, cursor_changed, id, pc>> => Kept
  OBVIOUS
<1>2. ASSUME NEW u \in Sessions, Handler(u)
      PROVE  (JoinEnd(s) /\ UNCHANGED cursor) \/ pc'[s] = "cursor" \/ cursor_changed'[s] \/ Kept
  <2>1. u # s => pc'[s] = pc[s]
    BY <1>2 DEF Handler, JoinStart, JoinId, JoinEnd, JoinFull, Rejected, RequestData,
                QueueLow, Callback, AddDraw, MoveCursor, FlagCursor, Close, ClientLeft,
                Cleanup, Goto, RunDeferred, Drain, SendQueue, TypeOK
  <2>2. CASE JoinId(u)
    <3>1. UNCHANGED <<msg_sessions, cursor, cursor_changed>> /\ u \notin msg_sessions
      BY <2>2 DEF JoinId, MembersOK, Joining
    <3>2. u # s /\ id'[s] = id[s]
      BY <2>2, <3>1 DEF JoinId, TypeOK
    <3> QED
      BY <2>1, <3>1, <3>2
  <2>3. CASE JoinEnd(u)
    BY <2>1, <2>3 DEF JoinEnd
  <2>4. CASE MoveCursor(u)
    <3>1. u = s => pc'[s] = "cursor"
      BY <2>4 DEF MoveCursor, Goto, TypeOK
    <3>2. u # s => cursor'[s] = cursor[s]
      BY <2>4 DEF MoveCursor, TypeOK
    <3> QED
      BY <2>1, <2>4, <3>1, <3>2 DEF MoveCursor
  <2>5. CASE FlagCursor(u)
    BY <2>1, <2>5 DEF FlagCursor, TypeOK
  <2>6. CASE ~JoinId(u) /\ ~JoinEnd(u) /\ ~MoveCursor(u) /\ ~FlagCursor(u)
    <3>1. UNCHANGED <<cursor, cursor_changed, id>> /\ s \in msg_sessions
      BY <1>2, <2>6 DEF Handler, JoinStart, JoinFull, Rejected, RequestData, QueueLow, Callback,
            AddDraw, CanCommand, Close, ClientLeft, Cleanup
    <3>2. pc[u] # "cursor"
      BY <1>2, <2>6 DEF Handler, JoinStart, JoinFull, Rejected, RequestData, QueueLow, Callback,
            AddDraw, CanCommand, Close, ClientLeft, Cleanup, RunDeferred, Drain
    <3> QED
      BY <2>1, <3>1, <3>2
  <2> QED
    BY <2>2, <2>3, <2>4, <2>5, <2>6
<1>3. ASSUME NEW u \in Sessions, Stream(u) PROVE Kept
  BY <1>1, <1>3 DEF Stream, StreamBlock, StreamCorrupt, StreamEnd, Streamed
<1>4. CASE StreamCrash
  BY <1>4 DEF StreamCrash
<1>5. CASE IoWake \/ IoTimeout \/ IoCheck \/ IoStore \/ IoClear \/ IoSnapshot
  BY <1>1, <1>5 DEF IoWake, IoTimeout, IoCheck, IoStore, IoClear, IoSnapshot
<1>6. CASE UNCHANGED vars
  BY <1>1, <1>6 DEF vars
<1> QED
  BY <1>2, <1>3, <1>4, <1>5, <1>6 DEF Next

LEMMA CursorsStep ==
  ASSUME TypeOK, MembersOK, ConnectedOK, CursorsOK, [Next]_vars
  PROVE  CursorsOK'
<1> USE DEF msVars, queueVars, sessionVars, builderVars, paperVars, frameVars, ioVars,
            ghostVars
<1>1. ASSUME NEW t \in Sessions, ~HasType(Sent(t), "Frame")'
      PROVE  \A cid : CursorsSent(t, cid)' = {}
  <2>1. ~HasType(Sent(t)', "Frame")
    BY <1>1 DEF HasType
  <2>2. /\ ~HasType(Sent(t), "Frame")
        /\ \A cid : Positions(Sent(t)', cid) = Positions(Sent(t), cid)
    BY <2>1, PositionsStep
  <2>3. \A cid : Positions(Sent(t), cid) = {}
    BY <2>2, CursorsSentIs DEF CursorsOK
  <2> QED
    BY <2>2, <2>3, CursorsSentIs DEF CursorsSent, PositionsIn, Positions
<1>2. \A s \in Sessions : MoverOK(s)
  BY DEF CursorsOK
<1>3. \A s \in Sessions : ws'[s] => ws[s]
  BY FieldsStep
<1>4. ASSUME NEW u \in Sessions, Handler(u), NEW s \in Sessions PROVE MoverOK(s)'
  <2>1. CASE s # u
    <3>1. pc'[s] = pc[s] /\ cursor'[s] = cursor[s] /\ shared_session'[s] = shared_session[s]
      BY <1>4, <2>1 DEF Handler, JoinStart, JoinId, JoinEnd, JoinFull, Rejected, RequestData,
                QueueLow, Callback, AddDraw, MoveCursor, FlagCursor, Close, ClientLeft,
                Cleanup, Goto, RunDeferred, Drain, SendQueue, TypeOK
    <3> QED
      BY <1>2, <1>3, <3>1 DEF MoverOK, Joining
  <2>2. CASE s = u
    <3>1. CASE JoinStart(u) \/ JoinFull(u)
      <4>1. cursor[u] = 0 /\ UNCHANGED cursor
        BY <1>2, <3>1 DEF MoverOK, JoinStart, JoinFull
      <4>2. pc'[u] \notin {"leaving", "cleanup"}
        BY <3>1 DEF JoinStart, JoinFull, Goto, TypeOK
      <4> QED
        BY <2>2, <4>1, <4>2 DEF MoverOK
    <3>2. CASE JoinId(u) \/ JoinEnd(u)
      <4>1. cursor[u] = 0 /\ UNCHANGED cursor
        BY <1>2, <3>2 DEF MoverOK, JoinId, JoinEnd, Joining
      <4>2. pc'[u] \notin {"leaving", "cleanup"}
        BY <3>2 DEF JoinId, JoinEnd, Goto, TypeOK
      <4> QED
        BY <2>2, <4>1, <4>2 DEF MoverOK
    <3>3. CASE Rejected(u) \/ RequestData(u) \/ QueueLow(u) \/ Callback(u) \/ FlagCursor(u)
                 \/ AddDraw(u, "Stored") \/ AddDraw(u, "Transient")
      <4>1. UNCHANGED <<cursor, shared_session>>
        BY <3>3 DEF Rejected, RequestData, QueueLow, Callback, FlagCursor, AddDraw
      <4>2. pc'[u] \in {pc[u], "low", "idle", "request"}
        BY <3>3 DEF Rejected, RequestData, QueueLow, Callback, FlagCursor, AddDraw, Goto,
                    RunDeferred, Drain, SendQueue, AfterSend, TypeOK
      <4> QED
        BY <1>2, <1>3, <2>2, <4>1, <4>2 DEF MoverOK, Joining
    <3>4. CASE MoveCursor(u)
      <4>1. shared_session'[u] /\ pc'[u] = "cursor"
        BY <3>4 DEF MoveCursor, CanCommand, Goto, TypeOK
      <4> QED
        BY <2>2, <4>1 DEF MoverOK, Joining
    <3>5. CASE Close(u) \/ ClientLeft(u) \/ Cleanup(u)
      <4>1. ~ws'[u]
        <5>1. CASE Close(u)
          BY <5>1 DEF Close, Disconnect, TypeOK, QueueTypeOK
        <5>2. CASE ClientLeft(u) \/ Cleanup(u)
          BY <1>2, <1>3, <5>2 DEF MoverOK, ClientLeft, Cleanup
        <5> QED
          BY <3>5, <5>1, <5>2
      <4>2. ~Joining(u)'
        BY <3>5 DEF Close, ClientLeft, Cleanup, Goto, Joining, TypeOK
      <4> QED
        BY <2>2, <4>1, <4>2 DEF MoverOK
    <3> QED
      BY <1>4, <3>1, <3>2, <3>3, <3>4, <3>5 DEF Handler
  <2> QED
    BY <2>1, <2>2
<1>5. UNCHANGED <<cursor, pc, shared_session>> => \A s \in Sessions : MoverOK(s)'
  BY <1>2, <1>3 DEF MoverOK, Joining
<1>6. ASSUME NEW u \in Sessions, Stream(u) PROVE \A s \in Sessions : MoverOK(s)'
  BY <1>5, <1>6 DEF Stream, StreamBlock, StreamCorrupt, StreamEnd, Streamed
<1>7. ASSUME CollectCursors \/ SendFrame \/ IoWake \/ IoTimeout \/ IoCheck \/ IoStore \/ IoClear
             \/ IoSnapshot
      PROVE  \A s \in Sessions : MoverOK(s)'
  BY <1>5, <1>7, CollectKeeps DEF SendFrame, FrameEnds, FrameRuns, IoWake, IoTimeout, IoCheck, IoStore, IoClear, IoSnapshot
<1>8. ASSUME StreamCrash
      PROVE  \A s \in Sessions : MoverOK(s)'
  <2>1. \A s \in Sessions : ~ws'[s] /\ pc'[s] = "dead"
    BY <1>8 DEF StreamCrash
  <2> QED
    BY <2>1 DEF MoverOK, Joining
<1>9. ASSUME UNCHANGED vars
      PROVE  \A s \in Sessions : MoverOK(s)'
  BY <1>5, <1>9 DEF vars
<1>10. \A s \in Sessions : MoverOK(s)'
  BY <1>4, <1>6, <1>7, <1>8, <1>9 DEF Next
<1> QED
  BY <1>1, <1>10 DEF CursorsOK

LEMMA CrashStays ==
  ASSUME io = "crashed", [Next]_vars
  PROVE  io' = "crashed"
<1> USE DEF msVars, queueVars, sessionVars, builderVars, paperVars, frameVars, ioVars,
            ghostVars
<1>1. ASSUME NEW u \in Sessions, Handler(u) PROVE UNCHANGED io
  BY <1>1 DEF Handler, JoinStart, JoinId, JoinEnd, JoinFull, Rejected, RequestData, QueueLow,
        Callback, AddDraw, MoveCursor, FlagCursor, Close, ClientLeft, Cleanup
<1>2. ~ \E u \in Sessions : Stream(u)
  BY DEF Stream, StreamBlock, StreamCorrupt, StreamEnd, Streamed
<1> QED
  BY <1>1, <1>2, CollectKeeps DEF Next, SendFrame, FrameEnds, FrameRuns, StreamCrash, IoWake, IoTimeout, IoCheck, IoStore, IoClear,
        IoSnapshot, vars

\* Only a frame touches what a frame collects.
LEMMA FrameKept ==
  ASSUME [Next]_vars, ~CollectCursors, ~SendFrame
  PROVE  UNCHANGED frameVars
<1> USE DEF msVars, queueVars, sessionVars, builderVars, paperVars, frameVars, ioVars,
            ghostVars
<1>1. ASSUME NEW u \in Sessions, Handler(u) PROVE UNCHANGED frameVars
  BY <1>1 DEF Handler, JoinStart, JoinId, JoinEnd, JoinFull, Rejected, RequestData, QueueLow,
        Callback, AddDraw, MoveCursor, FlagCursor, Close, ClientLeft, Cleanup
<1>2. ASSUME NEW u \in Sessions, Stream(u) PROVE UNCHANGED frameVars
  BY <1>2 DEF Stream, StreamBlock, StreamCorrupt, StreamEnd, Streamed
<1> QED
  BY <1>1, <1>2 DEF Next, StreamCrash, IoWake, IoTimeout, IoCheck, IoStore, IoClear,
        IoSnapshot, vars

\* The member whose cursor is about to be read stays one, there is one such
\* at most, and of the positions of a client that a frame has collected one
\* is the last, unless the client moves or is still to be read again.
HeldOK ==
  /\ reading \subseteq msg_sessions
  /\ \A u, v \in reading : u = v
  /\ io # "crashed" => \A s \in msg_sessions :
       /\ cursor[s] # 0 /\ pc[s] # "cursor" /\ ~cursor_changed[s] /\ s \notin reading
       /\ PositionsIn(moved, id[s]) # {}
       => cursor[s] \in PositionsIn(moved, id[s])

\* What the steps of a frame do to the member s once its last cursor is read.
LEMMA CollectStep ==
  ASSUME TypeOK, UniqueIds, HeldOK, CollectCursors, NEW s \in msg_sessions,
         pc[s] # "cursor", ~cursor_changed'[s], s \notin reading'
  PROVE  \/ /\ ~cursor_changed[s] /\ s \notin reading
            /\ PositionsIn(moved', id[s]) = PositionsIn(moved, id[s])
         \/ cursor[s] \in PositionsIn(moved', id[s])
<1>1. PICK u \in Sessions : SkipCursor(u) \/ LowerFlag(u) \/ ReadCursor(u)
  BY DEF CollectCursors, FrameCursor
<1>2. s \in Sessions
  BY DEF TypeOK
<1>3. CASE SkipCursor(u)
  BY <1>3 DEF SkipCursor
<1>4. CASE LowerFlag(u)
  <2>1. u # s
    BY <1>4 DEF LowerFlag
  <2> QED
    BY <1>2, <1>4, <2>1 DEF LowerFlag, TypeOK
<1>5. CASE ReadCursor(u)
  <2>1. u \in reading /\ u \in msg_sessions /\ UNCHANGED cursor_changed
    BY <1>5 DEF ReadCursor, HeldOK
  <2>2. PICK n \in ReadablePositions(u) : moved' = moved \union {Ev("Cursor", id[u], n)}
    BY <1>5 DEF ReadCursor
  <2>3. Ev("Cursor", id[u], n).id = id[u] /\ Ev("Cursor", id[u], n).n = n
    BY DEF Ev
  <2>4. CASE u = s
    <3>1. n = cursor[s]
      BY <2>2, <2>4 DEF ReadablePositions
    <3> QED
      BY <2>2, <2>3, <2>4, <3>1 DEF PositionsIn
  <2>5. CASE u # s
    <3>1. id[u] # id[s] /\ s \notin reading
      BY <2>1, <2>5 DEF UniqueIds, HeldOK
    <3>2. {d \in moved' : d.id = id[s]} = {d \in moved : d.id = id[s]}
      BY <2>2, <2>3, <3>1
    <3> QED
      BY <2>1, <3>1, <3>2 DEF PositionsIn
  <2> QED
    BY <2>4, <2>5
<1> QED
  BY <1>1, <1>3, <1>4, <1>5

LEMMA HeldStep ==
  ASSUME TypeOK, TypeOK', MembersOK, UniqueIds, CursorsOK, HeldOK, [Next]_vars
  PROVE  HeldOK'
<1>1. CASE SendFrame
  <2>1. reading' = {} /\ moved' = {}
    BY <1>1 DEF SendFrame, FrameEnds
  <2> QED
    BY <2>1 DEF HeldOK, PositionsIn
<1>2. CASE CollectCursors
  <2>1. UNCHANGED <<msg_sessions, cursor, id, pc, io>>
    BY <1>2, CollectKeeps DEF FrameRuns, ioVars
  <2>2. reading' \subseteq msg_sessions /\ \A u, v \in reading' : u = v
    BY <1>2 DEF CollectCursors, FrameCursor, SkipCursor, LowerFlag, ReadCursor, HeldOK
  <2>3. ASSUME NEW s \in msg_sessions, io # "crashed", cursor[s] # 0, pc[s] # "cursor",
               ~cursor_changed'[s], s \notin reading', PositionsIn(moved', id[s]) # {}
        PROVE  cursor[s] \in PositionsIn(moved', id[s])
    BY <1>2, <2>3, CollectStep DEF HeldOK
  <2>4. \A cid : PositionsIn(moved, cid)' = PositionsIn(moved', cid)
    BY DEF PositionsIn
  <2> QED
    BY <2>1, <2>2, <2>3, <2>4 DEF HeldOK, PositionsIn
<1>3. CASE ~CollectCursors /\ ~SendFrame
  <2>1. UNCHANGED <<reading, moved>>
    BY <1>3, FrameKept DEF frameVars
  <2>2. ASSUME NEW u \in reading PROVE u \in msg_sessions'
    <3>1. u \in Sessions /\ u \in msg_sessions
      BY <2>2 DEF HeldOK, TypeOK
    <3>2. ~JoinId(u) /\ ~Close(u)
      BY <2>2, <3>1 DEF JoinId, Close, NoFrame, MembersOK, Joining
    <3> QED
      BY <3>1, <3>2, FieldsStep DEF JoinEnd, Stream, StreamBlock, StreamCorrupt, StreamEnd, Streamed
  <2>3. ASSUME NEW s \in msg_sessions', io' # "crashed", cursor'[s] # 0, pc'[s] # "cursor",
               ~cursor_changed'[s], s \notin reading, PositionsIn(moved, id'[s]) # {}
        PROVE  cursor'[s] \in PositionsIn(moved, id'[s])
    <3>1. s \in Sessions /\ io # "crashed"
      BY <2>3, CrashStays DEF TypeOK
    <3>2. ~(JoinEnd(s) /\ UNCHANGED cursor)
      BY <2>3, <3>1 DEF JoinEnd, CursorsOK, MoverOK, Joining
    <3>3. /\ s \in msg_sessions
          /\ cursor'[s] = cursor[s] /\ cursor_changed'[s] = cursor_changed[s]
          /\ id'[s] = id[s] /\ (pc[s] = "cursor" => pc'[s] = "cursor")
      BY <1>3, <2>3, <3>1, <3>2, CursorFieldsStep
    <3> QED
      BY <2>3, <3>1, <3>3 DEF HeldOK
  <2>4. \A u, v \in reading : u = v
    BY DEF HeldOK
  <2> QED
    BY <2>1, <2>2, <2>3, <2>4 DEF HeldOK, PositionsIn
<1> QED
  BY <1>1, <1>2, <1>3

LEMMA LastCursorStep ==
  ASSUME TypeOK, TypeOK', MembersOK, ConnectedOK, FramesOK, CursorsOK, UniqueIds, HeldOK,
         LastCursorSent, [Next]_vars
  PROVE  LastCursorSent'
<1> SUFFICES ASSUME io' # "crashed", NEW s \in msg_sessions', NEW t \in msg_sessions',
                    cursor'[s] # 0, pc'[s] # "cursor", ~cursor_changed'[s], s \notin reading',
                    CursorsSent(t, id[s])' # {}
             PROVE  cursor'[s] \in CursorsSent(t, id[s])' \union PositionsIn(moved, id[s])'
  BY DEF LastCursorSent
<1>1. s \in Sessions /\ t \in Sessions /\ io # "crashed"
  BY CrashStays DEF TypeOK
<1>2. /\ CursorsSent(t, id[s])' = Positions(Sent(t)', id'[s])
      /\ PositionsIn(moved, id[s])' = PositionsIn(moved', id'[s])
  BY DEF CursorsSent, PositionsIn, Positions
<1>3. LastCursorSent => (/\ s \in msg_sessions /\ t \in msg_sessions /\ cursor[s] # 0
                         /\ pc[s] # "cursor" /\ ~cursor_changed[s] /\ s \notin reading
                         /\ Positions(Sent(t), id[s]) # {}
                         => cursor[s] \in Positions(Sent(t), id[s]) \union PositionsIn(moved, id[s]))
  BY <1>1, CursorsSentIs DEF LastCursorSent
<1>4. \A cid : ~HasType(Sent(t), "Frame") => Positions(Sent(t), cid) = {}
  BY <1>1, CursorsSentIs DEF CursorsOK
<1>5. CASE SendFrame
  <2>1. /\ UNCHANGED <<msg_sessions, cursor, cursor_changed, id, pc, streaming>>
        /\ s \in msg_sessions /\ t \in msg_sessions /\ reading = {}
    BY <1>5 DEF SendFrame, FrameEnds, FrameRuns
  <2>2. HasType(Sent(t), "Frame") => Live(t)
    BY <1>1, <2>1 DEF FramesOK, ConnectedOK, Live
  <2>3. CASE Live(t)
    <3>1. Positions(Sent(t)', id[s]) = Positions(Sent(t), id[s]) \union PositionsIn(moved, id[s])
      <4>1. ws[t]
        BY <1>1, <2>1 DEF ConnectedOK
      <4>2. CASE broadcast # <<>> \/ moved # {}
        <5>1. Sent(t)' = Sent(t) \o <<Frame(broadcast, moved)>>
          BY <1>1, <1>5, <2>3, <4>1, <4>2, FrameSent
        <5> QED
          BY <1>1, <1>5, <5>1, PositionsGrow
      <4>3. CASE ~(broadcast # <<>> \/ moved # {})
        <5>1. Sent(t)' = Sent(t)
          BY <1>1, <1>5, <4>3, FrameSent
        <5>2. PositionsIn(moved, id[s]) = {}
          BY <4>3 DEF PositionsIn
        <5> QED
          BY <5>1, <5>2
      <4> QED
        BY <4>2, <4>3
    <3>2. cursor[s] \in Positions(Sent(t), id[s]) \union PositionsIn(moved, id[s])
      <4>1. CASE Positions(Sent(t), id[s]) # {}
        BY <1>3, <2>1, <4>1
      <4>2. CASE PositionsIn(moved, id[s]) # {}
        BY <1>1, <2>1, <4>2 DEF HeldOK
      <4> QED
        BY <1>2, <2>1, <3>1, <4>1, <4>2
    <3> QED
      BY <1>2, <2>1, <3>1, <3>2
  <2>4. CASE ~Live(t)
    <3>1. Sent(t)' = Sent(t)
      BY <1>1, <1>5, <2>4, FrameSent
    <3> QED
      BY <1>2, <1>4, <2>2, <2>4, <3>1
  <2> QED
    BY <2>3, <2>4
<1>6. CASE CollectCursors
  <2>1. /\ UNCHANGED <<msg_sessions, cursor, id, pc>> /\ Sent(t)' = Sent(t)
        /\ s \in msg_sessions /\ t \in msg_sessions
    BY <1>6, CollectKeeps DEF FrameRuns, queueVars, Sent
  <2>2. \/ /\ ~cursor_changed[s] /\ s \notin reading
           /\ PositionsIn(moved', id[s]) = PositionsIn(moved, id[s])
        \/ cursor[s] \in PositionsIn(moved', id[s])
    BY <1>6, <2>1, CollectStep
  <2> QED
    BY <1>2, <1>3, <2>1, <2>2
<1>7. CASE ~CollectCursors /\ ~SendFrame
  <2>1. \A cid : Positions(Sent(t)', cid) = Positions(Sent(t), cid)
    BY <1>1, <1>7, PositionsStep
  <2>2. HasType(Sent(t), "Frame")
    BY <1>2, <1>4, <2>1
  <2>3. t \in msg_sessions
    <3>1. t \in msg_sessions \/ JoinEnd(t) \/ JoinId(t)
      BY <1>1, FieldsStep DEF Stream, StreamBlock, StreamCorrupt, StreamEnd, Streamed, Close
    <3>2. ws[t]
      BY <1>1, <3>1 DEF ConnectedOK, JoinEnd, JoinId, Joining
    <3> QED
      BY <1>1, <2>2, <3>2 DEF FramesOK
  <2>4. ~(JoinEnd(s) /\ UNCHANGED cursor)
    BY <1>1 DEF JoinEnd, CursorsOK, MoverOK, Joining
  <2>5. /\ s \in msg_sessions
        /\ cursor'[s] = cursor[s] /\ cursor_changed'[s] = cursor_changed[s]
        /\ id'[s] = id[s] /\ (pc[s] = "cursor" => pc'[s] = "cursor")
    BY <1>1, <1>7, <2>4, CursorFieldsStep
  <2>6. UNCHANGED <<reading, moved>>
    BY <1>7, FrameKept DEF frameVars
  <2> QED
    BY <1>2, <1>3, <2>1, <2>3, <2>5, <2>6
<1> QED
  BY <1>5, <1>6, <1>7

----------------------------------------------------------------------------
(***************************************************************************)
(* Order.  Until its first frame a client was sent the draws of the first  *)
(* blocks of the file, at least as many as its offset says; the broadcast  *)
(* builder is in order, and what is in it is stored; and a draw on its way *)
(* to a client with frames repeats one or comes after all it was sent.     *)
(***************************************************************************)
DrawsInOrder(evs) ==
  \A i, j \in DOMAIN evs :
    i < j /\ evs[i].kind = "Stored" /\ evs[j].kind = "Stored" => evs[i].n < evs[j].n

Fits(d, old) == d \in old \/ \A x \in old : x < d

UpTo(file, k) == UNION {Draws(file[i].events) : i \in 1..k}

BroadcastOK == Draws(broadcast) \subseteq OnDisk \union Draws(storage) /\ DrawsInOrder(broadcast)

OrderOK(s) ==
  /\ Carried(s) \subseteq DOMAIN events
  /\ ws[s] /\ ~HasType(Sent(s), "Frame") =>
       \E k \in streaming_offset[s]..Len(disk) : Carried(s) = UpTo(disk, k)
  /\ ws[s] /\ HasType(Sent(s), "Frame") => \A d \in Draws(broadcast) : Fits(d, Carried(s))

OrdersOK == \A s \in Sessions : OrderOK(s)

\* The places of the draws in a sequence of messages.
DrawPlaces(msgs) ==
  UNION {{[msg |-> i, at |-> j, n |-> msgs[i].events[j].n] :
            j \in {l \in DOMAIN msgs[i].events : msgs[i].events[l].kind = "Stored"}} :
         i \in DOMAIN msgs}

RepeatsOnly(msgs) ==
  \A p, q \in DrawPlaces(msgs) :
    Before(p, q) /\ q.n < p.n => \E r \in DrawPlaces(msgs) : Before(r, p) /\ r.n = q.n

LEMMA PlacesOf ==
  ASSUME NEW msgs \in Seq(Message)
  PROVE  /\ \A p \in DrawPlaces(msgs) :
              /\ p.msg \in 1..Len(msgs) /\ p.at \in DOMAIN msgs[p.msg].events
              /\ p.at \in Nat /\ p.n \in Nat
              /\ msgs[p.msg].events[p.at].kind = "Stored"
              /\ p.n = msgs[p.msg].events[p.at].n
              /\ p.n \in InMessages(msgs)
         /\ \A d \in InMessages(msgs) : \E p \in DrawPlaces(msgs) : p.n = d
<1>1. \A i \in DOMAIN msgs : msgs[i].events \in Seq(Event) /\ i \in 1..Len(msgs)
  <2>1. \A i \in DOMAIN msgs : msgs[i] \in Message /\ i \in 1..Len(msgs)
    BY ElementOfSeq, LenProperties
  <2> QED
    BY <2>1 DEF Message
<1>2. ASSUME NEW p \in DrawPlaces(msgs)
      PROVE  /\ p.msg \in 1..Len(msgs) /\ p.at \in DOMAIN msgs[p.msg].events
             /\ p.at \in Nat /\ p.n \in Nat
             /\ msgs[p.msg].events[p.at].kind = "Stored"
             /\ p.n = msgs[p.msg].events[p.at].n
             /\ p.n \in InMessages(msgs)
  <2>1. PICK i \in DOMAIN msgs : \E j \in DOMAIN msgs[i].events :
          msgs[i].events[j].kind = "Stored" /\ p = [msg |-> i, at |-> j, n |-> msgs[i].events[j].n]
    BY <1>2 DEF DrawPlaces
  <2>2. PICK j \in DOMAIN msgs[i].events :
          msgs[i].events[j].kind = "Stored" /\ p = [msg |-> i, at |-> j, n |-> msgs[i].events[j].n]
    BY <2>1
  <2>3. p.msg = i /\ p.at = j /\ p.n = msgs[i].events[j].n
    BY <2>2
  <2>4. j \in Nat /\ msgs[i].events[j] \in Event
    BY <1>1, <2>2, ElementOfSeq, LenProperties
  <2>5. p.n \in Draws(msgs[i].events)
    BY <2>2, <2>3 DEF Draws
  <2>6. p.n \in InMessages(msgs)
    BY <2>1, <2>5 DEF InMessages
  <2> QED
    BY <1>1, <2>2, <2>3, <2>4, <2>6 DEF Event
<1>3. ASSUME NEW d \in InMessages(msgs) PROVE \E p \in DrawPlaces(msgs) : p.n = d
  <2>1. PICK i \in DOMAIN msgs : d \in Draws(msgs[i].events)
    BY <1>3 DEF InMessages
  <2>2. PICK j \in DOMAIN msgs[i].events :
          msgs[i].events[j].kind = "Stored" /\ d = msgs[i].events[j].n
    BY <2>1 DEF Draws
  <2> DEFINE p == [msg |-> i, at |-> j, n |-> msgs[i].events[j].n]
  <2>3. p \in DrawPlaces(msgs)
    BY <2>2 DEF DrawPlaces
  <2>4. p.n = d
    BY <2>2
  <2> QED
    BY <2>3, <2>4
<1> QED
  BY <1>2, <1>3

LEMMA RepeatsGrow ==
  ASSUME NEW a \in Seq(Message), NEW m \in Message, RepeatsOnly(a), DrawsInOrder(m.events),
         \A d \in Draws(m.events) : Fits(d, InMessages(a))
  PROVE  RepeatsOnly(a \o <<m>>)
<1> DEFINE b == a \o <<m>>
           old == DrawPlaces(a)
           all == DrawPlaces(b)
<1>1. /\ b \in Seq(Message) /\ Len(a) \in Nat /\ DOMAIN a = 1..Len(a)
      /\ DOMAIN b = 1..Len(a) + 1 /\ Len(b) = Len(a) + 1
      /\ \A i \in 1..Len(a) : b[i] = a[i]
      /\ b[Len(a) + 1] = m
  BY Places
<1> HIDE DEF b
<1>2. ASSUME NEW p \in all, p.msg \in 1..Len(a) PROVE p \in old
  <2>1. PICK i \in DOMAIN b : \E j \in DOMAIN b[i].events :
          b[i].events[j].kind = "Stored" /\ p = [msg |-> i, at |-> j, n |-> b[i].events[j].n]
    BY <1>2 DEF DrawPlaces
  <2>2. p.msg = i
    BY <2>1
  <2>3. b[i] = a[i] /\ i \in DOMAIN a
    BY <1>1, <1>2, <2>2
  <2> QED
    BY <2>1, <2>3 DEF DrawPlaces
<1>3. ASSUME NEW p \in old PROVE p \in all
  <2>1. PICK i \in DOMAIN a : \E j \in DOMAIN a[i].events :
          a[i].events[j].kind = "Stored" /\ p = [msg |-> i, at |-> j, n |-> a[i].events[j].n]
    BY <1>3 DEF DrawPlaces
  <2>2. b[i] = a[i] /\ i \in DOMAIN b
    BY <1>1, <2>1
  <2> QED
    BY <2>1, <2>2 DEF DrawPlaces
<1>4. \A p \in all : /\ p.msg \in 1..Len(b) /\ p.at \in DOMAIN b[p.msg].events
                     /\ p.at \in Nat /\ p.n \in Nat
                     /\ b[p.msg].events[p.at].kind = "Stored"
                     /\ p.n = b[p.msg].events[p.at].n
  BY <1>1, PlacesOf
<1>5. \A p \in old : /\ p.msg \in 1..Len(a) /\ p.at \in Nat /\ p.n \in Nat
                     /\ p.n = a[p.msg].events[p.at].n /\ p.n \in InMessages(a)
  BY PlacesOf
<1>6. \A d \in InMessages(a) : \E p \in old : p.n = d
  BY PlacesOf
<1>7. \A p, q \in old : Before(p, q) /\ q.n < p.n => \E r \in old : Before(r, p) /\ r.n = q.n
  BY DEF RepeatsOnly
<1> SUFFICES ASSUME NEW p \in all, NEW q \in all, Before(p, q), q.n < p.n
             PROVE  \E r \in all : Before(r, p) /\ r.n = q.n
  BY DEF RepeatsOnly, b
<1> HIDE DEF old, all
<1>8. CASE q.msg \in 1..Len(a)
  <2>1. p.msg \in 1..Len(a)
    BY <1>1, <1>4, <1>8 DEF Before
  <2> QED
    BY <1>2, <1>3, <1>7, <1>8, <2>1
<1>9. CASE q.msg \notin 1..Len(a) /\ p.msg \notin 1..Len(a)
  <2>1. p.msg = Len(a) + 1 /\ q.msg = Len(a) + 1
    BY <1>1, <1>4, <1>9
  <2>2. p.at < q.at
    BY <1>1, <2>1 DEF Before
  <2>3. p.n < q.n
    BY <1>1, <1>4, <2>1, <2>2 DEF DrawsInOrder
  <2> QED
    BY <1>4, <2>3
<1>10. CASE q.msg \notin 1..Len(a) /\ p.msg \in 1..Len(a)
  <2>1. p \in old /\ q.msg = Len(a) + 1
    BY <1>1, <1>2, <1>4, <1>10
  <2>2. q.n \in Draws(m.events)
    BY <1>1, <1>4, <2>1 DEF Draws
  <2>3. q.n \in InMessages(a)
    BY <1>4, <1>5, <2>1, <2>2 DEF Fits
  <2>4. PICK r \in old : r.n = q.n
    BY <1>6, <2>3
  <2>5. Before(r, p) \/ Before(p, r)
    <3>1. r.msg # p.msg \/ r.at # p.at
      BY <1>4, <1>5, <2>1, <2>4
    <3> QED
      BY <1>1, <1>5, <2>1, <3>1 DEF Before
  <2>6. CASE Before(p, r)
    BY <1>3, <1>7, <2>1, <2>4, <2>6
  <2> QED
    BY <1>3, <2>4, <2>5, <2>6
<1> QED
  BY <1>8, <1>9, <1>10

\* A draw of the paper is among the first blocks of the file or after them.
LEMMA UpToOrder ==
  ASSUME TypeOK, StoredOnceInOrder, NEW k \in 0..Len(disk), NEW d \in OnDisk \union Draws(storage)
  PROVE  Fits(d, UpTo(disk, k))
<1>1. DOMAIN disk = 1..Len(disk) /\ Len(disk) \in Nat
  BY LenProperties DEF TypeOK
<1>2. CASE d \in OnDisk
  <2>1. PICK i \in DOMAIN disk : d \in Draws(disk[i].events)
    BY <1>2 DEF OnDisk
  <2>2. CASE i \in 1..k
    BY <2>1, <2>2 DEF UpTo, Fits
  <2>3. CASE i \notin 1..k
    <3> SUFFICES ASSUME NEW x \in UpTo(disk, k) PROVE x < d
      BY DEF Fits
    <3>1. PICK j \in 1..k : x \in Draws(disk[j].events)
      BY DEF UpTo
    <3>2. j \in DOMAIN disk /\ j < i
      BY <1>1, <2>1, <2>3
    <3>3. AllBelow(disk[j].events, disk[i].events)
      BY <2>1, <3>2 DEF StoredOnceInOrder
    <3> QED
      BY <2>1, <3>1, <3>3 DEF Draws, AllBelow
  <2> QED
    BY <2>2, <2>3
<1>3. CASE d \in Draws(storage)
  <2> SUFFICES ASSUME NEW x \in UpTo(disk, k) PROVE x < d
    BY DEF Fits
  <2>1. PICK j \in 1..k : x \in Draws(disk[j].events)
    BY DEF UpTo
  <2>2. AllBelow(disk[j].events, storage)
    BY <1>1 DEF StoredOnceInOrder
  <2> QED
    BY <1>3, <2>1, <2>2 DEF Draws, AllBelow
<1> QED
  BY <1>2, <1>3

LEMMA OrderAppend ==
  ASSUME NEW a \in Seq(Event), NEW e \in Event, DrawsInOrder(a),
         e.kind = "Stored" => \A d \in Draws(a) : d < e.n
  PROVE  DrawsInOrder(Append(a, e))
<1>1. /\ DOMAIN a = 1..Len(a) /\ DOMAIN Append(a, e) = 1..Len(a) + 1 /\ Len(a) \in Nat
      /\ \A i \in 1..Len(a) : Append(a, e)[i] = a[i]
      /\ Append(a, e)[Len(a) + 1] = e
  BY AppendProperties, LenProperties
<1> SUFFICES ASSUME NEW i \in 1..Len(a) + 1, NEW j \in 1..Len(a) + 1, i < j,
                    Append(a, e)[i].kind = "Stored", Append(a, e)[j].kind = "Stored"
             PROVE  Append(a, e)[i].n < Append(a, e)[j].n
  BY <1>1 DEF DrawsInOrder
<1>2. i \in 1..Len(a)
  BY <1>1
<1>3. CASE j \in 1..Len(a)
  BY <1>1, <1>2, <1>3 DEF DrawsInOrder
<1>4. CASE j = Len(a) + 1
  <2>1. a[i].n \in Draws(a)
    BY <1>1, <1>2 DEF Draws
  <2> QED
    BY <1>1, <1>2, <1>4, <2>1
<1> QED
  BY <1>1, <1>3, <1>4

LEMMA OrderPrefix ==
  ASSUME NEW a \in Seq(Event), NEW k \in 0..Len(a)
  PROVE  /\ SubSeq(a, 1, k) \in Seq(Event)
         /\ Draws(SubSeq(a, 1, k)) \subseteq Draws(a)
         /\ DrawsInOrder(a) => DrawsInOrder(SubSeq(a, 1, k))
<1>1. \A i \in 1..Len(a) : a[i] \in Event
  BY ElementOfSeq
<1>2. /\ SubSeq(a, 1, k) \in Seq(Event) /\ Len(SubSeq(a, 1, k)) = k
      /\ \A i \in 1..k : SubSeq(a, 1, k)[i] = a[i]
  BY <1>1, SubSeqProperties
<1>3. DOMAIN SubSeq(a, 1, k) = 1..k /\ DOMAIN a = 1..Len(a)
  BY <1>2, LenProperties
<1>4. Draws(SubSeq(a, 1, k)) \subseteq Draws(a)
  BY <1>2, <1>3 DEF Draws
<1>5. DrawsInOrder(a) => DrawsInOrder(SubSeq(a, 1, k))
  BY <1>2, <1>3 DEF DrawsInOrder
<1> QED
  BY <1>2, <1>4, <1>5

\* Whatever becomes of the race in join(), no draw comes in and none moves.
LEMMA RaceOrder ==
  ASSUME TypeOK, DrawsInOrder(broadcast), NEW e \in Event, e.kind # "Stored", NEW b \in AfterRace(e)
  PROVE  Draws(b) \subseteq Draws(broadcast) /\ DrawsInOrder(b)
<1>1. broadcast \in Seq(Event) /\ seen \in Nat /\ Len(broadcast) \in Nat
  BY DEF TypeOK
<1>2. Draws(Append(broadcast, e)) = Draws(broadcast) /\ DrawsInOrder(Append(broadcast, e))
  <2>1. Draws(Append(broadcast, e)) = Draws(broadcast) \union (IF e.kind = "Stored" THEN {e.n} ELSE {})
    BY <1>1, DrawsAppend
  <2>2. DrawsInOrder(Append(broadcast, e))
    BY <1>1, OrderAppend
  <2> QED
    BY <2>1, <2>2
<1>3. CASE Len(broadcast) > seen
  <2> DEFINE a == SubSeq(broadcast, 1, seen)
  <2>1. seen \in 0..Len(broadcast)
    BY <1>1, <1>3
  <2>2. a \in Seq(Event) /\ Draws(a) \subseteq Draws(broadcast) /\ DrawsInOrder(a)
    BY <1>1, <2>1, OrderPrefix
  <2> HIDE DEF a
  <2>3. Draws(Append(a, e)) = Draws(a) \union (IF e.kind = "Stored" THEN {e.n} ELSE {})
    BY <2>2, DrawsAppend
  <2>4. DrawsInOrder(Append(a, e))
    BY <2>2, OrderAppend
  <2>5. b \in {Append(broadcast, e), broadcast, Append(a, e)}
    BY <1>3 DEF AfterRace, a
  <2> QED
    BY <1>2, <2>2, <2>3, <2>4, <2>5
<1>4. CASE ~(Len(broadcast) > seen)
  <2>1. b = Append(broadcast, e)
    BY <1>4 DEF AfterRace
  <2> QED
    BY <1>2, <2>1
<1> QED
  BY <1>3, <1>4

\* What is added to the broadcast builder is new, and stored as well.
LEMMA BroadcastStep ==
  ASSUME TypeOK, JoinOK, StoredOnceInOrder, BroadcastOK, [Next]_vars
  PROVE  /\ BroadcastOK'
         /\ Draws(broadcast') \subseteq Draws(broadcast) \union {Len(events) + 1}
         /\ DOMAIN events \subseteq DOMAIN events'
<1> USE DEF msVars, queueVars, sessionVars, builderVars, paperVars, frameVars, ioVars,
            ghostVars
<1> DEFINE Goal == /\ BroadcastOK'
                   /\ Draws(broadcast') \subseteq Draws(broadcast) \union {Len(events) + 1}
<1>1. /\ broadcast \in Seq(Event) /\ storage \in Seq(Event) /\ Len(events) \in Nat
      /\ DOMAIN events = 1..Len(events)
  BY LenProperties DEF TypeOK
<1>2. (OnDisk \union Draws(storage))' = OnDisk' \union Draws(storage')
  BY DEF Draws
<1>3. UNCHANGED <<disk, storage>> => OnDisk' \union Draws(storage') = OnDisk \union Draws(storage)
  BY DEF OnDisk
<1>4. ASSUME Draws(broadcast') \subseteq Draws(broadcast), DrawsInOrder(broadcast'),
             OnDisk' \union Draws(storage') = OnDisk \union Draws(storage)
      PROVE  Goal
  BY <1>2, <1>4 DEF BroadcastOK
<1>5. UNCHANGED <<broadcast, storage, disk>> => Goal
  BY <1>3, <1>4 DEF BroadcastOK
<1>6. broadcast' = <<>> => Goal
  BY DrawsNone DEF BroadcastOK, DrawsInOrder
<1>7. ASSUME NEW e \in Event, e.kind # "Stored", broadcast' = Append(broadcast, e),
             UNCHANGED <<storage, disk>>
      PROVE  Goal
  <2>1. Draws(broadcast') = Draws(broadcast) \union (IF e.kind = "Stored" THEN {e.n} ELSE {})
    BY <1>1, <1>7, DrawsAppend
  <2>2. DrawsInOrder(broadcast')
    BY <1>1, <1>7, OrderAppend DEF BroadcastOK
  <2> QED
    BY <1>3, <1>4, <1>7, <2>1, <2>2
<1>8. WriteStorage /\ UNCHANGED broadcast => Goal
  BY <1>4, WriteStorageDraws DEF BroadcastOK
<1>9. ASSUME NEW s \in Sessions, Handler(s) PROVE Goal
  <2>1. CASE JoinId(s)
    <3> DEFINE e == Ev("ClientJoined", FirstFreeId, 0)
    <3>1. FirstFreeId \in ClientId
      BY <2>1, FirstFreeIdIsFree DEF JoinId, JoinOK, Joining
    <3>2. e \in Event /\ e.kind # "Stored"
      BY <3>1, EventTypes DEF Ev
    <3>3. broadcast' \in AfterRace(e) /\ UNCHANGED <<storage, disk>>
      BY <2>1 DEF JoinId
    <3> HIDE DEF e
    <3>4. Draws(broadcast') \subseteq Draws(broadcast) /\ DrawsInOrder(broadcast')
      BY <3>2, <3>3, RaceOrder DEF BroadcastOK
    <3> QED
      BY <1>3, <1>4, <3>3, <3>4
  <2>2. ASSUME NEW kind \in {"Stored", "Transient"}, AddDraw(s, kind) PROVE Goal
    <3> DEFINE draw == Ev(kind, id[s], Len(events) + 1)
    <3>1. draw \in Event /\ draw.kind = kind /\ draw.n = Len(events) + 1
      <4>1. id[s] \in ClientId /\ Len(events) + 1 \in Nat
        BY DEF TypeOK
      <4> QED
        BY <4>1, EventTypes DEF Ev
    <3>2. /\ broadcast' = Append(broadcast, draw)
          /\ storage' = IF kind = "Stored" THEN Append(storage, draw) ELSE storage
          /\ UNCHANGED disk
      BY <2>2 DEF AddDraw
    <3> HIDE DEF draw
    <3>3. CASE kind # "Stored"
      BY <1>7, <3>1, <3>2, <3>3
    <3>4. CASE kind = "Stored"
      <4>1. /\ Draws(broadcast') = Draws(broadcast) \union {Len(events) + 1}
            /\ Draws(storage') = Draws(storage) \union {Len(events) + 1}
            /\ OnDisk' = OnDisk
        BY <1>1, <3>1, <3>2, <3>4, DrawsAppend DEF OnDisk
      <4>2. \A d \in Draws(broadcast) : d < draw.n
        BY <1>1, <3>1 DEF BroadcastOK, StoredOnceInOrder, Accepted
      <4>3. DrawsInOrder(broadcast')
        BY <1>1, <3>1, <3>2, <4>2, OrderAppend DEF BroadcastOK
      <4>4. Draws(broadcast') \subseteq OnDisk' \union Draws(storage')
        BY <4>1 DEF BroadcastOK
      <4> QED
        BY <1>2, <4>1, <4>3, <4>4 DEF BroadcastOK
    <3> QED
      BY <3>3, <3>4
  <2>3. CASE ClientLeft(s)
    <3>1. Ev("ClientLeft", id[s], 0) \in Event /\ Ev("ClientLeft", id[s], 0).kind # "Stored"
      BY EventTypes DEF TypeOK, Ev
    <3> QED
      BY <1>7, <2>3, <3>1 DEF ClientLeft
  <2>4. CASE Cleanup(s)
    <3>1. Ev("Cleanup", id[s], 0) \in Event /\ Ev("Cleanup", id[s], 0).kind # "Stored"
      BY EventTypes DEF TypeOK, Ev
    <3> QED
      BY <1>6, <1>7, <2>4, <3>1 DEF Cleanup, DestroyPaper
  <2>5. CASE ~JoinId(s) /\ ~AddDraw(s, "Stored") /\ ~AddDraw(s, "Transient") /\ ~ClientLeft(s)
               /\ ~Cleanup(s)
    BY <1>5, <1>9, <2>5 DEF Handler, JoinStart, JoinEnd, JoinFull, Rejected, RequestData,
          QueueLow, Callback, MoveCursor, FlagCursor, CanCommand, Close
  <2> QED
    BY <2>1, <2>2, <2>3, <2>4, <2>5
<1>10. ASSUME NEW s \in Sessions, Stream(s) PROVE Goal
  BY <1>5, <1>8, <1>10 DEF Stream, StreamBlock, StreamCorrupt, StreamEnd, Streamed
<1>11. SendFrame => Goal
  BY <1>6 DEF SendFrame, FrameEnds
<1>12. CollectCursors \/ StreamCrash \/ IoWake \/ IoTimeout \/ IoCheck \/ IoSnapshot => Goal
  BY <1>5, CollectKeeps DEF FrameRuns, StreamCrash, IoWake, IoTimeout, IoCheck, IoSnapshot
<1>13. IoStore => Goal
  BY <1>8 DEF IoStore
<1>14. IoClear => Goal
  BY <1>5, <1>6 DEF IoClear, DestroyPaper
<1>15. UNCHANGED vars => Goal
  BY <1>5 DEF vars
<1>16. Goal
  BY <1>9, <1>10, <1>11, <1>12, <1>13, <1>14, <1>15 DEF Next
<1>17. DOMAIN events \subseteq DOMAIN events'
  <2>1. ASSUME NEW kind \in {"Stored", "Transient", "Cursor"}, events' = Append(events, kind)
        PROVE  DOMAIN events \subseteq DOMAIN events'
    BY <1>1, <2>1, AppendProperties, LenProperties DEF TypeOK
  <2>2. \/ UNCHANGED events
        \/ \E kind \in {"Stored", "Transient", "Cursor"} : events' = Append(events, kind)
    <3>1. ASSUME NEW s \in Sessions, Handler(s)
          PROVE  \/ UNCHANGED events
                 \/ \E kind \in {"Stored", "Transient", "Cursor"} : events' = Append(events, kind)
      BY <3>1 DEF Handler, JoinStart, JoinId, JoinEnd, JoinFull, Rejected, RequestData, QueueLow,
            Callback, AddDraw, MoveCursor, FlagCursor, CanCommand, Close, ClientLeft, Cleanup
    <3>2. ASSUME NEW s \in Sessions, Stream(s) PROVE UNCHANGED events
      BY <3>2 DEF Stream, StreamBlock, StreamCorrupt, StreamEnd, Streamed
    <3>3. CollectCursors \/ SendFrame \/ StreamCrash \/ IoWake \/ IoTimeout \/ IoCheck \/ IoStore
            \/ IoClear \/ IoSnapshot \/ UNCHANGED vars => UNCHANGED events
      BY CollectKeeps DEF SendFrame, FrameEnds, FrameRuns, StreamCrash, IoWake, IoTimeout, IoCheck, IoStore, IoClear, IoSnapshot, vars
    <3> QED
      BY <3>1, <3>2, <3>3 DEF Next
  <2> QED
    BY <2>1, <2>2
<1> QED
  BY <1>16, <1>17

\* One more message for a client.
LEMMA OneMore ==
  ASSUME TypeOK, TypeOK', NEW t \in Sessions, NEW m \in Message, Sent(t)' = Sent(t) \o <<m>>,
         RepeatsOnly(Sent(t)), DrawsInOrder(m.events),
         \A d \in Draws(m.events) : Fits(d, Carried(t))
  PROVE  RepeatsOnly(Sent(t)') /\ Carried(t)' = Carried(t) \union Draws(m.events)
<1>1. Sent(t) \in Seq(Message) /\ Carried(t) = InMessages(Sent(t)) /\ <<m>> \in Seq(Message)
  BY SentType, CarriedIsSent
<1>2. RepeatsOnly(Sent(t) \o <<m>>)
  BY <1>1, RepeatsGrow
<1>3. Carried(t)' = Carried(t) \union InMessages(<<m>>)
  BY <1>1, CarriedGrows
<1> QED
  BY <1>2, <1>3, InMessagesOne

LEMMA MessagesAssociate ==
  \A u, v, w \in Seq(Message) : u \o (v \o w) = (u \o v) \o w
BY ConcatAssociative

LEMMA NoDraws ==
  ASSUME NEW type, NEW cid
  PROVE  /\ Msg(type, cid, <<>>).events = <<>>
         /\ Draws(Msg(type, cid, <<>>).events) = {} /\ DrawsInOrder(Msg(type, cid, <<>>).events)
<1>1. Msg(type, cid, <<>>).events = <<>>
  BY MessageOf
<1> QED
  BY <1>1, DrawsNone DEF DrawsInOrder

LEMMA BlockOrder ==
  ASSUME TypeOK, StoredOnceInOrder, NEW o \in 0..Len(disk), o < Len(disk),
         NEW k \in o..Len(disk)
  PROVE  /\ DrawsInOrder(disk[o + 1].events) /\ disk[o + 1].events \in Seq(Event)
         /\ \A d \in Draws(disk[o + 1].events) : d \in OnDisk /\ Fits(d, UpTo(disk, k))
         /\ \E l \in o + 1..Len(disk) : UpTo(disk, k) \union Draws(disk[o + 1].events) = UpTo(disk, l)
<1>1. /\ DOMAIN disk = 1..Len(disk) /\ Len(disk) \in Nat /\ o + 1 \in 1..Len(disk)
      /\ disk[o + 1] \in Block
  BY LenProperties DEF TypeOK
<1>2. DrawsInOrder(disk[o + 1].events) /\ disk[o + 1].events \in Seq(Event)
  BY <1>1 DEF StoredOnceInOrder, Increasing, DrawsInOrder, Block
<1>3. Draws(disk[o + 1].events) \subseteq OnDisk
  BY <1>1 DEF OnDisk
<1>4. \A d \in OnDisk : Fits(d, UpTo(disk, k))
  BY <1>1, UpToOrder
<1>5. CASE k = o
  <2>1. 1..o + 1 = (1..o) \union {o + 1}
    BY <1>1
  <2>2. UpTo(disk, k) \union Draws(disk[o + 1].events) = UpTo(disk, o + 1)
    BY <1>5, <2>1 DEF UpTo
  <2> QED
    BY <1>1, <1>2, <1>3, <1>4, <2>2
<1>6. CASE k # o
  <2>1. o + 1 \in 1..k /\ k \in o + 1..Len(disk)
    BY <1>1, <1>6
  <2>2. UpTo(disk, k) \union Draws(disk[o + 1].events) = UpTo(disk, k)
    BY <2>1 DEF UpTo
  <2> QED
    BY <1>2, <1>3, <1>4, <2>1, <2>2
<1> QED
  BY <1>5, <1>6

LEMMA StreamOrder ==
  ASSUME TypeOK, TypeOK', ServingOK, StreamingOK, FramesOK, StoredOnceInOrder, OrdersOK,
         NEW t \in Sessions, ws[t], Stream(t), RepeatsOnly(Sent(t))
  PROVE  /\ RepeatsOnly(Sent(t)')
         /\ \E k \in streaming_offset'[t]..Len(disk') : Carried(t)' = UpTo(disk', k)
         /\ Carried(t)' \subseteq Carried(t) \union OnDisk \union Draws(storage)
<1>1. ~HasType(Sent(t), "Frame")
  <2>1. io = "streaming" /\ t = Head(need_data_sessions)
    BY DEF Stream, StreamBlock, StreamCorrupt, StreamEnd, Streamed
  <2> QED
    BY <2>1 DEF StreamingOK, FramesOK
<1>0. PICK o \in Nat : o = streaming_offset[t]
  BY DEF TypeOK
<1>2. /\ Len(disk) \in Nat /\ disk \in Seq(Block) /\ DOMAIN disk = 1..Len(disk)
      /\ streaming_offset \in [Sessions -> Nat]
  BY LenProperties DEF TypeOK
<1>3. PICK k \in o..Len(disk) : Carried(t) = UpTo(disk, k)
  BY <1>0, <1>1 DEF OrdersOK, OrderOK
<1>4. Sent(t) \in Seq(Message)
  BY SentType
<1>5. PICK msgs \in Seq(Message) :
        /\ Sent(t)' = Sent(t) \o msgs
        /\ \/ /\ StreamBlock(t)
              /\ msgs = <<Msg("Block", 0, disk[o + 1].events)>>
           \/ StreamCorrupt(t) /\ msgs = <<Msg("Error", 0, <<>>)>>
           \/ /\ StreamEnd(t)
              /\ msgs = IF storage = <<>> THEN <<Msg("StreamSynced", id[t], <<>>)>>
                        ELSE <<Msg("Block", 0, storage), Msg("StreamSynced", id[t], <<>>)>>
  BY <1>0, StreamSent
<1>7. CASE StreamBlock(t) /\ msgs = <<Msg("Block", 0, disk[o + 1].events)>>
  <2> DEFINE m == Msg("Block", 0, disk[o + 1].events)
  <2>1. o < Len(disk) /\ disk' = disk /\ streaming_offset'[t] = o + 1
    BY <1>0, <1>2, <1>7 DEF StreamBlock
  <2>2. /\ DrawsInOrder(disk[o + 1].events) /\ disk[o + 1].events \in Seq(Event)
        /\ \A d \in Draws(disk[o + 1].events) : d \in OnDisk /\ Fits(d, UpTo(disk, k))
        /\ \E l \in o + 1..Len(disk) : UpTo(disk, k) \union Draws(disk[o + 1].events) = UpTo(disk, l)
    <3>1. o \in 0..Len(disk)
      BY <1>2, <2>1
    <3> QED
      BY <1>3, <2>1, <3>1, BlockOrder
  <2>3. m \in Message /\ m.events = disk[o + 1].events /\ Sent(t)' = Sent(t) \o <<m>>
    <3>1. m \in Message
      BY <2>2, MessageTypes, EventTypes
    <3>2. m.events = disk[o + 1].events
      BY MessageOf
    <3> QED
      BY <1>5, <1>7, <3>1, <3>2
  <2> HIDE DEF m
  <2>4. RepeatsOnly(Sent(t)') /\ Carried(t)' = Carried(t) \union Draws(m.events)
    <3>1. DrawsInOrder(m.events) /\ \A d \in Draws(m.events) : Fits(d, Carried(t))
      BY <1>3, <2>2, <2>3
    <3> QED
      BY <2>3, <3>1, OneMore
  <2>5. PICK l \in o + 1..Len(disk) : Carried(t)' = UpTo(disk, l)
    BY <1>3, <2>2, <2>3, <2>4
  <2>6. UpTo(disk', l) = UpTo(disk, l)
    BY <2>1
  <2> QED
    BY <1>2, <2>1, <2>2, <2>3, <2>4, <2>5, <2>6
<1>8. CASE StreamCorrupt(t) /\ msgs = <<Msg("Error", 0, <<>>)>>
  <2> DEFINE m == Msg("Error", 0, <<>>)
  <2>1. disk' = disk /\ streaming_offset'[t] = o
    BY <1>0, <1>8 DEF StreamCorrupt
  <2>2. m \in Message /\ Draws(m.events) = {} /\ DrawsInOrder(m.events)
        /\ Sent(t)' = Sent(t) \o <<m>>
    <3>1. <<>> \in Seq(Event)
      OBVIOUS
    <3> QED
      BY <1>5, <1>8, <3>1, MessageTypes, EventTypes, NoDraws
  <2> HIDE DEF m
  <2>3. RepeatsOnly(Sent(t)') /\ Carried(t)' = Carried(t)
    BY <2>2, OneMore
  <2>4. UpTo(disk', k) = UpTo(disk, k)
    BY <2>1
  <2> QED
    BY <1>3, <2>1, <2>3, <2>4
<1>9. CASE StreamEnd(t) /\ msgs = IF storage = <<>> THEN <<Msg("StreamSynced", id[t], <<>>)>>
                                  ELSE <<Msg("Block", 0, storage), Msg("StreamSynced", id[t], <<>>)>>
  <2> DEFINE m == Msg("StreamSynced", id[t], <<>>)
             b == Msg("Block", 0, storage)
  <2>1. /\ WriteStorage /\ o >= Len(disk) /\ streaming_offset'[t] = o /\ storage' = <<>>
    BY <1>0, <1>9 DEF StreamEnd, WriteStorage
  <2>2. k = Len(disk) /\ o = Len(disk)
    <3>1. o \in Nat /\ Len(disk) \in Nat /\ k \in o..Len(disk) /\ o >= Len(disk)
      BY <1>0, <1>2, <1>3, <2>1
    <3> QED
      BY <3>1
  <2>3. Carried(t) = OnDisk
    BY <1>2, <1>3, <2>2 DEF UpTo, OnDisk
  <2>4. OnDisk' = OnDisk \union Draws(storage) /\ Len(disk') >= Len(disk)
    BY <2>1, WriteStorageDraws, DrawsNone
  <2>5. Len(disk') \in Nat /\ OnDisk' = UpTo(disk', Len(disk'))
    <3>1. disk' \in Seq(Block)
      BY DEF TypeOK
    <3>2. DOMAIN disk' = 1..Len(disk') /\ Len(disk') \in Nat
      BY <3>1, LenProperties
    <3> QED
      BY <3>2 DEF OnDisk, Draws, UpTo
  <2>6. /\ m \in Message /\ Draws(m.events) = {} /\ DrawsInOrder(m.events)
        /\ b \in Message /\ b.events = storage
    <3>1. <<>> \in Seq(Event) /\ storage \in Seq(Event) /\ id[t] \in ClientId
      BY DEF TypeOK
    <3>2. m \in Message /\ b \in Message
      BY <3>1, MessageTypes, EventTypes
    <3>3. Draws(m.events) = {} /\ DrawsInOrder(m.events)
      BY NoDraws
    <3>4. b.events = storage
      BY MessageOf
    <3> QED
      BY <3>2, <3>3, <3>4
  <2>7. msgs = IF storage = <<>> THEN <<m>> ELSE <<b, m>>
    BY <1>9
  <2> HIDE DEF m, b
  <2>8. CASE storage = <<>>
    <3>1. Sent(t)' = Sent(t) \o <<m>> /\ Draws(storage) = {}
      BY <1>5, <2>7, <2>8, DrawsNone
    <3>2. RepeatsOnly(Sent(t)') /\ Carried(t)' = Carried(t)
      BY <2>6, <3>1, OneMore
    <3> QED
      BY <1>2, <2>1, <2>2, <2>3, <2>4, <2>5, <3>1, <3>2
  <2>9. CASE storage # <<>>
    <3>1. Sent(t)' = Sent(t) \o <<b, m>>
      BY <1>5, <2>7, <2>9
    <3>2. <<b, m>> = <<b>> \o <<m>> /\ <<b>> \in Seq(Message) /\ <<m>> \in Seq(Message)
      BY <2>6
    <3>3. Sent(t) \o (<<b>> \o <<m>>) = (Sent(t) \o <<b>>) \o <<m>>
      <4>1. <<b>> \in Seq(Message) /\ <<m>> \in Seq(Message)
        BY <2>6
      <4> QED
        BY <1>4, <4>1, MessagesAssociate, Zenon
    <3>4. DrawsInOrder(storage)
      BY DEF StoredOnceInOrder, Increasing, DrawsInOrder
    <3>5. \A d \in Draws(storage) : Fits(d, UpTo(disk, k))
      BY <1>2, <1>3, UpToOrder
    <3>6. RepeatsOnly(Sent(t) \o <<b>>)
      <4>1. Carried(t) = InMessages(Sent(t))
        BY CarriedIsSent
      <4> QED
        BY <1>3, <1>4, <2>6, <3>4, <3>5, <4>1, RepeatsGrow
    <3>7. RepeatsOnly((Sent(t) \o <<b>>) \o <<m>>)
      <4>1. Sent(t) \o <<b>> \in Seq(Message)
        BY <1>4, <3>2, ConcatProperties
      <4> QED
        BY <2>6, <3>6, <4>1, RepeatsGrow
    <3>8. Carried(t)' = Carried(t) \union Draws(storage)
      <4>1. <<b, m>> \in Seq(Message)
        BY <2>6
      <4>2. Carried(t)' = Carried(t) \union InMessages(<<b, m>>)
        BY <3>1, <4>1, CarriedGrows
      <4>3. InMessages(<<b>> \o <<m>>) = InMessages(<<b>>) \union InMessages(<<m>>)
        BY <3>2, InMessagesConcat
      <4>4. InMessages(<<b>>) = Draws(storage) /\ InMessages(<<m>>) = {}
        BY <2>6, InMessagesOne
      <4> QED
        BY <3>2, <4>2, <4>3, <4>4
    <3>9. RepeatsOnly(Sent(t)')
      BY <3>1, <3>2, <3>3, <3>7
    <3> QED
      BY <1>2, <2>1, <2>2, <2>3, <2>4, <2>5, <3>8, <3>9
  <2> QED
    BY <2>8, <2>9
<1> QED
  BY <1>5, <1>7, <1>8, <1>9

\* A frame brings a client draws that it has or that come after all it has.
LEMMA FrameOrder ==
  ASSUME TypeOK, TypeOK', StoredOnceInOrder, BroadcastOK, OrdersOK,
         NEW t \in Sessions, ws[t], SendFrame,
         Sent(t)' = Sent(t) \o <<Frame(broadcast, moved)>>, RepeatsOnly(Sent(t))
  PROVE  /\ RepeatsOnly(Sent(t)')
         /\ Carried(t)' = Carried(t) \union Draws(broadcast)
<1> DEFINE m == Frame(broadcast, moved)
<1>1. m \in Message /\ m.events = broadcast /\ Sent(t)' = Sent(t) \o <<m>>
  BY FrameSent, MessageOf
<1> HIDE DEF m
<1>2. ASSUME NEW d \in Draws(broadcast) PROVE Fits(d, Carried(t))
  <2>1. CASE HasType(Sent(t), "Frame")
    BY <1>2, <2>1 DEF OrdersOK, OrderOK
  <2>2. CASE ~HasType(Sent(t), "Frame")
    <3>1. streaming_offset[t] \in Nat /\ Len(disk) \in Nat
      BY DEF TypeOK
    <3>2. PICK k \in streaming_offset[t]..Len(disk) : Carried(t) = UpTo(disk, k)
      BY <2>2 DEF OrdersOK, OrderOK
    <3>3. k \in 0..Len(disk) /\ d \in OnDisk \union Draws(storage)
      BY <1>2, <3>1, <3>2 DEF BroadcastOK
    <3> QED
      BY <3>2, <3>3, UpToOrder
  <2> QED
    BY <2>1, <2>2
<1>3. DrawsInOrder(m.events) /\ \A d \in Draws(m.events) : Fits(d, Carried(t))
  BY <1>1, <1>2 DEF BroadcastOK
<1> QED
  BY <1>1, <1>3, OneMore

\* Everything on its way has a number that was given out.
LEMMA OnItsWay ==
  ASSUME StoredOnceInOrder, BroadcastOK
  PROVE  OnDisk \union Draws(storage) \union Draws(broadcast) \subseteq DOMAIN events
BY DEF StoredOnceInOrder, BroadcastOK, Accepted

LEMMA OrderStep ==
  ASSUME TypeOK, TypeOK', JoinOK, MembersOK, ServingOK, StreamingOK, FramesOK,
         StoredOnceInOrder, BroadcastOK, OrdersOK, OnlyRepeatsOutOfOrder, [Next]_vars
  PROVE  OrdersOK' /\ OnlyRepeatsOutOfOrder'
<1>1. OnlyRepeatsOutOfOrder => \A t \in Sessions : RepeatsOnly(Sent(t))
  BY DEF OnlyRepeatsOutOfOrder, RepeatsOnly, Received, DrawPlaces
<1>2. (\A t \in Sessions : RepeatsOnly(Sent(t)')) => OnlyRepeatsOutOfOrder'
  BY DEF OnlyRepeatsOutOfOrder, RepeatsOnly, Received, DrawPlaces
<1> SUFFICES ASSUME NEW t \in Sessions PROVE OrderOK(t)' /\ RepeatsOnly(Sent(t)')
  BY <1>2 DEF OrdersOK
<1>3. /\ RepeatsOnly(Sent(t)) /\ OrderOK(t) /\ Sent(t) \in Seq(Message)
      /\ Draws(broadcast') \subseteq Draws(broadcast) \union {Len(events) + 1}
      /\ DOMAIN events \subseteq DOMAIN events'
      /\ DOMAIN events = 1..Len(events) /\ Len(events) \in Nat
  BY <1>1, BroadcastStep, SentType, LenProperties DEF OrdersOK, TypeOK
<1>4. /\ Len(disk) \in Nat /\ Len(disk') \in Nat /\ streaming_offset[t] \in Nat
      /\ \A k \in 0..Len(disk) : k \in 0..Len(disk') /\ UpTo(disk', k) = UpTo(disk, k)
  <2>1. Len(disk') >= Len(disk) /\ \A i \in 1..Len(disk) : disk'[i] = disk[i]
    BY BuildersStep DEF KeepsFile
  <2>2. Len(disk) \in Nat /\ Len(disk') \in Nat /\ streaming_offset[t] \in Nat
    BY DEF TypeOK
  <2>3. \A k \in 0..Len(disk) : \A i \in 1..k : disk'[i] = disk[i]
    BY <2>1, <2>2
  <2>4. \A k \in 0..Len(disk) : UpTo(disk', k) = UpTo(disk, k)
    BY <2>3 DEF UpTo
  <2> QED
    BY <2>1, <2>2, <2>4
\* What OrderOK(t)' says, with the primes moved inwards.
<1>5. ASSUME Carried(t)' \subseteq DOMAIN events',
             ws'[t] /\ ~HasType(Sent(t)', "Frame") =>
               \E k \in streaming_offset'[t]..Len(disk') : Carried(t)' = UpTo(disk', k),
             ws'[t] /\ HasType(Sent(t)', "Frame") =>
               \A d \in Draws(broadcast') : Fits(d, Carried(t)')
      PROVE  OrderOK(t)'
  BY <1>5 DEF OrderOK, HasType, Draws, UpTo
\* Nothing new to draw for this client.
<1>6. ASSUME Carried(t)' = Carried(t), ws'[t] => ws[t],
             HasType(Sent(t)', "Frame") => HasType(Sent(t), "Frame"),
             HasType(Sent(t), "Frame") => HasType(Sent(t)', "Frame"),
             ws'[t] => streaming_offset'[t] \in {0, streaming_offset[t]}
      PROVE  OrderOK(t)'
  <2>1. Carried(t)' \subseteq DOMAIN events'
    BY <1>3, <1>6 DEF OrderOK
  <2>2. ASSUME ws'[t], ~HasType(Sent(t)', "Frame")
        PROVE  \E k \in streaming_offset'[t]..Len(disk') : Carried(t)' = UpTo(disk', k)
    <3>1. PICK k \in streaming_offset[t]..Len(disk) : Carried(t) = UpTo(disk, k)
      BY <1>3, <1>6, <2>2 DEF OrderOK
    <3>2. k \in 0..Len(disk) /\ k \in streaming_offset'[t]..Len(disk')
      BY <1>4, <1>6, <2>2, <3>1
    <3> QED
      BY <1>4, <1>6, <3>1, <3>2
  <2>3. ASSUME ws'[t], HasType(Sent(t)', "Frame"), NEW d \in Draws(broadcast')
        PROVE  Fits(d, Carried(t)')
    <3>1. CASE d \in Draws(broadcast)
      BY <1>3, <1>6, <2>3, <3>1 DEF OrderOK
    <3>2. CASE d = Len(events) + 1
      <4>1. \A x \in Carried(t) : x \in 1..Len(events)
        BY <1>3 DEF OrderOK
      <4> QED
        BY <1>3, <1>6, <3>2, <4>1 DEF Fits
    <3> QED
      BY <1>3, <2>3, <3>1, <3>2
  <2> QED
    BY <1>5, <2>1, <2>2, <2>3
<1>7. ws'[t] => ws[t]
  BY FieldsStep
<1>8. ASSUME ~Stream(t) PROVE ws'[t] => streaming_offset'[t] \in {0, streaming_offset[t]}
  <2>1. JoinId(t) => streaming_offset'[t] = 0
    BY DEF JoinId, TypeOK
  <2>2. JoinEnd(t) => UNCHANGED streaming_offset
    BY DEF JoinEnd, sessionVars
  <2> QED
    BY <1>8, <2>1, <2>2, FieldsStep
<1>9. ASSUME NEW type \in {"StreamStart", "Error"}, Sent(t)' = Sent(t) \o <<Msg(type, 0, <<>>)>>,
             ~Stream(t)
      PROVE  OrderOK(t)' /\ RepeatsOnly(Sent(t)')
  <2> DEFINE m == Msg(type, 0, <<>>)
  <2>1. m \in Message
    <3>1. <<>> \in Seq(Event)
      OBVIOUS
    <3> QED
      BY <3>1, MessageTypes, EventTypes
  <2>2. Draws(m.events) = {} /\ DrawsInOrder(m.events) /\ m.type = type
    BY NoDraws, MessageOf
  <2>3. Sent(t)' = Sent(t) \o <<m>>
    BY <1>9
  <2> HIDE DEF m
  <2>4. RepeatsOnly(Sent(t)') /\ Carried(t)' = Carried(t)
    BY <1>3, <2>1, <2>2, <2>3, OneMore
  <2>5. HasType(Sent(t)', "Frame") <=> HasType(Sent(t), "Frame")
    <3>1. <<m>> \in Seq(Message) /\ ~HasType(<<m>>, "Frame")
      BY <2>1, <2>2, HasTypeOne
    <3>2. HasType(Sent(t) \o <<m>>, "Frame") <=> HasType(Sent(t), "Frame")
      BY <1>3, <3>1, HasTypeConcat
    <3> QED
      BY <2>3, <3>2
  <2> QED
    BY <1>6, <1>7, <1>8, <1>9, <2>4, <2>5
<1>10. CASE Sent(t)' = Sent(t) /\ ~Stream(t)
  <2>1. Carried(t)' = Carried(t)
    <3>1. Carried(t)' = InMessages(Sent(t)')
      <4>1. wire'[t] \in Seq(Message) /\ msg_queue'[t] \in Seq(Message)
        BY DEF TypeOK, QueueTypeOK
      <4> QED
        BY <4>1, InMessagesConcat DEF Carried, Sent, InMessages
    <3> QED
      BY <1>10, <3>1, CarriedIsSent
  <2>2. HasType(Sent(t)', "Frame") <=> HasType(Sent(t), "Frame")
    BY <1>10
  <2> QED
    BY <1>3, <1>6, <1>7, <1>8, <1>10, <2>1, <2>2
<1>11. CASE ws[t] /\ Stream(t)
  <2>1. /\ RepeatsOnly(Sent(t)')
        /\ \E k \in streaming_offset'[t]..Len(disk') : Carried(t)' = UpTo(disk', k)
        /\ Carried(t)' \subseteq Carried(t) \union OnDisk \union Draws(storage)
    BY <1>3, <1>11, StreamOrder
  <2>2. Carried(t)' \subseteq DOMAIN events'
    BY <1>3, <2>1, OnItsWay DEF OrderOK
  <2>3. ~HasType(Sent(t), "Frame")
    <3>1. io = "streaming" /\ t = Head(need_data_sessions)
      BY <1>11 DEF Stream, StreamBlock, StreamCorrupt, StreamEnd, Streamed
    <3> QED
      BY <1>11, <3>1 DEF StreamingOK, FramesOK
  <2>4. PICK msgs \in Seq(Message) : Sent(t)' = Sent(t) \o msgs /\ ~HasType(msgs, "Frame")
    BY <1>11, StreamTypes
  <2>5. ~HasType(Sent(t)', "Frame")
    BY <1>3, <2>3, <2>4, HasTypeConcat
  <2> QED
    BY <1>5, <2>1, <2>2, <2>5
<1>12. CASE ~ws[t] /\ Stream(t)
  <2>1. Sent(t)' = Sent(t) /\ ~ws'[t]
    BY <1>7, <1>12, SentStep DEF JoinEnd
  <2>2. Carried(t)' = Carried(t)
    <3>1. Carried(t)' = InMessages(Sent(t)')
      <4>1. wire'[t] \in Seq(Message) /\ msg_queue'[t] \in Seq(Message)
        BY DEF TypeOK, QueueTypeOK
      <4> QED
        BY <4>1, InMessagesConcat DEF Carried, Sent, InMessages
    <3> QED
      BY <2>1, <3>1, CarriedIsSent
  <2>3. Carried(t)' \subseteq DOMAIN events'
    BY <1>3, <2>2 DEF OrderOK
  <2> QED
    BY <1>3, <1>5, <2>1, <2>3
<1>13. CASE SendFrame /\ ws[t] /\ Sent(t)' = Sent(t) \o <<Frame(broadcast, moved)>>
  <2>1. RepeatsOnly(Sent(t)') /\ Carried(t)' = Carried(t) \union Draws(broadcast)
    BY <1>3, <1>13, FrameOrder
  <2>2. Carried(t)' \subseteq DOMAIN events'
    BY <1>3, <2>1, OnItsWay DEF OrderOK
  <2>3. Draws(broadcast') = {}
    BY <1>13, DrawsNone DEF SendFrame, FrameEnds
  <2>4. HasType(Sent(t)', "Frame")
    BY <1>13, PositionsGrow
  <2> QED
    BY <1>5, <2>1, <2>2, <2>3, <2>4
<1> QED
  BY <1>9, <1>10, <1>11, <1>12, <1>13, SentStep

----------------------------------------------------------------------------
LEMMA OrderInvariant ==
  Spec => [](/\ CursorsOK /\ HeldOK /\ LastCursorSent
             /\ BroadcastOK /\ OrdersOK /\ OnlyRepeatsOutOfOrder)
<1>1. Init => /\ CursorsOK /\ HeldOK /\ LastCursorSent
              /\ BroadcastOK /\ OrdersOK /\ OnlyRepeatsOutOfOrder
  <2> SUFFICES ASSUME Init
               PROVE  /\ CursorsOK /\ HeldOK /\ LastCursorSent
                      /\ BroadcastOK /\ OrdersOK /\ OnlyRepeatsOutOfOrder
    OBVIOUS
  <2>1. /\ msg_sessions = {} /\ broadcast = <<>>
        /\ \A s \in Sessions : /\ wire[s] = <<>> /\ msg_queue[s] = <<>> /\ pc[s] = "idle"
                               /\ streaming_offset[s] = 0 /\ cursor[s] = 0
    BY DEF Init, QueueInit
  <2>2. \A s \in Sessions : Sent(s) = <<>>
    <3>1. <<>> \o <<>> = <<>>
      OBVIOUS
    <3> QED
      BY <2>1, <3>1 DEF Sent
  <2>3. CursorsOK
    <3>1. \A s \in Sessions : \A cid : CursorsSent(s, cid) = {}
      BY <2>2 DEF CursorsSent, PositionsIn
    <3> QED
      BY <2>1, <3>1 DEF CursorsOK, MoverOK
  <2>4. HeldOK /\ LastCursorSent
    BY <2>1 DEF Init, HeldOK, LastCursorSent
  <2>5. BroadcastOK
    BY <2>1, DrawsNone DEF BroadcastOK, DrawsInOrder
  <2>6. OrdersOK
    <3> SUFFICES ASSUME NEW s \in Sessions PROVE OrderOK(s)
      BY DEF OrdersOK
    <3>1. Carried(s) = {} /\ ~HasType(Sent(s), "Frame")
      BY <2>1, <2>2 DEF Carried, InMessages, HasType
    <3>2. UpTo(disk, 0) = {}
      BY DEF UpTo
    <3>3. 0 \in streaming_offset[s]..Len(disk)
      <4>1. Len(disk) \in Nat
        <5>1. disk \in Seq(Block)
          BY InitialPapersAssumption DEF Init
        <5> QED
          BY <5>1
      <4> QED
        BY <2>1, <4>1
    <3> QED
      BY <3>1, <3>2, <3>3 DEF OrderOK
  <2>7. OnlyRepeatsOutOfOrder
    BY <2>2 DEF OnlyRepeatsOutOfOrder, Received
  <2> QED
    BY <2>3, <2>4, <2>5, <2>6, <2>7
<1>2. /\ TypeOK /\ JoinOK /\ MembersOK /\ ServingOK
      /\ StreamingOK /\ ConnectedOK /\ FramesOK /\ UniqueIds /\ StoredOnceInOrder
      /\ CursorsOK /\ HeldOK /\ LastCursorSent
      /\ BroadcastOK /\ OrdersOK /\ OnlyRepeatsOutOfOrder
      /\ [Next]_vars
      => /\ CursorsOK' /\ HeldOK' /\ LastCursorSent'
         /\ BroadcastOK' /\ OrdersOK' /\ OnlyRepeatsOutOfOrder'
  BY TypeStep, CursorsStep, HeldStep, LastCursorStep, BroadcastStep, OrderStep
<1> QED
  BY <1>1, <1>2, SeamInvariant, IdsUnique, StoredInOnePlace, PTL DEF Spec

(***************************************************************************)
(* The last position a client moved to is never left unsent, although      *)
(* position and flag are shared without a lock, for any number of clients  *)
(* that come, go and take over each other's ids.                           *)
(***************************************************************************)
THEOREM LastPositionSent == Spec => []LastCursorSent
BY OrderInvariant, PTL

(***************************************************************************)
(* No client gets a new draw under an older one: whatever comes out of     *)
(* order repeats a draw that it was sent before, for any number of clients *)
(* that join, draw and leave while others sync and the file is stored.     *)
(***************************************************************************)
THEOREM DrawnInOrder == Spec => []OnlyRepeatsOutOfOrder
BY OrderInvariant, PTL
=============================================================================
