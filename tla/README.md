# Etherpaint in TLA+

Etherpaint lets many people draw on one paper through a web page.  A C++ server
keeps the papers: it collects what each client draws, sends it to all the
others sixty times a second, saves it, and streams the saved paper to a client
that joins.  This directory holds TLA+ models of that server with its files, of
the page that draws and connects, and of what other pages make of it; TLC
configurations that check them on small instances; and TLAPS proofs of theorems
about server and page that hold for any number of clients, ids, papers and draws.

Paths below are relative to the repository, `SSP` is
`src/apps/etherpaint/SharedSessionPaper.cpp`.  `PROJECT.json` maps each
definition to the lines it models and lists runs, mutants, hazards, findings and
theorems.

    tlc -workers 2 -config PaperSync.cfg MCPaperServer     # a run
    tlapm PaperServerProofs.tla                            # proofs

## 1. Inventory

### The server

| Component | State | Operations | What makes it correct |
|---|---|---|---|
| **MsgSession** (`messages/MsgSession`) | websocket pointer, deque of messages, mutex | `enqueue` (any thread), `send_queue` (deferred callback), `drain`, `closed`, `queue_low` | each client gets its messages once and in order; a queue is never left with nobody to send it |
| **MsgSessionPaper** | id, `streaming`, `streaming_offset`, cursor and its flag | `join`, `streamStart`, `streamSynced`, `queue_low` | exactly one stream per join, driven to its end by requests for data |
| **SharedSession** | list of papers, members of a paper, two mutexes | `get`, `leave` (`join`, `done`, `enqueue` have no caller) | a paper lives while somebody needs it |
| **SharedSessionPaper** | broadcast builder, storage builder, file; statics of the io thread: request queue, condition variable, snapshot of papers | `join`, `leave`, `addDraw`, `send_frame`, `request_data`, `stream_all`, `stream`, `store`, `store_all` | no client misses a draw, draws keep one order everywhere, draws reach the file, ids are unique |
| **main.cpp** | handler table; update thread (60 times a second), io thread (waits up to 5 s) | handlers of Join, Cursor, DrawIncrement and DrawObject, `validate_command` | a client acts under its own id only |
| **messages.cpp** | uWebSockets loops (one per thread), TLS, static files | open, message, drain, close callbacks | a handler's exception becomes an Error message |
| **msg.hpp** | a flatbuffer builder and its event offsets | `add_event`, `finish`, `clear` | a finished message is what was collected |
| **paper file** | length-prefixed flatbuffers, a buffered stream per `SharedSessionPaper` | opened by `create`, appended by `store`, read by `stream` at an offset, closed with the last reference | it keeps the order of the draws through restarts; who is synced has all of it |

### The client (JavaScript)

| Component | State | Operations | What makes it correct |
|---|---|---|---|
| **messages.js** | websocket, reconnect timer, builder, event list | connect, reconnect, add event, send, call handlers | what is queued under an id is sent under that id only; a lost connection is restored |
| **paperSend.js, controlDrawing.js** | id, tool and mode, the drag under way, whether the button is down, enabled | press, move, release, cancel, tools, undo, redo, enable and disable | nothing is drawn before the client is synced; others see what the local echo shows |
| **paperReceive.js, paperClient.js** | the clients known, incoming events | apply increments, objects, cursors, joins, leaves | all clients end with the same paper |
| **paperDraw.js, paperAction.js** | stack of actions, undo pointers | draw, undo, redo, delete, cleanup | undo and redo find the same action on every client |
| **paperPanZoom.js, controlTouchPanZoom.js** | view, zoom, velocity, start values of a gesture, animation frame | pinch, pan, wheel, fling, animate | the view keeps its limits and what a gesture holds; what changes is shown |
| **controlUI.js, paper.js, index.js** | toolbar | DOM | no state that the paper depends on |

The static file cache, configuration parser, logging and the older pages under
`wwwdir/old` and `wwwdir/test` have no state the paper depends on.

### How the parts interact

Websocket threads run the handlers.  A draw goes into two builders of the paper
under one mutex: *broadcast*, for the clients that are synced, and *storage*,
for the file.  The update thread finishes the broadcast builder into a frame
and enqueues it to every member that is not streaming.  A joining client gets
StreamStart and puts itself in the queue of the io thread; the io thread answers
a request with one block of the file; when the client's queue has gone out, its
`queue_low` asks again.  At the end of the file the io thread sends the storage
builder as the last block, writes it to the file, clears `streaming` and sends
StreamSynced with the client's id.  When the io thread has nothing to stream for
a while it stores every paper.

### What is hard

- Five mutexes and three kinds of thread, taken along different paths; `closed`
  takes them from the other end (deadlock).
- The stream and the frames are produced by different threads; the seam between
  them is where a draw can go missing, come twice or come out of order.
- The io thread's queue and condition variable: lost notifications, deadlines.
- A queue that is filled by three threads and emptied by callbacks, with
  backpressure.
- Fields that several threads use under no lock: `streaming`, the cursor and its
  flag, `shared_session`, and the builder when `join` adds to it.
- Ids that are reused, and are handed back before the leaving is announced.
- A file that is written through a buffer and never flushed, is opened again
  before it was closed, and has lengths of 32 bits.
- A drag lives in a page and an id in a connection: they part when a connection
  breaks.  The page never learns of a button released elsewhere.
- Each page keeps its own order of draws, as local echo puts its own first.
- Pinch, pan, wheel and fling share one set of start values, one view and one
  animation frame; undefined start values turn the view into NaN.

Each is a hazard in `PROJECT.json`, with its line and the properties about it.

## 2. Plan

On disk, in the order in which they were written:

| Module | Models | Uses |
|---|---|---|
| `Channel` | what a MsgSession promises: an ordered lossless stream per client | |
| `MsgQueue` | the queue, its callbacks and backpressure, as actions to be composed | |
| `MsgSession` | the queue by itself; implements `Channel` | `MsgQueue`, `Channel` |
| `PaperServer` | one paper with its sessions, threads, builders and file | `MsgQueue` |
| `PaperLocks` | the mutexes of the server, threads and what they wait for | |
| `MCPaperServer` | values and view for the runs of `PaperServer` | `PaperServer` |
| `PaperView` | pages that draw, undo and redo on one paper, with local echo | |
| `MCPaperView` | symmetry and view for its run | `PaperView` |
| `PaperPage` | one page: its connections, pointer, tools and drags | |
| `PaperPanZoom` | panning, zooming and flings of a page | |
| `MCPaperPanZoom` | values for its run | `PaperPanZoom` |
| `PaperFile` | the file of a paper whose objects come and go; crashes | |
| `MsgQueueProofs`, `MsgSessionProofs`, `PaperLocksProofs`, `PaperServerProofs`, `PaperPageProofs`, `PaperPanZoomProofs`, `PaperFileProofs`, `PaperViewProofs` | theorems | the module they are named after |

Next:

1. Presence: `ClientJoined`, `ClientLeft` and the cursors of other clients on the
   screen, with ids that are taken over (hazards at `SSP:123` and `SSP:145`).
2. The seam of `PaperServer` and `PaperView`: that what a client is sent by the
   one is what `Load` and `SendFrame` give it in the other.

## 3. The models

### MsgQueue, MsgSession, Channel

`ws[s]` is the websocket pointer, `msg_queue[s]` the deque with its sending end
first, `deferred[s]` the callbacks that `enqueue` deferred to the loop and that
have not run, `buffered[s]` whether the socket holds data back, `wire[s]` what
was given to the socket.  Each method runs under the session's mutex and is one
step: `EnqueueAll` (one message to many sessions, or many to one), `RunDeferred`
(the deferred `send_queue`), `Drain`, `Disconnect`.  The loop of `send_queue`
sends until the queue is empty or the socket buffers, so a step sends any prefix
after which the loop may stop (`Sendable`).  `queue_low` is called after the
mutex was released: `pc[s] = "low"`.

`Channel` has, per client, the messages accepted and how many were delivered.
`MsgSession` implements it under accepted = wire and queue together, delivered =
length of the wire.

### PaperServer

One paper, because papers share only the io thread, its queue and the snapshot;
a second paper adds nothing but delay.  (Two objects for one paper, one after
the other over the same file, are in `PaperFile`.)  Variables keep the names of the fields.
`pc[s]` is where the thread of session `s` stands in a handler that another
thread can observe half done; `io` is where the io thread stands.

| Code | Actions |
|---|---|
| Join handler, `SharedSessionPaper::join` | `JoinStart`, `JoinId`, `JoinEnd`, or `JoinFull` when no id is left |
| `request_data`, `queue_low` | `RequestData`, `QueueLow` |
| `validate_command` and errors | `Rejected`, the guards of `CanCommand` |
| draw handlers, cursor handler | `AddDraw`; `MoveCursor`, `FlagCursor` |
| `closed`, `leave` | `Close`, `ClientLeft`, `Cleanup` |
| `send_frame` | `CollectCursors` (of `SkipCursor`, `LowerFlag`, `ReadCursor`), then `SendFrame` |
| `stream_all` | `IoWake`, `IoTimeout`, `IoCheck`, `PopNeedData` |
| `stream`, `store(session)` | `StreamBlock`, `StreamCorrupt`, `StreamEnd`, `StreamCrash` |
| `store_all`, `store()` | `IoStore`, `IoClear`, `IoSnapshot` |

What needs an explanation:

- `streaming` starts TRUE (`MsgSessionPaper.h:24`).  A session that is sent an
  Error before it joined asks for data, and a client refused for want of an id
  is streamed the paper.
- `join` adds ClientJoined to the builder without its mutex.  `AfterRace` is the
  outcome: if an event was added since `JoinStart`, both survive, or one undoes
  the other.  Draws undone this way are in the history variable `clobbered`.
  The two updates really are a data race on a vector and a buffer, which may
  also corrupt the heap; that outcome ends the process and is left out.
- `store_sessions` is the snapshot that `store_all` keeps; with the sessions'
  `shared_session` it keeps the paper alive.  When the last reference goes, both
  builders go with it, and what the storage builder held is `lost`.
- `StreamCrash`: `stream_all` tests `shared_session` and uses it afterwards;
  `closed` may reset it in between.
- The cursor and its flag are shared without a lock by the cursor handler, which
  writes the position (`MoveCursor`) and then raises the flag (`FlagCursor`), and the
  update thread, which for each member tests the flag and lowers it (`LowerFlag`) and
  then reads the position (`ReadCursor`).  Any of these may come between two of the
  other thread's.  `passed` are the members a running frame is done with, `reading` the one
  whose flag it lowered and whose position it has not read, `moved` the positions it
  has.  A position that is read while the handler writes it may be a mixture of
  two, which 0 stands for, as it does for a position never written: the flag is not up
  before the first cursor event.  The test of a flag that is up and its lowering are one
  step: what the handler can do in between is raise a flag that is up, and move on to
  a position that is read later.  The accesses take effect in the order of the
  code; a compiler or processor that reorders them, which a data race in C++ allows,
  is not modelled.
- A running frame has `shared_sessions_mutex`, `msg_sessions_mutex` and the builder's:
  `NoFrame` is in the guard of every step that takes one of them.  What takes none
  (`MoveCursor` and `FlagCursor`, callbacks, requests, blocks of a stream) goes on meanwhile.
- A message with several events is several steps of the handler.  Every session
  has a thread of its own; in the code sessions may share one, which only leaves
  out interleavings.
- `Told` says when a client sends commands: after a StreamSynced with its id and
  no StreamStart since, as the JavaScript client does.
- Steps that are one here though other threads may run in between: the
  offset and the block of `stream` (nobody but `streamStart` of that session
  writes the offset); the flag and messages of `streamSynced` (a `queue_low`
  between them would add one request that the io thread drops); the locks of a frame,
  taken with its first step, as what came before them in between comes before
  the frame here; and the end of `send_frame`, which passes over the flags that are
  down, finishes the builder and enqueues to one member after the other.  It can
  pass over them last, because nothing but the handler raises a flag: a flag that is up
  at the end was raised after the frame passed it (`SkipCursor`) or after it was lowered.
  It can enqueue to all at once, because the queues are independent of each other and
  of a member it reads only `streaming` there, which changes under the builder's mutex
  (`streamSynced`), under that of the members (`join`), or when a stream fails: that client's
  part of the frame then comes before or after.
- The wait for the mutex of a session that is in `closed` is not here; such a
  session is taken to be gone.  `PaperLocks` has it.

Events are records of kind, client and number.  Coordinates, colours and texts
are payload.  An increment without its store flag is "Transient", the rest of
the draws "Stored".

### PaperLocks

The five mutexes as owners, the threads as program counters.  A mutex that is
taken and released with no other taken meanwhile is a guard that it is free;
one that is held while another is taken is owned.  The data is reduced to what
decides who locks what: the members, those streaming, those the running frame
still has to be sent to, the session the io thread streams to.

### PaperView

The server is reduced to its order of events: `outbox[p]` is what a page sent,
`Accept` handles the next event of it, `broadcast` is what the next frame brings,
`saved` the stored events, which a page gets when it is loaded.  That a loading
page gets all of them, in order, is what `PaperServer` checks.

`view[p]` is a page's `PaperDraw` with its `PaperClient`s: the stack
`increments`, of which `drawn` are on the screen (`incrementIndex` + 1;
`targetIndex` is always its top), `tmpActions`, each client's `currentAction`,
`drawRequested`, and `shown`, the elements on the screen.  An element stands
for a whole object, numbered by the input that began it, so that the same object
has the same number on all pages; a finished object is another element than the
temporary one it replaces.  Points, classes and colours are payload.

| Code | Actions and operators |
|---|---|
| StreamStart to StreamSynced | `Load` |
| `leave` of the server, page closed | `Close`, `Cleanup` |
| `drawStart`, `drawUpdate`, `drawFinish`, `drawCancel`, the undo and redo buttons | `DrawStart`, `DrawUpdate`, `DrawFinish`, `DrawCancel`, `Undo`, `Redo` |
| `updateCursor` and `send` as the pointer moves | `MoveCursor`, when events wait to be sent |
| `addDraw`, `send_frame` of the server | `Accept`, `SendFrame` |
| `call_handlers`, `drawIncrement`, `drawObject` | `Receive`, `Handle` |
| `addUndo`, `addRedo` | `Undoable`, `Redoable`, of which the highest place is taken |
| `draw`, the actions' `draw` and `drawReverse` | `AnimationFrame`, `Draw` |

- The loops of `addUndo` and `addRedo` are given by what they find: going down
  the stack an undo raises the counter and another action lowers it while it is
  not 0, so the first place where it is 0 is the highest one with as many undos
  above it as other actions.
- A frame reaches all pages at once.  A page that gets it later has had some of
  its own input before it, which is the behaviour in which it had that input
  earlier; only the own input of a page and the order of frames meet in a stack.
- `HandleAll` passes over the events of one id: the page's own in a frame, which
  local echo had handled, and 0, which is nobody's, when the page replays the saved
  paper or echoes its input.
- A handler that throws (`failed`) ends the message before `done_handler`.  The
  cause here is a Cancel or AddPoint for a client without a current action.
- `astray` is a history variable: the page was sent an event that does not fit
  what it was sent before (a Point, Cancel or second Start for another drag than
  the one it saw begin, a stored event for the second time).  Such pages do go
  wrong: see the hazards at `paperReceive.js:127`, `SSP:145` and `SSP:282`.
- The paper has objects from earlier days, so that all stacks have the same
  bottom.  The search never undoes the bottom of a stack; on an empty paper two
  pages may have different objects there, and their screens then differ after an
  undo (hazard at `paperDraw.js:87`).
- A page that is closed loses its drag.  A page that reconnects by itself keeps
  it: see `PaperPage`.

### PaperPage

One page, with the session the server has for its connection, the draws that
come back to one other page, and connections that broke without the server
knowing.  What the other page has is kept per client id, as there.

| Code | Actions and operators |
|---|---|
| `connect`, `onopen`, `onclose`, `delayed_reconnect` | `Connect`, `Connected`, `Disconnected`, `Reconnect` |
| the network | `Break` |
| `add_event`, `send`, `clear` of messages.js; `send` of paperSend.js | `Added`, `MessagesSend`, `Sent` |
| `StreamStart`, `StreamSynced` on the page | `StreamStart`, `StreamSynced` with `EnableDrawing`, `DisableDrawing` |
| `onPointerDown`, `onPointerMove`, `onPointerUp`, `onPointerCancel` | `PointerDown`, `PointerMove`, `PointerUp`, `Cancel` |
| `drawStart`, `drawUpdate`, `drawFinish`, `drawCancel`, with local echo | `DrawStart`, `DrawUpdate`, `DrawFinish`, `DrawCancel`, `Echo`, `EchoThrows` |
| tools, attributes, undo and redo buttons | `SelectClass`, `SelectPointer`, `Command` |
| `join`, also of a full paper; the end of the stream, or its failure, of the server | `AcceptJoin`, `JoinFull`; `Synced`, `StreamFails` |
| `validate_command` with `addDraw`, `leave` of the server | `Accept`, `GhostLeaves` |
| `drawIncrement`, `drawObject`, `PaperClient` | `Throws`, `Strays`, `Handle`, `Replay`, `SyncedClient` |

- A press, a move and a release come in any order while drawing is enabled:
  the page has handlers on the paper only, so it misses what happens
  elsewhere or while it is disabled.
- `Break` loses what is on its way, in both directions; the session becomes a
  ghost, which keeps its id until the server notices.  The page notices at
  another time (`socket = "Dead"` until then), and what it sends meanwhile is
  dropped, as `WebSocket.send` does.
- Nothing is assumed of the server: a stream may end, fail (`StreamFails`), or never
  get anywhere.  A paper may be full at any join, as other members may have the
  ids; the session then has id 0, no StreamStart comes but the stream does, and
  under 0 the page draws what the server refuses: `validate_command` takes nothing
  from a session without an id.  Error messages, which a page only shows, are left out.
- An event is added to the builder before its local echo.  When the echo throws,
  the rest of the handler does not run and the event stays to be sent with the
  next: `EchoThrows`.
- Other page and server are one step: what is accepted is handled by the other
  page at once.  Frames keep the order of the events of one client, and nothing
  but that client's events touches its `PaperClient`.  Starting up, that page and
  this one replay what is `saved` under each id.
- An Undo or Redo changes no `PaperClient`, as a colour does not: `Command` adds
  "Other".  Stacks of draws are in `PaperView`.
- `pressLost`, `stray`, `wrongId` and `misdrawn` are history variables.

### PaperPanZoom

`unit` is 1 / `zoomFactor`: with it the formulas of `relZoomPan` and `calcV` need
no division, and integers for the units give integers for the view.  `NaN` is
the outcome of arithmetic on what was never set, for which every comparison is
false; the limits therefore let it pass.  The two axes are alike but for the
wheel with shift (`Vertical`).

| Code | Actions and operators |
|---|---|
| `setPan`, `setZoom`, `setPanVelocity`, `calcV` | `Pan`, `Zoom`, `Flung`, `Slowed` |
| `relStart`, `relZoomPan` | `RelStart`, `Moved`, `RelZoomPan` |
| `pinchstart`, `pinch`, `pinchend` of controlTouchPanZoom.js | `PinchStart`, `Pinch`, `PinchEnd` |
| the wheel listener, `panStart` and the panning in `onPointerMove` of controlDrawing.js | `WheelZoom`, `WheelPan`, `PanStart`, `PanMove` |
| `requestAnimate`, `animate` | the `animating` of each, `Animate` |
| the paper grows or shrinks | `PaperChanges` |

`Asked` reaches one unit beyond each limit, which is as good as any amount.  A
wheel may ask for a negative zoom factor; the code then sets the lowest, which
`Zoom` gives for the highest unit.  `stale`, `gesture` and `unstarted` are history
variables.

### PaperFile

The file as a sequence of blocks, and one `std::fstream` with a buffer per
`SharedSessionPaper` that was ever opened over it.

| Code | Actions and operators |
|---|---|
| `SharedSession::get`, `create`, the constructor | `Get`, `Create`, `Alive` |
| `join`, `closed`, `leave` | `Joined`, `Leave` |
| `addDraw` | `AddDraw` |
| `stream` | `StreamBlock`, `StreamTorn`, `StreamFails`, `StreamEnd` |
| `store` | `Store`, `StoreFails` |
| `store_all` | `StoreAll`, `ClearList`, `NewList` |
| the destructor of the paper | `Close` |
| the process is killed, power fails | `Killed`, `PowerLost` |

- A block is a unit, and lengths and offsets count blocks modulo `Width`, which
  stands for 2^32 bytes.  A length that goes over the limit in the middle of a
  block is not told apart from one that goes over at its end.
- `store()` writes prefix and data, after a `seekp` that flushes the buffer.  So
  the buffer holds at most one block, and the file gets whole blocks as long as
  the process is what ends: `Killed` loses buffers only, and leaves what was written to
  the system, which need not have it on the disk (`durable` stays).  `PowerLost` keeps any
  prefix of what was written since the machine started, and perhaps part of
  the next block, `Torn`.  A file system may also leave zeros or blocks in
  another order; that is not here.
- A read that meets `Torn` fails, and the stream of that paper has failed for
  good (nothing calls `clear()`), or reads into what follows and then fails to
  verify.  A failed stream answers each request with an Error.
- `current` is the weak pointer of `shared_sessions`.  It expires when the last
  reference goes, before the destructor closed the stream: a paper in `closing`
  still has its buffer to write, while `Get` may open the next.  A paper that only the
  list of `store_all` had is closed by the io thread itself, before it makes the next
  list (`dropped`); also there a client may open the file anew meanwhile.
- What `stream` and `store` do is one step here, their threads and messages are
  in `PaperServer`, which has a file that never fails in this way.  Between the
  three steps of `store_all` clients may come and leave.

No abstract append-only log is refined: it holds only for papers that do not
overlap, and the properties say the same with that exemption in sight.

## 4. Runs

| Run | Question | Result |
|---|---|---|
| `MsgSession` | is the queue an ordered lossless channel that never gets stuck, with and without backpressure, and is everything sent in the end? | holds |
| `PaperSync` | two clients join, draw and move cursors while the other syncs and the io thread stores: is there a gap, a wrong order, a stored draw in two places or none, a last cursor that is never sent? | holds |
| `PaperLeave` | clients leave at any point and share one id: is there a gap, a stream that stands still, an id that two have? | holds |
| `PaperSlow` | backpressure, errors, a corrupt file: does the stream go on, is a stored draw saved, and does it reach every synced client? | holds |
| `PaperLocks` | are mutexes taken in one order outside `closed`, does every deadlock involve `closed`, do frames finish otherwise? | holds |
| `PaperView` | with local echo, drags, cancels, undo and redo on two pages, do all screens end up as the saved paper, and does every undo find what it should? | holds |
| `PaperPage` | presses, tools, lost connections, ids that change hands: is anything drawn too early, sent under the id of another connection, or drawn otherwise on another page? | holds |
| `PaperPanZoom` | gestures, flings and frames in any order: do zoom and view keep their limits, does what is held stay in place, is every change shown, do flings end? | holds |
| `PaperFile` | papers opened and closed over one file, killed processes, lost power: is the order kept, does who is synced have everything? | holds |
| `RequestsServed` | is every request in the io thread's queue served? (`SSP:307`) | no |
| `NoDeadlock` | is there no deadlock? (`SSP:212`, `TODO.txt:4`) | no |
| `TriesToReconnect` | does a page without a connection try to connect? (`paper.html:425`) | no |

The three that fail are findings, described in `PROJECT.json`.  Three more
behaviours that `TODO.txt` or a comment names are in the model, where properties
exempt them or allow for them: stream and frame may bring the same draw
(`SSP:281`, `TODO.txt:2`, allowed by `OnlyRepeatsOutOfOrder`); the snapshot of
`store_all` is dropped before a last draw is saved (`SSP:226`, counted as `lost` by
`StoredOnceInOrder` and excepted by `EventuallySaved`); a client that was
refused for want of an id is synced under id 0 (`SSP:117`, `TODO.txt:1`, no member
in `UniqueIds`).

**Properties.**  `NoMissedDraw` is the main one: a client that was synced has
every stored draw of the paper, or the next frame brings it.  It ties the file,
both builders and what a client was sent together, and any mistake at the seam of
stream and frames breaks it.  `OnlyRepeatsOutOfOrder` and `NoStreamAfterFrame`
say in which order a client gets them; `StoredOnceInOrder` that the file and the
storage builder hold every draw once, in order; `StreamContinues` that the chain
of requests is never broken (a request may still wait for ever in the queue:
`RequestsServed`); `LastCursorSent` that the unlocked cursor does no lasting harm:
whatever accesses of handler and frame come between each other, once the handler is
done and the flag is down, and no frame is about to read, the others were sent the last
position or the frame under way has it, unless the process crashed or the client moved
no cursor yet (a frame that reads the position before it lowers the flag is the mutant
that breaks it);
`UniqueIds`; `EventuallySaved` and `EventuallyDrawn`.  `NoMissedDraw` leaves out
clients whose first message was an Error, and draws in `clobbered`: for both the
code does lose draws.

`StreamContinues` and `UniqueIds` are checked where clients leave, fail and run
out of ids (`PaperLeave`, `PaperSlow`).

In `PaperView`, `ShowsSaved` is the point of the client: when nothing is on its
way, every screen is what loading the paper again would show, though each page
looked for the actions to undo in a stack of its own order.  It does not speak
of pages that are `astray`, which a drag that was under way when they loaded, a
repeated draw or an id taken again early makes them, and with two loads there is no
third page to watch the last of these; and it is about papers with something
on them (`OldObjects >= 1`).  `UndoChangesPaper` says that the counting in
`addUndo` and `addRedo` is right at every place of every stack, `InputHandled`
that a page never trips over its own input, astray or not; a handler that throws on
the events of others is not its subject.

In `PaperPage`, `EchoAgrees` ties what a page echoes to itself to what its events
do elsewhere, over cancels that wait, tools that are sent late and reconnects;
`SameClass` says the same of each object at the moment it is drawn;
`OwnIdOnly` and `EnabledWhenSynced` that nothing under way survives the
connection its id belongs to, whatever becomes of a stream and also for a page that got
no id.  `StraysAfterLostPress` marks how far the code
goes: a Point or Cancel does hit a finished object, or throws, once a press
outlived its tool or its connection (`pressLost`), which the run reaches.
No liveness is claimed for a page that connects: a stream may fail, and
`RequestsServed` shows that it may stand still.

In `PaperPanZoom`, `Anchored` is an action property about what users notice first:
the place under the fingers does not slip, at the limits of the zoom and with a
fling or a wheel in between.  `ViewInLimits` holds except on pages where a pan
went on that had never begun (`unstarted`): those show a view of NaN.
`FrameRequested` and `FlingEnds` are about frames that request each other.

In `PaperFile`, `SyncedWithAll` says at the very step that sends StreamSynced that
the client has what file, buffers and builder hold, and nothing twice.
`StoredInOrder` is about the file itself, `SyncedReadable` that nobody works on a
paper that others cannot read.  Both exemptions are needed, and TLC refutes the
properties without them: `overlapped` (a paper was opened while the last one had
not closed) and `wrapped` (the file is longer than its length can tell).

**Bounds.**  Two clients are enough for every race between a client that joins
and one that draws, and for a session of each kind in a frame; the io thread and
the update thread are there once, as in the code.  Up to three inputs
(`MaxEvents`) let one draw be in the file, one in the storage builder and one in
both builders at the same time.  The file starts with one block, with a block
and a corrupt one, or empty, so a stream has a beginning, a middle and an end.
`MaxClientId` of 1 with two clients makes the ids run out.  `MaxErrors` bounds
refused commands.  `MaxRejoins` of 3 in `PaperLocks` lets a client leave and come
back.  In `PaperView` three inputs
(`MaxInputs` counts the old objects too, and a drag once) let each page draw
before one of them undoes, with the frames in any order; the two old objects were
drawn under id 1, so that the first page can undo, redo and undo again without
drawing.  `MaxLoads` of 2 lets both pages load, or one load, close and load
again.  In `PaperPage` two ids let a page that reconnects get another id while the
server still has its ghost, its own again after that, or one that somebody else
drew under; two classes tell
a class from the Polyline a page begins with; `MaxPending` of 2 lets a cancel
and a class wait in one message, with as many sent and not yet handled.  In
`PaperPanZoom` two directions share a zoom of two units; a paper of extent 1 or 2
can shrink below the view.  `MaxVelocity` bounds what flings add up to.
In `PaperFile` three papers give one that closes, one open and one to come; four
draws, each in a block of its own, fill a file whose length wraps at 4 (`Width`),
and fewer leave it readable.  `deferred` and the request queue need no bound: both
are bounded by what is sent.

**View.**  `PaperSync` and `PaperLeave` use `VIEW View`, which reduces what a
client was sent to the stored draws, the cursors, the marks of the stream and
the first frame, and leaves out `notified`, which only the fairness of the io
thread reads.  Actions read the wire only to see whether a client was told
its id since the last StreamStart, and the invariants of these runs depend on
nothing else of it.  Clients are
interchangeable in them (`SYMMETRY Clients`).  Runs with temporal properties use
neither.  The view of `PaperView` shows of a screen what it will be after its next
animation frame, and nothing of one that went astray: the invariants look at
screens only when no draw is requested, and nothing else reads them.

**Fairness.**  In `MsgSession` and `PaperServer` each thread that can go on does
so (weak fairness of each thread): the event loop runs what is deferred to it, a
client that stays connected reads its socket, the update thread wakes by time and goes through its frame (each member is
passed once, so a frame has an end), and the io thread's wait ends by its deadline.  That a notification is served is not assumed: the deadline may
come first each time.  Nobody has to draw, join or leave.  In `PaperLocks` fairness is
strong, since a thread that asks for a mutex finds it free again and again but
not continuously; this is what a mutex that does not starve gives.  `EventuallyDrawn` and
`EventuallySaved` except a process that crashed (`StreamCrash`).
`PaperPage` has fairness for `TriesToReconnect` only: that the browser calls
the handlers of what has come, never that the server or the user does anything or that
a connection breaks or lasts.  `PaperPanZoom` assumes that the browser gives the
animation frames it is asked for, and `FlingEnds` lets users fling for ever.
`PaperFile` has no liveness.

**Deadlock.**  TLC checks it in `PaperSync` and `RequestsServed`, where the io
thread can always go on, in `PaperPanZoom` and in `PaperFile`.  It is off where the system may
stop: `MsgSession` (every client may disconnect for good), `PaperLeave` and
`PaperSlow` (the process may crash), `PaperView` (its bounds on inputs and loads
end a behaviour), `PaperPage` and `TriesToReconnect` (a page that lost its second
connection), `PaperLocks` and `NoDeadlock` (the deadlocks are what the
properties are about).

**Mutants.**  A definition whose comment starts with "Mutant:" is a wrong
version of the one below it, with a plausible bug of the code.  `PROJECT.json`
pairs each property of a passing run with a mutant that breaks it.  The
specifications do not use them.

## 5. Theorems

All are proved for any sets of sessions, any number of ids and any bounds.  The
assumptions are those the modules declare: the client sets are subsets of the
sessions, pages are a finite set with at least one, the highest id, the objects of
earlier days and the bounds are natural numbers, the initial papers
are sequences of blocks in which each stored draw is once and in order, ids are
positive, the zoom's limits are positive with the first zoom between them, times
between frames are positive, and NaN, `Torn` and the like are no value of the sets they are told apart from.

**MsgSessionProofs.**  `TypeCorrect`; `QueueNotStuck`, which is inductive by
itself once the types are known: an enqueue onto an empty queue adds a callback,
one onto a queue that is not empty relies on the invariant, and `send_queue`
leaves messages behind only when the socket buffers.  `QueueImplementsChannel`:
accepted messages are wire and queue together, which no `send_queue` changes.
The steps are lemmas of `MsgQueueProofs` about the queue's operations, used again
for `PaperServer`.

**PaperLocksProofs.**  `Ownership` says exactly which mutexes a thread holds
where it stands; it is inductive since every action takes what is free and
releases what it held.  `LocksInOrder` follows by comparing what a thread holds
with what it waits for at each label.  `DeadlockOnlyInClosed`: in a set of threads
that wait for each other without a `closed`, each waits for a mutex held by one that
waits for a higher one; ranks are bounded by 4, so there is no such set.

**PaperServerProofs.**  `TypeCorrect` needs three more facts, proved with it:
`JoinOK` (one session at a time is in `join`, and its id is free there),
`MembersOK` (members and joining sessions have a paper) and `ServingOK` (while
the io thread serves, its queue is not empty).  `IdsUnique` follows: an id
becomes a member's only in `JoinEnd`, where it is free.  `StreamsContinue` is
proved with `NotStuck` of the queue: a session that is streaming loses its
request only to a step that gives it something to send, and a queue that has something
to send goes through `queue_low`, which requests again.

The seam between stream and frames is one induction over these.  It
carries `StreamingOK` (the io thread streams
to a session that is streaming), `ConnectedOK` (members are connected),
`FramesOK` (a client that got a frame is a live member), `SyncsOK` (a client that
began with StreamStart has been a member since, and while it streams it has the
blocks of the file up to its offset), and the properties themselves.
`StreamBeforeFrames` comes from `FramesOK` and `StreamingOK`: what is streamed goes
to a client that had no frame.  `NothingMissed` takes all of them: the last block
of a stream is the storage builder, which with the blocks of `SyncsOK` makes up all
that is stored, and from then on each draw goes into the broadcast builder of a
paper the client is a live member of.  `StoredInOnePlace` needs besides itself only
that file and storage builder hold stored draws and nothing else (`OnlyStored`).

`DrawnInOrder` (of `OnlyRepeatsOutOfOrder`) adds `OrdersOK`: a client without a
frame was sent the draws of the first blocks of the file, at least as many as its
offset says, and a draw in the broadcast builder is one that a client with frames
was sent before or comes after all of those (`Fits`).  So a block that is streamed
continues them, and a frame repeats or continues them.  `BroadcastOK` keeps that
builder in order, through the race in `join` as well.  `LastPositionSent` (of
`LastCursorSent`): positions travel in frames only, so a client that was sent one is
live (`CursorsOK`).  A position that was written last is followed by the flag, so a
flag that is down was lowered after that, and the position read after it was lowered:
that frame has the position (`HeldOK`, of a frame that still collects) and brings it to
whoever is live; a handler that runs after the frame read puts the flag up again.

**PaperPageProofs.**  `Phase` is the course of a connection: joining, loading,
loaded, drawing or gone, with what can be on its way in each, and under which
id.  `DrawsWhenSynced` and `OwnEventsOnly` follow.  The other three follow from
`EchoInv`, which speaks of what is still to come: `Fit` says that the events on
their way, handled in turn from where the other page stands, end with the class
and the open drag of this page's echo, draw each object in the class in effect
before it, and let no Point or Cancel stray unless a press was lost.  Adding an
event with its echo, and handling the first of them, keep `Fit`; a temporary
object elsewhere belongs to a ghost or to the page that is drawing.  For a page
under id 0 there is nothing to keep: what it draws goes nowhere.

**PaperPanZoomProofs.**  `TypeCorrect` carries NaN through every formula.
`ViewStaysInLimits` needs `Started`: start values are set together, so once a pan
or a pinch began they are numbers.  `FrameIsRequested` is inductive by itself.
`StaysAnchored` is the algebra of `relZoomPan` at the unit that was set, not the
one that was asked for.

**PaperFileProofs.**  `Inv` adds to the types `HasPaper` (who streams or is synced
has a paper) and `Readable`: while the length fits, a stream has failed only over
a torn block, no synced client has a file with one, and a client that streams has
not passed one.  `SyncedCanRead` follows, over any number of crashes.  `FileInOrder`
and `SyncedHasAll` follow from `StoreInv`: a draw is in the file or held by one paper,
in its buffer or its storage builder, once (`Once`); only the paper of
`shared_sessions` is alive, and nothing but living and closing papers have a buffer
(`Writers`), so unless papers overlapped what they hold comes after the file
(`InOrder`); a client has what the file has before its offset (`Got`); and the list of
`store_all` is empty when the next is made (`NoList`).

**PaperViewProofs.**  `TypeCorrect`, with the free id that a loading page finds: a
page that is not live leaves one, by counting.  `OwnInputHandled` follows from
`DragInv`: who drags has a current action under its id, and of the events that
come with a frame none is handled under that id.  `UndoneAndRedone` takes
`PaperInv`.  `QueueInv` says that no object is on its way twice: those stored,
sent and dragged are all different.  `StackInv` says that on a page that did not go
astray the stack is in turn (`InTurn`) and has only elements that the page was
sent (`Known`).  In turn means that an element begins with its object and that its
undos and redos alternate, by one client, which between two of them took back as
many actions as it brought back.  In such a stack the search of `addUndo` ends at
the last step of its element (`UndoneIsLast`): were there an undo of it further up,
the search, which counts from the top, would have found a place above that one
(`FoundAbove`).

`SavedIsShown` is the theorem of `ShowsSaved`, from `ShownInv`.  Its first half,
`AgreeInv`, is about stacks.  Two stacks are alike for a client (`Alike`) when its
increments stand in the same order in both, however they mix with those of
others; the searches of `addUndo` and `addRedo` look at one client's increments
only, so they find the same element in both.  A page and the server agree
(`Agree`) when what the page sent and the server has not handled makes of the
paper what the page has of its own, and what the next frame brings makes of the
page what the paper has of the others, through stacks that are alike (`Becomes`).
Each action keeps this, and when nothing is left on its way the stacks are alike
for every client, hence show the same (`ShownAlike`: all steps of one element are
one client's).  The second half is about screens.  `ScreenInv`: what a page shows
after its next animation frame is what its stack shows and the temporary object of
every client that it takes to be dragging.  `TmpInv`: a client that is dragging on
some page, or will be after what is on its way (`DragsAfter`), is dragging on its
own page, or its Cleanup is due.  `RequestInv`: what is not drawn will be.  The
theorem asks for a paper with something on it (`OldObjects >= 1`), and without
that `ShowsSaved` is false: the search stops before the bottom of the stack, so on
an empty paper nobody can undo what stands there on its page, and two users who
draw at the same time do not have the same object there (the hazard at
`paperDraw.js:87`).  TLC shows that with two pages and three inputs.

Recursive definitions over sequences (`DrawsIn` of `PaperFile`, `HandleAll` of
`PaperView`) are recursive functions.  That they have a value, and what it keeps, is
proved by the least number for which it fails, from the well-foundedness of
the natural numbers.

Model-checked only: everything temporal under fairness (`AllSent`,
`EventuallySaved`, `EventuallyDrawn`, `FramesFinish`, `FlingEnds`),
which is beyond the prover.


## 6. Not modelled

- Presence: `ClientJoined` and `ClientLeft` on the page, cursors of others, and
  colours.  The server's side of them is in `PaperServer`.
- The user interface (controlUI.js, paper.js, index.js, markup): calls into the
  page without state that the paper depends on.
- A disk that is full or fails, and files that a loss of power changes in
  another way than by cutting them off.
- The contents of a flatbuffer: points, coordinates and attributes are payload.
- TLS, static files, the redirect server, configuration, logging: input and
  output without state of their own that the paper depends on.
- The pages under `wwwdir/old` and `wwwdir/test`, which speak another protocol or
  are demos; nothing of them runs with this server.
