----------------------------- MODULE PaperLocks -----------------------------
(***************************************************************************)
(* The mutexes of the etherpaint server, for one paper: who holds which    *)
(* and who waits for which.                                                *)
(*                                                                         *)
(*   "G"  SharedSession::shared_sessions_mutex                             *)
(*   "S"  SharedSession::msg_sessions_mutex of the paper                   *)
(*   "B"  SharedSessionPaper::msg_builder_mutex of the paper               *)
(*   "N"  SharedSessionPaper::need_data_sessions_mutex                     *)
(*   M(s) MsgSession::mutex of session s                                   *)
(*                                                                         *)
(* The threads are the update thread, the io thread and a websocket thread *)
(* per session.  A mutex that is taken and released with no other taken    *)
(* meanwhile is one step with the guard that it is free; pc tells where a  *)
(* thread stands, and what it waits for when it cannot go on.  What the    *)
(* threads do with the data is the matter of PaperServer.                  *)
(***************************************************************************)
EXTENDS Naturals, FiniteSets

CONSTANTS
  Sessions,    \* websocket connections, each with a thread of its own
  MaxRejoins   \* bound on the joins of a behaviour

ASSUME MaxRejoinsAssumption == MaxRejoins \in Nat

None == [thread |-> "none"]
Update == [thread |-> "update"]
Io == [thread |-> "io"]
Ws(s) == [thread |-> "ws", session |-> s]
Threads == {Update, Io} \union {Ws(s) : s \in Sessions}

M(s) == <<"M", s>>
Locks == {"G", "S", "B", "N"} \X {"paper"} \union {M(s) : s \in Sessions}
G == <<"G", "paper">>
S == <<"S", "paper">>
B == <<"B", "paper">>
N == <<"N", "paper">>

VARIABLES
  owner,      \* owner[l]: the thread that holds mutex l, or None
  pc,         \* pc[t]: where thread t stands
  members,    \* msg_sessions of the paper
  streaming,  \* the members that are streaming
  pending,    \* members the running send_frame has yet to enqueue to
  target,     \* the session the io thread streams to
  joins       \* joins so far

vars == <<owner, pc, members, streaming, pending, target, joins>>

Labels == [update |-> {"idle", "S", "B", "send"},
           io |-> {"idle", "serve", "block", "end", "synced", "store", "list"},
           ws |-> {"idle", "get", "S", "start", "N", "B", "M", "close", "left", "cleanup"}]

TypeOK ==
  /\ owner \in [Locks -> Threads \union {None}]
  /\ pc \in [Threads -> UNION {Labels[k] : k \in DOMAIN Labels}]
  /\ \A t \in Threads : pc[t] \in Labels[t.thread]
  /\ members \subseteq Sessions
  /\ streaming \subseteq Sessions
  /\ pending \subseteq Sessions
  /\ target \in Sessions
  /\ joins \in Nat

Init ==
  /\ owner = [l \in Locks |-> None]
  /\ pc = [t \in Threads |-> "idle"]
  /\ members = {}
  /\ streaming = {}
  /\ pending = {}
  /\ target \in Sessions
  /\ joins = 0

Free(l) == owner[l] = None
At(t, label) == pc[t] = label
Goto(t, label) == pc' = [pc EXCEPT ![t] = label]
Take(t, l) == Free(l) /\ owner' = [owner EXCEPT ![l] = t]
Release(ls) == owner' = [l \in Locks |-> IF l \in ls THEN None ELSE owner[l]]

----------------------------------------------------------------------------
\* update_thread(): the list of papers, then send_frame() of the paper.
UpdateStart ==
  /\ At(Update, "idle")
  /\ Take(Update, G)
  /\ Goto(Update, "S")
  /\ UNCHANGED <<members, streaming, pending, target, joins>>

FrameSessions ==
  /\ At(Update, "S")
  /\ Take(Update, S)
  /\ Goto(Update, "B")
  /\ UNCHANGED <<members, streaming, pending, target, joins>>

\* With nothing collected no frame is sent.
FrameBuilder ==
  /\ At(Update, "B")
  /\ Take(Update, B)
  /\ pending' \in {{}, members \ streaming}
  /\ Goto(Update, "send")
  /\ UNCHANGED <<members, streaming, target, joins>>

\* enqueue() of the frame to one member, in the order of the set.
FrameSend ==
  /\ At(Update, "send")
  /\ \E s \in pending : Free(M(s)) /\ pending' = pending \ {s}
  /\ UNCHANGED <<owner, pc, members, streaming, target, joins>>

FrameEnd ==
  /\ At(Update, "send")
  /\ pending = {}
  /\ Release({G, S, B})
  /\ Goto(Update, "idle")
  /\ UNCHANGED <<members, streaming, pending, target, joins>>

----------------------------------------------------------------------------
\* The io thread: stream_all() with need_data_sessions_mutex held, ...
IoServe ==
  /\ At(Io, "idle")
  /\ Take(Io, N)
  /\ Goto(Io, "serve")
  /\ UNCHANGED <<members, streaming, pending, target, joins>>

IoStream(s) ==
  /\ At(Io, "serve")
  /\ s \in streaming
  /\ target' = s
  /\ \E label \in {"block", "end"} : Goto(Io, label)
  /\ UNCHANGED <<owner, members, streaming, pending, joins>>

\* ... a block of the file, or the Error for one that is corrupt, ...
IoBlock ==
  /\ At(Io, "block")
  /\ Free(M(target))
  /\ streaming' \in {streaming, streaming \ {target}}
  /\ Goto(Io, "serve")
  /\ UNCHANGED <<owner, members, pending, target, joins>>

\* ... or store() at the end of it, which enqueues with the builder locked;
IoEnd ==
  /\ At(Io, "end")
  /\ Take(Io, B)
  /\ Goto(Io, "synced")
  /\ UNCHANGED <<members, streaming, pending, target, joins>>

\* Mutant: an early return that leaves the builder locked.
IoSyncedLocked ==
  /\ At(Io, "synced")
  /\ Free(M(target))
  /\ streaming' = streaming \ {target}
  /\ Goto(Io, "serve")
  /\ UNCHANGED <<owner, members, pending, target, joins>>

IoSynced ==
  /\ At(Io, "synced")
  /\ Free(M(target))
  /\ streaming' = streaming \ {target}
  /\ Release({B})
  /\ Goto(Io, "serve")
  /\ UNCHANGED <<members, pending, target, joins>>

\* Mutant: goes on to send frames, which is the update thread's part.
IoTimeoutToFrame ==
  /\ At(Io, "serve")
  /\ Release({N})
  /\ Goto(Io, "S")
  /\ UNCHANGED <<members, streaming, pending, target, joins>>

IoTimeout ==
  /\ At(Io, "serve")
  /\ Release({N})
  /\ Goto(Io, "store")
  /\ UNCHANGED <<members, streaming, pending, target, joins>>

\* then store_all(): the builder's mutex, the list's mutex.
\* Mutant: keeps the builder locked while it takes the list's mutex.
IoStoreLocked ==
  /\ At(Io, "store")
  /\ Take(Io, B)
  /\ Goto(Io, "list")
  /\ UNCHANGED <<members, streaming, pending, target, joins>>

IoStore ==
  /\ At(Io, "store")
  /\ Free(B)
  /\ Goto(Io, "list")
  /\ UNCHANGED <<owner, members, streaming, pending, target, joins>>

IoList ==
  /\ At(Io, "list")
  /\ Free(G)
  /\ Goto(Io, "idle")
  /\ UNCHANGED <<owner, members, streaming, pending, target, joins>>

----------------------------------------------------------------------------
\* A websocket thread.  Join: SharedSession::get(), ...
WsJoin(s) ==
  /\ At(Ws(s), "idle")
  /\ s \notin members
  /\ joins < MaxRejoins
  /\ joins' = joins + 1
  /\ Goto(Ws(s), "get")
  /\ UNCHANGED <<owner, members, streaming, pending, target>>

WsGet(s) ==
  /\ At(Ws(s), "get")
  /\ Free(G)
  /\ Goto(Ws(s), "S")
  /\ UNCHANGED <<owner, members, streaming, pending, target, joins>>

\* ... SharedSessionPaper::join(), which enqueues StreamStart, ...
WsSessions(s) ==
  /\ At(Ws(s), "S")
  /\ Take(Ws(s), S)
  /\ Goto(Ws(s), "start")
  /\ UNCHANGED <<members, streaming, pending, target, joins>>

WsStart(s) ==
  /\ At(Ws(s), "start")
  /\ Free(M(s))
  /\ members' = members \union {s}
  /\ streaming' = streaming \union {s}
  /\ Release({S})
  /\ Goto(Ws(s), "N")
  /\ UNCHANGED <<pending, target, joins>>

\* ... and request_data(), which queue_low() calls too.
WsRequest(s) ==
  /\ At(Ws(s), "N")
  /\ Free(N)
  /\ Goto(Ws(s), "idle")
  /\ UNCHANGED <<owner, members, streaming, pending, target, joins>>

\* A draw takes the builder's mutex, send_queue() the session's.
WsHandle(s) ==
  /\ At(Ws(s), "idle")
  /\ \E label \in {"B", "M"} : (label = "B" => s \in members) /\ Goto(Ws(s), label)
  /\ UNCHANGED <<owner, members, streaming, pending, target, joins>>

WsDraw(s) ==
  /\ At(Ws(s), "B")
  /\ Free(B)
  /\ Goto(Ws(s), "idle")
  /\ UNCHANGED <<owner, members, streaming, pending, target, joins>>

WsSendQueue(s) ==
  /\ At(Ws(s), "M")
  /\ Free(M(s))
  /\ Goto(Ws(s), IF s \in streaming THEN "N" ELSE "idle")
  /\ UNCHANGED <<owner, members, streaming, pending, target, joins>>

\* closed() keeps the session's mutex through SharedSession::leave(), the
\* ClientLeft and the addDraw of the Cleanup.  A session that may be
\* streaming leaves as it is; the next connection starts afresh.
WsClose(s) ==
  /\ At(Ws(s), "idle")
  /\ s \in members
  /\ Take(Ws(s), M(s))
  /\ Goto(Ws(s), "close")
  /\ UNCHANGED <<members, streaming, pending, target, joins>>

WsLeave(s) ==
  /\ At(Ws(s), "close")
  /\ Free(S)
  /\ members' = members \ {s}
  /\ Goto(Ws(s), "left")
  /\ UNCHANGED <<owner, streaming, pending, target, joins>>

WsLeft(s) ==
  /\ At(Ws(s), "left")
  /\ Free(B)
  /\ Goto(Ws(s), "cleanup")
  /\ UNCHANGED <<owner, members, streaming, pending, target, joins>>

WsCleanup(s) ==
  /\ At(Ws(s), "cleanup")
  /\ Free(B)
  /\ Release({M(s)})
  /\ streaming' = streaming \ {s}
  /\ Goto(Ws(s), "idle")
  /\ UNCHANGED <<members, pending, target, joins>>

----------------------------------------------------------------------------
UpdateStep == UpdateStart \/ FrameSessions \/ FrameBuilder \/ FrameSend \/ FrameEnd

IoStep ==
  \/ IoServe \/ (\E s \in Sessions : IoStream(s)) \/ IoBlock \/ IoEnd \/ IoSynced
  \/ IoTimeout \/ IoStore \/ IoList

\* What a websocket thread does once it has begun something.
WsContinue(s) ==
  \/ WsGet(s) \/ WsSessions(s) \/ WsStart(s) \/ WsRequest(s) \/ WsDraw(s)
  \/ WsSendQueue(s) \/ WsLeave(s) \/ WsLeft(s) \/ WsCleanup(s)

WsStep(s) == WsJoin(s) \/ WsHandle(s) \/ WsClose(s) \/ WsContinue(s)

Next == UpdateStep \/ IoStep \/ \E s \in Sessions : WsStep(s)

Spec == Init /\ [][Next]_vars

\* A thread that is not waiting for a mutex runs.  Mutexes are handed over
\* at random, so a thread gets one that is free again and again.
Fairness ==
  /\ SF_vars(UpdateStep)
  /\ SF_vars(IoStep)
  /\ \A s \in Sessions : SF_vars(WsContinue(s))

FairSpec == Spec /\ Fairness

----------------------------------------------------------------------------
Closing(s) == pc[Ws(s)] \in {"close", "left", "cleanup"}

\* The mutexes a thread can be waiting for where it stands.
Wants(t) ==
  {l \in Locks :
     \/ l = G /\ (pc[t] \in {"get", "list"} \/ (t = Update /\ At(t, "idle")))
     \/ l = S /\ pc[t] \in {"S", "close"}
     \/ l = B /\ pc[t] \in {"B", "end", "store", "left", "cleanup"}
     \/ l = N /\ (At(t, "N") \/ (t = Io /\ At(t, "idle")))
     \/ At(t, "send") /\ \E s \in pending : l = M(s)
     \/ pc[t] \in {"block", "synced"} /\ l = M(target)
     \/ pc[t] \in {"start", "M"} /\ l = M(t.session)}

Held(t) == {l \in Locks : owner[l] = t}
Rank(l) == [G |-> 1, N |-> 1, S |-> 2, B |-> 3, M |-> 4][l[1]]

(***************************************************************************)
(* The order in which every thread takes its mutexes: the list of papers   *)
(* or the request queue, then the sessions, the builder, a session.  The   *)
(* code follows it everywhere except in closed().                          *)
(***************************************************************************)
LockOrder ==
  \A t \in Threads :
    (\A s \in Sessions : t = Ws(s) => ~Closing(s))
      => \A held \in Held(t), wanted \in Wants(t) : Rank(held) < Rank(wanted)

\* t cannot go on before u does.
Waits(t, u) ==
  /\ \A l \in Wants(t) : ~Free(l)
  /\ \E l \in Wants(t) : owner[l] = u

Stuck(T) == T # {} /\ \A t \in T : \E u \in T : Waits(t, u)

(***************************************************************************)
(* Threads that wait for each other in a circle always have a closed()     *)
(* among them: the rest of the locking cannot deadlock.                    *)
(***************************************************************************)
DeadlocksNeedClosed ==
  \A T \in SUBSET Threads : Stuck(T) => \E s \in Sessions : Ws(s) \in T /\ Closing(s)

(***************************************************************************)
(* A frame that was begun is finished, unless a closed() is in a deadlock. *)
(***************************************************************************)
FramesFinish ==
  ~At(Update, "idle") ~> At(Update, "idle") \/ \E T \in SUBSET Threads : Stuck(T)

\* SharedSessionPaper.cpp:212: the io thread is slow but should not
\* interfere; TODO.txt:4 knows of a deadlock with many sessions at once.
NoDeadlock == \A T \in SUBSET Threads : ~Stuck(T)
==============================================================================
