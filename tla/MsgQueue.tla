------------------------------ MODULE MsgQueue ------------------------------
(***************************************************************************)
(* MsgSession (messages/MsgSession.cpp): one outgoing queue per websocket. *)
(* Any thread enqueues; only the websocket's own thread sends, from a      *)
(* callback deferred to its loop or from uWebSockets' drain event.         *)
(*                                                                         *)
(* The deque is modelled with its sending end first, so push_front here    *)
(* appends and pop_back takes the head.  Every method runs under the       *)
(* session's mutex and is one step, except that send_queue() calls         *)
(* queue_low() after releasing it: pc[s] = "low" is the state in between.  *)
(***************************************************************************)
EXTENDS Naturals, Sequences

CONSTANTS
  Sessions,  \* the websocket connections, each with its MsgSession
  Slow       \* those whose socket can build up backpressure

ASSUME SlowAssumption == Slow \subseteq Sessions

VARIABLES
  ws,         \* ws[s]: the pointer is set, the websocket is open
  msg_queue,  \* msg_queue[s]: messages not yet handed to the socket
  deferred,   \* deferred[s]: send_queue callbacks waiting in the loop
  buffered,   \* buffered[s]: ws->getBufferedAmount() is not zero
  wire,       \* wire[s]: messages handed to ws->send, in order
  pc          \* pc[s]: what the websocket's thread is in the middle of

queueVars == <<ws, msg_queue, deferred, buffered, wire>>
msVars == <<queueVars, pc>>

QueueTypeOK(M) ==
  /\ ws \in [Sessions -> BOOLEAN]
  /\ msg_queue \in [Sessions -> Seq(M)]
  /\ deferred \in [Sessions -> Nat]
  /\ buffered \in [Sessions -> BOOLEAN]
  /\ wire \in [Sessions -> Seq(M)]

QueueInit ==
  /\ ws = [s \in Sessions |-> TRUE]
  /\ msg_queue = [s \in Sessions |-> <<>>]
  /\ deferred = [s \in Sessions |-> 0]
  /\ buffered = [s \in Sessions |-> FALSE]
  /\ wire = [s \in Sessions |-> <<>>]
  /\ pc = [s \in Sessions |-> "idle"]

----------------------------------------------------------------------------
\* enqueue() of q[s] for every s in one step: a frame goes to many sessions.
Taken(q) == [s \in Sessions |-> IF ws[s] THEN msg_queue[s] \o q[s] ELSE msg_queue[s]]

\* Mutant: looks whether the queue is empty after the push.
DeferralsAfterPush(q) == deferred

Deferrals(q) ==
  [s \in Sessions |->
     deferred[s] + IF ws[s] /\ msg_queue[s] = <<>> /\ q[s] # <<>> THEN 1 ELSE 0]

EnqueueAll(q) ==
  /\ msg_queue' = Taken(q)
  /\ deferred' = Deferrals(q)
  /\ UNCHANGED <<ws, buffered, wire>>

EnqueueTo(s, msgs) == EnqueueAll([t \in Sessions |-> IF t = s THEN msgs ELSE <<>>])

\* Mutant: one message per callback, as if the loop were an if.
SendableOne(s, blocked, k, full) ==
  /\ full => s \in Slow
  /\ IF blocked \/ msg_queue[s] = <<>> THEN k = 0 /\ full = blocked ELSE k = 1

(***************************************************************************)
(* The loop of send_queue: pop and send until the queue is empty or the    *)
(* socket holds data back.  k messages go out; full says whether the       *)
(* socket is buffering afterwards.  An emptied queue leads to queue_low(). *)
(***************************************************************************)
Sendable(s, blocked, k, full) ==
  /\ full => s \in Slow
  /\ IF blocked THEN k = 0 /\ full
     ELSE /\ k = 0 => msg_queue[s] = <<>> /\ ~full
          /\ k < Len(msg_queue[s]) => full

\* Mutant: pops at the end where enqueue pushes.
SendNewest(s, k) ==
  LET rest == Len(msg_queue[s]) - k IN
    /\ wire' = [wire EXCEPT ![s] = @ \o SubSeq(msg_queue[s], rest + 1, rest + k)]
    /\ msg_queue' = [msg_queue EXCEPT ![s] = SubSeq(@, 1, rest)]

Send(s, k) ==
  /\ wire' = [wire EXCEPT ![s] = @ \o SubSeq(msg_queue[s], 1, k)]
  /\ msg_queue' = [msg_queue EXCEPT ![s] = SubSeq(@, k + 1, Len(@))]

AfterSend(s, k) == IF k = Len(msg_queue[s]) THEN "low" ELSE "idle"

SendQueue(s, blocked) ==
  \E k \in 0..Len(msg_queue[s]), full \in BOOLEAN :
    /\ Sendable(s, blocked, k, full)
    /\ Send(s, k)
    /\ buffered' = [buffered EXCEPT ![s] = full]
    /\ pc' = [pc EXCEPT ![s] = AfterSend(s, k)]

\* Mutant: counts a callback that was never deferred.
RunDeferredTwice(s) ==
  /\ pc[s] = "idle"
  /\ deferred' = [deferred EXCEPT ![s] = @ - 1]
  /\ IF ws[s] THEN SendQueue(s, buffered[s])
              ELSE UNCHANGED <<msg_queue, buffered, wire, pc>>
  /\ UNCHANGED ws

\* The deferred callback; send_queue returns at once when ws is gone.
RunDeferred(s) ==
  /\ pc[s] = "idle"
  /\ deferred[s] > 0
  /\ deferred' = [deferred EXCEPT ![s] = @ - 1]
  /\ IF ws[s] THEN SendQueue(s, buffered[s])
              ELSE UNCHANGED <<msg_queue, buffered, wire, pc>>
  /\ UNCHANGED ws

\* The drain event, when the client has read everything that was buffered.
Drain(s) ==
  /\ pc[s] = "idle"
  /\ ws[s]
  /\ buffered[s]
  /\ SendQueue(s, FALSE)
  /\ UNCHANGED <<ws, deferred>>

\* ws = nullptr in closed(); the queue stays behind, unsent.
Disconnect(s) ==
  /\ ws[s]
  /\ ws' = [ws EXCEPT ![s] = FALSE]
  /\ UNCHANGED <<msg_queue, deferred, buffered, wire>>

----------------------------------------------------------------------------
(***************************************************************************)
(* A queue is never left behind: while the socket is open, waiting         *)
(* messages have a callback in the loop or a drain event to come.  This is *)
(* what makes it safe that enqueue() defers only on an empty queue.        *)
(***************************************************************************)
NotStuck ==
  \A s \in Sessions :
    ws[s] /\ msg_queue[s] # <<>> => deferred[s] > 0 \/ buffered[s]
=============================================================================
