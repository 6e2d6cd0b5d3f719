----------------------------- MODULE MsgSession -----------------------------
(***************************************************************************)
(* The outgoing queue by itself: messages arrive from any thread at any    *)
(* time, queue_low() is the empty one of the base class, and the client    *)
(* may disconnect whenever its thread is idle.                             *)
(***************************************************************************)
EXTENDS MsgQueue

CONSTANTS
  Message,     \* what can be sent
  MaxMessages  \* bound on the messages accepted per session

ASSUME MaxMessagesAssumption == MaxMessages \in Nat

Init == QueueInit

Enqueue(s, m) ==
  /\ Len(wire[s]) + Len(msg_queue[s]) < MaxMessages
  /\ EnqueueTo(s, <<m>>)
  /\ UNCHANGED pc

\* queue_low() of the base class does nothing.
QueueLow(s) ==
  /\ pc[s] = "low"
  /\ pc' = [pc EXCEPT ![s] = "idle"]
  /\ UNCHANGED queueVars

Closed(s) ==
  /\ pc[s] = "idle"
  /\ Disconnect(s)
  /\ UNCHANGED pc

Next ==
  \E s \in Sessions :
    \/ \E m \in Message : Enqueue(s, m)
    \/ RunDeferred(s)
    \/ Drain(s)
    \/ QueueLow(s)
    \/ Closed(s)

Spec == Init /\ [][Next]_msVars

\* The loop runs what is deferred to it; a client that stays connected reads.
Fairness ==
  \A s \in Sessions :
    WF_msVars(RunDeferred(s)) /\ WF_msVars(Drain(s)) /\ WF_msVars(QueueLow(s))

FairSpec == Spec /\ Fairness

----------------------------------------------------------------------------
\* Types.
TypeOK == QueueTypeOK(Message) /\ pc \in [Sessions -> {"idle", "low"}]

(***************************************************************************)
(* The queue implements Channel: accepted messages are delivered in order  *)
(* and once, through any mix of deferred callbacks and drain events.       *)
(***************************************************************************)
C == INSTANCE Channel WITH
       open <- ws,
       accepted <- [s \in Sessions |-> wire[s] \o msg_queue[s]],
       delivered <- [s \in Sessions |-> Len(wire[s])]

ImplementsChannel == C!Spec

(***************************************************************************)
(* Whatever was accepted goes out, unless the client disconnects first.    *)
(***************************************************************************)
AllSent ==
  \A s \in Sessions : \A n \in 1..MaxMessages :
    Len(wire[s]) + Len(msg_queue[s]) >= n ~> Len(wire[s]) >= n \/ ~ws[s]
==============================================================================
