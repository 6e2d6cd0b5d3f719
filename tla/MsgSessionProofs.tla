-------------------------- MODULE MsgSessionProofs --------------------------
(***************************************************************************)
(* What TLC checks of MsgSession on two connections, proved for any set of *)
(* connections, any messages and any bound: types, that no queue is left   *)
(* behind, and that the queue implements Channel.                          *)
(***************************************************************************)
EXTENDS MsgSession, MsgQueueProofs

----------------------------------------------------------------------------
(***************************************************************************)
(* Type correctness of the queue by itself.                                *)
(***************************************************************************)
THEOREM TypeCorrect == Spec => []TypeOK
<1>1. Init => TypeOK
  BY DEF Init, QueueInit, TypeOK, QueueTypeOK
<1>2. TypeOK /\ [Next]_msVars => TypeOK'
  <2> SUFFICES ASSUME TypeOK, [Next]_msVars PROVE TypeOK'
    OBVIOUS
  <2>1. ASSUME NEW s \in Sessions, NEW m \in Message, Enqueue(s, m) PROVE TypeOK'
    <3>1. <<m>> \in Seq(Message)
      OBVIOUS
    <3> QED
      BY <2>1, <3>1, EnqueueToType DEF Enqueue, TypeOK
  <2>2. ASSUME NEW s \in Sessions, RunDeferred(s) \/ Drain(s) PROVE TypeOK'
    <3>1. QueueTypeOK(Message)'
      BY <2>2, CallbackType DEF TypeOK
    <3>2. pc' \in [Sessions -> {"idle", "low"}]
      BY <2>2 DEF RunDeferred, Drain, SendQueue, AfterSend, TypeOK
    <3> QED
      BY <3>1, <3>2 DEF TypeOK
  <2>3. ASSUME NEW s \in Sessions, QueueLow(s) PROVE TypeOK'
    BY <2>3 DEF QueueLow, queueVars, TypeOK, QueueTypeOK
  <2>4. ASSUME NEW s \in Sessions, Closed(s) PROVE TypeOK'
    BY <2>4 DEF Closed, Disconnect, TypeOK, QueueTypeOK
  <2>5. CASE UNCHANGED msVars
    BY <2>5 DEF msVars, queueVars, TypeOK, QueueTypeOK
  <2> QED
    BY <2>1, <2>2, <2>3, <2>4, <2>5 DEF Next
<1> QED
  BY <1>1, <1>2, PTL DEF Spec

----------------------------------------------------------------------------
(***************************************************************************)
(* No queue is left behind, for any number of connections and messages.    *)
(***************************************************************************)
THEOREM QueueNotStuck == Spec => []NotStuck
<1>1. Init => NotStuck
  BY DEF Init, QueueInit, NotStuck
<1>2. TypeOK /\ NotStuck /\ [Next]_msVars => NotStuck'
  <2> SUFFICES ASSUME TypeOK, NotStuck, [Next]_msVars PROVE NotStuck'
    OBVIOUS
  <2> USE DEF TypeOK
  <2>1. ASSUME NEW s \in Sessions, NEW m \in Message, Enqueue(s, m) PROVE NotStuck'
    <3>1. [t \in Sessions |-> IF t = s THEN <<m>> ELSE <<>>] \in [Sessions -> Seq(Message)]
      OBVIOUS
    <3> QED
      BY <2>1, <3>1, EnqueueNotStuck DEF Enqueue, EnqueueTo
  <2>2. ASSUME NEW s \in Sessions, RunDeferred(s) \/ Drain(s) PROVE NotStuck'
    BY <2>2, CallbackNotStuck
  <2>3. ASSUME NEW s \in Sessions, QueueLow(s) PROVE NotStuck'
    BY <2>3 DEF QueueLow, queueVars, NotStuck
  <2>4. ASSUME NEW s \in Sessions, Closed(s) PROVE NotStuck'
    BY <2>4 DEF Closed, Disconnect, NotStuck, QueueTypeOK
  <2>5. CASE UNCHANGED msVars
    BY <2>5 DEF msVars, queueVars, NotStuck
  <2> QED
    BY <2>1, <2>2, <2>3, <2>4, <2>5 DEF Next
<1> QED
  BY <1>1, <1>2, TypeCorrect, PTL DEF Spec

----------------------------------------------------------------------------
(***************************************************************************)
(* The queue implements Channel: enqueue() is Accept or, once the socket   *)
(* is closed, nothing; a send_queue() that sends something is Deliver.     *)
(***************************************************************************)
THEOREM QueueImplementsChannel == Spec => ImplementsChannel
<1> DEFINE accepted == [s \in Sessions |-> wire[s] \o msg_queue[s]]
           delivered == [s \in Sessions |-> Len(wire[s])]
<1>1. Init => C!Init
  BY DEF Init, QueueInit, C!Init
<1>2. TypeOK /\ [Next]_msVars => [C!Next]_C!channelVars
  <2> SUFFICES ASSUME TypeOK, [Next]_msVars PROVE [C!Next]_C!channelVars
    OBVIOUS
  <2> USE DEF TypeOK, QueueTypeOK
  <2>1. ASSUME NEW s \in Sessions, NEW m \in Message, Enqueue(s, m)
        PROVE  C!Next \/ UNCHANGED C!channelVars
    <3>1. UNCHANGED <<ws, wire>>
      BY <2>1 DEF Enqueue, EnqueueTo, EnqueueAll
    <3>2. CASE ~ws[s]
      <4>1. msg_queue' = msg_queue
        BY <2>1, <3>2 DEF Enqueue, EnqueueTo, EnqueueAll, Taken
      <4> QED
        BY <3>1, <4>1 DEF C!channelVars
    <3>3. CASE ws[s]
      <4>1. msg_queue' = [msg_queue EXCEPT ![s] = @ \o <<m>>]
        BY <2>1, <3>3, ConcatEmptySeq DEF Enqueue, EnqueueTo, EnqueueAll, Taken
      <4>2. wire[s] \o (msg_queue[s] \o <<m>>) = Append(wire[s] \o msg_queue[s], m)
        BY ConcatAppend
      <4>3. accepted' = [accepted EXCEPT ![s] = Append(@, m)]
        BY <3>1, <4>1, <4>2
      <4>4. delivered' = delivered
        BY <3>1
      <4>5. C!Accept(s)
        BY <3>1, <3>3, <4>3, <4>4 DEF C!Accept
      <4> QED
        BY <4>5 DEF C!Next
    <3> QED
      BY <3>2, <3>3
  <2>2. ASSUME NEW s \in Sessions, NEW blocked \in BOOLEAN, ws[s], SendQueue(s, blocked),
               UNCHANGED ws
        PROVE  C!Next \/ UNCHANGED C!channelVars
    <3>1. PICK k \in 0..Len(msg_queue[s]) : Send(s, k)
      BY <2>2 DEF SendQueue
    <3>2. /\ wire'[s] \o msg_queue'[s] = wire[s] \o msg_queue[s]
          /\ Len(wire'[s]) = Len(wire[s]) + k
      BY <3>1, SendSplits
    <3>3. ASSUME NEW t \in Sessions, t # s
          PROVE  wire'[t] = wire[t] /\ msg_queue'[t] = msg_queue[t]
      BY <3>1, <3>3 DEF Send
    <3>4. accepted' = accepted
      BY <3>2, <3>3
    <3>5. delivered' = [delivered EXCEPT ![s] = Len(wire[s]) + k]
      BY <3>2, <3>3
    <3>6. CASE k = 0
      <4>1. delivered' = delivered
        <5>1. \A t \in Sessions : Len(wire'[t]) = Len(wire[t])
          <6>1. Len(wire[s]) \in Nat
            BY LenProperties
          <6>2. Len(wire'[s]) = Len(wire[s])
            BY <3>2, <3>6, <6>1
          <6>3. ASSUME NEW t \in Sessions, t # s PROVE Len(wire'[t]) = Len(wire[t])
            BY <3>3, <6>3, Zenon
          <6> QED
            BY <6>2, <6>3, Zenon
        <5> QED
          BY <5>1
      <4> QED
        BY <2>2, <3>4, <4>1 DEF C!channelVars
    <3>7. CASE k > 0
      <4>1. Len(accepted[s]) = Len(wire[s]) + Len(msg_queue[s])
        BY ConcatProperties
      <4>2. Len(wire[s]) + k \in 1..Len(accepted[s]) /\ Len(wire[s]) + k > delivered[s]
        BY <3>7, <4>1
      <4>3. C!Deliver(s)
        BY <2>2, <3>4, <3>5, <4>2 DEF C!Deliver
      <4> QED
        BY <4>3 DEF C!Next
    <3> QED
      BY <3>6, <3>7
  <2>3. ASSUME NEW s \in Sessions, RunDeferred(s) PROVE C!Next \/ UNCHANGED C!channelVars
    <3>1. CASE ws[s]
      BY <2>2, <2>3, <3>1 DEF RunDeferred
    <3>2. CASE ~ws[s]
      BY <2>3, <3>2 DEF RunDeferred, C!channelVars
    <3> QED
      BY <3>1, <3>2
  <2>4. ASSUME NEW s \in Sessions, Drain(s) PROVE C!Next \/ UNCHANGED C!channelVars
    BY <2>2, <2>4 DEF Drain
  <2>5. ASSUME NEW s \in Sessions, QueueLow(s) PROVE UNCHANGED C!channelVars
    BY <2>5 DEF QueueLow, queueVars, C!channelVars
  <2>6. ASSUME NEW s \in Sessions, Closed(s) PROVE C!Next
    BY <2>6 DEF Closed, Disconnect, C!Close, C!Next
  <2>7. CASE UNCHANGED msVars
    BY <2>7 DEF msVars, queueVars, C!channelVars
  <2> QED
    BY <2>1, <2>3, <2>4, <2>5, <2>6, <2>7 DEF Next
<1> QED
  BY <1>1, <1>2, TypeCorrect, PTL DEF Spec, ImplementsChannel, C!Spec
=============================================================================
