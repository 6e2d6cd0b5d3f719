--------------------------- MODULE MsgQueueProofs ---------------------------
(***************************************************************************)
(* What the operations of MsgQueue do to the queues, for any messages: the *)
(* lemmas that the proofs of MsgSession and of PaperServer rest on.        *)
(***************************************************************************)
EXTENDS MsgQueue, SequenceTheorems, TLAPS

----------------------------------------------------------------------------
(***************************************************************************)
(* The operations on the queue keep its types, whatever the messages are.  *)
(***************************************************************************)
LEMMA EnqueueAllType ==
  ASSUME NEW Msgs, QueueTypeOK(Msgs), NEW q \in [Sessions -> Seq(Msgs)], EnqueueAll(q)
  PROVE  QueueTypeOK(Msgs)'
<1>1. Taken(q) \in [Sessions -> Seq(Msgs)]
  BY DEF QueueTypeOK, Taken
<1>2. Deferrals(q) \in [Sessions -> Nat]
  BY DEF QueueTypeOK, Deferrals
<1> QED
  BY <1>1, <1>2 DEF QueueTypeOK, EnqueueAll

\* The same for one session.
LEMMA EnqueueToType ==
  ASSUME NEW Msgs, QueueTypeOK(Msgs), NEW s \in Sessions, NEW msgs \in Seq(Msgs),
         EnqueueTo(s, msgs)
  PROVE  QueueTypeOK(Msgs)'
<1>1. [t \in Sessions |-> IF t = s THEN msgs ELSE <<>>] \in [Sessions -> Seq(Msgs)]
  OBVIOUS
<1> QED
  BY <1>1, EnqueueAllType DEF EnqueueTo

\* Appending to the second of two sequences appends to the whole.
LEMMA ConcatAppend ==
  ASSUME NEW Msgs, NEW w \in Seq(Msgs), NEW q \in Seq(Msgs), NEW m \in Msgs
  PROVE  w \o (q \o <<m>>) = Append(w \o q, m)
<1>1. <<m>> \in Seq(Msgs) /\ w \o q \in Seq(Msgs)
  BY ConcatProperties
<1>2. w \o (q \o <<m>>) = (w \o q) \o <<m>>
  BY <1>1, ConcatAssociative
<1> QED
  BY <1>1, <1>2, AppendIsConcat

\* Cutting a sequence after k elements and moving the first part over.
LEMMA CutAndMove ==
  ASSUME NEW Msgs
  PROVE  \A w, q \in Seq(Msgs) : \A k \in 0..Len(q) :
           /\ w \o SubSeq(q, 1, k) \in Seq(Msgs)
           /\ SubSeq(q, k + 1, Len(q)) \in Seq(Msgs)
           /\ (w \o SubSeq(q, 1, k)) \o SubSeq(q, k + 1, Len(q)) = w \o q
           /\ Len(w \o SubSeq(q, 1, k)) = Len(w) + k
           /\ Len(SubSeq(q, k + 1, Len(q))) = Len(q) - k
<1> TAKE w, q \in Seq(Msgs)
<1> TAKE k \in 0..Len(q)
<1>1. Len(q) \in Nat /\ \A i \in 1..Len(q) : q[i] \in Msgs
  BY LenProperties, ElementOfSeq
<1>2. SubSeq(q, 1, k) \in Seq(Msgs) /\ Len(SubSeq(q, 1, k)) = k
  <2>1. \A i \in 1..k : q[i] \in Msgs
    BY <1>1
  <2> QED
    BY <1>1, <2>1, SubSeqProperties
<1>3. /\ SubSeq(q, k + 1, Len(q)) \in Seq(Msgs)
      /\ Len(SubSeq(q, k + 1, Len(q))) = Len(q) - k
  <2>1. \A i \in k + 1..Len(q) : q[i] \in Msgs
    BY <1>1
  <2> QED
    BY <1>1, <2>1, SubSeqProperties
<1>4. SubSeq(q, 1, k) \o SubSeq(q, k + 1, Len(q)) = q
  <2>1. 1 \in 1..Len(q) + 1 /\ k \in 1 - 1..Len(q) /\ Len(q) \in k..Len(q)
    BY <1>1
  <2>2. SubSeq(q, 1, k) \o SubSeq(q, k + 1, Len(q)) = SubSeq(q, 1, Len(q))
    BY <2>1, ConcatAdjacentSubSeq
  <2> QED
    BY <2>2, SubSeqFull
<1>5. (w \o SubSeq(q, 1, k)) \o SubSeq(q, k + 1, Len(q)) = w \o q
  <2>1. \A first, rest \in Seq(Msgs) : (w \o first) \o rest = w \o (first \o rest)
    BY ConcatAssociative
  <2>2. SubSeq(q, 1, k) \in Seq(Msgs) /\ SubSeq(q, k + 1, Len(q)) \in Seq(Msgs)
    BY <1>2, <1>3
  <2>3. (w \o SubSeq(q, 1, k)) \o SubSeq(q, k + 1, Len(q))
          = w \o (SubSeq(q, 1, k) \o SubSeq(q, k + 1, Len(q)))
    BY <2>1, <2>2, Zenon
  <2> QED
    BY <1>4, <2>3, Zenon
<1> QED
  BY <1>2, <1>3, <1>5, ConcatProperties

\* What a send of k messages does to the two sequences of a session.
LEMMA SendSplits ==
  ASSUME NEW Msgs, QueueTypeOK(Msgs), NEW s \in Sessions, NEW k \in 0..Len(msg_queue[s]),
         Send(s, k)
  PROVE  /\ wire' \in [Sessions -> Seq(Msgs)]
         /\ msg_queue' \in [Sessions -> Seq(Msgs)]
         /\ wire'[s] \o msg_queue'[s] = wire[s] \o msg_queue[s]
         /\ Len(wire'[s]) = Len(wire[s]) + k
         /\ Len(msg_queue'[s]) = Len(msg_queue[s]) - k
<1>1. msg_queue[s] \in Seq(Msgs) /\ wire[s] \in Seq(Msgs)
  BY DEF QueueTypeOK
<1>2. /\ wire'[s] = wire[s] \o SubSeq(msg_queue[s], 1, k)
      /\ msg_queue'[s] = SubSeq(msg_queue[s], k + 1, Len(msg_queue[s]))
  BY DEF Send, QueueTypeOK
<1>3. /\ wire'[s] \in Seq(Msgs) /\ msg_queue'[s] \in Seq(Msgs)
      /\ wire'[s] \o msg_queue'[s] = wire[s] \o msg_queue[s]
      /\ Len(wire'[s]) = Len(wire[s]) + k
      /\ Len(msg_queue'[s]) = Len(msg_queue[s]) - k
  <2>1. \A w, q \in Seq(Msgs) : \A n \in 0..Len(q) :
          /\ w \o SubSeq(q, 1, n) \in Seq(Msgs)
          /\ SubSeq(q, n + 1, Len(q)) \in Seq(Msgs)
          /\ (w \o SubSeq(q, 1, n)) \o SubSeq(q, n + 1, Len(q)) = w \o q
          /\ Len(w \o SubSeq(q, 1, n)) = Len(w) + n
          /\ Len(SubSeq(q, n + 1, Len(q))) = Len(q) - n
    BY CutAndMove
  <2>2. /\ wire[s] \o SubSeq(msg_queue[s], 1, k) \in Seq(Msgs)
        /\ SubSeq(msg_queue[s], k + 1, Len(msg_queue[s])) \in Seq(Msgs)
        /\ (wire[s] \o SubSeq(msg_queue[s], 1, k))
             \o SubSeq(msg_queue[s], k + 1, Len(msg_queue[s])) = wire[s] \o msg_queue[s]
        /\ Len(wire[s] \o SubSeq(msg_queue[s], 1, k)) = Len(wire[s]) + k
        /\ Len(SubSeq(msg_queue[s], k + 1, Len(msg_queue[s]))) = Len(msg_queue[s]) - k
    BY <1>1, <2>1, Zenon
  <2> QED
    BY <1>2, <2>2, Zenon
<1>4. wire' \in [Sessions -> Seq(Msgs)] /\ msg_queue' \in [Sessions -> Seq(Msgs)]
  BY <1>2, <1>3 DEF Send, QueueTypeOK
<1> QED
  BY <1>3, <1>4

\* Deferred callbacks and drain events keep the types.
LEMMA CallbackType ==
  ASSUME NEW Msgs, QueueTypeOK(Msgs), NEW s \in Sessions, RunDeferred(s) \/ Drain(s)
  PROVE  QueueTypeOK(Msgs)'
<1>1. ASSUME NEW blocked \in BOOLEAN, SendQueue(s, blocked)
      PROVE  /\ wire' \in [Sessions -> Seq(Msgs)]
             /\ msg_queue' \in [Sessions -> Seq(Msgs)]
             /\ buffered' \in [Sessions -> BOOLEAN]
  BY <1>1, SendSplits DEF SendQueue, QueueTypeOK
<1>2. CASE RunDeferred(s)
  <2>1. deferred' \in [Sessions -> Nat]
    BY <1>2 DEF RunDeferred, QueueTypeOK
  <2> QED
    BY <1>1, <1>2, <2>1 DEF RunDeferred, QueueTypeOK
<1>3. CASE Drain(s)
  BY <1>1, <1>3 DEF Drain, QueueTypeOK
<1> QED
  BY <1>2, <1>3

----------------------------------------------------------------------------
(***************************************************************************)
(* The two halves of NotStuck that the code relies on: a call of enqueue() *)
(* finds a callback to come or arranges one, and send_queue() leaves       *)
(* messages behind only to a socket that will drain.                       *)
(***************************************************************************)
LEMMA EnqueueNotStuck ==
  ASSUME NEW Msgs, QueueTypeOK(Msgs), NotStuck, NEW q \in [Sessions -> Seq(Msgs)],
         EnqueueAll(q)
  PROVE  NotStuck'
<1> SUFFICES ASSUME NEW s \in Sessions, ws'[s], msg_queue'[s] # <<>>
             PROVE  deferred'[s] > 0 \/ buffered'[s]
  BY DEF NotStuck
<1>1. ws[s] /\ buffered'[s] = buffered[s]
  BY DEF EnqueueAll
<1>2. msg_queue'[s] = msg_queue[s] \o q[s]
  BY <1>1 DEF EnqueueAll, Taken
<1>3. deferred'[s] = deferred[s] + IF msg_queue[s] = <<>> /\ q[s] # <<>> THEN 1 ELSE 0
  BY <1>1 DEF EnqueueAll, Deferrals
<1>4. deferred[s] \in Nat /\ msg_queue[s] \in Seq(Msgs) /\ q[s] \in Seq(Msgs)
  BY DEF QueueTypeOK
<1>5. CASE msg_queue[s] = <<>>
  <2>1. q[s] # <<>>
    BY <1>2, <1>4, <1>5
  <2> QED
    BY <1>3, <1>4, <1>5, <2>1
<1>6. CASE msg_queue[s] # <<>>
  <2>1. deferred[s] > 0 \/ buffered[s]
    BY <1>1, <1>6 DEF NotStuck
  <2> QED
    BY <1>1, <1>3, <1>4, <1>6, <2>1
<1> QED
  BY <1>5, <1>6

\* The half of send_queue().
LEMMA CallbackNotStuck ==
  ASSUME NEW Msgs, QueueTypeOK(Msgs), NotStuck, NEW s \in Sessions,
         RunDeferred(s) \/ Drain(s)
  PROVE  NotStuck'
<1>1. ASSUME NEW t \in Sessions, t # s
      PROVE  /\ ws'[t] = ws[t] /\ msg_queue'[t] = msg_queue[t]
             /\ deferred'[t] = deferred[t] /\ buffered'[t] = buffered[t]
  BY <1>1 DEF RunDeferred, Drain, SendQueue, Send, QueueTypeOK
<1>2. ASSUME NEW blocked \in BOOLEAN, SendQueue(s, blocked), msg_queue'[s] # <<>>
      PROVE  buffered'[s]
  <2>1. PICK k \in 0..Len(msg_queue[s]), full \in BOOLEAN :
          /\ Sendable(s, blocked, k, full)
          /\ Send(s, k)
          /\ buffered' = [buffered EXCEPT ![s] = full]
    BY <1>2 DEF SendQueue
  <2>2. Len(msg_queue'[s]) = Len(msg_queue[s]) - k /\ msg_queue'[s] \in Seq(Msgs)
    BY <2>1, SendSplits
  <2>3. k < Len(msg_queue[s])
    BY <1>2, <2>2 DEF QueueTypeOK
  <2>4. full
    BY <2>1, <2>3 DEF Sendable
  <2> QED
    BY <2>1, <2>4 DEF QueueTypeOK
<1>3. ws'[s] /\ msg_queue'[s] # <<>> => buffered'[s]
  BY <1>2 DEF RunDeferred, Drain, QueueTypeOK
<1> QED
  BY <1>1, <1>3 DEF NotStuck
=============================================================================
