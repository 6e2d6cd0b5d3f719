-------------------------- MODULE PaperLocksProofs --------------------------
(***************************************************************************)
(* For any number of websocket threads: the mutexes are taken in one order *)
(* except by closed(), and a deadlock always has a closed() in it.         *)
(*                                                                         *)
(* Both rest on Ownership, which says what a thread holds from where it    *)
(* stands: LockOrder alone is not inductive, since it does not tell which  *)
(* mutexes a thread brings along to its next wait.                         *)
(***************************************************************************)
EXTENDS PaperLocks, TLAPS

HeldIn(t, label) ==
  {l \in Locks :
     \/ l = G /\ t = Update /\ label # "idle"
     \/ l = S /\ (label = "start" \/ (t = Update /\ label \in {"B", "send"}))
     \/ l = B /\ label \in {"send", "synced"}
     \/ l = N /\ label \in {"serve", "block", "end", "synced"}
     \/ label \in {"close", "left", "cleanup"} /\ \E s \in Sessions : t = Ws(s) /\ l = M(s)}

HeldAt(t) == HeldIn(t, pc[t])

Ownership == \A t \in Threads, l \in Locks : owner[l] = t <=> l \in HeldAt(t)

----------------------------------------------------------------------------
\* The threads are all different.
LEMMA Distinct ==
  /\ Update \in Threads /\ Io \in Threads /\ Update # Io
  /\ None \notin Threads
  /\ \A s \in Sessions : Ws(s) \in Threads /\ Ws(s) # Update /\ Ws(s) # Io
  /\ \A s, u \in Sessions : Ws(s) = Ws(u) => s = u
  /\ \A t \in Threads : t = Update \/ t = Io \/ \E s \in Sessions : t = Ws(s)
BY DEF Threads, Update, Io, Ws, None

\* So are the mutexes.
LEMMA DistinctLocks ==
  /\ G \in Locks /\ S \in Locks /\ B \in Locks /\ N \in Locks
  /\ G # S /\ G # B /\ G # N /\ S # B /\ S # N /\ B # N
  /\ \A s \in Sessions : M(s) \in Locks /\ M(s) # G /\ M(s) # S /\ M(s) # B /\ M(s) # N
  /\ \A s, u \in Sessions : M(s) = M(u) => s = u
  /\ \A l \in Locks : l \in {G, S, B, N} \/ \E s \in Sessions : l = M(s)
BY DEF Locks, G, S, B, N, M

\* Where each kind of thread can stand.
LEMMA LabelSets ==
  /\ Labels[Update.thread] = {"idle", "S", "B", "send"}
  /\ Labels[Io.thread] = {"idle", "serve", "block", "end", "synced", "store", "list"}
  /\ \A s \in Sessions : Labels[Ws(s).thread] =
       {"idle", "get", "S", "start", "N", "B", "M", "close", "left", "cleanup"}
BY DEF Labels, Update, Io, Ws

\* What TypeOK says of pc, thread by thread.
LEMMA ThreadLabels ==
  ASSUME TypeOK
  PROVE  /\ pc[Update] \in {"idle", "S", "B", "send"}
         /\ pc[Io] \in {"idle", "serve", "block", "end", "synced", "store", "list"}
         /\ \A s \in Sessions : pc[Ws(s)] \in
              {"idle", "get", "S", "start", "N", "B", "M", "close", "left", "cleanup"}
BY LabelSets, Distinct DEF TypeOK

\* A jump of one thread to one of its labels keeps pc well typed.
LEMMA GotoType ==
  ASSUME TypeOK, NEW t \in Threads, NEW label \in Labels[t.thread], Goto(t, label)
  PROVE  /\ pc' \in [Threads -> UNION {Labels[k] : k \in DOMAIN Labels}]
         /\ \A u \in Threads : pc'[u] \in Labels[u.thread]
<1>1. t.thread \in DOMAIN Labels
  BY DEF Threads, Update, Io, Ws, Labels
<1>2. label \in UNION {Labels[k] : k \in DOMAIN Labels}
  BY <1>1
<1> QED
  BY <1>2 DEF TypeOK, Goto

(***************************************************************************)
(* Type correctness, for any number of sessions and joins.                 *)
(***************************************************************************)
THEOREM TypeCorrect == Spec => []TypeOK
<1>1. Init => TypeOK
  <2> SUFFICES ASSUME Init PROVE TypeOK
    OBVIOUS
  <2>1. \A t \in Threads : "idle" \in Labels[t.thread]
    BY LabelSets, Distinct
  <2>2. "idle" \in UNION {Labels[k] : k \in DOMAIN Labels}
    BY DEF Labels
  <2> QED
    BY <2>1, <2>2 DEF Init, TypeOK
<1>2. TypeOK /\ [Next]_vars => TypeOK'
  <2> SUFFICES ASSUME TypeOK, [Next]_vars PROVE TypeOK'
    OBVIOUS
  <2> DEFINE OwnersOK == owner \in [Locks -> Threads \union {None}]
             LabelsOK == /\ pc \in [Threads -> UNION {Labels[k] : k \in DOMAIN Labels}]
                         /\ \A t \in Threads : pc[t] \in Labels[t.thread]
  <2> USE Distinct, DistinctLocks, LabelSets
  <2>1. ASSUME UpdateStep PROVE TypeOK'
    <3>1. LabelsOK'
      BY <2>1, GotoType DEF UpdateStep, UpdateStart, FrameSessions, FrameBuilder, FrameSend,
                            FrameEnd, TypeOK
    <3>2. OwnersOK'
      BY <2>1 DEF UpdateStep, UpdateStart, FrameSessions, FrameBuilder, FrameSend,
                  FrameEnd, Take, Release, TypeOK
    <3> QED
      BY <2>1, <3>1, <3>2 DEF UpdateStep, UpdateStart, FrameSessions, FrameBuilder, FrameSend,
                              FrameEnd, TypeOK
  <2>2. ASSUME IoStep PROVE TypeOK'
    <3>1. LabelsOK'
      BY <2>2, GotoType DEF IoStep, IoServe, IoStream, IoBlock, IoEnd, IoSynced, IoTimeout,
                            IoStore, IoList
    <3>2. OwnersOK'
      BY <2>2 DEF IoStep, IoServe, IoStream, IoBlock, IoEnd, IoSynced, IoTimeout,
                  IoStore, IoList, Take, Release, TypeOK
    <3> QED
      BY <2>2, <3>1, <3>2 DEF IoStep, IoServe, IoStream, IoBlock, IoEnd, IoSynced, IoTimeout,
                              IoStore, IoList, TypeOK
  <2>3. ASSUME NEW s \in Sessions, WsStep(s) PROVE TypeOK'
    <3>1. LabelsOK'
      <4>1. \E label \in Labels[Ws(s).thread] : Goto(Ws(s), label)
        BY <2>3 DEF WsStep, WsContinue, WsJoin, WsHandle, WsClose, WsGet, WsSessions, WsStart,
                    WsRequest, WsDraw, WsSendQueue, WsLeave, WsLeft, WsCleanup
      <4> QED
        BY <4>1, GotoType
    <3>2. OwnersOK'
      BY <2>3 DEF WsStep, WsContinue, WsJoin, WsHandle, WsClose, WsGet, WsSessions, WsStart,
                  WsRequest, WsDraw, WsSendQueue, WsLeave, WsLeft, WsCleanup,
                  HeldAt, Take, Release, TypeOK
    <3> QED
      BY <2>3, <3>1, <3>2 DEF WsStep, WsContinue, WsJoin, WsHandle, WsClose, WsGet, WsSessions,
                  WsStart, WsRequest, WsDraw, WsSendQueue, WsLeave, WsLeft, WsCleanup, TypeOK
  <2>4. CASE UNCHANGED vars
    BY <2>4 DEF vars, TypeOK
  <2> QED
    BY <2>1, <2>2, <2>3, <2>4 DEF Next
<1> QED
  BY <1>1, <1>2, PTL DEF Spec
----------------------------------------------------------------------------
\* A thread moves alone: what the others hold does not change.
LEMMA OthersKeep ==
  ASSUME TypeOK, NEW t \in Threads, NEW label, Goto(t, label),
         NEW u \in Threads, u # t
  PROVE  HeldAt(u)' = HeldAt(u)
<1> QED
  BY DEF Goto, TypeOK, HeldAt

(***************************************************************************)
(* A thread that only takes free mutexes and releases its own, and goes to *)
(* a label where it should hold what it then does, keeps Ownership.        *)
(***************************************************************************)
LEMMA OwnershipStep ==
  ASSUME TypeOK, Ownership, NEW t \in Threads, NEW label, Goto(t, label),
         \A l \in Locks : owner'[l] = t <=> l \in HeldAt(t)',
         \A l \in Locks : owner'[l] # owner[l]
                          => {owner[l], owner'[l]} \subseteq {t, None}
  PROVE  Ownership'
<1> SUFFICES ASSUME NEW u \in Threads, NEW l \in Locks
             PROVE  (owner'[l] = u <=> l \in HeldAt(u)')
  BY DEF Ownership
<1>1. CASE u = t
  BY <1>1
<1>2. CASE u # t
  <2>1. HeldAt(u)' = HeldAt(u)
    BY <1>2, OthersKeep
  <2>2. owner'[l] = u <=> owner[l] = u
    BY <1>2, Distinct
  <2> QED
    BY <2>1, <2>2 DEF Ownership
<1> QED
  BY <1>1, <1>2

\* What each kind of thread holds, spelled out.
LEMMA HeldByThread ==
  /\ \A label \in Labels[Update.thread] :
       HeldIn(Update, label) = {l \in {G, S, B} :
         \/ l = G /\ label # "idle"
         \/ l = S /\ label \in {"B", "send"}
         \/ l = B /\ label = "send"}
  /\ \A label \in Labels[Io.thread] :
       HeldIn(Io, label) = {l \in {N, B} :
         \/ l = N /\ label \in {"serve", "block", "end", "synced"}
         \/ l = B /\ label = "synced"}
  /\ \A s \in Sessions : \A label \in Labels[Ws(s).thread] :
       HeldIn(Ws(s), label) = {l \in {S, M(s)} :
         \/ l = S /\ label = "start"
         \/ l = M(s) /\ label \in {"close", "left", "cleanup"}}
BY LabelSets, Distinct, DistinctLocks DEF HeldIn

\* Every step of every thread is of that kind.
LEMMA OwnershipInductive == TypeOK /\ TypeOK' /\ Ownership /\ [Next]_vars => Ownership'
<1> SUFFICES ASSUME TypeOK, TypeOK', Ownership, [Next]_vars PROVE Ownership'
  OBVIOUS
<1> USE Distinct, DistinctLocks
<1>1. CASE UpdateStep
  <2>1. \A l \in Locks : owner[l] = Update <=> l \in HeldAt(Update)
    BY DEF Ownership
  <2>2. CASE FrameSend
    BY <2>2 DEF FrameSend, Ownership, HeldAt
  <2>3. CASE ~FrameSend
    <3>1. PICK label : Goto(Update, label)
      BY <1>1, <2>3 DEF UpdateStep, UpdateStart, FrameSessions, FrameBuilder, FrameEnd
    <3>2. \A l \in Locks : owner'[l] = Update <=> l \in HeldAt(Update)'
      BY <1>1, <2>1, <2>3, HeldByThread, LabelSets
         DEF UpdateStep, UpdateStart, FrameSessions, FrameBuilder, FrameEnd,
             HeldAt, Take, Release, Goto, At, Free, TypeOK
    <3>3. \A l \in Locks : owner'[l] # owner[l]
                           => {owner[l], owner'[l]} \subseteq {Update, None}
      BY <1>1, <2>1, <2>3, HeldByThread, LabelSets
         DEF UpdateStep, UpdateStart, FrameSessions, FrameBuilder, FrameEnd,
             HeldAt, Take, Release, At, Free, TypeOK
    <3> QED
      BY <3>1, <3>2, <3>3, OwnershipStep
  <2> QED
    BY <2>2, <2>3
<1>2. CASE IoStep
  <2>1. \A l \in Locks : owner[l] = Io <=> l \in HeldAt(Io)
    BY DEF Ownership
  <2>2. PICK label : Goto(Io, label)
    BY <1>2 DEF IoStep, IoServe, IoStream, IoBlock, IoEnd, IoSynced, IoTimeout, IoStore, IoList
  <2>3. \A l \in Locks : owner'[l] = Io <=> l \in HeldAt(Io)'
    BY <1>2, <2>1, HeldByThread, LabelSets
       DEF IoStep, IoServe, IoStream, IoBlock, IoEnd, IoSynced, IoTimeout, IoStore, IoList,
           HeldAt, Take, Release, Goto, At, Free, TypeOK
  <2>4. \A l \in Locks : owner'[l] # owner[l]
                         => {owner[l], owner'[l]} \subseteq {Io, None}
    BY <1>2, <2>1, HeldByThread, LabelSets
       DEF IoStep, IoServe, IoStream, IoBlock, IoEnd, IoSynced, IoTimeout, IoStore, IoList,
           HeldAt, Take, Release, At, Free, TypeOK
  <2> QED
    BY <2>2, <2>3, <2>4, OwnershipStep
<1>3. ASSUME NEW s \in Sessions, WsStep(s) PROVE Ownership'
  <2>1. \A l \in Locks : owner[l] = Ws(s) <=> l \in HeldAt(Ws(s))
    BY DEF Ownership
  <2>2. PICK label : Goto(Ws(s), label)
    BY <1>3 DEF WsStep, WsContinue, WsJoin, WsHandle, WsClose, WsGet, WsSessions, WsStart,
                WsRequest, WsDraw, WsSendQueue, WsLeave, WsLeft, WsCleanup
  <2>3. \A l \in Locks : owner'[l] = Ws(s) <=> l \in HeldAt(Ws(s))'
    BY <1>3, <2>1, HeldByThread, LabelSets
       DEF WsStep, WsContinue, WsJoin, WsHandle, WsClose, WsGet, WsSessions, WsStart,
           WsRequest, WsDraw, WsSendQueue, WsLeave, WsLeft, WsCleanup,
           HeldAt, Take, Release, Goto, At, Free, TypeOK
  <2>4. \A l \in Locks : owner'[l] # owner[l]
                         => {owner[l], owner'[l]} \subseteq {Ws(s), None}
    BY <1>3, <2>1, HeldByThread, LabelSets
       DEF WsStep, WsContinue, WsJoin, WsHandle, WsClose, WsGet, WsSessions, WsStart,
           WsRequest, WsDraw, WsSendQueue, WsLeave, WsLeft, WsCleanup,
           HeldAt, Take, Release, At, Free, TypeOK
  <2> QED
    BY <2>2, <2>3, <2>4, OwnershipStep
<1>4. CASE UNCHANGED vars
  BY <1>4 DEF vars, Ownership, HeldAt
<1> QED
  BY <1>1, <1>2, <1>3, <1>4 DEF Next

\* Who owns a mutex is where its code says it is.
LEMMA OwnershipHolds == Spec => []Ownership
<1>1. Init => Ownership
  BY Distinct, DistinctLocks DEF Init, Ownership, HeldAt, HeldIn
<1> QED
  BY <1>1, OwnershipInductive, TypeCorrect, PTL DEF Spec

----------------------------------------------------------------------------
\* The ranks, without the record that tells them.
LEMMA Ranks ==
  /\ Rank(G) = 1 /\ Rank(N) = 1 /\ Rank(S) = 2 /\ Rank(B) = 3
  /\ \A s \in Sessions : Rank(M(s)) = 4
BY DEF Rank, G, N, S, B, M

\* What is held and what is wanted at each label is in order.
LEMMA OrderFromOwnership == TypeOK /\ Ownership => LockOrder
<1> SUFFICES ASSUME TypeOK, Ownership, NEW t \in Threads,
                    \A s \in Sessions : t = Ws(s) => ~Closing(s),
                    NEW held \in Held(t), NEW wanted \in Wants(t)
             PROVE  Rank(held) < Rank(wanted)
  BY DEF LockOrder
<1> USE Distinct, DistinctLocks
<1>1. held \in HeldAt(t)
  BY DEF Held, Ownership
<1>2. /\ Rank(G) = 1 /\ Rank(N) = 1 /\ Rank(S) = 2 /\ Rank(B) = 3
      /\ \A s \in Sessions : Rank(M(s)) = 4
  BY Ranks
<1>3. CASE t = Update
  BY <1>1, <1>2, <1>3, HeldByThread, ThreadLabels, LabelSets DEF HeldAt, Wants, At, TypeOK
<1>4. CASE t = Io
  BY <1>1, <1>2, <1>4, HeldByThread, ThreadLabels, LabelSets DEF HeldAt, Wants, At, TypeOK
<1>5. ASSUME NEW s \in Sessions, t = Ws(s) PROVE Rank(held) < Rank(wanted)
  <2>1. held = S /\ pc[Ws(s)] = "start"
    BY <1>1, <1>5, HeldByThread, LabelSets, ThreadLabels DEF HeldAt, Closing
  <2>2. wanted = M(s)
    BY <1>5, <2>1 DEF Wants, At, Ws
  <2> QED
    BY <1>2, <2>1, <2>2
<1> QED
  BY <1>3, <1>4, <1>5

(***************************************************************************)
(* The lock order, for any number of sessions: outside closed() a thread   *)
(* only waits for mutexes that rank above all it holds.                    *)
(***************************************************************************)
THEOREM LocksInOrder == Spec => []LockOrder
BY OrderFromOwnership, OwnershipHolds, TypeCorrect, PTL

(***************************************************************************)
(* Threads that wait for each other in a circle have a closed() among      *)
(* them: without one the ranks of the mutexes would rise around the        *)
(* circle, and there are only four.                                        *)
(***************************************************************************)
THEOREM DeadlockOnlyInClosed == Spec => []DeadlocksNeedClosed
<1>1. LockOrder => DeadlocksNeedClosed
  <2> SUFFICES ASSUME LockOrder, NEW T \in SUBSET Threads, Stuck(T),
                      \A s \in Sessions : ~(Ws(s) \in T /\ Closing(s))
               PROVE  FALSE
    BY DEF DeadlocksNeedClosed
  <2> DEFINE Above(n) == \E t \in T : \E l \in Wants(t) : owner[l] \in T /\ Rank(l) > n
  <2>1. \A t \in T : \E l \in Wants(t) : owner[l] \in T
    BY DEF Stuck, Waits
  <2>2. \A l \in Locks : Rank(l) \in 1..4
    BY Ranks, DistinctLocks
  <2>3. \A t \in Threads : Wants(t) \subseteq Locks
    BY DEF Wants
  <2>4. Above(0)
    BY <2>1, <2>2, <2>3 DEF Stuck
  <2>5. ASSUME NEW n \in 0..4, Above(n) PROVE Above(n + 1)
    <3>1. PICK t \in T : \E l \in Wants(t) : owner[l] \in T /\ Rank(l) > n
      BY <2>5
    <3>2. PICK l \in Wants(t) : owner[l] \in T /\ Rank(l) > n
      BY <3>1
    <3>3. PICK wanted \in Wants(owner[l]) : owner[wanted] \in T
      BY <2>1, <3>2
    <3>4. l \in Held(owner[l])
      BY <2>3, <3>2 DEF Held
    <3>5. Rank(l) < Rank(wanted)
      BY <3>2, <3>3, <3>4 DEF LockOrder
    <3>6. Rank(wanted) > n + 1
      BY <2>2, <2>3, <3>2, <3>3, <3>5
    <3> QED
      BY <3>2, <3>3, <3>6
  <2>6. Above(1) /\ Above(2) /\ Above(3) /\ Above(4)
    <3> HIDE DEF Above
    <3>1. Above(0 + 1)
      BY <2>4, <2>5
    <3>2. Above(1 + 1)
      BY <2>5, <3>1
    <3>3. Above(2 + 1)
      BY <2>5, <3>2
    <3>4. Above(3 + 1)
      BY <2>5, <3>3
    <3> QED
      BY <3>1, <3>2, <3>3, <3>4
  <2> QED
    BY <2>2, <2>3, <2>6
<1> QED
  BY <1>1, LocksInOrder, PTL
=============================================================================
