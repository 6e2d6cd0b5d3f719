---------------------------- MODULE PaperViewProofs ----------------------------
(***************************************************************************)
(* For any pages, bounds and objects of earlier days: a page that loads    *)
(* finds an id, a user's own input never makes a handler throw, every undo *)
(* of a stack hides an object that shows and every redo one that does not, *)
(* and, on a paper with something on it, pages on which nothing is on its  *)
(* way show what the saved paper shows.                                    *)
(*                                                                         *)
(* The second follows from DragInv: who drags works on an action, which no *)
(* event of another client touches.                                        *)
(*                                                                         *)
(* The third follows from PaperInv.  Objects come to a page once           *)
(* (QueueInv: those stored, sent and dragged are all different), so its    *)
(* stack stays in turn (StackInv, InTurn): an element begins with its      *)
(* object and is then taken back and brought back in turn, by its client,  *)
(* which in between brought back as much as it took back.  In such a stack *)
(* the search ends at the last step of an element (UndoneIsLast): had it   *)
(* been taken back above, the search would have stopped before             *)
(* (FoundAbove).                                                           *)
(*                                                                         *)
(* The fourth follows from ShownInv, in two halves.  Stacks (AgreeInv):    *)
(* what a client does on its own page, on the server's paper and on the    *)
(* pages of the others differs only in how it mixes with what others do    *)
(* (Alike); each search finds the same for it in all of them, so when      *)
(* everything has arrived they show the same (ShownAlike).  Screens: what  *)
(* a page shows after its next frame is its stack and the temporary objects*)
(* of those that it takes to be dragging (ScreenInv); whoever drags on a   *)
(* page is dragging, or what ends it is on its way (TmpInv); and a frame is*)
(* requested for all that is not drawn (RequestInv).                       *)
(***************************************************************************)
EXTENDS PaperView, SequenceTheorems, FiniteSetTheorems, NaturalsInduction,
        WellFoundedInduction, TLAPS

Actions == [el : Nat, tmp : BOOLEAN]

PageView ==
  [increments : Seq(Increment), drawn : Nat, tmpActions : Seq([shows : BOOLEAN, el : Nat]),
   currentAction : [ClientId -> Actions], shown : SUBSET Nat,
   drawRequested : BOOLEAN, failed : BOOLEAN, astray : BOOLEAN]

Views == {v \in PageView : v.drawn <= Len(v.increments)}

----------------------------------------------------------------------------
LEMMA LeastNumber ==
  ASSUME NEW T \in SUBSET Nat, T # {}
  PROVE  \E i \in T : \A j \in T : i <= j
<1>1. IsWellFoundedOn(OpToRel(<, Nat), Nat)
  BY NatLessThanWellFounded
<1>2. \E i \in T : \A j \in T : ~ (<<j, i>> \in OpToRel(<, Nat))
  BY <1>1, WFMin, Zenon
<1>3. \A i, j \in Nat : <<j, i>> \in OpToRel(<, Nat) <=> j < i
  BY DEF OpToRel
<1>4. \E i \in T : \A j \in T : ~ (j < i)
  BY <1>2, <1>3, Zenon
<1> QED
  BY <1>4

\* So places in a stack have a last one.
LEMMA LastPlace ==
  ASSUME NEW n \in Nat, NEW S \in SUBSET (1..n), S # {}
  PROVE  Max(S) \in S /\ \A i \in S : i <= Max(S)
<1> DEFINE T == {k \in Nat : n - k \in S}
<1>1. T \in SUBSET Nat /\ T # {}
  <2>1. PICK i \in S : TRUE
    OBVIOUS
  <2>2. n - i \in Nat /\ n - (n - i) = i
    BY <2>1
  <2> QED
    BY <2>1, <2>2
<1>2. PICK k \in T : \A l \in T : k <= l
  <2> HIDE DEF T
  <2> QED
    BY <1>1, LeastNumber
<1>3. n - k \in S
  BY <1>2
<1>4. ASSUME NEW i \in S PROVE n - k >= i
  <2>1. n - i \in Nat /\ n - (n - i) = i
    OBVIOUS
  <2>2. n - i \in T
    BY <2>1
  <2> QED
    BY <1>2, <2>2
<1>5. \E m \in S : \A i \in S : m >= i
  BY <1>3, <1>4
<1> HIDE DEF T
<1>6. Max(S) \in S /\ \A i \in S : Max(S) >= i
  BY <1>5 DEF Max
<1> QED
  BY <1>6

----------------------------------------------------------------------------
(***************************************************************************)
(* The recursion of HandleAll has a value, whatever a handler makes of a   *)
(* view: by induction on the number of events.                             *)
(***************************************************************************)
AfterEvent(u, own, e) == IF e.id = own THEN u ELSE Handle(u, e)

Counts(g, v, own, evs, m) ==
  \A n \in 0..m : g[n] = IF n = 0 THEN v ELSE AfterEvent(g[n - 1], own, evs[n])

LEMMA CountsSome ==
  ASSUME NEW v, NEW own, NEW evs, NEW m \in Nat
  PROVE  \E g : Counts(g, v, own, evs, m)
<1> DEFINE Some(n) == \E g : Counts(g, v, own, evs, n)
           T == {n \in Nat : ~Some(n)}
<1> HIDE DEF Some
<1> SUFFICES ASSUME T # {} PROVE FALSE
  BY DEF Some
<1>1. PICK n \in T : \A k \in T : n <= k
  <2>1. T \in SUBSET Nat /\ T # {}
    OBVIOUS
  <2> HIDE DEF T
  <2> QED
    BY <2>1, LeastNumber
<1>2. n \in Nat /\ ~Some(n)
  OBVIOUS
<1>3. CASE n = 0
  <2>1. Counts([k \in {0} |-> v], v, own, evs, 0)
    BY DEF Counts
  <2> QED
    BY <1>2, <1>3, <2>1 DEF Some
<1>4. CASE n # 0
  <2>1. n - 1 \in Nat /\ n - 1 \notin T
    BY <1>1, <1>2, <1>4
  <2>2. PICK g : Counts(g, v, own, evs, n - 1)
    BY <2>1 DEF Some
  <2> DEFINE h == [k \in 0..n |-> IF k = n THEN AfterEvent(g[n - 1], own, evs[n]) ELSE g[k]]
  <2>3. h[n] = AfterEvent(g[n - 1], own, evs[n]) /\ \A k \in 0..n - 1 : h[k] = g[k]
    BY <1>2, <1>4
  <2> HIDE DEF h
  <2>4. ASSUME NEW k \in 0..n
        PROVE  h[k] = IF k = 0 THEN v ELSE AfterEvent(h[k - 1], own, evs[k])
    <3>1. CASE k = n
      <4>1. h[n - 1] = g[n - 1]
        BY <1>2, <1>4, <2>3
      <4> QED
        BY <1>4, <2>3, <3>1, <4>1
    <3>2. CASE k # n
      <4>1. k \in 0..n - 1
        BY <1>2, <3>2
      <4>2. g[k] = IF k = 0 THEN v ELSE AfterEvent(g[k - 1], own, evs[k])
        BY <2>2, <4>1 DEF Counts
      <4>3. h[k] = g[k] /\ (k # 0 => h[k - 1] = g[k - 1])
        BY <1>2, <2>3, <4>1
      <4> QED
        BY <4>2, <4>3
    <3> QED
      BY <3>1, <3>2
  <2>5. Counts(h, v, own, evs, n)
    BY <2>4 DEF Counts
  <2> QED
    BY <1>2, <2>5 DEF Some
<1> QED
  BY <1>3, <1>4

LEMMA UpToCounts ==
  ASSUME NEW v, NEW own, NEW evs, Len(evs) \in Nat
  PROVE  Counts(HandleUpTo(v, own, evs), v, own, evs, Len(evs))
<1> DEFINE Body(f) == [n \in 0..Len(evs) |->
                         IF n = 0 THEN v
                         ELSE IF evs[n].id = own THEN f[n - 1] ELSE Handle(f[n - 1], evs[n])]
           d == HandleUpTo(v, own, evs)
<1>1. d = CHOOSE f : f = Body(f)
  BY DEF HandleUpTo
<1>2. PICK g : Counts(g, v, own, evs, Len(evs))
  BY CountsSome
<1> DEFINE h == [n \in 0..Len(evs) |-> g[n]]
<1>3. h = Body(h)
  <2>1. ASSUME NEW n \in 0..Len(evs) PROVE h[n] = Body(h)[n]
    <3>1. g[n] = IF n = 0 THEN v ELSE AfterEvent(g[n - 1], own, evs[n])
      BY <1>2 DEF Counts
    <3>2. n # 0 => n - 1 \in 0..Len(evs)
      OBVIOUS
    <3> QED
      BY <3>1, <3>2 DEF AfterEvent
  <2>2. Body(h) = [n \in 0..Len(evs) |-> Body(h)[n]] /\ h = [n \in 0..Len(evs) |-> h[n]]
    OBVIOUS
  <2> HIDE DEF Body, h
  <2> QED
    BY <2>1, <2>2
<1> HIDE DEF d, h
<1>4. d = Body(d)
  <2> HIDE DEF Body
  <2> QED
    BY <1>1, <1>3
<1>5. \A n \in 0..Len(evs) : Body(d)[n] = IF n = 0 THEN v ELSE AfterEvent(d[n - 1], own, evs[n])
  BY DEF AfterEvent
<1>6. Counts(d, v, own, evs, Len(evs))
  <2> HIDE DEF Body
  <2> QED
    BY <1>4, <1>5 DEF Counts
<1> QED
  BY <1>6 DEF d

(***************************************************************************)
(* S[n] is what a view can be after n events: it holds in the end when     *)
(* every event keeps it.                                                   *)
(***************************************************************************)
LEMMA HandledIn ==
  ASSUME NEW v, NEW own, NEW evs, Len(evs) \in Nat, NEW S, v \in S[0],
         \A n \in 1..Len(evs) : \A u \in S[n - 1] : AfterEvent(u, own, evs[n]) \in S[n]
  PROVE  HandleAll(v, own, evs) \in S[Len(evs)]
<1> DEFINE d == HandleUpTo(v, own, evs)
           T == {n \in 0..Len(evs) : d[n] \notin S[n]}
<1>1. Counts(d, v, own, evs, Len(evs))
  BY UpToCounts
<1> HIDE DEF d
<1>2. T = {}
  <2> SUFFICES ASSUME T # {} PROVE FALSE
    OBVIOUS
  <2>1. PICK n \in T : \A k \in T : n <= k
    <3>1. T \in SUBSET Nat /\ T # {}
      OBVIOUS
    <3> HIDE DEF T
    <3> QED
      BY <3>1, LeastNumber
  <2>2. n \in 0..Len(evs) /\ d[n] \notin S[n]
    OBVIOUS
  <2>3. d[n] = IF n = 0 THEN v ELSE AfterEvent(d[n - 1], own, evs[n])
    BY <1>1, <2>2 DEF Counts
  <2>4. n # 0
    BY <2>2, <2>3
  <2>5. n \in 1..Len(evs) /\ n - 1 \in 0..Len(evs) /\ n - 1 \notin T
    BY <2>1, <2>2, <2>4
  <2>6. d[n - 1] \in S[n - 1]
    BY <2>5
  <2> QED
    BY <2>2, <2>3, <2>4, <2>5, <2>6
<1>3. Len(evs) \in 0..Len(evs) /\ Len(evs) \notin T
  BY <1>2
<1> QED
  BY <1>3 DEF HandleAll, d

----------------------------------------------------------------------------
(***************************************************************************)
(* What one event does to a view.                                          *)
(***************************************************************************)
Throws(v, e) == e.type \in {"Point", "Cancel"} /\ v.currentAction[e.id] = NoAction

Unexpected(v, e) ==
  IF e.type = "Start" THEN v.currentAction[e.id].tmp
  ELSE e.type \in {"Point", "Cancel"} /\ ~v.currentAction[e.id].tmp

Marked(v, e) == [v EXCEPT !.astray = @ \/ Unexpected(v, e), !.failed = Throws(v, e)]

\* The increments that event e of a client adds to a stack.
Added(v, e) ==
  CASE e.type = "Object" -> <<[kind |-> "Object", id |-> e.id, el |-> e.el]>>
    [] e.type = "Undo" /\ Undoable(v, e.id) # {} ->
         <<[kind |-> "Undo", id |-> e.id, el |-> v.increments[Max(Undoable(v, e.id))].el]>>
    [] e.type = "Redo" /\ Redoable(v, e.id) # {} ->
         <<[kind |-> "Redo", id |-> e.id, el |-> v.increments[Max(Redoable(v, e.id))].el]>>
    [] OTHER -> <<>>

LEMMA MarkedFields ==
  ASSUME NEW v \in Views, NEW e \in Event
  PROVE  /\ Marked(v, e) \in Views
         /\ Marked(v, e).increments = v.increments
         /\ Marked(v, e).drawn = v.drawn
         /\ Marked(v, e).tmpActions = v.tmpActions
         /\ Marked(v, e).currentAction = v.currentAction
         /\ Marked(v, e).shown = v.shown
         /\ Marked(v, e).astray = (v.astray \/ Unexpected(v, e))
         /\ Marked(v, e).failed = Throws(v, e)
<1>1. e.id \in ClientId /\ v \in PageView /\ v.currentAction[e.id].tmp \in BOOLEAN
  BY DEF Event, Views, PageView, Actions
<1>2. Unexpected(v, e) \in BOOLEAN /\ Throws(v, e) \in BOOLEAN /\ v.astray \in BOOLEAN
  BY <1>1 DEF Unexpected, Throws, PageView
<1> QED
  BY <1>1, <1>2 DEF Marked, Views, PageView

LEMMA UndoablePlaces ==
  ASSUME NEW v \in Views, NEW cid \in ClientId
  PROVE  /\ v.increments \in Seq(Increment) /\ Len(v.increments) \in Nat
         /\ Undoable(v, cid) \subseteq 1..Len(v.increments)
         /\ Redoable(v, cid) \subseteq 1..Len(v.increments)
         /\ Undoable(v, cid) # {} =>
              Max(Undoable(v, cid)) \in Undoable(v, cid)
         /\ Redoable(v, cid) # {} =>
              Max(Redoable(v, cid)) \in Redoable(v, cid)
<1>1. v.increments \in Seq(Increment) /\ Len(v.increments) \in Nat
  BY DEF Views, PageView
<1>2. Undoable(v, cid) \subseteq 1..Len(v.increments) /\ Redoable(v, cid) \subseteq 1..Len(v.increments)
  BY <1>1 DEF Undoable, Redoable
<1> QED
  BY <1>1, <1>2, LastPlace

LEMMA Pushed ==
  ASSUME NEW v \in Views, NEW kind \in {"Object", "Undo", "Redo"}, NEW cid \in ClientId, NEW el \in Nat
  PROVE  /\ Push(v, kind, cid, el) \in Views
         /\ Push(v, kind, cid, el).increments
              = v.increments \o <<[kind |-> kind, id |-> cid, el |-> el]>>
         /\ Push(v, kind, cid, el).currentAction = v.currentAction
         /\ Push(v, kind, cid, el).astray = v.astray
         /\ Push(v, kind, cid, el).failed = v.failed
<1> DEFINE a == [kind |-> kind, id |-> cid, el |-> el]
<1>1. a \in Increment
  BY DEF Increment
<1> HIDE DEF a
<1>2. v \in PageView /\ v.increments \in Seq(Increment) /\ v.drawn \in Nat /\ v.drawn <= Len(v.increments)
  BY DEF Views, PageView
<1>3. /\ Append(v.increments, a) \in Seq(Increment)
      /\ Append(v.increments, a) = v.increments \o <<a>>
      /\ Len(Append(v.increments, a)) = Len(v.increments) + 1
  BY <1>1, <1>2, AppendIsConcat
<1> DEFINE w == [v EXCEPT !.increments = Append(@, a)]
<1>4. /\ w \in PageView /\ w.increments = Append(v.increments, a) /\ w.drawn = v.drawn
      /\ w.currentAction = v.currentAction /\ w.astray = v.astray /\ w.failed = v.failed
  BY <1>2, <1>3 DEF PageView
<1>5. w = Push(v, kind, cid, el)
  BY DEF Push, a
<1> HIDE DEF w
<1>6. w \in Views
  BY <1>2, <1>3, <1>4 DEF Views
<1> QED
  BY <1>3, <1>4, <1>5, <1>6 DEF a

LEMMA ActionSet ==
  ASSUME NEW v \in Views, NEW cid \in ClientId, NEW a \in Actions
  PROVE  /\ SetAction(v, cid, a) \in Views
         /\ SetAction(v, cid, a).increments = v.increments
         /\ SetAction(v, cid, a).currentAction[cid] = a
         /\ \A i \in ClientId \ {cid} : SetAction(v, cid, a).currentAction[i] = v.currentAction[i]
         /\ SetAction(v, cid, a).astray = v.astray
         /\ SetAction(v, cid, a).failed = v.failed
  BY DEF SetAction, Views, PageView

LEMMA TmpPushed ==
  ASSUME NEW v \in Views, NEW shows \in BOOLEAN, NEW el \in Nat
  PROVE  /\ PushTmp(v, shows, el) \in Views
         /\ PushTmp(v, shows, el).increments = v.increments
         /\ PushTmp(v, shows, el).currentAction = v.currentAction
         /\ PushTmp(v, shows, el).astray = v.astray
         /\ PushTmp(v, shows, el).failed = v.failed
<1> DEFINE a == [shows |-> shows, el |-> el]
<1>1. a \in [shows : BOOLEAN, el : Nat]
  OBVIOUS
<1> HIDE DEF a
<1>2. v \in PageView /\ v.tmpActions \in Seq([shows : BOOLEAN, el : Nat]) /\ v.drawn <= Len(v.increments)
  BY DEF Views, PageView
<1>3. Append(v.tmpActions, a) \in Seq([shows : BOOLEAN, el : Nat])
  BY <1>1, <1>2
<1> DEFINE w == [v EXCEPT !.tmpActions = Append(@, a)]
<1>4. /\ w \in PageView /\ w.increments = v.increments /\ w.drawn = v.drawn
      /\ w.currentAction = v.currentAction /\ w.astray = v.astray /\ w.failed = v.failed
  BY <1>2, <1>3 DEF PageView
<1>5. w = PushTmp(v, shows, el)
  BY DEF PushTmp, a
<1> HIDE DEF w
<1> QED
  BY <1>2, <1>4, <1>5 DEF Views

LEMMA FirstPushed ==
  ASSUME NEW v \in Views, NEW e \in Event, NEW places \in SUBSET (1..Len(v.increments)),
         e.type \in {"Undo", "Redo"},
         places = IF e.type = "Undo" THEN Undoable(v, e.id) ELSE Redoable(v, e.id)
  PROVE  /\ PushFirst(v, e.type, e.id, places) \in Views
         /\ PushFirst(v, e.type, e.id, places).increments = v.increments \o Added(v, e)
         /\ PushFirst(v, e.type, e.id, places).currentAction = v.currentAction
         /\ PushFirst(v, e.type, e.id, places).astray = v.astray
         /\ PushFirst(v, e.type, e.id, places).failed = v.failed
<1>1. e.id \in ClientId /\ v.increments \in Seq(Increment) /\ Len(v.increments) \in Nat
  BY DEF Event, Views, PageView
<1>2. CASE places = {}
  <2>1. Added(v, e) = <<>>
    BY <1>2 DEF Added
  <2> QED
    BY <1>1, <1>2, <2>1, ConcatEmptySeq DEF PushFirst
<1>3. CASE places # {}
  <2>1. Max(places) \in 1..Len(v.increments)
    BY <1>1, <1>3, LastPlace
  <2>2. v.increments[Max(places)].el \in Nat
    <3>1. v.increments[Max(places)] \in Increment
      BY <1>1, <2>1, ElementOfSeq
    <3> QED
      BY <3>1 DEF Increment
  <2>3. Added(v, e) = <<[kind |-> e.type, id |-> e.id, el |-> v.increments[Max(places)].el]>>
    BY <1>3 DEF Added
  <2> DEFINE el == v.increments[Max(places)].el
  <2>4. PushFirst(v, e.type, e.id, places) = Push(v, e.type, e.id, el)
    BY <1>3 DEF PushFirst
  <2> HIDE DEF el
  <2>5. e.type \in {"Object", "Undo", "Redo"} /\ el \in Nat
    BY <2>2 DEF el
  <2> DEFINE u == Push(v, e.type, e.id, el)
  <2>6. /\ u \in Views /\ u.increments = v.increments \o <<[kind |-> e.type, id |-> e.id, el |-> el]>>
        /\ u.currentAction = v.currentAction /\ u.astray = v.astray /\ u.failed = v.failed
    BY <1>1, <2>5, Pushed
  <2>7. Added(v, e) = <<[kind |-> e.type, id |-> e.id, el |-> el]>>
    BY <2>3 DEF el
  <2> HIDE DEF u
  <2> QED
    BY <2>4, <2>6, <2>7 DEF u
<1> QED
  BY <1>2, <1>3

LEMMA SamePlaces ==
  ASSUME NEW v, NEW w, w.increments = v.increments, NEW cid
  PROVE  Undoable(w, cid) = Undoable(v, cid) /\ Redoable(w, cid) = Redoable(v, cid)
  BY DEF Undoable, Redoable, Above

(***************************************************************************)
(* A handler that runs to its end.                                         *)
(***************************************************************************)
LEMMA EventHandled ==
  ASSUME NEW v \in Views, NEW e \in Event, ~v.failed, ~Throws(v, e)
  PROVE  /\ Handle(v, e) \in Views
         /\ Handle(v, e).increments = v.increments \o Added(v, e)
         /\ Handle(v, e).astray = (v.astray \/ Unexpected(v, e))
         /\ ~Handle(v, e).failed
         /\ \A i \in ClientId \ {e.id} : Handle(v, e).currentAction[i] = v.currentAction[i]
         /\ e.type \in {"Start", "Object"} => Handle(v, e).currentAction[e.id].el = e.el
         /\ e.type = "Start" => Handle(v, e).currentAction[e.id].tmp
         /\ e.type \in {"Point", "Undo", "Redo"} => Handle(v, e).currentAction = v.currentAction
<1> DEFINE w == Marked(v, e)
<1>0. /\ e.id \in ClientId /\ e.el \in Nat
      /\ e.type \in {"Start", "Point", "Cancel", "Object", "Undo", "Redo", "Cleanup"}
  BY DEF Event
<1>1. /\ w \in Views /\ w.increments = v.increments /\ w.currentAction = v.currentAction
      /\ w.astray = (v.astray \/ Unexpected(v, e)) /\ ~w.failed
  BY MarkedFields
<1>2. Handle(v, e) =
        CASE e.type = "Start" ->
               SetAction(PushTmp(w, TRUE, e.el), e.id, [el |-> e.el, tmp |-> TRUE])
          [] e.type = "Point" -> w
          [] e.type = "Cancel" -> Cancelled(w, e.id)
          [] e.type = "Object" ->
               SetAction(Push(w, "Object", e.id, e.el), e.id, [el |-> e.el, tmp |-> FALSE])
          [] e.type = "Undo" -> PushFirst(w, "Undo", e.id, Undoable(w, e.id))
          [] e.type = "Redo" -> PushFirst(w, "Redo", e.id, Redoable(w, e.id))
          [] e.type = "Cleanup" ->
               IF v.currentAction[e.id].tmp THEN Cancelled(w, e.id) ELSE w
  BY <1>1 DEF Handle, Marked, Unexpected, Throws
<1>3. w.currentAction[e.id] \in Actions /\ w.currentAction[e.id].el \in Nat /\ NoAction \in Actions
  BY <1>0, <1>1 DEF Views, PageView, Actions, NoAction
<1>4. v.increments \in Seq(Increment) /\ v.increments \o <<>> = v.increments
  BY ConcatEmptySeq DEF Views, PageView
<1> HIDE DEF w
<1>5. /\ Cancelled(w, e.id) \in Views /\ Cancelled(w, e.id).increments = w.increments
      /\ Cancelled(w, e.id).astray = w.astray /\ ~Cancelled(w, e.id).failed
      /\ \A i \in ClientId \ {e.id} : Cancelled(w, e.id).currentAction[i] = w.currentAction[i]
  <2> DEFINE u == PushTmp(w, FALSE, w.currentAction[e.id].el)
  <2>1. /\ u \in Views /\ u.increments = w.increments /\ u.currentAction = w.currentAction
        /\ u.astray = w.astray /\ u.failed = w.failed
    BY <1>1, <1>3, TmpPushed
  <2>2. Cancelled(w, e.id) = SetAction(u, e.id, NoAction)
    BY DEF Cancelled
  <2> DEFINE x == SetAction(u, e.id, NoAction)
  <2> HIDE DEF u
  <2>3. /\ x \in Views /\ x.increments = u.increments
        /\ \A i \in ClientId \ {e.id} : x.currentAction[i] = u.currentAction[i]
        /\ x.astray = u.astray /\ x.failed = u.failed
    BY <1>0, <1>3, <2>1, ActionSet
  <2> HIDE DEF x
  <2> QED
    BY <1>1, <2>1, <2>2, <2>3 DEF x
<1>6. CASE e.type = "Start"
  <2> DEFINE u == PushTmp(w, TRUE, e.el)
             a == [el |-> e.el, tmp |-> TRUE]
  <2>1. /\ u \in Views /\ u.increments = w.increments /\ u.currentAction = w.currentAction
        /\ u.astray = w.astray /\ u.failed = w.failed
    BY <1>0, <1>1, TmpPushed
  <2>2. Handle(v, e) = SetAction(u, e.id, a) /\ Added(v, e) = <<>>
    BY <1>2, <1>6 DEF Added
  <2>3. a \in Actions /\ a.el = e.el /\ a.tmp
    BY <1>0 DEF Actions
  <2> HIDE DEF u, a
  <2> QED
    BY <1>0, <1>1, <1>4, <1>6, <2>1, <2>2, <2>3, ActionSet
<1>7. CASE e.type = "Point"
  <2>1. Handle(v, e) = w /\ Added(v, e) = <<>>
    BY <1>2, <1>7 DEF Added
  <2> QED
    BY <1>1, <1>4, <1>7, <2>1
<1>8. CASE e.type = "Cancel"
  <2>1. Handle(v, e) = Cancelled(w, e.id) /\ Added(v, e) = <<>>
    BY <1>2, <1>8 DEF Added
  <2> QED
    BY <1>1, <1>4, <1>5, <1>8, <2>1
<1>9. CASE e.type = "Object"
  <2> DEFINE u == Push(w, "Object", e.id, e.el)
             a == [el |-> e.el, tmp |-> FALSE]
  <2>1. /\ u \in Views /\ u.increments = w.increments \o <<[kind |-> "Object", id |-> e.id, el |-> e.el]>>
        /\ u.currentAction = w.currentAction /\ u.astray = w.astray /\ u.failed = w.failed
    BY <1>0, <1>1, Pushed
  <2>2. /\ Handle(v, e) = SetAction(u, e.id, a)
        /\ Added(v, e) = <<[kind |-> "Object", id |-> e.id, el |-> e.el]>>
    BY <1>2, <1>9 DEF Added
  <2>3. a \in Actions /\ a.el = e.el
    BY <1>0 DEF Actions
  <2> HIDE DEF u, a
  <2> QED
    BY <1>0, <1>1, <1>4, <1>9, <2>1, <2>2, <2>3, ActionSet
<1>10. CASE e.type \in {"Undo", "Redo"}
  <2> DEFINE places == IF e.type = "Undo" THEN Undoable(w, e.id) ELSE Redoable(w, e.id)
             u == PushFirst(w, e.type, e.id, places)
  <2>1. places \in SUBSET (1..Len(w.increments))
    BY <1>0, <1>1, UndoablePlaces
  <2>2. Handle(v, e) = u
    BY <1>2, <1>10
  <2>3. /\ u \in Views /\ u.increments = w.increments \o Added(w, e)
        /\ u.currentAction = w.currentAction /\ u.astray = w.astray /\ u.failed = w.failed
    BY <1>1, <1>10, <2>1, FirstPushed
  <2>4. Added(w, e) = Added(v, e)
    BY <1>1, SamePlaces DEF Added
  <2> HIDE DEF u
  <2> QED
    BY <1>1, <1>10, <2>2, <2>3, <2>4
<1>11. CASE e.type = "Cleanup"
  <2>1. Handle(v, e) \in {w, Cancelled(w, e.id)} /\ Added(v, e) = <<>>
    BY <1>2, <1>11 DEF Added
  <2> QED
    BY <1>1, <1>4, <1>5, <1>11, <2>1
<1> QED
  BY <1>0, <1>6, <1>7, <1>8, <1>9, <1>10, <1>11

\* A handler that does not: what a view keeps then.
LEMMA EventFailed ==
  ASSUME NEW v \in Views, NEW e \in Event, v.failed \/ Throws(v, e)
  PROVE  /\ Handle(v, e) \in Views
         /\ Handle(v, e).increments = v.increments
         /\ Handle(v, e).currentAction = v.currentAction
         /\ v.astray => Handle(v, e).astray
         /\ Handle(v, e).failed
<1>1. CASE v.failed
  BY <1>1 DEF Handle
<1>2. CASE ~v.failed /\ Throws(v, e)
  <2>1. Handle(v, e) = Marked(v, e)
    <3>1. Marked(v, e).failed
      BY <1>2, MarkedFields
    <3> QED
      BY <1>2, <3>1 DEF Handle, Marked, Unexpected, Throws
  <2> DEFINE w == Marked(v, e)
  <2>2. /\ w \in Views /\ w.increments = v.increments /\ w.currentAction = v.currentAction
        /\ w.astray = (v.astray \/ Unexpected(v, e)) /\ w.failed = Throws(v, e)
    BY MarkedFields
  <2> HIDE DEF w
  <2>3. v.astray => w.astray
    BY <2>2
  <2>4. w.failed
    BY <1>2, <2>2
  <2> QED
    BY <2>1, <2>2, <2>3, <2>4 DEF w
<1> QED
  BY <1>1, <1>2

----------------------------------------------------------------------------
AllEvents == Seq(Event)

LEMMA AfterInViews ==
  ASSUME NEW v \in Views, NEW own, NEW e \in Event
  PROVE  /\ Handle(v, e) \in Views /\ AfterEvent(v, own, e) \in Views
         /\ \A i \in ClientId \ {e.id} : Handle(v, e).currentAction[i] = v.currentAction[i]
         /\ AfterEvent(v, 0, e) = Handle(v, e)
         /\ IsStored(e) /\ ~v.failed => ~Handle(v, e).failed
<1>1. 0 # e.id
  BY DEF Event, ClientId
<1>2. CASE v.failed \/ Throws(v, e)
  <2>1. ~ (IsStored(e) /\ ~v.failed)
    BY <1>2 DEF IsStored, Throws
  <2> QED
    BY <1>1, <1>2, <2>1, EventFailed DEF AfterEvent
<1>3. CASE ~v.failed /\ ~Throws(v, e)
  BY <1>1, <1>3, EventHandled DEF AfterEvent
<1> QED
  BY <1>2, <1>3

\* Messages of no, one and two events.
LEMMA FewHandled ==
  ASSUME NEW v \in Views
  PROVE  /\ HandleAll(v, 0, <<>>) = v
         /\ \A e \in Event : HandleAll(v, 0, <<e>>) = Handle(v, e)
         /\ \A e, f \in Event : HandleAll(v, 0, <<e, f>>) = Handle(Handle(v, e), f)
<1>1. HandleAll(v, 0, <<>>) = v
  <2>1. Counts(HandleUpTo(v, 0, <<>>), v, 0, <<>>, 0)
    BY UpToCounts
  <2> QED
    BY <2>1 DEF HandleAll, Counts
<1>2. ASSUME NEW e \in Event PROVE HandleAll(v, 0, <<e>>) = Handle(v, e)
  <2> DEFINE evs == <<e>>
             d == HandleUpTo(v, 0, evs)
  <2>0. Len(evs) = 1 /\ evs[1] = e
    OBVIOUS
  <2> HIDE DEF evs
  <2>1. Counts(d, v, 0, evs, Len(evs))
    <3>1. Len(evs) \in Nat
      BY <2>0
    <3> QED
      BY <3>1, UpToCounts
  <2> HIDE DEF d
  <2>2. \A n \in 0..1 : d[n] = IF n = 0 THEN v ELSE AfterEvent(d[n - 1], 0, evs[n])
    BY <2>0, <2>1 DEF Counts
  <2>3. d[0] = v /\ d[1] = AfterEvent(d[0], 0, evs[1])
    BY <2>2
  <2>4. d[1] = Handle(v, e)
    BY <2>0, <2>3, AfterInViews
  <2> QED
    BY <2>0, <2>4 DEF HandleAll, d, evs
<1>3. ASSUME NEW e \in Event, NEW f \in Event
      PROVE  HandleAll(v, 0, <<e, f>>) = Handle(Handle(v, e), f)
  <2> DEFINE evs == <<e, f>>
             d == HandleUpTo(v, 0, evs)
  <2>0. Len(evs) = 2 /\ evs[1] = e /\ evs[2] = f
    OBVIOUS
  <2> HIDE DEF evs
  <2>1. Counts(d, v, 0, evs, Len(evs))
    <3>1. Len(evs) \in Nat
      BY <2>0
    <3> QED
      BY <3>1, UpToCounts
  <2> HIDE DEF d
  <2>2. \A n \in 0..2 : d[n] = IF n = 0 THEN v ELSE AfterEvent(d[n - 1], 0, evs[n])
    BY <2>0, <2>1 DEF Counts
  <2>3. d[0] = v /\ d[1] = AfterEvent(d[0], 0, evs[1]) /\ d[2] = AfterEvent(d[1], 0, evs[2])
    BY <2>2
  <2>4. d[1] = Handle(v, e) /\ Handle(v, e) \in Views
    BY <2>0, <2>3, AfterInViews
  <2>5. d[2] = Handle(Handle(v, e), f)
    BY <2>0, <2>3, <2>4, AfterInViews
  <2> QED
    BY <2>0, <2>5 DEF HandleAll, d, evs
<1> QED
  BY <1>1, <1>2, <1>3

LEMMA AllHandled ==
  ASSUME NEW v \in Views, NEW own, NEW evs \in Seq(Event)
  PROVE  /\ HandleAll(v, own, evs) \in Views
         /\ own \in ClientId =>
              HandleAll(v, own, evs).currentAction[own] = v.currentAction[own]
         /\ (\A i \in DOMAIN evs : IsStored(evs[i])) /\ ~v.failed =>
              ~HandleAll(v, own, evs).failed
<1>1. Len(evs) \in Nat /\ \A n \in 1..Len(evs) : evs[n] \in Event
  BY ElementOfSeq
<1>2. HandleAll(v, own, evs) \in Views
  <2> DEFINE S == [n \in 0..Len(evs) |-> Views]
  <2>1. v \in S[0] /\ S[Len(evs)] = Views
    BY <1>1
  <2>2. ASSUME NEW n \in 1..Len(evs), NEW u \in S[n - 1] PROVE AfterEvent(u, own, evs[n]) \in S[n]
    <3>1. S[n - 1] = Views /\ S[n] = Views
      BY <1>1
    <3> HIDE DEF S
    <3> QED
      BY <1>1, <3>1, AfterInViews
  <2> HIDE DEF S
  <2>3. HandleAll(v, own, evs) \in S[Len(evs)]
    BY <1>1, <2>1, <2>2, HandledIn
  <2> QED
    BY <2>1, <2>3
<1>3. ASSUME own \in ClientId
      PROVE  HandleAll(v, own, evs).currentAction[own] = v.currentAction[own]
  <2> DEFINE V == {u \in Views : u.currentAction[own] = v.currentAction[own]}
             S == [n \in 0..Len(evs) |-> V]
  <2>1. v \in S[0] /\ S[Len(evs)] = V
    BY <1>1
  <2>2. ASSUME NEW n \in 1..Len(evs), NEW u \in S[n - 1] PROVE AfterEvent(u, own, evs[n]) \in S[n]
    <3>1. S[n - 1] = V /\ S[n] = V
      BY <1>1
    <3>2. u \in Views /\ u.currentAction[own] = v.currentAction[own]
      BY <3>1
    <3>3. evs[n] \in Event
      BY <1>1
    <3>4. CASE evs[n].id = own
      BY <3>1, <3>2, <3>4 DEF AfterEvent
    <3>5. CASE evs[n].id # own
      <4>1. Handle(u, evs[n]) \in Views /\ Handle(u, evs[n]).currentAction[own] = u.currentAction[own]
        BY <1>3, <3>2, <3>3, <3>5, AfterInViews
      <4> QED
        BY <3>1, <3>2, <3>5, <4>1 DEF AfterEvent
    <3> QED
      BY <3>4, <3>5
  <2> HIDE DEF S
  <2>3. HandleAll(v, own, evs) \in S[Len(evs)]
    BY <1>1, <2>1, <2>2, HandledIn
  <2> QED
    BY <2>1, <2>3
<1>4. ASSUME \A i \in DOMAIN evs : IsStored(evs[i]), ~v.failed
      PROVE  ~HandleAll(v, own, evs).failed
  <2> DEFINE V == {u \in Views : ~u.failed}
             S == [n \in 0..Len(evs) |-> V]
  <2>1. v \in S[0] /\ S[Len(evs)] = V
    BY <1>1, <1>4
  <2>2. ASSUME NEW n \in 1..Len(evs), NEW u \in S[n - 1] PROVE AfterEvent(u, own, evs[n]) \in S[n]
    <3>1. S[n - 1] = V /\ S[n] = V
      BY <1>1
    <3>2. u \in Views /\ ~u.failed /\ evs[n] \in Event /\ IsStored(evs[n])
      BY <1>1, <1>4, <3>1
    <3>3. Handle(u, evs[n]) \in Views /\ ~Handle(u, evs[n]).failed
      BY <3>2, AfterInViews
    <3> QED
      BY <3>1, <3>2, <3>3 DEF AfterEvent
  <2> HIDE DEF S
  <2>3. HandleAll(v, own, evs) \in S[Len(evs)]
    BY <1>1, <2>1, <2>2, HandledIn
  <2> QED
    BY <2>1, <2>3
<1> QED
  BY <1>2, <1>3, <1>4

\* Stored events never lead a page astray.
LEMMA StoredHandled ==
  ASSUME NEW v \in Views, ~v.astray, ~v.failed, NEW own, NEW evs \in Seq(Event),
         \A i \in DOMAIN evs : IsStored(evs[i])
  PROVE  ~HandleAll(v, own, evs).astray
<1> DEFINE V == {u \in Views : ~u.astray /\ ~u.failed}
           S == [n \in 0..Len(evs) |-> V]
<1>1. Len(evs) \in Nat /\ \A n \in 1..Len(evs) : evs[n] \in Event /\ IsStored(evs[n])
  BY ElementOfSeq
<1>2. v \in S[0] /\ S[Len(evs)] = V
  BY <1>1
<1>3. ASSUME NEW n \in 1..Len(evs), NEW u \in S[n - 1] PROVE AfterEvent(u, own, evs[n]) \in S[n]
  <2>1. S[n - 1] = V /\ S[n] = V
    BY <1>1
  <2>2. u \in Views /\ ~u.failed /\ ~u.astray /\ evs[n] \in Event /\ IsStored(evs[n])
    BY <1>1, <2>1
  <2>3. ~Throws(u, evs[n]) /\ ~Unexpected(u, evs[n])
    BY <2>2 DEF IsStored, Throws, Unexpected
  <2> DEFINE w == Handle(u, evs[n])
  <2>4. w \in Views /\ ~w.failed /\ w.astray = (u.astray \/ Unexpected(u, evs[n]))
    BY <2>2, <2>3, EventHandled
  <2> HIDE DEF w
  <2>5. ~w.astray
    BY <2>2, <2>3, <2>4
  <2> QED
    BY <2>1, <2>2, <2>4, <2>5 DEF AfterEvent, w
<1> HIDE DEF S
<1>4. HandleAll(v, own, evs) \in S[Len(evs)]
  BY <1>1, <1>2, <1>3, HandledIn
<1> QED
  BY <1>2, <1>4

LEMMA EmptyInViews ==
  /\ EmptyView \in Views /\ ~EmptyView.failed /\ EmptyView.increments = <<>>
  /\ ~EmptyView.astray
<1>1. <<>> \in Seq(Increment) /\ <<>> \in Seq([shows : BOOLEAN, el : Nat]) /\ Len(<<>>) = 0
  BY EmptySeq
<1>2. [i \in ClientId |-> NoAction] \in [ClientId -> Actions]
  BY DEF NoAction, Actions
<1> QED
  BY <1>1, <1>2 DEF EmptyView, Views, PageView

LEMMA DrawnInViews ==
  ASSUME NEW v \in Views
  PROVE  /\ Draw(v) \in Views
         /\ Draw(v).increments = v.increments
         /\ Draw(v).currentAction = v.currentAction
         /\ Draw(v).astray = v.astray
         /\ Draw(v).failed = v.failed
<1> DEFINE new == SubSeq(v.increments, v.drawn + 1, Len(v.increments))
           steps == Steps(new) \o v.tmpActions
           Step == [shows : BOOLEAN, el : Nat]
           shown == After(v.shown, steps)
<1>1. /\ v \in PageView /\ v.increments \in Seq(Increment) /\ v.tmpActions \in Seq(Step)
      /\ v.shown \subseteq Nat /\ v.drawn \in Nat /\ Len(v.increments) \in Nat
  BY DEF Views, PageView
<1>2. new \in Seq(Increment)
  <2>1. \A i \in v.drawn + 1..Len(v.increments) : v.increments[i] \in Increment
    BY <1>1, ElementOfSeq
  <2> QED
    BY <1>1, <2>1, SubSeqProperties
<1>3. Steps(new) \in Seq(Step)
  <2> HIDE DEF new
  <2>1. DOMAIN new = 1..Len(new) /\ Len(new) \in Nat /\ \A i \in 1..Len(new) : new[i] \in Increment
    BY <1>2, ElementOfSeq
  <2>2. \A i \in 1..Len(new) : [shows |-> new[i].kind # "Undo", el |-> new[i].el] \in Step
    BY <2>1 DEF Increment
  <2> QED
    BY <2>1, <2>2 DEF Steps
<1>4. steps \in Seq(Step) /\ \A i \in DOMAIN steps : steps[i].el \in Nat
  <2>1. steps \in Seq(Step)
    <3> HIDE DEF new
    <3> QED
      BY <1>1, <1>3, ConcatProperties
  <2> HIDE DEF steps
  <2>2. DOMAIN steps = 1..Len(steps)
    BY <2>1
  <2>3. \A i \in DOMAIN steps : steps[i] \in Step
    BY <2>1, <2>2, ElementOfSeq
  <2> QED
    BY <2>1, <2>3
<1>5. shown \subseteq Nat
  <2> HIDE DEF steps
  <2> QED
    BY <1>1, <1>4 DEF After
<1> DEFINE w == [v EXCEPT !.shown = After(@, steps), !.drawn = Len(v.increments),
                          !.tmpActions = <<>>, !.drawRequested = FALSE]
<1>6. w = Draw(v)
  BY DEF Draw
<1>7. <<>> \in Seq(Step)
  BY EmptySeq
<1>8. /\ w \in PageView /\ w.increments = v.increments /\ w.drawn = Len(v.increments)
      /\ w.currentAction = v.currentAction /\ w.astray = v.astray /\ w.failed = v.failed
  <2> HIDE DEF steps
  <2>1. shown = After(v.shown, steps)
    OBVIOUS
  <2> HIDE DEF shown
  <2> QED
    BY <1>1, <1>5, <1>7, <2>1 DEF PageView
<1> HIDE DEF w
<1> QED
  BY <1>1, <1>6, <1>8 DEF Views

----------------------------------------------------------------------------
(***************************************************************************)
(* A page that loads gets an id: there are no more ids in use than pages   *)
(* that are live, and this one is not.                                     *)
(***************************************************************************)
LEMMA IdIsFree ==
  ASSUME live \in [Pages -> BOOLEAN], id \in [Pages -> ClientId], NEW p \in Pages, ~live[p]
  PROVE  FirstFreeId \in ClientId \ UsedIds
<1> DEFINE Live == {q \in Pages : live[q]}
           f == [q \in Live |-> id[q]]
           n == Cardinality(Pages)
<1>1. IsFiniteSet(Pages) /\ n \in Nat
  BY PagesAssumption, FS_CardinalityType
<1>2. IsFiniteSet(Pages \ {p}) /\ Cardinality(Pages \ {p}) = n - 1
  BY <1>1, FS_RemoveElement
<1>3. IsFiniteSet(Live) /\ Cardinality(Live) <= n - 1
  <2>1. Live \in SUBSET (Pages \ {p})
    OBVIOUS
  <2> HIDE DEF Live
  <2> QED
    BY <1>2, <2>1, FS_Subset
<1>4. IsFiniteSet(UsedIds) /\ Cardinality(UsedIds) <= Cardinality(Live)
  <2>1. f \in Surjection(Live, UsedIds)
    BY DEF Surjection, UsedIds
  <2> HIDE DEF f, Live
  <2> QED
    BY <1>3, <2>1, FS_Surjection
<1>5. IsFiniteSet(ClientId) /\ Cardinality(ClientId) = n
  <2>1. IsFiniteSet(1..n) /\ Cardinality(1..n) = IF 1 > n THEN 0 ELSE n - 1 + 1
    BY <1>1, FS_Interval
  <2>2. n # 0
    BY <1>1, FS_EmptySet
  <2> QED
    BY <1>1, <2>1, <2>2 DEF ClientId
<1>6. ClientId \ UsedIds # {}
  <2> SUFFICES ASSUME ClientId \subseteq UsedIds PROVE FALSE
    OBVIOUS
  <2>1. Cardinality(ClientId) <= Cardinality(UsedIds)
    BY <1>4, FS_Subset
  <2>2. Cardinality(UsedIds) \in Nat /\ Cardinality(Live) \in Nat
    BY <1>3, <1>4, FS_CardinalityType
  <2> HIDE DEF Live, n
  <2> QED
    BY <1>1, <1>3, <1>4, <1>5, <2>1, <2>2
<1> DEFINE S == ClientId \ UsedIds
<1>7. S \in SUBSET Nat /\ S # {}
  BY <1>6 DEF ClientId
<1>8. \E i \in S : \A j \in S : i <= j
  <2> HIDE DEF S
  <2> QED
    BY <1>7, LeastNumber
<1> QED
  BY <1>8 DEF FirstFreeId, Min

----------------------------------------------------------------------------
TypeInv ==
  /\ live \in [Pages -> BOOLEAN]
  /\ id \in [Pages -> ClientId]
  /\ view \in [Pages -> Views]
  /\ drag \in [Pages -> Nat]
  /\ building \in [Pages -> AllEvents]
  /\ outbox \in [Pages -> AllEvents]
  /\ leaving \in [Pages -> ClientId \union {0}]
  /\ broadcast \in AllEvents
  /\ saved \in AllEvents
  /\ inputs \in Nat
  /\ loads \in Nat

(***************************************************************************)
(* Who drags works on an action: nothing that comes from another client    *)
(* takes it away, and a page passes over what comes back of its own.       *)
(***************************************************************************)
DragInv ==
  /\ \A i \in DOMAIN saved : IsStored(saved[i])
  /\ \A p \in Pages :
       /\ ~view[p].failed
       /\ drag[p] # 0 => live[p] /\ view[p].currentAction[id[p]] # NoAction

LEMMA TypeImplied == TypeInv => TypeOK
<1> SUFFICES ASSUME TypeInv PROVE TypeOK
  OBVIOUS
<1>1. ASSUME NEW p \in Pages
      PROVE  /\ view[p].increments \in Seq(Increment)
             /\ view[p].drawn \in 0..Len(view[p].increments)
             /\ view[p].tmpActions \in Seq([shows : BOOLEAN, el : Nat])
             /\ view[p].currentAction \in [ClientId -> [el : Nat, tmp : BOOLEAN]]
             /\ view[p].shown \subseteq Nat
             /\ view[p].drawRequested \in BOOLEAN
             /\ view[p].failed \in BOOLEAN
             /\ view[p].astray \in BOOLEAN
  <2>1. view[p] \in Views
    BY DEF TypeInv
  <2> QED
    BY <2>1 DEF Views, PageView, Actions
<1> QED
  BY <1>1 DEF TypeOK, TypeInv, AllEvents

LEMMA OneIsId == 1 \in ClientId
<1>1. Cardinality(Pages) \in Nat /\ Cardinality(Pages) # 0
  BY PagesAssumption, FS_CardinalityType, FS_EmptySet
<1> QED
  BY <1>1 DEF ClientId

LEMMA InitTyped == Init => TypeInv /\ DragInv
<1> SUFFICES ASSUME Init PROVE TypeInv /\ DragInv
  OBVIOUS
<1>1. ASSUME NEW n \in 1..OldObjects PROVE OldObject(n) \in Event /\ IsStored(OldObject(n))
  BY OneIsId, OldObjectsAssumption DEF OldObject, Ev, Event, IsStored
<1>2. saved \in AllEvents /\ DOMAIN saved = 1..OldObjects /\ \A i \in DOMAIN saved : IsStored(saved[i])
  BY <1>1, OldObjectsAssumption DEF Init, AllEvents
<1>3. <<>> \in AllEvents
  BY EmptySeq DEF AllEvents
<1>4. TypeInv
  BY <1>2, <1>3, OneIsId, EmptyInViews, OldObjectsAssumption DEF Init, TypeInv
<1>5. DragInv
  BY <1>2, EmptyInViews DEF Init, DragInv
<1> QED
  BY <1>4, <1>5

(***************************************************************************)
(* Input: the views after an echo w of events evs, and the messages.       *)
(***************************************************************************)
Echo(p, evs, w) ==
  /\ w \in Views
  /\ view' = [view EXCEPT ![p] = w]
  /\ w.increments = Echoed(p, evs).increments
  /\ w.currentAction = Echoed(p, evs).currentAction
  /\ w.failed = Echoed(p, evs).failed
  /\ w.astray = Echoed(p, evs).astray
  /\ building' \in [Pages -> AllEvents]
  /\ outbox' \in [Pages -> AllEvents]

LEMMA EchoStep ==
  ASSUME TypeInv, NEW p \in Pages, NEW evs \in AllEvents, SendEvents(p, evs) \/ AddEvents(p, evs)
  PROVE  \E w : Echo(p, evs, w)
<1> DEFINE u == Echoed(p, evs)
           w == [u EXCEPT !.drawRequested = TRUE]
<1>1. u \in Views
  BY AllHandled DEF TypeInv, Echoed, AllEvents
<1> HIDE DEF u
<1>2. /\ w \in Views /\ w.increments = u.increments /\ w.currentAction = u.currentAction
      /\ w.failed = u.failed /\ w.astray = u.astray
  BY <1>1 DEF Views, PageView
<1>3. <<>> \in AllEvents
  BY EmptySeq DEF AllEvents
<1>4. /\ building[p] \in AllEvents /\ outbox[p] \in AllEvents
      /\ building \in [Pages -> AllEvents] /\ outbox \in [Pages -> AllEvents]
  BY DEF TypeInv
<1>5. building[p] \o evs \in AllEvents /\ outbox[p] \o building[p] \o evs \in AllEvents
  BY <1>4, ConcatProperties DEF AllEvents
<1>6. CASE SendEvents(p, evs)
  <2>1. view' = [view EXCEPT ![p] = w]
    BY <1>6 DEF SendEvents, u
  <2>2. building' = [building EXCEPT ![p] = <<>>] /\ outbox' = [outbox EXCEPT ![p] = outbox[p] \o building[p] \o evs]
    BY <1>4, <1>6 DEF SendEvents
  <2>3. building' \in [Pages -> AllEvents] /\ outbox' \in [Pages -> AllEvents]
    BY <1>3, <1>4, <1>5, <2>2
  <2> HIDE DEF w
  <2>4. Echo(p, evs, w)
    BY <1>2, <2>1, <2>3 DEF Echo, u
  <2> QED
    BY <2>4
<1>7. CASE AddEvents(p, evs)
  <2>1. view' = [view EXCEPT ![p] = u]
    BY <1>7 DEF AddEvents, u
  <2>2. building' = [building EXCEPT ![p] = building[p] \o evs] /\ outbox' = outbox
    BY <1>4, <1>7 DEF AddEvents
  <2>3. building' \in [Pages -> AllEvents] /\ outbox' \in [Pages -> AllEvents]
    BY <1>4, <1>5, <2>2
  <2>4. Echo(p, evs, u)
    BY <1>1, <2>1, <2>3 DEF Echo, u
  <2> QED
    BY <2>4
<1> QED
  BY <1>6, <1>7

\* One event of a user whose action, when it needs one, is there.
LEMMA OwnHandled ==
  ASSUME TypeInv, DragInv, NEW p \in Pages, NEW e \in Event, e.id = id[p],
         e.type \in {"Point", "Cancel"} => drag[p] # 0
  PROVE  /\ Echoed(p, <<e>>) = Handle(view[p], e)
         /\ Handle(view[p], e) \in Views
         /\ ~Throws(view[p], e) /\ ~view[p].failed
         /\ ~Handle(view[p], e).failed
<1>1. view[p] \in Views /\ ~view[p].failed /\ ~Throws(view[p], e)
  BY DEF TypeInv, DragInv, Throws
<1> QED
  BY <1>1, FewHandled, EventHandled DEF Echoed

Types == {"Start", "Point", "Cancel", "Object", "Undo", "Redo", "Cleanup"}

LEMMA EvIsEvent ==
  ASSUME TypeInv, NEW p \in Pages, NEW el \in Nat, NEW type \in Types
  PROVE  /\ Ev(type, id[p], el) \in Event /\ <<Ev(type, id[p], el)>> \in AllEvents
         /\ Ev(type, id[p], el).id = id[p] /\ Ev(type, id[p], el).type = type
         /\ Ev(type, id[p], el).el = el
<1> DEFINE e == Ev(type, id[p], el)
<1>1. e \in Event /\ e.id = id[p] /\ e.type = type /\ e.el = el
  BY DEF TypeInv, Ev, Event, Types
<1> HIDE DEF e
<1>2. <<e>> \in AllEvents
  BY <1>1 DEF AllEvents
<1> QED
  BY <1>1, <1>2 DEF e

----------------------------------------------------------------------------
\* An input step that echoes one event.
LEMMA TypedEcho ==
  ASSUME TypeInv, DragInv, NEW p \in Pages, NEW evs \in AllEvents, NEW w, Echo(p, evs, w),
         drag' \in [Pages -> Nat], inputs' \in Nat,
         \A q \in Pages \ {p} : drag'[q] = drag[q],
         ~w.failed, live[p], drag'[p] # 0 => w.currentAction[id[p]] # NoAction,
         UNCHANGED <<live, id, serverVars, loads>>
  PROVE  TypeInv' /\ DragInv'
<1>1. TypeInv'
  BY DEF TypeInv, Echo, serverVars
<1>2. saved' = saved /\ live' = live /\ id' = id
  BY DEF serverVars
<1>3. ASSUME NEW q \in Pages
      PROVE  /\ ~view'[q].failed
             /\ drag'[q] # 0 => live'[q] /\ view'[q].currentAction[id'[q]] # NoAction
  <2>1. CASE q = p
    <3>1. view'[q] = w
      BY <2>1 DEF Echo, TypeInv
    <3> QED
      BY <1>2, <2>1, <3>1
  <2>2. CASE q # p
    <3>1. view'[q] = view[q] /\ drag'[q] = drag[q]
      BY <2>2 DEF Echo, TypeInv
    <3> QED
      BY <1>2, <3>1 DEF DragInv
  <2> QED
    BY <2>1, <2>2
<1>4. DragInv'
  BY <1>2, <1>3 DEF DragInv
<1> QED
  BY <1>1, <1>4

LEMMA TypedDrawStart ==
  ASSUME TypeInv, DragInv, NEW p \in Pages, DrawStart(p)
  PROVE  TypeInv' /\ DragInv'
<1> DEFINE e == Ev("Start", id[p], inputs + 1)
           evs == <<e>>
<1>0. "Start" \in Types /\ inputs + 1 \in Nat
  BY DEF Types, TypeInv
<1>1. inputs \in Nat /\ drag \in [Pages -> Nat] /\ view[p] \in Views
  BY DEF TypeInv
<1>2. e \in Event /\ evs \in AllEvents /\ e.id = id[p] /\ e.type = "Start" /\ e.el = inputs + 1
  BY <1>0, <1>1, EvIsEvent
<1>3. SendEvents(p, evs)
  BY DEF DrawStart
<1> HIDE DEF e
<1>4. Echoed(p, evs) = Handle(view[p], e) /\ ~Throws(view[p], e) /\ ~view[p].failed
  BY <1>2, OwnHandled
<1>5. ~Handle(view[p], e).failed /\ Handle(view[p], e).currentAction[id[p]].el = inputs + 1
  BY <1>1, <1>2, <1>4, EventHandled
<1>6. Handle(view[p], e).currentAction[id[p]] # NoAction
  BY <1>1, <1>5 DEF NoAction
<1> HIDE DEF evs
<1>7. PICK w : Echo(p, evs, w)
  BY <1>2, <1>3, EchoStep
<1>8. ~w.failed /\ w.currentAction[id[p]] # NoAction
  BY <1>4, <1>5, <1>6, <1>7 DEF Echo
<1>9. /\ drag' = [drag EXCEPT ![p] = inputs + 1] /\ inputs' = inputs + 1 /\ live[p]
      /\ UNCHANGED <<live, id, serverVars, loads>>
  BY DEF DrawStart, Input
<1>10. drag' \in [Pages -> Nat] /\ inputs' \in Nat /\ \A q \in Pages \ {p} : drag'[q] = drag[q]
  BY <1>1, <1>9
<1> QED
  BY <1>2, <1>7, <1>8, <1>9, <1>10, TypedEcho

\* Points, undos and redos leave the action of the drag alone.
LEMMA TypedKept ==
  ASSUME TypeInv, DragInv, NEW p \in Pages, NEW type \in {"Point", "Undo", "Redo"},
         type = "Point" => drag[p] # 0, Input(p), UNCHANGED drag,
         SendEvents(p, <<Ev(type, id[p], 0)>>)
  PROVE  TypeInv' /\ DragInv'
<1> DEFINE e == Ev(type, id[p], 0)
           evs == <<e>>
<1>0. type \in Types /\ 0 \in Nat
  BY DEF Types, TypeInv
<1>1. inputs \in Nat /\ drag \in [Pages -> Nat] /\ view[p] \in Views
  BY DEF TypeInv
<1>2. e \in Event /\ evs \in AllEvents /\ e.id = id[p] /\ e.type = type
  BY <1>0, EvIsEvent
<1>3. SendEvents(p, evs)
  OBVIOUS
<1> HIDE DEF e
<1>4. Echoed(p, evs) = Handle(view[p], e) /\ ~Throws(view[p], e) /\ ~view[p].failed
  BY <1>2, OwnHandled
<1>5. ~Handle(view[p], e).failed /\ Handle(view[p], e).currentAction = view[p].currentAction
  BY <1>1, <1>2, <1>4, EventHandled
<1> HIDE DEF evs
<1>7. PICK w : Echo(p, evs, w)
  BY <1>2, <1>3, EchoStep
<1>8. ~w.failed /\ (drag[p] # 0 => w.currentAction[id[p]] # NoAction)
  BY <1>4, <1>5, <1>7 DEF Echo, DragInv
<1>9. inputs' = inputs + 1 /\ live[p] /\ drag' = drag /\ UNCHANGED <<live, id, serverVars, loads>>
  BY DEF Input
<1>10. drag' \in [Pages -> Nat] /\ inputs' \in Nat /\ \A q \in Pages \ {p} : drag'[q] = drag[q]
  BY <1>1, <1>9
<1> QED
  BY <1>2, <1>7, <1>8, <1>9, <1>10, TypedEcho

LEMMA TypedDrawFinish ==
  ASSUME TypeInv, DragInv, NEW p \in Pages, DrawFinish(p)
  PROVE  TypeInv' /\ DragInv'
<1> DEFINE e == Ev("Cancel", id[p], 0)
           f == Ev("Object", id[p], MaxInputs + drag[p])
           evs == <<e, f>>
<1>0. "Cancel" \in Types /\ "Object" \in Types /\ 0 \in Nat
  BY DEF Types, TypeInv
<1>1. inputs \in Nat /\ drag \in [Pages -> Nat] /\ view[p] \in Views /\ MaxInputs + drag[p] \in Nat
  BY BoundsAssumption DEF TypeInv
<1>2. e \in Event /\ e.id = id[p] /\ e.type = "Cancel" /\ f \in Event /\ f.id = id[p] /\ f.type = "Object"
  <2>1. id[p] \in ClientId /\ 0 \in Nat
    BY DEF TypeInv
  <2>2. e \in Event /\ e.id = id[p] /\ e.type = "Cancel"
    BY <2>1 DEF Ev, Event
  <2>3. f \in Event /\ f.id = id[p] /\ f.type = "Object"
    BY <1>1, <2>1 DEF Ev, Event
  <2> QED
    BY <2>2, <2>3
<1>3. SendEvents(p, evs) /\ drag[p] # 0 /\ live[p]
  BY DEF DrawFinish
<1> HIDE DEF e, f
<1>4. evs \in AllEvents
  BY <1>2 DEF AllEvents
<1>5. Echoed(p, evs) = Handle(Handle(view[p], e), f)
  BY <1>1, <1>2, FewHandled DEF Echoed
<1>6. Handle(view[p], e) \in Views /\ ~Handle(view[p], e).failed
  BY <1>2, <1>3, OwnHandled
<1>7. ~Handle(Handle(view[p], e), f).failed
  BY <1>2, <1>6, AfterInViews DEF IsStored
<1> HIDE DEF evs
<1>8. PICK w : Echo(p, evs, w)
  BY <1>3, <1>4, EchoStep
<1>9. ~w.failed
  BY <1>5, <1>7, <1>8 DEF Echo
<1>10. drag' = [drag EXCEPT ![p] = 0] /\ inputs' = inputs /\ UNCHANGED <<live, id, serverVars, loads>>
  BY DEF DrawFinish
<1>11. /\ drag' \in [Pages -> Nat] /\ drag'[p] = 0 /\ inputs' \in Nat
       /\ \A q \in Pages \ {p} : drag'[q] = drag[q]
  BY <1>1, <1>10
<1> QED
  BY <1>3, <1>4, <1>8, <1>9, <1>10, <1>11, TypedEcho

LEMMA TypedDrawCancel ==
  ASSUME TypeInv, DragInv, NEW p \in Pages, DrawCancel(p)
  PROVE  TypeInv' /\ DragInv'
<1> DEFINE e == Ev("Cancel", id[p], 0)
           evs == <<e>>
<1>0. "Cancel" \in Types /\ 0 \in Nat
  BY DEF Types, TypeInv
<1>1. inputs \in Nat /\ drag \in [Pages -> Nat] /\ view[p] \in Views
  BY DEF TypeInv
<1>2. e \in Event /\ evs \in AllEvents /\ e.id = id[p] /\ e.type = "Cancel"
  BY <1>0, EvIsEvent
<1>3. AddEvents(p, evs) /\ drag[p] # 0
  BY DEF DrawCancel
<1> HIDE DEF e
<1>4. Echoed(p, evs) = Handle(view[p], e) /\ ~Handle(view[p], e).failed
  BY <1>2, <1>3, OwnHandled
<1> HIDE DEF evs
<1>5. PICK w : Echo(p, evs, w)
  BY <1>2, <1>3, EchoStep
<1>6. ~w.failed
  BY <1>4, <1>5 DEF Echo
<1>7. /\ drag' = [drag EXCEPT ![p] = 0] /\ inputs' = inputs + 1 /\ live[p]
      /\ UNCHANGED <<live, id, serverVars, loads>>
  BY DEF DrawCancel, Input
<1>8. /\ drag' \in [Pages -> Nat] /\ drag'[p] = 0 /\ inputs' \in Nat
      /\ \A q \in Pages \ {p} : drag'[q] = drag[q]
  BY <1>1, <1>7
<1> QED
  BY <1>2, <1>5, <1>6, <1>7, <1>8, TypedEcho

LEMMA TypedMoveCursor ==
  ASSUME TypeInv, DragInv, NEW p \in Pages, MoveCursor(p)
  PROVE  TypeInv' /\ DragInv'
<1>1. inputs \in Nat /\ drag \in [Pages -> Nat] /\ view[p] \in Views
  BY DEF TypeInv
<1>2. <<>> \in AllEvents
  BY EmptySeq DEF AllEvents
<1>3. SendEvents(p, <<>>) /\ live[p]
  BY DEF MoveCursor
<1>4. Echoed(p, <<>>) = view[p]
  BY <1>1, FewHandled DEF Echoed
<1>5. PICK w : Echo(p, <<>>, w)
  BY <1>2, <1>3, EchoStep
<1>6. ~w.failed /\ (drag[p] # 0 => w.currentAction[id[p]] # NoAction)
  BY <1>4, <1>5 DEF Echo, DragInv
<1>7. drag' = drag /\ inputs' = inputs /\ UNCHANGED <<live, id, serverVars, loads>>
  BY DEF MoveCursor
<1>8. drag' \in [Pages -> Nat] /\ inputs' \in Nat /\ \A q \in Pages \ {p} : drag'[q] = drag[q]
  BY <1>1, <1>7
<1> QED
  BY <1>2, <1>3, <1>5, <1>6, <1>7, <1>8, TypedEcho

----------------------------------------------------------------------------
LEMMA Replayed ==
  ASSUME TypeInv, DragInv
  PROVE  Replay \in Views /\ ~Replay.failed
<1>1. saved \in Seq(Event) /\ \A i \in DOMAIN saved : IsStored(saved[i])
  BY DEF TypeInv, DragInv, AllEvents
<1> QED
  BY <1>1, AllHandled, EmptyInViews DEF Replay

LEMMA TypedLoad ==
  ASSUME TypeInv, DragInv, NEW p \in Pages, Load(p)
  PROVE  TypeInv' /\ DragInv'
<1> DEFINE b == \E i \in DOMAIN broadcast : IsStored(broadcast[i])
           w == [Replay EXCEPT !.drawRequested = TRUE, !.astray = b]
<1>1. Replay \in Views /\ ~Replay.failed
  BY Replayed
<1>2. w \in Views /\ ~w.failed
  <2>1. b \in BOOLEAN
    OBVIOUS
  <2> HIDE DEF b
  <2> QED
    BY <1>1, <2>1 DEF Views, PageView
<1>3. view' = [view EXCEPT ![p] = w] /\ ~live[p]
  BY DEF Load
<1> HIDE DEF w
<1>4. /\ live' = [live EXCEPT ![p] = TRUE] /\ id' = [id EXCEPT ![p] = FirstFreeId] /\ loads' = loads + 1
      /\ drag' = drag /\ building' = building /\ outbox' = outbox /\ inputs' = inputs
      /\ leaving' = leaving /\ broadcast' = broadcast /\ saved' = saved
  BY DEF Load, userVars, serverVars
<1>5. FirstFreeId \in ClientId
  BY <1>3, IdIsFree DEF TypeInv
<1>6. TypeInv'
  BY <1>2, <1>3, <1>4, <1>5 DEF TypeInv
<1>7. ASSUME NEW q \in Pages
      PROVE  /\ ~view'[q].failed
             /\ drag'[q] # 0 => live'[q] /\ view'[q].currentAction[id'[q]] # NoAction
  <2>1. CASE q = p
    <3>1. view'[q] = w /\ drag[q] = 0
      BY <1>3, <2>1 DEF TypeInv, DragInv
    <3> QED
      BY <1>2, <1>4, <3>1
  <2>2. CASE q # p
    <3>1. view'[q] = view[q] /\ live'[q] = live[q] /\ id'[q] = id[q]
      BY <1>3, <1>4, <2>2 DEF TypeInv
    <3> QED
      BY <1>4, <3>1 DEF DragInv
  <2> QED
    BY <2>1, <2>2
<1>8. DragInv'
  BY <1>4, <1>7 DEF DragInv
<1> QED
  BY <1>6, <1>8

LEMMA TypedClose ==
  ASSUME TypeInv, DragInv, NEW p \in Pages, Close(p)
  PROVE  TypeInv' /\ DragInv'
<1>1. <<>> \in AllEvents /\ id[p] \in ClientId
  BY EmptySeq DEF AllEvents, TypeInv
<1>2. TypeInv'
  BY <1>1, EmptyInViews DEF Close, TypeInv
<1>3. ASSUME NEW q \in Pages
      PROVE  /\ ~view'[q].failed
             /\ drag'[q] # 0 => live'[q] /\ view'[q].currentAction[id'[q]] # NoAction
  <2>1. CASE q = p
    <3>1. view'[q] = EmptyView /\ drag'[q] = 0
      BY <2>1 DEF Close, TypeInv
    <3> QED
      BY <3>1, EmptyInViews
  <2>2. CASE q # p
    <3>1. view'[q] = view[q] /\ live'[q] = live[q] /\ id'[q] = id[q] /\ drag'[q] = drag[q]
      BY <2>2 DEF Close, TypeInv
    <3> QED
      BY <3>1 DEF DragInv
  <2> QED
    BY <2>1, <2>2
<1>4. saved' = saved
  BY DEF Close
<1> QED
  BY <1>2, <1>3, <1>4 DEF DragInv

LEMMA TypedCleanup ==
  ASSUME TypeInv, DragInv, NEW p \in Pages, Cleanup(p)
  PROVE  TypeInv' /\ DragInv'
<1> DEFINE e == Ev("Cleanup", leaving[p], 0)
<1>1. e \in Event
  BY DEF Cleanup, TypeInv, Ev, Event
<1>2. broadcast' = Append(broadcast, e)
  BY DEF Cleanup
<1> HIDE DEF e
<1>3. broadcast' \in AllEvents
  BY <1>1, <1>2 DEF TypeInv, AllEvents
<1>4. /\ leaving' = [leaving EXCEPT ![p] = 0] /\ UNCHANGED <<live, id, view, saved, loads>>
      /\ UNCHANGED <<drag, building, outbox, inputs>>
  BY DEF Cleanup, userVars
<1>5. TypeInv'
  BY <1>3, <1>4 DEF TypeInv
<1> QED
  BY <1>4, <1>5 DEF DragInv

LEMMA TypedAccept ==
  ASSUME TypeInv, DragInv, NEW p \in Pages, Accept(p)
  PROVE  TypeInv' /\ DragInv'
<1> DEFINE e == Head(outbox[p])
<1>1. outbox[p] \in AllEvents /\ outbox[p] # <<>> /\ broadcast \in AllEvents /\ saved \in AllEvents
  BY DEF TypeInv, Accept
<1>2. e \in Event /\ Tail(outbox[p]) \in AllEvents
  BY <1>1, HeadTailProperties DEF AllEvents
<1>3. /\ broadcast' = Append(broadcast, e)
      /\ saved' = IF IsStored(e) THEN Append(saved, e) ELSE saved
  BY DEF Accept
<1> HIDE DEF e
<1>4. broadcast' \in AllEvents /\ saved' \in AllEvents
  BY <1>1, <1>2, <1>3 DEF AllEvents
<1>5. outbox' = [outbox EXCEPT ![p] = Tail(outbox[p])]
      /\ UNCHANGED <<live, id, view, drag, building, inputs, leaving, loads>>
  BY DEF Accept
<1>6. TypeInv'
  BY <1>2, <1>4, <1>5 DEF TypeInv
<1>7. ASSUME NEW i \in DOMAIN saved' PROVE IsStored(saved'[i])
  <2>1. CASE IsStored(e)
    <3>1. Len(saved') = Len(saved) + 1 /\ DOMAIN saved' = 1..Len(saved') /\ DOMAIN saved = 1..Len(saved)
      BY <1>1, <1>2, <1>3, <2>1 DEF AllEvents
    <3>2. saved'[i] = IF i = Len(saved) + 1 THEN e ELSE saved[i]
      BY <1>1, <1>2, <1>3, <2>1 DEF AllEvents
    <3> QED
      BY <1>1, <2>1, <3>1, <3>2 DEF DragInv, AllEvents
  <2>2. CASE ~IsStored(e)
    BY <1>3, <2>2 DEF DragInv
  <2> QED
    BY <2>1, <2>2
<1> QED
  BY <1>5, <1>6, <1>7 DEF DragInv

LEMMA TypedSendFrame ==
  ASSUME TypeInv, DragInv, SendFrame
  PROVE  TypeInv' /\ DragInv'
<1>1. ASSUME NEW v \in Views, NEW own \in ClientId
      PROVE  /\ Receive(v, own, broadcast) \in Views /\ ~Receive(v, own, broadcast).failed
             /\ Receive(v, own, broadcast).currentAction[own] = v.currentAction[own]
  <2> DEFINE w == HandleAll(v, own, broadcast)
             x == [w EXCEPT !.failed = FALSE, !.drawRequested = @ \/ ~w.failed]
  <2>1. w \in Views /\ w.currentAction[own] = v.currentAction[own]
    BY AllHandled DEF TypeInv, AllEvents
  <2> HIDE DEF w
  <2>2. (w.drawRequested \/ ~w.failed) \in BOOLEAN
    BY <2>1 DEF Views, PageView
  <2>3. x \in Views /\ ~x.failed /\ x.currentAction = w.currentAction
    BY <2>1, <2>2 DEF Views, PageView
  <2>4. x = Receive(v, own, broadcast)
    BY DEF Receive, w
  <2> HIDE DEF x
  <2> QED
    BY <2>1, <2>3, <2>4
<1>2. <<>> \in AllEvents
  BY EmptySeq DEF AllEvents
<1>3. /\ view' = [p \in Pages |-> IF live[p] THEN Receive(view[p], id[p], broadcast) ELSE view[p]]
      /\ broadcast' = <<>> /\ UNCHANGED <<live, id, leaving, saved, loads>>
      /\ UNCHANGED <<drag, building, outbox, inputs>>
  BY DEF SendFrame, userVars
<1>4. ASSUME NEW p \in Pages
      PROVE  /\ view'[p] \in Views /\ ~view'[p].failed
             /\ view'[p].currentAction[id[p]] = view[p].currentAction[id[p]]
  <2>1. view[p] \in Views /\ id[p] \in ClientId /\ ~view[p].failed
    BY DEF TypeInv, DragInv
  <2>2. view'[p] = IF live[p] THEN Receive(view[p], id[p], broadcast) ELSE view[p]
    BY <1>3
  <2> QED
    BY <1>1, <2>1, <2>2
<1>5. TypeInv'
  BY <1>2, <1>3, <1>4 DEF TypeInv
<1> QED
  BY <1>3, <1>4, <1>5 DEF DragInv

LEMMA TypedAnimationFrame ==
  ASSUME TypeInv, DragInv, NEW p \in Pages, AnimationFrame(p)
  PROVE  TypeInv' /\ DragInv'
<1>1. view[p] \in Views /\ view \in [Pages -> Views]
  BY DEF TypeInv
<1>2. /\ view' = [view EXCEPT ![p] = Draw(view[p])] /\ UNCHANGED <<live, id, leaving, broadcast, saved, loads>>
      /\ UNCHANGED <<drag, building, outbox, inputs>>
  BY <1>1 DEF AnimationFrame, userVars, serverVars
<1>3. ASSUME NEW q \in Pages
      PROVE  /\ view'[q] \in Views /\ view'[q].failed = view[q].failed
             /\ view'[q].currentAction = view[q].currentAction
  <2>1. view'[q] = IF q = p THEN Draw(view[q]) ELSE view[q]
    BY <1>1, <1>2
  <2>2. view[q] \in Views
    BY <1>1
  <2> QED
    BY <2>1, <2>2, DrawnInViews
<1>4. TypeInv'
  BY <1>2, <1>3 DEF TypeInv
<1> QED
  BY <1>2, <1>3, <1>4 DEF DragInv

LEMMA TypedStep == TypeInv /\ DragInv /\ [Next]_vars => TypeInv' /\ DragInv'
<1> SUFFICES ASSUME TypeInv, DragInv, [Next]_vars PROVE TypeInv' /\ DragInv'
  OBVIOUS
<1>1. ASSUME NEW p \in Pages, DrawUpdate(p) PROVE TypeInv' /\ DragInv'
  BY <1>1, TypedKept DEF DrawUpdate
<1>2. ASSUME NEW p \in Pages, Undo(p) PROVE TypeInv' /\ DragInv'
  BY <1>2, TypedKept DEF Undo
<1>3. ASSUME NEW p \in Pages, Redo(p) PROVE TypeInv' /\ DragInv'
  BY <1>3, TypedKept DEF Redo
<1>4. CASE UNCHANGED vars
  BY <1>4 DEF TypeInv, DragInv, vars, userVars, serverVars
<1> QED
  BY <1>1, <1>2, <1>3, <1>4, TypedLoad, TypedClose, TypedCleanup, TypedDrawStart,
     TypedDrawFinish, TypedDrawCancel, TypedMoveCursor, TypedAccept, TypedSendFrame,
     TypedAnimationFrame DEF Next

LEMMA TypedAlways == Spec => [](TypeInv /\ DragInv)
BY InitTyped, TypedStep, PTL DEF Spec

(***************************************************************************)
(* The state of the pages and the server keeps its types, and a page that  *)
(* loads always finds a free id.                                           *)
(***************************************************************************)
THEOREM TypeCorrect == Spec => []TypeOK
BY TypedAlways, TypeImplied, PTL

(***************************************************************************)
(* PaperReceive: the Cancel and AddPoint of a drag find the action they    *)
(* are for, so the handlers of a page never throw at its own input.        *)
(***************************************************************************)
THEOREM OwnInputHandled == Spec => []InputHandled
<1>1. DragInv => InputHandled
  BY DEF DragInv, InputHandled
<1> QED
  BY <1>1, TypedAlways, PTL

----------------------------------------------------------------------------
(***************************************************************************)
(* The client's increments of some kinds at the places above i, up to j.   *)
(***************************************************************************)
Places(incs, cid, i, j, kinds) ==
  {k \in i + 1..j : incs[k].id = cid /\ incs[k].kind \in kinds}

Count(incs, cid, i, j, kinds) == Cardinality(Places(incs, cid, i, j, kinds))

LEMMA CountIsNat ==
  ASSUME NEW incs, NEW cid, NEW i \in Nat, NEW j \in Nat, NEW kinds
  PROVE  IsFiniteSet(Places(incs, cid, i, j, kinds)) /\ Count(incs, cid, i, j, kinds) \in Nat
<1>1. IsFiniteSet(i + 1..j)
  BY FS_Interval
<1>2. Places(incs, cid, i, j, kinds) \in SUBSET (i + 1..j)
  BY DEF Places
<1> QED
  BY <1>1, <1>2, FS_Subset, FS_CardinalityType DEF Count

\* One place more, at the bottom.
LEMMA CountFrom ==
  ASSUME NEW incs, NEW cid, NEW n \in Nat, NEW k \in 1..n, NEW kinds
  PROVE  Count(incs, cid, k - 1, n, kinds)
           = Count(incs, cid, k, n, kinds)
               + (IF incs[k].id = cid /\ incs[k].kind \in kinds THEN 1 ELSE 0)
<1> DEFINE P == Places(incs, cid, k, n, kinds)
           Q == Places(incs, cid, k - 1, n, kinds)
<1>1. IsFiniteSet(P) /\ Cardinality(P) \in Nat /\ k \notin P
  <2>1. k \in Nat
    OBVIOUS
  <2>2. IsFiniteSet(P)
    BY <2>1, CountIsNat
  <2>3. k \notin P
    BY DEF Places
  <2> HIDE DEF P
  <2> QED
    BY <2>2, <2>3, FS_CardinalityType
<1>2. CASE incs[k].id = cid /\ incs[k].kind \in kinds
  <2>1. Q = P \cup {k}
    BY <1>2 DEF Places
  <2> HIDE DEF P, Q
  <2>2. Cardinality(Q) = Cardinality(P) + 1
    BY <1>1, <2>1, FS_AddElement
  <2> QED
    BY <1>2, <2>2 DEF Count, P, Q
<1>3. CASE ~ (incs[k].id = cid /\ incs[k].kind \in kinds)
  <2>1. Q = P
    <3>1. ASSUME NEW l \in k - 1 + 1..n, incs[l].id = cid, incs[l].kind \in kinds
          PROVE  l \in k + 1..n
      <4>1. l # k
        BY <1>3, <3>1
      <4> QED
        BY <4>1
    <3>2. \A l \in k + 1..n : l \in k - 1 + 1..n
      OBVIOUS
    <3> QED
      BY <3>1, <3>2 DEF Places
  <2> QED
    BY <1>1, <1>3, <2>1 DEF Count
<1> QED
  BY <1>2, <1>3

LEMMA CountSplit ==
  ASSUME NEW incs, NEW cid, NEW n \in Nat, NEW i \in Nat, NEW j \in i..n, NEW kinds
  PROVE  Count(incs, cid, i, n, kinds)
           = Count(incs, cid, i, j, kinds) + Count(incs, cid, j, n, kinds)
<1> DEFINE P == Places(incs, cid, i, j, kinds)
           Q == Places(incs, cid, j, n, kinds)
           R == Places(incs, cid, i, n, kinds)
<1>1. j \in Nat
  OBVIOUS
<1>2. IsFiniteSet(P) /\ IsFiniteSet(Q)
  BY <1>1, CountIsNat
<1>3. R = P \cup Q /\ P \cap Q = {}
  BY DEF Places
<1> HIDE DEF P, Q, R
<1>4. Cardinality(P \cap Q) = 0
  BY <1>3, FS_EmptySet
<1>5. Cardinality(R) = Cardinality(P) + Cardinality(Q) - Cardinality(P \cap Q)
  BY <1>2, <1>3, FS_Union
<1>6. Cardinality(P) \in Nat /\ Cardinality(Q) \in Nat
  BY <1>2, FS_CardinalityType
<1>7. Cardinality(R) = Cardinality(P) + Cardinality(Q)
  BY <1>4, <1>5, <1>6
<1> QED
  BY <1>7 DEF Count, P, Q, R

\* What is above does not matter.
LEMMA CountBelow ==
  ASSUME NEW s \in Seq(Increment), NEW t \in Seq(Increment), NEW cid, NEW i \in Nat,
         NEW j \in 0..Len(s), NEW kinds
  PROVE  Count(s \o t, cid, i, j, kinds) = Count(s, cid, i, j, kinds)
<1>1. \A k \in 1..Len(s) : (s \o t)[k] = s[k]
  BY ConcatProperties
<1>2. Places(s \o t, cid, i, j, kinds) = Places(s, cid, i, j, kinds)
  BY <1>1 DEF Places
<1> QED
  BY <1>2 DEF Count

(***************************************************************************)
(* The search finds no place below one that takes back another: when place *)
(* m is not skipped but a later place j of the kinds that skip matches it, *)
(* there is a place above j that is not skipped either.                    *)
(***************************************************************************)
LEMMA FoundAbove ==
  ASSUME NEW incs, NEW cid, NEW n \in Nat, NEW A, NEW B, NEW m \in 1..n, NEW j \in m + 1..n,
         incs[j].id = cid, incs[j].kind \in A, incs[j].kind \notin B,
         Count(incs, cid, m, n, A) = Count(incs, cid, m, n, B),
         Count(incs, cid, m, j - 1, A) = Count(incs, cid, m, j - 1, B)
  PROVE  \E k \in j + 1..n :
           /\ incs[k].id = cid /\ incs[k].kind \in B
           /\ Count(incs, cid, k, n, A) = Count(incs, cid, k, n, B)
<1> DEFINE a(k) == Count(incs, cid, k, n, A)
           b(k) == Count(incs, cid, k, n, B)
<1>1. \A k \in Nat : a(k) \in Nat /\ b(k) \in Nat
  BY CountIsNat
<1>2. \A k \in 1..n : /\ a(k - 1) \in {a(k), a(k) + 1}
                      /\ b(k - 1) \in {b(k), b(k) + 1}
                      /\ b(k - 1) = b(k) + 1 => incs[k].id = cid /\ incs[k].kind \in B
  <2> SUFFICES ASSUME NEW k \in 1..n
               PROVE  /\ a(k - 1) \in {a(k), a(k) + 1}
                      /\ b(k - 1) \in {b(k), b(k) + 1}
                      /\ b(k - 1) = b(k) + 1 => incs[k].id = cid /\ incs[k].kind \in B
    OBVIOUS
  <2>1. a(k - 1) = a(k) + (IF incs[k].id = cid /\ incs[k].kind \in A THEN 1 ELSE 0)
    BY CountFrom
  <2>2. b(k - 1) = b(k) + (IF incs[k].id = cid /\ incs[k].kind \in B THEN 1 ELSE 0)
    BY CountFrom
  <2>3. a(k) \in Nat /\ b(k) \in Nat
    BY <1>1
  <2> HIDE DEF a, b
  <2> QED
    BY <2>1, <2>2, <2>3
<1>3. a(j) + 1 = b(j)
  <2>0. j \in 1..n /\ j - 1 \in m..n /\ j - 1 \in Nat /\ m \in Nat
    OBVIOUS
  <2>1. a(m) = Count(incs, cid, m, j - 1, A) + a(j - 1)
    BY <2>0, CountSplit
  <2>2. b(m) = Count(incs, cid, m, j - 1, B) + b(j - 1)
    BY <2>0, CountSplit
  <2>3. Count(incs, cid, m, j - 1, A) \in Nat
    BY <2>0, CountIsNat
  <2>4. a(j - 1) = a(j) + 1 /\ b(j - 1) = b(j) + 0
    BY <2>0, CountFrom
  <2>5. a(j - 1) \in Nat /\ b(j - 1) \in Nat /\ a(j) \in Nat /\ b(j) \in Nat /\ a(m) = b(m)
    BY <1>1, <2>0
  <2> DEFINE c == Count(incs, cid, m, j - 1, A)
  <2>6. c + a(j - 1) = c + b(j - 1) /\ c \in Nat
    BY <2>1, <2>2, <2>3, <2>5
  <2>7. \A x, y, z \in Nat : z + x = z + y => x = y
    OBVIOUS
  <2> HIDE DEF c
  <2>8. a(j - 1) = b(j - 1)
    BY <2>5, <2>6, <2>7
  <2>9. a(j) + 1 = b(j) + 0
    BY <2>4, <2>8
  <2> QED
    BY <2>5, <2>9
<1>4. a(n) = 0 /\ b(n) = 0
  <2>1. Places(incs, cid, n, n, A) = {} /\ Places(incs, cid, n, n, B) = {}
    BY DEF Places
  <2> QED
    BY <2>1, FS_EmptySet DEF Count
<1> DEFINE T == {k \in j..n : b(k) <= a(k)}
<1>5. PICK k \in T : \A l \in T : k <= l
  <2>1. T \in SUBSET Nat
    OBVIOUS
  <2>2. n \in T
    BY <1>4
  <2> HIDE DEF T
  <2> QED
    BY <2>1, <2>2, LeastNumber
<1>6. k \in j..n /\ b(k) <= a(k)
  OBVIOUS
<1>7. k # j
  <2> HIDE DEF a, b
  <2> QED
    BY <1>1, <1>3, <1>6
<1>8. k \in j + 1..n /\ k \in 1..n /\ k - 1 \in j..n /\ k \in Nat /\ k - 1 \in Nat /\ ~ (k <= k - 1)
  BY <1>6, <1>7
<1>9. ~ (b(k - 1) <= a(k - 1))
  <2>1. k - 1 \notin T
    <3> HIDE DEF T
    <3> QED
      BY <1>5, <1>8
  <2> QED
    BY <1>8, <2>1
<1>10. b(k - 1) = b(k) + 1 /\ a(k) = b(k)
  <2>1. a(k) \in Nat /\ b(k) \in Nat /\ a(k - 1) \in {a(k), a(k) + 1} /\ b(k - 1) \in {b(k), b(k) + 1}
    BY <1>1, <1>2, <1>8
  <2> HIDE DEF a, b, T
  <2> QED
    BY <1>6, <1>9, <2>1
<1>11. incs[k].id = cid /\ incs[k].kind \in B
  BY <1>2, <1>8, <1>10
<1> QED
  BY <1>8, <1>10, <1>11

----------------------------------------------------------------------------
(***************************************************************************)
(* The order of a stack.  An element begins with its object; it is taken   *)
(* back and brought back in turn, by its own client, and in between that   *)
(* client brought back as much as it took back.                            *)
(***************************************************************************)
FirstObject(incs) ==
  \A j \in DOMAIN incs :
    incs[j].kind = "Object" <=> \A i \in 1..j - 1 : incs[i].el # incs[j].el

Takes(incs, i, j) ==
  /\ incs[i].id = incs[j].id
  /\ IF incs[i].kind = "Undo"
     THEN /\ incs[j].kind = "Redo"
          /\ Count(incs, incs[i].id, i, j - 1, {"Redo"})
               = Count(incs, incs[i].id, i, j - 1, {"Undo"})
     ELSE /\ incs[j].kind = "Undo"
          /\ Count(incs, incs[i].id, i, j - 1, {"Undo"})
               = Count(incs, incs[i].id, i, j - 1, {"Object", "Redo"})

Followed(incs) ==
  \A j \in DOMAIN incs : \A i \in 1..j - 1 :
    /\ incs[i].el = incs[j].el
    /\ \A k \in i + 1..j - 1 : incs[k].el # incs[i].el
    => Takes(incs, i, j)

InTurn(incs) == FirstObject(incs) /\ Followed(incs)

Els(incs) == {incs[i].el : i \in DOMAIN incs}

\* The next place of the same element.
LEMMA NextPlace ==
  ASSUME NEW incs \in Seq(Increment), Followed(incs), NEW m \in DOMAIN incs, NEW l \in DOMAIN incs,
         m < l, incs[l].el = incs[m].el
  PROVE  \E j \in m + 1..Len(incs) : Takes(incs, m, j)
<1> DEFINE T == {j \in m + 1..Len(incs) : incs[j].el = incs[m].el}
<1>1. DOMAIN incs = 1..Len(incs) /\ Len(incs) \in Nat /\ m \in Nat
  OBVIOUS
<1>2. PICK j \in T : \A k \in T : j <= k
  <2>1. T \in SUBSET Nat
    BY <1>1
  <2>2. l \in T
    BY <1>1
  <2> HIDE DEF T
  <2> QED
    BY <2>1, <2>2, LeastNumber
<1>3. j \in m + 1..Len(incs) /\ incs[j].el = incs[m].el
  OBVIOUS
<1>4. ASSUME NEW k \in m + 1..j - 1 PROVE incs[k].el # incs[m].el
  <2>1. k \in m + 1..Len(incs) /\ ~ (j <= k)
    BY <1>1, <1>3
  <2>2. k \notin T
    <3> HIDE DEF T
    <3> QED
      BY <1>2, <2>1
  <2> QED
    BY <2>1, <2>2
<1>5. j \in DOMAIN incs /\ m \in 1..j - 1
  BY <1>1, <1>3
<1> QED
  BY <1>3, <1>4, <1>5 DEF Followed

----------------------------------------------------------------------------
LEMMA Searched ==
  ASSUME NEW v \in Views, NEW cid \in ClientId, NEW k
  PROVE  /\ k \in Undoable(v, cid) <=>
              /\ k \in 2..Len(v.increments) /\ v.increments[k].id = cid
              /\ v.increments[k].kind \in {"Object", "Redo"}
              /\ Count(v.increments, cid, k, Len(v.increments), {"Undo"})
                   = Count(v.increments, cid, k, Len(v.increments), {"Object", "Redo"})
         /\ k \in Redoable(v, cid) <=>
              /\ k \in 2..Len(v.increments) /\ v.increments[k].id = cid
              /\ v.increments[k].kind = "Undo"
              /\ Count(v.increments, cid, k, Len(v.increments), {"Redo"})
                   = Count(v.increments, cid, k, Len(v.increments), {"Undo"})
<1>1. v.increments \in Seq(Increment) /\ Len(v.increments) \in Nat
  BY DEF Views, PageView
<1>2. ASSUME k \in 2..Len(v.increments)
      PROVE  v.increments[k].kind \in {"Object", "Undo", "Redo"}
  <2>1. v.increments[k] \in Increment
    BY <1>1, <1>2, ElementOfSeq
  <2> QED
    BY <2>1 DEF Increment
<1>3. \A kinds : Above(v, cid, k, kinds) = Count(v.increments, cid, k, Len(v.increments), kinds)
  BY DEF Above, Count, Places
<1> QED
  BY <1>2, <1>3 DEF Undoable, Redoable

\* What is undone is the last step of its element ...
LEMMA UndoneIsLast ==
  ASSUME NEW v \in Views, NEW cid \in ClientId, Followed(v.increments), Undoable(v, cid) # {},
         NEW l \in Max(Undoable(v, cid)) + 1..Len(v.increments)
  PROVE  v.increments[l].el # v.increments[Max(Undoable(v, cid))].el
<1> DEFINE incs == v.increments
           n == Len(incs)
           S == Undoable(v, cid)
           m == Max(S)
           U == {"Undo"}
           R == {"Object", "Redo"}
<1>1. incs \in Seq(Increment) /\ n \in Nat /\ DOMAIN incs = 1..n
  BY DEF Views, PageView
<1>2. S \in SUBSET (1..n) /\ m \in S /\ \A i \in S : i <= m
  <2>1. S \in SUBSET (1..n)
    BY UndoablePlaces
  <2> HIDE DEF S, n
  <2> QED
    BY <1>1, <2>1, LastPlace DEF S
<1> SUFFICES ASSUME incs[l].el = incs[m].el PROVE FALSE
  OBVIOUS
<1> HIDE DEF m
<1>3. m \in 2..n /\ incs[m].id = cid /\ incs[m].kind \in R
      /\ Count(incs, cid, m, n, U) = Count(incs, cid, m, n, R)
  BY <1>2, Searched
<1>4. l \in m + 1..n
  BY DEF m
<1>5. m \in DOMAIN incs /\ l \in DOMAIN incs /\ m < l
  BY <1>1, <1>3, <1>4
<1> HIDE DEF incs
<1>6. PICK j \in m + 1..Len(incs) : Takes(incs, m, j)
  BY <1>1, <1>5, NextPlace DEF incs
<1>7. /\ incs[j].id = cid /\ incs[j].kind \in U /\ incs[j].kind \notin R
      /\ Count(incs, cid, m, j - 1, U) = Count(incs, cid, m, j - 1, R)
  BY <1>3, <1>6 DEF Takes
<1>8. m \in 1..n /\ j \in m + 1..n
  BY <1>3, <1>6
<1> HIDE DEF n, U, R
<1>9. PICK k \in j + 1..n : /\ incs[k].id = cid /\ incs[k].kind \in R
                            /\ Count(incs, cid, k, n, U) = Count(incs, cid, k, n, R)
  BY <1>1, <1>3, <1>7, <1>8, FoundAbove
<1>10. k \in 2..n /\ ~ (k <= m)
  BY <1>1, <1>3, <1>8, <1>9
<1>11. k \in S
  BY <1>9, <1>10, Searched DEF incs, n, U, R
<1> QED
  BY <1>2, <1>10, <1>11

\* ... and so is what is redone.
LEMMA RedoneIsLast ==
  ASSUME NEW v \in Views, NEW cid \in ClientId, Followed(v.increments), Redoable(v, cid) # {},
         NEW l \in Max(Redoable(v, cid)) + 1..Len(v.increments)
  PROVE  v.increments[l].el # v.increments[Max(Redoable(v, cid))].el
<1> DEFINE incs == v.increments
           n == Len(incs)
           S == Redoable(v, cid)
           m == Max(S)
           U == {"Redo"}
           R == {"Undo"}
<1>1. incs \in Seq(Increment) /\ n \in Nat /\ DOMAIN incs = 1..n
  BY DEF Views, PageView
<1>2. S \in SUBSET (1..n) /\ m \in S /\ \A i \in S : i <= m
  <2>1. S \in SUBSET (1..n)
    BY UndoablePlaces
  <2> HIDE DEF S, n
  <2> QED
    BY <1>1, <2>1, LastPlace DEF S
<1> SUFFICES ASSUME incs[l].el = incs[m].el PROVE FALSE
  OBVIOUS
<1> HIDE DEF m
<1>3. m \in 2..n /\ incs[m].id = cid /\ incs[m].kind \in R
      /\ Count(incs, cid, m, n, U) = Count(incs, cid, m, n, R)
  BY <1>2, Searched
<1>4. l \in m + 1..n
  BY DEF m
<1>5. m \in DOMAIN incs /\ l \in DOMAIN incs /\ m < l
  BY <1>1, <1>3, <1>4
<1> HIDE DEF incs
<1>6. PICK j \in m + 1..Len(incs) : Takes(incs, m, j)
  BY <1>1, <1>5, NextPlace DEF incs
<1>7. /\ incs[j].id = cid /\ incs[j].kind \in U /\ incs[j].kind \notin R
      /\ Count(incs, cid, m, j - 1, U) = Count(incs, cid, m, j - 1, R)
  BY <1>3, <1>6 DEF Takes
<1>8. m \in 1..n /\ j \in m + 1..n
  BY <1>3, <1>6
<1> HIDE DEF n, U, R
<1>9. PICK k \in j + 1..n : /\ incs[k].id = cid /\ incs[k].kind \in R
                            /\ Count(incs, cid, k, n, U) = Count(incs, cid, k, n, R)
  BY <1>1, <1>3, <1>7, <1>8, FoundAbove
<1>10. k \in 2..n /\ ~ (k <= m)
  BY <1>1, <1>3, <1>8, <1>9
<1>11. k \in S
  BY <1>9, <1>10, Searched DEF incs, n, U, R
<1> QED
  BY <1>2, <1>10, <1>11

----------------------------------------------------------------------------
\* Takes speaks of no place above the second.
LEMMA TakesBelow ==
  ASSUME NEW s \in Seq(Increment), NEW x \in Increment, NEW j \in 1..Len(s) + 1, NEW i \in 1..j - 1
  PROVE  LET t == s \o <<x>>
             y == IF j <= Len(s) THEN s[j] ELSE x
         IN Takes(t, i, j) <=>
              /\ s[i].id = y.id
              /\ IF s[i].kind = "Undo"
                 THEN /\ y.kind = "Redo"
                      /\ Count(s, s[i].id, i, j - 1, {"Redo"})
                           = Count(s, s[i].id, i, j - 1, {"Undo"})
                 ELSE /\ y.kind = "Undo"
                      /\ Count(s, s[i].id, i, j - 1, {"Undo"})
                           = Count(s, s[i].id, i, j - 1, {"Object", "Redo"})
<1> DEFINE t == s \o <<x>>
           y == IF j <= Len(s) THEN s[j] ELSE x
<1>1. <<x>> \in Seq(Increment) /\ Len(<<x>>) = 1 /\ Len(s) \in Nat
  OBVIOUS
<1>2. i \in 1..Len(s) /\ i \in Nat /\ j - 1 \in 0..Len(s)
  BY <1>1
<1>3. t[i] = s[i] /\ t[j] = y
  BY <1>1, <1>2, ConcatProperties
<1>4. \A cid, kinds : Count(t, cid, i, j - 1, kinds) = Count(s, cid, i, j - 1, kinds)
  <2> DEFINE z == <<x>>
             h == j - 1
  <2> SUFFICES ASSUME NEW cid, NEW kinds
               PROVE  Count(t, cid, i, h, kinds) = Count(s, cid, i, h, kinds)
    OBVIOUS
  <2>1. z \in Seq(Increment) /\ t = s \o z /\ i \in Nat /\ h \in 0..Len(s)
    BY <1>1, <1>2
  <2> HIDE DEF z, h, t
  <2> QED
    BY <2>1, CountBelow
<1> HIDE DEF t, y
<1> QED
  BY <1>3, <1>4 DEF Takes, t, y

LEMMA ElsAdded ==
  ASSUME NEW s \in Seq(Increment), NEW x \in Increment
  PROVE  /\ s \o <<x>> \in Seq(Increment)
         /\ Len(s \o <<x>>) = Len(s) + 1 /\ DOMAIN (s \o <<x>>) = 1..Len(s) + 1
         /\ \A i \in 1..Len(s) : (s \o <<x>>)[i] = s[i]
         /\ (s \o <<x>>)[Len(s) + 1] = x
         /\ Els(s \o <<x>>) = Els(s) \union {x.el}
<1> DEFINE t == s \o <<x>>
<1>1. <<x>> \in Seq(Increment) /\ Len(<<x>>) = 1 /\ Len(s) \in Nat /\ DOMAIN s = 1..Len(s) /\ <<x>>[1] = x
  OBVIOUS
<1>2. t \in Seq(Increment) /\ Len(t) = Len(s) + 1 /\ DOMAIN t = 1..Len(s) + 1
      /\ \A i \in 1..Len(s) : t[i] = s[i]
  BY <1>1, ConcatProperties
<1>3. t[Len(s) + 1] = x
  BY <1>1, ConcatProperties
<1> HIDE DEF t
<1>4. Els(t) = Els(s) \union {x.el}
  <2>1. ASSUME NEW d \in Els(t) PROVE d \in Els(s) \union {x.el}
    <3>1. PICK i \in DOMAIN t : d = t[i].el
      BY DEF Els
    <3> QED
      BY <1>1, <1>2, <1>3, <3>1 DEF Els
  <2>2. ASSUME NEW d \in Els(s) PROVE d \in Els(t)
    <3>1. PICK i \in DOMAIN s : d = s[i].el
      BY DEF Els
    <3>2. i \in DOMAIN t /\ t[i] = s[i]
      BY <1>1, <1>2, <3>1
    <3> QED
      BY <3>1, <3>2 DEF Els
  <2>3. x.el \in Els(t)
    <3>1. Len(s) + 1 \in DOMAIN t
      BY <1>1, <1>2
    <3> QED
      BY <1>3, <3>1 DEF Els
  <2> QED
    BY <2>1, <2>2, <2>3
<1> QED
  BY <1>2, <1>3, <1>4 DEF t

(***************************************************************************)
(* A stack stays in turn with a new object on it, or with a step that      *)
(* follows the last one of its element.                                    *)
(***************************************************************************)
LEMMA InTurnAdded ==
  ASSUME NEW s \in Seq(Increment), InTurn(s), NEW x \in Increment,
         \/ x.kind = "Object" /\ x.el \notin Els(s)
         \/ /\ x.kind # "Object"
            /\ \E m \in DOMAIN s :
                 /\ s[m].el = x.el
                 /\ \A l \in m + 1..Len(s) : s[l].el # x.el
                 /\ Takes(s \o <<x>>, m, Len(s) + 1)
  PROVE  InTurn(s \o <<x>>)
<1> DEFINE n == Len(s)
           t == s \o <<x>>
<1>1. /\ t \in Seq(Increment) /\ DOMAIN t = 1..n + 1 /\ t[n + 1] = x /\ n \in Nat
      /\ DOMAIN s = 1..n /\ \A i \in 1..n : t[i] = s[i]
  BY ElsAdded
<1> HIDE DEF t
<1>2. ASSUME NEW j \in DOMAIN t
      PROVE  t[j].kind = "Object" <=> \A i \in 1..j - 1 : t[i].el # t[j].el
  <2>1. CASE j \in 1..n
    <3>1. t[j] = s[j] /\ \A i \in 1..j - 1 : t[i] = s[i]
      BY <1>1, <2>1
    <3>2. s[j].kind = "Object" <=> \A i \in 1..j - 1 : s[i].el # s[j].el
      BY <1>1, <2>1 DEF InTurn, FirstObject
    <3> QED
      BY <3>1, <3>2
  <2>2. CASE j = n + 1
    <3>1. t[j] = x /\ j - 1 = n
      BY <1>1, <2>2
    <3>2. x.kind = "Object" <=> \A i \in 1..n : t[i].el # x.el
      <4>1. CASE x.kind = "Object"
        BY <1>1, <4>1 DEF Els
      <4>2. CASE x.kind # "Object"
        BY <1>1, <4>2
      <4> QED
        BY <4>1, <4>2
    <3> QED
      BY <3>1, <3>2
  <2> QED
    BY <1>1, <2>1, <2>2
<1>3. ASSUME NEW j \in DOMAIN t, NEW i \in 1..j - 1, t[i].el = t[j].el,
             \A k \in i + 1..j - 1 : t[k].el # t[i].el
      PROVE  Takes(t, i, j)
  <2>1. CASE j \in 1..n
    <3>1. t[j] = s[j] /\ t[i] = s[i] /\ \A k \in i + 1..j - 1 : t[k] = s[k]
      BY <1>1, <2>1
    <3>2. s[i].el = s[j].el /\ \A k \in i + 1..j - 1 : s[k].el # s[i].el
      BY <1>3, <3>1
    <3>3. Takes(s, i, j)
      BY <1>1, <2>1, <3>2 DEF InTurn, Followed
    <3>4. j \in 1..Len(s) + 1 /\ j <= Len(s)
      BY <1>1, <2>1
    <3> QED
      BY <3>3, <3>4, TakesBelow DEF Takes, t
  <2>2. CASE j = n + 1
    <3>1. i \in 1..n /\ t[j] = x /\ t[i] = s[i] /\ s[i].el = x.el
      BY <1>1, <1>3, <2>2
    <3>2. x.el \in Els(s)
      BY <1>1, <3>1 DEF Els
    <3>3. PICK m \in DOMAIN s : /\ s[m].el = x.el
                                /\ \A l \in m + 1..Len(s) : s[l].el # x.el
                                /\ Takes(s \o <<x>>, m, Len(s) + 1)
      BY <3>2
    <3>4. ~ (i > m)
      BY <1>1, <3>1, <3>3
    <3>5. ~ (m > i)
      <4>1. ASSUME m > i PROVE FALSE
        <5>1. m \in i + 1..j - 1 /\ t[m] = s[m]
          BY <1>1, <2>2, <3>1, <3>3, <4>1
        <5> QED
          BY <1>3, <3>1, <3>3, <5>1
      <4> QED
        BY <4>1
    <3>6. i = m
      BY <1>1, <3>1, <3>3, <3>4, <3>5
    <3> QED
      BY <2>2, <3>3, <3>6 DEF t
  <2> QED
    BY <1>1, <2>1, <2>2
<1>4. FirstObject(t)
  BY <1>2 DEF FirstObject
<1>5. Followed(t)
  BY <1>3 DEF Followed
<1> QED
  BY <1>4, <1>5 DEF InTurn, t

----------------------------------------------------------------------------
(***************************************************************************)
(* What a handler adds keeps a stack in turn, when objects are new to it.  *)
(***************************************************************************)
LEMMA AddedInTurn ==
  ASSUME NEW v \in Views, NEW e \in Event, InTurn(v.increments),
         e.type = "Object" => e.el \notin Els(v.increments)
  PROVE  /\ InTurn(v.increments \o Added(v, e))
         /\ Els(v.increments \o Added(v, e))
              = Els(v.increments) \union (IF e.type = "Object" THEN {e.el} ELSE {})
<1> DEFINE s == v.increments
           n == Len(s)
<1>1. s \in Seq(Increment) /\ n \in Nat /\ DOMAIN s = 1..n /\ s \o <<>> = s
  BY ConcatEmptySeq DEF Views, PageView
<1>2. e.id \in ClientId /\ e.el \in Nat
  BY DEF Event
<1>3. CASE Added(v, e) = <<>>
  <2>1. e.type # "Object"
    BY <1>3 DEF Added
  <2> QED
    BY <1>1, <1>3, <2>1
<1>4. CASE e.type = "Object"
  <2> DEFINE x == [kind |-> "Object", id |-> e.id, el |-> e.el]
  <2>1. Added(v, e) = <<x>> /\ x \in Increment /\ x.kind = "Object" /\ x.el = e.el
    BY <1>2, <1>4 DEF Added, Increment
  <2> HIDE DEF x, s
  <2>2. InTurn(s \o <<x>>)
    BY <1>1, <1>4, <2>1, InTurnAdded DEF s
  <2>3. Els(s \o <<x>>) = Els(s) \union {x.el}
    BY <1>1, <2>1, ElsAdded
  <2> QED
    BY <1>4, <2>1, <2>2, <2>3 DEF s
<1>5. CASE e.type = "Undo" /\ Undoable(v, e.id) # {}
  <2> DEFINE S == Undoable(v, e.id)
             m == Max(S)
             x == [kind |-> "Undo", id |-> e.id, el |-> s[m].el]
  <2>1. m \in S
    BY <1>2, <1>5, UndoablePlaces
  <2>2. /\ m \in 1..n /\ s[m].id = e.id /\ s[m].kind # "Undo"
        /\ Count(s, e.id, m, n, {"Undo"}) = Count(s, e.id, m, n, {"Object", "Redo"})
    BY <1>1, <1>2, <2>1, Searched
  <2>3. s[m] \in Increment
    BY <1>1, <2>2, ElementOfSeq
  <2>4. Added(v, e) = <<x>> /\ x \in Increment /\ x.kind = "Undo" /\ x.el = s[m].el /\ x.id = e.id
    BY <1>2, <1>5, <2>3 DEF Added, Increment
  <2>5. \A l \in m + 1..n : s[l].el # s[m].el
    BY <1>2, <1>5, UndoneIsLast DEF InTurn
  <2> HIDE DEF x, m, S, s
  <2>6. n + 1 \in 1..n + 1 /\ m \in 1..n + 1 - 1 /\ ~ (n + 1 <= n) /\ n + 1 - 1 = n
    BY <1>1, <2>2
  <2>7. Takes(s \o <<x>>, m, n + 1)
    BY <1>1, <2>2, <2>4, <2>6, TakesBelow
  <2>8. InTurn(s \o <<x>>)
    <3>1. m \in DOMAIN s /\ s[m].el = x.el /\ \A l \in m + 1..Len(s) : s[l].el # x.el
      BY <1>1, <2>2, <2>4, <2>5
    <3> QED
      BY <1>1, <2>4, <2>7, <3>1, InTurnAdded DEF s
  <2>9. Els(s \o <<x>>) = Els(s) \union {x.el} /\ x.el \in Els(s)
    BY <1>1, <2>2, <2>4, ElsAdded DEF Els
  <2> QED
    BY <1>5, <2>4, <2>8, <2>9 DEF s
<1>6. CASE e.type = "Redo" /\ Redoable(v, e.id) # {}
  <2> DEFINE S == Redoable(v, e.id)
             m == Max(S)
             x == [kind |-> "Redo", id |-> e.id, el |-> s[m].el]
  <2>1. m \in S
    BY <1>2, <1>6, UndoablePlaces
  <2>2. /\ m \in 1..n /\ s[m].id = e.id /\ s[m].kind = "Undo"
        /\ Count(s, e.id, m, n, {"Redo"}) = Count(s, e.id, m, n, {"Undo"})
    BY <1>1, <1>2, <2>1, Searched
  <2>3. s[m] \in Increment
    BY <1>1, <2>2, ElementOfSeq
  <2>4. Added(v, e) = <<x>> /\ x \in Increment /\ x.kind = "Redo" /\ x.el = s[m].el /\ x.id = e.id
    BY <1>2, <1>6, <2>3 DEF Added, Increment
  <2>5. \A l \in m + 1..n : s[l].el # s[m].el
    BY <1>2, <1>6, RedoneIsLast DEF InTurn
  <2> HIDE DEF x, m, S, s
  <2>6. n + 1 \in 1..n + 1 /\ m \in 1..n + 1 - 1 /\ ~ (n + 1 <= n) /\ n + 1 - 1 = n
    BY <1>1, <2>2
  <2>7. Takes(s \o <<x>>, m, n + 1)
    BY <1>1, <2>2, <2>4, <2>6, TakesBelow
  <2>8. InTurn(s \o <<x>>)
    <3>1. m \in DOMAIN s /\ s[m].el = x.el /\ \A l \in m + 1..Len(s) : s[l].el # x.el
      BY <1>1, <2>2, <2>4, <2>5
    <3> QED
      BY <1>1, <2>4, <2>7, <3>1, InTurnAdded DEF s
  <2>9. Els(s \o <<x>>) = Els(s) \union {x.el} /\ x.el \in Els(s)
    BY <1>1, <2>2, <2>4, ElsAdded DEF Els
  <2> QED
    BY <1>6, <2>4, <2>8, <2>9 DEF s
<1> QED
  BY <1>3, <1>4, <1>5, <1>6 DEF Added

(***************************************************************************)
(* In such a stack every undo hides what shows, and nothing else does.     *)
(***************************************************************************)
ShowsAt(s, d) ==
  \E i \in DOMAIN s : /\ s[i].el = d /\ s[i].kind # "Undo"
                      /\ \A j \in i + 1..Len(s) : s[j].el # d

LEMMA ShownLast ==
  ASSUME NEW s \in Seq(Increment), NEW d
  PROVE  d \in Shown(s) <=> ShowsAt(s, d)
<1> DEFINE steps == Steps(s)
           last == {i \in DOMAIN steps : \A j \in i + 1..Len(steps) : steps[j].el # steps[i].el}
<1>1. Len(s) \in Nat /\ DOMAIN s = 1..Len(s)
  OBVIOUS
<1>2. /\ DOMAIN steps = DOMAIN s /\ Len(steps) = Len(s)
      /\ \A i \in DOMAIN s : steps[i].el = s[i].el /\ steps[i].shows = (s[i].kind # "Undo")
  BY <1>1 DEF Steps
<1>3. Shown(s) = ({} \ {steps[i].el : i \in last})
                   \union {steps[i].el : i \in {j \in last : steps[j].shows}}
  BY DEF Shown, After
<1> HIDE DEF steps
<1>4. \A i : i \in last <=> i \in DOMAIN s /\ \A j \in i + 1..Len(s) : s[j].el # s[i].el
  BY <1>1, <1>2
<1> HIDE DEF last
<1>5. d \in Shown(s) <=> \E i \in last : steps[i].shows /\ steps[i].el = d
  BY <1>3
<1>6. \A i \in last : i \in DOMAIN s
  BY <1>4
<1>7. d \in Shown(s) <=> \E i \in last : s[i].kind # "Undo" /\ s[i].el = d
  BY <1>2, <1>5, <1>6
<1> QED
  BY <1>4, <1>7 DEF ShowsAt

LEMMA InTurnChanges ==
  ASSUME NEW incs \in Seq(Increment), InTurn(incs), NEW i \in DOMAIN incs
  PROVE  LET before == Shown(SubSeq(incs, 1, i - 1)) IN
           (incs[i].kind = "Undo") = (incs[i].el \in before)
<1> DEFINE s == SubSeq(incs, 1, i - 1)
           d == incs[i].el
           T == {j \in 1..i - 1 : incs[j].el = d}
<1>1. DOMAIN incs = 1..Len(incs) /\ Len(incs) \in Nat /\ i \in 1..Len(incs) /\ i - 1 \in Nat
  OBVIOUS
<1>2. s \in Seq(Increment) /\ Len(s) = i - 1 /\ DOMAIN s = 1..i - 1 /\ \A j \in 1..i - 1 : s[j] = incs[j]
  <2>1. \A j \in 1..i - 1 : incs[j] \in Increment
    BY <1>1, ElementOfSeq
  <2>2. s \in Seq(Increment) /\ Len(s) = (IF 1 <= i - 1 THEN i - 1 - 1 + 1 ELSE 0)
        /\ \A j \in 1..i - 1 - 1 + 1 : s[j] = incs[1 + j - 1]
    BY <1>1, <2>1, SubSeqProperties
  <2> HIDE DEF s
  <2>3. Len(s) = i - 1
    BY <1>1, <2>2
  <2>4. \A j \in 1..i - 1 : j \in 1..i - 1 - 1 + 1 /\ 1 + j - 1 = j
    BY <1>1
  <2> QED
    BY <2>2, <2>3, <2>4
<1> HIDE DEF s
<1>3. d \in Shown(s) <=> ShowsAt(s, d)
  BY <1>2, ShownLast
<1>4. incs[i].kind = "Object" <=> T = {}
  BY <1>1 DEF InTurn, FirstObject
<1>5. CASE T = {}
  <2>1. ~ShowsAt(s, d)
    BY <1>2, <1>5 DEF ShowsAt
  <2> QED
    BY <1>3, <1>4, <1>5, <2>1 DEF s
<1>6. CASE T # {}
  <2> DEFINE m == Max(T)
  <2>1. m \in T /\ \A j \in T : j <= m
    <3>1. T \in SUBSET (1..i - 1)
      OBVIOUS
    <3> HIDE DEF T
    <3> QED
      BY <1>1, <1>6, <3>1, LastPlace
  <2> HIDE DEF m
  <2>2. m \in 1..i - 1 /\ incs[m].el = d
    BY <2>1
  <2>3. ASSUME NEW j \in m + 1..i - 1 PROVE incs[j].el # d
    <3>1. j \in 1..i - 1 /\ ~ (j <= m)
      BY <1>1, <2>2
    <3> QED
      BY <2>1, <3>1
  <2>4. Takes(incs, m, i)
    BY <1>1, <2>2, <2>3 DEF InTurn, Followed
  <2>5. (incs[i].kind = "Undo") <=> (incs[m].kind # "Undo")
    BY <2>4 DEF Takes
  <2>6. ShowsAt(s, d) <=> incs[m].kind # "Undo"
    <3>1. ASSUME incs[m].kind # "Undo" PROVE ShowsAt(s, d)
      <4>1. m \in DOMAIN s /\ s[m].el = d /\ s[m].kind # "Undo"
        BY <1>2, <2>2, <3>1
      <4>2. \A j \in m + 1..Len(s) : s[j].el # d
        <5>1. \A j \in m + 1..Len(s) : j \in 1..i - 1 /\ j \in m + 1..i - 1
          BY <1>1, <1>2, <2>2
        <5> QED
          BY <1>2, <2>3, <5>1
      <4> QED
        BY <4>1, <4>2 DEF ShowsAt
    <3>2. ASSUME ShowsAt(s, d) PROVE incs[m].kind # "Undo"
      <4>1. PICK k \in DOMAIN s : /\ s[k].el = d /\ s[k].kind # "Undo"
                                  /\ \A j \in k + 1..Len(s) : s[j].el # d
        BY <3>2 DEF ShowsAt
      <4>2. k \in 1..i - 1 /\ incs[k].el = d /\ incs[k].kind # "Undo"
        BY <1>2, <4>1
      <4>3. k <= m
        BY <2>1, <4>2
      <4>4. ~ (k < m)
        <5>1. ASSUME k < m PROVE FALSE
          <6>1. m \in k + 1..Len(s) /\ s[m].el = d
            BY <1>1, <1>2, <2>2, <4>2, <5>1
          <6> QED
            BY <4>1, <6>1
        <5> QED
          BY <5>1
      <4>5. k = m
        BY <2>2, <4>2, <4>3, <4>4
      <4> QED
        BY <4>2, <4>5
    <3> QED
      BY <3>1, <3>2
  <2> QED
    BY <1>3, <2>5, <2>6 DEF s
<1> QED
  BY <1>5, <1>6

----------------------------------------------------------------------------
(***************************************************************************)
(* The elements of the finished objects in a message, those of other       *)
(* clients than `own`.                                                     *)
(***************************************************************************)
ObjectsOf(evs, own) ==
  {evs[i].el : i \in {j \in DOMAIN evs : evs[j].type = "Object" /\ evs[j].id # own}}

Objects(evs) == ObjectsOf(evs, 0)

ObjectsOnce(evs) ==
  \A i, j \in DOMAIN evs :
    i # j /\ evs[i].type = "Object" /\ evs[j].type = "Object" => evs[i].el # evs[j].el

LEMMA ObjectsAre ==
  ASSUME NEW evs \in Seq(Event)
  PROVE  /\ \A d : d \in Objects(evs) <=> \E i \in DOMAIN evs : evs[i].type = "Object" /\ evs[i].el = d
         /\ Objects(evs) \subseteq Nat
         /\ \A own : ObjectsOf(evs, own) \subseteq Objects(evs)
<1>1. \A i \in DOMAIN evs : evs[i].id # 0 /\ evs[i].el \in Nat
  <2>1. \A i \in DOMAIN evs : evs[i] \in Event
    BY ElementOfSeq
  <2> QED
    BY <2>1 DEF Event, ClientId
<1> QED
  BY <1>1 DEF Objects, ObjectsOf

LEMMA NoObjects ==
  /\ \A own : ObjectsOf(<<>>, own) = {}
  /\ Objects(<<>>) = {} /\ ObjectsOnce(<<>>)
BY DEF Objects, ObjectsOf, ObjectsOnce

LEMMA ObjectsOfOne ==
  ASSUME NEW e \in Event
  PROVE  /\ <<e>> \in Seq(Event)
         /\ Objects(<<e>>) = IF e.type = "Object" THEN {e.el} ELSE {}
         /\ \A own : ObjectsOf(<<e>>, own) =
                       IF e.type = "Object" /\ e.id # own THEN {e.el} ELSE {}
         /\ ObjectsOnce(<<e>>)
<1> DEFINE s == <<e>>
<1>1. s \in Seq(Event) /\ DOMAIN s = {1} /\ s[1] = e
  OBVIOUS
<1>2. e.id # 0
  BY DEF Event, ClientId
<1> HIDE DEF s
<1>3. \A own : ObjectsOf(s, own) = IF e.type = "Object" /\ e.id # own THEN {e.el} ELSE {}
  BY <1>1 DEF ObjectsOf
<1>4. ObjectsOnce(s)
  BY <1>1 DEF ObjectsOnce
<1> QED
  BY <1>1, <1>2, <1>3, <1>4 DEF s, Objects

LEMMA ObjectsOfBoth ==
  ASSUME NEW s \in Seq(Event), NEW t \in Seq(Event)
  PROVE  /\ s \o t \in Seq(Event)
         /\ \A own : ObjectsOf(s \o t, own) = ObjectsOf(s, own) \union ObjectsOf(t, own)
         /\ Objects(s \o t) = Objects(s) \union Objects(t)
         /\ ObjectsOnce(s) /\ ObjectsOnce(t) /\ Objects(s) \cap Objects(t) = {} =>
              ObjectsOnce(s \o t)
<1> DEFINE u == s \o t
<1>1. /\ u \in Seq(Event) /\ Len(s) \in Nat /\ Len(t) \in Nat
      /\ DOMAIN s = 1..Len(s) /\ DOMAIN t = 1..Len(t) /\ DOMAIN u = 1..Len(s) + Len(t)
      /\ \A i \in 1..Len(s) : u[i] = s[i]
      /\ \A i \in Len(s) + 1..Len(s) + Len(t) : u[i] = t[i - Len(s)]
  BY ConcatProperties
<1>2. \A i \in 1..Len(t) : Len(s) + i \in DOMAIN u /\ u[Len(s) + i] = t[i]
  BY ConcatProperties
<1> HIDE DEF u
<1>3. \A own : ObjectsOf(u, own) = ObjectsOf(s, own) \union ObjectsOf(t, own)
  <2> SUFFICES ASSUME NEW own PROVE ObjectsOf(u, own) = ObjectsOf(s, own) \union ObjectsOf(t, own)
    OBVIOUS
  <2>1. ASSUME NEW d \in ObjectsOf(u, own) PROVE d \in ObjectsOf(s, own) \union ObjectsOf(t, own)
    <3>1. PICK i \in DOMAIN u : u[i].type = "Object" /\ u[i].id # own /\ d = u[i].el
      BY DEF ObjectsOf
    <3>2. CASE i \in 1..Len(s)
      BY <1>1, <3>1, <3>2 DEF ObjectsOf
    <3>3. CASE i \notin 1..Len(s)
      <4>1. i - Len(s) \in DOMAIN t /\ u[i] = t[i - Len(s)]
        BY <1>1, <3>1, <3>3
      <4> QED
        BY <3>1, <4>1 DEF ObjectsOf
    <3> QED
      BY <3>2, <3>3
  <2>2. ASSUME NEW d \in ObjectsOf(s, own) PROVE d \in ObjectsOf(u, own)
    <3>1. PICK i \in DOMAIN s : s[i].type = "Object" /\ s[i].id # own /\ d = s[i].el
      BY DEF ObjectsOf
    <3>2. i \in DOMAIN u /\ u[i] = s[i]
      BY <1>1, <3>1
    <3> QED
      BY <3>1, <3>2 DEF ObjectsOf
  <2>3. ASSUME NEW d \in ObjectsOf(t, own) PROVE d \in ObjectsOf(u, own)
    <3>1. PICK i \in DOMAIN t : t[i].type = "Object" /\ t[i].id # own /\ d = t[i].el
      BY DEF ObjectsOf
    <3>2. Len(s) + i \in DOMAIN u /\ u[Len(s) + i] = t[i]
      BY <1>1, <1>2, <3>1
    <3> QED
      BY <3>1, <3>2 DEF ObjectsOf
  <2> QED
    BY <2>1, <2>2, <2>3
<1>4. ASSUME ObjectsOnce(s), ObjectsOnce(t), Objects(s) \cap Objects(t) = {} PROVE ObjectsOnce(u)
  <2> SUFFICES ASSUME NEW i \in DOMAIN u, NEW j \in DOMAIN u, i # j,
                      u[i].type = "Object", u[j].type = "Object"
               PROVE  u[i].el # u[j].el
    BY DEF ObjectsOnce
  <2>1. ASSUME NEW k \in DOMAIN u, u[k].type = "Object", k \in 1..Len(s)
        PROVE  k \in DOMAIN s /\ s[k] = u[k] /\ u[k].el \in Objects(s)
    BY <1>1, <2>1, ObjectsAre
  <2>2. ASSUME NEW k \in DOMAIN u, u[k].type = "Object", k \notin 1..Len(s)
        PROVE  k - Len(s) \in DOMAIN t /\ t[k - Len(s)] = u[k] /\ u[k].el \in Objects(t)
    <3>1. k - Len(s) \in DOMAIN t /\ u[k] = t[k - Len(s)]
      BY <1>1, <2>2
    <3> QED
      BY <2>2, <3>1, ObjectsAre
  <2>3. CASE i \in 1..Len(s) /\ j \in 1..Len(s)
    BY <1>4, <2>1, <2>3 DEF ObjectsOnce
  <2>4. CASE i \notin 1..Len(s) /\ j \notin 1..Len(s)
    <3>1. i - Len(s) # j - Len(s)
      BY <1>1
    <3> QED
      BY <1>4, <2>2, <2>4, <3>1 DEF ObjectsOnce
  <2>5. CASE (i \in 1..Len(s)) # (j \in 1..Len(s))
    BY <1>4, <2>1, <2>2, <2>5
  <2> QED
    BY <2>3, <2>4, <2>5
<1> QED
  BY <1>1, <1>3, <1>4 DEF u, Objects

LEMMA ObjectsOfTail ==
  ASSUME NEW s \in Seq(Event), s # <<>>
  PROVE  /\ Head(s) \in Event /\ Tail(s) \in Seq(Event)
         /\ Objects(Tail(s)) \subseteq Objects(s)
         /\ Objects(s) \subseteq Objects(Tail(s))
                             \union (IF Head(s).type = "Object" THEN {Head(s).el} ELSE {})
         /\ Head(s).type = "Object" => Head(s).el \in Objects(s)
         /\ ObjectsOnce(s) =>
              /\ ObjectsOnce(Tail(s))
              /\ Head(s).type = "Object" => Head(s).el \notin Objects(Tail(s))
<1> DEFINE t == Tail(s)
           h == Head(s)
<1>1. /\ Len(s) \in Nat \ {0} /\ DOMAIN s = 1..Len(s)
      /\ t \in Seq(Event) /\ Len(t) = Len(s) - 1 /\ \A i \in 1..Len(t) : t[i] = s[i + 1]
      /\ h = s[1] /\ h \in Event
  BY HeadTailProperties, EmptySeq
<1>2. DOMAIN t = 1..Len(t)
  BY <1>1
<1> HIDE DEF t, h
<1>3. \A i \in DOMAIN t : i + 1 \in DOMAIN s /\ i + 1 # 1 /\ t[i] = s[i + 1]
  BY <1>1, <1>2
<1>4. 1 \in DOMAIN s
  BY <1>1
<1>5. Objects(t) \subseteq Objects(s)
  <2> SUFFICES ASSUME NEW d \in Objects(t) PROVE d \in Objects(s)
    OBVIOUS
  <2>1. PICK i \in DOMAIN t : t[i].type = "Object" /\ t[i].el = d
    BY <1>1, ObjectsAre
  <2>2. i + 1 \in DOMAIN s /\ t[i] = s[i + 1]
    BY <1>3
  <2> QED
    BY <1>1, <2>1, <2>2, ObjectsAre
<1>6. h.type = "Object" => h.el \in Objects(s)
  BY <1>1, <1>4, ObjectsAre
<1>7. ASSUME ObjectsOnce(s) PROVE ObjectsOnce(t)
  <2> SUFFICES ASSUME NEW i \in DOMAIN t, NEW j \in DOMAIN t, i # j,
                      t[i].type = "Object", t[j].type = "Object"
               PROVE  t[i].el # t[j].el
    BY DEF ObjectsOnce
  <2>1. i + 1 \in DOMAIN s /\ j + 1 \in DOMAIN s /\ i + 1 # j + 1 /\ t[i] = s[i + 1] /\ t[j] = s[j + 1]
    BY <1>2, <1>3
  <2> QED
    BY <1>7, <2>1 DEF ObjectsOnce
<1>8. ASSUME ObjectsOnce(s), h.type = "Object" PROVE h.el \notin Objects(t)
  <2> SUFFICES ASSUME h.el \in Objects(t) PROVE FALSE
    OBVIOUS
  <2>1. PICK i \in DOMAIN t : t[i].type = "Object" /\ t[i].el = h.el
    BY <1>1, ObjectsAre
  <2>2. i + 1 \in DOMAIN s /\ i + 1 # 1 /\ t[i] = s[i + 1]
    BY <1>3
  <2> QED
    BY <1>1, <1>4, <1>8, <2>1, <2>2 DEF ObjectsOnce
<1>9. ASSUME NEW d \in Objects(s), d \notin Objects(t)
      PROVE  h.type = "Object" /\ d = h.el
  <2>1. PICK i \in DOMAIN s : s[i].type = "Object" /\ s[i].el = d
    BY <1>1, ObjectsAre
  <2>2. i = 1
    <3> SUFFICES ASSUME i # 1 PROVE FALSE
      OBVIOUS
    <3>1. i - 1 \in DOMAIN t /\ t[i - 1] = s[i]
      BY <1>1, <1>2
    <3> QED
      BY <1>1, <1>9, <2>1, <3>1, ObjectsAre
  <2> QED
    BY <1>1, <2>1, <2>2
<1> QED
  BY <1>1, <1>5, <1>6, <1>7, <1>8, <1>9 DEF t, h

----------------------------------------------------------------------------
(***************************************************************************)
(* A message keeps a stack in turn when its objects are new to the stack.  *)
(***************************************************************************)
Neat(v, els) == v.astray \/ (InTurn(v.increments) /\ Els(v.increments) \subseteq els)

LEMMA NeatAfter ==
  ASSUME NEW u \in Views, NEW own, NEW e \in Event, NEW els, Neat(u, els),
         e.type = "Object" /\ e.id # own => e.el \notin els
  PROVE  Neat(AfterEvent(u, own, e),
              els \union (IF e.type = "Object" /\ e.id # own THEN {e.el} ELSE {}))
<1>1. CASE e.id = own
  BY <1>1 DEF AfterEvent, Neat
<1>2. CASE e.id # own
  <2> DEFINE w == Handle(u, e)
             new == IF e.type = "Object" THEN {e.el} ELSE {}
  <2>1. w \in Views /\ AfterEvent(u, own, e) = w
    BY <1>2, AfterInViews DEF AfterEvent
  <2>2. CASE u.failed \/ Throws(u, e)
    <3>1. w.increments = u.increments /\ (u.astray => w.astray)
      BY <2>2, EventFailed
    <3> QED
      BY <2>1, <3>1 DEF Neat
  <2>3. CASE ~u.failed /\ ~Throws(u, e)
    <3>1. w.increments = u.increments \o Added(u, e) /\ w.astray = (u.astray \/ Unexpected(u, e))
      BY <2>3, EventHandled
    <3>2. CASE u.astray
      <4>1. w.astray
        BY <3>1, <3>2
      <4> QED
        BY <2>1, <4>1 DEF Neat
    <3>3. CASE ~u.astray
      <4>1. InTurn(u.increments) /\ Els(u.increments) \subseteq els
        BY <3>3 DEF Neat
      <4>2. e.type = "Object" => e.el \notin Els(u.increments)
        BY <1>2, <4>1
      <4>3. InTurn(w.increments) /\ Els(w.increments) = Els(u.increments) \union new
        BY <3>1, <4>1, <4>2, AddedInTurn
      <4> HIDE DEF w
      <4> QED
        BY <1>2, <2>1, <4>1, <4>3 DEF Neat
    <3> QED
      BY <3>2, <3>3
  <2> QED
    BY <2>2, <2>3
<1> QED
  BY <1>1, <1>2

LEMMA NeatAll ==
  ASSUME NEW v \in Views, NEW own, NEW evs \in Seq(Event), ObjectsOnce(evs),
         NEW els, Neat(v, els), els \cap ObjectsOf(evs, own) = {}
  PROVE  Neat(HandleAll(v, own, evs), els \union ObjectsOf(evs, own))
<1> DEFINE To(n) == {evs[i].el : i \in {j \in 1..n : evs[j].type = "Object" /\ evs[j].id # own}}
           S == [n \in 0..Len(evs) |-> {u \in Views : Neat(u, els \union To(n))}]
<1>1. Len(evs) \in Nat /\ DOMAIN evs = 1..Len(evs) /\ \A n \in 1..Len(evs) : evs[n] \in Event
  BY ElementOfSeq
<1>2. To(0) = {} /\ To(Len(evs)) = ObjectsOf(evs, own)
  BY <1>1 DEF ObjectsOf
<1>3. v \in S[0]
  <2>1. 0 \in 0..Len(evs) /\ els \union To(0) = els
    BY <1>1, <1>2
  <2> HIDE DEF To
  <2> QED
    BY <2>1
<1>4. ASSUME NEW n \in 1..Len(evs), NEW u \in S[n - 1] PROVE AfterEvent(u, own, evs[n]) \in S[n]
  <2> DEFINE e == evs[n]
             new == IF e.type = "Object" /\ e.id # own THEN {e.el} ELSE {}
  <2>1. n - 1 \in 0..Len(evs) /\ n \in 0..Len(evs) /\ e \in Event
    BY <1>1
  <2>2. u \in Views /\ Neat(u, els \union To(n - 1))
    BY <2>1
  <2>3. To(n) = To(n - 1) \union new
    <3>1. 1..n = 1..n - 1 \union {n}
      BY <2>1
    <3>2. ASSUME NEW d \in To(n) PROVE d \in To(n - 1) \union new
      BY <3>1
    <3>3. To(n - 1) \subseteq To(n)
      BY <3>1
    <3>4. new \subseteq To(n)
      BY <3>1
    <3> HIDE DEF To, new
    <3> QED
      BY <3>2, <3>3, <3>4
  <2>4. e.type = "Object" /\ e.id # own => e.el \notin els \union To(n - 1)
    <3> SUFFICES ASSUME e.type = "Object", e.id # own PROVE e.el \notin els \union To(n - 1)
      OBVIOUS
    <3>1. e.el \in ObjectsOf(evs, own)
      BY <1>1 DEF ObjectsOf
    <3>2. ASSUME e.el \in To(n - 1) PROVE FALSE
      <4>1. PICK i \in 1..n - 1 : evs[i].type = "Object" /\ e.el = evs[i].el
        BY <3>2
      <4>2. i \in DOMAIN evs /\ n \in DOMAIN evs /\ i # n
        BY <1>1
      <4> QED
        BY <4>1, <4>2 DEF ObjectsOnce
    <3> QED
      BY <3>1, <3>2
  <2> HIDE DEF To, e
  <2>5. Neat(AfterEvent(u, own, e), els \union To(n - 1) \union new)
    BY <2>1, <2>2, <2>4, NeatAfter
  <2>6. AfterEvent(u, own, e) \in Views
    BY <2>1, <2>2, AfterInViews
  <2>7. els \union To(n - 1) \union new = els \union To(n)
    BY <2>3
  <2>8. S[n] = {x \in Views : Neat(x, els \union To(n))}
    BY <2>1
  <2> HIDE DEF S, new
  <2> QED
    BY <2>5, <2>6, <2>7, <2>8 DEF e
<1> HIDE DEF S
<1>5. HandleAll(v, own, evs) \in S[Len(evs)]
  BY <1>1, <1>3, <1>4, HandledIn
<1>6. S[Len(evs)] = {u \in Views : Neat(u, els \union ObjectsOf(evs, own))}
  <2>1. Len(evs) \in 0..Len(evs)
    BY <1>1
  <2> HIDE DEF To
  <2> QED
    BY <1>2, <2>1 DEF S
<1> QED
  BY <1>5, <1>6

----------------------------------------------------------------------------
(***************************************************************************)
(* No object is on its way twice: those of the outboxes, those the server  *)
(* has, and those being dragged are all different.                         *)
(***************************************************************************)
Sent == [p \in Pages |-> Objects(outbox[p])]

OutgoingOf(p) ==
  /\ ObjectsOnce(outbox[p])
  /\ \A i \in DOMAIN outbox[p] : outbox[p][i].id = id[p]
  /\ \A i \in DOMAIN building[p] : building[p][i].id = id[p] /\ building[p][i].type # "Object"
  /\ ~live[p] => outbox[p] = <<>> /\ building[p] = <<>>

Outgoing == \A p \in Pages : OutgoingOf(p)

Stored ==
  /\ ObjectsOnce(saved) /\ ObjectsOnce(broadcast)
  /\ Objects(broadcast) \subseteq Objects(saved)

Fresh ==
  /\ \A d \in Objects(saved) : d <= MaxInputs + inputs
  /\ \A p \in Pages :
       /\ Sent[p] \subseteq Nat /\ \A d \in Sent[p] : d <= MaxInputs + inputs
       /\ Sent[p] \cap Objects(saved) = {}
       /\ drag[p] <= inputs
       /\ drag[p] # 0 => MaxInputs + drag[p] \notin Objects(saved)
  /\ \A p, q \in Pages :
       /\ drag[p] # 0 => MaxInputs + drag[p] \notin Sent[q]
       /\ p # q => Sent[p] \cap Sent[q] = {} /\ (drag[p] # 0 => drag[p] # drag[q])

QueueInv == Outgoing /\ Stored /\ Fresh

LEMMA InitQueued == Init /\ TypeInv => QueueInv
<1> SUFFICES ASSUME Init, TypeInv PROVE QueueInv
  OBVIOUS
<1>1. saved \in Seq(Event) /\ DOMAIN saved = 1..OldObjects /\ inputs = OldObjects
      /\ \A n \in 1..OldObjects : saved[n].el = n
  BY OldObjectsAssumption DEF Init, OldObject, Ev, TypeInv, AllEvents
<1>2. ObjectsOnce(saved)
  BY <1>1 DEF ObjectsOnce
<1>3. \A d \in Objects(saved) : d <= MaxInputs + inputs
  <2>1. ASSUME NEW d \in Objects(saved) PROVE d \in 1..OldObjects
    <3>1. PICK i \in DOMAIN saved : saved[i].type = "Object" /\ saved[i].el = d
      BY <1>1, ObjectsAre
    <3> QED
      BY <1>1, <3>1
  <2> QED
    BY <1>1, <2>1, OldObjectsAssumption, BoundsAssumption
<1>4. \A p \in Pages : outbox[p] = <<>> /\ building[p] = <<>> /\ drag[p] = 0 /\ Sent[p] = {}
  BY NoObjects DEF Init, Sent
<1>5. Outgoing
  BY <1>4, NoObjects DEF Outgoing, OutgoingOf
<1>6. Stored
  BY <1>2, NoObjects DEF Stored, Init
<1>7. Fresh
  BY <1>1, <1>3, <1>4, OldObjectsAssumption DEF Fresh
<1> QED
  BY <1>5, <1>6, <1>7 DEF QueueInv

(***************************************************************************)
(* Input: what a page may add to its messages and to its drag.             *)
(***************************************************************************)
Adds(p, evs) ==
  /\ live[p]
  /\ evs \in Seq(Event) /\ ObjectsOnce(evs)
  /\ \A i \in DOMAIN evs : evs[i].id = id[p]
  /\ \/ Objects(evs) = {}
     \/ Objects(evs) = {MaxInputs + drag[p]} /\ drag[p] # 0 /\ drag'[p] = 0
  /\ \/ SendEvents(p, evs)
     \/ AddEvents(p, evs) /\ Objects(evs) = {}
  /\ drag' \in [Pages -> Nat]
  /\ \A q \in Pages \ {p} : drag'[q] = drag[q]
  /\ inputs' \in {inputs, inputs + 1}
  /\ \/ drag'[p] \in {0, drag[p]}
     \/ drag'[p] = inputs + 1 /\ inputs' = inputs + 1
  /\ UNCHANGED <<live, id, serverVars, loads>>

LEMMA AddsSent ==
  ASSUME TypeInv, TypeInv', QueueInv, NEW p \in Pages, NEW evs, Adds(p, evs)
  PROVE  /\ Outgoing'
         /\ Sent'[p] = Sent[p] \union Objects(evs)
         /\ \A q \in Pages \ {p} : Sent'[q] = Sent[q]
<1>1. /\ evs \in Seq(Event) /\ ObjectsOnce(evs) /\ \A i \in DOMAIN evs : evs[i].id = id[p]
      /\ live[p] /\ live' = live /\ id' = id
  BY DEF Adds
<1>2. OutgoingOf(p) /\ outbox[p] \in Seq(Event) /\ building[p] \in Seq(Event)
      /\ building \in [Pages -> AllEvents] /\ outbox \in [Pages -> AllEvents]
  BY DEF QueueInv, Outgoing, TypeInv, AllEvents
<1>3. Objects(building[p]) = {} /\ ObjectsOnce(building[p])
  BY <1>2, ObjectsAre DEF OutgoingOf, ObjectsOnce
<1>4. Sent' = [q \in Pages |-> Objects(outbox'[q])]
  BY DEF Sent
<1>5. Objects(evs) \cap Sent[p] = {}
  BY DEF Adds, QueueInv, Fresh
<1>6. CASE SendEvents(p, evs)
  <2> DEFINE o == outbox[p]
             b == building[p]
             m == (o \o b) \o evs
  <2>1. /\ o \o b \in Seq(Event) /\ Objects(o \o b) = Objects(o) /\ ObjectsOnce(o \o b)
    <3> HIDE DEF o, b
    <3>1. o \in Seq(Event) /\ b \in Seq(Event) /\ Objects(b) = {} /\ ObjectsOnce(b) /\ ObjectsOnce(o)
      BY <1>2, <1>3 DEF o, b, OutgoingOf
    <3>2. o \o b \in Seq(Event) /\ Objects(o \o b) = Objects(o) \union Objects(b)
      BY <3>1, ObjectsOfBoth
    <3>3. Objects(o) \cap Objects(b) = {}
      BY <3>1
    <3>4. ObjectsOnce(o \o b)
      BY <3>1, <3>3, ObjectsOfBoth
    <3> QED
      BY <3>1, <3>2, <3>4
  <2>2. Objects(o) \cap Objects(evs) = {}
    BY <1>2, <1>5 DEF Sent
  <2>3. m \in Seq(Event) /\ Objects(m) = Objects(o) \union Objects(evs) /\ ObjectsOnce(m)
    <3> HIDE DEF o, b
    <3> QED
      BY <1>1, <2>1, <2>2, ObjectsOfBoth
  <2>4. \A i \in DOMAIN m : m[i].id = id[p]
    <3>1. \A i \in DOMAIN (o \o b) : (o \o b)[i].id = id[p]
      BY <1>2 DEF OutgoingOf
    <3> DEFINE n == o \o b
    <3>2. n \in Seq(Event) /\ m = n \o evs /\ \A i \in DOMAIN n : n[i].id = id[p]
      BY <2>1, <3>1
    <3> HIDE DEF m, n
    <3> QED
      BY <1>1, <3>2
  <2>5. outbox' = [outbox EXCEPT ![p] = m] /\ building' = [building EXCEPT ![p] = <<>>]
    <3>1. o \o b \o evs = m
      OBVIOUS
    <3> QED
      BY <1>2, <1>6, <3>1 DEF SendEvents
  <2> HIDE DEF m, o, b
  <2>6. outbox'[p] = m /\ building'[p] = <<>> /\ \A q \in Pages \ {p} : outbox'[q] = outbox[q] /\ building'[q] = building[q]
    BY <1>2, <2>5
  <2>7. OutgoingOf(p)'
    BY <1>1, <2>3, <2>4, <2>6 DEF OutgoingOf
  <2>8. ASSUME NEW q \in Pages, q # p PROVE OutgoingOf(q)'
    BY <1>1, <2>6, <2>8 DEF OutgoingOf, QueueInv, Outgoing
  <2>9. Outgoing'
    BY <2>7, <2>8 DEF Outgoing
  <2>10. \A q \in Pages \ {p} : Sent'[q] = Sent[q]
    BY <1>4, <2>6 DEF Sent
  <2>11. Sent'[p] = Sent[p] \union Objects(evs)
    BY <1>4, <2>3, <2>6 DEF Sent, o
  <2> QED
    BY <2>9, <2>10, <2>11
<1>7. CASE AddEvents(p, evs) /\ Objects(evs) = {}
  <2> DEFINE b == building[p]
             m == b \o evs
  <2>1. outbox' = outbox /\ building' = [building EXCEPT ![p] = m]
    BY <1>2, <1>7 DEF AddEvents
  <2>2. \A i \in DOMAIN evs : evs[i].type # "Object"
    BY <1>1, <1>7, ObjectsAre
  <2>3. \A i \in DOMAIN m : m[i].id = id[p] /\ m[i].type # "Object"
    <3>1. b \in Seq(Event) /\ \A i \in DOMAIN b : b[i].id = id[p] /\ b[i].type # "Object"
      BY <1>2 DEF OutgoingOf
    <3> HIDE DEF b
    <3> QED
      BY <1>1, <2>2, <3>1
  <2> HIDE DEF m, b
  <2>4. building'[p] = m /\ \A q \in Pages \ {p} : building'[q] = building[q]
    BY <1>2, <2>1
  <2>5. OutgoingOf(p)'
    BY <1>1, <1>2, <2>1, <2>3, <2>4 DEF OutgoingOf
  <2>6. ASSUME NEW q \in Pages, q # p PROVE OutgoingOf(q)'
    BY <1>1, <2>1, <2>4, <2>6 DEF OutgoingOf, QueueInv, Outgoing
  <2>7. Outgoing'
    BY <2>5, <2>6 DEF Outgoing
  <2> QED
    BY <1>4, <1>7, <2>1, <2>7 DEF Sent
<1> QED
  BY <1>6, <1>7 DEF Adds

LEMMA QueuedAdds ==
  ASSUME TypeInv, TypeInv', QueueInv, NEW p \in Pages, NEW evs, Adds(p, evs)
  PROVE  QueueInv'
<1>1. /\ Outgoing' /\ Sent'[p] = Sent[p] \union Objects(evs)
      /\ \A q \in Pages \ {p} : Sent'[q] = Sent[q]
  BY AddsSent
<1>2. saved' = saved /\ broadcast' = broadcast
  BY DEF Adds, serverVars
<1>3. Stored'
  BY <1>2 DEF QueueInv, Stored
<1>4. /\ inputs \in Nat /\ inputs' \in {inputs, inputs + 1} /\ MaxInputs \in Nat
      /\ drag \in [Pages -> Nat] /\ drag' \in [Pages -> Nat]
      /\ \A q \in Pages \ {p} : drag'[q] = drag[q]
      /\ \/ drag'[p] \in {0, drag[p]}
         \/ drag'[p] = inputs + 1 /\ inputs' = inputs + 1
      /\ \/ Objects(evs) = {}
         \/ Objects(evs) = {MaxInputs + drag[p]} /\ drag[p] # 0 /\ drag'[p] = 0
  BY BoundsAssumption DEF Adds, TypeInv
<1>5. \A d \in Objects(saved) : d \in Nat /\ d <= MaxInputs + inputs
  BY ObjectsAre DEF QueueInv, Fresh, TypeInv, AllEvents
<1>6. Fresh
  BY DEF QueueInv
<1> DEFINE X == Objects(evs)
           O == Objects(saved)
<1> HIDE DEF X, O
<1>7. X = {} \/ (X = {MaxInputs + drag[p]} /\ drag[p] # 0 /\ drag'[p] = 0)
  BY <1>4 DEF X
<1>8. Sent'[p] = Sent[p] \union X /\ (\A d \in O : d \in Nat /\ d <= MaxInputs + inputs)
      /\ Objects(saved') = O
  BY <1>1, <1>2, <1>5 DEF X, O
<1>9. /\ \A q \in Pages : Sent[q] \subseteq Nat /\ Sent[q] \cap O = {}
                          /\ \A d \in Sent[q] : d <= MaxInputs + inputs
      /\ \A q \in Pages : drag[q] <= inputs /\ (drag[q] # 0 => MaxInputs + drag[q] \notin O)
      /\ \A q, r \in Pages : drag[q] # 0 => MaxInputs + drag[q] \notin Sent[r]
      /\ \A q, r \in Pages : q # r => Sent[q] \cap Sent[r] = {} /\ (drag[q] # 0 => drag[q] # drag[r])
  BY <1>6 DEF Fresh, O
<1>10. ASSUME NEW q \in Pages
       PROVE  /\ Sent'[q] \subseteq Nat /\ Sent'[q] \cap O = {}
              /\ \A d \in Sent'[q] : d <= MaxInputs + inputs'
              /\ drag'[q] <= inputs'
              /\ drag'[q] # 0 => MaxInputs + drag'[q] \notin O
  <2>1. CASE q = p
    <3>1. X \subseteq Nat /\ X \cap O = {} /\ \A d \in X : d <= MaxInputs + inputs
      BY <1>4, <1>7, <1>9
    <3>2. Sent'[q] \subseteq Nat /\ Sent'[q] \cap O = {} /\ \A d \in Sent'[q] : d <= MaxInputs + inputs'
      <4>1. \A d \in Sent'[q] : d \in Nat /\ d \notin O /\ d <= MaxInputs + inputs
        BY <1>8, <1>9, <2>1, <3>1
      <4> QED
        BY <1>4, <4>1
    <3>3. drag'[q] <= inputs' /\ (drag'[q] # 0 => MaxInputs + drag'[q] \notin O)
      <4>1. drag'[p] = 0 \/ drag'[p] = drag[p] \/ (drag'[p] = inputs + 1 /\ inputs' = inputs + 1)
        BY <1>4
      <4>2. drag[p] \in Nat /\ drag[p] <= inputs /\ (drag[p] # 0 => MaxInputs + drag[p] \notin O)
        BY <1>4, <1>9
      <4>3. MaxInputs + (inputs + 1) \notin O
        BY <1>4, <1>8
      <4> QED
        BY <1>4, <2>1, <4>1, <4>2, <4>3
    <3> QED
      BY <3>2, <3>3
  <2>2. CASE q # p
    <3>1. Sent'[q] = Sent[q] /\ drag'[q] = drag[q] /\ drag[q] \in Nat
      BY <1>1, <1>4, <2>2
    <3>2. \A d \in Sent[q] : d \in Nat /\ d <= MaxInputs + inputs
      BY <1>9
    <3> QED
      BY <1>4, <1>9, <3>1, <3>2
  <2> QED
    BY <2>1, <2>2
<1>11. ASSUME NEW q \in Pages, NEW r \in Pages, drag'[q] # 0
       PROVE  MaxInputs + drag'[q] \notin Sent'[r]
  <2>1. MaxInputs + (inputs + 1) \notin Sent[r] /\ (q = p => X = {} \/ drag'[p] # drag[p])
    <3>1. \A d \in Sent[r] : d \in Nat /\ d <= MaxInputs + inputs
      BY <1>9
    <3> QED
      BY <1>4, <1>7, <1>11, <3>1
  <2>2. MaxInputs + drag'[q] \notin Sent[r]
    <3>1. CASE q = p
      BY <1>4, <1>9, <1>11, <2>1, <3>1
    <3>2. CASE q # p
      BY <1>4, <1>9, <1>11, <3>2
    <3> QED
      BY <3>1, <3>2
  <2>3. CASE r # p
    BY <1>1, <2>2, <2>3
  <2>4. CASE r = p
    <3>1. MaxInputs + drag'[q] \notin X
      <4>1. CASE q = p
        BY <1>7, <1>11, <4>1
      <4>2. CASE q # p
        <5>1. drag'[q] = drag[q] /\ drag[q] # drag[p] /\ drag[q] \in Nat /\ drag[p] \in Nat
          BY <1>4, <1>9, <1>11, <4>2
        <5> QED
          BY <1>4, <1>7, <5>1
      <4> QED
        BY <4>1, <4>2
    <3> QED
      BY <1>8, <2>2, <2>4, <3>1
  <2> QED
    BY <2>3, <2>4
<1>12. ASSUME NEW q \in Pages, NEW r \in Pages, q # r
       PROVE  Sent'[q] \cap Sent'[r] = {} /\ (drag'[q] # 0 => drag'[q] # drag'[r])
  <2>1. ASSUME NEW s \in Pages, s # p PROVE Sent'[s] = Sent[s] /\ drag'[s] = drag[s] /\ Sent[s] \cap X = {}
    BY <1>1, <1>4, <1>7, <1>9, <2>1
  <2>2. ASSUME NEW s \in Pages, s # p
        PROVE  drag'[p] # 0 => drag'[p] # drag[s]
    <3>1. drag[s] <= inputs /\ (drag[p] # 0 => drag[p] # drag[s]) /\ drag[s] \in Nat
      BY <1>4, <1>9, <2>2
    <3> QED
      BY <1>4, <3>1
  <2>3. CASE q # p /\ r # p
    BY <1>9, <1>12, <2>1, <2>3
  <2>4. CASE q = p
    BY <1>8, <1>9, <1>12, <2>1, <2>2, <2>4
  <2>5. CASE r = p
    <3>1. Sent'[q] \cap Sent'[r] = {}
      BY <1>8, <1>9, <1>12, <2>1, <2>5
    <3>2. drag'[q] # 0 => drag'[q] # drag'[r]
      BY <1>4, <1>12, <2>1, <2>2, <2>5
    <3> QED
      BY <3>1, <3>2
  <2> QED
    BY <2>3, <2>4, <2>5
<1>13. \A d \in O : d <= MaxInputs + inputs'
  BY <1>4, <1>8
<1>14. Fresh'
  BY <1>8, <1>10, <1>11, <1>12, <1>13 DEF Fresh
<1> QED
  BY <1>1, <1>3, <1>14 DEF QueueInv

----------------------------------------------------------------------------
(***************************************************************************)
(* The elements a page can have in its stack: those that are stored or on  *)
(* their way from it, without those the next frame brings.                 *)
(***************************************************************************)
Known == [p \in Pages |-> (Objects(saved) \union Sent[p]) \ ObjectsOf(broadcast, id[p])]

StackInv == \A p \in Pages : Neat(view[p], Known[p])

\* Which the stack of a page keeps when it changes as it may.
LEMMA StackKept ==
  ASSUME TypeInv, StackInv, NEW p \in Pages, NEW els,
         view'[p].increments = view[p].increments, view[p].astray => view'[p].astray,
         Known[p] \subseteq els
  PROVE  Neat(view'[p], els)
BY DEF StackInv, Neat

LEMMA KnownIs ==
  ASSUME TypeInv
  PROVE  /\ \A p \in Pages : Known[p] = (Objects(saved) \union Objects(outbox[p])) \ ObjectsOf(broadcast, id[p])
         /\ Sent \in [Pages -> SUBSET Nat]
         /\ saved \in Seq(Event) /\ broadcast \in Seq(Event)
         /\ Objects(saved) \subseteq Nat
         /\ \A p \in Pages : ObjectsOf(broadcast, id[p]) \subseteq Objects(broadcast)
         /\ \A p \in Pages : outbox[p] \in Seq(Event) /\ Sent[p] = Objects(outbox[p])
BY ObjectsAre DEF TypeInv, AllEvents, Known, Sent

LEMMA EmptyNeat == \A els : Neat(EmptyView, els)
<1>1. EmptyView.increments = <<>> /\ DOMAIN <<>> = {}
  BY EmptyInViews
<1> QED
  BY <1>1 DEF Neat, InTurn, FirstObject, Followed, Els

LEMMA InitStacked == Init => StackInv
BY EmptyNeat DEF Init, StackInv

----------------------------------------------------------------------------
LEMMA StackedAdds ==
  ASSUME TypeInv, TypeInv', QueueInv, StackInv, NEW p \in Pages, NEW evs, Adds(p, evs)
  PROVE  QueueInv' /\ StackInv'
<1>1. QueueInv'
  BY QueuedAdds
<1>2. /\ Sent'[p] = Sent[p] \union Objects(evs)
      /\ \A q \in Pages \ {p} : Sent'[q] = Sent[q]
  BY AddsSent
<1>3. saved' = saved /\ broadcast' = broadcast /\ id' = id /\ evs \in Seq(Event) /\ ObjectsOnce(evs)
  BY DEF Adds, serverVars
<1>4. Known' = [q \in Pages |-> (Objects(saved) \union Sent'[q]) \ ObjectsOf(broadcast, id[q])]
  BY <1>3 DEF Known
<1>5. Objects(evs) \cap Objects(saved) = {} /\ Objects(evs) \cap Sent[p] = {}
  BY DEF Adds, QueueInv, Fresh
<1>6. Objects(evs) \cap ObjectsOf(broadcast, id[p]) = {}
  BY <1>5, KnownIs DEF QueueInv, Stored
<1>7. Known'[p] = Known[p] \union Objects(evs)
  BY <1>2, <1>4, <1>6 DEF Known
<1>8. view[p] \in Views /\ Neat(view[p], Known[p])
  BY DEF TypeInv, StackInv
<1>9. Neat(Echoed(p, evs), Known'[p])
  <2>1. Known[p] \cap ObjectsOf(evs, 0) = {}
    BY <1>5 DEF Known, Objects
  <2>2. Neat(HandleAll(view[p], 0, evs), Known[p] \union ObjectsOf(evs, 0))
    BY <1>3, <1>8, <2>1, NeatAll
  <2> QED
    BY <1>7, <2>2 DEF Echoed, Objects
<1>10. PICK w : Echo(p, evs, w)
  BY <1>3, EchoStep DEF Adds, AllEvents
<1>11. view'[p] = w /\ \A q \in Pages \ {p} : view'[q] = view[q]
  BY <1>10 DEF Echo, TypeInv
<1>12. Neat(view'[p], Known'[p])
  BY <1>9, <1>10, <1>11 DEF Echo, Neat
<1>13. ASSUME NEW q \in Pages, q # p PROVE Neat(view'[q], Known'[q])
  BY <1>2, <1>4, <1>11, <1>13 DEF StackInv, Known
<1>14. StackInv'
  BY <1>12, <1>13 DEF StackInv
<1> QED
  BY <1>1, <1>14

LEMMA StackedDrawStart ==
  ASSUME TypeInv, TypeInv', QueueInv, StackInv, NEW p \in Pages, DrawStart(p)
  PROVE  QueueInv' /\ StackInv'
<1> DEFINE e == Ev("Start", id[p], inputs + 1)
           evs == <<e>>
<1>1. e \in Event /\ e.id = id[p] /\ e.type = "Start"
  BY DEF TypeInv, Ev, Event
<1>2. SendEvents(p, evs)
  BY DEF DrawStart
<1> HIDE DEF e
<1>3. /\ evs \in Seq(Event) /\ Objects(evs) = {} /\ ObjectsOnce(evs)
      /\ \A i \in DOMAIN evs : evs[i].id = id[p]
  <2>1. evs \in Seq(Event) /\ Objects(evs) = {} /\ ObjectsOnce(evs)
    BY <1>1, ObjectsOfOne
  <2>2. \A i \in DOMAIN evs : evs[i] = e
    OBVIOUS
  <2> QED
    BY <1>1, <2>1, <2>2
<1> HIDE DEF evs
<1>4. drag \in [Pages -> Nat] /\ drag' \in [Pages -> Nat]
  BY DEF TypeInv
<1>5. /\ drag' = [drag EXCEPT ![p] = inputs + 1] /\ inputs' = inputs + 1 /\ live[p]
      /\ UNCHANGED <<live, id, serverVars, loads>>
  BY DEF DrawStart, Input
<1>6. Adds(p, evs)
  BY <1>2, <1>3, <1>4, <1>5 DEF Adds
<1> QED
  BY <1>6, StackedAdds

LEMMA StackedKept ==
  ASSUME TypeInv, TypeInv', QueueInv, StackInv, NEW p \in Pages, NEW type \in {"Point", "Undo", "Redo"},
         Input(p), UNCHANGED drag, SendEvents(p, <<Ev(type, id[p], 0)>>)
  PROVE  QueueInv' /\ StackInv'
<1> DEFINE e == Ev(type, id[p], 0)
           evs == <<e>>
<1>1. e \in Event /\ e.id = id[p] /\ e.type # "Object"
  BY DEF TypeInv, Ev, Event
<1>2. SendEvents(p, evs)
  OBVIOUS
<1> HIDE DEF e
<1>3. /\ evs \in Seq(Event) /\ Objects(evs) = {} /\ ObjectsOnce(evs)
      /\ \A i \in DOMAIN evs : evs[i].id = id[p]
  <2>1. evs \in Seq(Event) /\ Objects(evs) = {} /\ ObjectsOnce(evs)
    BY <1>1, ObjectsOfOne
  <2>2. \A i \in DOMAIN evs : evs[i] = e
    OBVIOUS
  <2> QED
    BY <1>1, <2>1, <2>2
<1> HIDE DEF evs
<1>4. drag \in [Pages -> Nat] /\ drag' \in [Pages -> Nat]
  BY DEF TypeInv
<1>5. drag' = drag /\ inputs' = inputs + 1 /\ live[p] /\ UNCHANGED <<live, id, serverVars, loads>>
  BY DEF Input
<1>6. Adds(p, evs)
  BY <1>2, <1>3, <1>4, <1>5 DEF Adds
<1> QED
  BY <1>6, StackedAdds

LEMMA StackedDrawFinish ==
  ASSUME TypeInv, TypeInv', QueueInv, StackInv, NEW p \in Pages, DrawFinish(p)
  PROVE  QueueInv' /\ StackInv'
<1> DEFINE e == Ev("Cancel", id[p], 0)
           f == Ev("Object", id[p], MaxInputs + drag[p])
           evs == <<e, f>>
<1>1. e \in Event /\ e.id = id[p] /\ e.type = "Cancel"
  BY DEF TypeInv, Ev, Event
<1>2. f \in Event /\ f.id = id[p] /\ f.type = "Object" /\ f.el = MaxInputs + drag[p]
  <2>1. MaxInputs + drag[p] \in Nat
    BY BoundsAssumption DEF TypeInv
  <2> QED
    BY <2>1 DEF TypeInv, Ev, Event
<1>3. SendEvents(p, evs)
  BY DEF DrawFinish
<1> HIDE DEF e, f
<1>4. /\ evs \in Seq(Event) /\ Objects(evs) = {f.el} /\ ObjectsOnce(evs)
      /\ \A i \in DOMAIN evs : evs[i].id = id[p]
  <2>1. evs \in Seq(Event) /\ DOMAIN evs = {1, 2} /\ evs[1] = e /\ evs[2] = f
    BY <1>1, <1>2
  <2> HIDE DEF evs
  <2>2. Objects(evs) = {f.el}
    BY <1>1, <1>2, <2>1, ObjectsAre
  <2>3. ObjectsOnce(evs)
    BY <1>1, <1>2, <2>1 DEF ObjectsOnce
  <2> QED
    BY <1>1, <1>2, <2>1, <2>2, <2>3
<1> HIDE DEF evs
<1>5. drag \in [Pages -> Nat] /\ drag' \in [Pages -> Nat]
  BY DEF TypeInv
<1>6. /\ drag' = [drag EXCEPT ![p] = 0] /\ inputs' = inputs /\ live[p] /\ drag[p] # 0
      /\ UNCHANGED <<live, id, serverVars, loads>>
  BY DEF DrawFinish
<1>7. Adds(p, evs)
  BY <1>2, <1>3, <1>4, <1>5, <1>6 DEF Adds
<1> QED
  BY <1>7, StackedAdds

LEMMA StackedDrawCancel ==
  ASSUME TypeInv, TypeInv', QueueInv, StackInv, NEW p \in Pages, DrawCancel(p)
  PROVE  QueueInv' /\ StackInv'
<1> DEFINE e == Ev("Cancel", id[p], 0)
           evs == <<e>>
<1>1. e \in Event /\ e.id = id[p] /\ e.type = "Cancel"
  BY DEF TypeInv, Ev, Event
<1>2. AddEvents(p, evs)
  BY DEF DrawCancel
<1> HIDE DEF e
<1>3. /\ evs \in Seq(Event) /\ Objects(evs) = {} /\ ObjectsOnce(evs)
      /\ \A i \in DOMAIN evs : evs[i].id = id[p]
  <2>1. evs \in Seq(Event) /\ Objects(evs) = {} /\ ObjectsOnce(evs)
    BY <1>1, ObjectsOfOne
  <2>2. \A i \in DOMAIN evs : evs[i] = e
    OBVIOUS
  <2> QED
    BY <1>1, <2>1, <2>2
<1> HIDE DEF evs
<1>4. drag \in [Pages -> Nat] /\ drag' \in [Pages -> Nat]
  BY DEF TypeInv
<1>5. /\ drag' = [drag EXCEPT ![p] = 0] /\ inputs' = inputs + 1 /\ live[p]
      /\ UNCHANGED <<live, id, serverVars, loads>>
  BY DEF DrawCancel, Input
<1>6. Adds(p, evs)
  BY <1>2, <1>3, <1>4, <1>5 DEF Adds
<1> QED
  BY <1>6, StackedAdds

LEMMA StackedMoveCursor ==
  ASSUME TypeInv, TypeInv', QueueInv, StackInv, NEW p \in Pages, MoveCursor(p)
  PROVE  QueueInv' /\ StackInv'
<1>1. <<>> \in Seq(Event) /\ Objects(<<>>) = {} /\ ObjectsOnce(<<>>)
  BY NoObjects, EmptySeq
<1>2. drag \in [Pages -> Nat] /\ drag' \in [Pages -> Nat]
  BY DEF TypeInv
<1>3. /\ SendEvents(p, <<>>) /\ drag' = drag /\ inputs' = inputs /\ live[p]
      /\ UNCHANGED <<live, id, serverVars, loads>>
  BY DEF MoveCursor
<1>4. Adds(p, <<>>)
  BY <1>1, <1>2, <1>3 DEF Adds
<1> QED
  BY <1>4, StackedAdds

----------------------------------------------------------------------------
LEMMA StackedLoad ==
  ASSUME TypeInv, DragInv, QueueInv, StackInv, NEW p \in Pages, Load(p)
  PROVE  QueueInv' /\ StackInv'
<1> DEFINE b == \E i \in DOMAIN broadcast : IsStored(broadcast[i])
           w == [Replay EXCEPT !.drawRequested = TRUE, !.astray = b]
<1>1. /\ ~live[p] /\ view' = [view EXCEPT ![p] = w]
      /\ live' = [live EXCEPT ![p] = TRUE] /\ id' = [id EXCEPT ![p] = FirstFreeId]
      /\ drag' = drag /\ building' = building /\ outbox' = outbox /\ inputs' = inputs
      /\ broadcast' = broadcast /\ saved' = saved
  BY DEF Load, userVars, serverVars
<1>2. Sent' = Sent
  BY <1>1 DEF Sent
<1>3. outbox[p] = <<>> /\ building[p] = <<>>
  BY <1>1 DEF QueueInv, Outgoing, OutgoingOf
<1>4. ASSUME NEW q \in Pages PROVE OutgoingOf(q)'
  <2>1. CASE q = p
    BY <1>1, <1>3, <2>1, NoObjects DEF OutgoingOf
  <2>2. CASE q # p
    <3>1. live'[q] = live[q] /\ id'[q] = id[q]
      BY <1>1, <2>2 DEF TypeInv
    <3> QED
      BY <1>1, <3>1 DEF OutgoingOf, QueueInv, Outgoing
  <2> QED
    BY <2>1, <2>2
<1>5. QueueInv'
  BY <1>1, <1>2, <1>4 DEF QueueInv, Outgoing, Stored, Fresh
<1>6. Replay \in Views /\ saved \in Seq(Event) /\ \A i \in DOMAIN saved : IsStored(saved[i])
  BY Replayed DEF TypeInv, DragInv, AllEvents
<1>7. ~Replay.astray
  BY <1>6, EmptyInViews, StoredHandled DEF Replay
<1>8. Neat(Replay, Objects(saved))
  <2>1. {} \cap ObjectsOf(saved, 0) = {} /\ {} \union ObjectsOf(saved, 0) = Objects(saved)
    BY DEF Objects
  <2> QED
    BY <1>6, <2>1, EmptyInViews, EmptyNeat, NeatAll DEF Replay, QueueInv, Stored
<1>9. w.increments = Replay.increments /\ w.astray = b
  BY <1>6 DEF Views, PageView
<1>10. Known' = [q \in Pages |-> (Objects(saved) \union Sent[q]) \ ObjectsOf(broadcast, id'[q])]
  BY <1>1, <1>2 DEF Known
<1>11. Neat(w, Known'[p])
  <2>1. CASE b
    <3> HIDE DEF w
    <3> QED
      BY <1>9, <2>1 DEF Neat
  <2>2. CASE ~b
    <3>1. Objects(broadcast) = {}
      BY <2>2, KnownIs, ObjectsAre DEF IsStored
    <3>2. ObjectsOf(broadcast, id'[p]) = {}
      BY <3>1, KnownIs, ObjectsAre
    <3>3. Objects(saved) \subseteq Known'[p]
      BY <1>10, <3>2
    <3>4. InTurn(Replay.increments) /\ Els(Replay.increments) \subseteq Objects(saved)
      BY <1>7, <1>8 DEF Neat
    <3> HIDE DEF w
    <3> QED
      BY <1>9, <3>3, <3>4 DEF Neat
  <2> QED
    BY <2>1, <2>2
<1>12. ASSUME NEW q \in Pages PROVE Neat(view'[q], Known'[q])
  <2>1. CASE q = p
    <3>1. view'[q] = w
      BY <1>1, <2>1 DEF TypeInv
    <3> HIDE DEF w
    <3> QED
      BY <1>11, <2>1, <3>1
  <2>2. CASE q # p
    <3>1. view'[q] = view[q] /\ id'[q] = id[q]
      BY <1>1, <2>2 DEF TypeInv
    <3>2. Known'[q] = Known[q]
      BY <1>10, <3>1 DEF Known
    <3> QED
      BY <3>1, <3>2 DEF StackInv
  <2> QED
    BY <2>1, <2>2
<1> QED
  BY <1>5, <1>12 DEF StackInv

LEMMA StackedClose ==
  ASSUME TypeInv, QueueInv, StackInv, NEW p \in Pages, Close(p)
  PROVE  QueueInv' /\ StackInv'
<1>1. /\ view' = [view EXCEPT ![p] = EmptyView] /\ live' = [live EXCEPT ![p] = FALSE]
      /\ drag' = [drag EXCEPT ![p] = 0] /\ building' = [building EXCEPT ![p] = <<>>]
      /\ outbox' = [outbox EXCEPT ![p] = <<>>]
      /\ UNCHANGED <<id, broadcast, saved, inputs, loads>>
  BY DEF Close
<1>2. /\ outbox'[p] = <<>> /\ building'[p] = <<>> /\ drag'[p] = 0 /\ view'[p] = EmptyView
      /\ \A q \in Pages \ {p} : /\ outbox'[q] = outbox[q] /\ building'[q] = building[q]
                                /\ drag'[q] = drag[q] /\ live'[q] = live[q] /\ view'[q] = view[q]
  BY <1>1 DEF TypeInv
<1>3. Sent' = [q \in Pages |-> Objects(outbox'[q])]
  BY DEF Sent
<1>4. Sent'[p] = {} /\ \A q \in Pages \ {p} : Sent'[q] = Sent[q]
  BY <1>2, <1>3, NoObjects DEF Sent
<1>5. ASSUME NEW q \in Pages PROVE OutgoingOf(q)'
  <2>1. CASE q = p
    BY <1>1, <1>2, <2>1, NoObjects DEF OutgoingOf
  <2>2. CASE q # p
    BY <1>1, <1>2, <2>2 DEF OutgoingOf, QueueInv, Outgoing
  <2> QED
    BY <2>1, <2>2
<1>6. Stored'
  BY <1>1 DEF QueueInv, Stored
<1>7. inputs \in Nat /\ inputs' = inputs /\ saved' = saved
  BY <1>1 DEF TypeInv
<1>8. /\ \A q \in Pages : Sent'[q] \in {{}, Sent[q]} /\ drag'[q] \in {0, drag[q]}
  BY <1>2, <1>4
<1>9. Fresh'
  <2>1. \A d \in Objects(saved') : d <= MaxInputs + inputs'
    BY <1>7 DEF QueueInv, Fresh
  <2>2. ASSUME NEW q \in Pages
        PROVE  /\ Sent'[q] \subseteq Nat /\ \A d \in Sent'[q] : d <= MaxInputs + inputs'
               /\ Sent'[q] \cap Objects(saved') = {}
               /\ drag'[q] <= inputs'
               /\ drag'[q] # 0 => MaxInputs + drag'[q] \notin Objects(saved')
    <3>1. Sent'[q] = {} \/ Sent'[q] = Sent[q]
      BY <1>8
    <3>2. drag'[q] = 0 \/ drag'[q] = drag[q]
      BY <1>8
    <3> QED
      BY <1>7, <3>1, <3>2 DEF QueueInv, Fresh
  <2>3. ASSUME NEW q \in Pages, NEW r \in Pages
        PROVE  /\ drag'[q] # 0 => MaxInputs + drag'[q] \notin Sent'[r]
               /\ q # r => Sent'[q] \cap Sent'[r] = {} /\ (drag'[q] # 0 => drag'[q] # drag'[r])
    <3>1. (Sent'[q] = {} \/ Sent'[q] = Sent[q]) /\ (Sent'[r] = {} \/ Sent'[r] = Sent[r])
      BY <1>8
    <3>2. (drag'[q] = 0 \/ drag'[q] = drag[q]) /\ (drag'[r] = 0 \/ drag'[r] = drag[r])
      BY <1>8
    <3> QED
      BY <3>1, <3>2 DEF QueueInv, Fresh
  <2> QED
    BY <2>1, <2>2, <2>3 DEF Fresh
<1>10. Known' = [q \in Pages |-> (Objects(saved) \union Sent'[q]) \ ObjectsOf(broadcast, id[q])]
  BY <1>1 DEF Known
<1>11. ASSUME NEW q \in Pages PROVE Neat(view'[q], Known'[q])
  <2>1. CASE q = p
    BY <1>2, <2>1, EmptyNeat
  <2>2. CASE q # p
    BY <1>2, <1>4, <1>10, <2>2 DEF StackInv, Known
  <2> QED
    BY <2>1, <2>2
<1> QED
  BY <1>5, <1>6, <1>9, <1>11 DEF QueueInv, Outgoing, StackInv

LEMMA ObjectsAppended ==
  ASSUME NEW s \in Seq(Event), NEW e \in Event
  PROVE  /\ Append(s, e) \in Seq(Event)
         /\ Objects(Append(s, e)) = Objects(s) \union (IF e.type = "Object" THEN {e.el} ELSE {})
         /\ \A own : ObjectsOf(Append(s, e), own) =
              ObjectsOf(s, own) \union (IF e.type = "Object" /\ e.id # own THEN {e.el} ELSE {})
         /\ ObjectsOnce(s) /\ (e.type = "Object" => e.el \notin Objects(s)) =>
              ObjectsOnce(Append(s, e))
<1> DEFINE t == <<e>>
<1>1. Append(s, e) = s \o t
  BY AppendIsConcat
<1>2. /\ t \in Seq(Event) /\ ObjectsOnce(t)
      /\ Objects(t) = IF e.type = "Object" THEN {e.el} ELSE {}
      /\ \A own : ObjectsOf(t, own) = IF e.type = "Object" /\ e.id # own THEN {e.el} ELSE {}
  BY ObjectsOfOne
<1> HIDE DEF t
<1>3. /\ s \o t \in Seq(Event)
      /\ \A own : ObjectsOf(s \o t, own) = ObjectsOf(s, own) \union ObjectsOf(t, own)
      /\ Objects(s \o t) = Objects(s) \union Objects(t)
      /\ ObjectsOnce(s) /\ ObjectsOnce(t) /\ Objects(s) \cap Objects(t) = {} => ObjectsOnce(s \o t)
  BY <1>2, ObjectsOfBoth
<1>4. (e.type = "Object" => e.el \notin Objects(s)) => Objects(s) \cap Objects(t) = {}
  BY <1>2
<1> QED
  BY <1>1, <1>2, <1>3, <1>4

LEMMA StackedCleanup ==
  ASSUME TypeInv, QueueInv, StackInv, NEW p \in Pages, Cleanup(p)
  PROVE  QueueInv' /\ StackInv'
<1> DEFINE e == Ev("Cleanup", leaving[p], 0)
<1>1. e \in Event /\ e.type # "Object"
  BY DEF Cleanup, TypeInv, Ev, Event
<1>2. /\ broadcast' = Append(broadcast, e) /\ UNCHANGED <<live, id, view, saved, loads>>
      /\ UNCHANGED <<drag, building, outbox, inputs>>
  BY DEF Cleanup, userVars
<1> HIDE DEF e
<1>3. broadcast \in Seq(Event)
  BY KnownIs
<1>4. /\ Objects(broadcast') = Objects(broadcast)
      /\ \A own : ObjectsOf(broadcast', own) = ObjectsOf(broadcast, own)
      /\ ObjectsOnce(broadcast) => ObjectsOnce(broadcast')
  <2> DEFINE a == Append(broadcast, e)
  <2>1. /\ Objects(a) = Objects(broadcast) \union {}
        /\ \A own : ObjectsOf(a, own) = ObjectsOf(broadcast, own) \union {}
        /\ ObjectsOnce(broadcast) => ObjectsOnce(a)
    BY <1>1, <1>3, ObjectsAppended
  <2>2. broadcast' = a
    BY <1>2
  <2> HIDE DEF a
  <2> QED
    BY <2>1, <2>2
<1>5. Sent' = Sent
  BY <1>2 DEF Sent
<1>6. Known' = Known
  BY <1>2, <1>4, <1>5 DEF Known
<1>7. QueueInv'
  BY <1>2, <1>4, <1>5 DEF QueueInv, Outgoing, OutgoingOf, Stored, Fresh
<1> QED
  BY <1>2, <1>6, <1>7 DEF StackInv

----------------------------------------------------------------------------
LEMMA StackedAccept ==
  ASSUME TypeInv, QueueInv, StackInv, NEW p \in Pages, Accept(p)
  PROVE  QueueInv' /\ StackInv'
<1> DEFINE e == Head(outbox[p])
           t == Tail(outbox[p])
           X == IF e.type = "Object" THEN {e.el} ELSE {}
           O == Objects(saved)
<1>1. /\ outbox[p] # <<>> /\ broadcast' = Append(broadcast, e)
      /\ saved' = IF IsStored(e) THEN Append(saved, e) ELSE saved
      /\ outbox' = [outbox EXCEPT ![p] = t]
      /\ UNCHANGED <<live, id, view, drag, building, inputs, leaving, loads>>
  BY DEF Accept, TypeInv
<1>2. /\ outbox[p] \in Seq(Event) /\ saved \in Seq(Event) /\ broadcast \in Seq(Event)
      /\ Sent[p] = Objects(outbox[p])
  BY KnownIs
<1>3. /\ OutgoingOf(p) /\ \A q \in Pages : OutgoingOf(q)
  BY DEF QueueInv, Outgoing
<1>4. /\ e \in Event /\ t \in Seq(Event) /\ e.id = id[p]
      /\ Objects(t) \subseteq Sent[p] /\ Sent[p] \subseteq Objects(t) \union X
      /\ X \subseteq Sent[p] /\ X \cap Objects(t) = {} /\ ObjectsOnce(t)
  <2>1. e.id = id[p]
    <3>1. 1 \in DOMAIN outbox[p] /\ e = outbox[p][1]
      BY <1>1, <1>2
    <3> QED
      BY <1>3, <3>1 DEF OutgoingOf
  <2>2. ObjectsOnce(outbox[p])
    BY <1>3 DEF OutgoingOf
  <2> QED
    BY <1>1, <1>2, <2>1, <2>2, ObjectsOfTail
<1>5. \A i \in DOMAIN t : t[i].id = id[p]
  <2>1. \A i \in DOMAIN t : i + 1 \in DOMAIN outbox[p] /\ t[i] = outbox[p][i + 1]
    BY <1>1, <1>2
  <2> HIDE DEF t
  <2> QED
    BY <1>3, <2>1 DEF OutgoingOf
<1> HIDE DEF e, t
<1>6. X \cap O = {} /\ X \subseteq Nat
  BY <1>4, KnownIs DEF QueueInv, Fresh
<1>7. /\ Objects(saved') = O \union X
      /\ ObjectsOnce(saved')
      /\ Objects(broadcast') = Objects(broadcast) \union X
      /\ \A own : ObjectsOf(broadcast', own)
                    = ObjectsOf(broadcast, own) \union (IF e.id # own THEN X ELSE {})
      /\ ObjectsOnce(broadcast')
  <2>1. ObjectsOnce(saved) /\ ObjectsOnce(broadcast) /\ Objects(broadcast) \subseteq O
    BY DEF QueueInv, Stored
  <2>2. e.type = "Object" => e.el \notin Objects(saved) /\ e.el \notin Objects(broadcast)
    BY <1>6, <2>1
  <2> DEFINE a == Append(broadcast, e)
             s == Append(saved, e)
  <2>3. Objects(s) = O \union X /\ ObjectsOnce(s)
    BY <1>2, <1>4, <2>1, <2>2, ObjectsAppended
  <2>4. Objects(a) = Objects(broadcast) \union X /\ ObjectsOnce(a)
    BY <1>2, <1>4, <2>1, <2>2, ObjectsAppended
  <2>5. \A own : ObjectsOf(a, own) = ObjectsOf(broadcast, own) \union (IF e.id # own THEN X ELSE {})
    BY <1>2, <1>4, ObjectsAppended
  <2>6. broadcast' = a /\ saved' = IF IsStored(e) THEN s ELSE saved
    BY <1>1
  <2> HIDE DEF a, s
  <2>7. Objects(saved') = O \union X /\ ObjectsOnce(saved')
    <3>1. CASE IsStored(e)
      BY <2>3, <2>6, <3>1
    <3>2. CASE ~IsStored(e)
      <4>1. X = {}
        BY <3>2 DEF IsStored
      <4> HIDE DEF X
      <4> QED
        BY <2>1, <2>6, <3>2, <4>1
    <3> QED
      BY <3>1, <3>2
  <2> QED
    BY <2>4, <2>5, <2>6, <2>7
<1> HIDE DEF X, O
<1>8. /\ outbox'[p] = t /\ \A q \in Pages \ {p} : outbox'[q] = outbox[q]
      /\ outbox' \in [Pages -> AllEvents]
  BY <1>1, <1>4 DEF TypeInv, AllEvents
<1>9. Sent' = [q \in Pages |-> Objects(outbox'[q])]
  BY DEF Sent
<1>10. Sent'[p] = Objects(t) /\ \A q \in Pages \ {p} : Sent'[q] = Sent[q]
  BY <1>8, <1>9 DEF Sent
<1>11. ASSUME NEW q \in Pages PROVE OutgoingOf(q)'
  <2>1. CASE q = p
    <3>1. live[p]
      BY <1>1, <1>3 DEF OutgoingOf
    <3> QED
      BY <1>1, <1>3, <1>4, <1>5, <1>8, <2>1, <3>1 DEF OutgoingOf
  <2>2. CASE q # p
    BY <1>1, <1>3, <1>8, <2>2 DEF OutgoingOf
  <2> QED
    BY <2>1, <2>2
<1>12. Stored'
  BY <1>7 DEF QueueInv, Stored, O
<1>13. \A q \in Pages : /\ Sent'[q] \subseteq Sent[q] /\ Sent'[q] \cap X = {}
                        /\ q # p => Sent[q] \cap X = {}
  <2>1. ASSUME NEW q \in Pages, q # p PROVE Sent[q] \cap X = {}
    BY <1>4, <2>1 DEF QueueInv, Fresh
  <2> QED
    BY <1>4, <1>10, <2>1
<1>14. Fresh'
  <2>1. /\ \A q \in Pages : Sent[q] \subseteq Nat /\ Sent[q] \cap O = {}
                            /\ \A d \in Sent[q] : d <= MaxInputs + inputs
        /\ \A q \in Pages : drag[q] <= inputs /\ (drag[q] # 0 => MaxInputs + drag[q] \notin O)
        /\ \A q, r \in Pages : drag[q] # 0 => MaxInputs + drag[q] \notin Sent[r]
        /\ \A q, r \in Pages : q # r => Sent[q] \cap Sent[r] = {} /\ (drag[q] # 0 => drag[q] # drag[r])
        /\ \A d \in O : d <= MaxInputs + inputs
    BY DEF QueueInv, Fresh, O
  <2>2. drag' = drag /\ inputs' = inputs /\ Objects(saved') = O \union X
    BY <1>1, <1>7
  <2>3. \A d \in Objects(saved') : d <= MaxInputs + inputs'
    BY <1>4, <2>1, <2>2
  <2>4. ASSUME NEW q \in Pages
        PROVE  /\ Sent'[q] \subseteq Nat /\ \A d \in Sent'[q] : d <= MaxInputs + inputs'
               /\ Sent'[q] \cap Objects(saved') = {}
               /\ drag'[q] <= inputs'
               /\ drag'[q] # 0 => MaxInputs + drag'[q] \notin Objects(saved')
    <3>1. Sent'[q] \subseteq Sent[q] /\ Sent'[q] \cap X = {}
      BY <1>13
    <3>2. drag[q] # 0 => MaxInputs + drag[q] \notin X
      BY <1>4, <2>1
    <3> QED
      BY <2>1, <2>2, <3>1, <3>2
  <2>5. ASSUME NEW q \in Pages, NEW r \in Pages
        PROVE  /\ drag'[q] # 0 => MaxInputs + drag'[q] \notin Sent'[r]
               /\ q # r => Sent'[q] \cap Sent'[r] = {} /\ (drag'[q] # 0 => drag'[q] # drag'[r])
    BY <1>13, <2>1, <2>2
  <2> QED
    BY <2>3, <2>4, <2>5 DEF Fresh
<1>15. Known' = [q \in Pages |-> (Objects(saved') \union Sent'[q]) \ ObjectsOf(broadcast', id[q])]
  BY <1>1 DEF Known
<1>16. ASSUME NEW q \in Pages PROVE Neat(view'[q], Known'[q])
  <2>1. CASE q = p
    <3>1. ObjectsOf(broadcast', id[q]) = ObjectsOf(broadcast, id[q]) \union {}
      BY <1>4, <1>7, <2>1
    <3>2. Known[q] \subseteq Known'[q]
      BY <1>4, <1>7, <1>10, <1>15, <2>1, <3>1 DEF Known, O
    <3> QED
      BY <1>1, <3>2, StackKept
  <2>2. CASE q # p
    <3>1. ObjectsOf(broadcast', id[q]) \subseteq ObjectsOf(broadcast, id[q]) \union X
      BY <1>7
    <3>2. Known[q] \subseteq Known'[q]
      <4>1. Known[q] \cap X = {}
        BY <1>6, <1>13, <2>2 DEF Known, O
      <4> QED
        BY <1>7, <1>10, <1>15, <2>2, <3>1, <4>1 DEF Known, O
    <3> QED
      BY <1>1, <3>2, StackKept
  <2> QED
    BY <2>1, <2>2
<1> QED
  BY <1>11, <1>12, <1>14, <1>16 DEF QueueInv, Outgoing, StackInv

LEMMA StackedSendFrame ==
  ASSUME TypeInv, QueueInv, StackInv, SendFrame
  PROVE  QueueInv' /\ StackInv'
<1>1. /\ view' = [p \in Pages |-> IF live[p] THEN Receive(view[p], id[p], broadcast) ELSE view[p]]
      /\ broadcast' = <<>> /\ UNCHANGED <<live, id, leaving, saved, loads>>
      /\ UNCHANGED <<drag, building, outbox, inputs>>
  BY DEF SendFrame, userVars
<1>2. Sent' = Sent
  BY <1>1 DEF Sent
<1>3. QueueInv'
  BY <1>1, <1>2, NoObjects DEF QueueInv, Outgoing, OutgoingOf, Stored, Fresh
<1>4. Known' = [p \in Pages |-> Objects(saved) \union Sent[p]]
  <2>1. Known' = [p \in Pages |-> (Objects(saved) \union Sent[p]) \ ObjectsOf(<<>>, id[p])]
    BY <1>1, <1>2 DEF Known
  <2>2. \A p \in Pages : ObjectsOf(<<>>, id[p]) = {}
    BY NoObjects
  <2> QED
    BY <2>1, <2>2
<1>5. ASSUME NEW p \in Pages PROVE Neat(view'[p], Known'[p])
  <2>1. CASE live[p]
    <3> DEFINE w == HandleAll(view[p], id[p], broadcast)
    <3>0. view[p] \in Views /\ broadcast \in Seq(Event) /\ ObjectsOnce(broadcast)
          /\ Neat(view[p], Known[p])
      BY DEF TypeInv, AllEvents, QueueInv, Stored, StackInv
    <3>1. Known[p] \cap ObjectsOf(broadcast, id[p]) = {}
      BY DEF Known
    <3>2. Neat(w, Known[p] \union ObjectsOf(broadcast, id[p])) /\ w \in Views
      BY <3>0, <3>1, NeatAll, AllHandled
    <3>3. Known[p] \union ObjectsOf(broadcast, id[p]) \subseteq Known'[p]
      BY <1>4, KnownIs DEF Known, QueueInv, Stored
    <3> HIDE DEF w
    <3>4. view'[p] = [w EXCEPT !.failed = FALSE, !.drawRequested = @ \/ ~w.failed]
      BY <1>1, <2>1 DEF Receive, w
    <3>5. view'[p].increments = w.increments /\ view'[p].astray = w.astray
      BY <3>2, <3>4 DEF Views, PageView
    <3> QED
      BY <3>2, <3>3, <3>5 DEF Neat
  <2>2. CASE ~live[p]
    <3>1. view'[p] = view[p]
      BY <1>1, <2>2
    <3>2. Known[p] \subseteq Known'[p]
      BY <1>4 DEF Known
    <3> QED
      BY <3>1, <3>2, StackKept
  <2> QED
    BY <2>1, <2>2
<1> QED
  BY <1>3, <1>5 DEF StackInv

LEMMA StackedAnimationFrame ==
  ASSUME TypeInv, QueueInv, StackInv, NEW p \in Pages, AnimationFrame(p)
  PROVE  QueueInv' /\ StackInv'
<1>1. /\ view' = [view EXCEPT ![p] = Draw(view[p])] /\ UNCHANGED <<live, id, leaving, broadcast, saved, loads>>
      /\ UNCHANGED <<drag, building, outbox, inputs>>
  BY DEF AnimationFrame, userVars, serverVars, TypeInv
<1>2. Sent' = Sent
  BY <1>1 DEF Sent
<1>3. Known' = Known
  BY <1>1, <1>2 DEF Known
<1>4. QueueInv'
  BY <1>1, <1>2 DEF QueueInv, Outgoing, OutgoingOf, Stored, Fresh
<1>5. ASSUME NEW q \in Pages PROVE Neat(view'[q], Known'[q])
  <2>1. view[q] \in Views /\ view'[q] \in {view[q], Draw(view[q])}
    BY <1>1 DEF TypeInv
  <2>2. view'[q].increments = view[q].increments /\ view'[q].astray = view[q].astray
    BY <2>1, DrawnInViews
  <2> QED
    BY <1>3, <2>2, StackKept
<1> QED
  BY <1>4, <1>5 DEF StackInv

PaperInv == TypeInv /\ DragInv /\ QueueInv /\ StackInv

LEMMA StackedStep == PaperInv /\ [Next]_vars => PaperInv'
<1> SUFFICES ASSUME TypeInv, DragInv, QueueInv, StackInv, [Next]_vars PROVE PaperInv'
  BY DEF PaperInv
<1>1. TypeInv' /\ DragInv'
  BY TypedStep
<1>2. ASSUME NEW p \in Pages, DrawUpdate(p) PROVE QueueInv' /\ StackInv'
  BY <1>1, <1>2, StackedKept DEF DrawUpdate
<1>3. ASSUME NEW p \in Pages, Undo(p) PROVE QueueInv' /\ StackInv'
  BY <1>1, <1>3, StackedKept DEF Undo
<1>4. ASSUME NEW p \in Pages, Redo(p) PROVE QueueInv' /\ StackInv'
  BY <1>1, <1>4, StackedKept DEF Redo
<1>5. ASSUME UNCHANGED vars PROVE QueueInv' /\ StackInv'
  <2>1. /\ UNCHANGED <<live, id, view, drag, building, outbox, inputs, leaving, broadcast, saved, loads>>
    BY <1>5 DEF vars, userVars, serverVars
  <2>2. Sent' = Sent
    BY <2>1 DEF Sent
  <2>3. Known' = Known
    BY <2>1, <2>2 DEF Known
  <2> QED
    BY <2>1, <2>2, <2>3 DEF QueueInv, Outgoing, OutgoingOf, Stored, Fresh, StackInv
<1>6. QueueInv' /\ StackInv'
  BY <1>1, <1>2, <1>3, <1>4, <1>5, StackedLoad, StackedClose, StackedCleanup, StackedDrawStart,
     StackedDrawFinish, StackedDrawCancel, StackedMoveCursor, StackedAccept, StackedSendFrame,
     StackedAnimationFrame DEF Next
<1> QED
  BY <1>1, <1>6 DEF PaperInv

LEMMA PaperAlways == Spec => []PaperInv
<1>1. Init => PaperInv
  BY InitTyped, InitQueued, InitStacked DEF PaperInv
<1> QED
  BY <1>1, StackedStep, PTL DEF Spec

(***************************************************************************)
(* paperDraw.js: the search of addUndo, which counts what to skip, finds   *)
(* an object that shows at that point of the stack, and the one of addRedo *)
(* an object that does not, whatever the other clients did in between.     *)
(***************************************************************************)
THEOREM UndoneAndRedone == Spec => []UndoChangesPaper
<1>1. PaperInv => UndoChangesPaper
  <2> SUFFICES ASSUME PaperInv, NEW p \in Pages, ~view[p].astray,
                      NEW i \in DOMAIN view[p].increments
               PROVE  LET before == Shown(SubSeq(view[p].increments, 1, i - 1)) IN
                        (view[p].increments[i].kind = "Undo") = (view[p].increments[i].el \in before)
    BY DEF UndoChangesPaper
  <2> DEFINE incs == view[p].increments
  <2>1. incs \in Seq(Increment) /\ InTurn(incs)
    BY DEF PaperInv, TypeInv, Views, PageView, StackInv, Neat
  <2> HIDE DEF incs
  <2>2. LET before == Shown(SubSeq(incs, 1, i - 1)) IN
          (incs[i].kind = "Undo") = (incs[i].el \in before)
    BY <2>1, InTurnChanges DEF incs
  <2> QED
    BY <2>2 DEF incs
<1> QED
  BY <1>1, PaperAlways, PTL

(***************************************************************************)
(* Stacks that differ in the order of clients only: each client has the    *)
(* same increments in the same order in both.                              *)
(***************************************************************************)
Mine(incs, cid) == {i \in DOMAIN incs : incs[i].id = cid}

Matches(f, a, b, cid) ==
  /\ f \in [Mine(a, cid) -> Mine(b, cid)]
  /\ \A k \in Mine(b, cid) : \E i \in Mine(a, cid) : f[i] = k
  /\ \A i, j \in Mine(a, cid) : i < j => f[i] < f[j]
  /\ \A i \in Mine(a, cid) : a[i].kind = b[f[i]].kind /\ a[i].el = b[f[i]].el

Alike(a, b, cid) == \E f : Matches(f, a, b, cid)

LEMMA AlikeItself ==
  ASSUME NEW a \in Seq(Increment), NEW cid
  PROVE  Alike(a, a, cid)
<1>1. Matches([i \in Mine(a, cid) |-> i], a, a, cid)
  BY DEF Matches
<1> QED
  BY <1>1 DEF Alike

LEMMA MineArePlaces ==
  ASSUME NEW a \in Seq(Increment), NEW cid
  PROVE  /\ Mine(a, cid) \subseteq 1..Len(a) /\ Mine(a, cid) \subseteq Nat
         /\ Len(a) \in Nat /\ DOMAIN a = 1..Len(a)
  BY DEF Mine

\* A matching keeps the order the other way, too.
LEMMA MatchedOrder ==
  ASSUME NEW a \in Seq(Increment), NEW b \in Seq(Increment), NEW cid, NEW f, Matches(f, a, b, cid),
         NEW i \in Mine(a, cid), NEW j \in Mine(a, cid)
  PROVE  /\ f[i] \in Nat /\ f[j] \in Nat /\ f[i] \in Mine(b, cid)
         /\ f[i] = f[j] <=> i = j
         /\ f[i] < f[j] <=> i < j
<1>1. i \in Nat /\ j \in Nat /\ f[i] \in Mine(b, cid) /\ f[j] \in Mine(b, cid)
  BY MineArePlaces DEF Matches
<1>2. f[i] \in Nat /\ f[j] \in Nat
  BY <1>1, MineArePlaces
<1>3. (i < j => f[i] < f[j]) /\ (j < i => f[j] < f[i])
  BY DEF Matches
<1> QED
  BY <1>1, <1>2, <1>3

LEMMA AlikeBack ==
  ASSUME NEW a \in Seq(Increment), NEW b \in Seq(Increment), NEW cid, Alike(a, b, cid)
  PROVE  Alike(b, a, cid)
<1>1. PICK f : Matches(f, a, b, cid)
  BY DEF Alike
<1> DEFINE g == [k \in Mine(b, cid) |-> CHOOSE i \in Mine(a, cid) : f[i] = k]
<1>2. ASSUME NEW k \in Mine(b, cid) PROVE g[k] \in Mine(a, cid) /\ f[g[k]] = k
  <2>1. \E i \in Mine(a, cid) : f[i] = k
    BY <1>1 DEF Matches
  <2> QED
    BY <2>1
<1>3. g \in [Mine(b, cid) -> Mine(a, cid)]
  BY <1>2
<1> HIDE DEF g
<1>4. ASSUME NEW i \in Mine(a, cid) PROVE \E k \in Mine(b, cid) : g[k] = i
  <2>1. f[i] \in Mine(b, cid)
    BY <1>1 DEF Matches
  <2>2. f[g[f[i]]] = f[i] /\ g[f[i]] \in Mine(a, cid)
    BY <1>2, <2>1
  <2>3. g[f[i]] = i
    BY <1>1, <2>2, MatchedOrder
  <2> QED
    BY <2>1, <2>3
<1>5. ASSUME NEW k \in Mine(b, cid), NEW l \in Mine(b, cid), k < l PROVE g[k] < g[l]
  <2>1. f[g[k]] = k /\ f[g[l]] = l /\ g[k] \in Mine(a, cid) /\ g[l] \in Mine(a, cid)
    BY <1>2
  <2> QED
    BY <1>1, <1>5, <2>1, MatchedOrder
<1>6. ASSUME NEW k \in Mine(b, cid) PROVE b[k].kind = a[g[k]].kind /\ b[k].el = a[g[k]].el
  BY <1>1, <1>2 DEF Matches
<1>7. Matches(g, b, a, cid)
  BY <1>3, <1>4, <1>5, <1>6 DEF Matches
<1> QED
  BY <1>7 DEF Alike

LEMMA AlikeBoth ==
  ASSUME NEW a \in Seq(Increment), NEW b \in Seq(Increment), NEW c \in Seq(Increment), NEW cid,
         Alike(a, b, cid), Alike(b, c, cid)
  PROVE  Alike(a, c, cid)
<1>1. PICK f : Matches(f, a, b, cid)
  BY DEF Alike
<1>2. PICK g : Matches(g, b, c, cid)
  BY DEF Alike
<1> DEFINE h == [i \in Mine(a, cid) |-> g[f[i]]]
<1>3. ASSUME NEW i \in Mine(a, cid) PROVE f[i] \in Mine(b, cid) /\ h[i] = g[f[i]] /\ h[i] \in Mine(c, cid)
  BY <1>1, <1>2 DEF Matches
<1>4. h \in [Mine(a, cid) -> Mine(c, cid)]
  BY <1>3
<1> HIDE DEF h
<1>5. ASSUME NEW k \in Mine(c, cid) PROVE \E i \in Mine(a, cid) : h[i] = k
  <2>1. PICK j \in Mine(b, cid) : g[j] = k
    BY <1>2 DEF Matches
  <2>2. PICK i \in Mine(a, cid) : f[i] = j
    BY <1>1 DEF Matches
  <2> QED
    BY <1>3, <2>1, <2>2
<1>6. ASSUME NEW i \in Mine(a, cid), NEW j \in Mine(a, cid), i < j PROVE h[i] < h[j]
  <2>1. f[i] < f[j]
    BY <1>1, <1>6 DEF Matches
  <2> QED
    BY <1>2, <1>3, <2>1 DEF Matches
<1>7. ASSUME NEW i \in Mine(a, cid) PROVE a[i].kind = c[h[i]].kind /\ a[i].el = c[h[i]].el
  BY <1>1, <1>2, <1>3 DEF Matches
<1>8. Matches(h, a, c, cid)
  BY <1>4, <1>5, <1>6, <1>7 DEF Matches
<1> QED
  BY <1>8 DEF Alike

\* What another client adds does not matter ...
LEMMA AlikeOthers ==
  ASSUME NEW a \in Seq(Increment), NEW x \in Increment, NEW cid, x.id # cid
  PROVE  Alike(a, a \o <<x>>, cid)
<1> DEFINE t == a \o <<x>>
<1>1. /\ t \in Seq(Increment) /\ Len(t) = Len(a) + 1 /\ DOMAIN t = 1..Len(a) + 1
      /\ \A i \in 1..Len(a) : t[i] = a[i]
      /\ t[Len(a) + 1] = x
      /\ DOMAIN a = 1..Len(a) /\ Len(a) \in Nat
  BY ElsAdded
<1> HIDE DEF t
<1>2. Mine(t, cid) = Mine(a, cid)
  BY <1>1 DEF Mine
<1>3. \A i \in Mine(a, cid) : t[i] = a[i]
  BY <1>1 DEF Mine
<1>4. Matches([i \in Mine(a, cid) |-> i], a, t, cid)
  BY <1>2, <1>3 DEF Matches
<1> QED
  BY <1>4 DEF Alike, t

\* ... and the same of its own keeps them alike.
LEMMA AlikeOwn ==
  ASSUME NEW a \in Seq(Increment), NEW b \in Seq(Increment), NEW x \in Increment, NEW cid,
         x.id = cid, Alike(a, b, cid)
  PROVE  Alike(a \o <<x>>, b \o <<x>>, cid)
<1> DEFINE s == a \o <<x>>
           t == b \o <<x>>
           n == Len(a) + 1
           m == Len(b) + 1
<1>1. /\ s \in Seq(Increment) /\ DOMAIN s = 1..n /\ s[n] = x
      /\ \A i \in 1..Len(a) : s[i] = a[i]
      /\ DOMAIN a = 1..Len(a) /\ Len(a) \in Nat
  BY ElsAdded
<1>2. /\ t \in Seq(Increment) /\ DOMAIN t = 1..m /\ t[m] = x
      /\ \A i \in 1..Len(b) : t[i] = b[i]
      /\ DOMAIN b = 1..Len(b) /\ Len(b) \in Nat
  BY ElsAdded
<1>3. PICK f : Matches(f, a, b, cid)
  BY DEF Alike
<1> HIDE DEF s, t
<1>4. Mine(s, cid) = Mine(a, cid) \union {n} /\ \A i \in Mine(a, cid) : i < n /\ s[i] = a[i]
  BY <1>1 DEF Mine
<1>5. Mine(t, cid) = Mine(b, cid) \union {m} /\ \A i \in Mine(b, cid) : i < m /\ t[i] = b[i]
  BY <1>2 DEF Mine
<1> DEFINE h == [i \in Mine(s, cid) |-> IF i = n THEN m ELSE f[i]]
<1>6. h[n] = m /\ \A i \in Mine(a, cid) : h[i] = f[i] /\ f[i] \in Mine(b, cid)
  <2>1. \A i \in Mine(a, cid) : i # n
    BY <1>1, <1>4
  <2> QED
    BY <1>3, <1>4, <2>1 DEF Matches
<1>7. h \in [Mine(s, cid) -> Mine(t, cid)]
  BY <1>4, <1>5, <1>6
<1> HIDE DEF h
<1>8. ASSUME NEW k \in Mine(t, cid) PROVE \E i \in Mine(s, cid) : h[i] = k
  <2>1. CASE k = m
    BY <1>4, <1>6, <2>1
  <2>2. CASE k \in Mine(b, cid)
    BY <1>3, <1>4, <1>6, <2>2 DEF Matches
  <2> QED
    BY <1>5, <2>1, <2>2
<1>9. ASSUME NEW i \in Mine(s, cid), NEW j \in Mine(s, cid), i < j PROVE h[i] < h[j]
  <2>1. i \in Mine(a, cid)
    <3>1. \A k \in Mine(s, cid) : ~ (n < k)
      BY <1>1 DEF Mine
    <3> QED
      BY <1>4, <1>9, <3>1
  <2>2. CASE j = n
    BY <1>5, <1>6, <2>1, <2>2
  <2>3. CASE j \in Mine(a, cid)
    BY <1>3, <1>6, <1>9, <2>1, <2>3 DEF Matches
  <2> QED
    BY <1>4, <2>2, <2>3
<1>10. ASSUME NEW i \in Mine(s, cid) PROVE s[i].kind = t[h[i]].kind /\ s[i].el = t[h[i]].el
  <2>1. CASE i = n
    BY <1>1, <1>2, <1>6, <2>1
  <2>2. CASE i \in Mine(a, cid)
    BY <1>3, <1>4, <1>5, <1>6, <2>2 DEF Matches
  <2> QED
    BY <1>4, <2>1, <2>2
<1>11. Matches(h, s, t, cid)
  BY <1>7, <1>8, <1>9, <1>10 DEF Matches
<1> QED
  BY <1>11 DEF Alike, s, t

\* The object of earlier days under all stacks, where no search goes.
Bottom == [kind |-> "Object", id |-> 1, el |-> 1]

Stacks == {s \in Seq(Increment) : s # <<>> /\ s[1] = Bottom}

\* A page with nothing but a stack, and what a handler adds to it.
OnStack(s) == [EmptyView EXCEPT !.increments = s]

AddedTo(s, e) == Added(OnStack(s), e)

LEMMA OnStackIs ==
  ASSUME NEW s \in Seq(Increment)
  PROVE  OnStack(s) \in Views /\ OnStack(s).increments = s
<1>1. EmptyView \in Views /\ EmptyView.drawn = 0
  BY EmptyInViews DEF EmptyView
<1>2. Len(s) \in Nat
  OBVIOUS
<1> DEFINE w == OnStack(s)
<1>3. w \in PageView /\ w.increments = s /\ w.drawn = 0
  BY <1>1 DEF OnStack, Views, PageView
<1> HIDE DEF w
<1> QED
  BY <1>2, <1>3 DEF Views, w

LEMMA AddedIs ==
  ASSUME NEW v \in Views, NEW e \in Event
  PROVE  /\ v.increments \in Seq(Increment)
         /\ Added(v, e) = AddedTo(v.increments, e)
<1>1. v.increments \in Seq(Increment)
  BY DEF Views, PageView
<1> DEFINE w == OnStack(v.increments)
<1>2. w \in Views /\ w.increments = v.increments
  BY <1>1, OnStackIs
<1> HIDE DEF w
<1>3. Undoable(v, e.id) = Undoable(w, e.id) /\ Redoable(v, e.id) = Redoable(w, e.id)
  BY <1>2, SamePlaces
<1>4. Added(v, e) = Added(w, e)
  BY <1>2, <1>3 DEF Added
<1> QED
  BY <1>1, <1>4 DEF AddedTo, w

\* What is added is nothing, or one increment of the client.
LEMMA AddedToStack ==
  ASSUME NEW s \in Seq(Increment), NEW e \in Event
  PROVE  /\ AddedTo(s, e) = <<>> \/ \E x \in Increment : AddedTo(s, e) = <<x>> /\ x.id = e.id
         /\ s \o AddedTo(s, e) \in Seq(Increment)
         /\ s \in Stacks => s \o AddedTo(s, e) \in Stacks
         /\ ~IsStored(e) => AddedTo(s, e) = <<>>
<1> DEFINE v == OnStack(s)
<1>1. v \in Views /\ v.increments = s /\ e.id \in ClientId /\ e.el \in Nat
  BY OnStackIs DEF Event
<1> HIDE DEF v
<1>2. AddedTo(s, e) = Added(v, e)
  BY DEF AddedTo, v
<1>3. ASSUME NEW k \in 1..Len(s) PROVE s[k].el \in Nat
  <2>1. s[k] \in Increment
    BY <1>3, ElementOfSeq
  <2> QED
    BY <2>1 DEF Increment
<1>4. AddedTo(s, e) = <<>> \/ \E x \in Increment : AddedTo(s, e) = <<x>> /\ x.id = e.id
  <2>1. CASE e.type = "Object"
    <3> DEFINE x == [kind |-> "Object", id |-> e.id, el |-> e.el]
    <3>1. x \in Increment /\ x.id = e.id
      BY <1>1 DEF Increment
    <3>2. Added(v, e) = <<x>>
      BY <2>1 DEF Added
    <3> HIDE DEF x
    <3> QED
      BY <1>2, <3>1, <3>2
  <2>2. CASE e.type = "Undo" /\ Undoable(v, e.id) # {}
    <3> DEFINE x == [kind |-> "Undo", id |-> e.id, el |-> s[Max(Undoable(v, e.id))].el]
    <3>0. Max(Undoable(v, e.id)) \in 1..Len(s)
      BY <1>1, <2>2, UndoablePlaces
    <3>1. x \in Increment /\ x.id = e.id
      BY <1>1, <1>3, <3>0 DEF Increment
    <3>2. Added(v, e) = <<x>>
      BY <1>1, <2>2 DEF Added
    <3> HIDE DEF x
    <3> QED
      BY <1>2, <3>1, <3>2
  <2>3. CASE e.type = "Redo" /\ Redoable(v, e.id) # {}
    <3> DEFINE x == [kind |-> "Redo", id |-> e.id, el |-> s[Max(Redoable(v, e.id))].el]
    <3>0. Max(Redoable(v, e.id)) \in 1..Len(s)
      BY <1>1, <2>3, UndoablePlaces
    <3>1. x \in Increment /\ x.id = e.id
      BY <1>1, <1>3, <3>0 DEF Increment
    <3>2. Added(v, e) = <<x>>
      BY <1>1, <2>3 DEF Added
    <3> HIDE DEF x
    <3> QED
      BY <1>2, <3>1, <3>2
  <2> QED
    BY <1>2, <2>1, <2>2, <2>3 DEF Added
<1>5. ASSUME NEW x \in Increment, AddedTo(s, e) = <<x>>
      PROVE  s \o <<x>> \in Seq(Increment) /\ (s \in Stacks => s \o <<x>> \in Stacks)
  <2>1. s \o <<x>> \in Seq(Increment) /\ DOMAIN (s \o <<x>>) = 1..Len(s) + 1
        /\ \A i \in 1..Len(s) : (s \o <<x>>)[i] = s[i]
    BY ElsAdded
  <2>2. s \in Stacks => 1 \in 1..Len(s) /\ s \o <<x>> # <<>>
    <3>1. s # <<>> => Len(s) \in Nat \ {0}
      BY EmptySeq
    <3>2. Len(s) \in Nat /\ Len(s \o <<x>>) = Len(s) + 1
      BY ElsAdded
    <3> QED
      BY <3>1, <3>2 DEF Stacks
  <2> QED
    BY <2>1, <2>2 DEF Stacks
<1>6. s \o <<>> = s
  BY ConcatEmptySeq
<1>7. ~IsStored(e) => AddedTo(s, e) = <<>>
  BY <1>2 DEF IsStored, Added
<1> QED
  BY <1>4, <1>5, <1>6, <1>7

----------------------------------------------------------------------------
(***************************************************************************)
(* In stacks that are alike for a client, its searches find the same.      *)
(***************************************************************************)
LEMMA SameBottom ==
  ASSUME NEW a \in Stacks, NEW b \in Stacks, NEW cid, NEW f, Matches(f, a, b, cid),
         NEW i \in Mine(a, cid)
  PROVE  i \in 2..Len(a) <=> f[i] \in 2..Len(b)
<1>1. a \in Seq(Increment) /\ b \in Seq(Increment) /\ a[1].id = 1 /\ b[1].id = 1
      /\ 1 \in 1..Len(a) /\ 1 \in 1..Len(b)
  <2>1. a \in Seq(Increment) /\ b \in Seq(Increment) /\ a # <<>> /\ b # <<>>
    BY DEF Stacks
  <2>2. Len(a) \in Nat \ {0} /\ Len(b) \in Nat \ {0}
    BY <2>1, EmptySeq
  <2> QED
    BY <2>1, <2>2 DEF Stacks, Bottom
<1>2. i \in 1..Len(a) /\ f[i] \in 1..Len(b) /\ f[i] \in Mine(b, cid) /\ f[i] \in Nat
  BY <1>1, MineArePlaces, MatchedOrder
<1>3. CASE cid = 1
  <2>1. 1 \in Mine(a, cid) /\ 1 \in Mine(b, cid)
    BY <1>1, <1>3 DEF Mine
  <2>2. PICK j \in Mine(a, cid) : f[j] = 1
    BY <2>1 DEF Matches
  <2>3. f[1] \in 1..Len(b) /\ j \in 1..Len(a)
    BY <1>1, <2>1, MineArePlaces, MatchedOrder
  <2>4. f[1] < f[j] <=> 1 < j
    BY <1>1, <2>1, MatchedOrder
  <2>5. j = 1
    BY <2>2, <2>3, <2>4
  <2>6. f[i] = f[j] <=> i = j
    BY <1>1, MatchedOrder
  <2> QED
    BY <1>2, <2>2, <2>5, <2>6
<1>4. CASE cid # 1
  <2>1. i # 1 /\ f[i] # 1
    BY <1>1, <1>2, <1>4 DEF Mine
  <2> QED
    BY <1>2, <2>1
<1> QED
  BY <1>3, <1>4

LEMMA SameCount ==
  ASSUME NEW a \in Seq(Increment), NEW b \in Seq(Increment), NEW cid, NEW f, Matches(f, a, b, cid),
         NEW i \in Mine(a, cid), NEW kinds
  PROVE  Count(a, cid, i, Len(a), kinds) = Count(b, cid, f[i], Len(b), kinds)
<1> DEFINE P == Places(a, cid, i, Len(a), kinds)
           Q == Places(b, cid, f[i], Len(b), kinds)
           g == [k \in P |-> f[k]]
<1>1. i \in Nat /\ Len(a) \in Nat /\ f[i] \in Nat /\ Len(b) \in Nat
  BY MineArePlaces, MatchedOrder
<1>2. \A k : k \in P <=> k \in Mine(a, cid) /\ i < k /\ a[k].kind \in kinds
  BY <1>1, MineArePlaces DEF Places, Mine
<1>3. \A k : k \in Q <=> k \in Mine(b, cid) /\ f[i] < k /\ b[k].kind \in kinds
  BY <1>1, MineArePlaces DEF Places, Mine
<1>4. IsFiniteSet(P)
  BY <1>1, CountIsNat
<1> HIDE DEF P, Q
<1>5. ASSUME NEW k \in Mine(a, cid) PROVE k \in P <=> f[k] \in Q
  <2>1. f[k] \in Mine(b, cid) /\ (f[i] < f[k] <=> i < k)
    BY <1>5, MatchedOrder
  <2>2. a[k].kind = b[f[k]].kind
    BY <1>5 DEF Matches
  <2> QED
    BY <1>2, <1>3, <2>1, <2>2
<1>6. g \in [P -> Q] /\ \A k \in P : g[k] = f[k] /\ k \in Mine(a, cid)
  BY <1>2, <1>5
<1> HIDE DEF g
<1>7. \A k, l \in P : g[k] = g[l] => k = l
  BY <1>6, MatchedOrder
<1>8. ASSUME NEW l \in Q PROVE \E k \in P : g[k] = l
  <2>1. PICK k \in Mine(a, cid) : f[k] = l
    BY <1>3 DEF Matches
  <2> QED
    BY <1>5, <1>6, <2>1
<1>9. g \in Bijection(P, Q)
  BY <1>6, <1>7, <1>8 DEF Bijection, Injection, Surjection, IsInjective
<1>10. Cardinality(Q) = Cardinality(P)
  BY <1>4, <1>9, FS_Bijection DEF ExistsBijection
<1> QED
  BY <1>10 DEF Count, P, Q

\* The last of places that match.
LEMMA SameLast ==
  ASSUME NEW a \in Seq(Increment), NEW b \in Seq(Increment), NEW cid, NEW f, Matches(f, a, b, cid),
         NEW S \in SUBSET Mine(a, cid), NEW T \in SUBSET Mine(b, cid),
         \A i \in Mine(a, cid) : i \in S <=> f[i] \in T
  PROVE  /\ S = {} <=> T = {}
         /\ S # {} => a[Max(S)].el = b[Max(T)].el
<1>1. \A k \in T : \E i \in S : f[i] = k
  BY DEF Matches
<1>2. \A i \in S : f[i] \in T
  OBVIOUS
<1>3. ASSUME S # {} PROVE a[Max(S)].el = b[Max(T)].el
  <2>1. T # {} /\ S \in SUBSET (1..Len(a)) /\ T \in SUBSET (1..Len(b)) /\ Len(a) \in Nat /\ Len(b) \in Nat
    BY <1>2, <1>3, MineArePlaces
  <2>2. Max(S) \in S /\ \A i \in S : i <= Max(S)
    BY <1>3, <2>1, LastPlace
  <2>3. Max(T) \in T /\ \A i \in T : i <= Max(T)
    BY <2>1, LastPlace
  <2>4. PICK j \in S : f[j] = Max(T)
    BY <1>1, <2>3
  <2>5. f[Max(S)] <= f[j] /\ j <= Max(S)
    BY <1>2, <2>2, <2>3, <2>4
  <2>6. f[Max(S)] \in Nat /\ f[j] \in Nat /\ (f[j] < f[Max(S)] <=> j < Max(S))
    BY <2>2, MatchedOrder
  <2>7. j = Max(S)
    <3>1. j \in 1..Len(a) /\ Max(S) \in 1..Len(a)
      BY <2>1, <2>2, Zenon
    <3> QED
      BY <2>5, <2>6, <3>1
  <2> QED
    BY <2>2, <2>4, <2>7 DEF Matches
<1> QED
  BY <1>1, <1>2, <1>3

LEMMA SameFound ==
  ASSUME NEW a \in Stacks, NEW b \in Stacks, NEW cid \in ClientId, Alike(a, b, cid)
  PROVE  LET v == OnStack(a)
             w == OnStack(b)
         IN /\ Undoable(v, cid) = {} <=> Undoable(w, cid) = {}
            /\ Redoable(v, cid) = {} <=> Redoable(w, cid) = {}
            /\ Undoable(v, cid) # {} =>
                 a[Max(Undoable(v, cid))].el = b[Max(Undoable(w, cid))].el
            /\ Redoable(v, cid) # {} =>
                 a[Max(Redoable(v, cid))].el = b[Max(Redoable(w, cid))].el
<1> DEFINE v == OnStack(a)
           w == OnStack(b)
<1>1. a \in Seq(Increment) /\ b \in Seq(Increment)
  BY DEF Stacks
<1>2. v \in Views /\ w \in Views /\ v.increments = a /\ w.increments = b
  BY <1>1, OnStackIs
<1>3. PICK f : Matches(f, a, b, cid)
  BY DEF Alike
<1> HIDE DEF v, w
<1>4. /\ DOMAIN a = 1..Len(a) /\ DOMAIN b = 1..Len(b) /\ Len(a) \in Nat /\ Len(b) \in Nat
  BY <1>1
<1>5. ASSUME NEW k
      PROVE  /\ k \in Undoable(v, cid) <=>
                  /\ k \in 2..Len(a) /\ k \in Mine(a, cid) /\ a[k].kind \in {"Object", "Redo"}
                  /\ Count(a, cid, k, Len(a), {"Undo"}) = Count(a, cid, k, Len(a), {"Object", "Redo"})
             /\ k \in Redoable(v, cid) <=>
                  /\ k \in 2..Len(a) /\ k \in Mine(a, cid) /\ a[k].kind = "Undo"
                  /\ Count(a, cid, k, Len(a), {"Redo"}) = Count(a, cid, k, Len(a), {"Undo"})
  <2>1. k \in 2..Len(a) => (a[k].id = cid <=> k \in Mine(a, cid))
    BY <1>4 DEF Mine
  <2> QED
    BY <1>2, <2>1, Searched
<1>6. ASSUME NEW k
      PROVE  /\ k \in Undoable(w, cid) <=>
                  /\ k \in 2..Len(b) /\ k \in Mine(b, cid) /\ b[k].kind \in {"Object", "Redo"}
                  /\ Count(b, cid, k, Len(b), {"Undo"}) = Count(b, cid, k, Len(b), {"Object", "Redo"})
             /\ k \in Redoable(w, cid) <=>
                  /\ k \in 2..Len(b) /\ k \in Mine(b, cid) /\ b[k].kind = "Undo"
                  /\ Count(b, cid, k, Len(b), {"Redo"}) = Count(b, cid, k, Len(b), {"Undo"})
  <2>1. k \in 2..Len(b) => (b[k].id = cid <=> k \in Mine(b, cid))
    BY <1>4 DEF Mine
  <2> QED
    BY <1>2, <2>1, Searched
<1>7. ASSUME NEW i \in Mine(a, cid)
      PROVE  /\ i \in Undoable(v, cid) <=> f[i] \in Undoable(w, cid)
             /\ i \in Redoable(v, cid) <=> f[i] \in Redoable(w, cid)
  <2>1. i \in 2..Len(a) <=> f[i] \in 2..Len(b)
    BY <1>3, SameBottom
  <2>2. f[i] \in Mine(b, cid) /\ a[i].kind = b[f[i]].kind
    BY <1>3 DEF Matches
  <2>3. \A kinds : Count(a, cid, i, Len(a), kinds) = Count(b, cid, f[i], Len(b), kinds)
    BY <1>1, <1>3, SameCount
  <2> QED
    BY <1>5, <1>6, <2>1, <2>2, <2>3
<1>8. /\ Undoable(v, cid) \in SUBSET Mine(a, cid) /\ Redoable(v, cid) \in SUBSET Mine(a, cid)
      /\ Undoable(w, cid) \in SUBSET Mine(b, cid) /\ Redoable(w, cid) \in SUBSET Mine(b, cid)
  BY <1>5, <1>6
<1>9. /\ Undoable(v, cid) = {} <=> Undoable(w, cid) = {}
      /\ Undoable(v, cid) # {} => a[Max(Undoable(v, cid))].el = b[Max(Undoable(w, cid))].el
  BY <1>1, <1>3, <1>7, <1>8, SameLast
<1>10. /\ Redoable(v, cid) = {} <=> Redoable(w, cid) = {}
       /\ Redoable(v, cid) # {} => a[Max(Redoable(v, cid))].el = b[Max(Redoable(w, cid))].el
  <2> DEFINE S == Redoable(v, cid)
             T == Redoable(w, cid)
  <2>1. S \in SUBSET Mine(a, cid) /\ T \in SUBSET Mine(b, cid)
    BY <1>8
  <2>2. \A i \in Mine(a, cid) : i \in S <=> f[i] \in T
    BY <1>7
  <2> HIDE DEF S, T
  <2>3. S = {} <=> T = {}
    BY <1>3, <2>1, <2>2 DEF Matches
  <2>4. S # {} => a[Max(S)].el = b[Max(T)].el
    BY <1>1, <1>3, <2>1, <2>2, SameLast
  <2> QED
    BY <2>3, <2>4 DEF S, T
<1> QED
  BY <1>9, <1>10 DEF v, w

\* So the same event keeps them alike.
LEMMA AlikeAfter ==
  ASSUME NEW a \in Stacks, NEW b \in Stacks, NEW cid \in ClientId, Alike(a, b, cid), NEW e \in Event
  PROVE  Alike(a \o AddedTo(a, e), b \o AddedTo(b, e), cid)
<1> DEFINE s == AddedTo(a, e)
           t == AddedTo(b, e)
<1>1. a \in Seq(Increment) /\ b \in Seq(Increment) /\ a \o <<>> = a /\ b \o <<>> = b
  BY ConcatEmptySeq DEF Stacks
<1>2. /\ s = <<>> \/ \E x \in Increment : s = <<x>> /\ x.id = e.id
      /\ t = <<>> \/ \E x \in Increment : t = <<x>> /\ x.id = e.id
      /\ a \o s \in Seq(Increment) /\ b \o t \in Seq(Increment)
  BY <1>1, AddedToStack
<1>3. CASE e.id # cid
  <2> HIDE DEF s, t
  <2>1. Alike(a, a \o s, cid) /\ Alike(b, b \o t, cid)
    BY <1>1, <1>2, <1>3, AlikeItself, AlikeOthers
  <2>2. Alike(a \o s, a, cid)
    BY <1>1, <1>2, <2>1, AlikeBack
  <2>3. Alike(a \o s, b, cid)
    BY <1>1, <1>2, <2>2, AlikeBoth
  <2> QED
    BY <1>1, <1>2, <2>1, <2>3, AlikeBoth DEF s, t
<1>4. CASE e.id = cid
  <2>1. s = t
    <3>1. OnStack(a).increments = a /\ OnStack(b).increments = b
      BY <1>1, OnStackIs
    <3>2. /\ Undoable(OnStack(a), cid) = {} <=> Undoable(OnStack(b), cid) = {}
          /\ Redoable(OnStack(a), cid) = {} <=> Redoable(OnStack(b), cid) = {}
          /\ Undoable(OnStack(a), cid) # {} =>
               a[Max(Undoable(OnStack(a), cid))].el = b[Max(Undoable(OnStack(b), cid))].el
          /\ Redoable(OnStack(a), cid) # {} =>
               a[Max(Redoable(OnStack(a), cid))].el = b[Max(Redoable(OnStack(b), cid))].el
      BY SameFound
    <3> QED
      BY <1>4, <3>1, <3>2 DEF AddedTo, Added
  <2> HIDE DEF s, t
  <2>2. CASE s = <<>>
    BY <1>1, <2>1, <2>2 DEF s, t
  <2>3. CASE \E x \in Increment : s = <<x>> /\ x.id = e.id
    BY <1>1, <1>4, <2>1, <2>3, AlikeOwn DEF s, t
  <2> QED
    BY <1>2, <2>2, <2>3
<1> QED
  BY <1>3, <1>4

(***************************************************************************)
(* Of a stack like a, the events make one like b, for client cid: through  *)
(* stacks that are alike for it to what each event makes of the one        *)
(* before.                                                                 *)
(***************************************************************************)
Through(g, a, evs, b, cid) ==
  /\ g \in [0..Len(evs) -> Stacks]
  /\ Alike(g[0], a, cid)
  /\ Alike(g[Len(evs)], b, cid)
  /\ \A n \in 1..Len(evs) : Alike(g[n], g[n - 1] \o AddedTo(g[n - 1], evs[n]), cid)

Becomes(a, evs, b, cid) == \E g : Through(g, a, evs, b, cid)

LEMMA OthersAdd ==
  ASSUME NEW a \in Seq(Increment), NEW e \in Event, NEW cid, e.id # cid \/ ~IsStored(e)
  PROVE  Alike(a \o AddedTo(a, e), a, cid) /\ Alike(a, a \o AddedTo(a, e), cid)
<1> DEFINE s == AddedTo(a, e)
<1>1. /\ s = <<>> \/ \E x \in Increment : s = <<x>> /\ x.id = e.id
      /\ a \o s \in Seq(Increment) /\ a \o <<>> = a
      /\ ~IsStored(e) => s = <<>>
  BY AddedToStack, ConcatEmptySeq
<1> HIDE DEF s
<1>2. Alike(a, a \o s, cid)
  BY <1>1, AlikeItself, AlikeOthers
<1>3. Alike(a \o s, a, cid)
  BY <1>1, <1>2, AlikeBack
<1> QED
  BY <1>2, <1>3 DEF s

\* Events that are not stored change no stack.
LEMMA BecomesItself ==
  ASSUME NEW a \in Stacks, NEW evs \in Seq(Event), NEW cid,
         \A n \in DOMAIN evs : ~IsStored(evs[n])
  PROVE  Becomes(a, evs, a, cid)
<1> DEFINE g == [n \in 0..Len(evs) |-> a]
<1>1. a \in Seq(Increment) /\ Len(evs) \in Nat /\ DOMAIN evs = 1..Len(evs)
  BY DEF Stacks
<1>2. Alike(a, a, cid)
  BY <1>1, AlikeItself
<1>3. ASSUME NEW n \in 1..Len(evs) PROVE Alike(g[n], g[n - 1] \o AddedTo(g[n - 1], evs[n]), cid)
  <2>1. g[n] = a /\ g[n - 1] = a /\ evs[n] \in Event /\ ~IsStored(evs[n])
    BY <1>1
  <2> HIDE DEF g
  <2> QED
    BY <1>1, <2>1, OthersAdd
<1>4. g \in [0..Len(evs) -> Stacks] /\ g[0] = a /\ g[Len(evs)] = a
  BY <1>1
<1> HIDE DEF g
<1>5. Through(g, a, evs, a, cid)
  BY <1>2, <1>3, <1>4 DEF Through
<1> QED
  BY <1>5 DEF Becomes

LEMMA BecomesLike ==
  ASSUME NEW a \in Seq(Increment), NEW b \in Seq(Increment), NEW c \in Seq(Increment),
         NEW d \in Seq(Increment), NEW evs \in Seq(Event), NEW cid,
         Becomes(a, evs, b, cid), Alike(a, c, cid), Alike(b, d, cid)
  PROVE  Becomes(c, evs, d, cid)
<1>1. PICK g : Through(g, a, evs, b, cid)
  BY DEF Becomes
<1>2. Len(evs) \in Nat
  OBVIOUS
<1>3. g[0] \in Seq(Increment) /\ g[Len(evs)] \in Seq(Increment)
  <2>1. 0 \in 0..Len(evs) /\ Len(evs) \in 0..Len(evs)
    BY <1>2
  <2>2. g[0] \in Stacks /\ g[Len(evs)] \in Stacks
    BY <1>1, <2>1 DEF Through
  <2> QED
    BY <2>2 DEF Stacks
<1>4. Alike(g[0], c, cid) /\ Alike(g[Len(evs)], d, cid)
  BY <1>1, <1>3, AlikeBoth DEF Through
<1>5. Through(g, c, evs, d, cid)
  BY <1>1, <1>4 DEF Through
<1> QED
  BY <1>5 DEF Becomes

LEMMA BecomesDone ==
  ASSUME NEW a \in Seq(Increment), NEW b \in Seq(Increment), NEW cid, Becomes(a, <<>>, b, cid)
  PROVE  Alike(a, b, cid)
<1>1. PICK g : Through(g, a, <<>>, b, cid)
  BY DEF Becomes
<1>2. g[0] \in Seq(Increment) /\ Alike(g[0], a, cid) /\ Alike(g[0], b, cid)
  BY <1>1 DEF Through, Stacks
<1>3. Alike(a, g[0], cid)
  BY <1>2, AlikeBack
<1> QED
  BY <1>2, <1>3, AlikeBoth

\* One more event at the end ...
LEMMA BecomesMore ==
  ASSUME NEW a \in Seq(Increment), NEW b \in Stacks, NEW evs \in Seq(Event), NEW e \in Event,
         NEW cid \in ClientId, Becomes(a, evs, b, cid)
  PROVE  Becomes(a, Append(evs, e), b \o AddedTo(b, e), cid)
<1> DEFINE n == Len(evs)
           more == Append(evs, e)
<1>1. PICK g : Through(g, a, evs, b, cid)
  BY DEF Becomes
<1>2. /\ n \in Nat /\ Len(more) = n + 1 /\ more[n + 1] = e
      /\ \A i \in 1..n : more[i] = evs[i]
  OBVIOUS
<1> HIDE DEF more
<1> DEFINE x == g[n] \o AddedTo(g[n], e)
           h == [i \in 0..n + 1 |-> IF i = n + 1 THEN x ELSE g[i]]
<1>3. g[n] \in Stacks /\ g[n] \in Seq(Increment) /\ b \in Seq(Increment) /\ Alike(g[n], b, cid)
  BY <1>1, <1>2 DEF Through, Stacks
<1>4. x \in Stacks /\ x \in Seq(Increment) /\ b \o AddedTo(b, e) \in Seq(Increment)
  BY <1>3, AddedToStack
<1>5. Alike(x, b \o AddedTo(b, e), cid)
  BY <1>3, AlikeAfter
<1>6. Alike(x, x, cid)
  BY <1>4, AlikeItself
<1> HIDE DEF x
<1>7. /\ h \in [0..n + 1 -> Stacks] /\ h[n + 1] = x
      /\ \A i \in 0..n : h[i] = g[i]
  BY <1>1, <1>2, <1>4 DEF Through
<1> HIDE DEF h
<1>8. ASSUME NEW i \in 1..n + 1 PROVE Alike(h[i], h[i - 1] \o AddedTo(h[i - 1], more[i]), cid)
  <2>1. CASE i = n + 1
    <3>1. h[i] = x /\ h[i - 1] = g[n] /\ more[i] = e
      BY <1>2, <1>7, <2>1
    <3> QED
      BY <1>6, <3>1 DEF x
  <2>2. CASE i # n + 1
    <3>1. i \in 1..n /\ i - 1 \in 0..n /\ i \in 0..n
      BY <1>2, <2>2
    <3>2. h[i] = g[i] /\ h[i - 1] = g[i - 1] /\ more[i] = evs[i]
      BY <1>2, <1>7, <3>1
    <3> QED
      BY <1>1, <3>1, <3>2 DEF Through
  <2> QED
    BY <2>1, <2>2
<1>9. h[0] = g[0]
  BY <1>2, <1>7
<1>10. Through(h, a, more, b \o AddedTo(b, e), cid)
  BY <1>1, <1>2, <1>5, <1>7, <1>8, <1>9 DEF Through
<1> QED
  BY <1>10 DEF Becomes, more

\* ... and the first one handled.
LEMMA BecomesRest ==
  ASSUME NEW a \in Stacks, NEW b \in Seq(Increment), NEW evs \in Seq(Event), evs # <<>>,
         NEW cid \in ClientId, Becomes(a, evs, b, cid)
  PROVE  Becomes(a \o AddedTo(a, Head(evs)), Tail(evs), b, cid)
<1> DEFINE n == Len(evs)
           e == Head(evs)
           rest == Tail(evs)
<1>1. PICK g : Through(g, a, evs, b, cid)
  BY DEF Becomes
<1>2. /\ n \in Nat /\ n > 0 /\ e \in Event /\ e = evs[1]
      /\ rest \in Seq(Event) /\ Len(rest) = n - 1
      /\ \A i \in 1..n - 1 : rest[i] = evs[i + 1]
  OBVIOUS
<1> HIDE DEF e, rest
<1> DEFINE h == [i \in 0..n - 1 |-> g[i + 1]]
<1>3. ASSUME NEW i \in 0..n - 1 PROVE h[i] = g[i + 1] /\ i + 1 \in 0..n /\ g[i + 1] \in Stacks
  BY <1>1, <1>2 DEF Through
<1>4. h \in [0..n - 1 -> Stacks]
  BY <1>3
<1> HIDE DEF h
<1>5. h[0] = g[1] /\ h[n - 1] = g[n] /\ g[0] \in Stacks /\ g[1] \in Stacks
  <2>1. 0 \in 0..n - 1 /\ n - 1 \in 0..n - 1 /\ 0 \in 0..n /\ n - 1 + 1 = n /\ 0 + 1 = 1
    BY <1>2
  <2>2. g[0] \in Stacks
    BY <1>1, <2>1 DEF Through
  <2> QED
    BY <1>3, <2>1, <2>2
<1>6. Alike(g[0] \o AddedTo(g[0], e), a \o AddedTo(a, e), cid)
  BY <1>1, <1>2, <1>5, AlikeAfter DEF Through
<1>7. Alike(g[1], g[0] \o AddedTo(g[0], e), cid)
  <2>1. 1 \in 1..n /\ 1 - 1 = 0
    BY <1>2
  <2> QED
    BY <1>1, <1>2, <2>1 DEF Through
<1>8. Alike(h[0], a \o AddedTo(a, e), cid)
  <2>1. /\ g[0] \in Seq(Increment) /\ g[1] \in Seq(Increment) /\ a \in Seq(Increment)
    BY <1>5 DEF Stacks
  <2>2. g[0] \o AddedTo(g[0], e) \in Seq(Increment) /\ a \o AddedTo(a, e) \in Seq(Increment)
    BY <1>2, <2>1, AddedToStack
  <2> QED
    BY <1>5, <1>6, <1>7, <2>1, <2>2, AlikeBoth
<1>9. ASSUME NEW i \in 1..n - 1 PROVE Alike(h[i], h[i - 1] \o AddedTo(h[i - 1], rest[i]), cid)
  <2>1. i \in 0..n - 1 /\ i - 1 \in 0..n - 1 /\ i + 1 \in 1..n /\ i - 1 + 1 = i /\ i + 1 - 1 = i
    BY <1>2
  <2>2. h[i] = g[i + 1] /\ h[i - 1] = g[i] /\ rest[i] = evs[i + 1]
    <3>1. h[i] = g[i + 1]
      BY <1>3, <2>1
    <3>2. h[i - 1] = g[i - 1 + 1]
      BY <1>3, <2>1
    <3> QED
      BY <1>2, <2>1, <3>1, <3>2
  <2>3. Alike(g[i + 1], g[i + 1 - 1] \o AddedTo(g[i + 1 - 1], evs[i + 1]), cid)
    BY <1>1, <2>1 DEF Through
  <2> QED
    BY <2>1, <2>2, <2>3
<1>10. Through(h, a \o AddedTo(a, e), rest, b, cid)
  BY <1>1, <1>2, <1>4, <1>5, <1>8, <1>9 DEF Through
<1> QED
  BY <1>10 DEF Becomes, e, rest

----------------------------------------------------------------------------
(***************************************************************************)
(* What a message does to a stack.                                         *)
(***************************************************************************)
\* One more event is handled after the others.
LEMMA OneMoreHandled ==
  ASSUME NEW v \in Views, NEW own, NEW evs \in Seq(Event), NEW e \in Event
  PROVE  HandleAll(v, own, Append(evs, e)) = AfterEvent(HandleAll(v, own, evs), own, e)
<1> DEFINE n == Len(evs)
           more == Append(evs, e)
           d == HandleUpTo(v, own, evs)
           w == AfterEvent(d[n], own, e)
           S == [i \in 0..n + 1 |-> IF i = n + 1 THEN {w} ELSE {d[i]}]
<1>1. /\ n \in Nat /\ Len(more) = n + 1 /\ more[n + 1] = e
      /\ \A i \in 1..n : more[i] = evs[i]
  OBVIOUS
<1>2. Counts(d, v, own, evs, n)
  BY <1>1, UpToCounts
<1>3. HandleAll(v, own, evs) = d[n]
  BY DEF HandleAll
<1> HIDE DEF d, more, w
<1>4. S[n + 1] = {w} /\ \A i \in 0..n : S[i] = {d[i]}
  BY <1>1
<1> HIDE DEF S
<1>5. v \in S[0]
  <2>1. 0 \in 0..n
    BY <1>1
  <2>2. d[0] = v
    BY <1>2, <2>1 DEF Counts
  <2> QED
    BY <1>4, <2>1, <2>2
<1>6. ASSUME NEW i \in 1..n + 1, NEW u \in S[i - 1] PROVE AfterEvent(u, own, more[i]) \in S[i]
  <2>1. i - 1 \in 0..n /\ S[i - 1] = {d[i - 1]}
    BY <1>1, <1>4
  <2>2. u = d[i - 1]
    BY <2>1
  <2>3. CASE i = n + 1
    <3>1. i - 1 = n /\ more[i] = e /\ S[i] = {w}
      BY <1>1, <1>4, <2>3
    <3> QED
      BY <2>2, <3>1 DEF w
  <2>4. CASE i # n + 1
    <3>1. i \in 1..n /\ i \in 0..n /\ i # 0
      BY <1>1, <2>4
    <3>2. more[i] = evs[i] /\ S[i] = {d[i]}
      BY <1>1, <1>4, <3>1
    <3>3. d[i] = AfterEvent(d[i - 1], own, evs[i])
      BY <1>2, <3>1 DEF Counts
    <3> QED
      BY <2>2, <3>2, <3>3
  <2> QED
    BY <2>3, <2>4
<1>7. HandleAll(v, own, more) \in S[Len(more)]
  <2>1. Len(more) \in Nat /\ \A i \in 1..Len(more) : \A u \in S[i - 1] : AfterEvent(u, own, more[i]) \in S[i]
    BY <1>1, <1>6
  <2> QED
    BY <1>5, <2>1, HandledIn
<1> QED
  BY <1>1, <1>3, <1>4, <1>7 DEF w, more

LEMMA ThrowsAstray ==
  ASSUME NEW v \in Views, NEW e \in Event, ~v.failed, Throws(v, e)
  PROVE  Handle(v, e).astray
<1>1. Handle(v, e) = Marked(v, e)
  <2>1. Marked(v, e).failed
    BY MarkedFields
  <2> QED
    BY <2>1 DEF Handle, Marked, Unexpected, Throws
<1>2. Unexpected(v, e)
  BY DEF Throws, Unexpected, NoAction
<1> QED
  BY <1>1, <1>2, MarkedFields

\* A page that goes on as it should: no handler threw and its stack has a bottom.
Going(v) == ~v.failed /\ v.increments \in Stacks

LEMMA GoesOn ==
  ASSUME NEW v \in Views, NEW own, NEW e \in Event, v.astray \/ Going(v)
  PROVE  LET w == AfterEvent(v, own, e) IN
         /\ w \in Views
         /\ v.astray => w.astray
         /\ w.astray \/ Going(w)
         /\ ~w.astray => /\ e.id = own => w.increments = v.increments
                         /\ e.id # own => w.increments = v.increments \o AddedTo(v.increments, e)
<1> DEFINE w == AfterEvent(v, own, e)
           u == Handle(v, e)
<1>1. w \in Views /\ u \in Views
  BY AfterInViews
<1>2. CASE e.id = own
  BY <1>2 DEF AfterEvent, Views
<1>3. CASE e.id # own
  <2>1. w = u
    BY <1>3 DEF AfterEvent
  <2> HIDE DEF w, u
  <2>2. CASE v.astray
    <3>1. u.astray
      <4>1. CASE v.failed \/ Throws(v, e)
        BY <2>2, <4>1, EventFailed DEF u
      <4>2. CASE ~v.failed /\ ~Throws(v, e)
        BY <2>2, <4>2, EventHandled DEF u
      <4> QED
        BY <4>1, <4>2
    <3> QED
      BY <1>1, <2>1, <2>2, <3>1 DEF w
  <2>3. CASE ~v.astray /\ Throws(v, e)
    BY <1>1, <2>1, <2>3, ThrowsAstray DEF w, u, Going
  <2>4. CASE ~v.astray /\ ~Throws(v, e)
    <3>1. ~u.failed /\ u.increments = v.increments \o Added(v, e)
      BY <2>4, EventHandled DEF u, Going
    <3>2. u.increments = v.increments \o AddedTo(v.increments, e)
      BY <3>1, AddedIs
    <3>3. v.increments \in Stacks /\ v.increments \in Seq(Increment)
      BY <2>4, AddedIs DEF Going
    <3>4. u.increments \in Stacks
      BY <3>2, <3>3, AddedToStack
    <3> QED
      BY <1>1, <1>3, <2>1, <2>4, <3>1, <3>2, <3>4 DEF w, Going
  <2> QED
    BY <2>2, <2>3, <2>4
<1> QED
  BY <1>2, <1>3

\* Whose events are passed over, or are others', keeps its increments.
LEMMA OthersHandled ==
  ASSUME NEW v \in Views, v.astray \/ Going(v), NEW own, NEW evs \in Seq(Event),
         NEW cid \in ClientId, \A n \in DOMAIN evs : evs[n].id = own \/ evs[n].id # cid
  PROVE  LET w == HandleAll(v, own, evs) IN
           w \in Views /\ (w.astray \/ (Going(w) /\ Alike(w.increments, v.increments, cid)))
<1> DEFINE Good == {u \in Views : u.astray \/ (Going(u) /\ Alike(u.increments, v.increments, cid))}
           S == [n \in 0..Len(evs) |-> Good]
<1>1. Len(evs) \in Nat /\ DOMAIN evs = 1..Len(evs) /\ \A n \in 1..Len(evs) : evs[n] \in Event
  OBVIOUS
<1>2. v.increments \in Seq(Increment)
  BY DEF Views, PageView
<1>3. v \in Good
  BY <1>2, AlikeItself
<1>4. ASSUME NEW n \in 1..Len(evs), NEW u \in Good
      PROVE  AfterEvent(u, own, evs[n]) \in Good
  <2> DEFINE w == AfterEvent(u, own, evs[n])
  <2>1. /\ w \in Views /\ (w.astray \/ Going(w)) /\ (u.astray => w.astray)
        /\ ~w.astray => /\ evs[n].id = own => w.increments = u.increments
                        /\ evs[n].id # own => w.increments = u.increments \o AddedTo(u.increments, evs[n])
    BY <1>1, GoesOn
  <2> HIDE DEF w
  <2>2. ASSUME ~w.astray PROVE Alike(w.increments, v.increments, cid)
    <3>1. ~u.astray /\ Alike(u.increments, v.increments, cid) /\ u.increments \in Seq(Increment)
      BY <2>1, <2>2 DEF Views, PageView
    <3>2. CASE evs[n].id = own
      BY <2>1, <2>2, <3>1, <3>2
    <3>3. CASE evs[n].id # own
      <4>1. evs[n].id # cid
        BY <1>1, <3>3
      <4>2. Alike(w.increments, u.increments, cid)
        BY <1>1, <2>1, <2>2, <3>1, <3>3, <4>1, OthersAdd
      <4>3. w.increments \in Seq(Increment)
        BY <2>1 DEF Views, PageView
      <4> QED
        BY <1>2, <3>1, <4>2, <4>3, AlikeBoth
    <3> QED
      BY <3>2, <3>3
  <2> QED
    BY <2>1, <2>2 DEF w
<1> HIDE DEF Good
<1>5. \A n \in 0..Len(evs) : S[n] = Good
  OBVIOUS
<1> HIDE DEF S
<1>6. v \in S[0] /\ \A n \in 1..Len(evs) : \A u \in S[n - 1] : AfterEvent(u, own, evs[n]) \in S[n]
  <2>1. 0 \in 0..Len(evs) /\ \A n \in 1..Len(evs) : n \in 0..Len(evs) /\ n - 1 \in 0..Len(evs)
    BY <1>1
  <2> QED
    BY <1>3, <1>4, <1>5, <2>1
<1>7. HandleAll(v, own, evs) \in S[Len(evs)]
  BY <1>1, <1>6, HandledIn
<1>8. HandleAll(v, own, evs) \in Good
  BY <1>1, <1>5, <1>7
<1> QED
  BY <1>8 DEF Good

\* A message brings another client's increments where it brings the paper's.
LEMMA MessageHandled ==
  ASSUME NEW v \in Views, Going(v), NEW own, NEW evs \in Seq(Event), NEW cid \in ClientId, cid # own,
         NEW b \in Seq(Increment), Becomes(v.increments, evs, b, cid)
  PROVE  LET w == HandleAll(v, own, evs) IN
           w \in Views /\ (w.astray \/ (Going(w) /\ Alike(w.increments, b, cid)))
<1>1. PICK g : Through(g, v.increments, evs, b, cid)
  BY DEF Becomes
<1> DEFINE Good(s) == {u \in Views : u.astray \/ (Going(u) /\ Alike(u.increments, s, cid))}
           S == [n \in 0..Len(evs) |-> Good(g[n])]
<1>2. Len(evs) \in Nat /\ DOMAIN evs = 1..Len(evs) /\ \A n \in 1..Len(evs) : evs[n] \in Event
  OBVIOUS
<1>3. \A n \in 0..Len(evs) : g[n] \in Stacks /\ g[n] \in Seq(Increment)
  BY <1>1 DEF Through, Stacks
<1>4. v \in Good(g[0])
  <2>1. v.increments \in Seq(Increment) /\ 0 \in 0..Len(evs)
    BY <1>2 DEF Views, PageView
  <2>2. Alike(v.increments, g[0], cid)
    BY <1>1, <1>3, <2>1, AlikeBack DEF Through
  <2> QED
    BY <2>2
<1>5. ASSUME NEW n \in 1..Len(evs), NEW u \in Good(g[n - 1])
      PROVE  AfterEvent(u, own, evs[n]) \in Good(g[n])
  <2> DEFINE w == AfterEvent(u, own, evs[n])
  <2>1. /\ w \in Views /\ (w.astray \/ Going(w)) /\ (u.astray => w.astray)
        /\ ~w.astray => /\ evs[n].id = own => w.increments = u.increments
                        /\ evs[n].id # own => w.increments = u.increments \o AddedTo(u.increments, evs[n])
    BY <1>2, GoesOn
  <2> HIDE DEF w
  <2>2. ASSUME ~w.astray PROVE Alike(w.increments, g[n], cid)
    <3>1. ~u.astray /\ Going(u) /\ Alike(u.increments, g[n - 1], cid)
      BY <2>1, <2>2
    <3>2. n - 1 \in 0..Len(evs) /\ n \in 0..Len(evs)
      BY <1>2
    <3>3. u.increments \in Stacks /\ u.increments \in Seq(Increment)
          /\ g[n - 1] \in Stacks /\ g[n - 1] \in Seq(Increment) /\ g[n] \in Seq(Increment)
      BY <1>3, <3>1, <3>2 DEF Going, Stacks
    <3> DEFINE s == u.increments \o AddedTo(u.increments, evs[n])
               t == g[n - 1] \o AddedTo(g[n - 1], evs[n])
    <3>4. s \in Seq(Increment) /\ t \in Seq(Increment)
      BY <1>2, <3>3, AddedToStack
    <3>5. Alike(s, t, cid)
      BY <1>2, <3>1, <3>3, AlikeAfter
    <3>6. Alike(w.increments, s, cid) /\ w.increments \in Seq(Increment)
      <4>1. w.increments \in Seq(Increment)
        BY <2>1 DEF Views, PageView
      <4>2. CASE evs[n].id = own
        <5>1. w.increments = u.increments
          BY <2>1, <2>2, <4>2
        <5> QED
          BY <1>2, <3>3, <4>1, <4>2, <5>1, OthersAdd
      <4>3. CASE evs[n].id # own
        <5>1. w.increments = s
          BY <2>1, <2>2, <4>3
        <5> HIDE DEF s
        <5> QED
          BY <4>1, <5>1, AlikeItself
      <4> QED
        BY <4>2, <4>3
    <3>7. Alike(t, g[n], cid)
      BY <1>1, <3>3, <3>4, AlikeBack DEF Through
    <3> HIDE DEF s, t
    <3>8. Alike(w.increments, t, cid)
      BY <3>4, <3>5, <3>6, AlikeBoth
    <3> QED
      BY <3>3, <3>4, <3>6, <3>7, <3>8, AlikeBoth
  <2> QED
    BY <2>1, <2>2 DEF w
<1> HIDE DEF Good
<1>6. \A n \in 0..Len(evs) : S[n] = Good(g[n])
  OBVIOUS
<1> HIDE DEF S
<1>7. v \in S[0] /\ \A n \in 1..Len(evs) : \A u \in S[n - 1] : AfterEvent(u, own, evs[n]) \in S[n]
  <2>1. 0 \in 0..Len(evs) /\ \A n \in 1..Len(evs) : n \in 0..Len(evs) /\ n - 1 \in 0..Len(evs)
    BY <1>2
  <2> QED
    BY <1>4, <1>5, <1>6, <2>1
<1>8. HandleAll(v, own, evs) \in S[Len(evs)]
  BY <1>2, <1>7, HandledIn
<1>9. HandleAll(v, own, evs) \in Good(g[Len(evs)])
  BY <1>2, <1>6, <1>8
<1> DEFINE w == HandleAll(v, own, evs)
<1>10. w \in Views /\ (w.astray \/ (Going(w) /\ Alike(w.increments, g[Len(evs)], cid)))
  BY <1>9 DEF Good
<1> HIDE DEF w
<1>11. w.increments \in Seq(Increment) /\ g[Len(evs)] \in Seq(Increment) /\ Alike(g[Len(evs)], b, cid)
  BY <1>1, <1>2, <1>3, <1>10 DEF Through, Views, PageView
<1> QED
  BY <1>10, <1>11, AlikeBoth DEF w

\* What a page echoes is what its events will do to the paper.
LEMMA EchoHandled ==
  ASSUME NEW v \in Views, v.astray \/ Going(v), NEW evs \in Seq(Event), NEW cid \in ClientId,
         NEW a \in Seq(Increment), NEW first \in Seq(Event),
         v.astray \/ Becomes(a, first, v.increments, cid)
  PROVE  LET w == HandleAll(v, 0, evs) IN
           w \in Views /\ (w.astray \/ (Going(w) /\ Becomes(a, first \o evs, w.increments, cid)))
<1> DEFINE Upto(n) == first \o SubSeq(evs, 1, n)
           Good(s) == {u \in Views : u.astray \/ (Going(u) /\ Becomes(a, s, u.increments, cid))}
           S == [n \in 0..Len(evs) |-> Good(Upto(n))]
<1>1. Len(evs) \in Nat /\ DOMAIN evs = 1..Len(evs) /\ \A n \in 1..Len(evs) : evs[n] \in Event
  OBVIOUS
<1>2. Upto(0) = first /\ Upto(Len(evs)) = first \o evs
  OBVIOUS
<1>3. ASSUME NEW n \in 1..Len(evs)
      PROVE  Upto(n - 1) \in Seq(Event) /\ Upto(n) = Append(Upto(n - 1), evs[n])
  OBVIOUS
<1> HIDE DEF Upto
<1>4. v \in Good(Upto(0))
  BY <1>2
<1>5. ASSUME NEW n \in 1..Len(evs), NEW u \in Good(Upto(n - 1))
      PROVE  AfterEvent(u, 0, evs[n]) \in Good(Upto(n))
  <2> DEFINE w == AfterEvent(u, 0, evs[n])
  <2>0. evs[n].id # 0 /\ evs[n] \in Event
    BY <1>1 DEF Event, ClientId
  <2>1. /\ w \in Views /\ (w.astray \/ Going(w)) /\ (u.astray => w.astray)
        /\ ~w.astray => w.increments = u.increments \o AddedTo(u.increments, evs[n])
    BY <2>0, GoesOn
  <2> HIDE DEF w
  <2>2. ASSUME ~w.astray PROVE Becomes(a, Upto(n), w.increments, cid)
    <3>1. Going(u) /\ Becomes(a, Upto(n - 1), u.increments, cid)
      BY <2>1, <2>2
    <3>2. u.increments \in Stacks
      BY <3>1 DEF Going
    <3>3. Becomes(a, Append(Upto(n - 1), evs[n]), u.increments \o AddedTo(u.increments, evs[n]), cid)
      BY <1>3, <2>0, <3>1, <3>2, BecomesMore
    <3> QED
      BY <1>3, <2>1, <2>2, <3>3
  <2> QED
    BY <2>1, <2>2 DEF w
<1> HIDE DEF Good
<1>6. \A n \in 0..Len(evs) : S[n] = Good(Upto(n))
  OBVIOUS
<1> HIDE DEF S
<1>7. v \in S[0] /\ \A n \in 1..Len(evs) : \A u \in S[n - 1] : AfterEvent(u, 0, evs[n]) \in S[n]
  <2>1. 0 \in 0..Len(evs) /\ \A n \in 1..Len(evs) : n \in 0..Len(evs) /\ n - 1 \in 0..Len(evs)
    BY <1>1
  <2> QED
    BY <1>4, <1>5, <1>6, <2>1
<1>8. HandleAll(v, 0, evs) \in S[Len(evs)]
  BY <1>1, <1>7, HandledIn
<1>9. HandleAll(v, 0, evs) \in Good(first \o evs)
  <2>1. Len(evs) \in 0..Len(evs)
    BY <1>1
  <2>2. S[Len(evs)] = Good(Upto(Len(evs)))
    BY <1>6, <2>1
  <2>3. S[Len(evs)] = Good(first \o evs)
    BY <1>2, <2>2
  <2> QED
    BY <1>8, <2>3
<1> QED
  BY <1>9 DEF Good

LEMMA AstrayStays ==
  ASSUME NEW v \in Views, v.astray, NEW own, NEW evs \in Seq(Event)
  PROVE  HandleAll(v, own, evs).astray
<1> DEFINE Good == {u \in Views : u.astray}
           S == [n \in 0..Len(evs) |-> Good]
<1>1. Len(evs) \in Nat /\ \A n \in 1..Len(evs) : evs[n] \in Event
  OBVIOUS
<1>2. \A n \in 1..Len(evs) : \A u \in Good : AfterEvent(u, own, evs[n]) \in Good
  BY <1>1, GoesOn
<1> HIDE DEF Good
<1>3. \A n \in 0..Len(evs) : S[n] = Good
  OBVIOUS
<1> HIDE DEF S
<1>4. v \in S[0] /\ \A n \in 1..Len(evs) : \A u \in S[n - 1] : AfterEvent(u, own, evs[n]) \in S[n]
  <2>1. 0 \in 0..Len(evs) /\ \A n \in 1..Len(evs) : n \in 0..Len(evs) /\ n - 1 \in 0..Len(evs)
    BY <1>1
  <2> QED
    BY <1>2, <1>3, <2>1 DEF Good
<1>5. HandleAll(v, own, evs) \in S[Len(evs)]
  BY <1>1, <1>4, HandledIn
<1> QED
  BY <1>1, <1>3, <1>5 DEF Good

UserInput(p) ==
  DrawStart(p) \/ DrawUpdate(p) \/ DrawFinish(p) \/ DrawCancel(p) \/ Undo(p) \/ Redo(p) \/ MoveCursor(p)

Starting(p, e) ==
  /\ e.type = "Start" /\ e.el = inputs + 1 /\ inputs < MaxInputs
  /\ drag[p] = 0 /\ drag'[p] = inputs + 1 /\ inputs' = inputs + 1

Changing(p, e) ==
  /\ e.type \in {"Point", "Undo", "Redo"} /\ drag'[p] = drag[p]
  /\ e.type = "Point" => drag[p] # 0

Cancelling(p, e) == e.type = "Cancel" /\ drag[p] # 0 /\ drag'[p] = 0

Finishing(p, e, f) ==
  /\ Cancelling(p, e)
  /\ f.type = "Object" /\ f.el = MaxInputs + drag[p]

\* The events of an input.
InputOf(p, evs) ==
  \/ evs = <<>> /\ drag'[p] = drag[p]
  \/ \E e \in Event : evs = <<e>> /\ (Starting(p, e) \/ Changing(p, e) \/ Cancelling(p, e))
  \/ \E e, f \in Event : evs = <<e, f>> /\ Finishing(p, e, f)

LEMMA OneAdded ==
  ASSUME TypeInv, TypeInv', NEW p \in Pages, live[p], NEW e \in Event, e.id = id[p], e.type # "Object",
         SendEvents(p, <<e>>) \/ AddEvents(p, <<e>>),
         \A q \in Pages \ {p} : drag'[q] = drag[q],
         inputs' \in {inputs, inputs + 1},
         drag'[p] \in {0, drag[p]} \/ (drag'[p] = inputs + 1 /\ inputs' = inputs + 1),
         UNCHANGED <<live, id, serverVars, loads>>
  PROVE  Adds(p, <<e>>)
<1> DEFINE evs == <<e>>
<1>1. /\ evs \in Seq(Event) /\ Objects(evs) = {} /\ ObjectsOnce(evs)
      /\ \A i \in DOMAIN evs : evs[i].id = id[p]
  <2>1. evs \in Seq(Event) /\ Objects(evs) = {} /\ ObjectsOnce(evs)
    BY ObjectsOfOne
  <2>2. \A i \in DOMAIN evs : evs[i] = e
    OBVIOUS
  <2> QED
    BY <2>1, <2>2
<1>2. SendEvents(p, evs) \/ AddEvents(p, evs)
  OBVIOUS
<1> HIDE DEF evs
<1>3. drag' \in [Pages -> Nat]
  BY DEF TypeInv
<1>4. Adds(p, evs)
  BY <1>1, <1>2, <1>3 DEF Adds
<1> QED
  BY <1>4 DEF evs

LEMMA EachInput ==
  ASSUME TypeInv, TypeInv', NEW p \in Pages, UserInput(p)
  PROVE  \E evs : Adds(p, evs) /\ InputOf(p, evs)
<1>1. /\ drag \in [Pages -> Nat] /\ drag' \in [Pages -> Nat] /\ id[p] \in ClientId /\ inputs \in Nat
      /\ MaxInputs \in Nat
  BY BoundsAssumption DEF TypeInv
<1>2. ASSUME DrawStart(p) PROVE \E evs : Adds(p, evs) /\ InputOf(p, evs)
  <2> DEFINE e == Ev("Start", id[p], inputs + 1)
  <2>1. e \in Event /\ e.id = id[p] /\ e.type = "Start" /\ e.el = inputs + 1 /\ SendEvents(p, <<e>>)
    BY <1>1, <1>2 DEF Ev, Event, DrawStart
  <2> HIDE DEF e
  <2>2. /\ drag'[p] = inputs + 1 /\ (\A q \in Pages \ {p} : drag'[q] = drag[q]) /\ drag[p] = 0
        /\ inputs' = inputs + 1 /\ inputs < MaxInputs /\ live[p] /\ UNCHANGED <<live, id, serverVars, loads>>
    BY <1>1, <1>2 DEF DrawStart, Input
  <2>3. Adds(p, <<e>>)
    BY <2>1, <2>2, OneAdded
  <2>4. InputOf(p, <<e>>)
    BY <2>1, <2>2 DEF InputOf, Starting
  <2> QED
    BY <2>3, <2>4
<1>3. ASSUME DrawUpdate(p) \/ Undo(p) \/ Redo(p) PROVE \E evs : Adds(p, evs) /\ InputOf(p, evs)
  <2>1. PICK type \in {"Point", "Undo", "Redo"} :
          SendEvents(p, <<Ev(type, id[p], 0)>>) /\ (type = "Point" => drag[p] # 0)
    BY <1>3 DEF DrawUpdate, Undo, Redo
  <2> DEFINE e == Ev(type, id[p], 0)
  <2>2. e \in Event /\ e.id = id[p] /\ e.type = type
    BY <1>1 DEF Ev, Event
  <2> HIDE DEF e
  <2>3. /\ drag' = drag /\ inputs' = inputs + 1 /\ live[p] /\ UNCHANGED <<live, id, serverVars, loads>>
    BY <1>3 DEF DrawUpdate, Undo, Redo, Input
  <2>4. SendEvents(p, <<e>>)
    BY <2>1 DEF e
  <2>5. Adds(p, <<e>>)
    BY <2>2, <2>3, <2>4, OneAdded
  <2>6. InputOf(p, <<e>>)
    BY <2>1, <2>2, <2>3 DEF InputOf, Changing
  <2> QED
    BY <2>5, <2>6
<1>4. ASSUME DrawCancel(p) PROVE \E evs : Adds(p, evs) /\ InputOf(p, evs)
  <2> DEFINE e == Ev("Cancel", id[p], 0)
  <2>1. e \in Event /\ e.id = id[p] /\ e.type = "Cancel" /\ AddEvents(p, <<e>>)
    BY <1>1, <1>4 DEF Ev, Event, DrawCancel
  <2> HIDE DEF e
  <2>2. /\ drag'[p] = 0 /\ (\A q \in Pages \ {p} : drag'[q] = drag[q]) /\ drag[p] # 0
        /\ inputs' = inputs + 1 /\ live[p] /\ UNCHANGED <<live, id, serverVars, loads>>
    BY <1>1, <1>4 DEF DrawCancel, Input
  <2>3. Adds(p, <<e>>)
    BY <2>1, <2>2, OneAdded
  <2>4. InputOf(p, <<e>>)
    BY <2>1, <2>2 DEF InputOf, Cancelling
  <2> QED
    BY <2>3, <2>4
<1>5. ASSUME DrawFinish(p) PROVE \E evs : Adds(p, evs) /\ InputOf(p, evs)
  <2> DEFINE e == Ev("Cancel", id[p], 0)
             f == Ev("Object", id[p], MaxInputs + drag[p])
             evs == <<e, f>>
  <2>1. e \in Event /\ e.id = id[p] /\ e.type = "Cancel"
    BY <1>1 DEF Ev, Event
  <2>2. f \in Event /\ f.id = id[p] /\ f.type = "Object" /\ f.el = MaxInputs + drag[p]
    BY <1>1 DEF Ev, Event
  <2>3. SendEvents(p, evs)
    BY <1>5 DEF DrawFinish
  <2> HIDE DEF e, f
  <2>4. evs \in Seq(Event) /\ DOMAIN evs = {1, 2} /\ evs[1] = e /\ evs[2] = f
    BY <2>1, <2>2
  <2>5. /\ drag'[p] = 0 /\ (\A q \in Pages \ {p} : drag'[q] = drag[q]) /\ drag[p] # 0
        /\ inputs' = inputs /\ live[p] /\ UNCHANGED <<live, id, serverVars, loads>>
    BY <1>1, <1>5 DEF DrawFinish
  <2>6. InputOf(p, evs)
    BY <2>1, <2>2, <2>5 DEF InputOf, Finishing, Cancelling
  <2> HIDE DEF evs
  <2>7. Objects(evs) = {f.el} /\ ObjectsOnce(evs) /\ \A i \in DOMAIN evs : evs[i].id = id[p]
    <3>1. Objects(evs) = {f.el}
      BY <2>1, <2>2, <2>4, ObjectsAre
    <3>2. ObjectsOnce(evs)
      BY <2>1, <2>2, <2>4 DEF ObjectsOnce
    <3> QED
      BY <2>1, <2>2, <2>4, <3>1, <3>2
  <2>8. Adds(p, evs)
    BY <1>1, <2>2, <2>3, <2>4, <2>5, <2>7 DEF Adds
  <2> QED
    BY <2>6, <2>8
<1>6. ASSUME MoveCursor(p) PROVE \E evs : Adds(p, evs) /\ InputOf(p, evs)
  <2> DEFINE evs == <<>>
  <2>1. evs \in Seq(Event) /\ Objects(evs) = {} /\ ObjectsOnce(evs) /\ DOMAIN evs = {}
    BY NoObjects
  <2>2. SendEvents(p, evs) /\ live[p] /\ UNCHANGED <<live, id, drag, inputs, serverVars, loads>>
    BY <1>6 DEF MoveCursor
  <2>3. InputOf(p, evs)
    BY <2>2 DEF InputOf
  <2> HIDE DEF evs
  <2>4. Adds(p, evs)
    BY <1>1, <2>1, <2>2 DEF Adds
  <2> QED
    BY <2>3, <2>4
<1> QED
  BY <1>2, <1>3, <1>4, <1>5, <1>6 DEF UserInput

----------------------------------------------------------------------------
(***************************************************************************)
(* A page and the server agree on every client when what the page sent     *)
(* makes of the paper what the page has of its own, and what the next      *)
(* frame brings makes of the page what the paper has of the others.        *)
(***************************************************************************)
Agree(v, own, out, evs, paper) ==
  \/ v.astray
  \/ /\ v.increments \in Stacks
     /\ Becomes(paper, out, v.increments, own)
     /\ \A cid \in ClientId \ {own} : Becomes(v.increments, evs, paper, cid)

LEMMA AgreeOnMessage ==
  ASSUME NEW v \in Views, ~v.failed, NEW own \in ClientId, NEW out \in Seq(Event),
         NEW evs \in Seq(Event), NEW paper \in Stacks, Agree(v, own, out, evs, paper)
  PROVE  Agree(HandleAll(v, own, evs), own, out, <<>>, paper)
<1> DEFINE w == HandleAll(v, own, evs)
<1> SUFFICES ASSUME ~w.astray PROVE Agree(w, own, out, <<>>, paper)
  BY DEF Agree
<1>1. v.astray \/ Going(v)
  BY DEF Agree, Going
<1>2. w \in Views /\ Going(w) /\ Alike(w.increments, v.increments, own) /\ ~v.astray
  <2>1. \A n \in DOMAIN evs : evs[n].id = own \/ evs[n].id # own
    OBVIOUS
  <2>2. w \in Views /\ Going(w) /\ Alike(w.increments, v.increments, own)
    BY <1>1, <2>1, OthersHandled
  <2>3. ~v.astray
    BY <1>1, AstrayStays
  <2> QED
    BY <2>2, <2>3
<1>3. ASSUME NEW cid \in ClientId \ {own} PROVE Alike(w.increments, paper, cid)
  <2>1. Going(v) /\ Becomes(v.increments, evs, paper, cid) /\ paper \in Seq(Increment)
    BY <1>1, <1>2 DEF Agree, Stacks
  <2> QED
    BY <2>1, MessageHandled
<1> HIDE DEF w
<1>4. /\ w.increments \in Stacks /\ w.increments \in Seq(Increment) /\ v.increments \in Seq(Increment)
      /\ paper \in Seq(Increment) /\ <<>> \in Seq(Event) /\ DOMAIN <<>> = {}
  BY <1>2, EmptySeq DEF Going, Stacks, Views, PageView
<1>5. Becomes(paper, out, w.increments, own)
  <2>1. Alike(v.increments, w.increments, own) /\ Alike(paper, paper, own)
    BY <1>2, <1>4, AlikeBack, AlikeItself
  <2>2. Becomes(paper, out, v.increments, own)
    BY <1>2 DEF Agree
  <2> QED
    BY <1>4, <2>1, <2>2, BecomesLike
<1>6. ASSUME NEW cid \in ClientId \ {own} PROVE Becomes(w.increments, <<>>, paper, cid)
  <2>1. Becomes(w.increments, <<>>, w.increments, cid)
    BY <1>4, BecomesItself
  <2>2. Alike(w.increments, w.increments, cid) /\ Alike(w.increments, paper, cid)
    BY <1>3, <1>4, AlikeItself
  <2> QED
    BY <1>4, <2>1, <2>2, BecomesLike
<1> QED
  BY <1>4, <1>5, <1>6 DEF Agree

LEMMA AgreeOnInput ==
  ASSUME NEW v \in Views, ~v.failed, NEW own \in ClientId, NEW out \in Seq(Event),
         NEW evs \in Seq(Event), NEW paper \in Stacks, Agree(v, own, out, evs, paper),
         NEW more \in Seq(Event), \A n \in DOMAIN more : more[n].id = own
  PROVE  Agree(HandleAll(v, 0, more), own, out \o more, evs, paper)
<1> DEFINE w == HandleAll(v, 0, more)
<1> SUFFICES ASSUME ~w.astray PROVE Agree(w, own, out \o more, evs, paper)
  BY DEF Agree
<1>1. v.astray \/ Going(v)
  BY DEF Agree, Going
<1>2. ~v.astray /\ Going(v)
  BY <1>1, AstrayStays
<1>3. paper \in Seq(Increment) /\ v.increments \in Seq(Increment)
  BY DEF Stacks, Views, PageView
<1>4. w \in Views /\ Going(w) /\ Becomes(paper, out \o more, w.increments, own)
  <2>1. Becomes(paper, out, v.increments, own)
    BY <1>2 DEF Agree
  <2> QED
    BY <1>2, <1>3, <2>1, EchoHandled
<1>5. ASSUME NEW cid \in ClientId \ {own} PROVE Becomes(w.increments, evs, paper, cid)
  <2>1. \A n \in DOMAIN more : more[n].id = 0 \/ more[n].id # cid
    OBVIOUS
  <2>2. Alike(w.increments, v.increments, cid)
    BY <1>2, <2>1, OthersHandled
  <2>3. Becomes(v.increments, evs, paper, cid)
    BY <1>2 DEF Agree
  <2> HIDE DEF w
  <2>4. w.increments \in Seq(Increment)
    BY <1>4 DEF Views, PageView
  <2>5. Alike(v.increments, w.increments, cid) /\ Alike(paper, paper, cid)
    BY <1>3, <2>2, <2>4, AlikeBack, AlikeItself
  <2> QED
    BY <1>3, <2>3, <2>4, <2>5, BecomesLike
<1> QED
  BY <1>4, <1>5 DEF Agree, Going

LEMMA AgreeOnOwn ==
  ASSUME NEW v \in Views, NEW own \in ClientId, NEW out \in Seq(Event), out # <<>>,
         NEW evs \in Seq(Event), NEW paper \in Stacks, Agree(v, own, out, evs, paper)
  PROVE  Agree(v, own, Tail(out), Append(evs, Head(out)), paper \o AddedTo(paper, Head(out)))
<1> SUFFICES ASSUME ~v.astray
             PROVE  Agree(v, own, Tail(out), Append(evs, Head(out)), paper \o AddedTo(paper, Head(out)))
  BY DEF Agree
<1> DEFINE e == Head(out)
           next == paper \o AddedTo(paper, e)
<1>1. e \in Event /\ v.increments \in Seq(Increment) /\ v.increments \in Stacks
  BY DEF Agree, Views, PageView
<1>2. Becomes(next, Tail(out), v.increments, own)
  BY <1>1, BecomesRest DEF Agree
<1>3. \A cid \in ClientId \ {own} : Becomes(v.increments, Append(evs, e), next, cid)
  BY <1>1, BecomesMore DEF Agree
<1> QED
  BY <1>1, <1>2, <1>3 DEF Agree

LEMMA AgreeOnOthers ==
  ASSUME NEW v \in Views, NEW own \in ClientId, NEW out \in Seq(Event),
         NEW evs \in Seq(Event), NEW paper \in Stacks, Agree(v, own, out, evs, paper),
         NEW e \in Event, e.id # own \/ ~IsStored(e)
  PROVE  Agree(v, own, out, Append(evs, e), paper \o AddedTo(paper, e))
<1> SUFFICES ASSUME ~v.astray
             PROVE  Agree(v, own, out, Append(evs, e), paper \o AddedTo(paper, e))
  BY DEF Agree
<1> DEFINE next == paper \o AddedTo(paper, e)
<1>1. /\ v.increments \in Seq(Increment) /\ v.increments \in Stacks /\ paper \in Seq(Increment)
      /\ next \in Seq(Increment)
  BY AddedToStack DEF Agree, Views, PageView, Stacks
<1>2. Becomes(next, out, v.increments, own)
  <2>1. Alike(paper, next, own) /\ Alike(v.increments, v.increments, own)
    BY <1>1, OthersAdd, AlikeItself
  <2>2. Becomes(paper, out, v.increments, own)
    BY DEF Agree
  <2> HIDE DEF next
  <2> QED
    BY <1>1, <2>1, <2>2, BecomesLike
<1>3. \A cid \in ClientId \ {own} : Becomes(v.increments, Append(evs, e), next, cid)
  BY <1>1, BecomesMore DEF Agree
<1> QED
  BY <1>1, <1>2, <1>3 DEF Agree

LEMMA AgreeAtFirst ==
  ASSUME NEW v \in Views, NEW own \in ClientId, NEW evs \in Seq(Event), NEW paper \in Stacks,
         \/ v.astray
         \/ v.increments = paper /\ \A n \in DOMAIN evs : ~IsStored(evs[n])
  PROVE  Agree(v, own, <<>>, evs, paper)
<1>1. <<>> \in Seq(Event) /\ DOMAIN <<>> = {}
  BY EmptySeq
<1>2. CASE v.astray
  BY <1>2 DEF Agree
<1>3. CASE v.increments = paper /\ \A n \in DOMAIN evs : ~IsStored(evs[n])
  <2>1. \A cid : Becomes(paper, evs, paper, cid) /\ Becomes(paper, <<>>, paper, cid)
    BY <1>1, <1>3, BecomesItself
  <2> QED
    BY <1>3, <2>1 DEF Agree
<1> QED
  BY <1>2, <1>3

\* In the end each client has the same on the page as on the paper.
LEMMA AgreeInEnd ==
  ASSUME NEW v \in Views, ~v.astray, NEW own \in ClientId, NEW paper \in Stacks,
         Agree(v, own, <<>>, <<>>, paper), NEW cid \in ClientId
  PROVE  Alike(v.increments, paper, cid)
<1>1. v.increments \in Seq(Increment) /\ paper \in Seq(Increment)
  BY DEF Views, PageView, Stacks
<1>2. CASE cid = own
  <2>1. Alike(paper, v.increments, cid)
    BY <1>1, <1>2, BecomesDone DEF Agree
  <2> QED
    BY <1>1, <2>1, AlikeBack
<1>3. CASE cid # own
  BY <1>1, <1>3, BecomesDone DEF Agree
<1> QED
  BY <1>2, <1>3

----------------------------------------------------------------------------
(***************************************************************************)
(* All steps of an element are one client's, so stacks that are alike for  *)
(* every client show the same.                                             *)
(***************************************************************************)
LEMMA SameClient ==
  ASSUME NEW s \in Seq(Increment), Followed(s), NEW i \in DOMAIN s, NEW j \in i + 1..Len(s),
         s[j].el = s[i].el
  PROVE  s[j].id = s[i].id
<1> DEFINE T == {k \in i + 1..Len(s) : s[k].el = s[i].el /\ s[k].id # s[i].id}
<1>1. i \in Nat /\ i >= 1 /\ Len(s) \in Nat /\ DOMAIN s = 1..Len(s)
  OBVIOUS
<1> SUFFICES ASSUME T # {} PROVE FALSE
  OBVIOUS
<1>2. PICK k \in T : \A l \in T : k <= l
  <2>1. T \in SUBSET Nat
    BY <1>1
  <2> HIDE DEF T
  <2> QED
    BY <2>1, LeastNumber
<1>3. k \in i + 1..Len(s) /\ s[k].el = s[i].el /\ s[k].id # s[i].id
  OBVIOUS
<1> DEFINE L == {l \in 1..k - 1 : l >= i /\ s[l].el = s[i].el}
<1>4. i \in L
  BY <1>1, <1>3
<1>5. Max(L) \in L /\ \A l \in L : l <= Max(L)
  <2>1. k - 1 \in Nat /\ L \in SUBSET (1..k - 1) /\ L # {}
    BY <1>1, <1>3, <1>4
  <2> HIDE DEF L
  <2> QED
    BY <2>1, LastPlace
<1> DEFINE m == Max(L)
<1> HIDE DEF m
<1>6. m \in 1..k - 1 /\ m >= i /\ s[m].el = s[i].el
  BY <1>5 DEF m
<1>7. \A l \in m + 1..k - 1 : s[l].el # s[m].el
  <2>1. ASSUME NEW l \in m + 1..k - 1, s[l].el = s[m].el PROVE FALSE
    <3>1. l \in L
      BY <1>1, <1>3, <1>6, <2>1
    <3>2. l <= m
      BY <1>5, <3>1 DEF m
    <3> QED
      BY <1>1, <1>6, <3>2
  <2> QED
    BY <2>1
<1>8. Takes(s, m, k)
  <2>1. k \in DOMAIN s /\ m \in 1..k - 1 /\ s[m].el = s[k].el
    BY <1>1, <1>3, <1>6
  <2> QED
    BY <1>7, <2>1, Zenon DEF Followed
<1>9. s[m].id # s[i].id
  BY <1>3, <1>8 DEF Takes
<1>10. m \in T /\ m < k
  BY <1>1, <1>3, <1>6, <1>9
<1> QED
  BY <1>1, <1>2, <1>3, <1>6, <1>10

LEMMA ShownInOther ==
  ASSUME NEW a \in Seq(Increment), NEW b \in Seq(Increment), InTurn(b),
         \A cid \in ClientId : Alike(a, b, cid)
  PROVE  Shown(a) \subseteq Shown(b)
<1> SUFFICES ASSUME NEW d, ShowsAt(a, d) PROVE ShowsAt(b, d)
  BY ShownLast
<1>1. PICK i \in DOMAIN a : /\ a[i].el = d /\ a[i].kind # "Undo"
                            /\ \A j \in i + 1..Len(a) : a[j].el # d
  BY DEF ShowsAt
<1> DEFINE cid == a[i].id
<1>2. cid \in ClientId /\ i \in Mine(a, cid)
  <2>1. a[i] \in Increment
    BY ElementOfSeq
  <2> QED
    BY <2>1 DEF Increment, Mine
<1> HIDE DEF cid
<1>3. PICK f : Matches(f, a, b, cid)
  BY <1>2 DEF Alike
<1> DEFINE k == f[i]
<1>4. k \in Mine(b, cid) /\ b[k].el = d /\ b[k].kind # "Undo"
  BY <1>1, <1>2, <1>3 DEF Matches
<1>5. k \in DOMAIN b /\ b[k].id = cid /\ DOMAIN b = 1..Len(b) /\ Len(b) \in Nat
  BY <1>4 DEF Mine
<1>6. ASSUME NEW l \in k + 1..Len(b), b[l].el = d PROVE FALSE
  <2>1. b[l].id = cid
    BY <1>4, <1>5, <1>6, SameClient DEF InTurn
  <2>2. l \in Mine(b, cid)
    BY <1>5, <1>6, <2>1 DEF Mine
  <2>3. PICK j \in Mine(a, cid) : f[j] = l
    BY <1>3, <2>2 DEF Matches
  <2>4. f[i] < f[j]
    BY <1>5, <1>6, <2>3
  <2>5. i < j
    BY <1>2, <1>3, <2>3, <2>4, MatchedOrder
  <2>6. a[j].el = d
    BY <1>3, <1>6, <2>3 DEF Matches
  <2>7. j \in i + 1..Len(a)
    BY <1>2, <2>3, <2>5, MineArePlaces
  <2> QED
    BY <1>1, <2>6, <2>7
<1> HIDE DEF k
<1> QED
  BY <1>4, <1>5, <1>6 DEF ShowsAt

LEMMA ShownAlike ==
  ASSUME NEW a \in Seq(Increment), NEW b \in Seq(Increment), InTurn(a), InTurn(b),
         \A cid \in ClientId : Alike(a, b, cid)
  PROVE  Shown(a) = Shown(b)
<1>1. \A cid \in ClientId : Alike(b, a, cid)
  BY AlikeBack
<1> QED
  BY <1>1, ShownInOther

----------------------------------------------------------------------------
(***************************************************************************)
(* The paper that a loading page gets: one more stored event is handled    *)
(* after the others.                                                       *)
(***************************************************************************)
LEMMA StoredGoesOn ==
  ASSUME NEW v \in Views, ~v.failed, NEW e \in Event, IsStored(e)
  PROVE  /\ Handle(v, e) \in Views /\ ~Handle(v, e).failed
         /\ Handle(v, e).increments = v.increments \o AddedTo(v.increments, e)
<1>1. ~Throws(v, e)
  BY DEF Throws, IsStored
<1>2. Handle(v, e) \in Views /\ ~Handle(v, e).failed /\ Handle(v, e).increments = v.increments \o Added(v, e)
  BY <1>1, EventHandled
<1>3. Added(v, e) = AddedTo(v.increments, e)
  BY AddedIs
<1> QED
  BY <1>2, <1>3

LEMMA ReplayedMore ==
  ASSUME TypeInv, DragInv, NEW e \in Event, saved' = IF IsStored(e) THEN Append(saved, e) ELSE saved
  PROVE  Replay'.increments = Replay.increments \o AddedTo(Replay.increments, e)
<1>1. Replay \in Views /\ ~Replay.failed /\ Replay.increments \in Seq(Increment)
  BY Replayed DEF Views, PageView
<1>2. Replay' = HandleAll(EmptyView, 0, saved')
  BY DEF Replay
<1>3. CASE IsStored(e)
  <2>1. HandleAll(EmptyView, 0, Append(saved, e)) = AfterEvent(HandleAll(EmptyView, 0, saved), 0, e)
    BY EmptyInViews, OneMoreHandled DEF TypeInv, AllEvents
  <2>2. Replay' = AfterEvent(Replay, 0, e)
    BY <1>2, <1>3, <2>1 DEF Replay
  <2>3. Replay' = Handle(Replay, e)
    BY <1>1, <2>2, AfterInViews
  <2> QED
    BY <1>1, <1>3, <2>3, StoredGoesOn
<1>4. CASE ~IsStored(e)
  <2>1. Replay' = Replay
    BY <1>2, <1>4 DEF Replay
  <2>2. AddedTo(Replay.increments, e) = <<>>
    BY <1>1, <1>4, AddedToStack
  <2> QED
    BY <1>1, <2>1, <2>2, ConcatEmptySeq
<1> QED
  BY <1>3, <1>4

LEMMA InitReplayed ==
  ASSUME Init, OldObjects >= 1
  PROVE  Replay.increments \in Stacks
<1> DEFINE S == [n \in 0..OldObjects |->
                   IF n = 0 THEN {EmptyView}
                   ELSE {u \in Views : ~u.failed /\ u.increments \in Stacks}]
<1>1. /\ OldObjects \in Nat /\ TypeInv
      /\ Len(saved) = OldObjects /\ \A n \in 1..OldObjects : saved[n] = OldObject(n)
  BY OldObjectsAssumption, InitTyped DEF Init
<1>2. ASSUME NEW n \in 1..OldObjects
      PROVE  /\ OldObject(n) \in Event /\ IsStored(OldObject(n))
             /\ OldObject(n).id = 1 /\ OldObject(n).type = "Object" /\ OldObject(n).el = n
  BY <1>1, OneIsId DEF OldObject, Ev, Event, IsStored
<1>3. S[0] = {EmptyView} /\ \A n \in 1..OldObjects : S[n] = {u \in Views : ~u.failed /\ u.increments \in Stacks}
  BY <1>1
<1> HIDE DEF S
<1>4. ASSUME NEW n \in 1..OldObjects, NEW u \in S[n - 1]
      PROVE  AfterEvent(u, 0, saved[n]) \in S[n]
  <2> DEFINE e == OldObject(n)
             w == Handle(u, e)
  <2>1. u \in Views /\ ~u.failed /\ (IF n = 1 THEN u = EmptyView ELSE u.increments \in Stacks)
    <3>1. CASE n = 1
      BY <1>3, <3>1, EmptyInViews
    <3>2. CASE n # 1
      <4>1. n - 1 \in 1..OldObjects
        BY <1>1, <3>2
      <4> QED
        BY <1>3, <3>2, <4>1
    <3> QED
      BY <3>1, <3>2
  <2>2. e \in Event /\ IsStored(e) /\ e.id = 1 /\ e.type = "Object" /\ e.el = n /\ saved[n] = e
    BY <1>1, <1>2
  <2> HIDE DEF e
  <2>3. w \in Views /\ ~w.failed /\ w.increments = u.increments \o AddedTo(u.increments, e)
    BY <2>1, <2>2, StoredGoesOn
  <2>4. AfterEvent(u, 0, saved[n]) = w
    BY <2>1, <2>2, AfterInViews
  <2> HIDE DEF w
  <2>5. w.increments \in Stacks
    <3>1. CASE n = 1
      <4> DEFINE x == [kind |-> "Object", id |-> 1, el |-> 1]
      <4>1. AddedTo(u.increments, e) = <<x>>
        BY <2>2, <3>1 DEF AddedTo, Added
      <4>2. u.increments = <<>>
        BY <2>1, <3>1, EmptyInViews
      <4>3. x \in Increment /\ x = Bottom
        BY OneIsId DEF Increment, Bottom
      <4> HIDE DEF x
      <4>4. w.increments = <<x>>
        BY <2>3, <4>1, <4>2
      <4>5. <<x>> \in Seq(Increment) /\ <<x>> # <<>> /\ <<x>>[1] = x
        BY <4>3
      <4> QED
        BY <4>3, <4>4, <4>5 DEF Stacks
    <3>2. CASE n # 1
      <4>1. u.increments \in Stacks /\ u.increments \in Seq(Increment)
        BY <2>1, <3>2 DEF Stacks
      <4> QED
        BY <2>2, <2>3, <4>1, AddedToStack
    <3> QED
      BY <3>1, <3>2
  <2> QED
    BY <1>3, <2>3, <2>4, <2>5
<1>5. HandleAll(EmptyView, 0, saved) \in S[Len(saved)]
  <2>1. EmptyView \in S[0]
    BY <1>3
  <2>2. Len(saved) \in Nat /\ \A n \in 1..Len(saved) : \A u \in S[n - 1] : AfterEvent(u, 0, saved[n]) \in S[n]
    BY <1>1, <1>4
  <2> QED
    BY <2>1, <2>2, HandledIn
<1> QED
  BY <1>1, <1>3, <1>5 DEF Replay

----------------------------------------------------------------------------
Out == [p \in Pages |-> outbox[p] \o building[p]]

AgreeInv ==
  /\ \A p, q \in Pages : live[p] /\ live[q] /\ p # q => id[p] # id[q]
  /\ Replay.increments \in Stacks
  /\ \A p \in Pages :
       live[p] => Agree(view[p], id[p], Out[p], broadcast, Replay.increments)

LEMMA OutIs ==
  ASSUME TypeInv, QueueInv, NEW p \in Pages
  PROVE  /\ Out[p] = outbox[p] \o building[p] /\ Out[p] \in Seq(Event)
         /\ view[p] \in Views /\ id[p] \in ClientId /\ broadcast \in Seq(Event)
         /\ \A i \in DOMAIN Out[p] : Out[p][i].id = id[p]
         /\ ~live[p] => outbox[p] = <<>> /\ building[p] = <<>>
<1> DEFINE o == outbox[p]
           b == building[p]
           m == o \o b
<1>1. /\ o \in Seq(Event) /\ b \in Seq(Event) /\ view[p] \in Views /\ id[p] \in ClientId
      /\ broadcast \in Seq(Event)
  BY DEF TypeInv, AllEvents
<1>2. /\ \A i \in DOMAIN o : o[i].id = id[p]
      /\ \A i \in DOMAIN b : b[i].id = id[p]
      /\ ~live[p] => o = <<>> /\ b = <<>>
  BY DEF QueueInv, Outgoing, OutgoingOf
<1> HIDE DEF o, b
<1>3. m \in Seq(Event) /\ \A i \in DOMAIN m : m[i].id = id[p]
  BY <1>1, <1>2
<1>4. Out[p] = m
  BY DEF Out, o, b
<1> QED
  BY <1>1, <1>2, <1>3, <1>4 DEF o, b

LEMMA AgreeInit ==
  ASSUME Init, OldObjects >= 1
  PROVE  AgreeInv
BY InitReplayed DEF Init, AgreeInv

\* What an input adds to the messages of a page.
LEMMA OutAdded ==
  ASSUME TypeInv, QueueInv, NEW p \in Pages, NEW evs, Adds(p, evs)
  PROVE  /\ Out'[p] = Out[p] \o evs
         /\ \A q \in Pages \ {p} : Out'[q] = Out[q]
<1> DEFINE o == outbox[p]
           b == building[p]
<1>1. /\ o \in Seq(Event) /\ b \in Seq(Event) /\ evs \in Seq(Event)
      /\ outbox \in [Pages -> AllEvents] /\ building \in [Pages -> AllEvents]
  BY DEF TypeInv, AllEvents, Adds
<1>2. Out' = [q \in Pages |-> outbox'[q] \o building'[q]] /\ Out = [q \in Pages |-> outbox[q] \o building[q]]
  BY DEF Out
<1>3. CASE SendEvents(p, evs)
  <2>1. /\ outbox' = [outbox EXCEPT ![p] = o \o b \o evs]
        /\ building' = [building EXCEPT ![p] = <<>>]
    BY <1>1, <1>3 DEF SendEvents
  <2> HIDE DEF o, b
  <2>2. o \o b \o evs \o <<>> = (o \o b) \o evs
    BY <1>1
  <2>3. Out'[p] = o \o b \o evs \o <<>>
    BY <1>1, <1>2, <2>1
  <2>4. Out'[p] = Out[p] \o evs
    BY <1>2, <2>2, <2>3 DEF o, b
  <2> QED
    BY <1>1, <1>2, <2>1, <2>4
<1>4. CASE AddEvents(p, evs)
  <2>1. outbox' = outbox /\ building' = [building EXCEPT ![p] = b \o evs]
    BY <1>1, <1>4 DEF AddEvents
  <2>2. Out'[p] = o \o (b \o evs)
    <3> HIDE DEF b
    <3> QED
      BY <1>1, <1>2, <2>1
  <2>3. o \o (b \o evs) = (o \o b) \o evs
    <3> HIDE DEF o, b
    <3> QED
      BY <1>1
  <2>4. Out'[p] = Out[p] \o evs
    BY <1>2, <2>2, <2>3
  <2> HIDE DEF b
  <2> QED
    BY <1>1, <1>2, <2>1, <2>4
<1> QED
  BY <1>3, <1>4 DEF Adds

LEMMA AgreeInput ==
  ASSUME TypeInv, TypeInv', DragInv, QueueInv, AgreeInv, NEW p \in Pages, NEW evs, Adds(p, evs)
  PROVE  AgreeInv'
<1>1. /\ evs \in Seq(Event) /\ (\A i \in DOMAIN evs : evs[i].id = id[p]) /\ live[p]
      /\ live' = live /\ id' = id /\ broadcast' = broadcast /\ saved' = saved
  BY DEF Adds, serverVars
<1>2. Replay' = Replay
  BY <1>1 DEF Replay
<1>3. Out'[p] = Out[p] \o evs /\ \A q \in Pages \ {p} : Out'[q] = Out[q]
  BY OutAdded
<1>4. PICK w : Echo(p, evs, w)
  BY <1>1, EchoStep DEF Adds, AllEvents
<1>5. view'[p] = w /\ \A q \in Pages \ {p} : view'[q] = view[q]
  BY <1>4 DEF Echo, TypeInv
<1>6. Agree(HandleAll(view[p], 0, evs), id[p], Out[p] \o evs, broadcast, Replay.increments)
  BY <1>1, OutIs, AgreeOnInput DEF DragInv, AgreeInv
<1>7. Agree(view'[p], id[p], Out[p] \o evs, broadcast, Replay.increments)
  BY <1>4, <1>5, <1>6 DEF Echo, Echoed, Agree
<1>8. ASSUME NEW q \in Pages, live'[q]
      PROVE  Agree(view'[q], id'[q], Out'[q], broadcast', Replay'.increments)
  <2>1. CASE q = p
    BY <1>1, <1>2, <1>3, <1>7, <2>1
  <2>2. CASE q # p
    BY <1>1, <1>2, <1>3, <1>5, <1>8, <2>2 DEF AgreeInv
  <2> QED
    BY <2>1, <2>2
<1> QED
  BY <1>1, <1>2, <1>8 DEF AgreeInv

LEMMA AgreeLoad ==
  ASSUME TypeInv, DragInv, QueueInv, AgreeInv, NEW p \in Pages, Load(p)
  PROVE  AgreeInv'
<1> DEFINE b == \E i \in DOMAIN broadcast : IsStored(broadcast[i])
           w == [Replay EXCEPT !.drawRequested = TRUE, !.astray = b]
<1>1. /\ ~live[p] /\ view' = [view EXCEPT ![p] = w]
      /\ live' = [live EXCEPT ![p] = TRUE] /\ id' = [id EXCEPT ![p] = FirstFreeId]
      /\ building' = building /\ outbox' = outbox
      /\ broadcast' = broadcast /\ saved' = saved
  BY DEF Load, userVars, serverVars
<1>2. Replay' = Replay /\ Out' = Out
  BY <1>1 DEF Replay, Out
<1>3. w \in Views /\ w.increments = Replay.increments /\ w.astray = b
  BY Replayed DEF Views, PageView
<1> HIDE DEF w
<1>4. view'[p] = w /\ live'[p] /\ id'[p] = FirstFreeId
      /\ \A q \in Pages \ {p} : view'[q] = view[q] /\ live'[q] = live[q] /\ id'[q] = id[q]
  BY <1>1 DEF TypeInv
<1>5. FirstFreeId \in ClientId /\ \A q \in Pages : live[q] => id[q] # FirstFreeId
  <2>1. FirstFreeId \in ClientId \ UsedIds
    BY <1>1, IdIsFree DEF TypeInv
  <2> QED
    BY <2>1 DEF UsedIds
<1>6. Out[p] = <<>>
  <2>1. outbox[p] = <<>> /\ building[p] = <<>> /\ Out[p] = outbox[p] \o building[p]
    BY <1>1, OutIs
  <2> QED
    BY <2>1
<1>7. Agree(w, FirstFreeId, <<>>, broadcast, Replay.increments)
  BY <1>3, <1>5, OutIs, AgreeAtFirst DEF AgreeInv
<1>8. ASSUME NEW q \in Pages, live'[q]
      PROVE  Agree(view'[q], id'[q], Out'[q], broadcast', Replay'.increments)
  <2>1. CASE q = p
    BY <1>1, <1>2, <1>4, <1>6, <1>7, <2>1
  <2>2. CASE q # p
    BY <1>1, <1>2, <1>4, <1>8, <2>2 DEF AgreeInv
  <2> QED
    BY <2>1, <2>2
<1>9. ASSUME NEW q \in Pages, NEW r \in Pages, live'[q], live'[r], q # r PROVE id'[q] # id'[r]
  BY <1>4, <1>5, <1>9 DEF AgreeInv
<1> QED
  BY <1>2, <1>8, <1>9 DEF AgreeInv

LEMMA AgreeClose ==
  ASSUME TypeInv, AgreeInv, NEW p \in Pages, Close(p)
  PROVE  AgreeInv'
<1>1. /\ live' = [live EXCEPT ![p] = FALSE] /\ view' = [view EXCEPT ![p] = EmptyView]
      /\ building' = [building EXCEPT ![p] = <<>>] /\ outbox' = [outbox EXCEPT ![p] = <<>>]
      /\ id' = id /\ broadcast' = broadcast /\ saved' = saved
  BY DEF Close
<1>2. Replay' = Replay
  BY <1>1 DEF Replay
<1>3. \A q \in Pages : live'[q] => q # p /\ live[q]
  BY <1>1 DEF TypeInv
<1>4. \A q \in Pages \ {p} : view'[q] = view[q] /\ Out'[q] = Out[q]
  BY <1>1 DEF TypeInv, Out
<1>5. ASSUME NEW q \in Pages, live'[q]
      PROVE  Agree(view'[q], id'[q], Out'[q], broadcast', Replay'.increments)
  BY <1>1, <1>2, <1>3, <1>4, <1>5 DEF AgreeInv
<1> QED
  BY <1>1, <1>2, <1>3, <1>5 DEF AgreeInv

LEMMA AgreeCleanup ==
  ASSUME TypeInv, QueueInv, AgreeInv, NEW p \in Pages, Cleanup(p)
  PROVE  AgreeInv'
<1> DEFINE e == Ev("Cleanup", leaving[p], 0)
           paper == Replay.increments
<1>1. e \in Event /\ ~IsStored(e)
  BY DEF Cleanup, TypeInv, Ev, Event, IsStored
<1>2. broadcast' = Append(broadcast, e) /\ UNCHANGED <<live, id, view, saved, building, outbox>>
  BY DEF Cleanup, userVars
<1> HIDE DEF e
<1>3. Replay' = Replay /\ Out' = Out
  BY <1>2 DEF Replay, Out
<1>4. paper \in Stacks /\ paper \o AddedTo(paper, e) = paper
  <2>1. paper \in Stacks /\ paper \in Seq(Increment)
    BY DEF AgreeInv, Stacks
  <2> HIDE DEF paper
  <2> QED
    BY <1>1, <2>1, AddedToStack, ConcatEmptySeq
<1>5. ASSUME NEW q \in Pages, live'[q]
      PROVE  Agree(view'[q], id'[q], Out'[q], broadcast', Replay'.increments)
  <2>1. Agree(view[q], id[q], Out[q], broadcast, paper)
    BY <1>2, <1>5 DEF AgreeInv
  <2> HIDE DEF paper
  <2>2. Agree(view[q], id[q], Out[q], Append(broadcast, e), paper \o AddedTo(paper, e))
    BY <1>1, <1>4, <2>1, OutIs, AgreeOnOthers
  <2> QED
    BY <1>2, <1>3, <1>4, <2>2 DEF paper
<1> QED
  BY <1>2, <1>3, <1>5 DEF AgreeInv

LEMMA AgreeAccept ==
  ASSUME TypeInv, DragInv, QueueInv, AgreeInv, NEW p \in Pages, Accept(p)
  PROVE  AgreeInv'
<1> DEFINE e == Head(outbox[p])
           t == Tail(outbox[p])
           paper == Replay.increments
<1>1. /\ outbox[p] # <<>> /\ broadcast' = Append(broadcast, e)
      /\ saved' = IF IsStored(e) THEN Append(saved, e) ELSE saved
      /\ outbox' = [outbox EXCEPT ![p] = t]
      /\ UNCHANGED <<live, id, view, building>>
  BY DEF Accept, TypeInv
<1>2. outbox[p] \in Seq(Event) /\ building[p] \in Seq(Event)
  BY DEF TypeInv, AllEvents
<1>3. live[p]
  BY <1>1, OutIs
<1>4. Out[p] # <<>> /\ Head(Out[p]) = e /\ Tail(Out[p]) = t \o building[p] /\ e \in Event
  <2> DEFINE o == outbox[p]
             b == building[p]
  <2>1. o \in Seq(Event) /\ b \in Seq(Event) /\ o # <<>>
    BY <1>1, <1>2
  <2>2. Out[p] = o \o b
    BY OutIs
  <2> HIDE DEF o, b
  <2>3. o \o b # <<>> /\ Head(o \o b) = Head(o) /\ Tail(o \o b) = Tail(o) \o b /\ Head(o) \in Event
    BY <2>1
  <2> QED
    BY <2>2, <2>3 DEF o, b
<1>5. e.id = id[p]
  <2>1. Out[p] \in Seq(Event) /\ \A i \in DOMAIN Out[p] : Out[p][i].id = id[p]
    BY OutIs
  <2>2. 1 \in DOMAIN Out[p] /\ Head(Out[p]) = Out[p][1]
    BY <1>4, <2>1
  <2> QED
    BY <1>4, <2>1, <2>2
<1>6. Replay'.increments = paper \o AddedTo(paper, e)
  BY <1>1, <1>4, ReplayedMore
<1>7. Out'[p] = t \o building[p] /\ \A q \in Pages \ {p} : Out'[q] = Out[q]
  <2> HIDE DEF t
  <2> QED
    BY <1>1 DEF Out, TypeInv
<1>8. paper \in Stacks /\ paper \o AddedTo(paper, e) \in Stacks
  BY <1>4, AddedToStack DEF AgreeInv, Stacks
<1> HIDE DEF e, t, paper
<1>9. ASSUME NEW q \in Pages, live'[q]
      PROVE  Agree(view'[q], id'[q], Out'[q], broadcast', Replay'.increments)
  <2>1. Agree(view[q], id[q], Out[q], broadcast, paper)
    BY <1>1, <1>9 DEF AgreeInv, paper
  <2>2. CASE q = p
    <3>1. Agree(view[p], id[p], Tail(Out[p]), Append(broadcast, e), paper \o AddedTo(paper, e))
      BY <1>4, <1>8, <2>1, <2>2, OutIs, AgreeOnOwn
    <3> QED
      BY <1>1, <1>4, <1>6, <1>7, <2>2, <3>1
  <2>3. CASE q # p
    <3>1. e.id # id[q]
      BY <1>1, <1>3, <1>5, <1>9, <2>3 DEF AgreeInv
    <3>2. Agree(view[q], id[q], Out[q], Append(broadcast, e), paper \o AddedTo(paper, e))
      BY <1>4, <1>8, <2>1, <3>1, OutIs, AgreeOnOthers
    <3> QED
      BY <1>1, <1>6, <1>7, <2>3, <3>2
  <2> QED
    BY <2>2, <2>3
<1> QED
  BY <1>1, <1>6, <1>8, <1>9 DEF AgreeInv

LEMMA AgreeSendFrame ==
  ASSUME TypeInv, DragInv, QueueInv, AgreeInv, SendFrame
  PROVE  AgreeInv'
<1>1. /\ view' = [p \in Pages |-> IF live[p] THEN Receive(view[p], id[p], broadcast) ELSE view[p]]
      /\ broadcast' = <<>> /\ UNCHANGED <<live, id, saved, building, outbox>>
  BY DEF SendFrame, userVars
<1>2. Replay' = Replay /\ Out' = Out
  BY <1>1 DEF Replay, Out
<1>3. ASSUME NEW p \in Pages, live'[p]
      PROVE  Agree(view'[p], id'[p], Out'[p], broadcast', Replay'.increments)
  <2> DEFINE w == HandleAll(view[p], id[p], broadcast)
  <2>1. w \in Views
    BY OutIs, AllHandled
  <2>2. Agree(w, id[p], Out[p], <<>>, Replay.increments)
    BY <1>1, <1>3, OutIs, AgreeOnMessage DEF DragInv, AgreeInv
  <2> HIDE DEF w
  <2>3. view'[p] = [w EXCEPT !.failed = FALSE, !.drawRequested = @ \/ ~w.failed]
    BY <1>1, <1>3 DEF Receive, w
  <2>4. view'[p].increments = w.increments /\ view'[p].astray = w.astray
    BY <2>1, <2>3 DEF Views, PageView
  <2> QED
    BY <1>1, <1>2, <2>2, <2>4 DEF Agree
<1> QED
  BY <1>1, <1>2, <1>3 DEF AgreeInv

LEMMA AgreeAnimationFrame ==
  ASSUME TypeInv, AgreeInv, NEW p \in Pages, AnimationFrame(p)
  PROVE  AgreeInv'
<1>1. /\ view' = [view EXCEPT ![p] = Draw(view[p])]
      /\ UNCHANGED <<live, id, broadcast, saved, building, outbox>>
  BY DEF AnimationFrame, userVars, serverVars, TypeInv
<1>2. Replay' = Replay /\ Out' = Out
  BY <1>1 DEF Replay, Out
<1>3. ASSUME NEW q \in Pages, live'[q]
      PROVE  Agree(view'[q], id'[q], Out'[q], broadcast', Replay'.increments)
  <2>1. view[q] \in Views /\ view'[q] \in {view[q], Draw(view[q])}
    BY <1>1 DEF TypeInv
  <2>2. view'[q].increments = view[q].increments /\ view'[q].astray = view[q].astray
    BY <2>1, DrawnInViews
  <2> QED
    BY <1>1, <1>2, <1>3, <2>2 DEF AgreeInv, Agree
<1> QED
  BY <1>1, <1>2, <1>3 DEF AgreeInv

AgreedInv == PaperInv /\ AgreeInv

LEMMA AgreedStep == AgreedInv /\ [Next]_vars => AgreedInv'
<1> SUFFICES ASSUME PaperInv, AgreeInv, [Next]_vars PROVE AgreedInv'
  BY DEF AgreedInv
<1>1. PaperInv' /\ TypeInv' /\ TypeInv /\ DragInv /\ QueueInv
  BY StackedStep DEF PaperInv
<1>2. ASSUME NEW p \in Pages, UserInput(p) PROVE AgreeInv'
  <2>1. PICK evs : Adds(p, evs)
    BY <1>1, <1>2, EachInput
  <2> QED
    BY <1>1, <2>1, AgreeInput
<1>3. ASSUME UNCHANGED vars PROVE AgreeInv'
  <2>1. UNCHANGED <<live, id, view, building, outbox, broadcast, saved>>
    BY <1>3 DEF vars, userVars, serverVars
  <2>2. Replay' = Replay /\ Out' = Out
    BY <2>1 DEF Replay, Out
  <2> QED
    BY <2>1, <2>2 DEF AgreeInv
<1>4. AgreeInv'
  BY <1>1, <1>2, <1>3, AgreeLoad, AgreeClose, AgreeCleanup, AgreeAccept, AgreeSendFrame,
     AgreeAnimationFrame DEF Next, UserInput
<1> QED
  BY <1>1, <1>4 DEF AgreedInv

----------------------------------------------------------------------------
(***************************************************************************)
(* The screen.  Of steps with the same element the last decides, so steps  *)
(* can be drawn one after the other.                                       *)
(***************************************************************************)
DrawStep == [shows : BOOLEAN, el : Nat]

StepEls(s) == {s[i].el : i \in DOMAIN s}

IsLast(s, i, d) == i \in DOMAIN s /\ s[i].el = d /\ \A j \in i + 1..Len(s) : s[j].el # d

LEMMA HasLast ==
  ASSUME NEW s \in Seq(DrawStep), NEW d \in StepEls(s)
  PROVE  \E i : IsLast(s, i, d)
<1> DEFINE T == {i \in DOMAIN s : s[i].el = d}
<1>1. T # {} /\ T \in SUBSET (1..Len(s)) /\ Len(s) \in Nat
  BY DEF StepEls
<1>2. \A i : i \in T <=> i \in 1..Len(s) /\ s[i].el = d
  OBVIOUS
<1> HIDE DEF T
<1>3. PICK m \in T : \A i \in T : i <= m
  BY <1>1, LastPlace
<1>4. m \in 1..Len(s)
  BY <1>1
<1>5. ASSUME NEW j \in m + 1..Len(s) PROVE s[j].el # d
  <2>1. j \in 1..Len(s) /\ ~ (j <= m)
    BY <1>1, <1>4
  <2> QED
    BY <1>2, <1>3, <2>1
<1> QED
  BY <1>1, <1>2, <1>3, <1>4, <1>5 DEF IsLast

LEMMA AfterLast ==
  ASSUME NEW X, NEW s \in Seq(DrawStep), NEW d
  PROVE  /\ d \notin StepEls(s) => (d \in After(X, s) <=> d \in X)
         /\ \A i : IsLast(s, i, d) => (d \in After(X, s) <=> s[i].shows)
<1> DEFINE last == {i \in DOMAIN s : \A j \in i + 1..Len(s) : s[j].el # s[i].el}
<1>1. After(X, s) = (X \ {s[i].el : i \in last}) \union {s[i].el : i \in {j \in last : s[j].shows}}
  BY DEF After
<1>2. \A i : i \in last <=> i \in DOMAIN s /\ \A j \in i + 1..Len(s) : s[j].el # s[i].el
  OBVIOUS
<1> HIDE DEF last
<1>3. d \in After(X, s) <=> \/ d \in X /\ \A i \in last : s[i].el # d
                            \/ \E i \in last : s[i].shows /\ s[i].el = d
  BY <1>1
<1>4. ASSUME d \notin StepEls(s) PROVE d \in After(X, s) <=> d \in X
  <2>1. \A i \in last : s[i].el # d
    BY <1>2, <1>4 DEF StepEls
  <2> QED
    BY <1>3, <2>1
<1>5. ASSUME NEW i, IsLast(s, i, d) PROVE d \in After(X, s) <=> s[i].shows
  <2>1. i \in last /\ s[i].el = d
    BY <1>2, <1>5 DEF IsLast
  <2>2. ASSUME NEW j \in last, s[j].el = d PROVE j = i
    <3>1. j \in DOMAIN s /\ i \in DOMAIN s /\ DOMAIN s = 1..Len(s) /\ Len(s) \in Nat
      BY <1>2, <2>1
    <3>2. ~ (j \in i + 1..Len(s)) /\ ~ (i \in j + 1..Len(s))
      BY <1>2, <1>5, <2>1, <2>2 DEF IsLast
    <3> QED
      BY <3>1, <3>2
  <2> QED
    BY <1>3, <2>1, <2>2
<1> QED
  BY <1>4, <1>5

LEMMA AfterBoth ==
  ASSUME NEW X, NEW s \in Seq(DrawStep), NEW t \in Seq(DrawStep)
  PROVE  After(X, s \o t) = After(After(X, s), t)
<1> DEFINE u == s \o t
           Y == After(X, s)
<1>1. /\ u \in Seq(DrawStep) /\ Len(u) = Len(s) + Len(t) /\ Len(s) \in Nat /\ Len(t) \in Nat
      /\ \A i \in 1..Len(s) : u[i] = s[i]
      /\ \A i \in 1..Len(t) : u[Len(s) + i] = t[i]
      /\ DOMAIN s = 1..Len(s) /\ DOMAIN t = 1..Len(t) /\ DOMAIN u = 1..Len(u)
  OBVIOUS
<1> HIDE DEF u
<1>2. ASSUME NEW d PROVE d \in After(X, u) <=> d \in After(Y, t)
  <2>1. CASE d \in StepEls(t)
    <3>1. PICK i : IsLast(t, i, d)
      BY <2>1, HasLast
    <3>2. i \in 1..Len(t)
      BY <1>1, <3>1 DEF IsLast
    <3>3. ASSUME NEW j \in Len(s) + i + 1..Len(u) PROVE u[j].el # d
      <4>1. j - Len(s) \in i + 1..Len(t) /\ j - Len(s) \in 1..Len(t) /\ Len(s) + (j - Len(s)) = j
        BY <1>1, <3>2
      <4>2. u[j] = t[j - Len(s)]
        BY <1>1, <4>1
      <4> QED
        BY <3>1, <4>1, <4>2 DEF IsLast
    <3>4. IsLast(u, Len(s) + i, d) /\ u[Len(s) + i] = t[i]
      BY <1>1, <3>1, <3>2, <3>3 DEF IsLast
    <3>5. d \in After(X, u) <=> u[Len(s) + i].shows
      BY <1>1, <3>4, AfterLast
    <3>6. d \in After(Y, t) <=> t[i].shows
      BY <3>1, AfterLast
    <3> QED
      BY <3>4, <3>5, <3>6
  <2>2. CASE d \notin StepEls(t)
    <3>1. d \in After(Y, t) <=> d \in Y
      BY <2>2, AfterLast
    <3>2. ASSUME NEW j \in 1..Len(u), ~ (j \in 1..Len(s)) PROVE u[j].el # d
      <4>1. j - Len(s) \in 1..Len(t) /\ Len(s) + (j - Len(s)) = j
        BY <1>1, <3>2
      <4>2. u[j] = t[j - Len(s)]
        BY <1>1, <4>1
      <4> QED
        BY <1>1, <2>2, <4>1, <4>2 DEF StepEls
    <3>3. CASE d \in StepEls(s)
      <4>1. PICK i : IsLast(s, i, d)
        BY <3>3, HasLast
      <4>2. i \in 1..Len(s) /\ u[i] = s[i] /\ i \in 1..Len(u)
        BY <1>1, <4>1 DEF IsLast
      <4>3. ASSUME NEW j \in i + 1..Len(u) PROVE u[j].el # d
        <5>1. CASE j \in 1..Len(s)
          BY <1>1, <4>1, <4>2, <5>1 DEF IsLast
        <5>2. CASE ~ (j \in 1..Len(s))
          BY <1>1, <3>2, <4>2, <5>2
        <5> QED
          BY <5>1, <5>2
      <4>4. IsLast(u, i, d)
        BY <1>1, <4>1, <4>2, <4>3 DEF IsLast
      <4>5. d \in After(X, u) <=> u[i].shows
        BY <1>1, <4>4, AfterLast
      <4>6. d \in Y <=> s[i].shows
        BY <4>1, AfterLast
      <4> QED
        BY <3>1, <4>2, <4>5, <4>6
    <3>4. CASE d \notin StepEls(s)
      <4>1. d \notin StepEls(u)
        <5>1. \A j \in 1..Len(s) : u[j].el # d
          BY <1>1, <3>4 DEF StepEls
        <5> QED
          BY <1>1, <3>2, <5>1 DEF StepEls
      <4>2. d \in After(X, u) <=> d \in X
        BY <1>1, <4>1, AfterLast
      <4>3. d \in Y <=> d \in X
        BY <3>4, AfterLast
      <4> QED
        BY <3>1, <4>2, <4>3
    <3> QED
      BY <3>3, <3>4
  <2> QED
    BY <2>1, <2>2
<1> HIDE DEF Y
<1>3. After(X, u) = After(Y, t)
  <2>1. \A d : d \in After(X, u) <=> d \in After(Y, t)
    BY <1>2
  <2> QED
    BY <2>1 DEF After
<1> QED
  BY <1>3 DEF u, Y

LEMMA AfterOne ==
  ASSUME NEW X, NEW x \in DrawStep
  PROVE  /\ <<x>> \in Seq(DrawStep) /\ StepEls(<<x>>) = {x.el}
         /\ \A d : d \in After(X, <<x>>) <=> IF d = x.el THEN x.shows ELSE d \in X
<1> DEFINE s == <<x>>
<1>1. s \in Seq(DrawStep) /\ Len(s) = 1 /\ DOMAIN s = {1} /\ s[1] = x
  OBVIOUS
<1> HIDE DEF s
<1>2. StepEls(s) = {x.el}
  BY <1>1 DEF StepEls
<1>3. IsLast(s, 1, x.el)
  <2>1. \A j \in 1 + 1..Len(s) : FALSE
    BY <1>1
  <2> QED
    BY <1>1, <2>1 DEF IsLast
<1>4. ASSUME NEW d PROVE d \in After(X, s) <=> IF d = x.el THEN x.shows ELSE d \in X
  BY <1>1, <1>2, <1>3, AfterLast
<1> QED
  BY <1>1, <1>2, <1>4 DEF s

LEMMA AfterNone ==
  ASSUME NEW X
  PROVE  After(X, <<>>) = X
<1>1. <<>> \in Seq(DrawStep) /\ StepEls(<<>>) = {}
  BY EmptySeq DEF StepEls
<1>2. \A d : d \in After(X, <<>>) <=> d \in X
  BY <1>1, AfterLast
<1> QED
  BY <1>2 DEF After

----------------------------------------------------------------------------
(***************************************************************************)
(* What one event does to a screen.                                        *)
(***************************************************************************)
LEMMA OnlyPushed ==
  ASSUME NEW v \in Views, NEW kind, NEW cid, NEW el
  PROVE  /\ Push(v, kind, cid, el).shown = v.shown /\ Push(v, kind, cid, el).drawn = v.drawn
         /\ Push(v, kind, cid, el).tmpActions = v.tmpActions
  BY DEF Push, Views, PageView

LEMMA OnlySet ==
  ASSUME NEW v \in Views, NEW cid, NEW a
  PROVE  /\ SetAction(v, cid, a).shown = v.shown /\ SetAction(v, cid, a).drawn = v.drawn
         /\ SetAction(v, cid, a).tmpActions = v.tmpActions
  BY DEF SetAction, Views, PageView

LEMMA OnlyTmp ==
  ASSUME NEW v \in Views, NEW shows \in BOOLEAN, NEW el \in Nat
  PROVE  /\ PushTmp(v, shows, el).shown = v.shown /\ PushTmp(v, shows, el).drawn = v.drawn
         /\ PushTmp(v, shows, el).tmpActions = v.tmpActions \o <<[shows |-> shows, el |-> el]>>
<1> DEFINE a == [shows |-> shows, el |-> el]
<1>1. a \in [shows : BOOLEAN, el : Nat] /\ v.tmpActions \in Seq([shows : BOOLEAN, el : Nat])
  BY DEF Views, PageView
<1> HIDE DEF a
<1>2. Append(v.tmpActions, a) = v.tmpActions \o <<a>>
  BY <1>1, AppendIsConcat
<1>3. PushTmp(v, shows, el) = [v EXCEPT !.tmpActions = Append(v.tmpActions, a)]
  BY DEF PushTmp, a, Views, PageView
<1> QED
  BY <1>2, <1>3 DEF Views, PageView, a

LEMMA EventDrawn ==
  ASSUME NEW v \in Views, NEW e \in Event, ~v.failed, ~Throws(v, e)
  PROVE  LET w == Handle(v, e)
             el == v.currentAction[e.id].el
             tmp == v.currentAction[e.id].tmp
         IN /\ w.shown = v.shown /\ w.drawn = v.drawn
            /\ e.type = "Start" =>
                 /\ w.tmpActions = v.tmpActions \o <<[shows |-> TRUE, el |-> e.el]>>
                 /\ w.currentAction[e.id] = [el |-> e.el, tmp |-> TRUE]
            /\ e.type = "Cancel" \/ (e.type = "Cleanup" /\ tmp) =>
                 /\ w.tmpActions = v.tmpActions \o <<[shows |-> FALSE, el |-> el]>>
                 /\ w.currentAction[e.id] = NoAction
            /\ e.type = "Object" =>
                 /\ w.tmpActions = v.tmpActions
                 /\ w.currentAction[e.id] = [el |-> e.el, tmp |-> FALSE]
            /\ e.type \in {"Point", "Undo", "Redo"} \/ (e.type = "Cleanup" /\ ~tmp) =>
                 /\ w.tmpActions = v.tmpActions
                 /\ w.currentAction = v.currentAction
<1> DEFINE m == Marked(v, e)
           el == v.currentAction[e.id].el
           tmp == v.currentAction[e.id].tmp
<1>0. /\ e.id \in ClientId /\ e.el \in Nat /\ el \in Nat
      /\ e.type \in {"Start", "Point", "Cancel", "Object", "Undo", "Redo", "Cleanup"}
  BY DEF Event, Views, PageView, Actions
<1>1. /\ m \in Views /\ m.currentAction = v.currentAction /\ ~m.failed
      /\ m.shown = v.shown /\ m.drawn = v.drawn /\ m.tmpActions = v.tmpActions
  BY MarkedFields
<1>2. Handle(v, e) =
        CASE e.type = "Start" ->
               SetAction(PushTmp(m, TRUE, e.el), e.id, [el |-> e.el, tmp |-> TRUE])
          [] e.type = "Point" -> m
          [] e.type = "Cancel" -> Cancelled(m, e.id)
          [] e.type = "Object" ->
               SetAction(Push(m, "Object", e.id, e.el), e.id, [el |-> e.el, tmp |-> FALSE])
          [] e.type = "Undo" -> PushFirst(m, "Undo", e.id, Undoable(m, e.id))
          [] e.type = "Redo" -> PushFirst(m, "Redo", e.id, Redoable(m, e.id))
          [] e.type = "Cleanup" -> IF tmp THEN Cancelled(m, e.id) ELSE m
  BY <1>1 DEF Handle, Marked, Unexpected, Throws
<1> HIDE DEF m, el, tmp
<1>3. CASE e.type = "Start"
  <2> DEFINE u == PushTmp(m, TRUE, e.el)
             a == [el |-> e.el, tmp |-> TRUE]
  <2>1. u \in Views /\ u.shown = m.shown /\ u.drawn = m.drawn
        /\ u.tmpActions = m.tmpActions \o <<[shows |-> TRUE, el |-> e.el]>>
    BY <1>0, <1>1, TmpPushed, OnlyTmp
  <2>2. Handle(v, e) = SetAction(u, e.id, a) /\ a \in Actions
    BY <1>0, <1>2, <1>3 DEF Actions
  <2> HIDE DEF u, a
  <2>3. /\ SetAction(u, e.id, a).shown = u.shown /\ SetAction(u, e.id, a).drawn = u.drawn
        /\ SetAction(u, e.id, a).tmpActions = u.tmpActions
        /\ SetAction(u, e.id, a).currentAction[e.id] = a
    <3>1. u \in Views /\ a \in Actions
      BY <2>1, <2>2
    <3> QED
      BY <1>0, <3>1, OnlySet, ActionSet
  <2> QED
    BY <1>1, <1>3, <2>1, <2>2, <2>3 DEF a
<1>4. CASE e.type = "Cancel" \/ (e.type = "Cleanup" /\ tmp)
  <2> DEFINE u == PushTmp(m, FALSE, m.currentAction[e.id].el)
             a == NoAction
  <2>1. m.currentAction[e.id].el = el
    BY <1>1 DEF el
  <2>2. u \in Views /\ u.shown = m.shown /\ u.drawn = m.drawn
        /\ u.tmpActions = m.tmpActions \o <<[shows |-> FALSE, el |-> el]>>
    BY <1>0, <1>1, <2>1, TmpPushed, OnlyTmp
  <2>3. Handle(v, e) = SetAction(u, e.id, a) /\ a \in Actions
    BY <1>2, <1>4 DEF Actions, Cancelled, NoAction
  <2> HIDE DEF u, a
  <2>4. /\ SetAction(u, e.id, a).shown = u.shown /\ SetAction(u, e.id, a).drawn = u.drawn
        /\ SetAction(u, e.id, a).tmpActions = u.tmpActions
        /\ SetAction(u, e.id, a).currentAction[e.id] = a
    <3>1. u \in Views /\ a \in Actions
      BY <2>2, <2>3
    <3> QED
      BY <1>0, <3>1, OnlySet, ActionSet
  <2>5. e.type # "Start" /\ e.type # "Object" /\ ~ (e.type \in {"Point", "Undo", "Redo"})
        /\ ~ (e.type = "Cleanup" /\ ~tmp)
    BY <1>4
  <2> QED
    BY <1>1, <2>2, <2>3, <2>4, <2>5 DEF a, el, tmp
<1>5. CASE e.type = "Object"
  <2> DEFINE u == Push(m, "Object", e.id, e.el)
             a == [el |-> e.el, tmp |-> FALSE]
  <2>1. u \in Views /\ u.shown = m.shown /\ u.drawn = m.drawn /\ u.tmpActions = m.tmpActions
    <3>1. "Object" \in {"Object", "Undo", "Redo"}
      OBVIOUS
    <3>2. u \in Views
      BY <1>0, <1>1, <3>1, Pushed
    <3> QED
      BY <1>1, <3>2, OnlyPushed
  <2>2. Handle(v, e) = SetAction(u, e.id, a) /\ a \in Actions
    BY <1>0, <1>2, <1>5 DEF Actions
  <2> HIDE DEF u, a
  <2>3. /\ SetAction(u, e.id, a).shown = u.shown /\ SetAction(u, e.id, a).drawn = u.drawn
        /\ SetAction(u, e.id, a).tmpActions = u.tmpActions
        /\ SetAction(u, e.id, a).currentAction[e.id] = a
    <3>1. u \in Views /\ a \in Actions
      BY <2>1, <2>2
    <3> QED
      BY <1>0, <3>1, OnlySet, ActionSet
  <2> QED
    BY <1>1, <1>5, <2>1, <2>2, <2>3 DEF a
<1>6. CASE e.type \in {"Undo", "Redo"}
  <2> DEFINE places == IF e.type = "Undo" THEN Undoable(m, e.id) ELSE Redoable(m, e.id)
             w == PushFirst(m, e.type, e.id, places)
  <2>1. Handle(v, e) = w
    BY <1>2, <1>6
  <2>2. places \in SUBSET (1..Len(m.increments))
    BY <1>0, <1>1, UndoablePlaces
  <2>3. w.currentAction = m.currentAction
    BY <1>1, <1>6, <2>2, FirstPushed
  <2>4. w.shown = m.shown /\ w.drawn = m.drawn /\ w.tmpActions = m.tmpActions
    <3> HIDE DEF places
    <3> QED
      BY <1>1, OnlyPushed DEF PushFirst
  <2> HIDE DEF w
  <2> QED
    BY <1>1, <1>6, <2>1, <2>3, <2>4
<1>7. CASE e.type = "Point" \/ (e.type = "Cleanup" /\ ~tmp)
  <2>1. Handle(v, e) = m
    BY <1>2, <1>7
  <2>2. e.type # "Start" /\ e.type # "Object" /\ ~ (e.type = "Cancel" \/ (e.type = "Cleanup" /\ tmp))
    BY <1>7
  <2> QED
    BY <1>1, <2>1, <2>2 DEF tmp
<1> QED
  BY <1>0, <1>3, <1>4, <1>5, <1>6, <1>7

----------------------------------------------------------------------------
(***************************************************************************)
(* What a page shows after its next animation frame: the objects of its    *)
(* stack and, of each client that it takes to be dragging, the temporary   *)
(* object.  Temporary objects are told apart from finished ones, and those *)
(* of different clients from each other: drags are the ones that clients   *)
(* may be at.                                                              *)
(***************************************************************************)
Temporary == OldObjects + 1..MaxInputs

Drags(drags) ==
  /\ \A h \in drags : h[2] \in Temporary
  /\ \A h, k \in drags : h[2] = k[2] => h[1] = k[1]

Strokes(v) == Steps(SubSeq(v.increments, v.drawn + 1, Len(v.increments)))

Painted(v) == After(v.shown, Strokes(v))

Final(v) == After(Painted(v), v.tmpActions)

Dragged(v, cid, d) == v.currentAction[cid].tmp /\ v.currentAction[cid].el = d

Screen(v, drags) ==
  /\ \A d : d \in Final(v) <=>
              d \in Shown(v.increments) \/ \E cid \in ClientId : Dragged(v, cid, d)
  /\ StepEls(v.tmpActions) \subseteq Temporary
  /\ Els(v.increments) \cap Temporary = {}
  /\ \A cid \in ClientId : \A d : Dragged(v, cid, d) => <<cid, d>> \in drags

StrokeOf(x) == [shows |-> x.kind # "Undo", el |-> x.el]

LEMMA StepsAre ==
  ASSUME NEW s \in Seq(Increment)
  PROVE  /\ Steps(s) \in Seq(DrawStep) /\ Len(Steps(s)) = Len(s)
         /\ \A i \in 1..Len(s) : Steps(s)[i] = StrokeOf(s[i])
<1>1. DOMAIN s = 1..Len(s) /\ Len(s) \in Nat /\ \A i \in 1..Len(s) : s[i] \in Increment
  BY ElementOfSeq
<1>2. \A i \in 1..Len(s) : StrokeOf(s[i]) \in DrawStep
  BY <1>1 DEF Increment, StrokeOf, DrawStep
<1>3. Steps(s) = [i \in 1..Len(s) |-> StrokeOf(s[i])]
  BY <1>1 DEF Steps, StrokeOf
<1> HIDE DEF StrokeOf
<1> QED
  BY <1>1, <1>2, <1>3

LEMMA StepsMore ==
  ASSUME NEW s \in Seq(Increment), NEW x \in Increment
  PROVE  Steps(s \o <<x>>) = Steps(s) \o <<StrokeOf(x)>> /\ StrokeOf(x) \in DrawStep
<1> DEFINE t == s \o <<x>>
           n == Len(s)
           a == Steps(t)
           y == StrokeOf(x)
           b == Steps(s) \o <<y>>
<1>1. t \in Seq(Increment) /\ Len(t) = n + 1 /\ t[n + 1] = x /\ n \in Nat /\ \A i \in 1..n : t[i] = s[i]
  BY ElsAdded
<1>2. y \in DrawStep
  BY DEF Increment, StrokeOf, DrawStep
<1> HIDE DEF t
<1>3. a \in Seq(DrawStep) /\ Len(a) = n + 1 /\ \A i \in 1..n + 1 : a[i] = StrokeOf(t[i])
  BY <1>1, StepsAre
<1>4. Steps(s) \in Seq(DrawStep) /\ Len(Steps(s)) = n /\ \A i \in 1..n : Steps(s)[i] = StrokeOf(s[i])
  BY StepsAre
<1> HIDE DEF a, y
<1>5. b \in Seq(DrawStep) /\ Len(b) = n + 1 /\ b[n + 1] = y /\ \A i \in 1..n : b[i] = Steps(s)[i]
  BY <1>1, <1>2, <1>4
<1>6. ASSUME NEW i \in 1..n + 1 PROVE a[i] = b[i]
  <2>1. CASE i = n + 1
    BY <1>1, <1>3, <1>5, <2>1 DEF y
  <2>2. CASE i # n + 1
    <3>1. i \in 1..n
      BY <1>1, <2>2
    <3> QED
      BY <1>1, <1>3, <1>4, <1>5, <3>1
  <2> QED
    BY <2>1, <2>2
<1> HIDE DEF b
<1>7. a = b
  BY <1>1, <1>3, <1>5, <1>6, SeqEqual
<1> QED
  BY <1>2, <1>7 DEF a, b, y, t

LEMMA StrokesAre ==
  ASSUME NEW v \in Views
  PROVE  Strokes(v) \in Seq(DrawStep) /\ v.tmpActions \in Seq(DrawStep)
<1> DEFINE new == SubSeq(v.increments, v.drawn + 1, Len(v.increments))
<1>1. /\ v.increments \in Seq(Increment) /\ v.tmpActions \in Seq(DrawStep)
      /\ v.drawn \in Nat /\ Len(v.increments) \in Nat
  BY DEF Views, PageView, DrawStep
<1>2. new \in Seq(Increment)
  <2>1. \A i \in v.drawn + 1..Len(v.increments) : v.increments[i] \in Increment
    BY <1>1, ElementOfSeq
  <2> QED
    BY <1>1, <2>1, SubSeqProperties
<1> HIDE DEF new
<1> QED
  BY <1>1, <1>2, StepsAre DEF Strokes, new

\* One more increment, at the end of the stack, in front of what is temporary.
LEMMA ShownMore ==
  ASSUME NEW s \in Seq(Increment), NEW x \in Increment, NEW d
  PROVE  d \in Shown(s \o <<x>>) <=> IF d = x.el THEN x.kind # "Undo" ELSE d \in Shown(s)
<1>1. Steps(s \o <<x>>) = Steps(s) \o <<StrokeOf(x)>> /\ StrokeOf(x) \in DrawStep /\ Steps(s) \in Seq(DrawStep)
  BY StepsMore, StepsAre
<1>2. StrokeOf(x).shows = (x.kind # "Undo") /\ StrokeOf(x).el = x.el
  BY DEF StrokeOf
<1> DEFINE y == StrokeOf(x)
<1> HIDE DEF y
<1>3. After({}, Steps(s) \o <<y>>) = After(After({}, Steps(s)), <<y>>)
  BY <1>1, AfterOne, AfterBoth DEF y
<1>4. d \in After(After({}, Steps(s)), <<y>>) <=> IF d = y.el THEN y.shows ELSE d \in After({}, Steps(s))
  BY <1>1, AfterOne DEF y
<1> QED
  BY <1>1, <1>2, <1>3, <1>4 DEF Shown, y

LEMMA PaintedMore ==
  ASSUME NEW v \in Views, NEW w \in Views, NEW x \in Increment,
         w.increments = v.increments \o <<x>>, w.drawn = v.drawn, w.shown = v.shown, NEW d
  PROVE  d \in Painted(w) <=> IF d = x.el THEN x.kind # "Undo" ELSE d \in Painted(v)
<1> DEFINE s == v.increments
           m == v.drawn
           n == Len(s)
           t == s \o <<x>>
           a == SubSeq(s, m + 1, n)
           b == SubSeq(t, m + 1, n + 1)
<1>1. s \in Seq(Increment) /\ m \in Nat /\ n \in Nat /\ m <= n
  BY DEF Views, PageView
<1>2. t \in Seq(Increment) /\ Len(t) = n + 1 /\ t[n + 1] = x /\ \A i \in 1..n : t[i] = s[i]
  BY <1>1, ElsAdded
<1> HIDE DEF s, m, t
<1>3. \A i \in 1..n : s[i] \in Increment
  BY <1>1, ElementOfSeq
<1>4. a \in Seq(Increment) /\ Len(a) = n - m /\ \A i \in 1..n - m : a[i] = s[m + i]
  <2>1. \A i \in m + 1..n : s[i] \in Increment
    BY <1>1, <1>3
  <2>2. /\ a \in Seq(Increment) /\ Len(a) = (IF m + 1 <= n THEN n - (m + 1) + 1 ELSE 0)
        /\ \A i \in 1..n - (m + 1) + 1 : a[i] = s[m + 1 + i - 1]
    BY <1>1, <2>1, SubSeqProperties
  <2> HIDE DEF a
  <2>3. Len(a) = n - m
    BY <1>1, <2>2
  <2>4. ASSUME NEW i \in 1..n - m PROVE a[i] = s[m + i]
    <3>1. i \in 1..n - (m + 1) + 1 /\ m + 1 + i - 1 = m + i
      BY <1>1
    <3> QED
      BY <2>2, <3>1
  <2> QED
    BY <2>2, <2>3, <2>4
<1>5. b \in Seq(Increment) /\ Len(b) = n - m + 1 /\ \A i \in 1..n - m + 1 : b[i] = t[m + i]
  <2>1. \A i \in m + 1..n + 1 : t[i] \in Increment
    BY <1>1, <1>2, ElementOfSeq
  <2>2. /\ b \in Seq(Increment) /\ Len(b) = (IF m + 1 <= n + 1 THEN n + 1 - (m + 1) + 1 ELSE 0)
        /\ \A i \in 1..n + 1 - (m + 1) + 1 : b[i] = t[m + 1 + i - 1]
    BY <1>1, <2>1, SubSeqProperties
  <2> HIDE DEF b
  <2>3. Len(b) = n - m + 1
    BY <1>1, <2>2
  <2>4. ASSUME NEW i \in 1..n - m + 1 PROVE b[i] = t[m + i]
    <3>1. i \in 1..n + 1 - (m + 1) + 1 /\ m + 1 + i - 1 = m + i
      BY <1>1
    <3> QED
      BY <2>2, <3>1
  <2> QED
    BY <2>2, <2>3, <2>4
<1> HIDE DEF a, b
<1>6. b = a \o <<x>>
  <2> DEFINE c == a \o <<x>>
  <2>1. c \in Seq(Increment) /\ Len(c) = n - m + 1 /\ c[n - m + 1] = x /\ \A i \in 1..n - m : c[i] = a[i]
    BY <1>4, ElsAdded
  <2> HIDE DEF c
  <2>2. ASSUME NEW i \in 1..n - m + 1 PROVE b[i] = c[i]
    <3>1. CASE i = n - m + 1
      <4>1. m + i = n + 1
        BY <1>1, <3>1
      <4> QED
        BY <1>2, <1>5, <2>1, <3>1, <4>1
    <3>2. CASE i # n - m + 1
      <4>1. i \in 1..n - m /\ m + i \in 1..n
        <5>1. m \in Nat /\ n \in Nat /\ m <= n /\ i \in Nat /\ 1 <= i /\ i <= n - m + 1 /\ i # n - m + 1
          BY <1>1, <3>2
        <5> HIDE DEF n
        <5>2. i <= n - m
          BY <5>1
        <5> QED
          BY <5>1, <5>2
      <4>2. b[i] = t[m + i]
        BY <1>5
      <4>3. t[m + i] = s[m + i]
        BY <1>2, <4>1
      <4>4. a[i] = s[m + i] /\ c[i] = a[i]
        BY <1>4, <2>1, <4>1
      <4> QED
        BY <4>2, <4>3, <4>4
    <3> QED
      BY <3>1, <3>2
  <2>3. b = c
    BY <1>1, <1>5, <2>1, <2>2, SeqEqual
  <2> QED
    BY <2>3 DEF c
<1>7. Strokes(v) = Steps(a) /\ Strokes(w) = Steps(b)
  BY <1>1, <1>2 DEF Strokes, a, b, s, m, t
<1> DEFINE y == StrokeOf(x)
<1>8. Steps(b) = Steps(a) \o <<y>> /\ y \in DrawStep /\ Steps(a) \in Seq(DrawStep)
  BY <1>4, <1>6, StepsMore, StepsAre
<1>9. y.shows = (x.kind # "Undo") /\ y.el = x.el
  BY DEF StrokeOf
<1> HIDE DEF y
<1>10. After(v.shown, Steps(a) \o <<y>>) = After(After(v.shown, Steps(a)), <<y>>)
  <2>1. <<y>> \in Seq(DrawStep)
    BY <1>8, AfterOne
  <2> QED
    BY <1>8, <2>1, AfterBoth
<1>11. d \in After(After(v.shown, Steps(a)), <<y>>) <=> IF d = y.el THEN y.shows ELSE d \in After(v.shown, Steps(a))
  BY <1>8, AfterOne
<1> QED
  BY <1>7, <1>8, <1>9, <1>10, <1>11 DEF Painted

\* What shows of an element after the steps is what showed before, or the last of them.
LEMMA AfterSame ==
  ASSUME NEW X, NEW Y, NEW s \in Seq(DrawStep), NEW d, d \in X <=> d \in Y
  PROVE  d \in After(X, s) <=> d \in After(Y, s)
<1>1. CASE d \in StepEls(s)
  <2>1. PICK i : IsLast(s, i, d)
    BY <1>1, HasLast
  <2> QED
    BY <2>1, AfterLast
<1>2. CASE d \notin StepEls(s)
  BY <1>2, AfterLast
<1> QED
  BY <1>1, <1>2

LEMMA AddedEls ==
  ASSUME NEW v \in Views, NEW e \in Event
  PROVE  \/ Added(v, e) = <<>> /\ e.type # "Object"
         \/ \E x \in Increment : /\ Added(v, e) = <<x>>
                                 /\ e.type \in {"Object", "Undo", "Redo"}
                                 /\ IF e.type = "Object" THEN x.el = e.el ELSE x.el \in Els(v.increments)
<1> DEFINE s == v.increments
<1>1. e.id \in ClientId /\ e.el \in Nat /\ s \in Seq(Increment)
  BY DEF Event, Views, PageView
<1>2. ASSUME NEW k \in 1..Len(s) PROVE s[k].el \in Nat /\ s[k].el \in Els(s)
  <2>1. s[k] \in Increment /\ k \in DOMAIN s
    BY <1>1, <1>2, ElementOfSeq
  <2> QED
    BY <2>1 DEF Increment, Els
<1>3. CASE e.type = "Object"
  <2> DEFINE x == [kind |-> "Object", id |-> e.id, el |-> e.el]
  <2>1. x \in Increment /\ Added(v, e) = <<x>> /\ x.el = e.el
    BY <1>1, <1>3 DEF Increment, Added
  <2> HIDE DEF x
  <2> QED
    BY <1>3, <2>1
<1>4. CASE e.type \in {"Undo", "Redo"} /\ Added(v, e) # <<>>
  <2> DEFINE places == IF e.type = "Undo" THEN Undoable(v, e.id) ELSE Redoable(v, e.id)
             x == [kind |-> e.type, id |-> e.id, el |-> s[Max(places)].el]
  <2>1. places # {} /\ Added(v, e) = <<x>>
    BY <1>4 DEF Added
  <2>2. Max(places) \in 1..Len(s)
    BY <1>1, <2>1, UndoablePlaces
  <2> HIDE DEF places
  <2>3. x \in Increment /\ x.el \in Els(s)
    BY <1>1, <1>2, <1>4, <2>2 DEF Increment
  <2> HIDE DEF x
  <2> QED
    BY <1>4, <2>1, <2>3
<1>5. CASE ~ (e.type \in {"Object", "Undo", "Redo"})
  BY <1>5 DEF Added
<1> QED
  BY <1>3, <1>4, <1>5

\* One more increment of an element that no client drags.
LEMMA ScreenPushed ==
  ASSUME NEW v \in Views, NEW w \in Views, NEW x \in Increment, NEW drags, Drags(drags),
         Screen(v, drags), x.el \notin Temporary,
         w.increments = v.increments \o <<x>>, w.drawn = v.drawn, w.shown = v.shown,
         w.tmpActions = v.tmpActions,
         \A cid \in ClientId : \A d : Dragged(w, cid, d) <=> Dragged(v, cid, d)
  PROVE  Screen(w, drags)
<1>1. v.tmpActions \in Seq(DrawStep) /\ v.increments \in Seq(Increment)
  BY StrokesAre DEF Views, PageView
<1>2. ASSUME NEW d
      PROVE  d \in Final(w) <=> d \in Shown(w.increments) \/ \E cid \in ClientId : Dragged(w, cid, d)
  <2>1. d \in Painted(w) <=> IF d = x.el THEN x.kind # "Undo" ELSE d \in Painted(v)
    BY PaintedMore
  <2>2. d \in Shown(w.increments) <=> IF d = x.el THEN x.kind # "Undo" ELSE d \in Shown(v.increments)
    BY <1>1, ShownMore
  <2>3. Final(w) = After(Painted(w), v.tmpActions) /\ Final(v) = After(Painted(v), v.tmpActions)
    BY DEF Final
  <2>4. CASE d = x.el
    <3>1. d \notin StepEls(v.tmpActions)
      BY <2>4 DEF Screen
    <3>2. d \in Final(w) <=> d \in Painted(w)
      BY <1>1, <2>3, <3>1, AfterLast
    <3>3. ASSUME NEW cid \in ClientId, Dragged(w, cid, d) PROVE FALSE
      <4>1. <<cid, d>> \in drags
        BY <3>3 DEF Screen
      <4> QED
        BY <2>4, <4>1 DEF Drags
    <3> QED
      BY <2>1, <2>2, <2>4, <3>2, <3>3
  <2>5. CASE d # x.el
    <3>1. d \in Final(w) <=> d \in Final(v)
      BY <1>1, <2>1, <2>3, <2>5, AfterSame
    <3> QED
      BY <2>2, <2>5, <3>1 DEF Screen
  <2> QED
    BY <2>4, <2>5
<1>3. Els(w.increments) \cap Temporary = {}
  BY <1>1, ElsAdded DEF Screen
<1> QED
  BY <1>2, <1>3 DEF Screen

\* One more temporary action.
LEMMA FinalMore ==
  ASSUME NEW v \in Views, NEW w \in Views, NEW y \in DrawStep,
         w.increments = v.increments, w.drawn = v.drawn, w.shown = v.shown,
         w.tmpActions = v.tmpActions \o <<y>>
  PROVE  /\ StepEls(w.tmpActions) = StepEls(v.tmpActions) \union {y.el}
         /\ \A d : d \in Final(w) <=> IF d = y.el THEN y.shows ELSE d \in Final(v)
<1> DEFINE s == v.tmpActions
           t == s \o <<y>>
           n == Len(s)
<1>1. s \in Seq(DrawStep)
  BY StrokesAre
<1>2. Painted(w) = Painted(v)
  BY DEF Painted, Strokes
<1>3. Final(w) = After(Painted(v), s \o <<y>>) /\ Final(v) = After(Painted(v), s)
  BY <1>2 DEF Final
<1> HIDE DEF s
<1>4. <<y>> \in Seq(DrawStep) /\ \A X, d : d \in After(X, <<y>>) <=> IF d = y.el THEN y.shows ELSE d \in X
  BY AfterOne
<1>5. Final(w) = After(Final(v), <<y>>)
  <2> HIDE DEF Final
  <2>1. After(Painted(v), s \o <<y>>) = After(After(Painted(v), s), <<y>>)
    BY <1>1, <1>4, AfterBoth
  <2> QED
    BY <1>3, <2>1
<1>6. /\ n \in Nat /\ DOMAIN s = 1..n /\ DOMAIN t = 1..n + 1
      /\ t[n + 1] = y /\ \A i \in 1..n : t[i] = s[i]
  BY <1>1
<1> HIDE DEF t, n
<1>7. StepEls(t) = StepEls(s) \union {y.el}
  <2>1. ASSUME NEW d PROVE d \in StepEls(t) <=> d \in StepEls(s) \/ d = y.el
    <3>1. d \in StepEls(t) <=> \E i \in 1..n + 1 : t[i].el = d
      BY <1>6 DEF StepEls
    <3>2. d \in StepEls(s) <=> \E i \in 1..n : s[i].el = d
      BY <1>6 DEF StepEls
    <3>3. 1..n + 1 = 1..n \union {n + 1}
      BY <1>6
    <3> QED
      BY <1>6, <3>1, <3>2, <3>3
  <2> QED
    BY <2>1
<1> QED
  BY <1>4, <1>5, <1>7 DEF s, t

\* A client starts to drag an element ...
LEMMA ScreenStarted ==
  ASSUME NEW v \in Views, NEW w \in Views, NEW drags, Drags(drags), Screen(v, drags),
         NEW c \in ClientId, NEW el \in Nat, <<c, el>> \in drags, ~v.currentAction[c].tmp,
         w.increments = v.increments, w.drawn = v.drawn, w.shown = v.shown,
         w.tmpActions = v.tmpActions \o <<[shows |-> TRUE, el |-> el]>>,
         \A cid \in ClientId : \A d :
           Dragged(w, cid, d) <=> (cid = c /\ d = el) \/ (cid # c /\ Dragged(v, cid, d))
  PROVE  Screen(w, drags)
<1> DEFINE y == [shows |-> TRUE, el |-> el]
<1>1. y \in DrawStep /\ y.shows = TRUE /\ y.el = el
  BY DEF DrawStep
<1>2. w.tmpActions = v.tmpActions \o <<y>>
  OBVIOUS
<1> HIDE DEF y
<1>3. /\ StepEls(w.tmpActions) = StepEls(v.tmpActions) \union {el}
      /\ \A d : d \in Final(w) <=> IF d = el THEN TRUE ELSE d \in Final(v)
  <2>1. /\ StepEls(w.tmpActions) = StepEls(v.tmpActions) \union {y.el}
        /\ \A d : d \in Final(w) <=> IF d = y.el THEN y.shows ELSE d \in Final(v)
    <3>1. y \in DrawStep
      BY <1>1
    <3> QED
      BY <1>2, <3>1, FinalMore
  <2> QED
    BY <1>1, <2>1
<1>4. el \in Temporary
  <2>1. <<c, el>>[2] \in Temporary
    BY DEF Drags
  <2> QED
    BY <2>1
<1>5. \A d : ~Dragged(v, c, d)
  BY DEF Dragged
<1>6. ASSUME NEW d
      PROVE  d \in Final(w) <=> d \in Shown(w.increments) \/ \E cid \in ClientId : Dragged(w, cid, d)
  <2>1. CASE d = el
    BY <1>3, <2>1
  <2>2. CASE d # el
    BY <1>3, <1>5, <2>2 DEF Screen
  <2> QED
    BY <2>1, <2>2
<1>7. \A cid \in ClientId : \A d : Dragged(w, cid, d) => <<cid, d>> \in drags
  BY DEF Screen
<1> QED
  BY <1>3, <1>4, <1>6, <1>7 DEF Screen

\* ... and no longer drags it.
LEMMA ScreenEnded ==
  ASSUME NEW v \in Views, NEW w \in Views, NEW drags, Drags(drags), Screen(v, drags),
         NEW c \in ClientId, NEW el \in Nat, v.currentAction[c].tmp, v.currentAction[c].el = el,
         w.increments = v.increments, w.drawn = v.drawn, w.shown = v.shown,
         w.tmpActions = v.tmpActions \o <<[shows |-> FALSE, el |-> el]>>,
         \A cid \in ClientId : \A d : Dragged(w, cid, d) <=> cid # c /\ Dragged(v, cid, d)
  PROVE  Screen(w, drags)
<1> DEFINE y == [shows |-> FALSE, el |-> el]
<1>1. y \in DrawStep /\ y.shows = FALSE /\ y.el = el
  BY DEF DrawStep
<1>2. w.tmpActions = v.tmpActions \o <<y>>
  OBVIOUS
<1> HIDE DEF y
<1>3. /\ StepEls(w.tmpActions) = StepEls(v.tmpActions) \union {el}
      /\ \A d : d \in Final(w) <=> IF d = el THEN FALSE ELSE d \in Final(v)
  <2>1. /\ StepEls(w.tmpActions) = StepEls(v.tmpActions) \union {y.el}
        /\ \A d : d \in Final(w) <=> IF d = y.el THEN y.shows ELSE d \in Final(v)
    <3>1. y \in DrawStep
      BY <1>1
    <3> QED
      BY <1>2, <3>1, FinalMore
  <2> QED
    BY <1>1, <2>1
<1>4. Dragged(v, c, el) /\ \A d : Dragged(v, c, d) => d = el
  BY DEF Dragged
<1>5. <<c, el>> \in drags
  BY <1>4 DEF Screen
<1>6. el \in Temporary
  <2>1. <<c, el>>[2] \in Temporary
    BY <1>5 DEF Drags
  <2> QED
    BY <2>1
<1>7. \A cid \in ClientId : cid # c => ~Dragged(v, cid, el)
  <2> SUFFICES ASSUME NEW cid \in ClientId, Dragged(v, cid, el) PROVE cid = c
    OBVIOUS
  <2>1. <<cid, el>> \in drags
    BY DEF Screen
  <2>2. <<cid, el>>[2] = <<c, el>>[2]
    OBVIOUS
  <2>3. <<cid, el>>[1] = <<c, el>>[1]
    BY <1>5, <2>1, <2>2 DEF Drags
  <2> QED
    BY <2>3
<1>8. el \notin Shown(v.increments)
  <2>1. el \notin Els(v.increments) /\ v.increments \in Seq(Increment)
    BY <1>6 DEF Screen, Views, PageView
  <2>2. ~ShowsAt(v.increments, el)
    BY <2>1 DEF ShowsAt, Els
  <2> QED
    BY <2>1, <2>2, ShownLast
<1>9. ASSUME NEW d
      PROVE  d \in Final(w) <=> d \in Shown(w.increments) \/ \E cid \in ClientId : Dragged(w, cid, d)
  <2>1. CASE d = el
    BY <1>3, <1>7, <1>8, <2>1
  <2>2. CASE d # el
    BY <1>3, <1>4, <2>2 DEF Screen
  <2> QED
    BY <2>1, <2>2
<1> QED
  BY <1>3, <1>6, <1>9 DEF Screen

Ends(e) == e.type \in {"Cancel", "Object", "Cleanup"}

\* Whether a client is dragging after event e.
TmpAfter(t, e, cid) == IF e.id = cid THEN e.type = "Start" \/ (t /\ ~Ends(e)) ELSE t

Tmp(v, cid) == v.currentAction[cid].tmp

LEMMA ScreenHandled ==
  ASSUME NEW v \in Views, ~v.failed, NEW drags, Drags(drags), Screen(v, drags), NEW e \in Event,
         e.type = "Start" => <<e.id, e.el>> \in drags,
         e.type = "Object" => e.el \notin Temporary /\ ~Tmp(v, e.id),
         ~Handle(v, e).astray
  PROVE  LET w == Handle(v, e) IN
           /\ w \in Views /\ ~w.failed /\ ~v.astray /\ Screen(w, drags)
           /\ \A cid \in ClientId : Tmp(w, cid) <=> TmpAfter(Tmp(v, cid), e, cid)
<1> DEFINE w == Handle(v, e)
           c == e.id
           el == v.currentAction[e.id].el
           tmp == v.currentAction[e.id].tmp
<1>1. /\ c \in ClientId /\ e.el \in Nat /\ el \in Nat /\ tmp \in BOOLEAN
      /\ e.type \in {"Start", "Point", "Cancel", "Object", "Undo", "Redo", "Cleanup"}
      /\ v.astray \in BOOLEAN
  BY DEF Event, Views, PageView, Actions
<1>2. ~Throws(v, e)
  BY ThrowsAstray
<1>3. /\ w \in Views /\ w.increments = v.increments \o Added(v, e)
      /\ w.astray = (v.astray \/ Unexpected(v, e)) /\ ~w.failed
      /\ \A cid \in ClientId \ {c} : w.currentAction[cid] = v.currentAction[cid]
  BY <1>2, EventHandled
<1>4. /\ w.shown = v.shown /\ w.drawn = v.drawn
      /\ e.type = "Start" =>
           /\ w.tmpActions = v.tmpActions \o <<[shows |-> TRUE, el |-> e.el]>>
           /\ w.currentAction[c] = [el |-> e.el, tmp |-> TRUE]
      /\ e.type = "Cancel" \/ (e.type = "Cleanup" /\ tmp) =>
           /\ w.tmpActions = v.tmpActions \o <<[shows |-> FALSE, el |-> el]>>
           /\ w.currentAction[c] = NoAction
      /\ e.type = "Object" =>
           /\ w.tmpActions = v.tmpActions
           /\ w.currentAction[c] = [el |-> e.el, tmp |-> FALSE]
      /\ e.type \in {"Point", "Undo", "Redo"} \/ (e.type = "Cleanup" /\ ~tmp) =>
           /\ w.tmpActions = v.tmpActions
           /\ w.currentAction = v.currentAction
  BY <1>2, EventDrawn
<1>5. ~v.astray /\ ~Unexpected(v, e)
  BY <1>3
<1>6. (e.type = "Start" => ~tmp) /\ (e.type = "Cancel" => tmp)
  BY <1>5 DEF Unexpected
<1>7. v.increments \in Seq(Increment) /\ v.increments \o <<>> = v.increments
  BY ConcatEmptySeq DEF Views, PageView
<1>8. (e.type = "Object" => ~tmp) /\ \A cid \in ClientId \ {c} : (TmpAfter(Tmp(v, cid), e, cid) <=> Tmp(v, cid))
  BY DEF Tmp, TmpAfter
<1> HIDE DEF w, el, tmp
<1>9. ASSUME e.type = "Start"
      PROVE  Screen(w, drags) /\ \A cid \in ClientId : Tmp(w, cid) <=> TmpAfter(Tmp(v, cid), e, cid)
  <2>1. w.increments = v.increments
    BY <1>3, <1>7, <1>9 DEF Added
  <2>2. ASSUME NEW cid \in ClientId, NEW d
        PROVE  Dragged(w, cid, d) <=> (cid = c /\ d = e.el) \/ (cid # c /\ Dragged(v, cid, d))
    BY <1>3, <1>4, <1>9 DEF Dragged
  <2>3. ~v.currentAction[c].tmp
    BY <1>6, <1>9 DEF tmp
  <2>4. Screen(w, drags)
    <3>1. /\ w.tmpActions = v.tmpActions \o <<[shows |-> TRUE, el |-> e.el]>>
          /\ w.shown = v.shown /\ w.drawn = v.drawn /\ <<c, e.el>> \in drags
      BY <1>4, <1>9
    <3>2. c \in ClientId /\ e.el \in Nat /\ w \in Views
      BY <1>1, <1>3
    <3> HIDE DEF c
    <3> QED
      BY <2>1, <2>2, <2>3, <3>1, <3>2, ScreenStarted
  <2>5. ASSUME NEW cid \in ClientId PROVE Tmp(w, cid) <=> TmpAfter(Tmp(v, cid), e, cid)
    <3>1. CASE cid = c
      <4>1. w.currentAction[c].tmp = TRUE
        BY <1>4, <1>9
      <4> QED
        BY <1>9, <3>1, <4>1 DEF Tmp, TmpAfter
    <3>2. CASE cid # c
      BY <1>3, <1>8, <3>2 DEF Tmp
    <3> QED
      BY <3>1, <3>2
  <2> QED
    BY <2>4, <2>5
<1>10. ASSUME e.type = "Cancel" \/ (e.type = "Cleanup" /\ tmp)
       PROVE  Screen(w, drags) /\ \A cid \in ClientId : Tmp(w, cid) <=> TmpAfter(Tmp(v, cid), e, cid)
  <2>1. w.increments = v.increments
    BY <1>3, <1>7, <1>10 DEF Added
  <2>2. w.currentAction[c].tmp = FALSE /\ w.tmpActions = v.tmpActions \o <<[shows |-> FALSE, el |-> el]>>
    <3>1. w.currentAction[c] = NoAction /\ w.tmpActions = v.tmpActions \o <<[shows |-> FALSE, el |-> el]>>
      BY <1>4, <1>10
    <3> QED
      BY <3>1 DEF NoAction
  <2>3. ASSUME NEW cid \in ClientId, NEW d PROVE Dragged(w, cid, d) <=> cid # c /\ Dragged(v, cid, d)
    BY <1>3, <2>2 DEF Dragged
  <2>4. v.currentAction[c].tmp /\ v.currentAction[c].el = el
    BY <1>6, <1>10 DEF tmp, el
  <2>5. Screen(w, drags)
    BY <1>1, <1>3, <1>4, <2>1, <2>2, <2>3, <2>4, ScreenEnded
  <2>6. ASSUME NEW cid \in ClientId PROVE Tmp(w, cid) <=> TmpAfter(Tmp(v, cid), e, cid)
    <3>1. CASE cid = c
      BY <1>10, <2>2, <3>1 DEF Tmp, TmpAfter, Ends
    <3>2. CASE cid # c
      BY <1>3, <1>8, <3>2 DEF Tmp
    <3> QED
      BY <3>1, <3>2
  <2> QED
    BY <2>5, <2>6
<1>11. ASSUME ~ (e.type = "Start" \/ e.type = "Cancel" \/ (e.type = "Cleanup" /\ tmp))
       PROVE  Screen(w, drags) /\ \A cid \in ClientId : Tmp(w, cid) <=> TmpAfter(Tmp(v, cid), e, cid)
  <2>1. w.tmpActions = v.tmpActions /\ w.currentAction[c].tmp = tmp
        /\ \A cid \in ClientId : w.currentAction[cid].tmp = v.currentAction[cid].tmp
    <3>1. w.tmpActions = v.tmpActions /\ w.currentAction[c].tmp = tmp
      <4>1. CASE e.type = "Object"
        <5>1. w.tmpActions = v.tmpActions /\ w.currentAction[c] = [el |-> e.el, tmp |-> FALSE]
          BY <1>4, <4>1
        <5>2. tmp = FALSE
          BY <1>1, <1>8, <4>1
        <5>3. w.currentAction[c].tmp = FALSE
          BY <5>1
        <5> QED
          BY <5>1, <5>2, <5>3
      <4>2. CASE e.type # "Object"
        BY <1>1, <1>4, <1>11, <4>2 DEF tmp
      <4> QED
        BY <4>1, <4>2
    <3> QED
      BY <1>3, <3>1 DEF tmp
  <2>2. e.type # "Object" => w.currentAction = v.currentAction
    BY <1>1, <1>4, <1>11
  <2>3. ASSUME NEW cid \in ClientId, NEW d PROVE Dragged(w, cid, d) <=> Dragged(v, cid, d)
    <3>1. CASE cid = c /\ e.type = "Object"
      BY <1>8, <2>1, <3>1 DEF Dragged, tmp
    <3>2. CASE ~ (cid = c /\ e.type = "Object")
      BY <1>3, <2>2, <3>2 DEF Dragged
    <3> QED
      BY <3>1, <3>2
  <2>4. Screen(w, drags)
    <3>1. CASE Added(v, e) = <<>>
      <4>1. w.increments = v.increments
        BY <1>3, <1>7, <3>1
      <4>2. Painted(w) = Painted(v)
        BY <1>4, <4>1 DEF Painted, Strokes
      <4>3. Final(w) = Final(v)
        BY <2>1, <4>2 DEF Final
      <4> QED
        BY <2>1, <2>3, <4>1, <4>3 DEF Screen
    <3>2. ASSUME NEW x \in Increment, Added(v, e) = <<x>>,
                 IF e.type = "Object" THEN x.el = e.el ELSE x.el \in Els(v.increments)
          PROVE  Screen(w, drags)
      <4>1. x.el \notin Temporary
        BY <3>2 DEF Screen
      <4> QED
        BY <1>3, <1>4, <2>1, <2>3, <3>2, <4>1, ScreenPushed
    <3> QED
      BY <3>1, <3>2, AddedEls
  <2>5. ASSUME NEW cid \in ClientId PROVE Tmp(w, cid) <=> TmpAfter(Tmp(v, cid), e, cid)
    <3>1. CASE cid = c
      <4>1. TmpAfter(tmp, e, c) <=> tmp
        <5>1. Ends(e) => tmp = FALSE
          BY <1>1, <1>8, <1>11 DEF Ends
        <5> QED
          BY <1>1, <1>11, <5>1 DEF TmpAfter
      <4> QED
        BY <2>1, <3>1, <4>1 DEF Tmp, tmp
    <3>2. CASE cid # c
      BY <1>3, <1>8, <3>2 DEF Tmp
    <3> QED
      BY <3>1, <3>2
  <2> QED
    BY <2>4, <2>5
<1>12. Screen(w, drags) /\ \A cid \in ClientId : Tmp(w, cid) <=> TmpAfter(Tmp(v, cid), e, cid)
  BY <1>9, <1>10, <1>11
<1> QED
  BY <1>3, <1>5, <1>12 DEF w

\* The next frame paints the increments and draws the temporary actions.
LEMMA ScreenDrawn ==
  ASSUME NEW v \in Views
  PROVE  LET w == Draw(v) IN
           /\ w.shown = Final(v) /\ w.drawn = Len(w.increments) /\ w.tmpActions = <<>>
           /\ \A drags : Screen(v, drags) => Screen(w, drags)
<1> DEFINE w == Draw(v)
           new == SubSeq(v.increments, v.drawn + 1, Len(v.increments))
<1>1. /\ w \in Views /\ w.increments = v.increments /\ w.currentAction = v.currentAction
  BY DrawnInViews
<1>2. Strokes(v) \in Seq(DrawStep) /\ v.tmpActions \in Seq(DrawStep)
  BY StrokesAre
<1>3. w.shown = After(v.shown, Strokes(v) \o v.tmpActions) /\ w.drawn = Len(v.increments)
      /\ w.tmpActions = <<>> /\ w.drawRequested = FALSE
  <2>1. v \in PageView
    BY DEF Views
  <2> QED
    BY <2>1 DEF Draw, Strokes, PageView
<1> HIDE DEF w
<1>4. w.shown = Final(v)
  BY <1>2, <1>3, AfterBoth DEF Final, Painted
<1>5. Final(w) = w.shown
  <2>1. Strokes(w) = <<>>
    <3>1. v.increments \in Seq(Increment) /\ Len(v.increments) \in Nat
      BY DEF Views, PageView
    <3>2. SubSeq(w.increments, w.drawn + 1, Len(w.increments)) = <<>>
      BY <1>1, <1>3, <3>1
    <3>3. Steps(<<>>) = <<>>
      BY DEF Steps
    <3> QED
      BY <3>2, <3>3 DEF Strokes
  <2> QED
    BY <1>3, <2>1, AfterNone DEF Final, Painted
<1>6. ASSUME NEW drags, Screen(v, drags) PROVE Screen(w, drags)
  <2>1. StepEls(w.tmpActions) = {}
    BY <1>3 DEF StepEls
  <2>2. Final(w) = Final(v)
    BY <1>4, <1>5
  <2> QED
    BY <1>1, <1>6, <2>1, <2>2 DEF Screen, Dragged
<1> QED
  BY <1>1, <1>3, <1>4, <1>6 DEF w

LEMMA ScreenEmpty ==
  \A drags : Screen(EmptyView, drags) /\ \A cid \in ClientId : ~Tmp(EmptyView, cid)
<1>1. /\ EmptyView.shown = {} /\ EmptyView.drawn = 0 /\ EmptyView.tmpActions = <<>>
      /\ EmptyView.increments = <<>> /\ EmptyView.currentAction = [i \in ClientId |-> NoAction]
  BY DEF EmptyView
<1>2. \A cid \in ClientId : ~Tmp(EmptyView, cid) /\ \A d : ~Dragged(EmptyView, cid, d)
  BY <1>1 DEF Tmp, Dragged, NoAction
<1>3. Strokes(EmptyView) = <<>> /\ Steps(<<>>) = <<>>
  <2>1. SubSeq(<<>>, 0 + 1, Len(<<>>)) = <<>>
    OBVIOUS
  <2> QED
    BY <1>1, <2>1 DEF Strokes, Steps
<1>4. Final(EmptyView) = {} /\ Shown(EmptyView.increments) = {}
  BY <1>1, <1>3, AfterNone DEF Final, Painted, Shown
<1>5. StepEls(<<>>) = {} /\ Els(<<>>) = {}
  BY DEF StepEls, Els
<1> QED
  BY <1>1, <1>2, <1>4, <1>5 DEF Screen

----------------------------------------------------------------------------
(***************************************************************************)
(* Whether client cid drags after the first n events, and after all of     *)
(* them, when it drags before (t) or does not; and that it never does when *)
(* an object of it is finished.                                            *)
(***************************************************************************)
Starter(e, cid) == e.id = cid /\ e.type = "Start"

Ender(e, cid) == e.id = cid /\ Ends(e)

DragsUpTo(t, evs, cid, n) ==
  \/ t /\ \A i \in 1..n : ~Ender(evs[i], cid)
  \/ \E i \in 1..n : Starter(evs[i], cid) /\ \A j \in i + 1..n : ~Ender(evs[j], cid)

DragsAfter(t, evs, cid) == DragsUpTo(t, evs, cid, Len(evs))

Tidy(t, evs, cid) ==
  \A n \in 1..Len(evs) :
    evs[n].id = cid /\ evs[n].type = "Object" => ~DragsUpTo(t, evs, cid, n - 1)

LEMMA TmpAfterIs ==
  ASSUME NEW t, NEW e, NEW cid
  PROVE  TmpAfter(t, e, cid) <=> Starter(e, cid) \/ (t /\ ~Ender(e, cid))
<1>1. e.type = "Start" => ~Ends(e)
  BY DEF Ends
<1> QED
  BY <1>1 DEF TmpAfter, Starter, Ender

LEMMA DragsNext ==
  ASSUME NEW t, NEW evs, NEW cid, NEW n \in Nat
  PROVE  /\ DragsUpTo(t, evs, cid, 0) <=> t
         /\ DragsUpTo(t, evs, cid, n + 1) <=> TmpAfter(DragsUpTo(t, evs, cid, n), evs[n + 1], cid)
<1> DEFINE S(i) == Starter(evs[i], cid)
           E(i) == Ender(evs[i], cid)
<1>1. S(n + 1) => ~E(n + 1)
  BY DEF Starter, Ender, Ends
<1>2. \A i : i \in 1..n + 1 <=> i \in 1..n \/ i = n + 1
  OBVIOUS
<1>3. \A i \in 1..n : \A j : j \in i + 1..n + 1 <=> j \in i + 1..n \/ j = n + 1
  OBVIOUS
<1>4. \A j : j \notin n + 1 + 1..n + 1
  OBVIOUS
<1>5. DragsUpTo(t, evs, cid, n + 1) <=>
        \/ t /\ \A i \in 1..n + 1 : ~E(i)
        \/ \E i \in 1..n + 1 : S(i) /\ \A j \in i + 1..n + 1 : ~E(j)
  BY DEF DragsUpTo
<1>6. DragsUpTo(t, evs, cid, n) <=>
        \/ t /\ \A i \in 1..n : ~E(i)
        \/ \E i \in 1..n : S(i) /\ \A j \in i + 1..n : ~E(j)
  BY DEF DragsUpTo
<1>7. TmpAfter(DragsUpTo(t, evs, cid, n), evs[n + 1], cid)
        <=> S(n + 1) \/ (DragsUpTo(t, evs, cid, n) /\ ~E(n + 1))
  BY TmpAfterIs
<1>8. DragsUpTo(t, evs, cid, 0) <=> t
  BY DEF DragsUpTo
<1> HIDE DEF S, E
<1>9. (\A i \in 1..n + 1 : ~E(i)) <=> (\A i \in 1..n : ~E(i)) /\ ~E(n + 1)
  BY <1>2
<1>10. (\E i \in 1..n + 1 : S(i) /\ \A j \in i + 1..n + 1 : ~E(j))
         <=> S(n + 1) \/ ((\E i \in 1..n : S(i) /\ \A j \in i + 1..n : ~E(j)) /\ ~E(n + 1))
  <2>1. ASSUME NEW i \in 1..n
        PROVE  (\A j \in i + 1..n + 1 : ~E(j)) <=> (\A j \in i + 1..n : ~E(j)) /\ ~E(n + 1)
    BY <1>3
  <2>2. \A j \in n + 1 + 1..n + 1 : ~E(j)
    BY <1>4
  <2> QED
    BY <1>2, <2>1, <2>2
<1> QED
  BY <1>1, <1>5, <1>6, <1>7, <1>8, <1>9, <1>10

LEMMA DragsNone ==
  ASSUME NEW t, NEW cid
  PROVE  (DragsAfter(t, <<>>, cid) <=> t) /\ Tidy(t, <<>>, cid)
  BY DEF DragsAfter, DragsUpTo, Tidy

\* One more event at the end ...
LEMMA DragsMore ==
  ASSUME NEW t, NEW evs \in Seq(Event), NEW e \in Event, NEW cid
  PROVE  /\ DragsAfter(t, Append(evs, e), cid) <=> TmpAfter(DragsAfter(t, evs, cid), e, cid)
         /\ Tidy(t, Append(evs, e), cid) <=>
              Tidy(t, evs, cid) /\ (e.id = cid /\ e.type = "Object" => ~DragsAfter(t, evs, cid))
<1> DEFINE n == Len(evs)
           more == Append(evs, e)
<1>1. /\ n \in Nat /\ Len(more) = n + 1 /\ more[n + 1] = e
      /\ \A i \in 1..n : more[i] = evs[i]
  OBVIOUS
<1> HIDE DEF n, more
<1>2. ASSUME NEW m \in 0..n PROVE DragsUpTo(t, more, cid, m) <=> DragsUpTo(t, evs, cid, m)
  <2>1. \A i \in 1..m : more[i] = evs[i]
    BY <1>1
  <2>2. \A i \in 1..m : \A j \in i + 1..m : more[j] = evs[j]
    BY <1>1
  <2> QED
    BY <2>1, <2>2 DEF DragsUpTo
<1>3. DragsUpTo(t, more, cid, n) <=> DragsUpTo(t, evs, cid, n)
  BY <1>1, <1>2
<1>4. DragsUpTo(t, more, cid, n + 1) <=> TmpAfter(DragsUpTo(t, more, cid, n), more[n + 1], cid)
  BY <1>1, DragsNext
<1>5. DragsAfter(t, more, cid) <=> TmpAfter(DragsAfter(t, evs, cid), e, cid)
  BY <1>1, <1>3, <1>4, TmpAfterIs DEF DragsAfter, n
<1> DEFINE Fine(s, i) == s[i].id = cid /\ s[i].type = "Object" => ~DragsUpTo(t, s, cid, i - 1)
<1>6. ASSUME NEW i \in 1..n PROVE Fine(more, i) <=> Fine(evs, i)
  <2>1. i - 1 \in 0..n /\ more[i] = evs[i]
    BY <1>1
  <2> QED
    BY <1>2, <2>1
<1>7. Fine(more, n + 1) <=> (e.id = cid /\ e.type = "Object" => ~DragsAfter(t, evs, cid))
  <2>1. n + 1 - 1 = n
    BY <1>1
  <2> QED
    BY <1>1, <1>3, <2>1 DEF DragsAfter, n
<1>8. (Tidy(t, more, cid) <=> \A i \in 1..n + 1 : Fine(more, i)) /\ (Tidy(t, evs, cid) <=> \A i \in 1..n : Fine(evs, i))
  BY <1>1 DEF Tidy, n
<1> HIDE DEF Fine
<1>9. \A i : i \in 1..n + 1 <=> i \in 1..n \/ i = n + 1
  BY <1>1
<1>10. Tidy(t, more, cid) <=> Tidy(t, evs, cid) /\ (e.id = cid /\ e.type = "Object" => ~DragsAfter(t, evs, cid))
  BY <1>6, <1>7, <1>8, <1>9
<1> QED
  BY <1>5, <1>10 DEF more

\* ... and the first one gone.
LEMMA DragsRest ==
  ASSUME NEW t, NEW evs \in Seq(Event), evs # <<>>, NEW cid
  PROVE  LET s == TmpAfter(t, Head(evs), cid) IN
         /\ DragsAfter(t, evs, cid) <=> DragsAfter(s, Tail(evs), cid)
         /\ Tidy(t, evs, cid) <=>
              /\ Head(evs).id = cid /\ Head(evs).type = "Object" => ~t
              /\ Tidy(s, Tail(evs), cid)
<1> DEFINE n == Len(evs)
           e == Head(evs)
           rest == Tail(evs)
           s == TmpAfter(t, e, cid)
<1>1. /\ n \in Nat /\ n > 0 /\ e = evs[1] /\ Len(rest) = n - 1
      /\ \A i \in 1..n - 1 : rest[i] = evs[i + 1]
  OBVIOUS
<1> HIDE DEF n, rest, e, s
<1>2. ASSUME NEW m \in 0..n - 1 PROVE DragsUpTo(t, evs, cid, m + 1) <=> DragsUpTo(s, rest, cid, m)
  <2> DEFINE S(i) == Starter(evs[i], cid)
             E(i) == Ender(evs[i], cid)
  <2>1. DragsUpTo(t, evs, cid, m + 1) <=>
          \/ t /\ \A i \in 1..m + 1 : ~E(i)
          \/ \E i \in 1..m + 1 : S(i) /\ \A j \in i + 1..m + 1 : ~E(j)
    BY DEF DragsUpTo
  <2>2. DragsUpTo(s, rest, cid, m) <=>
          \/ s /\ \A i \in 1..m : ~E(i + 1)
          \/ \E i \in 1..m : S(i + 1) /\ \A j \in i + 1..m : ~E(j + 1)
    <3>1. \A i \in 1..m : rest[i] = evs[i + 1]
      BY <1>1
    <3>2. \A i \in 1..m : \A j \in i + 1..m : rest[j] = evs[j + 1]
      BY <1>1
    <3> QED
      BY <3>1, <3>2 DEF DragsUpTo
  <2>3. s <=> S(1) \/ (t /\ ~E(1))
    BY <1>1, TmpAfterIs DEF s
  <2> HIDE DEF S, E
  <2>4. (\A i \in 1..m + 1 : ~E(i)) <=> ~E(1) /\ \A i \in 1..m : ~E(i + 1)
    <3>1. ASSUME NEW i \in 1..m + 1, i # 1 PROVE i - 1 \in 1..m /\ (i - 1) + 1 = i
      BY <3>1
    <3>2. \A i \in 1..m : i + 1 \in 1..m + 1
      OBVIOUS
    <3>3. 1 \in 1..m + 1
      OBVIOUS
    <3> QED
      BY <3>1, <3>2, <3>3
  <2>5. ASSUME NEW i \in 0..m
        PROVE  (\A j \in (i + 1) + 1..m + 1 : ~E(j)) <=> \A j \in i + 1..m : ~E(j + 1)
    <3>1. ASSUME NEW j \in (i + 1) + 1..m + 1 PROVE j - 1 \in i + 1..m /\ (j - 1) + 1 = j
      OBVIOUS
    <3>2. \A j \in i + 1..m : j + 1 \in (i + 1) + 1..m + 1
      OBVIOUS
    <3> QED
      BY <3>1, <3>2
  <2>6. (\E i \in 1..m + 1 : S(i) /\ \A j \in i + 1..m + 1 : ~E(j)) <=>
          \/ S(1) /\ \A j \in 1..m : ~E(j + 1)
          \/ \E i \in 1..m : S(i + 1) /\ \A j \in i + 1..m : ~E(j + 1)
    <3>1. ASSUME NEW i \in 1..m + 1, S(i), \A j \in i + 1..m + 1 : ~E(j)
          PROVE  \/ S(1) /\ \A j \in 1..m : ~E(j + 1)
                 \/ \E k \in 1..m : S(k + 1) /\ \A j \in k + 1..m : ~E(j + 1)
      <4>1. i - 1 \in 0..m /\ (i - 1) + 1 = i
        OBVIOUS
      <4>2. \A j \in (i - 1) + 1..m : ~E(j + 1)
        BY <2>5, <3>1, <4>1
      <4>3. CASE i = 1
        BY <3>1, <4>2, <4>3
      <4>4. CASE i # 1
        <5>1. i - 1 \in 1..m
          BY <4>4
        <5> QED
          BY <3>1, <4>1, <4>2, <5>1
      <4> QED
        BY <4>3, <4>4
    <3>2. ASSUME S(1), \A j \in 1..m : ~E(j + 1)
          PROVE  \E i \in 1..m + 1 : S(i) /\ \A j \in i + 1..m + 1 : ~E(j)
      <4>1. 0 \in 0..m /\ 0 + 1 = 1 /\ 1 \in 1..m + 1
        OBVIOUS
      <4>2. \A j \in 1 + 1..m + 1 : ~E(j)
        BY <2>5, <3>2, <4>1
      <4> QED
        BY <3>2, <4>1, <4>2
    <3>3. ASSUME NEW i \in 1..m, S(i + 1), \A j \in i + 1..m : ~E(j + 1)
          PROVE  \E k \in 1..m + 1 : S(k) /\ \A j \in k + 1..m + 1 : ~E(j)
      <4>1. i \in 0..m /\ i + 1 \in 1..m + 1
        OBVIOUS
      <4>2. \A j \in (i + 1) + 1..m + 1 : ~E(j)
        BY <2>5, <3>3, <4>1
      <4> QED
        BY <3>3, <4>1, <4>2
    <3> QED
      BY <3>1, <3>2, <3>3
  <2> QED
    BY <2>1, <2>2, <2>3, <2>4, <2>6
<1>3. DragsAfter(t, evs, cid) <=> DragsAfter(s, rest, cid)
  <2>1. n - 1 \in 0..n - 1 /\ (n - 1) + 1 = n
    BY <1>1
  <2>2. DragsUpTo(t, evs, cid, n) <=> DragsUpTo(s, rest, cid, n - 1)
    BY <1>2, <2>1
  <2> QED
    BY <1>1, <2>2 DEF DragsAfter, n
<1> DEFINE Fine(u, q, i) == q[i].id = cid /\ q[i].type = "Object" => ~DragsUpTo(u, q, cid, i - 1)
<1>4. Fine(t, evs, 1) <=> (e.id = cid /\ e.type = "Object" => ~t)
  <2>1. DragsUpTo(t, evs, cid, 0) <=> t
    BY DragsNext
  <2>2. 1 - 1 = 0
    OBVIOUS
  <2> QED
    BY <1>1, <2>1, <2>2
<1>5. ASSUME NEW i \in 1..n - 1 PROVE Fine(t, evs, i + 1) <=> Fine(s, rest, i)
  <2>1. i - 1 \in 0..n - 1 /\ (i - 1) + 1 = i /\ i + 1 - 1 = i /\ rest[i] = evs[i + 1]
    BY <1>1
  <2>2. DragsUpTo(t, evs, cid, i) <=> DragsUpTo(s, rest, cid, i - 1)
    BY <1>2, <2>1
  <2> QED
    BY <2>1, <2>2
<1>6. (Tidy(t, evs, cid) <=> \A i \in 1..n : Fine(t, evs, i))
      /\ (Tidy(s, rest, cid) <=> \A i \in 1..n - 1 : Fine(s, rest, i))
  BY <1>1 DEF Tidy, n
<1> HIDE DEF Fine
<1>7. (\A i \in 1..n : Fine(t, evs, i)) <=> Fine(t, evs, 1) /\ \A i \in 1..n - 1 : Fine(t, evs, i + 1)
  <2>1. ASSUME NEW i \in 1..n, i # 1 PROVE i - 1 \in 1..n - 1 /\ (i - 1) + 1 = i
    BY <1>1, <2>1
  <2>2. (\A i \in 1..n - 1 : i + 1 \in 1..n) /\ 1 \in 1..n
    BY <1>1
  <2> QED
    BY <2>1, <2>2
<1>8. Tidy(t, evs, cid) <=> (e.id = cid /\ e.type = "Object" => ~t) /\ Tidy(s, rest, cid)
  BY <1>4, <1>5, <1>6, <1>7
<1> QED
  BY <1>3, <1>8 DEF s, e, rest

\* Who does not drag before does not drag more after.
LEMMA DragsLess ==
  ASSUME NEW evs, NEW cid, NEW t
  PROVE  /\ DragsAfter(FALSE, evs, cid) => DragsAfter(t, evs, cid)
         /\ Tidy(t, evs, cid) => Tidy(FALSE, evs, cid)
<1>1. \A n : DragsUpTo(FALSE, evs, cid, n) => DragsUpTo(t, evs, cid, n)
  BY DEF DragsUpTo
<1> QED
  BY <1>1 DEF DragsAfter, Tidy

\* The objects of messages are finished, and what they start is one of drags.
Proper(e, drags) ==
  /\ e.type = "Start" => <<e.id, e.el>> \in drags
  /\ e.type = "Object" => e.el \notin Temporary

AllProper(evs, drags) == \A i \in DOMAIN evs : Proper(evs[i], drags)

LEMMA AstrayGoes ==
  ASSUME NEW v \in Views, NEW e \in Event, v.astray
  PROVE  Handle(v, e).astray
<1>1. CASE v.failed \/ Throws(v, e)
  BY <1>1, EventFailed
<1>2. CASE ~v.failed /\ ~Throws(v, e)
  <2>1. Handle(v, e).astray = (v.astray \/ Unexpected(v, e))
    BY <1>2, EventHandled
  <2> QED
    BY <2>1
<1> QED
  BY <1>1, <1>2

\* A page that goes on as it should, and the clients that drag on it.
OnScreen(v, drags) == v.astray \/ (~v.failed /\ Screen(v, drags))

LEMMA ScreenOnEvent ==
  ASSUME NEW v \in Views, NEW drags, Drags(drags), OnScreen(v, drags), NEW e \in Event,
         Proper(e, drags), e.type = "Object" => ~Tmp(v, e.id)
  PROVE  LET w == Handle(v, e) IN
           /\ w \in Views /\ OnScreen(w, drags)
           /\ ~w.astray =>
                ~v.astray /\ \A cid \in ClientId : Tmp(w, cid) <=> TmpAfter(Tmp(v, cid), e, cid)
<1> DEFINE w == Handle(v, e)
<1>1. w \in Views
  BY AfterInViews
<1>2. CASE w.astray
  BY <1>1, <1>2 DEF OnScreen
<1>3. CASE ~w.astray
  <2>1. ~v.astray
    BY <1>3, AstrayGoes
  <2>2. ~v.failed /\ Screen(v, drags)
    BY <2>1 DEF OnScreen
  <2> QED
    BY <1>3, <2>2, ScreenHandled DEF Proper, OnScreen
<1> QED
  BY <1>2, <1>3

LEMMA ScreenMessage ==
  ASSUME NEW v \in Views, NEW drags, Drags(drags), OnScreen(v, drags),
         NEW own \in ClientId, NEW evs \in Seq(Event), AllProper(evs, drags),
         v.astray \/ \A cid \in ClientId \ {own} : Tidy(Tmp(v, cid), evs, cid)
  PROVE  LET w == HandleAll(v, own, evs) IN
           /\ w \in Views /\ OnScreen(w, drags)
           /\ ~w.astray =>
                /\ ~v.astray
                /\ \A cid \in ClientId \ {own} : Tmp(w, cid) <=> DragsAfter(Tmp(v, cid), evs, cid)
                /\ Tmp(w, own) <=> Tmp(v, own)
<1> DEFINE Same(u, n) ==
             /\ ~v.astray
             /\ \A cid \in ClientId \ {own} : Tmp(u, cid) <=> DragsUpTo(Tmp(v, cid), evs, cid, n)
             /\ Tmp(u, own) <=> Tmp(v, own)
           Good(n) == {u \in Views : OnScreen(u, drags) /\ (~u.astray => Same(u, n))}
           S == [n \in 0..Len(evs) |-> Good(n)]
<1>1. Len(evs) \in Nat /\ DOMAIN evs = 1..Len(evs) /\ \A n \in 1..Len(evs) : evs[n] \in Event
  BY ElementOfSeq
<1>2. v \in Good(0)
  BY DragsNext
<1>3. ASSUME NEW n \in 1..Len(evs), NEW u \in Good(n - 1)
      PROVE  AfterEvent(u, own, evs[n]) \in Good(n)
  <2> DEFINE e == evs[n]
             w == AfterEvent(u, own, e)
  <2>1. e \in Event /\ Proper(e, drags) /\ e.id \in ClientId
    BY <1>1 DEF AllProper, Event
  <2>2. u \in Views /\ OnScreen(u, drags) /\ (~u.astray => Same(u, n - 1))
    BY <1>3
  <2>3. \A cid : DragsUpTo(Tmp(v, cid), evs, cid, n) <=> TmpAfter(DragsUpTo(Tmp(v, cid), evs, cid, n - 1), e, cid)
    <3>1. n - 1 \in Nat /\ (n - 1) + 1 = n
      OBVIOUS
    <3> QED
      BY <3>1, DragsNext
  <2> HIDE DEF e
  <2>4. CASE e.id = own
    <3>1. w = u
      BY <2>4 DEF AfterEvent
    <3>2. Same(u, n - 1) => Same(u, n)
      BY <2>3, <2>4 DEF TmpAfter
    <3> HIDE DEF Same, w
    <3> QED
      BY <2>2, <3>1, <3>2 DEF w, e
  <2>5. CASE e.id # own
    <3>1. w = Handle(u, e)
      BY <2>5 DEF AfterEvent
    <3>2. CASE u.astray
      <4>1. w \in Views /\ w.astray
        BY <2>1, <2>2, <3>1, <3>2, AfterInViews, AstrayGoes
      <4> QED
        BY <4>1 DEF OnScreen, e
    <3>3. CASE ~u.astray
      <4>1. Same(u, n - 1)
        BY <2>2, <3>3
      <4>2. e.type = "Object" => ~Tmp(u, e.id)
        <5>1. e.type = "Object" => ~DragsUpTo(Tmp(v, e.id), evs, e.id, n - 1)
          BY <1>1, <2>1, <2>5, <4>1 DEF Tidy, e
        <5> QED
          BY <2>1, <2>5, <4>1, <5>1
      <4>3. w \in Views /\ OnScreen(w, drags)
            /\ (~w.astray => \A cid \in ClientId : Tmp(w, cid) <=> TmpAfter(Tmp(u, cid), e, cid))
        BY <2>1, <2>2, <3>1, <4>2, ScreenOnEvent
      <4>4. ASSUME ~w.astray PROVE Same(w, n)
        <5>1. ASSUME NEW cid \in ClientId \ {own}
              PROVE  Tmp(w, cid) <=> DragsUpTo(Tmp(v, cid), evs, cid, n)
          <6>1. Tmp(w, cid) <=> TmpAfter(Tmp(u, cid), e, cid)
            BY <4>3, <4>4
          <6>2. Tmp(u, cid) <=> DragsUpTo(Tmp(v, cid), evs, cid, n - 1)
            BY <4>1
          <6> QED
            BY <2>3, <6>1, <6>2 DEF TmpAfter
        <5>2. Tmp(w, own) <=> Tmp(u, own)
          BY <2>5, <4>3, <4>4 DEF TmpAfter
        <5> HIDE DEF w
        <5> QED
          BY <4>1, <5>1, <5>2
      <4> HIDE DEF Same, w
      <4> QED
        BY <4>3, <4>4 DEF w, e
    <3> QED
      BY <3>2, <3>3
  <2> QED
    BY <2>4, <2>5
<1> HIDE DEF Good
<1>4. \A n \in 0..Len(evs) : S[n] = Good(n)
  OBVIOUS
<1> HIDE DEF S
<1>5. v \in S[0] /\ \A n \in 1..Len(evs) : \A u \in S[n - 1] : AfterEvent(u, own, evs[n]) \in S[n]
  BY <1>1, <1>2, <1>3, <1>4
<1>6. HandleAll(v, own, evs) \in S[Len(evs)]
  BY <1>1, <1>5, HandledIn
<1>7. HandleAll(v, own, evs) \in Good(Len(evs))
  BY <1>1, <1>4, <1>6
<1> QED
  BY <1>7 DEF Good, DragsAfter

\* The stored events start nothing.
LEMMA ScreenStored ==
  ASSUME NEW drags, Drags(drags), NEW evs \in Seq(Event), AllProper(evs, drags),
         \A i \in DOMAIN evs : IsStored(evs[i])
  PROVE  LET w == HandleAll(EmptyView, 0, evs) IN
           w \in Views /\ OnScreen(w, drags) /\ (~w.astray => \A cid \in ClientId : ~Tmp(w, cid))
<1> DEFINE Good == {u \in Views : OnScreen(u, drags) /\ (~u.astray => \A cid \in ClientId : ~Tmp(u, cid))}
           S == [n \in 0..Len(evs) |-> Good]
<1>1. Len(evs) \in Nat /\ DOMAIN evs = 1..Len(evs) /\ \A n \in 1..Len(evs) : evs[n] \in Event
  BY ElementOfSeq
<1>2. EmptyView \in Good
  BY EmptyInViews, ScreenEmpty DEF OnScreen
<1>3. ASSUME NEW n \in 1..Len(evs), NEW u \in Good
      PROVE  AfterEvent(u, 0, evs[n]) \in Good
  <2> DEFINE e == evs[n]
             w == Handle(u, e)
  <2>1. e \in Event /\ Proper(e, drags) /\ e.id \in ClientId /\ e.type # "Start"
    BY <1>1 DEF AllProper, Event, IsStored
  <2>2. u \in Views /\ OnScreen(u, drags) /\ AfterEvent(u, 0, e) = w
    BY <2>1, AfterInViews
  <2> HIDE DEF e
  <2>3. CASE u.astray
    <3>1. w \in Views /\ w.astray
      BY <2>1, <2>2, <2>3, AfterInViews, AstrayGoes
    <3> QED
      BY <2>2, <3>1 DEF OnScreen, e
  <2>4. CASE ~u.astray
    <3>1. \A cid \in ClientId : ~Tmp(u, cid)
      BY <2>4
    <3>2. w \in Views /\ OnScreen(w, drags)
          /\ (~w.astray => \A cid \in ClientId : Tmp(w, cid) <=> TmpAfter(Tmp(u, cid), e, cid))
      BY <2>1, <2>2, <3>1, ScreenOnEvent
    <3>3. \A cid \in ClientId : ~TmpAfter(Tmp(u, cid), e, cid)
      BY <2>1, <3>1 DEF TmpAfter
    <3> HIDE DEF w
    <3> QED
      BY <2>2, <3>2, <3>3 DEF e
  <2> QED
    BY <2>3, <2>4
<1> HIDE DEF Good
<1>4. \A n \in 0..Len(evs) : S[n] = Good
  OBVIOUS
<1> HIDE DEF S
<1>5. EmptyView \in S[0] /\ \A n \in 1..Len(evs) : \A u \in S[n - 1] : AfterEvent(u, 0, evs[n]) \in S[n]
  BY <1>1, <1>2, <1>3, <1>4
<1>6. HandleAll(EmptyView, 0, evs) \in S[Len(evs)]
  BY <1>1, <1>5, HandledIn
<1> QED
  BY <1>1, <1>4, <1>6 DEF Good

----------------------------------------------------------------------------
(***************************************************************************)
(* Nobody drags for ever: a client that drags on a page, or on none (t),   *)
(* still does so after what the next frame brings and what it has on its   *)
(* way only when its user does, or when its Cleanup is due.                *)
(***************************************************************************)
Left(cid) == \E r \in Pages : leaving[r] = cid

Settles(t, cid) ==
  LET u == DragsAfter(t, broadcast, cid) IN
  /\ Tidy(t, broadcast, cid)
  /\ \A q \in Pages : live[q] /\ id[q] = cid =>
       /\ Tidy(u, Out[q], cid)
       /\ DragsAfter(u, Out[q], cid) => drag[q] # 0 \/ Left(cid)
  /\ u => Left(cid) \/ \E q \in Pages : live[q] /\ id[q] = cid

TmpInv ==
  /\ \A p \in Pages : live[p] => leaving[p] = 0
  /\ \A cid \in ClientId : Settles(FALSE, cid)
  /\ \A p \in Pages : live[p] => (DragsAfter(FALSE, Out[p], id[p]) => drag[p] # 0)
  /\ \A p \in Pages : live[p] /\ ~view[p].astray =>
       /\ \A cid \in ClientId \ {id[p]} : Settles(Tmp(view[p], cid), cid)
       /\ Tmp(view[p], id[p]) => drag[p] # 0

LEMMA TmpInit ==
  ASSUME Init
  PROVE  TmpInv
<1>1. \A p \in Pages : ~live[p] /\ leaving[p] = 0
  BY DEF Init
<1>2. ASSUME NEW cid \in ClientId PROVE Settles(FALSE, cid)
  <2>1. ~DragsAfter(FALSE, broadcast, cid) /\ Tidy(FALSE, broadcast, cid)
    BY DragsNone DEF Init
  <2> QED
    BY <1>1, <2>1 DEF Settles
<1> QED
  BY <1>1, <1>2 DEF TmpInv

LEMMA OneAppended ==
  ASSUME NEW s \in Seq(Event), NEW e \in Event, NEW f \in Event
  PROVE  /\ s \o <<>> = s /\ s \o <<e>> = Append(s, e) /\ s \o <<e, f>> = Append(Append(s, e), f)
         /\ Append(s, e) \in Seq(Event)
<1>1. s \o <<>> = s /\ s \o <<e>> = Append(s, e) /\ Append(s, e) \in Seq(Event)
  BY AppendIsConcat, ConcatEmptySeq
<1>2. s \o <<e, f>> = Append(Append(s, e), f)
  OBVIOUS
<1> QED
  BY <1>1, <1>2

\* Input: who drags on the way is dragging at the page.
LEMMA DragsOnInput ==
  ASSUME TypeInv, TypeInv', QueueInv, NEW p \in Pages, NEW evs, InputOf(p, evs),
         \A i \in DOMAIN evs : evs[i].id = id[p], NEW t
  PROVE  LET o == Out[p]
             cid == id[p]
         IN /\ Tidy(t, o, cid) => Tidy(t, o \o evs, cid)
            /\ DragsAfter(t, o \o evs, cid) =>
                 drag'[p] # 0 \/ (DragsAfter(t, o, cid) /\ drag'[p] = drag[p])
<1> DEFINE o == Out[p]
           cid == id[p]
<1>1. o \in Seq(Event) /\ inputs \in Nat
  BY OutIs DEF TypeInv
<1> DEFINE Goal == /\ Tidy(t, o, cid) => Tidy(t, o \o evs, cid)
                   /\ DragsAfter(t, o \o evs, cid) =>
                        drag'[p] # 0 \/ (DragsAfter(t, o, cid) /\ drag'[p] = drag[p])
<1> HIDE DEF o
<1>2. CASE evs = <<>> /\ drag'[p] = drag[p]
  <2>1. o \o evs = o
    BY <1>1, <1>2, ConcatEmptySeq
  <2> QED
    BY <1>2, <2>1 DEF o
<1>3. ASSUME NEW e \in Event, evs = <<e>>, Starting(p, e) \/ Changing(p, e) \/ Cancelling(p, e)
      PROVE  Goal
  <2>1. e.id = cid /\ o \o evs = Append(o, e)
    BY <1>1, <1>3, OneAppended
  <2>2. e.type # "Object"
    BY <1>3 DEF Starting, Changing, Cancelling
  <2>3. TmpAfter(DragsAfter(t, o, cid), e, cid) =>
          drag'[p] # 0 \/ (DragsAfter(t, o, cid) /\ drag'[p] = drag[p])
    <3>1. Starting(p, e) => drag'[p] # 0
      BY <1>1 DEF Starting
    <3>2. Changing(p, e) => drag'[p] = drag[p] /\ e.type # "Start"
      BY DEF Changing
    <3>3. Cancelling(p, e) => ~TmpAfter(DragsAfter(t, o, cid), e, cid)
      BY <2>1 DEF Cancelling, TmpAfter, Ends
    <3> QED
      BY <1>3, <2>1, <3>1, <3>2, <3>3 DEF TmpAfter
  <2> QED
    BY <1>1, <2>1, <2>2, <2>3, DragsMore
<1>4. ASSUME NEW e \in Event, NEW f \in Event, evs = <<e, f>>, Finishing(p, e, f)
      PROVE  Goal
  <2>1. e.id = cid /\ f.id = cid /\ o \o evs = Append(Append(o, e), f) /\ Append(o, e) \in Seq(Event)
    <3>1. 1 \in DOMAIN evs /\ 2 \in DOMAIN evs /\ evs[1] = e /\ evs[2] = f
      BY <1>4
    <3> QED
      BY <1>1, <1>4, <3>1, OneAppended
  <2>2. e.type = "Cancel" /\ f.type = "Object"
    BY <1>4 DEF Finishing, Cancelling
  <2>3. ~DragsAfter(t, Append(o, e), cid) /\ (Tidy(t, o, cid) => Tidy(t, Append(o, e), cid))
    BY <1>1, <2>1, <2>2, DragsMore DEF TmpAfter, Ends
  <2>4. ~DragsAfter(t, Append(Append(o, e), f), cid)
        /\ (Tidy(t, o, cid) => Tidy(t, Append(Append(o, e), f), cid))
    BY <2>1, <2>2, <2>3, DragsMore DEF TmpAfter, Ends
  <2> QED
    BY <2>1, <2>4
<1>5. Goal
  BY <1>2, <1>3, <1>4 DEF InputOf, o
<1> QED
  BY <1>5 DEF o

LEMMA SettlesInput ==
  ASSUME TypeInv, TypeInv', QueueInv, AgreeInv, NEW p \in Pages, NEW evs, Adds(p, evs), InputOf(p, evs),
         NEW t, NEW cid \in ClientId, Settles(t, cid)
  PROVE  Settles(t, cid)'
<1>1. /\ evs \in Seq(Event) /\ (\A i \in DOMAIN evs : evs[i].id = id[p]) /\ live[p]
      /\ live' = live /\ id' = id /\ broadcast' = broadcast /\ leaving' = leaving
      /\ \A q \in Pages \ {p} : drag'[q] = drag[q]
  BY DEF Adds, serverVars
<1>2. Out'[p] = Out[p] \o evs /\ \A q \in Pages \ {p} : Out'[q] = Out[q]
  BY OutAdded
<1> DEFINE u == DragsAfter(t, broadcast, cid)
<1>3. Left(cid)' <=> Left(cid)
  BY <1>1 DEF Left
<1>4. ASSUME NEW q \in Pages, live'[q], id'[q] = cid
      PROVE  /\ Tidy(u, Out'[q], cid)
             /\ DragsAfter(u, Out'[q], cid) => drag'[q] # 0 \/ Left(cid)'
  <2>1. Tidy(u, Out[q], cid) /\ (DragsAfter(u, Out[q], cid) => drag[q] # 0 \/ Left(cid))
    BY <1>1, <1>4 DEF Settles
  <2> HIDE DEF u
  <2>2. CASE q = p
    <3>1. /\ Tidy(u, Out[p], cid) => Tidy(u, Out[p] \o evs, cid)
          /\ DragsAfter(u, Out[p] \o evs, cid) =>
               drag'[p] # 0 \/ (DragsAfter(u, Out[p], cid) /\ drag'[p] = drag[p])
      BY <1>1, <1>4, <2>2, DragsOnInput
    <3> QED
      BY <1>2, <1>3, <2>1, <2>2, <3>1
  <2>3. CASE q # p
    BY <1>1, <1>2, <1>3, <2>1, <2>3
  <2> QED
    BY <2>2, <2>3
<1> QED
  BY <1>1, <1>3, <1>4 DEF Settles

----------------------------------------------------------------------------
(***************************************************************************)
(* What is on the screens, for some drags that clients may be at; and who  *)
(* has something to draw has asked for a frame or will.                    *)
(***************************************************************************)
OnScreens(drags) ==
  /\ Drags(drags) /\ \A h \in drags : h[2] <= inputs
  /\ AllProper(saved, drags) /\ AllProper(broadcast, drags)
  /\ \A p \in Pages : AllProper(Out[p], drags) /\ OnScreen(view[p], drags)

ScreenInv == inputs >= OldObjects /\ \E drags : OnScreens(drags)

IsDrawn(v) == v.drawn = Len(v.increments) /\ v.tmpActions = <<>>

RequestInv ==
  \A p \in Pages :
    live[p] /\ ~view[p].astray /\ ~view[p].drawRequested /\ building[p] = <<>> => IsDrawn(view[p])

LEMMA MoreDrags ==
  ASSUME NEW drags, NEW more, drags \subseteq more
  PROVE  /\ \A evs : AllProper(evs, drags) => AllProper(evs, more)
         /\ \A v : OnScreen(v, drags) => OnScreen(v, more)
BY DEF AllProper, Proper, OnScreen, Screen

LEMMA AllProperBoth ==
  ASSUME NEW s \in Seq(Event), NEW t \in Seq(Event), NEW drags
  PROVE  AllProper(s \o t, drags) <=> AllProper(s, drags) /\ AllProper(t, drags)
<1> DEFINE u == s \o t
           m == Len(s)
           n == Len(t)
<1>1. /\ m \in Nat /\ n \in Nat /\ DOMAIN s = 1..m /\ DOMAIN t = 1..n /\ DOMAIN u = 1..m + n
      /\ \A i \in 1..m : u[i] = s[i]
      /\ \A i \in 1..n : u[m + i] = t[i]
  OBVIOUS
<1> HIDE DEF u, m, n
<1>2. ASSUME NEW i \in 1..m + n PROVE i \in 1..m \/ (i - m \in 1..n /\ m + (i - m) = i)
  BY <1>1
<1>3. (\A i \in 1..m : i \in 1..m + n) /\ (\A i \in 1..n : m + i \in 1..m + n)
  BY <1>1
<1>4. ASSUME AllProper(s, drags), AllProper(t, drags), NEW i \in 1..m + n PROVE Proper(u[i], drags)
  <2>1. CASE i \in 1..m
    BY <1>1, <1>4, <2>1 DEF AllProper
  <2>2. CASE i - m \in 1..n /\ m + (i - m) = i
    <3>1. u[i] = t[i - m]
      BY <1>1, <2>2
    <3> QED
      BY <1>1, <1>4, <2>2, <3>1 DEF AllProper
  <2> QED
    BY <1>2, <2>1, <2>2
<1>5. ASSUME AllProper(u, drags) PROVE AllProper(s, drags) /\ AllProper(t, drags)
  <2>1. \A i \in 1..m : Proper(s[i], drags)
    BY <1>1, <1>3, <1>5 DEF AllProper
  <2>2. \A i \in 1..n : Proper(t[i], drags)
    BY <1>1, <1>3, <1>5 DEF AllProper
  <2> QED
    BY <1>1, <2>1, <2>2 DEF AllProper
<1>6. AllProper(u, drags) <=> AllProper(s, drags) /\ AllProper(t, drags)
  BY <1>1, <1>4, <1>5 DEF AllProper
<1> QED
  BY <1>6 DEF u

LEMMA AllProperOne ==
  ASSUME NEW s \in Seq(Event), NEW e \in Event, NEW drags
  PROVE  /\ AllProper(Append(s, e), drags) <=> AllProper(s, drags) /\ Proper(e, drags)
         /\ AllProper(<<>>, drags)
         /\ AllProper(<<e>>, drags) <=> Proper(e, drags)
<1> DEFINE t == <<e>>
<1>1. t \in Seq(Event) /\ DOMAIN t = {1} /\ t[1] = e /\ Append(s, e) = s \o t
  BY AppendIsConcat
<1> HIDE DEF t
<1>2. AllProper(t, drags) <=> Proper(e, drags)
  BY <1>1 DEF AllProper
<1>3. AllProper(Append(s, e), drags) <=> AllProper(s, drags) /\ Proper(e, drags)
  BY <1>1, <1>2, AllProperBoth
<1>4. AllProper(<<>>, drags)
  BY DEF AllProper
<1> QED
  BY <1>2, <1>3, <1>4 DEF t

LEMMA AllProperRest ==
  ASSUME NEW s \in Seq(Event), s # <<>>, NEW drags, AllProper(s, drags)
  PROVE  Proper(Head(s), drags) /\ AllProper(Tail(s), drags)
<1> DEFINE h == Head(s)
           t == Tail(s)
<1>1. h \in Event /\ t \in Seq(Event) /\ s = <<h>> \o t /\ <<h>> \in Seq(Event) /\ <<>> \in Seq(Event)
  OBVIOUS
<1> HIDE DEF h, t
<1>2. AllProper(<<h>>, drags) /\ AllProper(t, drags)
  <2>1. AllProper(<<h>> \o t, drags)
    BY <1>1
  <2> QED
    BY <1>1, <2>1, AllProperBoth
<1> QED
  BY <1>1, <1>2, AllProperOne DEF h, t

\* The drag that an input starts is a new one.
LEMMA InputProper ==
  ASSUME TypeInv, NEW p \in Pages, NEW evs, InputOf(p, evs), \A i \in DOMAIN evs : evs[i].id = id[p],
         inputs' \in {inputs, inputs + 1}, inputs >= OldObjects,
         NEW drags, Drags(drags), \A h \in drags : h[2] <= inputs
  PROVE  \E more : /\ drags \subseteq more /\ Drags(more) /\ \A h \in more : h[2] <= inputs'
                   /\ AllProper(evs, more)
<1>1. /\ inputs \in Nat /\ inputs' \in Nat /\ inputs <= inputs' /\ drag[p] \in Nat
      /\ OldObjects \in Nat /\ MaxInputs \in Nat /\ <<>> \in Seq(Event)
  BY OldObjectsAssumption, BoundsAssumption DEF TypeInv
<1>2. \A h \in drags : h[2] \in Nat /\ h[2] <= inputs'
  BY <1>1 DEF Drags, Temporary
<1>3. CASE evs = <<>>
  <2>1. AllProper(evs, drags)
    BY <1>3 DEF AllProper
  <2> QED
    BY <1>2, <2>1
<1>4. ASSUME NEW e \in Event, evs = <<e>>, Starting(p, e)
      PROVE  \E more : /\ drags \subseteq more /\ Drags(more) /\ \A h \in more : h[2] <= inputs'
                       /\ AllProper(evs, more)
  <2> DEFINE k == <<e.id, e.el>>
             more == drags \union {k}
  <2>1. k[1] = e.id /\ k[2] = inputs + 1 /\ inputs' = inputs + 1 /\ inputs + 1 \in Temporary
    BY <1>1, <1>4 DEF Starting, Temporary
  <2>2. \A h \in drags : h[2] # k[2]
    BY <1>1, <1>2, <2>1
  <2>3. k \in more /\ \A h \in more : h \in drags \/ h = k
    OBVIOUS
  <2>4. Proper(e, more)
    BY <1>4, <2>3 DEF Proper, Starting
  <2> HIDE DEF more, k
  <2>5. Drags(more)
    BY <2>1, <2>2, <2>3 DEF Drags
  <2>6. \A h \in more : h[2] <= inputs'
    BY <1>1, <1>2, <2>1, <2>3
  <2>7. AllProper(evs, more)
    BY <1>1, <1>4, <2>4, AllProperOne
  <2>8. drags \subseteq more
    BY DEF more
  <2> QED
    BY <2>5, <2>6, <2>7, <2>8
<1>5. ASSUME NEW e \in Event, evs = <<e>>, Changing(p, e) \/ Cancelling(p, e)
      PROVE  AllProper(evs, drags)
  <2>1. Proper(e, drags)
    BY <1>5 DEF Proper, Changing, Cancelling
  <2> QED
    BY <1>1, <1>5, <2>1, AllProperOne
<1>6. ASSUME NEW e \in Event, NEW f \in Event, evs = <<e, f>>, Finishing(p, e, f)
      PROVE  AllProper(evs, drags)
  <2>1. f.el \notin Temporary
    BY <1>1, <1>6 DEF Finishing, Cancelling, Temporary
  <2>2. Proper(e, drags) /\ Proper(f, drags)
    BY <1>6, <2>1 DEF Proper, Finishing, Cancelling
  <2>3. evs = Append(<<e>>, f) /\ <<e>> \in Seq(Event)
    BY <1>6
  <2> QED
    BY <1>1, <2>2, <2>3, AllProperOne
<1> QED
  BY <1>2, <1>3, <1>4, <1>5, <1>6 DEF InputOf

\* What a page echoes.
LEMMA InputSeen ==
  ASSUME TypeInv, TypeInv', NEW p \in Pages, live[p], NEW evs, InputOf(p, evs),
         \A i \in DOMAIN evs : evs[i].id = id[p], TmpInv,
         NEW drags, Drags(drags), OnScreen(view[p], drags), AllProper(evs, drags)
  PROVE  LET w == Echoed(p, evs) IN
           /\ w \in Views /\ OnScreen(w, drags)
           /\ ~w.astray =>
                /\ ~view[p].astray
                /\ \A cid \in ClientId \ {id[p]} : Tmp(w, cid) <=> Tmp(view[p], cid)
                /\ Tmp(w, id[p]) => drag'[p] # 0
<1> DEFINE v == view[p]
           own == id[p]
           w == Echoed(p, evs)
           Goal == /\ w \in Views /\ OnScreen(w, drags)
                   /\ ~w.astray =>
                        /\ ~v.astray
                        /\ \A cid \in ClientId \ {own} : Tmp(w, cid) <=> Tmp(v, cid)
                        /\ Tmp(w, own) => drag'[p] # 0
<1>1. v \in Views /\ own \in ClientId /\ inputs \in Nat /\ <<>> \in Seq(Event)
      /\ (~v.astray => (Tmp(v, own) => drag[p] # 0))
  BY DEF TypeInv, TmpInv
<1>2. w = HandleAll(v, 0, evs)
  BY DEF Echoed
<1> HIDE DEF v, own, w
<1>3. ASSUME evs = <<>>, drag'[p] = drag[p]
      PROVE  Goal
  <2>1. w = v
    BY <1>1, <1>2, <1>3, FewHandled
  <2> QED
    BY <1>1, <1>3, <2>1 DEF v, own, w
<1>4. ASSUME NEW e \in Event, evs = <<e>>, Starting(p, e) \/ Changing(p, e) \/ Cancelling(p, e)
      PROVE  Goal
  <2>1. w = Handle(v, e)
    BY <1>1, <1>2, <1>4, FewHandled
  <2>2. e.id = own /\ Proper(e, drags) /\ e.type # "Object"
    <3>1. 1 \in DOMAIN evs /\ evs[1] = e
      BY <1>4
    <3>2. e.type # "Object"
      BY <1>4 DEF Starting, Changing, Cancelling
    <3> QED
      BY <3>1, <3>2 DEF own, AllProper
  <2>3. /\ w \in Views /\ OnScreen(w, drags)
        /\ ~w.astray => ~v.astray /\ \A cid \in ClientId : Tmp(w, cid) <=> TmpAfter(Tmp(v, cid), e, cid)
    <3>1. OnScreen(v, drags)
      BY DEF v
    <3> QED
      BY <1>1, <2>1, <2>2, <3>1, ScreenOnEvent
  <2>4. ASSUME ~w.astray, Tmp(w, own) PROVE drag'[p] # 0
    <3>1. TmpAfter(Tmp(v, own), e, own) /\ (Tmp(v, own) => drag[p] # 0)
      BY <1>1, <2>3, <2>4
    <3>2. Starting(p, e) => drag'[p] # 0
      BY <1>1 DEF Starting
    <3>3. Changing(p, e) => drag'[p] = drag[p] /\ Tmp(v, own)
      BY <3>1 DEF Changing, TmpAfter
    <3>4. ~Cancelling(p, e)
      BY <2>2, <3>1 DEF Cancelling, TmpAfter, Ends
    <3> QED
      BY <1>4, <3>1, <3>2, <3>3, <3>4
  <2>5. \A cid \in ClientId \ {own} : TmpAfter(Tmp(v, cid), e, cid) <=> Tmp(v, cid)
    BY <2>2 DEF TmpAfter
  <2> QED
    BY <2>3, <2>4, <2>5
<1>5. ASSUME NEW e \in Event, NEW f \in Event, evs = <<e, f>>, Finishing(p, e, f)
      PROVE  Goal
  <2> DEFINE u == Handle(v, e)
  <2>1. w = Handle(u, f)
    BY <1>1, <1>2, <1>5, FewHandled
  <2>2. e.id = own /\ f.id = own /\ Proper(e, drags) /\ Proper(f, drags) /\ e.type = "Cancel" /\ f.type = "Object"
    <3>1. 1 \in DOMAIN evs /\ evs[1] = e /\ 2 \in DOMAIN evs /\ evs[2] = f
      BY <1>5
    <3>2. e.type = "Cancel" /\ f.type = "Object"
      BY <1>5 DEF Finishing, Cancelling
    <3> QED
      BY <3>1, <3>2 DEF own, AllProper
  <2>3. /\ u \in Views /\ OnScreen(u, drags)
        /\ ~u.astray => ~v.astray /\ \A cid \in ClientId : Tmp(u, cid) <=> TmpAfter(Tmp(v, cid), e, cid)
    <3>1. OnScreen(v, drags)
      BY DEF v
    <3> QED
      BY <1>1, <2>2, <3>1, ScreenOnEvent
  <2> HIDE DEF u
  <2>4. CASE u.astray
    <3>1. w \in Views /\ w.astray
      BY <2>1, <2>3, <2>4, AfterInViews, AstrayGoes
    <3> QED
      BY <3>1 DEF OnScreen
  <2>5. CASE ~u.astray
    <3>1. ~Tmp(u, own) /\ ~v.astray
      BY <1>1, <2>2, <2>3, <2>5 DEF TmpAfter, Ends
    <3>2. /\ w \in Views /\ OnScreen(w, drags)
          /\ ~w.astray => \A cid \in ClientId : Tmp(w, cid) <=> TmpAfter(Tmp(u, cid), f, cid)
      BY <2>1, <2>2, <2>3, <3>1, ScreenOnEvent
    <3>3. \A cid \in ClientId \ {own} : /\ TmpAfter(Tmp(v, cid), e, cid) <=> Tmp(v, cid)
                                        /\ TmpAfter(Tmp(u, cid), f, cid) <=> Tmp(u, cid)
      BY <2>2 DEF TmpAfter
    <3>4. ~TmpAfter(Tmp(u, own), f, own)
      BY <2>2, <3>1 DEF TmpAfter, Ends
    <3> QED
      BY <1>1, <2>3, <2>5, <3>1, <3>2, <3>3, <3>4
  <2> QED
    BY <2>4, <2>5
<1>6. Goal
  BY <1>3, <1>4, <1>5 DEF InputOf, v, own
<1> QED
  BY <1>6 DEF v, own, w

----------------------------------------------------------------------------
LEMMA SameScreen ==
  ASSUME NEW v, NEW w, w.increments = v.increments, w.drawn = v.drawn, w.tmpActions = v.tmpActions,
         w.currentAction = v.currentAction, w.shown = v.shown
  PROVE  /\ \A drags : Screen(w, drags) <=> Screen(v, drags)
         /\ \A cid : Tmp(w, cid) <=> Tmp(v, cid)
         /\ IsDrawn(w) <=> IsDrawn(v)
<1>1. Final(w) = Final(v)
  BY DEF Final, Painted, Strokes
<1> QED
  BY <1>1 DEF Screen, Dragged, Tmp, IsDrawn

\* An echo, and the request for a frame when the message is sent.
LEMMA InputEchoed ==
  ASSUME TypeInv, NEW p \in Pages, NEW evs, Adds(p, evs)
  PROVE  /\ \A q \in Pages \ {p} : view'[q] = view[q]
         /\ view'[p].astray = Echoed(p, evs).astray
         /\ \A drags : OnScreen(Echoed(p, evs), drags) => OnScreen(view'[p], drags)
         /\ \A cid : Tmp(view'[p], cid) <=> Tmp(Echoed(p, evs), cid)
         /\ view'[p].drawRequested \/ (AddEvents(p, evs) /\ view'[p] = Echoed(p, evs))
<1> DEFINE u == Echoed(p, evs)
           w == [u EXCEPT !.drawRequested = TRUE]
<1>1. u \in Views /\ view \in [Pages -> Views]
  BY AllHandled DEF TypeInv, Echoed, Adds
<1> HIDE DEF u
<1>2. /\ w.increments = u.increments /\ w.drawn = u.drawn /\ w.tmpActions = u.tmpActions
      /\ w.currentAction = u.currentAction /\ w.shown = u.shown
      /\ w.failed = u.failed /\ w.astray = u.astray /\ w.drawRequested = TRUE
  BY <1>1 DEF Views, PageView
<1>3. view' = [view EXCEPT ![p] = w] \/ (AddEvents(p, evs) /\ view' = [view EXCEPT ![p] = u])
  BY DEF Adds, SendEvents, AddEvents, u
<1> HIDE DEF w
<1>4. (\A drags : Screen(w, drags) <=> Screen(u, drags)) /\ \A cid : Tmp(w, cid) <=> Tmp(u, cid)
  BY <1>2, SameScreen
<1>5. \A drags : OnScreen(u, drags) => OnScreen(w, drags)
  BY <1>2, <1>4 DEF OnScreen
<1>6. CASE view' = [view EXCEPT ![p] = w]
  BY <1>1, <1>2, <1>4, <1>5, <1>6 DEF u
<1>7. CASE AddEvents(p, evs) /\ view' = [view EXCEPT ![p] = u]
  BY <1>1, <1>7 DEF u
<1> QED
  BY <1>3, <1>6, <1>7

LEMMA DragsSame ==
  ASSUME NEW s, NEW t, s <=> t, NEW cid
  PROVE  \A evs : /\ DragsAfter(s, evs, cid) <=> DragsAfter(t, evs, cid)
                  /\ Tidy(s, evs, cid) <=> Tidy(t, evs, cid)
<1>1. \A evs, n : DragsUpTo(s, evs, cid, n) <=> DragsUpTo(t, evs, cid, n)
  BY DEF DragsUpTo
<1> QED
  BY <1>1 DEF DragsAfter, Tidy

LEMMA SettlesSame ==
  ASSUME NEW s, NEW t, s <=> t, NEW cid, Settles(s, cid)
  PROVE  Settles(t, cid)
<1> DEFINE u == DragsAfter(s, broadcast, cid)
           x == DragsAfter(t, broadcast, cid)
<1>1. (u <=> x) /\ (Tidy(s, broadcast, cid) <=> Tidy(t, broadcast, cid))
  BY DragsSame
<1>2. /\ Tidy(s, broadcast, cid)
      /\ \A q \in Pages : live[q] /\ id[q] = cid =>
           /\ Tidy(u, Out[q], cid)
           /\ DragsAfter(u, Out[q], cid) => drag[q] # 0 \/ Left(cid)
      /\ u => Left(cid) \/ \E q \in Pages : live[q] /\ id[q] = cid
  BY DEF Settles
<1> HIDE DEF u
<1>3. /\ Tidy(t, broadcast, cid)
      /\ \A q \in Pages : live[q] /\ id[q] = cid =>
           /\ Tidy(x, Out[q], cid)
           /\ DragsAfter(x, Out[q], cid) => drag[q] # 0 \/ Left(cid)
      /\ x => Left(cid) \/ \E q \in Pages : live[q] /\ id[q] = cid
  <2> HIDE DEF x
  <2> QED
    BY <1>1, <1>2, DragsSame
<1> QED
  BY <1>3 DEF Settles

LEMMA ScreensInput ==
  ASSUME TypeInv, TypeInv', DragInv, QueueInv, AgreeInv, TmpInv, ScreenInv, RequestInv,
         NEW p \in Pages, NEW evs, Adds(p, evs), InputOf(p, evs)
  PROVE  TmpInv' /\ ScreenInv' /\ RequestInv'
<1>1. /\ evs \in Seq(Event) /\ (\A i \in DOMAIN evs : evs[i].id = id[p]) /\ live[p]
      /\ live' = live /\ id' = id /\ broadcast' = broadcast /\ saved' = saved /\ leaving' = leaving
      /\ inputs' \in {inputs, inputs + 1} /\ \A q \in Pages \ {p} : drag'[q] = drag[q]
  BY DEF Adds, serverVars
<1>2. Out'[p] = Out[p] \o evs /\ \A q \in Pages \ {p} : Out'[q] = Out[q]
  BY OutAdded
<1>3. PICK drags : OnScreens(drags)
  BY DEF ScreenInv
<1>4. PICK more : /\ drags \subseteq more /\ Drags(more) /\ \A h \in more : h[2] <= inputs'
                  /\ AllProper(evs, more)
  BY <1>1, <1>3, InputProper DEF OnScreens, ScreenInv
<1>5. /\ AllProper(saved, more) /\ AllProper(broadcast, more)
      /\ \A q \in Pages : AllProper(Out[q], more) /\ OnScreen(view[q], more)
  BY <1>3, <1>4, MoreDrags DEF OnScreens
<1> DEFINE w == Echoed(p, evs)
<1>6. /\ w \in Views /\ OnScreen(w, more)
      /\ ~w.astray =>
           /\ ~view[p].astray
           /\ \A cid \in ClientId \ {id[p]} : Tmp(w, cid) <=> Tmp(view[p], cid)
           /\ Tmp(w, id[p]) => drag'[p] # 0
  BY <1>1, <1>4, <1>5, InputSeen
<1>7. /\ \A q \in Pages \ {p} : view'[q] = view[q]
      /\ view'[p].astray = w.astray /\ OnScreen(view'[p], more)
      /\ \A cid : Tmp(view'[p], cid) <=> Tmp(w, cid)
      /\ view'[p].drawRequested \/ (AddEvents(p, evs) /\ view'[p] = w)
  BY <1>6, InputEchoed
<1> HIDE DEF w
<1>8. ScreenInv'
  <2>1. ASSUME NEW q \in Pages PROVE AllProper(Out'[q], more) /\ OnScreen(view'[q], more)
    <3>1. CASE q = p
      <4>1. AllProper(Out[p] \o evs, more)
        BY <1>1, <1>4, <1>5, OutIs, AllProperBoth
      <4> QED
        BY <1>2, <1>7, <3>1, <4>1
    <3>2. CASE q # p
      BY <1>2, <1>5, <1>7, <3>2
    <3> QED
      BY <3>1, <3>2
  <2>2. OnScreens(more)'
    BY <1>1, <1>4, <1>5, <2>1 DEF OnScreens
  <2>3. inputs' >= OldObjects
    BY <1>1, OldObjectsAssumption DEF ScreenInv, TypeInv
  <2> QED
    BY <2>2, <2>3 DEF ScreenInv
<1>9. TmpInv'
  <2>1. ASSUME NEW q \in Pages, live'[q] PROVE leaving'[q] = 0
    BY <1>1, <2>1 DEF TmpInv
  <2>2. ASSUME NEW cid \in ClientId PROVE Settles(FALSE, cid)'
    <3>1. Settles(FALSE, cid)
      BY DEF TmpInv
    <3> QED
      BY <3>1, SettlesInput
  <2>3. ASSUME NEW q \in Pages, live'[q] PROVE DragsAfter(FALSE, Out'[q], id'[q]) => drag'[q] # 0
    <3>1. DragsAfter(FALSE, Out[q], id[q]) => drag[q] # 0
      BY <1>1, <2>3 DEF TmpInv
    <3>2. CASE q = p
      <4>1. DragsAfter(FALSE, Out[p] \o evs, id[p]) =>
              drag'[p] # 0 \/ (DragsAfter(FALSE, Out[p], id[p]) /\ drag'[p] = drag[p])
        BY <1>1, DragsOnInput
      <4> QED
        BY <1>1, <1>2, <3>1, <3>2, <4>1
    <3>3. CASE q # p
      BY <1>1, <1>2, <3>1, <3>3
    <3> QED
      BY <3>2, <3>3
  <2>4. ASSUME NEW q \in Pages, live'[q], ~view'[q].astray
        PROVE  /\ \A cid \in ClientId \ {id'[q]} : Settles(Tmp(view[q], cid), cid)'
               /\ Tmp(view'[q], id'[q]) => drag'[q] # 0
    <3>1. /\ ~view[q].astray /\ live[q]
          /\ \A cid \in ClientId \ {id[q]} : Tmp(view'[q], cid) <=> Tmp(view[q], cid)
          /\ Tmp(view'[q], id[q]) => drag'[q] # 0
      <4>1. CASE q = p
        BY <1>1, <1>6, <1>7, <2>4, <4>1
      <4>2. CASE q # p
        BY <1>1, <1>7, <2>4, <4>2 DEF TmpInv
      <4> QED
        BY <4>1, <4>2
    <3>2. ASSUME NEW cid \in ClientId \ {id[q]} PROVE Settles(Tmp(view[q], cid), cid)'
      <4> DEFINE t == Tmp(view'[q], cid)
      <4>1. Settles(t, cid)
        <5>1. Settles(Tmp(view[q], cid), cid)
          BY <3>1 DEF TmpInv
        <5> QED
          BY <3>1, <5>1, SettlesSame
      <4> QED
        BY <4>1, SettlesInput
    <3> QED
      BY <1>1, <3>1, <3>2
  <2> QED
    BY <2>1, <2>2, <2>3, <2>4 DEF TmpInv
<1>10. RequestInv'
  <2> SUFFICES ASSUME NEW q \in Pages, live'[q], ~view'[q].astray, ~view'[q].drawRequested, building'[q] = <<>>
               PROVE  IsDrawn(view'[q])
    BY DEF RequestInv
  <2>1. CASE q = p
    <3>1. AddEvents(p, evs) /\ view'[p] = w
      BY <1>7, <2>1
    <3>2. building' = [building EXCEPT ![p] = building[p] \o evs] /\ building \in [Pages -> AllEvents]
      BY <3>1 DEF AddEvents, TypeInv
    <3>3. building[p] = <<>> /\ evs = <<>>
      <4> DEFINE b == building[p]
      <4>1. b \o evs = <<>> /\ b \in Seq(Event)
        BY <2>1, <3>2 DEF AllEvents
      <4> HIDE DEF b
      <4>2. b = <<>> /\ evs = <<>>
        BY <1>1, <4>1
      <4> QED
        BY <4>2 DEF b
    <3>4. w = view[p]
      BY <3>3, FewHandled DEF w, Echoed, TypeInv
    <3> QED
      BY <1>1, <2>1, <3>1, <3>3, <3>4 DEF RequestInv
  <2>2. CASE q # p
    <3>1. view'[q] = view[q] /\ building'[q] = building[q]
      BY <1>7, <2>2 DEF Adds, SendEvents, AddEvents, TypeInv
    <3> QED
      BY <1>1, <3>1 DEF RequestInv
  <2> QED
    BY <2>1, <2>2
<1> QED
  BY <1>8, <1>9, <1>10

\* What a step must keep for who drags on the pages.
LEMMA TmpKept ==
  ASSUME TmpInv,
         \A cid \in ClientId : \A t : Settles(t, cid) => Settles(t, cid)',
         \A q \in Pages : live'[q] =>
           leaving'[q] = 0 /\ (DragsAfter(FALSE, Out'[q], id'[q]) => drag'[q] # 0),
         \A q \in Pages : live'[q] /\ ~view'[q].astray =>
           /\ \A cid \in ClientId \ {id'[q]} : Tmp(view'[q], cid) =>
                live[q] /\ id[q] = id'[q] /\ ~view[q].astray /\ Tmp(view[q], cid)
           /\ Tmp(view'[q], id'[q]) => drag'[q] # 0
  PROVE  TmpInv'
<1>1. \A cid \in ClientId : Settles(FALSE, cid)'
  BY DEF TmpInv
<1>2. ASSUME NEW q \in Pages, live'[q], ~view'[q].astray, NEW cid \in ClientId \ {id'[q]}
      PROVE  Settles(Tmp(view[q], cid), cid)'
  <2> DEFINE t == Tmp(view'[q], cid)
  <2>1. Settles(t, cid)
    <3>1. CASE t
      <4>1. (Tmp(view[q], cid) <=> t) /\ Settles(Tmp(view[q], cid), cid)
        BY <1>2, <3>1 DEF TmpInv
      <4> QED
        BY <4>1, SettlesSame
    <3>2. CASE ~t
      <4>1. (FALSE <=> t) /\ Settles(FALSE, cid)
        BY <3>2 DEF TmpInv
      <4> QED
        BY <4>1, SettlesSame
    <3> QED
      BY <3>1, <3>2
  <2> QED
    BY <2>1
<1> QED
  BY <1>1, <1>2 DEF TmpInv

LEMMA SettlesLoad ==
  ASSUME TypeInv, QueueInv, NEW p \in Pages, Load(p), NEW t, NEW cid \in ClientId, Settles(t, cid)
  PROVE  Settles(t, cid)'
<1> DEFINE u == DragsAfter(t, broadcast, cid)
<1>1. /\ ~live[p] /\ live' = [live EXCEPT ![p] = TRUE] /\ id' = [id EXCEPT ![p] = FirstFreeId]
      /\ building' = building /\ outbox' = outbox /\ drag' = drag
      /\ broadcast' = broadcast /\ leaving' = leaving
  BY DEF Load, userVars, serverVars
<1>2. Out' = Out /\ Out[p] = <<>>
  <2>1. Out' = Out
    BY <1>1 DEF Out
  <2>2. outbox[p] = <<>> /\ building[p] = <<>> /\ Out[p] = outbox[p] \o building[p]
    BY <1>1, OutIs
  <2> QED
    BY <2>1, <2>2
<1>3. live'[p] /\ id'[p] = FirstFreeId /\ \A q \in Pages \ {p} : live'[q] = live[q] /\ id'[q] = id[q]
  BY <1>1 DEF TypeInv
<1>4. \A q \in Pages : live[q] => id[q] # FirstFreeId
  <2>1. FirstFreeId \in ClientId \ UsedIds
    BY <1>1, IdIsFree DEF TypeInv
  <2> QED
    BY <2>1 DEF UsedIds
<1>5. Left(cid)' <=> Left(cid)
  BY <1>1 DEF Left
<1>6. ASSUME NEW q \in Pages, live'[q], id'[q] = cid
      PROVE  Tidy(u, Out'[q], cid) /\ (DragsAfter(u, Out'[q], cid) => drag'[q] # 0 \/ Left(cid)')
  <2>1. CASE q = p
    <3>1. u => Left(cid)
      BY <1>3, <1>4, <1>6, <2>1 DEF Settles
    <3> HIDE DEF u
    <3>2. Tidy(u, <<>>, cid) /\ (DragsAfter(u, <<>>, cid) <=> u)
      BY DragsNone
    <3> QED
      BY <1>2, <1>5, <2>1, <3>1, <3>2
  <2>2. CASE q # p
    BY <1>1, <1>2, <1>3, <1>5, <1>6, <2>2 DEF Settles
  <2> QED
    BY <2>1, <2>2
<1>7. u => Left(cid)' \/ \E q \in Pages : live'[q] /\ id'[q] = cid
  BY <1>1, <1>3, <1>5 DEF Settles
<1> QED
  BY <1>1, <1>6, <1>7 DEF Settles

LEMMA ScreensLoad ==
  ASSUME TypeInv, DragInv, QueueInv, TmpInv, ScreenInv, RequestInv, NEW p \in Pages, Load(p)
  PROVE  TmpInv' /\ ScreenInv' /\ RequestInv'
<1> DEFINE b == \E i \in DOMAIN broadcast : IsStored(broadcast[i])
           w == [Replay EXCEPT !.drawRequested = TRUE, !.astray = b]
<1>1. /\ ~live[p] /\ view' = [view EXCEPT ![p] = w] /\ leaving[p] = 0
      /\ live' = [live EXCEPT ![p] = TRUE] /\ id' = [id EXCEPT ![p] = FirstFreeId]
      /\ building' = building /\ outbox' = outbox /\ drag' = drag /\ leaving' = leaving
      /\ broadcast' = broadcast /\ saved' = saved /\ inputs' = inputs
  BY DEF Load, userVars, serverVars
<1>2. Out' = Out /\ Out[p] = <<>>
  <2>1. Out' = Out
    BY <1>1 DEF Out
  <2>2. outbox[p] = <<>> /\ building[p] = <<>> /\ Out[p] = outbox[p] \o building[p]
    BY <1>1, OutIs
  <2> QED
    BY <2>1, <2>2
<1>3. Replay \in Views /\ ~Replay.failed
  BY Replayed
<1>4. /\ w \in Views /\ w.increments = Replay.increments /\ w.drawn = Replay.drawn
      /\ w.tmpActions = Replay.tmpActions /\ w.currentAction = Replay.currentAction
      /\ w.shown = Replay.shown /\ w.astray = b /\ ~w.failed /\ w.drawRequested = TRUE
  BY <1>3 DEF Views, PageView
<1> HIDE DEF w
<1>5. view'[p] = w /\ live'[p] /\ id'[p] = FirstFreeId
      /\ \A q \in Pages \ {p} : view'[q] = view[q] /\ live'[q] = live[q] /\ id'[q] = id[q]
  BY <1>1 DEF TypeInv
<1>6. PICK drags : OnScreens(drags)
  BY DEF ScreenInv
<1>7. /\ saved \in Seq(Event) /\ (\A i \in DOMAIN saved : IsStored(saved[i]))
      /\ Drags(drags) /\ AllProper(saved, drags)
  BY <1>6 DEF TypeInv, AllEvents, DragInv, OnScreens
<1>8. ~Replay.astray
  BY <1>7, EmptyInViews, StoredHandled DEF Replay
<1>9. OnScreen(Replay, drags) /\ \A cid \in ClientId : ~Tmp(Replay, cid)
  BY <1>7, <1>8, ScreenStored DEF Replay
<1>10. OnScreen(w, drags) /\ \A cid \in ClientId : ~Tmp(w, cid)
  BY <1>4, <1>8, <1>9, SameScreen DEF OnScreen
<1>11. ScreenInv'
  <2>1. \A q \in Pages : OnScreen(view'[q], drags)
    BY <1>5, <1>6, <1>10 DEF OnScreens
  <2>2. OnScreens(drags)'
    BY <1>1, <1>2, <1>6, <2>1 DEF OnScreens
  <2> QED
    BY <1>1, <2>2 DEF ScreenInv
<1>12. TmpInv'
  <2>1. \A cid \in ClientId : \A t : Settles(t, cid) => Settles(t, cid)'
    BY SettlesLoad
  <2>2. ASSUME NEW q \in Pages, live'[q]
        PROVE  leaving'[q] = 0 /\ (DragsAfter(FALSE, Out'[q], id'[q]) => drag'[q] # 0)
    <3>1. CASE q = p
      BY <1>1, <1>2, <3>1, DragsNone
    <3>2. CASE q # p
      BY <1>1, <1>2, <1>5, <2>2, <3>2 DEF TmpInv
    <3> QED
      BY <3>1, <3>2
  <2>3. ASSUME NEW q \in Pages, live'[q], ~view'[q].astray
        PROVE  /\ \A cid \in ClientId \ {id'[q]} : Tmp(view'[q], cid) =>
                    live[q] /\ id[q] = id'[q] /\ ~view[q].astray /\ Tmp(view[q], cid)
               /\ Tmp(view'[q], id'[q]) => drag'[q] # 0
    <3>1. CASE q = p
      <4>1. id'[p] \in ClientId
        BY <1>1, <1>5, IdIsFree DEF TypeInv
      <4> QED
        BY <1>5, <1>10, <3>1, <4>1
    <3>2. CASE q # p
      BY <1>1, <1>5, <2>3, <3>2 DEF TmpInv
    <3> QED
      BY <3>1, <3>2
  <2> QED
    BY <2>1, <2>2, <2>3, TmpKept
<1>13. RequestInv'
  <2>1. ASSUME NEW q \in Pages, live'[q], ~view'[q].astray, ~view'[q].drawRequested, building'[q] = <<>>
        PROVE  IsDrawn(view'[q])
    BY <1>1, <1>4, <1>5, <2>1 DEF RequestInv
  <2> QED
    BY <2>1 DEF RequestInv
<1> QED
  BY <1>11, <1>12, <1>13

\* What Settles asks after a step, with x for who drags after what was broadcast.
LEMMA SettlesAfter ==
  ASSUME NEW t, NEW cid, NEW x,
         x <=> DragsAfter(t, broadcast', cid),
         Tidy(t, broadcast', cid),
         \A q \in Pages : live'[q] /\ id'[q] = cid =>
           /\ Tidy(x, Out'[q], cid)
           /\ DragsAfter(x, Out'[q], cid) => drag'[q] # 0 \/ Left(cid)',
         x => Left(cid)' \/ \E q \in Pages : live'[q] /\ id'[q] = cid
  PROVE  Settles(t, cid)'
<1> DEFINE u == DragsAfter(t, broadcast', cid)
<1>1. \A q \in Pages : live'[q] /\ id'[q] = cid =>
           /\ Tidy(u, Out'[q], cid)
           /\ DragsAfter(u, Out'[q], cid) => drag'[q] # 0 \/ Left(cid)'
  <2>1. x <=> u
    OBVIOUS
  <2> HIDE DEF u
  <2> QED
    BY <2>1, DragsSame
<1> QED
  BY <1>1 DEF Settles

LEMMA SettlesClose ==
  ASSUME TypeInv, QueueInv, AgreeInv, TmpInv, NEW p \in Pages, Close(p),
         NEW t, NEW cid \in ClientId, Settles(t, cid)
  PROVE  Settles(t, cid)'
<1> DEFINE u == DragsAfter(t, broadcast, cid)
<1>1. /\ live[p] /\ live' = [live EXCEPT ![p] = FALSE] /\ drag' = [drag EXCEPT ![p] = 0]
      /\ building' = [building EXCEPT ![p] = <<>>] /\ outbox' = [outbox EXCEPT ![p] = <<>>]
      /\ leaving' = [leaving EXCEPT ![p] = id[p]] /\ leaving[p] = 0
      /\ id' = id /\ broadcast' = broadcast
  BY DEF Close, TmpInv
<1>2. \A q \in Pages : live'[q] => q # p /\ live[q] /\ Out'[q] = Out[q] /\ drag'[q] = drag[q]
  BY <1>1 DEF TypeInv, Out
<1>3. /\ leaving'[p] = id[p] /\ \A q \in Pages \ {p} : leaving'[q] = leaving[q] /\ live'[q] = live[q]
      /\ 0 \notin ClientId
  BY <1>1 DEF TypeInv, ClientId
<1>4. CASE cid = id[p]
  <2>1. Left(cid)'
    BY <1>3, <1>4 DEF Left
  <2>2. \A q \in Pages : live'[q] => id'[q] # cid
    BY <1>1, <1>2, <1>4 DEF AgreeInv
  <2>3. Tidy(t, broadcast', cid)
    BY <1>1 DEF Settles
  <2> QED
    BY <2>1, <2>2, <2>3, SettlesAfter
<1>5. CASE cid # id[p]
  <2>1. Left(cid)' <=> Left(cid)
    BY <1>1, <1>3, <1>5 DEF Left
  <2>2. \A q \in Pages : live'[q] /\ id'[q] = cid =>
           Tidy(u, Out'[q], cid) /\ (DragsAfter(u, Out'[q], cid) => drag'[q] # 0 \/ Left(cid)')
    BY <1>1, <1>2, <2>1 DEF Settles
  <2>3. u => Left(cid)' \/ \E q \in Pages : live'[q] /\ id'[q] = cid
    BY <1>1, <1>3, <1>5, <2>1 DEF Settles
  <2> QED
    BY <1>1, <2>2, <2>3 DEF Settles
<1> QED
  BY <1>4, <1>5

LEMMA ScreensClose ==
  ASSUME TypeInv, QueueInv, AgreeInv, TmpInv, ScreenInv, RequestInv, NEW p \in Pages, Close(p)
  PROVE  TmpInv' /\ ScreenInv' /\ RequestInv'
<1>1. /\ live[p] /\ live' = [live EXCEPT ![p] = FALSE] /\ view' = [view EXCEPT ![p] = EmptyView]
      /\ building' = [building EXCEPT ![p] = <<>>] /\ outbox' = [outbox EXCEPT ![p] = <<>>]
      /\ drag' = [drag EXCEPT ![p] = 0] /\ leaving' = [leaving EXCEPT ![p] = id[p]]
      /\ id' = id /\ broadcast' = broadcast /\ saved' = saved /\ inputs' = inputs
  BY DEF Close
<1>2. /\ \A q \in Pages : live'[q] => q # p /\ live[q]
      /\ \A q \in Pages \ {p} : /\ view'[q] = view[q] /\ Out'[q] = Out[q] /\ drag'[q] = drag[q]
                                /\ leaving'[q] = leaving[q] /\ building'[q] = building[q]
      /\ view'[p] = EmptyView
  BY <1>1 DEF TypeInv, Out
<1>3. Out'[p] = <<>>
  <2>1. Out'[p] = <<>> \o <<>>
    BY <1>1 DEF TypeInv, Out
  <2>2. <<>> \in Seq(Event)
    OBVIOUS
  <2> QED
    BY <2>1, <2>2, ConcatEmptySeq
<1>4. PICK drags : OnScreens(drags)
  BY DEF ScreenInv
<1>5. ScreenInv'
  <2>1. AllProper(<<>>, drags)
    BY DEF AllProper
  <2>2. OnScreen(EmptyView, drags)
    BY <1>4, ScreenEmpty DEF OnScreens, OnScreen, EmptyView
  <2>3. \A q \in Pages : AllProper(Out'[q], drags) /\ OnScreen(view'[q], drags)
    BY <1>2, <1>3, <1>4, <2>1, <2>2 DEF OnScreens
  <2>4. OnScreens(drags)'
    BY <1>1, <1>4, <2>3 DEF OnScreens
  <2> QED
    BY <1>1, <2>4 DEF ScreenInv
<1>6. TmpInv'
  <2>1. \A cid \in ClientId : \A t : Settles(t, cid) => Settles(t, cid)'
    BY SettlesClose
  <2>2. ASSUME NEW q \in Pages, live'[q]
        PROVE  leaving'[q] = 0 /\ (DragsAfter(FALSE, Out'[q], id'[q]) => drag'[q] # 0)
    <3>1. /\ q # p /\ live[q] /\ leaving'[q] = leaving[q] /\ Out'[q] = Out[q]
          /\ drag'[q] = drag[q] /\ id'[q] = id[q]
      BY <1>1, <1>2, <2>2
    <3> QED
      BY <3>1 DEF TmpInv
  <2>3. \A q \in Pages : live'[q] /\ ~view'[q].astray =>
          /\ \A cid \in ClientId \ {id'[q]} : Tmp(view'[q], cid) =>
               live[q] /\ id[q] = id'[q] /\ ~view[q].astray /\ Tmp(view[q], cid)
          /\ Tmp(view'[q], id'[q]) => drag'[q] # 0
    BY <1>1, <1>2 DEF TmpInv
  <2> QED
    BY <2>1, <2>2, <2>3, TmpKept
<1>7. RequestInv'
  BY <1>2 DEF RequestInv
<1> QED
  BY <1>5, <1>6, <1>7

LEMMA SettlesCleanup ==
  ASSUME TypeInv, QueueInv, TmpInv, NEW p \in Pages, Cleanup(p),
         NEW t, NEW cid \in ClientId, Settles(t, cid)
  PROVE  Settles(t, cid)'
<1> DEFINE e == Ev("Cleanup", leaving[p], 0)
           u == DragsAfter(t, broadcast, cid)
<1>1. /\ e \in Event /\ e.type = "Cleanup" /\ e.id = leaving[p] /\ leaving[p] # 0
  BY DEF Cleanup, TypeInv, Ev, Event
<1>2. /\ broadcast' = Append(broadcast, e) /\ leaving' = [leaving EXCEPT ![p] = 0]
      /\ UNCHANGED <<live, id, drag, building, outbox>>
  BY DEF Cleanup, userVars
<1> HIDE DEF e
<1>3. Out' = Out /\ broadcast \in Seq(Event)
  BY <1>2 DEF Out, TypeInv, AllEvents
<1>4. /\ DragsAfter(t, broadcast', cid) <=> TmpAfter(u, e, cid)
      /\ Tidy(t, broadcast', cid)
  BY <1>1, <1>2, <1>3, DragsMore DEF Settles
<1>5. CASE cid = leaving[p]
  <2>1. FALSE <=> DragsAfter(t, broadcast', cid)
    BY <1>1, <1>4, <1>5 DEF TmpAfter, Ends
  <2>2. ASSUME NEW q \in Pages, live'[q], id'[q] = cid
        PROVE  Tidy(FALSE, Out'[q], cid) /\ (DragsAfter(FALSE, Out'[q], cid) => drag'[q] # 0 \/ Left(cid)')
    <3>1. Tidy(u, Out[q], cid)
      BY <1>2, <2>2 DEF Settles
    <3>2. DragsAfter(FALSE, Out[q], cid) => drag[q] # 0
      BY <1>2, <2>2 DEF TmpInv
    <3> QED
      BY <1>2, <1>3, <3>1, <3>2, DragsLess
  <2> QED
    BY <1>4, <2>1, <2>2, SettlesAfter
<1>6. CASE cid # leaving[p]
  <2>1. u <=> DragsAfter(t, broadcast', cid)
    BY <1>1, <1>4, <1>6, TmpAfterIs DEF Starter, Ender
  <2>2. Left(cid)' <=> Left(cid)
    <3>1. leaving'[p] = 0 /\ (\A q \in Pages \ {p} : leaving'[q] = leaving[q]) /\ 0 \notin ClientId
      BY <1>2 DEF TypeInv, ClientId
    <3> QED
      BY <1>6, <3>1 DEF Left
  <2>3. \A q \in Pages : live'[q] /\ id'[q] = cid =>
           Tidy(u, Out'[q], cid) /\ (DragsAfter(u, Out'[q], cid) => drag'[q] # 0 \/ Left(cid)')
    BY <1>2, <1>3, <2>2 DEF Settles
  <2>4. u => Left(cid)' \/ \E q \in Pages : live'[q] /\ id'[q] = cid
    BY <1>2, <2>2 DEF Settles
  <2> HIDE DEF u
  <2> QED
    BY <1>4, <2>1, <2>3, <2>4, SettlesAfter
<1> QED
  BY <1>5, <1>6

LEMMA ScreensCleanup ==
  ASSUME TypeInv, QueueInv, TmpInv, ScreenInv, RequestInv, NEW p \in Pages, Cleanup(p)
  PROVE  TmpInv' /\ ScreenInv' /\ RequestInv'
<1> DEFINE e == Ev("Cleanup", leaving[p], 0)
<1>1. /\ e \in Event /\ e.type = "Cleanup"
  BY DEF Cleanup, TypeInv, Ev, Event
<1>2. /\ broadcast' = Append(broadcast, e) /\ leaving' = [leaving EXCEPT ![p] = 0]
      /\ UNCHANGED <<live, id, drag, view, building, outbox, saved, inputs>>
  BY DEF Cleanup, userVars
<1> HIDE DEF e
<1>3. Out' = Out /\ broadcast \in Seq(Event)
  BY <1>2 DEF Out, TypeInv, AllEvents
<1>4. PICK drags : OnScreens(drags)
  BY DEF ScreenInv
<1>5. ScreenInv'
  <2>1. Proper(e, drags)
    BY <1>1 DEF Proper
  <2>2. AllProper(broadcast', drags)
    BY <1>1, <1>2, <1>3, <1>4, <2>1, AllProperOne DEF OnScreens
  <2>3. OnScreens(drags)'
    BY <1>2, <1>3, <1>4, <2>2 DEF OnScreens
  <2> QED
    BY <1>2, <2>3 DEF ScreenInv
<1>6. TmpInv'
  <2>1. \A cid \in ClientId : \A t : Settles(t, cid) => Settles(t, cid)'
    BY SettlesCleanup
  <2>2. ASSUME NEW q \in Pages, live'[q]
        PROVE  leaving'[q] = 0 /\ (DragsAfter(FALSE, Out'[q], id'[q]) => drag'[q] # 0)
    <3>1. leaving[q] = 0 /\ leaving'[q] \in {0, leaving[q]}
      BY <1>2, <2>2 DEF TmpInv, TypeInv
    <3> QED
      BY <1>2, <1>3, <2>2, <3>1 DEF TmpInv
  <2>3. \A q \in Pages : live'[q] /\ ~view'[q].astray =>
          /\ \A cid \in ClientId \ {id'[q]} : Tmp(view'[q], cid) =>
               live[q] /\ id[q] = id'[q] /\ ~view[q].astray /\ Tmp(view[q], cid)
          /\ Tmp(view'[q], id'[q]) => drag'[q] # 0
    BY <1>2 DEF TmpInv
  <2> QED
    BY <2>1, <2>2, <2>3, TmpKept
<1>7. RequestInv'
  BY <1>2 DEF RequestInv
<1> QED
  BY <1>5, <1>6, <1>7

\* The event of a page that the server handles: what drags on the way stays the same.
LEMMA Handled ==
  ASSUME TypeInv, QueueInv, NEW p \in Pages, Accept(p)
  PROVE  LET e == Head(Out[p]) IN
         /\ e \in Event /\ e.id = id[p] /\ live[p] /\ Out[p] # <<>>
         /\ Out'[p] = Tail(Out[p]) /\ \A q \in Pages \ {p} : Out'[q] = Out[q]
         /\ broadcast' = Append(broadcast, e)
         /\ saved' = IF IsStored(e) THEN Append(saved, e) ELSE saved
         /\ UNCHANGED <<live, id, view, drag, building, inputs, leaving>>
<1> DEFINE e == Head(outbox[p])
           o == outbox[p]
           b == building[p]
<1>1. /\ o # <<>> /\ broadcast' = Append(broadcast, e)
      /\ saved' = IF IsStored(e) THEN Append(saved, e) ELSE saved
      /\ outbox' = [outbox EXCEPT ![p] = Tail(o)]
      /\ UNCHANGED <<live, id, view, drag, building, inputs, leaving>>
  BY DEF Accept, TypeInv
<1>2. o \in Seq(Event) /\ b \in Seq(Event)
  BY DEF TypeInv, AllEvents
<1>3. live[p] /\ Out[p] = o \o b
  BY <1>1, OutIs
<1>4. o \o b # <<>> /\ Head(o \o b) = Head(o) /\ Tail(o \o b) = Tail(o) \o b /\ Head(o) \in Event
  <2> HIDE DEF o, b
  <2> QED
    BY <1>1, <1>2
<1>5. e.id = id[p]
  <2>1. Out[p] \in Seq(Event) /\ \A i \in DOMAIN Out[p] : Out[p][i].id = id[p]
    BY OutIs
  <2>2. Out[p] # <<>> /\ Head(Out[p]) = e
    BY <1>3, <1>4
  <2>3. 1 \in DOMAIN Out[p] /\ Head(Out[p]) = Out[p][1]
    BY <2>1, <2>2
  <2> QED
    BY <2>1, <2>2, <2>3
<1>6. Out'[p] = Tail(o) \o b /\ \A q \in Pages \ {p} : Out'[q] = Out[q]
  <2> DEFINE r == Tail(o)
  <2>1. outbox' = [outbox EXCEPT ![p] = r]
    BY <1>1
  <2> HIDE DEF r
  <2>2. Out'[p] = r \o b /\ \A q \in Pages \ {p} : Out'[q] = Out[q]
    BY <1>1, <2>1 DEF Out, TypeInv
  <2> QED
    BY <2>2 DEF r
<1>7. Head(Out[p]) = e /\ Out[p] # <<>> /\ Tail(Out[p]) = Tail(o) \o b
  BY <1>3, <1>4
<1> HIDE DEF e, o, b
<1> QED
  BY <1>1, <1>3, <1>4, <1>5, <1>6, <1>7 DEF e, o

LEMMA SettlesAccept ==
  ASSUME TypeInv, QueueInv, AgreeInv, NEW p \in Pages, Accept(p),
         NEW t, NEW cid \in ClientId, Settles(t, cid)
  PROVE  Settles(t, cid)'
<1> DEFINE e == Head(Out[p])
           u == DragsAfter(t, broadcast, cid)
           s == TmpAfter(u, e, cid)
<1>1. /\ e \in Event /\ e.id = id[p] /\ live[p] /\ Out[p] # <<>>
      /\ Out'[p] = Tail(Out[p]) /\ \A q \in Pages \ {p} : Out'[q] = Out[q]
      /\ broadcast' = Append(broadcast, e)
      /\ UNCHANGED <<live, id, drag, leaving>>
  BY Handled
<1>2. broadcast \in Seq(Event) /\ Out[p] \in Seq(Event)
  BY OutIs
<1>3. Left(cid)' <=> Left(cid)
  BY <1>1 DEF Left
<1> HIDE DEF e
<1>4. /\ DragsAfter(t, broadcast', cid) <=> s
      /\ Tidy(t, broadcast', cid) <=>
           Tidy(t, broadcast, cid) /\ (e.id = cid /\ e.type = "Object" => ~u)
  BY <1>1, <1>2, DragsMore
<1>5. Tidy(t, broadcast, cid)
  BY DEF Settles
<1>6. CASE cid = id[p]
  <2>1. \A q \in Pages : live'[q] /\ id'[q] = cid => q = p
    BY <1>1, <1>6 DEF AgreeInv
  <2>2. Tidy(u, Out[p], cid) /\ (DragsAfter(u, Out[p], cid) => drag[p] # 0 \/ Left(cid))
    BY <1>1, <1>6 DEF Settles
  <2> HIDE DEF u
  <2>3. /\ DragsAfter(u, Out[p], cid) <=> DragsAfter(s, Tail(Out[p]), cid)
        /\ e.id = cid /\ e.type = "Object" => ~u
        /\ Tidy(s, Tail(Out[p]), cid)
    BY <1>1, <1>2, <2>2, DragsRest DEF e
  <2> HIDE DEF s
  <2>4. Tidy(t, broadcast', cid)
    BY <1>4, <1>5, <2>3
  <2>5. \A q \in Pages : live'[q] /\ id'[q] = cid =>
           Tidy(s, Out'[q], cid) /\ (DragsAfter(s, Out'[q], cid) => drag'[q] # 0 \/ Left(cid)')
    BY <1>1, <1>3, <2>1, <2>2, <2>3
  <2> QED
    BY <1>1, <1>4, <1>6, <2>4, <2>5, SettlesAfter
<1>7. CASE cid # id[p]
  <2>1. u <=> DragsAfter(t, broadcast', cid)
    BY <1>1, <1>4, <1>7, TmpAfterIs DEF Starter, Ender
  <2>2. \A q \in Pages : live'[q] /\ id'[q] = cid =>
           Tidy(u, Out'[q], cid) /\ (DragsAfter(u, Out'[q], cid) => drag'[q] # 0 \/ Left(cid)')
    BY <1>1, <1>3, <1>7 DEF Settles
  <2>3. u => Left(cid)' \/ \E q \in Pages : live'[q] /\ id'[q] = cid
    BY <1>1, <1>3 DEF Settles
  <2> HIDE DEF u
  <2> QED
    BY <1>1, <1>4, <1>5, <1>7, <2>1, <2>2, <2>3, SettlesAfter
<1> QED
  BY <1>6, <1>7

LEMMA ScreensAccept ==
  ASSUME TypeInv, QueueInv, AgreeInv, TmpInv, ScreenInv, RequestInv, NEW p \in Pages, Accept(p)
  PROVE  TmpInv' /\ ScreenInv' /\ RequestInv'
<1> DEFINE e == Head(Out[p])
<1>1. /\ e \in Event /\ e.id = id[p] /\ live[p] /\ Out[p] # <<>>
      /\ Out'[p] = Tail(Out[p]) /\ \A q \in Pages \ {p} : Out'[q] = Out[q]
      /\ broadcast' = Append(broadcast, e)
      /\ saved' = IF IsStored(e) THEN Append(saved, e) ELSE saved
      /\ UNCHANGED <<live, id, view, drag, building, inputs, leaving>>
  BY Handled
<1>2. broadcast \in Seq(Event) /\ saved \in Seq(Event) /\ Out[p] \in Seq(Event)
  BY OutIs DEF TypeInv, AllEvents
<1>3. PICK drags : OnScreens(drags)
  BY DEF ScreenInv
<1>4. ScreenInv'
  <2>1. Proper(e, drags) /\ AllProper(Tail(Out[p]), drags)
    BY <1>1, <1>2, <1>3, AllProperRest DEF OnScreens
  <2> HIDE DEF e
  <2>2. AllProper(broadcast', drags) /\ AllProper(saved', drags)
    BY <1>1, <1>2, <1>3, <2>1, AllProperOne DEF OnScreens
  <2>3. \A q \in Pages : AllProper(Out'[q], drags) /\ OnScreen(view'[q], drags)
    BY <1>1, <1>3, <2>1 DEF OnScreens
  <2>4. OnScreens(drags)'
    BY <1>1, <1>3, <2>2, <2>3 DEF OnScreens
  <2> QED
    BY <1>1, <2>4 DEF ScreenInv
<1>5. TmpInv'
  <2>1. \A cid \in ClientId : \A t : Settles(t, cid) => Settles(t, cid)'
    BY SettlesAccept
  <2>2. ASSUME NEW q \in Pages, live'[q]
        PROVE  leaving'[q] = 0 /\ (DragsAfter(FALSE, Out'[q], id'[q]) => drag'[q] # 0)
    <3>1. leaving[q] = 0 /\ (DragsAfter(FALSE, Out[q], id[q]) => drag[q] # 0)
      BY <1>1, <2>2 DEF TmpInv
    <3>2. CASE q = p
      <4> DEFINE s == TmpAfter(FALSE, e, id[p])
      <4>1. DragsAfter(FALSE, Out[p], id[p]) <=> DragsAfter(s, Tail(Out[p]), id[p])
        BY <1>1, <1>2, DragsRest
      <4> HIDE DEF s
      <4>2. DragsAfter(FALSE, Tail(Out[p]), id[p]) => DragsAfter(s, Tail(Out[p]), id[p])
        BY DragsLess
      <4> QED
        BY <1>1, <3>1, <3>2, <4>1, <4>2
    <3>3. CASE q # p
      BY <1>1, <3>1, <3>3
    <3> QED
      BY <3>2, <3>3
  <2>3. \A q \in Pages : live'[q] /\ ~view'[q].astray =>
          /\ \A cid \in ClientId \ {id'[q]} : Tmp(view'[q], cid) =>
               live[q] /\ id[q] = id'[q] /\ ~view[q].astray /\ Tmp(view[q], cid)
          /\ Tmp(view'[q], id'[q]) => drag'[q] # 0
    BY <1>1 DEF TmpInv
  <2> QED
    BY <2>1, <2>2, <2>3, TmpKept
<1>6. RequestInv'
  BY <1>1 DEF RequestInv
<1> QED
  BY <1>4, <1>5, <1>6

\* A frame: whoever drags on a page after it settles as well.
LEMMA SettlesFrame ==
  ASSUME TypeInv, TmpInv, SendFrame, NEW cid \in ClientId, NEW t, Settles(t, cid),
         NEW x, x => DragsAfter(t, broadcast, cid)
  PROVE  Settles(x, cid)'
<1> DEFINE u == DragsAfter(t, broadcast, cid)
<1>1. broadcast' = <<>> /\ UNCHANGED <<live, id, drag, building, outbox, leaving>>
  BY DEF SendFrame, userVars
<1>2. Out' = Out /\ (Left(cid)' <=> Left(cid))
  BY <1>1 DEF Out, Left
<1>3. /\ \A q \in Pages : live[q] /\ id[q] = cid =>
           /\ Tidy(u, Out[q], cid)
           /\ DragsAfter(u, Out[q], cid) => drag[q] # 0 \/ Left(cid)
      /\ u => Left(cid) \/ \E q \in Pages : live[q] /\ id[q] = cid
  BY DEF Settles
<1>4. x => u
  OBVIOUS
<1> HIDE DEF u
<1>5. /\ x <=> DragsAfter(x, broadcast', cid)
      /\ Tidy(x, broadcast', cid)
  BY <1>1, DragsNone
<1>6. ASSUME NEW q \in Pages, live'[q], id'[q] = cid
      PROVE  Tidy(x, Out'[q], cid) /\ (DragsAfter(x, Out'[q], cid) => drag'[q] # 0 \/ Left(cid)')
  <2>1. /\ live[q] /\ id[q] = cid /\ drag'[q] = drag[q] /\ Out'[q] = Out[q]
    BY <1>1, <1>2, <1>6
  <2>2. Tidy(u, Out[q], cid) /\ (DragsAfter(u, Out[q], cid) => drag[q] # 0 \/ Left(cid))
    BY <1>3, <2>1
  <2>3. CASE x
    <3>1. x <=> u
      BY <1>4, <2>3
    <3>2. Tidy(x, Out[q], cid) /\ (DragsAfter(x, Out[q], cid) <=> DragsAfter(u, Out[q], cid))
      BY <2>2, <3>1, DragsSame
    <3> QED
      BY <1>2, <2>1, <2>2, <3>2
  <2>4. CASE ~x
    <3>1. x <=> FALSE
      BY <2>4
    <3>2. Tidy(FALSE, Out[q], cid) /\ (DragsAfter(FALSE, Out[q], cid) => DragsAfter(u, Out[q], cid))
      BY <2>2, DragsLess
    <3>3. Tidy(x, Out[q], cid) /\ (DragsAfter(x, Out[q], cid) => DragsAfter(u, Out[q], cid))
      BY <3>1, <3>2, DragsSame
    <3> QED
      BY <1>2, <2>1, <2>2, <3>3
  <2> QED
    BY <2>3, <2>4
<1>7. x => Left(cid)' \/ \E q \in Pages : live'[q] /\ id'[q] = cid
  BY <1>1, <1>2, <1>3, <1>4
<1> QED
  BY <1>5, <1>6, <1>7, SettlesAfter

\* What a frame makes of the page that gets it.
LEMMA FrameSeen ==
  ASSUME TypeInv, QueueInv, TmpInv, NEW drags, OnScreens(drags), SendFrame, NEW q \in Pages, live[q]
  PROVE  /\ OnScreen(view'[q], drags)
         /\ ~view'[q].astray =>
              /\ ~view[q].astray /\ view'[q].drawRequested
              /\ \A cid \in ClientId \ {id[q]} :
                   Tmp(view'[q], cid) <=> DragsAfter(Tmp(view[q], cid), broadcast, cid)
              /\ Tmp(view'[q], id[q]) <=> Tmp(view[q], id[q])
<1> DEFINE v == view[q]
           w == HandleAll(v, id[q], broadcast)
           x == [w EXCEPT !.failed = FALSE, !.drawRequested = w.drawRequested \/ ~w.failed]
<1>1. v \in Views /\ id[q] \in ClientId /\ broadcast \in Seq(Event)
  BY OutIs
<1>2. v.astray \/ \A cid \in ClientId \ {id[q]} : Tidy(Tmp(v, cid), broadcast, cid)
  BY DEF TmpInv, Settles
<1>3. view'[q] = x
  BY DEF SendFrame, Receive
<1> HIDE DEF v
<1>4. /\ w \in Views /\ OnScreen(w, drags)
      /\ ~w.astray =>
           /\ ~v.astray
           /\ \A cid \in ClientId \ {id[q]} : Tmp(w, cid) <=> DragsAfter(Tmp(v, cid), broadcast, cid)
           /\ Tmp(w, id[q]) <=> Tmp(v, id[q])
  <2>1. Drags(drags) /\ AllProper(broadcast, drags) /\ OnScreen(v, drags)
    BY DEF OnScreens, v
  <2> QED
    BY <1>1, <1>2, <2>1, ScreenMessage
<1> HIDE DEF w
<1>5. /\ x.increments = w.increments /\ x.drawn = w.drawn /\ x.tmpActions = w.tmpActions
      /\ x.currentAction = w.currentAction /\ x.shown = w.shown /\ x.astray = w.astray
      /\ x.failed = FALSE /\ x.drawRequested = (w.drawRequested \/ ~w.failed)
  BY <1>4 DEF Views, PageView
<1> HIDE DEF x
<1>6. (Screen(x, drags) <=> Screen(w, drags)) /\ \A cid : Tmp(x, cid) <=> Tmp(w, cid)
  BY <1>5, SameScreen
<1>7. OnScreen(x, drags)
  BY <1>4, <1>5, <1>6 DEF OnScreen
<1>8. ~x.astray => ~w.failed
  BY <1>4, <1>5 DEF OnScreen
<1>9. ~x.astray =>
        /\ ~v.astray /\ x.drawRequested
        /\ \A cid \in ClientId \ {id[q]} : Tmp(x, cid) <=> DragsAfter(Tmp(v, cid), broadcast, cid)
        /\ Tmp(x, id[q]) <=> Tmp(v, id[q])
  BY <1>4, <1>5, <1>6, <1>8
<1> QED
  BY <1>3, <1>7, <1>9 DEF v

LEMMA ScreensSendFrame ==
  ASSUME TypeInv, QueueInv, TmpInv, ScreenInv, RequestInv, SendFrame
  PROVE  TmpInv' /\ ScreenInv' /\ RequestInv'
<1>1. /\ broadcast' = <<>> /\ UNCHANGED <<live, id, drag, building, outbox, leaving, saved, inputs>>
      /\ \A q \in Pages : ~live[q] => view'[q] = view[q]
  BY DEF SendFrame, userVars
<1>2. Out' = Out
  BY <1>1 DEF Out
<1>3. PICK drags : OnScreens(drags)
  BY DEF ScreenInv
<1>4. ASSUME NEW q \in Pages, live[q]
      PROVE  /\ OnScreen(view'[q], drags)
             /\ ~view'[q].astray =>
                  /\ ~view[q].astray /\ view'[q].drawRequested
                  /\ \A cid \in ClientId \ {id[q]} :
                       Tmp(view'[q], cid) <=> DragsAfter(Tmp(view[q], cid), broadcast, cid)
                  /\ Tmp(view'[q], id[q]) <=> Tmp(view[q], id[q])
  BY <1>3, <1>4, FrameSeen
<1>5. ScreenInv'
  <2>1. AllProper(broadcast', drags)
    BY <1>1 DEF AllProper
  <2>2. \A q \in Pages : OnScreen(view'[q], drags)
    BY <1>1, <1>3, <1>4 DEF OnScreens
  <2>3. OnScreens(drags)'
    BY <1>1, <1>2, <1>3, <2>1, <2>2 DEF OnScreens
  <2> QED
    BY <1>1, <2>3 DEF ScreenInv
<1>6. TmpInv'
  <2>1. ASSUME NEW cid \in ClientId PROVE Settles(FALSE, cid)'
    <3>1. Settles(FALSE, cid) /\ (FALSE => DragsAfter(FALSE, broadcast, cid))
      BY DEF TmpInv
    <3> QED
      BY <3>1, SettlesFrame
  <2>2. ASSUME NEW q \in Pages, live'[q]
        PROVE  leaving'[q] = 0 /\ (DragsAfter(FALSE, Out'[q], id'[q]) => drag'[q] # 0)
    BY <1>1, <1>2, <2>2 DEF TmpInv
  <2>3. ASSUME NEW q \in Pages, live'[q], ~view'[q].astray
        PROVE  /\ \A cid \in ClientId \ {id'[q]} : Settles(Tmp(view[q], cid), cid)'
               /\ Tmp(view'[q], id'[q]) => drag'[q] # 0
    <3>1. live[q] /\ id'[q] = id[q] /\ drag'[q] = drag[q]
      BY <1>1, <2>3
    <3>2. /\ ~view[q].astray
          /\ \A cid \in ClientId \ {id[q]} :
               Tmp(view'[q], cid) <=> DragsAfter(Tmp(view[q], cid), broadcast, cid)
          /\ Tmp(view'[q], id[q]) <=> Tmp(view[q], id[q])
      BY <1>4, <2>3, <3>1
    <3>3. ASSUME NEW cid \in ClientId \ {id[q]} PROVE Settles(Tmp(view[q], cid), cid)'
      <4> DEFINE t == Tmp(view[q], cid)
                 x == Tmp(view'[q], cid)
      <4>1. Settles(t, cid)
        BY <3>1, <3>2 DEF TmpInv
      <4>2. x => DragsAfter(t, broadcast, cid)
        BY <3>2
      <4> QED
        BY <4>1, <4>2, SettlesFrame
    <3>4. Tmp(view[q], id[q]) => drag[q] # 0
      BY <3>1, <3>2 DEF TmpInv
    <3> QED
      BY <3>1, <3>2, <3>3, <3>4
  <2> QED
    BY <2>1, <2>2, <2>3 DEF TmpInv
<1>7. RequestInv'
  BY <1>1, <1>4 DEF RequestInv
<1> QED
  BY <1>5, <1>6, <1>7

LEMMA SettlesStays ==
  ASSUME UNCHANGED <<live, id, drag, building, outbox, broadcast, leaving>>
  PROVE  Out' = Out /\ \A cid \in ClientId : \A t : Settles(t, cid) => Settles(t, cid)'
<1>1. Out' = Out /\ \A cid : Left(cid)' <=> Left(cid)
  BY DEF Out, Left
<1> QED
  BY <1>1 DEF Settles

LEMMA ScreensAnimationFrame ==
  ASSUME TypeInv, TmpInv, ScreenInv, RequestInv, NEW p \in Pages, AnimationFrame(p)
  PROVE  TmpInv' /\ ScreenInv' /\ RequestInv'
<1> DEFINE v == view[p]
           w == Draw(v)
<1>1. /\ view' = [view EXCEPT ![p] = w] /\ v \in Views
      /\ UNCHANGED <<live, id, drag, building, outbox, broadcast, leaving, saved, inputs>>
  BY DEF AnimationFrame, userVars, serverVars, TypeInv
<1>2. view'[p] = w /\ \A q \in Pages \ {p} : view'[q] = view[q]
  BY <1>1 DEF TypeInv
<1>3. Out' = Out /\ \A cid \in ClientId : \A t : Settles(t, cid) => Settles(t, cid)'
  BY <1>1, SettlesStays
<1>4. /\ w.astray = v.astray /\ w.failed = v.failed /\ w.currentAction = v.currentAction
      /\ w.drawn = Len(w.increments) /\ w.tmpActions = <<>>
      /\ \A drags : Screen(v, drags) => Screen(w, drags)
  BY <1>1, DrawnInViews, ScreenDrawn
<1> HIDE DEF w
<1>5. (\A cid : Tmp(w, cid) <=> Tmp(v, cid)) /\ \A drags : OnScreen(v, drags) => OnScreen(w, drags)
  BY <1>4 DEF Tmp, OnScreen
<1>6. PICK drags : OnScreens(drags)
  BY DEF ScreenInv
<1>7. ScreenInv'
  <2>1. \A q \in Pages : OnScreen(view'[q], drags)
    BY <1>2, <1>5, <1>6 DEF OnScreens
  <2>2. OnScreens(drags)'
    BY <1>1, <1>3, <1>6, <2>1 DEF OnScreens
  <2> QED
    BY <1>1, <2>2 DEF ScreenInv
<1>8. TmpInv'
  <2>1. ASSUME NEW q \in Pages, live'[q]
        PROVE  leaving'[q] = 0 /\ (DragsAfter(FALSE, Out'[q], id'[q]) => drag'[q] # 0)
    BY <1>1, <1>3, <2>1 DEF TmpInv
  <2>2. ASSUME NEW q \in Pages, live'[q], ~view'[q].astray
        PROVE  /\ \A cid \in ClientId \ {id'[q]} : Tmp(view'[q], cid) =>
                    live[q] /\ id[q] = id'[q] /\ ~view[q].astray /\ Tmp(view[q], cid)
               /\ Tmp(view'[q], id'[q]) => drag'[q] # 0
    <3>1. /\ view'[q].astray = view[q].astray
          /\ \A cid : Tmp(view'[q], cid) <=> Tmp(view[q], cid)
      BY <1>2, <1>4, <1>5
    <3>2. live[q] /\ id'[q] = id[q] /\ drag'[q] = drag[q] /\ ~view[q].astray
      BY <1>1, <2>2, <3>1
    <3>3. Tmp(view[q], id[q]) => drag[q] # 0
      BY <3>2 DEF TmpInv
    <3> QED
      BY <3>1, <3>2, <3>3
  <2> QED
    BY <1>3, <2>1, <2>2, TmpKept
<1>9. RequestInv'
  <2>1. IsDrawn(w)
    BY <1>4 DEF IsDrawn
  <2> QED
    BY <1>1, <1>2, <2>1 DEF RequestInv
<1> QED
  BY <1>7, <1>8, <1>9

LEMMA ScreensStay ==
  ASSUME TypeInv, TmpInv, ScreenInv, RequestInv, UNCHANGED vars
  PROVE  TmpInv' /\ ScreenInv' /\ RequestInv'
<1>1. UNCHANGED <<live, id, view, drag, building, outbox, broadcast, leaving, saved, inputs>>
  BY DEF vars, userVars, serverVars
<1>2. Out' = Out /\ \A cid \in ClientId : \A t : Settles(t, cid) => Settles(t, cid)'
  BY <1>1, SettlesStays
<1>3. PICK drags : OnScreens(drags)
  BY DEF ScreenInv
<1>4. OnScreens(drags)'
  BY <1>1, <1>2, <1>3 DEF OnScreens
<1>5. ScreenInv'
  BY <1>1, <1>4 DEF ScreenInv
<1>6. TmpInv'
  <2>1. \A q \in Pages : live'[q] =>
          leaving'[q] = 0 /\ (DragsAfter(FALSE, Out'[q], id'[q]) => drag'[q] # 0)
    BY <1>1, <1>2 DEF TmpInv
  <2>2. \A q \in Pages : live'[q] /\ ~view'[q].astray =>
          /\ \A cid \in ClientId \ {id'[q]} : Tmp(view'[q], cid) =>
               live[q] /\ id[q] = id'[q] /\ ~view[q].astray /\ Tmp(view[q], cid)
          /\ Tmp(view'[q], id'[q]) => drag'[q] # 0
    BY <1>1 DEF TmpInv
  <2> QED
    BY <1>2, <2>1, <2>2, TmpKept
<1>7. RequestInv'
  BY <1>1 DEF RequestInv
<1> QED
  BY <1>5, <1>6, <1>7

LEMMA ScreensInit ==
  ASSUME Init
  PROVE  TmpInv /\ ScreenInv /\ RequestInv
<1>1. /\ DOMAIN saved = 1..OldObjects /\ broadcast = <<>> /\ inputs = OldObjects /\ OldObjects \in Nat
      /\ \A n \in 1..OldObjects : saved[n].type = "Object" /\ saved[n].el = n
      /\ \A q \in Pages : view[q] = EmptyView /\ Out[q] = <<>> \o <<>> /\ ~live[q]
  BY OldObjectsAssumption DEF Init, OldObject, Ev, Out
<1>2. \A q \in Pages : Out[q] = <<>>
  <2>1. <<>> \in Seq(Event)
    OBVIOUS
  <2> QED
    BY <1>1, <2>1, ConcatEmptySeq
<1>3. ScreenInv
  <2> DEFINE none == {}
  <2>1. Drags(none) /\ \A h \in none : h[2] <= inputs
    BY DEF Drags
  <2>2. AllProper(saved, none)
    <3>1. \A n \in 1..OldObjects : n \notin Temporary
      BY <1>1 DEF Temporary
    <3> QED
      BY <1>1, <3>1 DEF AllProper, Proper
  <2>3. AllProper(<<>>, none)
    BY DEF AllProper
  <2>4. OnScreen(EmptyView, none)
    BY ScreenEmpty DEF OnScreen, EmptyView
  <2> HIDE DEF none
  <2>5. OnScreens(none)
    BY <1>1, <1>2, <2>1, <2>2, <2>3, <2>4 DEF OnScreens
  <2> QED
    BY <1>1, <2>5 DEF ScreenInv
<1> QED
  BY <1>1, <1>3, TmpInit DEF RequestInv

ShownInv == AgreedInv /\ TmpInv /\ ScreenInv /\ RequestInv

LEMMA ShownStep == ShownInv /\ [Next]_vars => ShownInv'
<1> SUFFICES ASSUME AgreedInv, TmpInv, ScreenInv, RequestInv, [Next]_vars PROVE ShownInv'
  BY DEF ShownInv
<1>1. AgreedInv'
  BY AgreedStep
<1>2. TypeInv /\ TypeInv' /\ DragInv /\ QueueInv /\ AgreeInv
  BY <1>1 DEF AgreedInv, PaperInv
<1>3. ASSUME NEW p \in Pages, UserInput(p) PROVE TmpInv' /\ ScreenInv' /\ RequestInv'
  <2>1. PICK evs : Adds(p, evs) /\ InputOf(p, evs)
    BY <1>2, <1>3, EachInput
  <2> QED
    BY <1>2, <2>1, ScreensInput
<1>4. TmpInv' /\ ScreenInv' /\ RequestInv'
  BY <1>2, <1>3, ScreensLoad, ScreensClose, ScreensCleanup, ScreensAccept, ScreensSendFrame,
     ScreensAnimationFrame, ScreensStay DEF Next, UserInput
<1> QED
  BY <1>1, <1>4 DEF ShownInv

\* The stacks of the pages and of the paper show the same to every client.
LEMMA QuietStacks ==
  ASSUME AgreedInv, Quiet, NEW p \in Pages, live[p], ~view[p].astray
  PROVE  Shown(view[p].increments) = Shown(Replay.increments)
<1>1. TypeInv /\ DragInv /\ QueueInv /\ StackInv /\ AgreeInv
  BY DEF AgreedInv, PaperInv
<1>2. broadcast = <<>> /\ Out[p] = <<>>
  <2>1. outbox[p] = <<>> /\ building[p] = <<>> /\ Out[p] = outbox[p] \o building[p]
    BY <1>1, OutIs DEF Quiet
  <2> QED
    BY <2>1 DEF Quiet
<1>3. view[p] \in Views /\ id[p] \in ClientId /\ Replay.increments \in Stacks
  BY <1>1, OutIs DEF AgreeInv
<1>4. \A cid \in ClientId : Alike(view[p].increments, Replay.increments, cid)
  <2>1. Agree(view[p], id[p], <<>>, <<>>, Replay.increments)
    BY <1>1, <1>2 DEF AgreeInv
  <2> QED
    BY <1>3, <2>1, AgreeInEnd
<1>5. InTurn(view[p].increments)
  BY <1>1 DEF StackInv, Neat
<1>6. Replay \in Views /\ saved \in Seq(Event) /\ \A i \in DOMAIN saved : IsStored(saved[i])
  BY <1>1, Replayed DEF TypeInv, DragInv, AllEvents
<1>7. ~Replay.astray
  BY <1>6, EmptyInViews, StoredHandled DEF Replay
<1>8. Neat(Replay, Objects(saved))
  <2>1. {} \cap ObjectsOf(saved, 0) = {} /\ {} \union ObjectsOf(saved, 0) = Objects(saved)
    BY DEF Objects
  <2> QED
    BY <1>1, <1>6, <2>1, EmptyInViews, EmptyNeat, NeatAll DEF Replay, QueueInv, Stored
<1>9. InTurn(Replay.increments)
  BY <1>7, <1>8 DEF Neat
<1>10. view[p].increments \in Seq(Increment) /\ Replay.increments \in Seq(Increment)
  BY <1>3, <1>6 DEF Views, PageView
<1> QED
  BY <1>4, <1>5, <1>9, <1>10, ShownAlike

\* With nothing on its way nobody drags on a page, and all is drawn.
LEMMA QuietScreens ==
  ASSUME ShownInv, Quiet, NEW p \in Pages, live[p], ~view[p].astray
  PROVE  view[p].shown = Shown(view[p].increments)
<1>1. TypeInv /\ QueueInv /\ TmpInv /\ ScreenInv /\ RequestInv
  BY DEF ShownInv, AgreedInv, PaperInv
<1> DEFINE v == view[p]
<1>2. v \in Views /\ id[p] \in ClientId
  BY <1>1, OutIs
<1>3. broadcast = <<>> /\ \A q \in Pages : Out[q] = <<>> /\ leaving[q] = 0 /\ drag[q] = 0
  <2>1. \A q \in Pages : outbox[q] = <<>> /\ building[q] = <<>> /\ Out[q] = outbox[q] \o building[q]
    BY <1>1, OutIs DEF Quiet
  <2>2. \A q \in Pages : Out[q] = <<>>
    <3>1. <<>> \in Seq(Event)
      OBVIOUS
    <3> QED
      BY <2>1, <3>1, ConcatEmptySeq
  <2> QED
    BY <2>2 DEF Quiet
<1>4. \A cid \in ClientId : ~Tmp(v, cid)
  <2> SUFFICES ASSUME NEW cid \in ClientId, Tmp(v, cid) PROVE FALSE
    OBVIOUS
  <2>1. cid # id[p]
    BY <1>1, <1>3 DEF TmpInv
  <2> DEFINE t == Tmp(v, cid)
             u == DragsAfter(t, broadcast, cid)
  <2>2. Settles(t, cid)
    BY <1>1, <2>1 DEF TmpInv
  <2>3. u <=> t
    BY <1>3, DragsNone
  <2>4. ~Left(cid)
    BY <1>3 DEF Left, ClientId
  <2>5. PICK q \in Pages : live[q] /\ id[q] = cid
    BY <2>2, <2>3, <2>4 DEF Settles
  <2>6. DragsAfter(u, Out[q], cid) => drag[q] # 0
    BY <2>2, <2>4, <2>5 DEF Settles
  <2> HIDE DEF u
  <2>7. DragsAfter(u, Out[q], cid) <=> u
    BY <1>3, DragsNone
  <2> QED
    BY <1>3, <2>3, <2>6, <2>7
<1>5. \A d : d \in Final(v) <=> d \in Shown(v.increments)
  <2>1. PICK drags : OnScreens(drags)
    BY <1>1 DEF ScreenInv
  <2>2. Screen(v, drags)
    BY <2>1 DEF OnScreens, OnScreen
  <2> QED
    BY <1>4, <2>2 DEF Screen, Dragged, Tmp
<1>6. v.drawn = Len(v.increments) /\ v.tmpActions = <<>>
  BY <1>1 DEF RequestInv, Quiet, IsDrawn
<1>7. Strokes(v) = <<>>
  <2> DEFINE s == v.increments
             r == SubSeq(s, Len(s) + 1, Len(s))
  <2>1. s \in Seq(Increment) /\ Strokes(v) = Steps(r)
    BY <1>2, <1>6 DEF Strokes, Views, PageView
  <2> HIDE DEF s
  <2>2. r \in Seq(Increment) /\ Len(r) = 0
    BY <2>1
  <2> HIDE DEF r
  <2>3. Steps(r) \in Seq(DrawStep) /\ Len(Steps(r)) = 0
    BY <2>2, StepsAre
  <2> QED
    BY <2>1, <2>3
<1>8. Final(v) = v.shown
  BY <1>6, <1>7, AfterNone DEF Final, Painted
<1>9. v.shown = Shown(v.increments)
  <2>1. \A d : d \in v.shown <=> d \in Shown(v.increments)
    BY <1>5, <1>8
  <2>2. v.shown \in SUBSET Nat
    BY <1>2 DEF Views, PageView
  <2> HIDE DEF v
  <2> QED
    BY <2>1, <2>2 DEF Shown, After
<1> QED
  BY <1>9

(***************************************************************************)
(* PaperDraw, PaperReceive, PaperSend: when nothing is on its way and all  *)
(* is drawn, every page that did not go astray shows what the saved paper  *)
(* shows when it is loaded again, with any number of pages and inputs, on  *)
(* a paper that has something on it.  That is needed: the search for what  *)
(* to undo stops before the bottom of the stack, so that on an empty paper *)
(* each page cannot undo what it sees first, and pages that draw at the    *)
(* same time do not see the same object first.                             *)
(***************************************************************************)
THEOREM SavedIsShown == OldObjects >= 1 => (Spec => []ShowsSaved)
<1> SUFFICES ASSUME OldObjects >= 1 PROVE Spec => []ShowsSaved
  OBVIOUS
<1>1. Init => ShownInv
  BY AgreeInit, InitTyped, InitQueued, InitStacked, ScreensInit DEF ShownInv, AgreedInv, PaperInv
<1>2. ShownInv => ShowsSaved
  <2> SUFFICES ASSUME ShownInv, Quiet, NEW p \in Pages, live[p], ~view[p].astray
               PROVE  view[p].shown = Shown(Replay.increments)
    BY DEF ShowsSaved
  <2>1. AgreedInv
    BY DEF ShownInv
  <2> QED
    BY <2>1, QuietStacks, QuietScreens
<1> QED
  BY <1>1, <1>2, ShownStep, PTL DEF Spec
================================================================================
