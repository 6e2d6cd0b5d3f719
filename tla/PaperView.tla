------------------------------ MODULE PaperView ------------------------------
(***************************************************************************)
(* What browsers make of one paper (wwwdir/*.js): each page draws its own  *)
(* user's input at once (local echo), ignores it when it comes back from   *)
(* the server, and draws what the others do in the order of the server.    *)
(* Undo and redo are not sent as "hide this object": each page looks for   *)
(* the action to undo in its own stack of increments.                      *)
(*                                                                         *)
(* The server is what PaperServer shows of it: events are accepted one by  *)
(* one, a loading page gets all stored events, and every frame brings the  *)
(* live pages everything since the frame before.  Pages are loaded and     *)
(* closed; a page that reconnects by itself is left out.                   *)
(*                                                                         *)
(* An object stands for its element, numbered by the input that made it;   *)
(* points, classes and colours are payload.                                *)
(***************************************************************************)
EXTENDS Naturals, Sequences, FiniteSets, SequencesExt

CONSTANTS
  Pages,       \* browser pages
  OldObjects,  \* objects on the paper from earlier days, drawn under id 1
  MaxInputs,   \* bound on the inputs of users
  MaxLoads     \* bound on the pages loaded

ASSUME OldObjectsAssumption == OldObjects \in Nat
ASSUME PagesAssumption == IsFiniteSet(Pages) /\ Pages # {}
ASSUME BoundsAssumption == MaxInputs \in Nat /\ MaxLoads \in Nat

ClientId == 1..Cardinality(Pages)

\* "Start", "Point" and "Cancel" are increments that are not stored; "Object"
\* is a finished object, and "Cleanup" what the server sends for a page that left.
Event == [type : {"Start", "Point", "Cancel", "Object", "Undo", "Redo", "Cleanup"},
          id : ClientId, el : Nat]

Ev(type, cid, el) == [type |-> type, id |-> cid, el |-> el]

IsStored(e) == e.type \in {"Object", "Undo", "Redo"}

VARIABLES
  live,       \* live[p]: the page is synced and gets frames
  id,         \* id[p]: the id StreamSynced gave it
  view,       \* view[p]: its PaperDraw and PaperClients
  drag,       \* drag[p]: the element its user is dragging, or 0
  building,   \* building[p]: events added to the message being built
  outbox,     \* outbox[p]: events sent, not yet handled by the server
  leaving,    \* leaving[p]: id of the connection whose Cleanup is due, or 0
  broadcast,  \* events since the last frame
  saved,      \* all stored events
  inputs,     \* number of inputs so far
  loads       \* number of pages loaded so far

userVars == <<drag, building, outbox, inputs>>
serverVars == <<leaving, broadcast, saved>>
vars == <<live, id, view, userVars, serverVars, loads>>

----------------------------------------------------------------------------
(***************************************************************************)
(* PaperDraw: the stack of increments, of which the first `drawn` are on   *)
(* the screen, temporary actions waiting for the next animation frame, and *)
(* for each client the action it is working on.  An undo hides an element; *)
(* objects and redos, which undo an undo, show one.                        *)
(***************************************************************************)
NoAction == [el |-> 0, tmp |-> FALSE]

EmptyView ==
  [increments |-> <<>>, drawn |-> 0, tmpActions |-> <<>>,
   currentAction |-> [i \in ClientId |-> NoAction],
   shown |-> {}, drawRequested |-> FALSE,
   failed |-> FALSE,   \* a handler threw, the rest of the message is dropped
   astray |-> FALSE]   \* history: was sent less, or more, than what happened

Push(v, kind, cid, el) ==
  [v EXCEPT !.increments = Append(@, [kind |-> kind, id |-> cid, el |-> el])]

PushTmp(v, shows, el) ==
  [v EXCEPT !.tmpActions = Append(@, [shows |-> shows, el |-> el])]

SetAction(v, cid, action) == [v EXCEPT !.currentAction[cid] = action]

\* The client's increments of some kinds above place i of the stack.
Above(v, cid, i, kinds) ==
  Cardinality({j \in i + 1..Len(v.increments) :
                 v.increments[j].id = cid /\ v.increments[j].kind \in kinds})

\* Mutant: undoes the last action of whoever it is.
UndoableOfAll(v, cid) ==
  {i \in 2..Len(v.increments) : v.increments[i].kind # "Undo"}

(***************************************************************************)
(* addUndo: downwards from the top, every undo makes the search skip one   *)
(* action; the first that is not skipped is undone.  The loop stops before *)
(* the bottom of the stack.                                                *)
(***************************************************************************)
Undoable(v, cid) ==
  {i \in 2..Len(v.increments) :
     /\ v.increments[i].id = cid
     /\ v.increments[i].kind # "Undo"
     /\ Above(v, cid, i, {"Undo"}) = Above(v, cid, i, {"Object", "Redo"})}

\* Mutant: does not skip what was redone.
RedoableAgain(v, cid) ==
  {i \in 2..Len(v.increments) :
     v.increments[i].id = cid /\ v.increments[i].kind = "Undo"}

\* addRedo: the same for undos, skipping one for every redo.
Redoable(v, cid) ==
  {i \in 2..Len(v.increments) :
     /\ v.increments[i].id = cid
     /\ v.increments[i].kind = "Undo"
     /\ Above(v, cid, i, {"Redo"}) = Above(v, cid, i, {"Undo"})}

PushFirst(v, kind, cid, places) ==
  IF places = {} THEN v ELSE Push(v, kind, cid, v.increments[Max(places)].el)

----------------------------------------------------------------------------
\* PaperReceive: a page handles an event, its own (local echo) or another's.
\* Cancel and AddPoint work on the current action, whatever it is.
Cancelled(v, cid) ==
  SetAction(PushTmp(v, FALSE, v.currentAction[cid].el), cid, NoAction)

Handle(v, e) ==
  LET current == v.currentAction[e.id]
      unexpected == IF e.type = "Start" THEN current.tmp
                    ELSE e.type \in {"Point", "Cancel"} /\ ~current.tmp
      w == [v EXCEPT !.astray = @ \/ unexpected,
                     !.failed = e.type \in {"Point", "Cancel"} /\ current = NoAction]
  IN IF v.failed THEN v
     ELSE IF w.failed THEN w
     ELSE CASE e.type = "Start" ->
                 SetAction(PushTmp(w, TRUE, e.el), e.id, [el |-> e.el, tmp |-> TRUE])
            [] e.type = "Point" -> w
            [] e.type = "Cancel" -> Cancelled(w, e.id)
            [] e.type = "Object" ->
                 SetAction(Push(w, "Object", e.id, e.el), e.id, [el |-> e.el, tmp |-> FALSE])
            [] e.type = "Undo" -> PushFirst(w, "Undo", e.id, Undoable(w, e.id))
            [] e.type = "Redo" -> PushFirst(w, "Redo", e.id, Redoable(w, e.id))
            [] e.type = "Cleanup" -> IF current.tmp THEN Cancelled(w, e.id) ELSE w

\* A page passes over the events of its own id, which is 0 before it has one.
\* What is left of a view after the first n events, and after all of them.
HandleUpTo(v, own, evs) ==
  LET upTo[n \in 0..Len(evs)] ==
        IF n = 0 THEN v
        ELSE IF evs[n].id = own THEN upTo[n - 1] ELSE Handle(upTo[n - 1], evs[n])
  IN upTo

HandleAll(v, own, evs) == HandleUpTo(v, own, evs)[Len(evs)]

\* call_handlers: a page ends a message in which a handler throws, before the
\* request to draw.
Receive(v, own, msg) ==
  LET w == HandleAll(v, own, msg)
  IN [w EXCEPT !.failed = FALSE, !.drawRequested = @ \/ ~w.failed]

\* draw(): the increments not drawn yet, then the temporary actions.  Of the
\* steps with the same element the last decides whether it shows.
Steps(increments) ==
  [i \in DOMAIN increments |->
     [shows |-> increments[i].kind # "Undo", el |-> increments[i].el]]

After(shown, steps) ==
  LET last == {i \in DOMAIN steps :
                 \A j \in i + 1..Len(steps) : steps[j].el # steps[i].el}
  IN (shown \ {steps[i].el : i \in last})
       \union {steps[i].el : i \in {j \in last : steps[j].shows}}

Shown(increments) == After({}, Steps(increments))

Draw(v) ==
  LET new == SubSeq(v.increments, v.drawn + 1, Len(v.increments))
  IN [v EXCEPT !.shown = After(@, Steps(new) \o v.tmpActions),
               !.drawn = Len(v.increments),
               !.tmpActions = <<>>,
               !.drawRequested = FALSE]

----------------------------------------------------------------------------
OldObject(n) == Ev("Object", 1, n)

Init ==
  /\ live = [p \in Pages |-> FALSE]
  /\ id = [p \in Pages |-> 1]
  /\ view = [p \in Pages |-> EmptyView]
  /\ drag = [p \in Pages |-> 0]
  /\ building = [p \in Pages |-> <<>>]
  /\ outbox = [p \in Pages |-> <<>>]
  /\ leaving = [p \in Pages |-> 0]
  /\ broadcast = <<>>
  /\ saved = [n \in 1..OldObjects |-> OldObject(n)]
  /\ inputs = OldObjects
  /\ loads = 0

(***************************************************************************)
(* A page is loaded and joins: StreamStart clears it, the stored events    *)
(* come as if from others, StreamSynced brings its id and enables drawing. *)
(* Stored events that wait for the next frame will come to it twice.       *)
(***************************************************************************)
UsedIds == {id[p] : p \in {q \in Pages : live[q]}}

\* Mutant: does not skip 0.
FreeIdFromZero == Min({0} \union (ClientId \ UsedIds))

FirstFreeId == Min(ClientId \ UsedIds)

Replay == HandleAll(EmptyView, 0, saved)

Load(p) ==
  /\ ~live[p]
  /\ leaving[p] = 0
  /\ loads < MaxLoads
  /\ loads' = loads + 1
  /\ live' = [live EXCEPT ![p] = TRUE]
  /\ id' = [id EXCEPT ![p] = FirstFreeId]
  /\ view' = [view EXCEPT ![p] =
       [Replay EXCEPT !.drawRequested = TRUE,
                      !.astray = \E i \in DOMAIN broadcast : IsStored(broadcast[i])]]
  /\ UNCHANGED <<userVars, serverVars>>

\* The page is closed and what it did not send is gone; its id is free at
\* once, its Cleanup comes later.
Close(p) ==
  /\ live[p]
  /\ live' = [live EXCEPT ![p] = FALSE]
  /\ view' = [view EXCEPT ![p] = EmptyView]
  /\ drag' = [drag EXCEPT ![p] = 0]
  /\ building' = [building EXCEPT ![p] = <<>>]
  /\ outbox' = [outbox EXCEPT ![p] = <<>>]
  /\ leaving' = [leaving EXCEPT ![p] = id[p]]
  /\ UNCHANGED <<id, broadcast, saved, inputs, loads>>

Cleanup(p) ==
  /\ leaving[p] # 0
  /\ broadcast' = Append(broadcast, Ev("Cleanup", leaving[p], 0))
  /\ leaving' = [leaving EXCEPT ![p] = 0]
  /\ UNCHANGED <<live, id, view, userVars, saved, loads>>

----------------------------------------------------------------------------
(***************************************************************************)
(* Input.  PaperSend adds events to the message and echoes them; send()    *)
(* hands the message over and asks for a draw.                             *)
(***************************************************************************)
Echoed(p, evs) == HandleAll(view[p], 0, evs)

AddEvents(p, evs) ==
  /\ building' = [building EXCEPT ![p] = @ \o evs]
  /\ view' = [view EXCEPT ![p] = Echoed(p, evs)]
  /\ UNCHANGED outbox

SendEvents(p, evs) ==
  /\ outbox' = [outbox EXCEPT ![p] = @ \o building[p] \o evs]
  /\ building' = [building EXCEPT ![p] = <<>>]
  /\ view' = [view EXCEPT ![p] = [Echoed(p, evs) EXCEPT !.drawRequested = TRUE]]

Input(p) ==
  /\ live[p]
  /\ inputs < MaxInputs
  /\ inputs' = inputs + 1
  /\ UNCHANGED <<live, id, serverVars, loads>>

DrawStart(p) ==
  /\ Input(p)
  /\ drag[p] = 0
  /\ drag' = [drag EXCEPT ![p] = inputs + 1]
  /\ SendEvents(p, <<Ev("Start", id[p], inputs + 1)>>)

DrawUpdate(p) ==
  /\ Input(p)
  /\ drag[p] # 0
  /\ SendEvents(p, <<Ev("Point", id[p], 0)>>)
  /\ UNCHANGED drag

\* The temporary object makes way for the finished one, which is another
\* element.  This ends an input that was counted when it began.
DrawFinish(p) ==
  /\ live[p]
  /\ drag[p] # 0
  /\ drag' = [drag EXCEPT ![p] = 0]
  /\ SendEvents(p, <<Ev("Cancel", id[p], 0), Ev("Object", id[p], MaxInputs + drag[p])>>)
  /\ UNCHANGED <<live, id, inputs, serverVars, loads>>

\* Mutant: keeps the points of the drag.
DrawCancelled(p) ==
  /\ Input(p)
  /\ drag[p] # 0
  /\ AddEvents(p, <<Ev("Cancel", id[p], 0)>>)
  /\ UNCHANGED drag

\* A pinch begins: cancelled, but not sent before the next message is.
DrawCancel(p) ==
  /\ Input(p)
  /\ drag[p] # 0
  /\ drag' = [drag EXCEPT ![p] = 0]
  /\ AddEvents(p, <<Ev("Cancel", id[p], 0)>>)

Undo(p) ==
  /\ Input(p)
  /\ SendEvents(p, <<Ev("Undo", id[p], 0)>>)
  /\ UNCHANGED drag

Redo(p) ==
  /\ Input(p)
  /\ SendEvents(p, <<Ev("Redo", id[p], 0)>>)
  /\ UNCHANGED drag

\* The pointer moves: the cursor goes out with what is waiting.
MoveCursor(p) ==
  /\ live[p]
  /\ building[p] # <<>>
  /\ SendEvents(p, <<>>)
  /\ UNCHANGED <<live, id, drag, inputs, serverVars, loads>>

----------------------------------------------------------------------------
\* The server handles the next event of a page.
Accept(p) ==
  /\ outbox[p] # <<>>
  /\ LET e == Head(outbox[p]) IN
       /\ broadcast' = Append(broadcast, e)
       /\ saved' = IF IsStored(e) THEN Append(saved, e) ELSE saved
  /\ outbox' = [outbox EXCEPT ![p] = Tail(@)]
  /\ UNCHANGED <<live, id, view, drag, building, inputs, leaving, loads>>

(***************************************************************************)
(* A frame.  The pages get it at once: getting it later is no different    *)
(* from having had their own input earlier.                                *)
(***************************************************************************)
SendFrame ==
  /\ broadcast # <<>>
  /\ view' = [p \in Pages |-> IF live[p] THEN Receive(view[p], id[p], broadcast) ELSE view[p]]
  /\ broadcast' = <<>>
  /\ UNCHANGED <<live, id, userVars, leaving, saved, loads>>

AnimationFrame(p) ==
  /\ live[p]
  /\ view[p].drawRequested
  /\ view' = [view EXCEPT ![p] = Draw(@)]
  /\ UNCHANGED <<live, id, userVars, serverVars, loads>>

Next ==
  \/ \E p \in Pages :
       \/ Load(p) \/ Close(p) \/ Cleanup(p)
       \/ DrawStart(p) \/ DrawUpdate(p) \/ DrawFinish(p) \/ DrawCancel(p)
       \/ Undo(p) \/ Redo(p) \/ MoveCursor(p)
       \/ Accept(p) \/ AnimationFrame(p)
  \/ SendFrame

Spec == Init /\ [][Next]_vars

----------------------------------------------------------------------------
Increment == [kind : {"Object", "Undo", "Redo"}, id : ClientId, el : Nat]

TypeOK ==
  /\ live \in [Pages -> BOOLEAN]
  /\ id \in [Pages -> ClientId]
  /\ \A p \in Pages :
       /\ view[p].increments \in Seq(Increment)
       /\ view[p].drawn \in 0..Len(view[p].increments)
       /\ view[p].tmpActions \in Seq([shows : BOOLEAN, el : Nat])
       /\ view[p].currentAction \in [ClientId -> [el : Nat, tmp : BOOLEAN]]
       /\ view[p].shown \subseteq Nat
       /\ view[p].drawRequested \in BOOLEAN
       /\ view[p].failed \in BOOLEAN
       /\ view[p].astray \in BOOLEAN
  /\ drag \in [Pages -> Nat]
  /\ building \in [Pages -> Seq(Event)]
  /\ outbox \in [Pages -> Seq(Event)]
  /\ leaving \in [Pages -> ClientId \union {0}]
  /\ broadcast \in Seq(Event)
  /\ saved \in Seq(Event)
  /\ inputs \in Nat
  /\ loads \in Nat

\* Nothing is on its way and everything is on the screens.
Quiet ==
  /\ broadcast = <<>>
  /\ \A p \in Pages :
       /\ drag[p] = 0 /\ building[p] = <<>> /\ outbox[p] = <<>> /\ leaving[p] = 0
       /\ ~view[p].drawRequested

(***************************************************************************)
(* When nothing is on its way, every page shows what the saved paper will  *)
(* show when it is loaded again, so all of them show the same, although a  *)
(* page draws its own input before the others' and each undo and redo is   *)
(* searched for in another stack.  Nothing temporary is left behind.  The  *)
(* exceptions are the pages that went astray: they were loaded during      *)
(* another's drag or just before a frame, or they saw an id that was taken *)
(* again before its Cleanup.  It takes a paper with something on it        *)
(* (OldObjects >= 1): the search for what to undo never gets to the bottom *)
(* of a stack, and on an empty paper pages may have different objects      *)
(* there.                                                                  *)
(***************************************************************************)
ShowsSaved ==
  Quiet => \A p \in Pages :
    live[p] /\ ~view[p].astray => view[p].shown = Shown(Replay.increments)

(***************************************************************************)
(* A user's own input never makes a handler throw, whatever came from      *)
(* others before: Cancel and AddPoint find the action they are for.        *)
(***************************************************************************)
InputHandled == \A p \in Pages : ~view[p].failed

(***************************************************************************)
(* Each undo in a stack hides an object that shows at that point, and each *)
(* redo brings back one that does not: the search that skips actions never *)
(* hits one that was undone, or redone, before.                            *)
(***************************************************************************)
UndoChangesPaper ==
  \A p \in Pages :
    LET incs == view[p].increments IN
      ~view[p].astray => \A i \in DOMAIN incs :
        LET before == Shown(SubSeq(incs, 1, i - 1)) IN
          (incs[i].kind = "Undo") = (incs[i].el \in before)
=============================================================================
