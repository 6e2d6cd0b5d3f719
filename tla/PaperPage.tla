------------------------------ MODULE PaperPage ------------------------------
(***************************************************************************)
(* One page from its connection to its pointer: messages.js connects and   *)
(* reconnects, controlDrawing.js and paperSend.js turn presses, moves and  *)
(* releases into events.  A drag lives in the page and an id lives in a    *)
(* connection; this module is about what happens when they part.           *)
(*                                                                         *)
(* Of the server and of the other pages it has what this page's events     *)
(* meet: the session of the connection, what is saved under each id, and   *)
(* the PaperClients of a page that is always there.                        *)
(*                                                                         *)
(* The page never learns where the button of the pointer is when it is not *)
(* over the paper, or while drawing is disabled, so the pointer's events   *)
(* come in any order.                                                      *)
(***************************************************************************)
EXTENDS Naturals, Sequences, FiniteSets

CONSTANTS
  Ids,        \* client ids the server may give to this page
  Classes,    \* drawing classes
  Polyline,   \* the one a page begins with
  NoClass,    \* of a client that never selected one
  MaxPending  \* bound on the events added, and on those sent, when another comes

ASSUME IdsAssumption == Ids \subseteq Nat \ {0}
ASSUME ClassesAssumption == Polyline \in Classes /\ NoClass \notin Classes
ASSUME MaxPendingAssumption == MaxPending \in Nat

VARIABLES
  socket,         \* "Connecting", "Open", "Dead" (broken, not noticed) or "Closed"
  autoReconnect,  \* the argument of the connect() that made this socket
  timer,          \* a reconnect is due
  building,       \* events added to the message being built
  enabled,        \* drawing is enabled: the page gets pointer events
  clientId,       \* 0 while a stream goes on
  mode,           \* "Draw" or "Point"
  primaryDown,    \* the page takes the button to be down
  points,         \* a drag has points
  own,            \* this page's PaperClient for its own id
  up, down,       \* events to the server, and its stream back
  session,        \* the server's session of this connection
  ghosts,         \* ids of connections that broke, unnoticed by the server
  saved,          \* what is stored under each id
  other,          \* the PaperClients of another page
  pressLost,      \* history: a press outlived its tool or its connection
  stray,          \* history: a Point or Cancel met no temporary object
  wrongId,        \* history: the server got an event under another id than its session's
  misdrawn        \* history: an object was drawn elsewhere with another class

pageVars == <<building, clientId, mode, primaryDown, points, own>>
netVars == <<socket, autoReconnect, timer>>
serverVars == <<session, ghosts, saved, other>>
history == <<pressLost, stray, wrongId, misdrawn>>
vars == <<netVars, enabled, pageVars, up, down, serverVars, history>>

Class == Classes \union {NoClass}

Event == [type : {"Join", "Other", "SelectClass", "Start", "Point", "Cancel", "Object"},
          id : Ids \union {0}, class : Class]

Join == [type |-> "Join", id |-> 0, class |-> NoClass]

\* An event of this page; Start and Object remember the class they are drawn with.
Ev(type) ==
  [type |-> type, id |-> clientId,
   class |-> IF type \in {"Start", "Object"} THEN own.class ELSE NoClass]

----------------------------------------------------------------------------
(***************************************************************************)
(* PaperClient and PaperReceive.drawIncrement, drawObject, of any page.    *)
(***************************************************************************)
NewClient == [class |-> NoClass, action |-> "None"]

\* An error is thrown: there is no class to make an object of, or no action.
Throws(client, e) ==
  \/ e.type \in {"Start", "Object"} /\ client.class = NoClass
  \/ e.type \in {"Point", "Cancel"} /\ client.action = "None"

Strays(client, e) == e.type \in {"Point", "Cancel"} /\ client.action # "Tmp"

Handle(client, e) ==
  IF Throws(client, e) THEN client
  ELSE CASE e.type = "SelectClass" -> [client EXCEPT !.class = e.class]
         [] e.type = "Start" -> [client EXCEPT !.action = "Tmp"]
         [] e.type = "Object" -> [client EXCEPT !.action = "Object"]
         [] e.type = "Cancel" -> [client EXCEPT !.action = "None"]
         [] OTHER -> client

\* A page that loads the paper finds the last object drawn under an id as the
\* action its client is working on.
Replay(id) ==
  [class |-> saved[id].class, action |-> IF saved[id].drawn THEN "Object" ELSE "None"]

----------------------------------------------------------------------------
Papers == [Ids -> {[class |-> NoClass, drawn |-> FALSE], [class |-> Polyline, drawn |-> TRUE]}]

NoSession == [state |-> "None", id |-> 0]

\* A page is loaded: main() connects.
Init ==
  /\ socket = "Connecting"
  /\ autoReconnect = TRUE
  /\ timer = FALSE
  /\ building = <<>>
  /\ enabled = FALSE
  /\ clientId = 0
  /\ mode = "Draw"
  /\ primaryDown = FALSE
  /\ points = FALSE
  /\ own = NewClient
  /\ up = <<>>
  /\ down = <<>>
  /\ session = NoSession
  /\ ghosts = {}
  /\ saved \in Papers
  /\ other = [i \in Ids |-> Replay(i)]
  /\ pressLost = FALSE
  /\ stray = FALSE
  /\ wrongId = FALSE
  /\ misdrawn = FALSE

\* Messages.send on a socket that is open, or that is not any more: then the
\* browser drops what it is given.
MessagesSend(evs) == up' = IF socket = "Open" THEN up \o evs ELSE up

\* PaperSend.send.
Sent(evs) ==
  /\ building' = <<>>
  /\ MessagesSend(building \o evs)

Added(evs) ==
  /\ Len(building) < MaxPending
  /\ building' = building \o evs
  /\ UNCHANGED up

----------------------------------------------------------------------------
(***************************************************************************)
(* messages.js and the listeners of wsConnected and wsDisconnected.        *)
(***************************************************************************)
Connect(auto_reconnect) ==
  /\ socket' = "Connecting"
  /\ autoReconnect' = auto_reconnect
  /\ building' = <<>>

DisableDrawing == enabled' = FALSE
EnableDrawing == enabled' = TRUE

Connected ==
  /\ socket = "Connecting"
  /\ socket' = "Open"
  /\ DisableDrawing
  /\ up' = Append(building, Join)
  /\ building' = <<>>
  /\ UNCHANGED <<autoReconnect, timer, clientId, mode, primaryDown, points, own, down,
                 serverVars, history>>

\* Mutant: leaves drawing enabled.
DisconnectedEnabled ==
  /\ socket \in {"Connecting", "Dead"}
  /\ socket' = "Closed"
  /\ timer' = autoReconnect
  /\ UNCHANGED <<autoReconnect, enabled, pageVars, up, down, serverVars, history>>

\* onclose, after an onerror if there was no connection at all.
Disconnected ==
  /\ socket \in {"Connecting", "Dead"}
  /\ socket' = "Closed"
  /\ DisableDrawing
  /\ timer' = autoReconnect
  /\ UNCHANGED <<autoReconnect, pageVars, up, down, serverVars, history>>

\* Mutant: does not start a new message.
ReconnectKeeping ==
  /\ timer
  /\ timer' = FALSE
  /\ socket' = "Connecting"
  /\ autoReconnect' = FALSE
  /\ UNCHANGED <<enabled, pageVars, up, down, serverVars, history>>

\* delayed_reconnect: connect() without its argument.
Reconnect ==
  /\ timer
  /\ timer' = FALSE
  /\ Connect(FALSE)
  /\ UNCHANGED <<enabled, clientId, mode, primaryDown, points, own, up, down,
                 serverVars, history>>

\* Mutant: a session that never joined leaves, too.
BreakUnjoined ==
  /\ socket = "Open"
  /\ socket' = "Dead"
  /\ up' = <<>>
  /\ down' = <<>>
  /\ ghosts' = ghosts \union {session.id}
  /\ session' = NoSession
  /\ UNCHANGED <<autoReconnect, timer, enabled, pageVars, saved, other, history>>

\* The connection breaks, with what is under way.  The server may take its
\* time to notice.  What a client 0 leaves behind nobody else has.
Break ==
  /\ socket = "Open"
  /\ socket' = "Dead"
  /\ up' = <<>>
  /\ down' = <<>>
  /\ ghosts' = IF session.id = 0 THEN ghosts ELSE ghosts \union {session.id}
  /\ session' = NoSession
  /\ UNCHANGED <<autoReconnect, timer, enabled, pageVars, saved, other, history>>

----------------------------------------------------------------------------
(***************************************************************************)
(* The server, with the other page, which gets at once what is accepted:   *)
(* the frames keep the order.  Error messages are left out: a page shows   *)
(* them and goes on as it is.                                              *)
(***************************************************************************)
\* Mutant: any id.
AcceptJoinAnyId ==
  /\ up # <<>>
  /\ Head(up).type = "Join"
  /\ up' = Tail(up)
  /\ \E i \in Ids : session' = [state |-> "Streaming", id |-> i]
  /\ down' = Append(down, "StreamStart")
  /\ UNCHANGED <<netVars, enabled, pageVars, ghosts, saved, other, history>>

\* join(): an id that no member has.
AcceptJoin ==
  /\ up # <<>>
  /\ Head(up).type = "Join"
  /\ up' = Tail(up)
  /\ \E i \in Ids \ ghosts : session' = [state |-> "Streaming", id |-> i]
  /\ down' = Append(down, "StreamStart")
  /\ UNCHANGED <<netVars, enabled, pageVars, ghosts, saved, other, history>>

\* join() of a full paper: other members may have all the ids there are.  An
\* Error and no StreamStart; but the session has its paper all the same, so
\* the stream comes, and ends under id 0.
JoinFull ==
  /\ up # <<>>
  /\ Head(up).type = "Join"
  /\ up' = Tail(up)
  /\ session' = [state |-> "Streaming", id |-> 0]
  /\ UNCHANGED <<netVars, enabled, pageVars, down, ghosts, saved, other, history>>

\* streamSynced: the stream has come to its end.
Synced ==
  /\ session.state = "Streaming"
  /\ session' = [session EXCEPT !.state = "Live"]
  /\ down' = Append(down, "StreamSynced")
  /\ UNCHANGED <<netVars, enabled, pageVars, up, ghosts, saved, other, history>>

\* stream_all: the stream ends with an Error, and there is no other.
StreamFails ==
  /\ session.state = "Streaming"
  /\ session' = [session EXCEPT !.state = "Failed"]
  /\ UNCHANGED <<netVars, enabled, pageVars, up, down, ghosts, saved, other, history>>

Save(e) ==
  saved' = CASE e.type = "SelectClass" -> [saved EXCEPT ![e.id].class = e.class]
             [] e.type = "Object" -> [saved EXCEPT ![e.id].drawn = TRUE]
             [] OTHER -> saved

\* validate_command, addDraw, and the other page.
Accept ==
  /\ up # <<>>
  /\ Head(up).type # "Join"
  /\ LET e == Head(up)
         client == other[e.id]
     IN IF session.id = 0 \/ e.id # session.id
        THEN /\ wrongId' = (wrongId \/ e.id # session.id)
             /\ UNCHANGED <<saved, other, stray, misdrawn>>
        ELSE /\ Save(e)
             /\ other' = [other EXCEPT ![e.id] = Handle(client, e)]
             /\ stray' = (stray \/ Strays(client, e))
             /\ misdrawn' = (misdrawn \/ (e.type \in {"Start", "Object"} /\ client.class # e.class))
             /\ UNCHANGED wrongId
  /\ up' = Tail(up)
  /\ UNCHANGED <<netVars, enabled, pageVars, down, session, ghosts, pressLost>>

\* leave() of a connection that broke: Cleanup removes a temporary object.
GhostLeaves(i) ==
  /\ i \in ghosts
  /\ ghosts' = ghosts \ {i}
  /\ other' = [other EXCEPT ![i].action = IF @ = "Tmp" THEN "None" ELSE @]
  /\ UNCHANGED <<netVars, enabled, pageVars, up, down, session, saved, history>>

----------------------------------------------------------------------------
\* The PaperClient that a page has for the id it is synced under: 0 comes
\* without a StreamStart, so what was drawn under 0 is still there.
SyncedClient(i) ==
  IF i # 0 THEN Replay(i) ELSE IF clientId = 0 THEN own ELSE NewClient

\* The handlers of StreamStart and StreamSynced, with controlDrawing's
\* listeners.
StreamStart ==
  /\ down # <<>>
  /\ Head(down) = "StreamStart"
  /\ down' = Tail(down)
  /\ DisableDrawing
  /\ clientId' = 0
  /\ own' = NewClient
  /\ UNCHANGED <<netVars, building, mode, primaryDown, points, up, serverVars, history>>

\* Mutant: chooses the polyline for this page only.
StreamSyncedOnly ==
  /\ down # <<>>
  /\ Head(down) = "StreamSynced"
  /\ down' = Tail(down)
  /\ enabled' = TRUE
  /\ clientId' = session.id
  /\ own' = [SyncedClient(session.id) EXCEPT !.class = Polyline]
  /\ mode' = "Draw"
  /\ up' = up \o building \o <<[type |-> "Other", id |-> session.id, class |-> NoClass]>>
  /\ building' = <<>>
  /\ pressLost' = (pressLost \/ primaryDown)
  /\ UNCHANGED <<netVars, primaryDown, points, serverVars, stray, wrongId, misdrawn>>

(***************************************************************************)
(* Colour, width and dashing are selected and sent; the class is selected  *)
(* and waits for the next message.                                         *)
(***************************************************************************)
StreamSynced ==
  /\ down # <<>>
  /\ Head(down) = "StreamSynced"
  /\ down' = Tail(down)
  /\ EnableDrawing
  /\ clientId' = session.id
  /\ own' = [SyncedClient(session.id) EXCEPT !.class = Polyline]
  /\ mode' = "Draw"
  /\ building' = <<[type |-> "SelectClass", id |-> session.id, class |-> Polyline]>>
  /\ up' = up \o building \o <<[type |-> "Other", id |-> session.id, class |-> NoClass]>>
  /\ pressLost' = (pressLost \/ primaryDown)
  /\ UNCHANGED <<netVars, primaryDown, points, serverVars, stray, wrongId, misdrawn>>

----------------------------------------------------------------------------
(***************************************************************************)
(* The pointer and the toolbar, while drawing is enabled.  An event is     *)
(* added to the message before its local echo: when the echo throws, the   *)
(* rest of the handler is not run and the event stays.                     *)
(***************************************************************************)
Input ==
  /\ enabled
  /\ Len(up) < MaxPending
  /\ UNCHANGED <<netVars, enabled, clientId, down, serverVars, wrongId, misdrawn>>

Echo(type) ==
  /\ ~Throws(own, Ev(type))
  /\ own' = Handle(own, Ev(type))
  /\ stray' = (stray \/ Strays(own, Ev(type)))

EchoThrows(type) ==
  /\ Throws(own, Ev(type))
  /\ Added(<<Ev(type)>>)
  /\ stray' = (stray \/ Strays(own, Ev(type)))
  /\ UNCHANGED <<own, points>>

DrawStart ==
  \/ /\ Echo("Start")
     /\ points' = TRUE
     /\ Sent(<<Ev("Start")>>)
  \/ EchoThrows("Start")

\* drawUpdate at another place.
DrawUpdate ==
  \/ /\ Echo("Point")
     /\ points' = TRUE
     /\ Sent(<<Ev("Point")>>)
  \/ EchoThrows("Point")

\* The temporary object goes, the finished one takes its place.
DrawFinish ==
  \/ /\ ~Throws(own, Ev("Cancel"))
     /\ stray' = (stray \/ Strays(own, Ev("Cancel")))
     /\ LET canceled == Handle(own, Ev("Cancel")) IN
          IF points
          THEN own' = Handle(canceled, Ev("Object")) /\ Sent(<<Ev("Cancel"), Ev("Object")>>)
          ELSE own' = canceled /\ Sent(<<Ev("Cancel")>>)
     /\ points' = FALSE
     /\ primaryDown' = FALSE
  \/ EchoThrows("Cancel") /\ UNCHANGED primaryDown

\* It is not sent: it waits for the next message.
DrawCancel ==
  \/ /\ points
     /\ \/ /\ Echo("Cancel")
           /\ Added(<<Ev("Cancel")>>)
           /\ points' = FALSE
           /\ primaryDown' = FALSE
        \/ EchoThrows("Cancel") /\ UNCHANGED primaryDown
  \/ /\ ~points
     /\ primaryDown' = FALSE
     /\ UNCHANGED <<building, up, own, points, stray>>

\* onPointerDown.  A press that ended elsewhere is forgotten.
PointerDown ==
  /\ Input
  /\ primaryDown' = TRUE
  /\ \/ mode = "Draw" /\ DrawStart
     \/ /\ mode = "Point"
        /\ Sent(<<>>)
        /\ UNCHANGED <<own, points, stray>>
  /\ UNCHANGED <<mode, pressLost>>

\* onPointerMove, with all the coalesced moves.
PointerMove ==
  /\ Input
  /\ \/ mode = "Draw" /\ primaryDown /\ DrawUpdate
     \/ /\ ~(mode = "Draw" /\ primaryDown)
        /\ Sent(<<>>)
        /\ UNCHANGED <<own, points, stray>>
  /\ UNCHANGED <<mode, primaryDown, pressLost>>

\* onPointerUp.
PointerUp ==
  /\ Input
  /\ primaryDown
  /\ \/ mode = "Draw" /\ DrawFinish
     \/ /\ mode = "Point"
        /\ primaryDown' = FALSE
        /\ UNCHANGED <<building, up, own, points, stray>>
  /\ UNCHANGED <<mode, pressLost>>

\* Mutant: takes the button to be still down.
CancelOnly ==
  /\ Input
  /\ primaryDown
  /\ \/ /\ points
        /\ \/ Echo("Cancel") /\ Added(<<Ev("Cancel")>>) /\ points' = FALSE
           \/ EchoThrows("Cancel")
     \/ ~points /\ UNCHANGED <<building, up, own, points, stray>>
  /\ UNCHANGED <<mode, primaryDown, pressLost>>

\* cancel: a pinch starts, or onPointerCancel.
Cancel ==
  /\ Input
  /\ primaryDown
  /\ DrawCancel
  /\ UNCHANGED <<mode, pressLost>>

\* A click on a drawing tool; the event waits for the next message.
SelectClass(c) ==
  /\ Input
  /\ own' = [own EXCEPT !.class = c]
  /\ Added(<<[type |-> "SelectClass", id |-> clientId, class |-> c]>>)
  /\ mode' = "Draw"
  /\ pressLost' = (pressLost \/ primaryDown)
  /\ UNCHANGED <<primaryDown, points, stray>>

SelectPointer ==
  /\ Input
  /\ mode' = "Point"
  /\ pressLost' = (pressLost \/ primaryDown)
  /\ UNCHANGED <<building, up, primaryDown, points, own, stray>>

\* A colour, width or dashing, undo and redo: sent at once.
Command ==
  /\ Input
  /\ Sent(<<Ev("Other")>>)
  /\ UNCHANGED <<mode, primaryDown, points, own, pressLost, stray>>

----------------------------------------------------------------------------
Server == AcceptJoin \/ JoinFull \/ Synced \/ StreamFails \/ Accept

Page == Connected \/ Reconnect \/ StreamStart \/ StreamSynced

User ==
  \/ PointerDown \/ PointerMove \/ PointerUp \/ Cancel
  \/ \E c \in Classes : SelectClass(c)
  \/ SelectPointer \/ Command

Next ==
  \/ Server
  \/ Page
  \/ User
  \/ Break
  \/ Disconnected
  \/ \E i \in Ids : GhostLeaves(i)

Spec == Init /\ [][Next]_vars

\* The browser goes on; server and user need not, and connections may hold
\* for ever.
FairSpec == Spec /\ WF_vars(Page)

----------------------------------------------------------------------------
Client == [class : Class, action : {"None", "Tmp", "Object"}]

TypeOK ==
  /\ socket \in {"Connecting", "Open", "Dead", "Closed"}
  /\ autoReconnect \in BOOLEAN
  /\ timer \in BOOLEAN
  /\ building \in Seq(Event)
  /\ enabled \in BOOLEAN
  /\ clientId \in Ids \union {0}
  /\ mode \in {"Draw", "Point"}
  /\ primaryDown \in BOOLEAN
  /\ points \in BOOLEAN
  /\ own \in Client
  /\ up \in Seq(Event)
  /\ down \in Seq({"StreamStart", "StreamSynced"})
  /\ session \in [state : {"None", "Streaming", "Failed", "Live"}, id : Ids \union {0}]
  /\ ghosts \subseteq Ids
  /\ saved \in [Ids -> [class : Class, drawn : BOOLEAN]]
  /\ other \in [Ids -> Client]
  /\ pressLost \in BOOLEAN
  /\ stray \in BOOLEAN
  /\ wrongId \in BOOLEAN
  /\ misdrawn \in BOOLEAN

(***************************************************************************)
(* Drawing is enabled only on a page that draws under the id of its        *)
(* session: the connection is synced, or broke since without the page      *)
(* knowing.  So nobody draws into a paper that is being loaded or failed   *)
(* to load, and nothing is given to a socket that is still connecting,     *)
(* which would throw.  Under id 0, of a full paper, all drawn is refused.  *)
(***************************************************************************)
EnabledWhenSynced ==
  enabled =>
    \/ socket = "Open" /\ session = [state |-> "Live", id |-> clientId] /\ down = <<>>
    \/ socket = "Dead"

(***************************************************************************)
(* The server never gets an event under another id than its session's:     *)
(* whatever was queued when a connection broke is not sent under the old   *)
(* id by the next.                                                         *)
(***************************************************************************)
OwnIdOnly == ~wrongId

(***************************************************************************)
(* Every object is drawn elsewhere with the class it was drawn with here,  *)
(* although a selected class is sent late and ids change hands with the    *)
(* classes their last owners selected.                                     *)
(***************************************************************************)
SameClass == ~misdrawn

(***************************************************************************)
(* When everything was handled, another page sees this one, if it has an   *)
(* id, as it sees itself: the same class, and a temporary object exactly   *)
(* if there is one here, also after a Cancel that waited and after a       *)
(* reconnect.                                                              *)
(***************************************************************************)
EchoAgrees ==
  enabled /\ clientId # 0 /\ socket = "Open" /\ building = <<>> /\ up = <<>> =>
    /\ other[clientId].class = own.class
    /\ (other[clientId].action = "Tmp") = (own.action = "Tmp")

(***************************************************************************)
(* A Point or Cancel never meets another object than the one of its drag,  *)
(* which would change a finished object or throw, here or elsewhere, as    *)
(* long as no press outlived the tool or the connection it began with.     *)
(***************************************************************************)
StraysAfterLostPress == stray => pressLost

(***************************************************************************)
(* The page tries to connect again whenever its connection is gone, as the *)
(* message it shows says.                                                  *)
(***************************************************************************)
TriesToReconnect == (socket = "Closed") ~> (socket = "Connecting")
=============================================================================
