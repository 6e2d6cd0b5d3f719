---------------------------- MODULE PaperPageProofs ----------------------------
(***************************************************************************)
(* For any ids, classes and lengths of the queues: nobody draws while the  *)
(* paper is loaded, no event reaches the server under an id that the       *)
(* connection does not have, and other pages hold of this page's drawing   *)
(* what its local echo holds.                                              *)
(*                                                                         *)
(* Phase is the course of a connection: what is on its way at each point   *)
(* of it, and under which id.  The first two results follow from it.       *)
(* EchoInv adds what the events on their way will do to another page:      *)
(* handled in turn from where that page stands, they end where the local   *)
(* echo is.                                                                *)
(***************************************************************************)
EXTENDS PaperPage, SequenceTheorems, TLAPS

\* What a page adds once it has an id.
OfPage(i) == {e \in Event : e.type # "Join" /\ e.id = i}

Joining ==
  /\ session = NoSession /\ up = <<Join>> /\ down = <<>>
  /\ building = <<>> /\ ~enabled

Loading ==
  /\ session.state \in {"Streaming", "Failed"} /\ session.id \in Ids \union {0}
  /\ up = <<>> /\ down \in {<<"StreamStart">>, <<>>}
  /\ building = <<>> /\ ~enabled

Loaded ==
  /\ session.state = "Live" /\ session.id \in Ids \union {0}
  /\ up = <<>> /\ down \in {<<"StreamStart", "StreamSynced">>, <<"StreamSynced">>}
  /\ building = <<>> /\ ~enabled

Drawing ==
  /\ session.state = "Live" /\ session.id \in Ids \union {0} /\ clientId = session.id
  /\ down = <<>> /\ enabled
  /\ up \in Seq(OfPage(clientId)) /\ building \in Seq(OfPage(clientId))

Phase ==
  /\ timer => socket = "Closed"
  /\ socket \in {"Connecting", "Closed"} => ~enabled
  /\ socket = "Connecting" => building = <<>>
  /\ socket # "Open" => session = NoSession /\ up = <<>> /\ down = <<>>
  /\ socket = "Open" => Joining \/ Loading \/ Loaded \/ Drawing

----------------------------------------------------------------------------
LEMMA IdNotZero == \A i \in Ids : i # 0
BY IdsAssumption

LEMMA EventTypes ==
  /\ \A i : OfPage(i) \subseteq Event
  /\ Join \in Event /\ Join.type = "Join"
  /\ \A e \in Event : e.type \in {"Join", "Other", "SelectClass", "Start", "Point", "Cancel", "Object"}
                      /\ e.id \in Ids \union {0} /\ e.class \in Class
BY DEF OfPage, Event, Join, Class

\* What the page adds, in whatever state it is.
LEMMA EvType ==
  ASSUME TypeOK, NEW type \in {"Other", "Start", "Point", "Cancel", "Object"}
  PROVE  /\ Ev(type) \in OfPage(clientId)
         /\ Ev(type).type = type
<1>1. own.class \in Class /\ NoClass \in Class
  BY DEF TypeOK, Client, Class
<1> QED
  BY <1>1 DEF TypeOK, Ev, Event, OfPage

\* Events are handled by well-formed clients into well-formed clients.
LEMMA HandleType ==
  ASSUME NEW client \in Client, NEW e \in Event
  PROVE  /\ Handle(client, e) \in Client
         /\ e.type # "SelectClass" => Handle(client, e).class = client.class
BY DEF Handle, Client, Event

LEMMA ReplayType ==
  ASSUME TypeOK, NEW i \in Ids
  PROVE  Replay(i) \in Client
BY DEF TypeOK, Replay, Client

LEMMA NewClientType == NewClient \in Client
BY DEF NewClient, Client, Class

LEMMA SyncedClientType ==
  ASSUME TypeOK, NEW i \in Ids \union {0}
  PROVE  SyncedClient(i) \in Client
BY ReplayType, NewClientType DEF SyncedClient, TypeOK

\* Sequences of one and two elements, and what is left of them.
LEMMA Short ==
  ASSUME NEW S, NEW a \in S, NEW b \in S
  PROVE  /\ <<a>> \in Seq(S) /\ <<a, b>> \in Seq(S) /\ <<>> \in Seq(S)
         /\ <<a>> # <<>> /\ <<a, b>> # <<>> /\ <<a, b>> # <<a>>
         /\ Head(<<a>>) = a /\ Tail(<<a>>) = <<>>
         /\ Head(<<a, b>>) = a /\ Tail(<<a, b>>) = <<b>>
         /\ Append(<<>>, a) = <<a>> /\ Append(<<a>>, b) = <<a, b>>
         /\ <<>> \o <<a>> = <<a>>
<1>1. <<a>> \in Seq(S) /\ <<a, b>> \in Seq(S) /\ <<>> \in Seq(S)
  OBVIOUS
<1>2. Len(<<a>>) = 1 /\ Len(<<a, b>>) = 2 /\ Len(<<>>) = 0
  OBVIOUS
<1>3. <<a>> # <<>> /\ <<a, b>> # <<>> /\ <<a, b>> # <<a>>
  BY <1>2
<1>4. Head(<<a>>) = a /\ Tail(<<a>>) = <<>>
  OBVIOUS
<1>5. Head(<<a, b>>) = a /\ Tail(<<a, b>>) = <<b>>
  OBVIOUS
<1>6. Append(<<>>, a) = <<a>> /\ Append(<<a>>, b) = <<a, b>>
  <2>1. Append(<<>>, a) \in Seq(S) /\ Append(<<a>>, b) \in Seq(S)
    BY <1>1
  <2>2. Len(Append(<<>>, a)) = 1 /\ Append(<<>>, a)[1] = a
    BY <1>1, <1>2, AppendProperties
  <2>3. /\ Len(Append(<<a>>, b)) = 2
        /\ Append(<<a>>, b)[1] = <<a>>[1] /\ Append(<<a>>, b)[2] = b
    BY <1>1, <1>2, AppendProperties
  <2>4. Append(<<>>, a) = <<a>>
    BY <1>1, <1>2, <2>1, <2>2, SeqEqual
  <2>5. Append(<<a>>, b) = <<a, b>>
    <3> DEFINE x == Append(<<a>>, b)
               y == <<a, b>>
    <3>1. y[1] = a /\ y[2] = b /\ <<a>>[1] = a /\ Len(y) = 2
      OBVIOUS
    <3>2. x[1] = y[1] /\ x[2] = y[2] /\ Len(x) = Len(y) /\ x \in Seq(S) /\ y \in Seq(S)
      BY <1>1, <2>1, <2>3, <3>1
    <3> HIDE DEF x, y
    <3>3. \A i \in 1..Len(x) : x[i] = y[i]
      BY <3>1, <3>2
    <3>4. x = y
      BY <3>2, <3>3, SeqEqual
    <3> QED
      BY <3>4 DEF x, y
  <2> QED
    BY <2>4, <2>5
<1>7. <<>> \o <<a>> = <<a>>
  OBVIOUS
<1> QED
  BY <1>1, <1>3, <1>4, <1>5, <1>6, <1>7

\* The types, part by part.
NetTypes ==
  /\ socket \in {"Connecting", "Open", "Dead", "Closed"}
  /\ autoReconnect \in BOOLEAN /\ timer \in BOOLEAN /\ enabled \in BOOLEAN
  /\ up \in Seq(Event) /\ down \in Seq({"StreamStart", "StreamSynced"})

PageTypes ==
  /\ building \in Seq(Event) /\ clientId \in Ids \union {0} /\ mode \in {"Draw", "Point"}
  /\ primaryDown \in BOOLEAN /\ points \in BOOLEAN /\ own \in Client

ServerTypes ==
  /\ session \in [state : {"None", "Streaming", "Failed", "Live"}, id : Ids \union {0}]
  /\ ghosts \subseteq Ids
  /\ saved \in [Ids -> [class : Class, drawn : BOOLEAN]]
  /\ other \in [Ids -> Client]

HistoryTypes ==
  pressLost \in BOOLEAN /\ stray \in BOOLEAN /\ wrongId \in BOOLEAN /\ misdrawn \in BOOLEAN

LEMMA TypeParts ==
  /\ TypeOK <=> NetTypes /\ PageTypes /\ ServerTypes /\ HistoryTypes
  /\ TypeOK' <=> NetTypes' /\ PageTypes' /\ ServerTypes' /\ HistoryTypes'
BY DEF TypeOK, NetTypes, PageTypes, ServerTypes, HistoryTypes

\* What the server may send down.
LEMMA Words ==
  /\ Head(<<"StreamStart">>) = "StreamStart" /\ Tail(<<"StreamStart">>) = <<>>
  /\ Head(<<"StreamSynced">>) = "StreamSynced" /\ Tail(<<"StreamSynced">>) = <<>>
  /\ Head(<<"StreamStart", "StreamSynced">>) = "StreamStart"
  /\ Tail(<<"StreamStart", "StreamSynced">>) = <<"StreamSynced">>
  /\ Append(<<>>, "StreamStart") = <<"StreamStart">>
  /\ Append(<<>>, "StreamSynced") = <<"StreamSynced">>
  /\ Append(<<"StreamStart">>, "StreamSynced") = <<"StreamStart", "StreamSynced">>
  /\ <<"StreamStart">> # <<>> /\ <<"StreamSynced">> # <<>>
  /\ <<"StreamStart", "StreamSynced">> # <<>>
  /\ {<<>>, <<"StreamStart">>, <<"StreamSynced">>, <<"StreamStart", "StreamSynced">>}
       \subseteq Seq({"StreamStart", "StreamSynced"})
<1>1. "StreamStart" \in {"StreamStart", "StreamSynced"}
      /\ "StreamSynced" \in {"StreamStart", "StreamSynced"}
  OBVIOUS
<1> QED
  BY <1>1, Short

----------------------------------------------------------------------------
(***************************************************************************)
(* What an input may do to the events under way.                           *)
(***************************************************************************)
Outgoing ==
  /\ building' \in Seq(Event) /\ up' \in Seq(Event)
  /\ socket = "Open" => building' \in Seq(OfPage(clientId)) /\ up' \in Seq(OfPage(clientId))
  /\ socket # "Open" => up' = up

\* While drawing is enabled the page is drawing, or does not know better.
LEMMA EnabledPhase ==
  ASSUME TypeOK, Phase, enabled
  PROVE  /\ socket \in {"Open", "Dead"}
         /\ socket = "Open" => Drawing
BY DEF TypeOK, Phase, Joining, Loading, Loaded

LEMMA SentOutgoing ==
  ASSUME TypeOK, Phase, enabled, NEW evs \in Seq(OfPage(clientId)), Sent(evs)
  PROVE  Outgoing
<1>1. evs \in Seq(Event)
  BY EventTypes, SeqMonotonic
<1>2. building \in Seq(Event) /\ up \in Seq(Event)
  BY DEF TypeOK
<1>3. up \o (building \o evs) \in Seq(Event)
  BY <1>1, <1>2, ConcatProperties
<1>4. ASSUME socket = "Open"
      PROVE  up \o (building \o evs) \in Seq(OfPage(clientId))
  BY <1>4, EnabledPhase, ConcatProperties DEF Drawing
<1> QED
  BY <1>2, <1>3, <1>4, EmptySeq DEF Sent, MessagesSend, Outgoing

LEMMA AddedOutgoing ==
  ASSUME TypeOK, Phase, enabled, NEW evs \in Seq(OfPage(clientId)), Added(evs)
  PROVE  Outgoing
<1>1. evs \in Seq(Event)
  BY EventTypes, SeqMonotonic
<1>2. building \in Seq(Event) /\ up \in Seq(Event)
  BY DEF TypeOK
<1>3. building \o evs \in Seq(Event)
  BY <1>1, <1>2, ConcatProperties
<1>4. ASSUME socket = "Open"
      PROVE  building \o evs \in Seq(OfPage(clientId)) /\ up \in Seq(OfPage(clientId))
  BY <1>4, EnabledPhase, ConcatProperties DEF Drawing
<1> QED
  BY <1>2, <1>3, <1>4 DEF Added, Outgoing

LEMMA NothingOutgoing ==
  ASSUME TypeOK, Phase, enabled, UNCHANGED <<building, up>>
  PROVE  Outgoing
BY EnabledPhase DEF TypeOK, Outgoing, Drawing

\* An input that keeps the page's types and sends only its own events.
InputTypes ==
  /\ mode' \in {"Draw", "Point"} /\ primaryDown' \in BOOLEAN /\ points' \in BOOLEAN
  /\ own' \in Client /\ pressLost' \in BOOLEAN /\ stray' \in BOOLEAN

LEMMA InputInductive ==
  ASSUME TypeOK, Phase, Input, Outgoing, InputTypes
  PROVE  TypeOK' /\ Phase'
<1>1. enabled /\ UNCHANGED <<socket, autoReconnect, timer, enabled, clientId, down, session,
                             ghosts, saved, other, wrongId, misdrawn>>
  BY DEF Input, netVars, serverVars
<1>2. TypeOK'
  BY <1>1 DEF TypeOK, Outgoing, InputTypes
<1>3. CASE socket = "Open"
  <2>1. Drawing
    BY <1>1, <1>3, EnabledPhase
  <2>2. Drawing'
    BY <1>1, <1>3, <2>1 DEF Drawing, Outgoing, OfPage
  <2> QED
    BY <1>1, <1>2, <1>3, <2>2, EnabledPhase DEF Phase
<1>4. CASE socket # "Open"
  BY <1>1, <1>2, <1>4, EnabledPhase DEF Phase, Outgoing
<1> QED
  BY <1>2, <1>3, <1>4
----------------------------------------------------------------------------
\* The local echo, and what is left when it throws.
LEMMA EchoType ==
  ASSUME TypeOK, NEW type \in {"Start", "Point", "Cancel", "Object"}, Echo(type)
  PROVE  own' \in Client /\ stray' \in BOOLEAN
<1>1. own \in Client /\ stray \in BOOLEAN /\ Ev(type) \in Event
  BY EvType, EventTypes DEF TypeOK
<1>2. own' = Handle(own, Ev(type)) /\ stray' = (stray \/ Strays(own, Ev(type)))
  BY DEF Echo
<1>3. Strays(own, Ev(type)) \in BOOLEAN
  BY DEF Strays
<1> QED
  BY <1>1, <1>2, <1>3, HandleType

LEMMA EchoThrowsType ==
  ASSUME TypeOK, Phase, enabled, NEW type \in {"Start", "Point", "Cancel", "Object"},
         EchoThrows(type)
  PROVE  own' \in Client /\ stray' \in BOOLEAN /\ points' \in BOOLEAN /\ Outgoing
<1>1. <<Ev(type)>> \in Seq(OfPage(clientId))
  BY EvType
<1>2. Outgoing
  BY <1>1, AddedOutgoing DEF EchoThrows
<1>3. Strays(own, Ev(type)) \in BOOLEAN
  BY DEF Strays
<1> QED
  BY <1>2, <1>3 DEF EchoThrows, TypeOK

LEMMA SendEv ==
  ASSUME TypeOK, Phase, enabled, NEW type \in {"Other", "Start", "Point", "Cancel", "Object"},
         Sent(<<Ev(type)>>) \/ Added(<<Ev(type)>>)
  PROVE  Outgoing
BY EvType, SentOutgoing, AddedOutgoing

LEMMA DrawStartInductive ==
  ASSUME TypeOK, Phase, enabled, DrawStart
  PROVE  own' \in Client /\ stray' \in BOOLEAN /\ points' \in BOOLEAN /\ Outgoing
<1>1. CASE EchoThrows("Start")
  BY <1>1, EchoThrowsType
<1>2. CASE Echo("Start") /\ points' = TRUE /\ Sent(<<Ev("Start")>>)
  BY <1>2, EchoType, SendEv
<1> QED
  BY <1>1, <1>2 DEF DrawStart

LEMMA DrawUpdateInductive ==
  ASSUME TypeOK, Phase, enabled, DrawUpdate
  PROVE  own' \in Client /\ stray' \in BOOLEAN /\ points' \in BOOLEAN /\ Outgoing
<1>1. CASE EchoThrows("Point")
  BY <1>1, EchoThrowsType
<1>2. CASE Echo("Point") /\ points' = TRUE /\ Sent(<<Ev("Point")>>)
  BY <1>2, EchoType, SendEv
<1> QED
  BY <1>1, <1>2 DEF DrawUpdate

LEMMA DrawFinishInductive ==
  ASSUME TypeOK, Phase, enabled, DrawFinish
  PROVE  /\ own' \in Client /\ stray' \in BOOLEAN /\ points' \in BOOLEAN
         /\ primaryDown' \in BOOLEAN /\ Outgoing
<1>1. CASE EchoThrows("Cancel") /\ UNCHANGED primaryDown
  BY <1>1, EchoThrowsType DEF TypeOK
<1>2. CASE ~Throws(own, Ev("Cancel"))
  <2> DEFINE canceled == Handle(own, Ev("Cancel"))
  <2>1. Ev("Cancel") \in OfPage(clientId) /\ Ev("Object") \in OfPage(clientId)
    BY EvType
  <2>2. Ev("Cancel") \in Event /\ Ev("Object") \in Event
    BY <2>1, EventTypes
  <2>3. own \in Client /\ canceled \in Client /\ Handle(canceled, Ev("Object")) \in Client
    BY <2>2, HandleType DEF TypeOK
  <2>4. /\ stray' = (stray \/ Strays(own, Ev("Cancel")))
        /\ IF points
           THEN own' = Handle(canceled, Ev("Object")) /\ Sent(<<Ev("Cancel"), Ev("Object")>>)
           ELSE own' = canceled /\ Sent(<<Ev("Cancel")>>)
        /\ points' = FALSE
        /\ primaryDown' = FALSE
    BY <1>2 DEF DrawFinish, EchoThrows
  <2>5. own' \in Client
    <3> HIDE DEF canceled
    <3> QED
      BY <2>3, <2>4
  <2>6. <<Ev("Cancel"), Ev("Object")>> \in Seq(OfPage(clientId))
        /\ <<Ev("Cancel")>> \in Seq(OfPage(clientId))
    BY <2>1, Short
  <2>7. Outgoing
    BY <2>4, <2>6, SentOutgoing
  <2>8. Strays(own, Ev("Cancel")) \in BOOLEAN /\ stray \in BOOLEAN
    BY DEF Strays, TypeOK
  <2> QED
    BY <2>4, <2>5, <2>7, <2>8
<1> QED
  BY <1>1, <1>2 DEF DrawFinish

LEMMA DrawCancelInductive ==
  ASSUME TypeOK, Phase, enabled, DrawCancel
  PROVE  /\ own' \in Client /\ stray' \in BOOLEAN /\ points' \in BOOLEAN
         /\ primaryDown' \in BOOLEAN /\ Outgoing
<1>1. CASE EchoThrows("Cancel") /\ UNCHANGED primaryDown
  BY <1>1, EchoThrowsType DEF TypeOK
<1>2. CASE /\ Echo("Cancel") /\ Added(<<Ev("Cancel")>>)
           /\ points' = FALSE /\ primaryDown' = FALSE
  BY <1>2, EchoType, SendEv
<1>3. CASE primaryDown' = FALSE /\ UNCHANGED <<building, up, own, points, stray>>
  BY <1>3, NothingOutgoing DEF TypeOK
<1> QED
  BY <1>1, <1>2, <1>3 DEF DrawCancel

(***************************************************************************)
(* No input disturbs the types or the course of the connection.            *)
(***************************************************************************)
LEMMA UserInductive ==
  ASSUME TypeOK, Phase, User
  PROVE  TypeOK' /\ Phase'
<1>0. Input /\ enabled
  BY DEF User, PointerDown, PointerMove, PointerUp, Cancel, SelectClass, SelectPointer, Command,
     Input
<1> USE <1>0
<1>1. Sent(<<>>) => Outgoing
  BY SentOutgoing, EmptySeq
<1>2. CASE PointerDown
  <2>1. CASE DrawStart
    BY <1>2, <2>1, DrawStartInductive, InputInductive DEF PointerDown, InputTypes, TypeOK
  <2>2. CASE Sent(<<>>) /\ UNCHANGED <<own, points, stray>>
    BY <1>1, <1>2, <2>2, InputInductive DEF PointerDown, InputTypes, TypeOK
  <2> QED
    BY <1>2, <2>1, <2>2 DEF PointerDown
<1>3. CASE PointerMove
  <2>1. CASE DrawUpdate
    BY <1>3, <2>1, DrawUpdateInductive, InputInductive DEF PointerMove, InputTypes, TypeOK
  <2>2. CASE Sent(<<>>) /\ UNCHANGED <<own, points, stray>>
    BY <1>1, <1>3, <2>2, InputInductive DEF PointerMove, InputTypes, TypeOK
  <2> QED
    BY <1>3, <2>1, <2>2 DEF PointerMove
<1>4. CASE PointerUp
  <2>1. CASE DrawFinish
    BY <1>4, <2>1, DrawFinishInductive, InputInductive DEF PointerUp, InputTypes, TypeOK
  <2>2. CASE primaryDown' = FALSE /\ UNCHANGED <<building, up, own, points, stray>>
    BY <1>4, <2>2, NothingOutgoing, InputInductive DEF PointerUp, InputTypes, TypeOK
  <2> QED
    BY <1>4, <2>1, <2>2 DEF PointerUp
<1>5. CASE Cancel
  BY <1>5, DrawCancelInductive, InputInductive DEF Cancel, InputTypes, TypeOK
<1>6. ASSUME NEW c \in Classes, SelectClass(c)
      PROVE  TypeOK' /\ Phase'
  <2> DEFINE e == [type |-> "SelectClass", id |-> clientId, class |-> c]
  <2>1. e \in OfPage(clientId)
    BY DEF OfPage, Event, Class, TypeOK
  <2>2. Outgoing
    <3>1. <<e>> \in Seq(OfPage(clientId))
      BY <2>1
    <3> QED
      BY <1>6, <3>1, AddedOutgoing DEF SelectClass
  <2>3. own' \in Client
    BY <1>6 DEF SelectClass, TypeOK, Client, Class
  <2> QED
    BY <1>6, <2>2, <2>3, InputInductive DEF SelectClass, InputTypes, TypeOK
<1>7. CASE SelectPointer
  BY <1>7, NothingOutgoing, InputInductive DEF SelectPointer, InputTypes, TypeOK
<1>8. CASE Command
  BY <1>8, SendEv, InputInductive DEF Command, InputTypes, TypeOK
<1> QED
  BY <1>2, <1>3, <1>4, <1>5, <1>6, <1>7, <1>8 DEF User
----------------------------------------------------------------------------
\* Where a connection is, from what is under way on it.
LEMMA UpPhase ==
  ASSUME Phase, up # <<>>
  PROVE  /\ socket = "Open"
         /\ Head(up).type = "Join" /\ ~Drawing => Joining
         /\ Head(up).type # "Join" => Drawing
<1>1. Joining => Head(up) = Join /\ Join.type = "Join"
  BY Short, EventTypes DEF Joining
<1> QED
  BY <1>1 DEF Phase, Loading, Loaded

\* The events under way of a page that is drawing are its own.
LEMMA HeadOfPage ==
  ASSUME TypeOK, Drawing, up # <<>>
  PROVE  /\ Head(up) \in OfPage(clientId) /\ Head(up) \in Event
         /\ Head(up).type # "Join" /\ Head(up).id = session.id
         /\ Tail(up) \in Seq(OfPage(clientId))
<1>1. Head(up) \in OfPage(clientId) /\ Tail(up) \in Seq(OfPage(clientId))
  BY HeadTailProperties DEF Drawing
<1> QED
  BY <1>1 DEF OfPage, Drawing

LEMMA AcceptJoinInductive ==
  ASSUME TypeOK, Phase, AcceptJoin
  PROVE  TypeOK' /\ Phase'
<1>1. socket = "Open" /\ Joining
  BY UpPhase, HeadOfPage DEF AcceptJoin
<1>2. up' = <<>> /\ down' = <<"StreamStart">>
  BY <1>1, Short DEF AcceptJoin, Joining
<1>3. PICK i \in Ids : session' = [state |-> "Streaming", id |-> i]
  BY DEF AcceptJoin
<1>4. UNCHANGED <<netVars, enabled, pageVars, ghosts, saved, other, history>>
  BY DEF AcceptJoin
<1>5. TypeOK'
  BY <1>2, <1>3, <1>4, Short, EmptySeq DEF TypeOK, netVars, pageVars, history
<1>6. Loading'
  BY <1>1, <1>2, <1>3, <1>4 DEF Joining, Loading, pageVars
<1> QED
  BY <1>1, <1>4, <1>5, <1>6 DEF Phase, netVars, pageVars

LEMMA JoinFullInductive ==
  ASSUME TypeOK, Phase, JoinFull
  PROVE  TypeOK' /\ Phase'
<1>1. socket = "Open" /\ Joining
  BY UpPhase, HeadOfPage DEF JoinFull
<1>2. up' = <<>> /\ session' = [state |-> "Streaming", id |-> 0]
      /\ UNCHANGED <<netVars, enabled, pageVars, down, ghosts, saved, other, history>>
  BY <1>1, Short DEF JoinFull, Joining
<1>3. TypeOK'
  BY <1>2, EmptySeq DEF TypeOK, netVars, pageVars, history
<1>4. Loading'
  BY <1>1, <1>2 DEF Joining, Loading, pageVars
<1> QED
  BY <1>1, <1>2, <1>3, <1>4 DEF Phase, netVars, pageVars

LEMMA StreamFailsInductive ==
  ASSUME TypeOK, Phase, StreamFails
  PROVE  TypeOK' /\ Phase'
<1>1. socket = "Open" /\ Loading
  BY DEF StreamFails, Phase, NoSession, Joining, Loaded, Drawing
<1>2. session' \in [state : {"None", "Streaming", "Failed", "Live"}, id : Ids \union {0}]
      /\ session'.state = "Failed" /\ session'.id = session.id
      /\ UNCHANGED <<netVars, enabled, pageVars, up, down, ghosts, saved, other, history>>
  BY DEF StreamFails, TypeOK
<1>3. TypeOK'
  BY <1>2 DEF TypeOK, netVars, pageVars, history
<1>4. Loading'
  BY <1>1, <1>2 DEF Loading, pageVars
<1> QED
  BY <1>1, <1>2, <1>3, <1>4 DEF Phase, netVars, pageVars

LEMMA SyncedInductive ==
  ASSUME TypeOK, Phase, Synced
  PROVE  TypeOK' /\ Phase'
<1>1. socket = "Open" /\ Loading
  BY DEF Synced, Phase, NoSession, Joining, Loaded, Drawing
<1>2. down' \in {<<"StreamStart", "StreamSynced">>, <<"StreamSynced">>}
  BY <1>1, Words DEF Synced, Loading
<1>3. session' = [session EXCEPT !.state = "Live"] /\ session'.state = "Live"
      /\ session'.id = session.id
  BY DEF Synced, TypeOK
<1>4. UNCHANGED <<netVars, enabled, pageVars, up, ghosts, saved, other, history>>
  BY DEF Synced
<1>5. down' \in Seq({"StreamStart", "StreamSynced"})
  BY <1>2, Short
<1>6. TypeOK'
  <2>1. NetTypes' /\ PageTypes'
    BY <1>4, <1>5, TypeParts DEF NetTypes, PageTypes, netVars, pageVars
  <2>2. ServerTypes'
    BY <1>3, <1>4, TypeParts DEF ServerTypes
  <2>3. HistoryTypes'
    BY <1>4, TypeParts DEF HistoryTypes, history
  <2> QED
    BY <2>1, <2>2, <2>3, TypeParts
<1>7. Loaded'
  BY <1>1, <1>2, <1>3, <1>4 DEF Loading, Loaded, pageVars
<1> QED
  BY <1>1, <1>4, <1>6, <1>7 DEF Phase, netVars, pageVars

\* The event that comes next is of the session's own id.
LEMMA AcceptInductive ==
  ASSUME TypeOK, Phase, Accept
  PROVE  TypeOK' /\ Phase' /\ wrongId' = wrongId
<1> DEFINE e == Head(up)
           client == other[e.id]
<1>1. socket = "Open" /\ Drawing
  BY UpPhase DEF Accept
<1>2. /\ e \in Event /\ e.id = session.id /\ e.id \in Ids \union {0}
      /\ Tail(up) \in Seq(OfPage(clientId)) /\ Tail(up) \in Seq(Event)
  BY <1>1, HeadOfPage, EventTypes, SeqMonotonic DEF Accept, Drawing
<1>3. /\ up' = Tail(up)
      /\ UNCHANGED <<netVars, enabled, pageVars, down, session, ghosts, pressLost>>
  BY DEF Accept
<1>4. ASSUME session.id = 0
      PROVE  TypeOK' /\ wrongId' = wrongId
  <2>1. UNCHANGED <<saved, other, stray, misdrawn>> /\ wrongId' = wrongId
    BY <1>2, <1>4 DEF Accept, TypeOK
  <2> QED
    BY <1>2, <1>3, <2>1 DEF TypeOK, netVars, pageVars
<1>5. ASSUME session.id # 0
      PROVE  TypeOK' /\ wrongId' = wrongId
  <2>1. e.id \in Ids /\ client \in Client
    BY <1>2, <1>5 DEF TypeOK
  <2>2. /\ Save(e) /\ other' = [other EXCEPT ![e.id] = Handle(client, e)]
        /\ stray' = (stray \/ Strays(client, e))
        /\ misdrawn' = (misdrawn \/ (e.type \in {"Start", "Object"} /\ client.class # e.class))
        /\ wrongId' = wrongId
    BY <1>2, <1>5 DEF Accept
  <2>3. other' \in [Ids -> Client]
    <3>1. Handle(client, e) \in Client
      BY <1>2, <2>1, HandleType
    <3> HIDE DEF client, e
    <3> QED
      BY <2>2, <3>1 DEF TypeOK
  <2>4. saved' \in [Ids -> [class : Class, drawn : BOOLEAN]]
    <3>1. e.class \in Class
      BY <1>2, EventTypes
    <3> HIDE DEF e
    <3> QED
      BY <2>2, <3>1 DEF TypeOK, Save
  <2>5. stray' \in BOOLEAN /\ misdrawn' \in BOOLEAN
    BY <2>2 DEF Strays, TypeOK
  <2> QED
    BY <1>2, <1>3, <2>2, <2>3, <2>4, <2>5 DEF TypeOK, netVars, pageVars
<1>6. Drawing'
  BY <1>1, <1>2, <1>3 DEF Drawing, pageVars
<1> QED
  BY <1>1, <1>3, <1>4, <1>5, <1>6 DEF Phase, netVars, pageVars

----------------------------------------------------------------------------
LEMMA ConnectedInductive ==
  ASSUME TypeOK, Phase, Connected
  PROVE  TypeOK' /\ Phase'
<1>1. building = <<>> /\ session = NoSession /\ down = <<>> /\ ~timer
  BY DEF Connected, Phase
<1>2. /\ up' = <<Join>> /\ building' = <<>> /\ enabled' = FALSE /\ socket' = "Open"
      /\ UNCHANGED <<autoReconnect, timer, clientId, mode, primaryDown, points, own, down,
                     serverVars, history>>
  BY <1>1, Short DEF Connected, DisableDrawing
<1>3. TypeOK'
  <2>1. NetTypes'
    BY <1>2, EventTypes, Short, TypeParts DEF NetTypes
  <2>2. PageTypes'
    BY <1>2, EmptySeq, TypeParts DEF PageTypes
  <2>3. ServerTypes' /\ HistoryTypes'
    BY <1>2, TypeParts DEF ServerTypes, HistoryTypes, serverVars, history
  <2> QED
    BY <2>1, <2>2, <2>3, TypeParts
<1>4. Joining'
  BY <1>1, <1>2 DEF Joining, serverVars
<1> QED
  BY <1>1, <1>2, <1>3, <1>4 DEF Phase

LEMMA StreamStartInductive ==
  ASSUME TypeOK, Phase, StreamStart
  PROVE  TypeOK' /\ Phase'
<1>1. socket = "Open" /\ (Loading \/ Loaded)
  BY DEF StreamStart, Phase, Joining, Drawing
<1>2. /\ Loading => down' = <<>>
      /\ Loaded => down' = <<"StreamSynced">>
  BY Words DEF StreamStart, Loading, Loaded
<1>3. /\ enabled' = FALSE /\ clientId' = 0 /\ own' = NewClient
      /\ UNCHANGED <<netVars, building, mode, primaryDown, points, up, serverVars, history>>
  BY DEF StreamStart, DisableDrawing
<1>4. TypeOK'
  <2>1. NetTypes'
    BY <1>1, <1>2, <1>3, Words, TypeParts DEF NetTypes, netVars
  <2>2. PageTypes'
    BY <1>3, NewClientType, TypeParts DEF PageTypes
  <2>3. ServerTypes' /\ HistoryTypes'
    BY <1>3, TypeParts DEF ServerTypes, HistoryTypes, serverVars, history
  <2> QED
    BY <2>1, <2>2, <2>3, TypeParts
<1>5. Loading' \/ Loaded'
  BY <1>1, <1>2, <1>3 DEF Loading, Loaded, serverVars
<1> QED
  BY <1>1, <1>3, <1>4, <1>5 DEF Phase, netVars

LEMMA StreamSyncedInductive ==
  ASSUME TypeOK, Phase, StreamSynced
  PROVE  TypeOK' /\ Phase'
<1>1. socket = "Open" /\ Loaded /\ down = <<"StreamSynced">>
  <2>1. Head(<<"StreamStart">>) = "StreamStart"
        /\ Head(<<"StreamStart", "StreamSynced">>) = "StreamStart"
    BY Short
  <2> QED
    BY <2>1 DEF StreamSynced, Phase, Joining, Drawing, Loading, Loaded
<1> DEFINE i == session.id
           select == [type |-> "SelectClass", id |-> i, class |-> Polyline]
           sent == [type |-> "Other", id |-> i, class |-> NoClass]
<1>2. i \in Ids \union {0} /\ building = <<>> /\ up = <<>>
  BY <1>1 DEF Loaded
<1>3. down' = <<>> /\ enabled' = TRUE /\ clientId' = i /\ mode' = "Draw"
      /\ own' = [SyncedClient(i) EXCEPT !.class = Polyline] /\ building' = <<select>>
      /\ pressLost' = (pressLost \/ primaryDown)
      /\ UNCHANGED <<netVars, primaryDown, points, serverVars, stray, wrongId, misdrawn>>
  BY <1>1, Short DEF StreamSynced, EnableDrawing
<1>4. up' = <<sent>>
  <2>1. up' = <<>> \o <<>> \o <<sent>>
    BY <1>2 DEF StreamSynced
  <2>2. <<>> \o <<>> = <<>>
    OBVIOUS
  <2>3. <<>> \o <<sent>> = <<sent>>
    BY Short
  <2> QED
    BY <2>1, <2>2, <2>3
<1>5. select \in OfPage(i) /\ sent \in OfPage(i) /\ select \in Event /\ sent \in Event
  BY <1>2, ClassesAssumption DEF OfPage, Event, Class
<1>6. own' \in Client
  <2>1. SyncedClient(i) \in Client
    BY <1>2, SyncedClientType
  <2> QED
    BY <1>3, <2>1, ClassesAssumption DEF Client, Class
<1>7. TypeOK'
  <2> HIDE DEF select, sent
  <2>1. building' \in Seq(Event) /\ up' \in Seq(Event)
    BY <1>3, <1>4, <1>5, Short
  <2> QED
    BY <1>2, <1>3, <1>6, <2>1, EmptySeq DEF TypeOK, netVars, serverVars
<1>8. Drawing'
  <2>1. <<select>> \in Seq(OfPage(i)) /\ <<sent>> \in Seq(OfPage(i))
    BY <1>5, Short
  <2> HIDE DEF select, sent
  <2> QED
    BY <1>1, <1>2, <1>3, <1>4, <2>1 DEF Loaded, Drawing, serverVars
<1> QED
  BY <1>1, <1>2, <1>3, <1>7, <1>8 DEF Phase, netVars

\* What happens to a connection that is not open, or not any more.
LEMMA ConnectionInductive ==
  ASSUME TypeOK, Phase, Disconnected \/ Reconnect \/ Break
  PROVE  TypeOK' /\ Phase'
<1>1. CASE Disconnected
  <2>1. TypeOK'
    <3>1. NetTypes'
      BY <1>1, TypeParts DEF Disconnected, DisableDrawing, NetTypes
    <3>2. PageTypes'
      BY <1>1, TypeParts DEF Disconnected, PageTypes, pageVars
    <3>3. ServerTypes' /\ HistoryTypes'
      BY <1>1, TypeParts DEF Disconnected, ServerTypes, HistoryTypes, serverVars, history
    <3> QED
      BY <3>1, <3>2, <3>3, TypeParts
  <2> QED
    BY <1>1, <2>1 DEF Disconnected, DisableDrawing, Phase, pageVars, serverVars
<1>2. CASE Reconnect
  <2>1. TypeOK'
    <3>1. NetTypes' /\ PageTypes'
      BY <1>2, EmptySeq, TypeParts DEF Reconnect, Connect, NetTypes, PageTypes
    <3>2. ServerTypes' /\ HistoryTypes'
      BY <1>2, TypeParts DEF Reconnect, ServerTypes, HistoryTypes, serverVars, history
    <3> QED
      BY <3>1, <3>2, TypeParts
  <2> QED
    BY <1>2, <2>1 DEF Reconnect, Connect, Phase, serverVars
<1>3. CASE Break
  <2>1. session.id # 0 => session.id \in Ids
    BY DEF TypeOK
  <2>2. NoSession \in [state : {"None", "Streaming", "Failed", "Live"}, id : Ids \union {0}]
    BY DEF NoSession
  <2>3. TypeOK'
    BY <1>3, <2>1, <2>2, EmptySeq DEF Break, TypeOK, pageVars, history
  <2> QED
    BY <1>3, <2>3 DEF Break, Phase, pageVars
<1> QED
  BY <1>1, <1>2, <1>3

LEMMA GhostLeavesInductive ==
  ASSUME TypeOK, Phase, NEW i \in Ids, GhostLeaves(i)
  PROVE  TypeOK' /\ Phase'
<1>1. other' \in [Ids -> Client]
  BY DEF GhostLeaves, TypeOK, Client
<1>2. TypeOK'
  BY <1>1 DEF GhostLeaves, TypeOK, netVars, pageVars, history
<1> QED
  BY <1>2 DEF GhostLeaves, Phase, Joining, Loading, Loaded, Drawing, netVars, pageVars

----------------------------------------------------------------------------
LEMMA InitPhase == Init => TypeOK /\ Phase
<1> SUFFICES ASSUME Init PROVE TypeOK /\ Phase
  OBVIOUS
<1>1. saved \in [Ids -> [class : Class, drawn : BOOLEAN]]
  <2>1. {[class |-> NoClass, drawn |-> FALSE], [class |-> Polyline, drawn |-> TRUE]}
          \subseteq [class : Class, drawn : BOOLEAN]
    BY ClassesAssumption DEF Class
  <2>2. Papers \subseteq [Ids -> [class : Class, drawn : BOOLEAN]]
    BY <2>1, Zenon DEF Papers
  <2> QED
    BY <2>2 DEF Init
<1>2. other \in [Ids -> Client]
  BY <1>1 DEF Init, Replay, Client
<1>3. TypeOK
  BY <1>1, <1>2, NewClientType, EmptySeq DEF Init, TypeOK, NoSession
<1>4. Phase
  BY DEF Init, Phase
<1> QED
  BY <1>3, <1>4

LEMMA NextPhase ==
  ASSUME TypeOK, Phase, [Next]_vars
  PROVE  TypeOK' /\ Phase'
<1>1. CASE Server
  BY <1>1, AcceptJoinInductive, JoinFullInductive, SyncedInductive, StreamFailsInductive,
     AcceptInductive
  DEF Server
<1>2. CASE Page
  BY <1>2, ConnectedInductive, ConnectionInductive, StreamStartInductive, StreamSyncedInductive
  DEF Page
<1>3. CASE User
  BY <1>3, UserInductive
<1>4. CASE Break \/ Disconnected
  BY <1>4, ConnectionInductive
<1>5. CASE \E i \in Ids : GhostLeaves(i)
  BY <1>5, GhostLeavesInductive
<1>6. CASE UNCHANGED vars
  BY <1>6 DEF vars, netVars, pageVars, serverVars, history, TypeOK, Phase, Joining, Loading, Loaded,
     Drawing
<1> QED
  BY <1>1, <1>2, <1>3, <1>4, <1>5, <1>6 DEF Next

(***************************************************************************)
(* Type correctness, for any ids, classes and bounds.                      *)
(***************************************************************************)
THEOREM TypeCorrect == Spec => []TypeOK
BY InitPhase, NextPhase, PTL DEF Spec

(***************************************************************************)
(* Drawing is enabled only on a page that is synced, as far as it can tell.*)
(***************************************************************************)
THEOREM DrawsWhenSynced == Spec => []EnabledWhenSynced
<1>1. TypeOK /\ Phase => EnabledWhenSynced
  BY EnabledPhase DEF EnabledWhenSynced, Drawing, TypeOK
<1> QED
  BY <1>1, InitPhase, NextPhase, PTL DEF Spec

(***************************************************************************)
(* Every event comes under the id of its session: what a page queued under *)
(* one id never goes out on a connection that has another, since only a    *)
(* page that is drawing on this one has anything under way.                *)
(***************************************************************************)
THEOREM OwnEventsOnly == Spec => []OwnIdOnly
<1>1. Init => OwnIdOnly
  BY DEF Init, OwnIdOnly
<1>2. TypeOK /\ Phase /\ OwnIdOnly /\ [Next]_vars => OwnIdOnly'
  <2> SUFFICES ASSUME TypeOK, Phase, OwnIdOnly, [Next]_vars
               PROVE  OwnIdOnly'
    OBVIOUS
  <2>1. CASE Accept
    BY <2>1, AcceptInductive DEF OwnIdOnly
  <2>2. CASE User
    BY <2>2 DEF OwnIdOnly, User, PointerDown, PointerMove, PointerUp, Cancel, SelectClass,
       SelectPointer, Command, Input
  <2>3. CASE ~Accept /\ ~User
    BY <2>3 DEF OwnIdOnly, Next, Server, Page, vars, history, AcceptJoin, JoinFull, Synced, StreamFails,
       Connected, Reconnect, StreamStart, StreamSynced, Break, Disconnected, GhostLeaves
  <2> QED
    BY <2>1, <2>2, <2>3
<1> QED
  BY <1>1, <1>2, InitPhase, NextPhase, PTL DEF Spec
----------------------------------------------------------------------------
(***************************************************************************)
(* Another page sees this one as it sees itself.  Events are still to come *)
(* to it, so the invariant speaks of what they will make of its            *)
(* PaperClient o: Fit(q, o, c, strict) says that the events of q turn o    *)
(* into the class of c, and into one with a temporary object if c has one, *)
(* that each object of q is drawn with the class in effect before it, and, *)
(* if strict, that no Point or Cancel of q strays.                         *)
(***************************************************************************)
Draws(e) == e.type \in {"Start", "Object"}
Ends(e) == e.type \in {"Start", "Object", "Cancel"}
NeedsTmp(e) == e.type \in {"Point", "Cancel"}

\* The class that holds before the k-th event.
ClassBefore(q, k, o, c) ==
  \/ o = c /\ \A j \in 1..k - 1 : q[j].type # "SelectClass"
  \/ \E j \in 1..k - 1 :
       /\ q[j].type = "SelectClass" /\ q[j].class = c
       /\ \A i \in j + 1..k - 1 : q[i].type # "SelectClass"

\* There is a temporary object before the k-th event.
TmpBefore(q, k, o) ==
  \/ o = "Tmp" /\ \A j \in 1..k - 1 : ~Ends(q[j])
  \/ \E j \in 1..k - 1 :
       q[j].type = "Start" /\ \A i \in j + 1..k - 1 : ~Ends(q[i])

Fit(q, o, c, strict) ==
  /\ \A k \in 1..Len(q) :
       Draws(q[k]) => q[k].class # NoClass /\ ClassBefore(q, k, o.class, q[k].class)
  /\ ClassBefore(q, Len(q) + 1, o.class, c.class)
  /\ c.action = "Tmp" <=> TmpBefore(q, Len(q) + 1, o.action)
  /\ strict => \A k \in 1..Len(q) : NeedsTmp(q[k]) => TmpBefore(q, k, o.action)

\* An event at the end changes nothing before it, ...
LEMMA ClassAppend ==
  ASSUME NEW q \in Seq(Event), NEW e \in Event, NEW o, NEW c
  PROVE  /\ \A k \in 1..Len(q) + 1 :
              ClassBefore(Append(q, e), k, o, c) <=> ClassBefore(q, k, o, c)
         /\ ClassBefore(Append(q, e), Len(q) + 2, o, c) <=>
              IF e.type = "SelectClass" THEN e.class = c ELSE ClassBefore(q, Len(q) + 1, o, c)
<1> DEFINE r == Append(q, e)
<1>1. /\ Len(q) \in Nat /\ \A i \in 1..Len(q) : r[i] = q[i]
      /\ r[Len(q) + 1] = e
  BY AppendProperties
<1> HIDE DEF r
<1>2. ASSUME NEW k \in 1..Len(q) + 1
      PROVE  ClassBefore(r, k, o, c) <=> ClassBefore(q, k, o, c)
  <2>1. \A i \in 1..k - 1 : r[i] = q[i]
    BY <1>1
  <2>2. \A j \in 1..k - 1 : \A i \in j + 1..k - 1 : r[i] = q[i]
    BY <1>1, <2>1
  <2>3. (\A j \in 1..k - 1 : r[j].type # "SelectClass")
          <=> \A j \in 1..k - 1 : q[j].type # "SelectClass"
    BY <2>1
  <2>4. \A j \in 1..k - 1 :
           (\A i \in j + 1..k - 1 : r[i].type # "SelectClass")
             <=> \A i \in j + 1..k - 1 : q[i].type # "SelectClass"
    BY <2>2
  <2> QED
    BY <2>1, <2>3, <2>4, Zenon DEF ClassBefore
<1>3. CASE e.type = "SelectClass"
  <2>1. ClassBefore(r, Len(q) + 2, o, c) => e.class = c
    BY <1>1, <1>3 DEF ClassBefore
  <2>2. ASSUME e.class = c
        PROVE  ClassBefore(r, Len(q) + 2, o, c)
    <3>1. /\ Len(q) + 1 \in 1..(Len(q) + 2) - 1
          /\ \A i \in Len(q) + 1 + 1..(Len(q) + 2) - 1 : FALSE
      BY <1>1
    <3> QED
      BY <1>1, <1>3, <2>2, <3>1 DEF ClassBefore
  <2> QED
    BY <1>2, <1>3, <2>1, <2>2 DEF r
<1>4. CASE e.type # "SelectClass"
  <2>1. ClassBefore(r, Len(q) + 2, o, c) => ClassBefore(r, Len(q) + 1, o, c)
    <3> SUFFICES ASSUME ClassBefore(r, Len(q) + 2, o, c)
                 PROVE  ClassBefore(r, Len(q) + 1, o, c)
      OBVIOUS
    <3> QED
      BY <1>1, <1>4 DEF ClassBefore
  <2>2. ClassBefore(r, Len(q) + 1, o, c) => ClassBefore(r, Len(q) + 2, o, c)
    <3> SUFFICES ASSUME ClassBefore(r, Len(q) + 1, o, c)
                 PROVE  ClassBefore(r, Len(q) + 2, o, c)
      OBVIOUS
    <3>1. \A i \in 1..(Len(q) + 2) - 1 : i \in 1..(Len(q) + 1) - 1 \/ i = Len(q) + 1
      BY <1>1
    <3> QED
      BY <1>1, <1>4, <3>1 DEF ClassBefore
  <2> QED
    BY <1>1, <1>2, <1>4, <2>1, <2>2 DEF r
<1> QED
  BY <1>3, <1>4

LEMMA TmpAppend ==
  ASSUME NEW q \in Seq(Event), NEW e \in Event, NEW o
  PROVE  /\ \A k \in 1..Len(q) + 1 : TmpBefore(Append(q, e), k, o) <=> TmpBefore(q, k, o)
         /\ TmpBefore(Append(q, e), Len(q) + 2, o) <=>
              IF Ends(e) THEN e.type = "Start" ELSE TmpBefore(q, Len(q) + 1, o)
<1> DEFINE r == Append(q, e)
<1>1. /\ Len(q) \in Nat /\ \A i \in 1..Len(q) : r[i] = q[i]
      /\ r[Len(q) + 1] = e
  BY AppendProperties
<1> HIDE DEF r
<1>2. ASSUME NEW k \in 1..Len(q) + 1
      PROVE  TmpBefore(r, k, o) <=> TmpBefore(q, k, o)
  <2>1. \A i \in 1..k - 1 : r[i] = q[i]
    BY <1>1
  <2>2. \A j \in 1..k - 1 : \A i \in j + 1..k - 1 : r[i] = q[i]
    BY <1>1, <2>1
  <2>3. (\A j \in 1..k - 1 : ~Ends(r[j])) <=> \A j \in 1..k - 1 : ~Ends(q[j])
    BY <2>1
  <2>4. \A j \in 1..k - 1 :
           (\A i \in j + 1..k - 1 : ~Ends(r[i])) <=> \A i \in j + 1..k - 1 : ~Ends(q[i])
    BY <2>2
  <2> QED
    BY <2>1, <2>3, <2>4, Zenon DEF TmpBefore
<1>3. CASE Ends(e)
  <2>1. TmpBefore(r, Len(q) + 2, o) => e.type = "Start"
    BY <1>1, <1>3 DEF TmpBefore
  <2>2. ASSUME e.type = "Start"
        PROVE  TmpBefore(r, Len(q) + 2, o)
    <3>1. /\ Len(q) + 1 \in 1..(Len(q) + 2) - 1
          /\ \A i \in Len(q) + 1 + 1..(Len(q) + 2) - 1 : FALSE
      BY <1>1
    <3> QED
      BY <1>1, <2>2, <3>1 DEF TmpBefore
  <2> QED
    BY <1>2, <1>3, <2>1, <2>2 DEF r
<1>4. CASE ~Ends(e)
  <2>1. TmpBefore(r, Len(q) + 2, o) => TmpBefore(r, Len(q) + 1, o)
    <3> SUFFICES ASSUME TmpBefore(r, Len(q) + 2, o)
                 PROVE  TmpBefore(r, Len(q) + 1, o)
      OBVIOUS
    <3>1. e.type # "Start"
      BY <1>4 DEF Ends
    <3> QED
      BY <1>1, <1>4, <3>1 DEF TmpBefore
  <2>2. TmpBefore(r, Len(q) + 1, o) => TmpBefore(r, Len(q) + 2, o)
    <3> SUFFICES ASSUME TmpBefore(r, Len(q) + 1, o)
                 PROVE  TmpBefore(r, Len(q) + 2, o)
      OBVIOUS
    <3>1. \A i \in 1..(Len(q) + 2) - 1 : i \in 1..(Len(q) + 1) - 1 \/ i = Len(q) + 1
      BY <1>1
    <3> QED
      BY <1>1, <1>4, <3>1 DEF TmpBefore
  <2> QED
    BY <1>1, <1>2, <1>4, <2>1, <2>2 DEF r
<1> QED
  BY <1>3, <1>4

\* ... and the first event counts for what it makes of o.
LEMMA ClassTail ==
  ASSUME NEW q \in Seq(Event), q # <<>>, NEW o, NEW c, NEW k \in 1..Len(q),
         NEW after, after = IF Head(q).type = "SelectClass" THEN Head(q).class ELSE o
  PROVE  ClassBefore(Tail(q), k, after, c) <=> ClassBefore(q, k + 1, o, c)
<1> DEFINE r == Tail(q)
<1>1. /\ Len(q) \in Nat /\ Head(q) = q[1] /\ Len(r) = Len(q) - 1
      /\ \A i \in 1..Len(q) - 1 : r[i] = q[i + 1]
      /\ k \in Nat /\ k >= 1
  BY HeadTailProperties
<1> HIDE DEF r
<1>2. \A i \in 1..k - 1 : r[i] = q[i + 1]
  BY <1>1
<1>3. ASSUME ClassBefore(r, k, after, c)
      PROVE  ClassBefore(q, k + 1, o, c)
  <2>1. CASE after = c /\ \A j \in 1..k - 1 : r[j].type # "SelectClass"
    <3>1. \A i \in 2..(k + 1) - 1 : q[i].type # "SelectClass"
      <4> TAKE i \in 2..(k + 1) - 1
      <4>1. i - 1 \in 1..k - 1 /\ (i - 1) + 1 = i
        BY <1>1
      <4> QED
        BY <1>2, <2>1, <4>1
    <3>2. CASE q[1].type = "SelectClass"
      <4>1. 1 \in 1..(k + 1) - 1 /\ q[1].class = c
        BY <1>1, <2>1, <3>2
      <4> QED
        BY <3>1, <3>2, <4>1 DEF ClassBefore
    <3>3. CASE q[1].type # "SelectClass"
      <4>1. \A i \in 1..(k + 1) - 1 : q[i].type # "SelectClass"
        BY <1>1, <3>1, <3>3
      <4> QED
        BY <1>1, <2>1, <3>3, <4>1 DEF ClassBefore
    <3> QED
      BY <3>2, <3>3
  <2>2. ASSUME NEW j \in 1..k - 1, r[j].type = "SelectClass", r[j].class = c,
               \A i \in j + 1..k - 1 : r[i].type # "SelectClass"
        PROVE  ClassBefore(q, k + 1, o, c)
    <3>1. j + 1 \in 1..(k + 1) - 1 /\ q[j + 1].type = "SelectClass" /\ q[j + 1].class = c
      BY <1>1, <1>2, <2>2
    <3>2. \A i \in (j + 1) + 1..(k + 1) - 1 : q[i].type # "SelectClass"
      <4> TAKE i \in (j + 1) + 1..(k + 1) - 1
      <4>1. i - 1 \in j + 1..k - 1 /\ i - 1 \in 1..k - 1 /\ (i - 1) + 1 = i
        BY <1>1
      <4> QED
        BY <1>2, <2>2, <4>1
    <3> QED
      BY <3>1, <3>2 DEF ClassBefore
  <2> QED
    BY <1>3, <2>1, <2>2 DEF ClassBefore
<1>4. ASSUME ClassBefore(q, k + 1, o, c)
      PROVE  ClassBefore(r, k, after, c)
  <2>1. \A i \in 1..k - 1 : i + 1 \in 1..(k + 1) - 1
    BY <1>1
  <2>2. CASE o = c /\ \A j \in 1..(k + 1) - 1 : q[j].type # "SelectClass"
    <3>1. 1 \in 1..(k + 1) - 1
      BY <1>1
    <3>2. after = c
      BY <1>1, <2>2, <3>1
    <3> QED
      BY <1>2, <2>1, <2>2, <3>2 DEF ClassBefore
  <2>3. ASSUME NEW j \in 1..(k + 1) - 1, q[j].type = "SelectClass", q[j].class = c,
               \A i \in j + 1..(k + 1) - 1 : q[i].type # "SelectClass"
        PROVE  ClassBefore(r, k, after, c)
    <3>1. CASE j = 1
      <4>1. after = c
        BY <1>1, <2>3, <3>1
      <4>2. \A i \in 1..k - 1 : i + 1 \in j + 1..(k + 1) - 1
        BY <1>1, <3>1
      <4> QED
        BY <1>2, <2>3, <4>1, <4>2 DEF ClassBefore
    <3>2. CASE j # 1
      <4>1. j - 1 \in 1..k - 1 /\ (j - 1) + 1 = j
        BY <1>1, <3>2
      <4>2. \A i \in (j - 1) + 1..k - 1 : i \in 1..k - 1 /\ i + 1 \in j + 1..(k + 1) - 1
        BY <1>1, <3>2
      <4>3. r[j - 1].type = "SelectClass" /\ r[j - 1].class = c
        BY <1>2, <2>3, <4>1
      <4>4. \A i \in (j - 1) + 1..k - 1 : r[i].type # "SelectClass"
        BY <1>2, <2>3, <4>2
      <4> QED
        BY <4>1, <4>3, <4>4 DEF ClassBefore
    <3> QED
      BY <3>1, <3>2
  <2> QED
    BY <1>4, <2>2, <2>3 DEF ClassBefore
<1> QED
  BY <1>3, <1>4 DEF r
LEMMA TmpTail ==
  ASSUME NEW q \in Seq(Event), q # <<>>, NEW o, NEW k \in 1..Len(q), NEW after,
         after = "Tmp" <=> IF Ends(Head(q)) THEN Head(q).type = "Start" ELSE o = "Tmp"
  PROVE  TmpBefore(Tail(q), k, after) <=> TmpBefore(q, k + 1, o)
<1> DEFINE r == Tail(q)
<1>1. /\ Len(q) \in Nat /\ Head(q) = q[1] /\ Len(r) = Len(q) - 1
      /\ \A i \in 1..Len(q) - 1 : r[i] = q[i + 1]
      /\ k \in Nat /\ k >= 1
  BY HeadTailProperties
<1> HIDE DEF r
<1>2. \A i \in 1..k - 1 : r[i] = q[i + 1]
  BY <1>1
<1>3. ASSUME TmpBefore(r, k, after)
      PROVE  TmpBefore(q, k + 1, o)
  <2>1. CASE after = "Tmp" /\ \A j \in 1..k - 1 : ~Ends(r[j])
    <3>1. \A i \in 2..(k + 1) - 1 : ~Ends(q[i])
      <4> TAKE i \in 2..(k + 1) - 1
      <4>1. i - 1 \in 1..k - 1 /\ (i - 1) + 1 = i
        BY <1>1
      <4> QED
        BY <1>2, <2>1, <4>1
    <3>2. CASE Ends(q[1])
      <4>1. 1 \in 1..(k + 1) - 1 /\ q[1].type = "Start"
        BY <1>1, <2>1, <3>2
      <4> QED
        BY <3>1, <4>1 DEF TmpBefore
    <3>3. CASE ~Ends(q[1])
      <4>1. \A i \in 1..(k + 1) - 1 : ~Ends(q[i])
        BY <1>1, <3>1, <3>3
      <4> QED
        BY <1>1, <2>1, <3>3, <4>1 DEF TmpBefore
    <3> QED
      BY <3>2, <3>3
  <2>2. ASSUME NEW j \in 1..k - 1, r[j].type = "Start", \A i \in j + 1..k - 1 : ~Ends(r[i])
        PROVE  TmpBefore(q, k + 1, o)
    <3>1. j + 1 \in 1..(k + 1) - 1 /\ q[j + 1].type = "Start"
      BY <1>1, <1>2, <2>2
    <3>2. \A i \in (j + 1) + 1..(k + 1) - 1 : ~Ends(q[i])
      <4> TAKE i \in (j + 1) + 1..(k + 1) - 1
      <4>1. i - 1 \in j + 1..k - 1 /\ i - 1 \in 1..k - 1 /\ (i - 1) + 1 = i
        BY <1>1
      <4> QED
        BY <1>2, <2>2, <4>1
    <3> QED
      BY <3>1, <3>2 DEF TmpBefore
  <2> QED
    BY <1>3, <2>1, <2>2 DEF TmpBefore
<1>4. ASSUME TmpBefore(q, k + 1, o)
      PROVE  TmpBefore(r, k, after)
  <2>1. \A i \in 1..k - 1 : i + 1 \in 1..(k + 1) - 1
    BY <1>1
  <2>2. CASE o = "Tmp" /\ \A j \in 1..(k + 1) - 1 : ~Ends(q[j])
    <3>1. 1 \in 1..(k + 1) - 1
      BY <1>1
    <3>2. after = "Tmp"
      BY <1>1, <2>2, <3>1
    <3>3. \A j \in 1..k - 1 : ~Ends(r[j])
      BY <1>2, <2>1, <2>2
    <3> QED
      BY <3>2, <3>3 DEF TmpBefore
  <2>3. ASSUME NEW j \in 1..(k + 1) - 1, q[j].type = "Start",
               \A i \in j + 1..(k + 1) - 1 : ~Ends(q[i])
        PROVE  TmpBefore(r, k, after)
    <3>1. CASE j = 1
      <4>1. after = "Tmp"
        BY <1>1, <2>3, <3>1 DEF Ends
      <4>2. \A i \in 1..k - 1 : i + 1 \in j + 1..(k + 1) - 1
        BY <1>1, <3>1
      <4>3. \A i \in 1..k - 1 : ~Ends(r[i])
        BY <1>2, <2>3, <4>2
      <4> QED
        BY <4>1, <4>3 DEF TmpBefore
    <3>2. CASE j # 1
      <4>1. j - 1 \in 1..k - 1 /\ (j - 1) + 1 = j
        BY <1>1, <3>2
      <4>2. \A i \in (j - 1) + 1..k - 1 : i \in 1..k - 1 /\ i + 1 \in j + 1..(k + 1) - 1
        BY <1>1, <3>2
      <4>3. r[j - 1].type = "Start"
        BY <1>2, <2>3, <4>1
      <4>4. \A i \in (j - 1) + 1..k - 1 : ~Ends(r[i])
        BY <1>2, <2>3, <4>2
      <4> QED
        BY <4>1, <4>3, <4>4 DEF TmpBefore
    <3> QED
      BY <3>1, <3>2
  <2> QED
    BY <1>4, <2>2, <2>3 DEF TmpBefore
<1> QED
  BY <1>3, <1>4 DEF r

\* What handling an event makes of a client that can handle it.
LEMMA HandleMakes ==
  ASSUME NEW c \in Client, NEW e \in Event, e.type # "Join", Draws(e) => c.class # NoClass
  PROVE  /\ Handle(c, e).class = IF e.type = "SelectClass" THEN e.class ELSE c.class
         /\ Handle(c, e).action = "Tmp" <=>
              IF Ends(e) THEN e.type = "Start" ELSE c.action = "Tmp"
<1>1. e.type \in {"Other", "SelectClass", "Start", "Point", "Cancel", "Object"}
  BY EventTypes
<1>2. CASE Throws(c, e)
  <2>1. Handle(c, e) = c /\ c.action = "None" /\ e.type \in {"Point", "Cancel"}
    <3>1. c.action = "None" /\ e.type \in {"Point", "Cancel"}
      BY <1>2 DEF Throws, Draws
    <3>2. Handle(c, e) = c
      BY <1>2 DEF Handle
    <3> QED
      BY <3>1, <3>2
  <2> QED
    BY <2>1 DEF Ends
<1>3. CASE ~Throws(c, e)
  <2>1. CASE e.type = "SelectClass"
    BY <1>3, <2>1 DEF Handle, Client, Ends
  <2>2. CASE e.type \in {"Start", "Object", "Cancel"}
    BY <1>3, <2>2 DEF Handle, Client, Ends
  <2>3. CASE e.type \in {"Other", "Point"}
    BY <1>3, <2>3 DEF Handle, Client, Ends
  <2> QED
    BY <1>1, <2>1, <2>2, <2>3
<1> QED
  BY <1>2, <1>3

\* The page adds an event and handles it itself.
LEMMA FitAppend ==
  ASSUME NEW q \in Seq(Event), NEW o, NEW c \in Client, NEW strict \in BOOLEAN,
         Fit(q, o, c, strict), c.class # NoClass,
         NEW e \in Event, e.type # "Join", Draws(e) => e.class = c.class,
         strict => ~Strays(c, e)
  PROVE  Fit(Append(q, e), o, Handle(c, e), strict)
<1> DEFINE r == Append(q, e)
<1>1. /\ Len(q) \in Nat /\ Len(r) = Len(q) + 1
      /\ \A i \in 1..Len(q) : r[i] = q[i]
      /\ r[Len(q) + 1] = e
  BY AppendProperties
<1>2. /\ Handle(c, e).class = IF e.type = "SelectClass" THEN e.class ELSE c.class
      /\ Handle(c, e).action = "Tmp" <=>
            IF Ends(e) THEN e.type = "Start" ELSE c.action = "Tmp"
  BY HandleMakes
<1>3. \A k \in 1..Len(q) + 1 : \A d : ClassBefore(r, k, o.class, d) <=> ClassBefore(q, k, o.class, d)
  BY ClassAppend
<1>4. \A k \in 1..Len(q) + 1 : TmpBefore(r, k, o.action) <=> TmpBefore(q, k, o.action)
  BY TmpAppend
<1>5. \A d : ClassBefore(r, Len(q) + 2, o.class, d) <=>
         IF e.type = "SelectClass" THEN e.class = d ELSE ClassBefore(q, Len(q) + 1, o.class, d)
  BY ClassAppend
<1>6. TmpBefore(r, Len(q) + 2, o.action) <=>
        IF Ends(e) THEN e.type = "Start" ELSE TmpBefore(q, Len(q) + 1, o.action)
  BY TmpAppend
<1> HIDE DEF r
<1>7. \A k \in 1..Len(r) : k \in 1..Len(q) \/ k = Len(q) + 1
  BY <1>1
<1>8. Len(r) + 1 = Len(q) + 2 /\ Len(q) + 1 \in 1..Len(q) + 1
      /\ \A k \in 1..Len(q) : k \in 1..Len(q) + 1
  BY <1>1
<1>9. ASSUME NEW k \in 1..Len(r), Draws(r[k])
      PROVE  r[k].class # NoClass /\ ClassBefore(r, k, o.class, r[k].class)
  <2>1. CASE k \in 1..Len(q)
    BY <1>1, <1>3, <1>8, <1>9, <2>1 DEF Fit
  <2>2. CASE k = Len(q) + 1
    BY <1>1, <1>3, <1>8, <1>9, <2>2 DEF Fit
  <2> QED
    BY <1>7, <2>1, <2>2
<1>10. ASSUME strict, NEW k \in 1..Len(r), NeedsTmp(r[k])
       PROVE  TmpBefore(r, k, o.action)
  <2>1. CASE k \in 1..Len(q)
    BY <1>1, <1>4, <1>8, <1>10, <2>1 DEF Fit
  <2>2. CASE k = Len(q) + 1
    <3>1. c.action = "Tmp"
      BY <1>1, <1>10, <2>2 DEF Strays, NeedsTmp
    <3> QED
      BY <1>4, <1>8, <2>2, <3>1 DEF Fit
  <2> QED
    BY <1>7, <2>1, <2>2
<1>11. ClassBefore(r, Len(r) + 1, o.class, Handle(c, e).class)
  BY <1>2, <1>5, <1>8 DEF Fit
<1>12. Handle(c, e).action = "Tmp" <=> TmpBefore(r, Len(r) + 1, o.action)
  BY <1>2, <1>6, <1>8 DEF Fit
<1>13. Fit(r, o, Handle(c, e), strict)
  BY <1>9, <1>10, <1>11, <1>12 DEF Fit
<1> QED
  BY <1>13 DEF r

\* The other page handles the first event.
LEMMA FitHead ==
  ASSUME NEW q \in Seq(Event), q # <<>>, NEW o \in Client, NEW c, NEW strict \in BOOLEAN,
         Fit(q, o, c, strict), Head(q).type # "Join"
  PROVE  /\ Fit(Tail(q), Handle(o, Head(q)), c, strict)
         /\ Draws(Head(q)) => Head(q).class = o.class
         /\ strict => ~Strays(o, Head(q))
<1> DEFINE r == Tail(q)
           e == Head(q)
           after == Handle(o, e)
<1>1. /\ Len(q) \in Nat /\ Len(q) >= 1 /\ e = q[1] /\ e \in Event /\ Len(r) = Len(q) - 1
      /\ \A i \in 1..Len(r) : r[i] = q[i + 1]
      /\ r \in Seq(Event)
  BY HeadTailProperties, EmptySeq
<1>2. Draws(e) => e.class # NoClass /\ e.class = o.class
  <2>1. 1 \in 1..Len(q) /\ \A j \in 1..1 - 1 : FALSE
    BY <1>1
  <2> HIDE DEF e, r
  <2> QED
    BY <1>1, <2>1 DEF Fit, ClassBefore
<1>3. strict /\ NeedsTmp(e) => o.action = "Tmp"
  <2>1. 1 \in 1..Len(q) /\ \A j \in 1..1 - 1 : FALSE
    BY <1>1
  <2> HIDE DEF e, r
  <2> QED
    BY <1>1, <2>1 DEF Fit, TmpBefore
<1>4. /\ after.class = IF e.type = "SelectClass" THEN e.class ELSE o.class
      /\ after.action = "Tmp" <=> IF Ends(e) THEN e.type = "Start" ELSE o.action = "Tmp"
  BY <1>1, <1>2, HandleMakes
<1>5. \A k \in 1..Len(q) : \A d :
         ClassBefore(r, k, after.class, d) <=> ClassBefore(q, k + 1, o.class, d)
  <2> HIDE DEF after
  <2> QED
    BY <1>4, ClassTail
<1>6. \A k \in 1..Len(q) : TmpBefore(r, k, after.action) <=> TmpBefore(q, k + 1, o.action)
  <2> HIDE DEF after
  <2> QED
    BY <1>4, TmpTail
<1> HIDE DEF r, e, after
<1>7. /\ Len(r) + 1 = Len(q) /\ Len(q) \in 1..Len(q)
      /\ \A k \in 1..Len(r) : k \in 1..Len(q) /\ k + 1 \in 1..Len(q)
  BY <1>1
<1>8. ASSUME NEW k \in 1..Len(r), Draws(r[k])
      PROVE  r[k].class # NoClass /\ ClassBefore(r, k, after.class, r[k].class)
  BY <1>1, <1>5, <1>7, <1>8 DEF Fit
<1>9. ASSUME strict, NEW k \in 1..Len(r), NeedsTmp(r[k])
      PROVE  TmpBefore(r, k, after.action)
  BY <1>1, <1>6, <1>7, <1>9 DEF Fit
<1>10. ClassBefore(r, Len(r) + 1, after.class, c.class)
  BY <1>5, <1>7 DEF Fit
<1>11. c.action = "Tmp" <=> TmpBefore(r, Len(r) + 1, after.action)
  BY <1>6, <1>7 DEF Fit
<1>12. Fit(r, after, c, strict)
  BY <1>8, <1>9, <1>10, <1>11 DEF Fit
<1>13. strict => ~Strays(o, e)
  BY <1>3 DEF Strays, NeedsTmp
<1> QED
  BY <1>2, <1>12, <1>13 DEF r, e, after
----------------------------------------------------------------------------
\* Without a press that was lost the page drags exactly while the button is
\* down on a drawing tool.
Pressed == primaryDown /\ mode = "Draw"

OwnFits ==
  /\ ~pressLost => (points => primaryDown) /\ (own.action = "Tmp" => primaryDown)
  /\ enabled =>
       /\ own.class # NoClass
       /\ ~pressLost => (own.action = "Tmp" <=> Pressed) /\ (points <=> Pressed)

\* What is drawn under an id; what comes under 0 the server refuses.
FitNow ==
  socket = "Open" /\ enabled /\ clientId # 0 =>
    Fit(up \o building, other[clientId], own, ~pressLost)

\* Only an id that was drawn under just now can have a temporary object.
OthersFit ==
  /\ \A i \in Ids :
       other[i].action = "Tmp" => i \in ghosts \/ (socket = "Open" /\ enabled /\ i = session.id)
  /\ session # NoSession => session.id \notin ghosts
  /\ FitNow

EchoInv == OwnFits /\ OthersFit /\ ~misdrawn /\ (stray => pressLost)

LEMMA FitWeaker ==
  ASSUME NEW q, NEW o, NEW c, NEW strict \in BOOLEAN, NEW weaker \in BOOLEAN,
         Fit(q, o, c, strict), weaker => strict
  PROVE  Fit(q, o, c, weaker)
BY DEF Fit

LEMMA QueueTypes ==
  ASSUME TypeOK
  PROVE  up \in Seq(Event) /\ building \in Seq(Event) /\ up \o building \in Seq(Event)
BY ConcatProperties DEF TypeOK

\* All that is under way grows at its end, sent or added.
LEMMA QueueGrows ==
  ASSUME TypeOK, NEW evs \in Seq(Event),
         Added(evs) \/ (Sent(evs) /\ socket = "Open")
  PROVE  up' \o building' = (up \o building) \o evs
<1>1. up \in Seq(Event) /\ building \in Seq(Event)
  BY QueueTypes
<1>2. building \o evs \in Seq(Event) /\ up \o (building \o evs) \in Seq(Event)
  BY <1>1, ConcatProperties
<1>3. (up \o building) \o evs = up \o (building \o evs)
  BY <1>1, ConcatAssociative
<1>4. (up \o (building \o evs)) \o <<>> = up \o (building \o evs)
  BY <1>2, ConcatEmptySeq
<1> QED
  BY <1>3, <1>4 DEF Added, Sent, MessagesSend

LEMMA QueueHead ==
  ASSUME TypeOK, up # <<>>
  PROVE  /\ up \o building # <<>>
         /\ Head(up \o building) = Head(up)
         /\ Tail(up \o building) = Tail(up) \o building
<1>1. up \in Seq(Event) /\ building \in Seq(Event) /\ Len(up) >= 1 /\ Len(up) \in Nat
      /\ Len(building) \in Nat
  BY QueueTypes, EmptySeq
<1> DEFINE q == up \o building
           t == Tail(up) \o building
<1>2. /\ q \in Seq(Event) /\ Len(q) = Len(up) + Len(building)
      /\ \A i \in 1..Len(q) : q[i] = IF i <= Len(up) THEN up[i] ELSE building[i - Len(up)]
  BY <1>1, ConcatProperties
<1>3. q # <<>>
  BY <1>1, <1>2, EmptySeq
<1>4. /\ Tail(up) \in Seq(Event) /\ Len(Tail(up)) = Len(up) - 1
      /\ \A i \in 1..Len(Tail(up)) : Tail(up)[i] = up[i + 1]
  BY <1>1, HeadTailProperties
<1>5. /\ t \in Seq(Event) /\ Len(t) = Len(up) - 1 + Len(building)
      /\ \A i \in 1..Len(t) :
           t[i] = IF i <= Len(up) - 1 THEN Tail(up)[i] ELSE building[i - (Len(up) - 1)]
  BY <1>1, <1>4, ConcatProperties
<1>6. /\ Tail(q) \in Seq(Event) /\ Len(Tail(q)) = Len(q) - 1
      /\ \A i \in 1..Len(Tail(q)) : Tail(q)[i] = q[i + 1]
  BY <1>2, <1>3, HeadTailProperties
<1> HIDE DEF q, t
<1>7. ASSUME NEW i \in 1..Len(t)
      PROVE  Tail(q)[i] = t[i]
  <2>1. i \in 1..Len(Tail(q)) /\ i + 1 \in 1..Len(q) /\ i \in Nat
    BY <1>1, <1>2, <1>5, <1>6
  <2>2. CASE i <= Len(up) - 1
    <3>1. i + 1 <= Len(up) /\ i \in 1..Len(Tail(up))
      BY <1>1, <1>4, <2>1, <2>2
    <3> QED
      BY <1>2, <1>4, <1>5, <1>6, <2>1, <2>2, <3>1
  <2>3. CASE ~(i <= Len(up) - 1)
    <3>1. ~(i + 1 <= Len(up)) /\ i + 1 - Len(up) = i - (Len(up) - 1)
      BY <1>1, <2>1, <2>3
    <3> QED
      BY <1>2, <1>5, <1>6, <2>1, <2>3, <3>1
  <2> QED
    BY <2>2, <2>3
<1>8. Tail(q) = t
  <2>1. Len(Tail(q)) = Len(t)
    BY <1>1, <1>2, <1>5, <1>6
  <2> QED
    BY <1>5, <1>6, <1>7, <2>1, SeqEqual
<1>9. Head(q) = Head(up)
  <2>1. Head(q) = q[1] /\ Head(up) = up[1]
    BY <1>1, <1>2, <1>3
  <2>2. 1 \in 1..Len(q) /\ 1 <= Len(up)
    BY <1>1, <1>2
  <2> QED
    BY <1>2, <2>1, <2>2
<1> QED
  BY <1>3, <1>8, <1>9 DEF q, t

\* The page adds or sends an event and makes of it what the others will.
LEMMA OneEvent ==
  ASSUME TypeOK, Phase, EchoInv, Input, NEW e \in OfPage(clientId),
         Added(<<e>>) \/ Sent(<<e>>), own' = Handle(own, e),
         Draws(e) => e.class = own.class, ~pressLost => ~Strays(own, e),
         pressLost => pressLost', pressLost' \in BOOLEAN
  PROVE  FitNow'
<1> SUFFICES ASSUME socket = "Open", clientId # 0
             PROVE  Fit(up' \o building', other[clientId], own', ~pressLost')
  BY DEF Input, FitNow, netVars, serverVars
<1> DEFINE q == up \o building
<1>1. e \in Event /\ e.type # "Join" /\ <<e>> \in Seq(Event) /\ own \in Client /\ enabled
  BY EventTypes DEF OfPage, TypeOK, Input
<1>2. q \in Seq(Event)
  BY QueueTypes
<1>3. up' \o building' = Append(q, e)
  BY <1>1, <1>2, QueueGrows, AppendIsConcat
<1>4. Fit(q, other[clientId], own, ~pressLost) /\ own.class # NoClass
  BY <1>1 DEF EchoInv, OthersFit, OwnFits, FitNow
<1>5. (~pressLost) \in BOOLEAN /\ (~pressLost') \in BOOLEAN
  OBVIOUS
<1> HIDE DEF q
<1>6. Fit(Append(q, e), other[clientId], own', ~pressLost)
  BY <1>1, <1>2, <1>4, <1>5, FitAppend
<1> QED
  BY <1>3, <1>5, <1>6, FitWeaker

\* A drag ends with two events at once.
LEMMA TwoEvents ==
  ASSUME TypeOK, Phase, EchoInv, Input,
         NEW d \in OfPage(clientId), NEW e \in OfPage(clientId),
         Sent(<<d, e>>), own' = Handle(Handle(own, d), e), UNCHANGED pressLost,
         ~Draws(d), d.type # "SelectClass", e.class = own.class,
         ~pressLost => ~Strays(own, d), ~NeedsTmp(e)
  PROVE  FitNow'
<1> SUFFICES ASSUME socket = "Open", clientId # 0
             PROVE  Fit(up' \o building', other[clientId], own', ~pressLost)
  BY DEF Input, FitNow, netVars, serverVars
<1> DEFINE q == up \o building
           c == Handle(own, d)
<1>1. /\ d \in Event /\ e \in Event /\ d.type # "Join" /\ e.type # "Join"
      /\ <<d, e>> \in Seq(Event) /\ own \in Client /\ enabled
  BY EventTypes DEF OfPage, TypeOK, Input
<1>2. q \in Seq(Event) /\ Append(q, d) \in Seq(Event)
  BY <1>1, QueueTypes, AppendProperties
<1>3. up' \o building' = Append(Append(q, d), e)
  <2>1. up' \o building' = q \o <<d, e>>
    BY <1>1, QueueGrows
  <2>2. <<d>> \in Seq(Event) /\ <<e>> \in Seq(Event) /\ <<d, e>> = <<d>> \o <<e>>
    <3>1. <<d>> \in Seq(Event) /\ <<e>> \in Seq(Event)
      BY <1>1
    <3>2. <<d, e>> = Append(<<d>>, e)
      BY <1>1, Short
    <3>3. Append(<<d>>, e) = <<d>> \o <<e>>
      BY <1>1, <3>1, AppendIsConcat
    <3> QED
      BY <3>1, <3>2, <3>3
  <2>3. q \o (<<d>> \o <<e>>) = (q \o <<d>>) \o <<e>>
    BY <1>2, <2>2, ConcatAssociative
  <2>4. q \o <<d>> = Append(q, d)
    BY <1>1, <1>2, AppendIsConcat
  <2>5. Append(q, d) \o <<e>> = Append(Append(q, d), e)
    BY <1>1, <1>2, AppendIsConcat
  <2> QED
    BY <2>1, <2>2, <2>3, <2>4, <2>5
<1>4. Fit(q, other[clientId], own, ~pressLost) /\ own.class # NoClass
  BY <1>1 DEF EchoInv, OthersFit, OwnFits, FitNow
<1>5. (~pressLost) \in BOOLEAN
  OBVIOUS
<1>6. c \in Client /\ c.class = own.class
  BY <1>1, HandleType
<1>7. ~Strays(c, e)
  BY DEF Strays, NeedsTmp
<1> HIDE DEF q, c
<1>8. Fit(Append(q, d), other[clientId], c, ~pressLost)
  BY <1>1, <1>2, <1>4, <1>5, FitAppend DEF c
<1>9. Fit(Append(Append(q, d), e), other[clientId], Handle(c, e), ~pressLost)
  BY <1>1, <1>2, <1>4, <1>5, <1>6, <1>7, <1>8, FitAppend
<1> QED
  BY <1>3, <1>9 DEF c

\* Nothing is added; what was waits or is sent.
LEMMA NoEvent ==
  ASSUME TypeOK, Phase, EchoInv, Input, Sent(<<>>) \/ UNCHANGED <<building, up>>,
         UNCHANGED own, pressLost => pressLost', pressLost' \in BOOLEAN
  PROVE  FitNow'
<1> SUFFICES ASSUME socket = "Open", clientId # 0
             PROVE  Fit(up' \o building', other[clientId], own, ~pressLost')
  BY DEF Input, FitNow, netVars, serverVars
<1>1. up \o building \in Seq(Event) /\ <<>> \in Seq(Event)
  BY QueueTypes, EmptySeq
<1>2. (up \o building) \o <<>> = up \o building
  BY <1>1, ConcatEmptySeq
<1>3. up' \o building' = up \o building
  BY <1>1, <1>2, QueueGrows
<1>4. Fit(up \o building, other[clientId], own, ~pressLost)
  BY DEF Input, EchoInv, OthersFit, FitNow
<1>5. (~pressLost) \in BOOLEAN /\ (~pressLost') \in BOOLEAN
  OBVIOUS
<1> QED
  BY <1>3, <1>4, <1>5, FitWeaker

\* An input keeps EchoInv if its events fit and the page still knows its drag.
LEMMA InputEcho ==
  ASSUME EchoInv, Input, FitNow', OwnFits', stray' => pressLost'
  PROVE  EchoInv'
BY DEF EchoInv, Input, OthersFit, netVars, serverVars

\* A page that lost no press throws nothing but what meets no drag.
LEMMA OwnFacts ==
  ASSUME TypeOK, Phase, EchoInv, enabled
  PROVE  /\ own \in Client /\ own.class # NoClass
         /\ ~pressLost =>
              /\ own.action = "Tmp" <=> Pressed
              /\ points <=> Pressed
              /\ ~stray
         /\ ~Throws(own, Ev("Start"))
         /\ \A type \in {"Point", "Cancel"} :
              Throws(own, Ev(type)) <=> own.action = "None"
<1>1. own \in Client /\ own.class # NoClass
  BY DEF EchoInv, OwnFits, TypeOK
<1>2. Ev("Start").type = "Start" /\ Ev("Point").type = "Point" /\ Ev("Cancel").type = "Cancel"
  BY DEF Ev
<1> QED
  BY <1>1, <1>2 DEF EchoInv, OwnFits, Throws

LEMMA EvFacts ==
  ASSUME TypeOK, EchoInv, enabled
  PROVE  /\ \A type \in {"Other", "Start", "Point", "Cancel", "Object"} :
              /\ Ev(type) \in OfPage(clientId) /\ Ev(type) \in Event /\ Ev(type).type = type
              /\ Draws(Ev(type)) => Ev(type).class = own.class
              /\ Draws(Ev(type)) <=> type \in {"Start", "Object"}
              /\ NeedsTmp(Ev(type)) <=> type \in {"Point", "Cancel"}
              /\ Strays(own, Ev(type)) <=> type \in {"Point", "Cancel"} /\ own.action # "Tmp"
         /\ Ev("Object").class = own.class
<1>1. ASSUME NEW type \in {"Other", "Start", "Point", "Cancel", "Object"}
      PROVE  /\ Ev(type) \in OfPage(clientId) /\ Ev(type) \in Event /\ Ev(type).type = type
             /\ type \in {"Start", "Object"} => Ev(type).class = own.class
  <2>1. Ev(type) \in OfPage(clientId) /\ Ev(type) \in Event /\ Ev(type).type = type
    BY EvType, EventTypes
  <2>2. type \in {"Start", "Object"} => Ev(type).class = own.class
    BY DEF Ev
  <2> QED
    BY <2>1, <2>2
<1> QED
  BY <1>1 DEF Draws, NeedsTmp, Strays

\* The handlers of a drag, when no press was lost and when one was.
LEMMA DrawStartEcho ==
  ASSUME TypeOK, Phase, EchoInv, PointerDown, DrawStart, mode = "Draw"
  PROVE  EchoInv'
<1>1. enabled /\ Input /\ UNCHANGED <<pressLost, mode, enabled>> /\ primaryDown' = TRUE
  BY DEF PointerDown, Input
<1>2. Echo("Start") /\ points' = TRUE /\ Sent(<<Ev("Start")>>)
  BY <1>1, OwnFacts DEF DrawStart, EchoThrows
<1>3. own' = Handle(own, Ev("Start")) /\ ~Strays(own, Ev("Start"))
  BY <1>1, <1>2, EvFacts DEF Echo
<1>4. FitNow'
  BY <1>1, <1>2, <1>3, EvFacts, OneEvent DEF TypeOK
<1>5. own'.class = own.class /\ own'.action = "Tmp"
  <2>1. Handle(own, Ev("Start")).class = own.class /\ Handle(own, Ev("Start")).action = "Tmp"
    BY <1>1, OwnFacts, EvFacts, HandleMakes DEF Ends
  <2> QED
    BY <1>3, <2>1
<1>6. OwnFits'
  BY <1>1, <1>2, <1>5, OwnFacts DEF OwnFits, Pressed
<1>7. stray' => pressLost'
  BY <1>1, <1>2, <1>3 DEF Echo, EchoInv
<1> QED
  BY <1>1, <1>4, <1>6, <1>7, InputEcho

LEMMA DrawUpdateEcho ==
  ASSUME TypeOK, Phase, EchoInv, PointerMove, DrawUpdate, Pressed
  PROVE  EchoInv'
<1>1. enabled /\ Input /\ UNCHANGED <<pressLost, mode, enabled, primaryDown>>
  BY DEF PointerMove, Input
<1>2. own' = Handle(own, Ev("Point")) /\ (Sent(<<Ev("Point")>>) \/ Added(<<Ev("Point")>>))
      /\ stray' = (stray \/ Strays(own, Ev("Point")))
      /\ (points' = TRUE \/ (points' = points /\ own.action = "None"))
  BY <1>1, OwnFacts DEF DrawUpdate, Echo, EchoThrows, Handle
<1>3. ~pressLost => ~Strays(own, Ev("Point"))
  BY <1>1, OwnFacts, EvFacts
<1>4. FitNow'
  BY <1>1, <1>2, <1>3, EvFacts, OneEvent DEF TypeOK
<1>5. own'.class = own.class /\ (own'.action = "Tmp" <=> own.action = "Tmp")
  <2>1. /\ Handle(own, Ev("Point")).class = own.class
        /\ Handle(own, Ev("Point")).action = "Tmp" <=> own.action = "Tmp"
    BY <1>1, OwnFacts, EvFacts, HandleMakes DEF Ends
  <2> QED
    BY <1>2, <2>1
<1>6. OwnFits'
  BY <1>1, <1>2, <1>5, OwnFacts DEF OwnFits, Pressed
<1>7. stray' => pressLost'
  BY <1>1, <1>2, <1>3 DEF EchoInv
<1> QED
  BY <1>1, <1>4, <1>6, <1>7, InputEcho

LEMMA DrawFinishEcho ==
  ASSUME TypeOK, Phase, EchoInv, PointerUp, DrawFinish, mode = "Draw"
  PROVE  EchoInv'
<1>1. enabled /\ Input /\ UNCHANGED <<pressLost, mode, enabled>> /\ Pressed
  BY DEF PointerUp, Input, Pressed
<1>2. ~pressLost => ~Strays(own, Ev("Cancel")) /\ ~Throws(own, Ev("Cancel"))
  BY <1>1, OwnFacts, EvFacts
<1>3. stray' = (stray \/ Strays(own, Ev("Cancel")))
  BY DEF DrawFinish, EchoThrows
<1>4. stray' => pressLost'
  BY <1>1, <1>2, <1>3 DEF EchoInv
<1> DEFINE canceled == Handle(own, Ev("Cancel"))
<1>5. canceled \in Client /\ canceled.class = own.class /\ canceled.action # "Tmp"
  BY <1>1, OwnFacts, EvFacts, HandleType, HandleMakes DEF Ends
<1>6. CASE EchoThrows("Cancel") /\ UNCHANGED primaryDown
  <2>1. own' = own /\ canceled = own /\ points' = points /\ Added(<<Ev("Cancel")>>)
        /\ pressLost
    BY <1>1, <1>2, <1>6 DEF EchoThrows, Handle
  <2>2. FitNow'
    BY <1>1, <1>2, <2>1, EvFacts, OneEvent DEF TypeOK
  <2>3. OwnFits'
    BY <1>1, <2>1, OwnFacts DEF OwnFits
  <2> QED
    BY <1>1, <1>4, <2>2, <2>3, InputEcho
<1>7. CASE /\ points
           /\ own' = Handle(canceled, Ev("Object")) /\ Sent(<<Ev("Cancel"), Ev("Object")>>)
           /\ points' = FALSE /\ primaryDown' = FALSE
  <2>1. own'.class = own.class /\ own'.action # "Tmp"
    <3>1. /\ Handle(canceled, Ev("Object")).class = canceled.class
          /\ Handle(canceled, Ev("Object")).action # "Tmp"
      <4> HIDE DEF canceled
      <4> QED
        BY <1>1, <1>5, OwnFacts, EvFacts, HandleMakes DEF Ends
    <3> QED
      BY <1>5, <1>7, <3>1
  <2>2. FitNow'
    BY <1>1, <1>2, <1>7, EvFacts, TwoEvents
  <2>3. OwnFits'
    BY <1>1, <1>7, <2>1, OwnFacts DEF OwnFits, Pressed
  <2> QED
    BY <1>1, <1>4, <2>2, <2>3, InputEcho
<1>8. CASE /\ own' = canceled /\ Sent(<<Ev("Cancel")>>)
           /\ points' = FALSE /\ primaryDown' = FALSE
  <2>1. FitNow'
    BY <1>1, <1>2, <1>8, EvFacts, OneEvent DEF TypeOK
  <2>2. OwnFits'
    BY <1>1, <1>5, <1>8, OwnFacts DEF OwnFits, Pressed
  <2> QED
    BY <1>1, <1>4, <2>1, <2>2, InputEcho
<1> QED
  BY <1>6, <1>7, <1>8 DEF DrawFinish

LEMMA DrawCancelEcho ==
  ASSUME TypeOK, Phase, EchoInv, Cancel
  PROVE  EchoInv'
<1>1. enabled /\ Input /\ DrawCancel /\ primaryDown /\ UNCHANGED <<pressLost, mode, enabled>>
  BY DEF Cancel, Input
<1>2. CASE points
  <2>1. ~pressLost => ~Strays(own, Ev("Cancel")) /\ ~Throws(own, Ev("Cancel"))
    BY <1>1, <1>2, OwnFacts, EvFacts
  <2>2. /\ own' = Handle(own, Ev("Cancel")) /\ Added(<<Ev("Cancel")>>)
        /\ stray' = (stray \/ Strays(own, Ev("Cancel")))
        /\ \/ points' = FALSE /\ primaryDown' = FALSE
           \/ Throws(own, Ev("Cancel")) /\ UNCHANGED <<points, primaryDown>>
    BY <1>1, <1>2 DEF DrawCancel, Echo, EchoThrows, Handle
  <2>3. FitNow'
    BY <1>1, <2>1, <2>2, EvFacts, OneEvent DEF TypeOK
  <2>4. own'.class = own.class /\ own'.action # "Tmp"
    <3>1. Handle(own, Ev("Cancel")).class = own.class /\ Handle(own, Ev("Cancel")).action # "Tmp"
      BY <1>1, OwnFacts, EvFacts, HandleMakes DEF Ends
    <3> QED
      BY <2>2, <3>1
  <2>5. OwnFits'
    BY <1>1, <2>1, <2>2, <2>4, OwnFacts DEF OwnFits, Pressed
  <2>6. stray' => pressLost'
    BY <1>1, <2>1, <2>2 DEF EchoInv
  <2> QED
    BY <1>1, <2>3, <2>5, <2>6, InputEcho
<1>3. CASE ~points
  <2>1. primaryDown' = FALSE /\ UNCHANGED <<building, up, own, points, stray>>
    BY <1>1, <1>3 DEF DrawCancel
  <2>2. FitNow'
    BY <1>1, <2>1, NoEvent DEF TypeOK
  <2>3. OwnFits'
    BY <1>1, <1>3, <2>1, OwnFacts DEF OwnFits, Pressed
  <2> QED
    BY <1>1, <2>1, <2>2, <2>3, InputEcho DEF EchoInv
<1> QED
  BY <1>2, <1>3

(***************************************************************************)
(* No input makes the other page see something else than this one.         *)
(***************************************************************************)
LEMMA UserEcho ==
  ASSUME TypeOK, Phase, EchoInv, User
  PROVE  EchoInv'
<1>0. Input /\ enabled /\ enabled'
  <2>1. Input
    BY DEF User, PointerDown, PointerMove, PointerUp, Cancel, SelectClass, SelectPointer, Command
  <2> QED
    BY <2>1 DEF Input
<1>1. CASE PointerDown
  <2>1. CASE mode = "Draw" /\ DrawStart
    BY <1>1, <2>1, DrawStartEcho
  <2>2. CASE mode = "Point" /\ Sent(<<>>) /\ UNCHANGED <<own, points, stray>>
    <3>1. UNCHANGED <<mode, pressLost>> /\ primaryDown' = TRUE
      BY <1>1 DEF PointerDown
    <3>2. FitNow'
      BY <1>0, <2>2, <3>1, NoEvent DEF TypeOK
    <3>3. OwnFits'
      BY <1>0, <2>2, <3>1, OwnFacts DEF OwnFits, Pressed
    <3> QED
      BY <1>0, <2>2, <3>1, <3>2, <3>3, InputEcho DEF EchoInv
  <2> QED
    BY <1>1, <2>1, <2>2 DEF PointerDown
<1>2. CASE PointerMove
  <2>1. CASE Pressed /\ DrawUpdate
    BY <1>2, <2>1, DrawUpdateEcho
  <2>2. CASE Sent(<<>>) /\ UNCHANGED <<own, points, stray>>
    <3>1. UNCHANGED <<mode, pressLost, primaryDown>>
      BY <1>2 DEF PointerMove
    <3>2. FitNow'
      BY <1>0, <2>2, <3>1, NoEvent DEF TypeOK
    <3>3. OwnFits'
      BY <1>0, <2>2, <3>1, OwnFacts DEF OwnFits, Pressed
    <3> QED
      BY <1>0, <2>2, <3>1, <3>2, <3>3, InputEcho DEF EchoInv
  <2> QED
    BY <1>2, <2>1, <2>2 DEF PointerMove, Pressed
<1>3. CASE PointerUp
  <2>1. CASE mode = "Draw" /\ DrawFinish
    BY <1>3, <2>1, DrawFinishEcho
  <2>2. CASE mode = "Point" /\ primaryDown' = FALSE /\ UNCHANGED <<building, up, own, points, stray>>
    <3>1. UNCHANGED <<mode, pressLost>>
      BY <1>3 DEF PointerUp
    <3>2. FitNow'
      BY <1>0, <2>2, <3>1, NoEvent DEF TypeOK
    <3>3. OwnFits'
      BY <1>0, <2>2, <3>1, OwnFacts DEF OwnFits, Pressed
    <3> QED
      BY <1>0, <2>2, <3>1, <3>2, <3>3, InputEcho DEF EchoInv
  <2> QED
    BY <1>3, <2>1, <2>2 DEF PointerUp
<1>4. CASE Cancel
  BY <1>4, DrawCancelEcho
<1>5. ASSUME NEW c \in Classes, SelectClass(c)
      PROVE  EchoInv'
  <2> DEFINE e == [type |-> "SelectClass", id |-> clientId, class |-> c]
  <2>1. /\ e \in OfPage(clientId) /\ e.type = "SelectClass" /\ e.class = c
        /\ ~Draws(e) /\ ~Strays(own, e)
    BY DEF OfPage, Event, Class, TypeOK, Draws, Strays
  <2>2. /\ Added(<<e>>) /\ mode' = "Draw" /\ pressLost' = (pressLost \/ primaryDown)
        /\ UNCHANGED <<primaryDown, points, stray>> /\ own' = [own EXCEPT !.class = c]
    BY <1>5 DEF SelectClass
  <2>3. own' = Handle(own, e)
    BY <2>1, <2>2 DEF Handle, Throws
  <2>4. (pressLost => pressLost') /\ pressLost' \in BOOLEAN
    BY <2>2 DEF TypeOK
  <2>5. own'.class = c /\ own'.action = own.action /\ c # NoClass
    BY <2>2, ClassesAssumption DEF TypeOK, Client
  <2> HIDE DEF e
  <2>6. FitNow'
    BY <1>0, <2>1, <2>2, <2>3, <2>4, OneEvent
  <2>7. OwnFits'
    BY <1>0, <2>2, <2>5, OwnFacts DEF OwnFits, Pressed
  <2>8. stray' => pressLost'
    BY <2>2 DEF EchoInv
  <2> QED
    BY <1>0, <2>6, <2>7, <2>8, InputEcho
<1>6. CASE SelectPointer
  <2>1. /\ mode' = "Point" /\ pressLost' = (pressLost \/ primaryDown)
        /\ UNCHANGED <<building, up, primaryDown, points, own, stray>>
    BY <1>6 DEF SelectPointer
  <2>2. (pressLost => pressLost') /\ pressLost' \in BOOLEAN
    BY <2>1 DEF TypeOK
  <2>3. FitNow'
    BY <1>0, <2>1, <2>2, NoEvent
  <2>4. OwnFits'
    BY <1>0, <2>1, OwnFacts DEF OwnFits, Pressed
  <2> QED
    BY <1>0, <2>1, <2>3, <2>4, InputEcho DEF EchoInv
<1>7. CASE Command
  <2>1. Sent(<<Ev("Other")>>) /\ UNCHANGED <<mode, primaryDown, points, own, pressLost, stray>>
    BY <1>7 DEF Command
  <2>2. own' = Handle(own, Ev("Other")) /\ ~Strays(own, Ev("Other"))
    BY <1>0, <2>1, EvFacts DEF Handle
  <2>3. FitNow'
    BY <1>0, <2>1, <2>2, EvFacts, OneEvent DEF TypeOK
  <2>4. OwnFits'
    BY <1>0, <2>1, OwnFacts DEF OwnFits, Pressed
  <2> QED
    BY <1>0, <2>1, <2>3, <2>4, InputEcho DEF EchoInv
<1> QED
  BY <1>1, <1>2, <1>3, <1>4, <1>5, <1>6, <1>7 DEF User
----------------------------------------------------------------------------
\* The next event does to the other page what it did here.
LEMMA AcceptEcho ==
  ASSUME TypeOK, Phase, EchoInv, Accept
  PROVE  EchoInv'
<1> DEFINE e == Head(up)
           client == other[e.id]
           q == up \o building
<1>1. socket = "Open" /\ Drawing /\ enabled
  BY UpPhase DEF Accept, Drawing
<1>2. /\ up # <<>> /\ e.type # "Join" /\ e \in Event /\ e.id = session.id
      /\ e.id \in Ids \union {0} /\ clientId = e.id
  BY <1>1, HeadOfPage, EventTypes DEF Accept, Drawing
<1>3. /\ up' = Tail(up)
      /\ UNCHANGED <<netVars, enabled, pageVars, down, session, ghosts, pressLost>>
  BY DEF Accept
<1>4. OwnFits'
  BY <1>3 DEF EchoInv, OwnFits, Pressed, pageVars
<1>5. CASE session.id = 0
  <2>1. UNCHANGED <<other, stray, misdrawn>>
    BY <1>5 DEF Accept
  <2>2. FitNow'
    BY <1>2, <1>3, <1>5 DEF FitNow, pageVars
  <2> QED
    BY <1>3, <1>4, <2>1, <2>2 DEF EchoInv, OthersFit, netVars
<1>6. CASE session.id # 0
  <2>1. e.id \in Ids /\ client \in Client
    BY <1>2, <1>6 DEF TypeOK
  <2>2. /\ other' = [other EXCEPT ![e.id] = Handle(client, e)]
        /\ stray' = (stray \/ Strays(client, e))
        /\ misdrawn' = (misdrawn \/ (e.type \in {"Start", "Object"} /\ client.class # e.class))
    BY <1>2, <1>6 DEF Accept
  <2>3. q \in Seq(Event) /\ q # <<>> /\ Head(q) = e /\ Tail(q) = Tail(up) \o building
    BY <1>2, QueueTypes, QueueHead
  <2>4. Fit(q, client, own, ~pressLost)
    BY <1>1, <1>2, <1>6 DEF EchoInv, OthersFit, FitNow
  <2>5. (~pressLost) \in BOOLEAN
    OBVIOUS
  <2>6. /\ Fit(Tail(q), Handle(client, e), own, ~pressLost)
        /\ Draws(e) => e.class = client.class
        /\ ~pressLost => ~Strays(client, e)
    <3> HIDE DEF q, e, client
    <3> QED
      BY <1>2, <2>1, <2>3, <2>4, <2>5, FitHead
  <2>7. other'[clientId] = Handle(client, e) /\ \A i \in Ids : i # e.id => other'[i] = other[i]
    <3> HIDE DEF e, client
    <3> QED
      BY <1>2, <2>1, <2>2 DEF TypeOK
  <2> HIDE DEF q, e, client
  <2>8. FitNow'
    <3>1. Fit(up' \o building', other'[clientId'], own', ~pressLost')
      BY <1>3, <2>3, <2>6, <2>7 DEF pageVars
    <3> QED
      BY <3>1 DEF FitNow
  <2>9. \A i \in Ids :
          other'[i].action = "Tmp" => i \in ghosts \/ (socket = "Open" /\ enabled /\ i = session.id)
    BY <1>1, <1>2, <2>7 DEF EchoInv, OthersFit
  <2>10. OthersFit'
    BY <1>3, <2>8, <2>9 DEF EchoInv, OthersFit, netVars
  <2>11. ~misdrawn' /\ (stray' => pressLost')
    BY <1>3, <2>2, <2>6 DEF EchoInv, Draws
  <2> QED
    BY <1>4, <2>10, <2>11 DEF EchoInv
<1> QED
  BY <1>5, <1>6

\* A page that is synced begins with a class selected and no drag.
LEMMA StreamSyncedEcho ==
  ASSUME TypeOK, Phase, EchoInv, StreamSynced
  PROVE  EchoInv'
<1> DEFINE i == session.id
           select == [type |-> "SelectClass", id |-> i, class |-> Polyline]
           sent == [type |-> "Other", id |-> i, class |-> NoClass]
           o == other[i]
<1>1. /\ socket = "Open" /\ i \in Ids \union {0} /\ session # NoSession /\ ~enabled
      /\ building = <<>> /\ up = <<>>
  BY DEF StreamSynced, Phase, Joining, Loading, Loaded, Drawing, NoSession
<1>2. /\ enabled' = TRUE /\ clientId' = i /\ mode' = "Draw"
      /\ own' = [SyncedClient(i) EXCEPT !.class = Polyline] /\ building' = <<select>>
      /\ pressLost' = (pressLost \/ primaryDown)
      /\ UNCHANGED <<netVars, primaryDown, points, serverVars, stray, wrongId, misdrawn>>
  BY DEF StreamSynced, EnableDrawing
<1>3. up' \o building' = <<sent, select>>
  <2>1. sent \in Event /\ select \in Event
    BY <1>1, ClassesAssumption DEF Event, Class
  <2> HIDE DEF sent, select
  <2>2. up' = <<>> \o <<>> \o <<sent>>
    BY <1>1 DEF StreamSynced, sent
  <2>3. <<>> \o <<>> = <<>> /\ <<>> \o <<sent>> = <<sent>>
    BY <2>1, Short
  <2>4. <<sent>> \in Seq(Event) /\ Append(<<sent>>, select) = <<sent, select>>
    BY <2>1, Short
  <2>5. <<sent>> \o <<select>> = Append(<<sent>>, select)
    BY <2>1, <2>4, AppendIsConcat
  <2> QED
    BY <1>2, <2>2, <2>3, <2>4, <2>5
<1>4. /\ own'.class = Polyline /\ Polyline # NoClass
      /\ own'.action = "Tmp" => i = 0 /\ own.action = "Tmp"
  <2>1. SyncedClient(i) \in Client
    BY <1>1, SyncedClientType
  <2>2. SyncedClient(i).action = "Tmp" => i = 0 /\ own.action = "Tmp"
    BY DEF SyncedClient, Replay, NewClient
  <2> QED
    BY <1>2, <2>1, <2>2, ClassesAssumption DEF Client
<1>5. i # 0 => o.action # "Tmp"
  BY <1>1 DEF EchoInv, OthersFit
<1>6. ASSUME i # 0
      PROVE  Fit(<<sent, select>>, o, own', ~pressLost')
  <2> DEFINE r == <<sent, select>>
  <2>1. /\ Len(r) = 2 /\ \A k \in 1..2 : k = 1 \/ k = 2
        /\ r[1].type = "Other" /\ r[2].type = "SelectClass" /\ r[2].class = Polyline
    OBVIOUS
  <2> HIDE DEF r, o
  <2>2. ClassBefore(r, 3, o.class, Polyline)
    <3>1. 2 \in 1..3 - 1 /\ \A j \in 2 + 1..3 - 1 : FALSE
      OBVIOUS
    <3> QED
      BY <2>1, <3>1 DEF ClassBefore
  <2>3. ~TmpBefore(r, 3, o.action)
    <3>1. \A j \in 1..3 - 1 : j = 1 \/ j = 2
      OBVIOUS
    <3> QED
      BY <1>5, <1>6, <2>1, <3>1 DEF TmpBefore
  <2>4. \A k \in 1..2 : ~Draws(r[k]) /\ ~NeedsTmp(r[k])
    BY <2>1 DEF Draws, NeedsTmp
  <2>5. Len(r) + 1 = 3
    BY <2>1
  <2>6. Fit(r, o, own', ~pressLost')
    BY <1>4, <1>6, <2>1, <2>2, <2>3, <2>4, <2>5 DEF Fit
  <2> QED
    BY <2>6 DEF r
<1> HIDE DEF select, sent
<1>7. OthersFit'
  <2>1. FitNow'
    BY <1>2, <1>3, <1>6 DEF FitNow, o, serverVars
  <2>2. \A j \in Ids : other'[j].action = "Tmp" => j \in ghosts'
    BY <1>1, <1>2 DEF EchoInv, OthersFit, serverVars
  <2> QED
    BY <1>1, <1>2, <2>1, <2>2 DEF EchoInv, OthersFit, serverVars
<1>8. OwnFits'
  BY <1>2, <1>4 DEF EchoInv, OwnFits, Pressed
<1> QED
  BY <1>2, <1>7, <1>8 DEF EchoInv

\* What happens while the page is not drawing, or stops.
LEMMA OtherwiseEcho ==
  ASSUME TypeOK, Phase, EchoInv
  PROVE  /\ AcceptJoin => EchoInv'
         /\ JoinFull => EchoInv'
         /\ Synced => EchoInv'
         /\ StreamFails => EchoInv'
         /\ Connected => EchoInv'
         /\ Disconnected => EchoInv'
         /\ Reconnect => EchoInv'
         /\ StreamStart => EchoInv'
<1>1. ASSUME AcceptJoin PROVE EchoInv'
  <2>1. socket = "Open" /\ Joining
    BY <1>1, UpPhase, HeadOfPage DEF AcceptJoin
  <2>2. PICK i \in Ids \ ghosts : session' = [state |-> "Streaming", id |-> i]
    BY <1>1 DEF AcceptJoin
  <2>3. UNCHANGED <<netVars, enabled, pageVars, ghosts, saved, other, history>>
    BY <1>1 DEF AcceptJoin
  <2>4. OwnFits'
    BY <2>3 DEF EchoInv, OwnFits, Pressed, pageVars, history
  <2>5. OthersFit'
    BY <2>1, <2>2, <2>3 DEF EchoInv, OthersFit, FitNow, Joining
  <2> QED
    BY <2>3, <2>4, <2>5 DEF EchoInv, history
<1>2. ASSUME Synced PROVE EchoInv'
  <2>1. ~enabled /\ session # NoSession
    BY <1>2 DEF Synced, Phase, NoSession, Joining, Loading, Loaded, Drawing
  <2>2. session' = [session EXCEPT !.state = "Live"] /\ session'.id = session.id
        /\ UNCHANGED <<netVars, enabled, pageVars, ghosts, other, history>>
    BY <1>2 DEF Synced, TypeOK
  <2>3. OwnFits'
    BY <2>2 DEF EchoInv, OwnFits, Pressed, pageVars, history
  <2>4. OthersFit'
    BY <2>1, <2>2 DEF EchoInv, OthersFit, FitNow
  <2> QED
    BY <2>2, <2>3, <2>4 DEF EchoInv, history
<1>3. ASSUME Connected PROVE EchoInv'
  <2>1. ~enabled' /\ socket # "Open"
        /\ UNCHANGED <<mode, primaryDown, points, own, serverVars, history>>
    BY <1>3 DEF Connected, DisableDrawing
  <2>2. OwnFits'
    BY <2>1 DEF EchoInv, OwnFits, history
  <2>3. OthersFit'
    BY <2>1 DEF EchoInv, OthersFit, FitNow, serverVars
  <2> QED
    BY <2>1, <2>2, <2>3 DEF EchoInv, history
<1>4. ASSUME Disconnected PROVE EchoInv'
  <2>1. ~enabled' /\ socket # "Open" /\ UNCHANGED <<pageVars, serverVars, history>>
    BY <1>4 DEF Disconnected, DisableDrawing
  <2>2. OwnFits'
    BY <2>1 DEF EchoInv, OwnFits, history, pageVars
  <2>3. OthersFit'
    BY <2>1 DEF EchoInv, OthersFit, FitNow, serverVars
  <2> QED
    BY <2>1, <2>2, <2>3 DEF EchoInv, history
<1>5. ASSUME Reconnect PROVE EchoInv'
  <2>1. ~enabled' /\ socket # "Open"
        /\ UNCHANGED <<mode, primaryDown, points, own, serverVars, history>>
    BY <1>5 DEF Reconnect, Phase
  <2>2. OwnFits'
    BY <2>1 DEF EchoInv, OwnFits, history
  <2>3. OthersFit'
    BY <2>1 DEF EchoInv, OthersFit, FitNow, serverVars
  <2> QED
    BY <2>1, <2>2, <2>3 DEF EchoInv, history
<1>6. ASSUME StreamStart PROVE EchoInv'
  <2>1. /\ ~enabled /\ ~enabled' /\ own' = NewClient
        /\ UNCHANGED <<netVars, mode, primaryDown, points, serverVars, history>>
    BY <1>6 DEF StreamStart, DisableDrawing, Phase, Joining, Loading, Loaded, Drawing
  <2>2. OwnFits'
    BY <2>1 DEF EchoInv, OwnFits, NewClient, history
  <2>3. OthersFit'
    BY <2>1 DEF EchoInv, OthersFit, FitNow, serverVars
  <2> QED
    BY <2>1, <2>2, <2>3 DEF EchoInv, history
<1>7. ASSUME JoinFull PROVE EchoInv'
  <2>1. socket = "Open" /\ Joining
    BY <1>7, UpPhase, HeadOfPage DEF JoinFull
  <2>2. session' = [state |-> "Streaming", id |-> 0]
        /\ UNCHANGED <<netVars, enabled, pageVars, ghosts, saved, other, history>>
    BY <1>7 DEF JoinFull
  <2>3. 0 \notin ghosts
    BY IdNotZero DEF TypeOK
  <2>4. OwnFits'
    BY <2>2 DEF EchoInv, OwnFits, Pressed, pageVars, history
  <2>5. OthersFit'
    BY <2>1, <2>2, <2>3 DEF EchoInv, OthersFit, FitNow, Joining
  <2> QED
    BY <2>2, <2>4, <2>5 DEF EchoInv, history
<1>8. ASSUME StreamFails PROVE EchoInv'
  <2>1. ~enabled /\ session # NoSession
    BY <1>8 DEF StreamFails, Phase, NoSession, Joining, Loading, Loaded, Drawing
  <2>2. session'.id = session.id
        /\ UNCHANGED <<netVars, enabled, pageVars, ghosts, other, history>>
    BY <1>8 DEF StreamFails, TypeOK
  <2>3. OwnFits'
    BY <2>2 DEF EchoInv, OwnFits, Pressed, pageVars, history
  <2>4. OthersFit'
    BY <2>1, <2>2 DEF EchoInv, OthersFit, FitNow
  <2> QED
    BY <2>2, <2>3, <2>4 DEF EchoInv, history
<1> QED
  BY <1>1, <1>2, <1>3, <1>4, <1>5, <1>6, <1>7, <1>8

LEMMA BreakEcho ==
  ASSUME TypeOK, Phase, EchoInv, Break
  PROVE  EchoInv'
<1>1. /\ socket = "Open" /\ socket' = "Dead" /\ session' = NoSession
      /\ ghosts' = IF session.id = 0 THEN ghosts ELSE ghosts \union {session.id}
      /\ UNCHANGED <<enabled, pageVars, other, history>>
  BY DEF Break
<1>2. OwnFits'
  BY <1>1 DEF EchoInv, OwnFits, Pressed, pageVars, history
<1>3. OthersFit'
  BY <1>1, IdNotZero DEF EchoInv, OthersFit, FitNow
<1> QED
  BY <1>1, <1>2, <1>3 DEF EchoInv, history

LEMMA GhostLeavesEcho ==
  ASSUME TypeOK, Phase, EchoInv, NEW i \in Ids, GhostLeaves(i)
  PROVE  EchoInv'
<1>1. /\ i \in ghosts /\ ghosts' = ghosts \ {i}
      /\ other' = [other EXCEPT ![i].action = IF @ = "Tmp" THEN "None" ELSE @]
      /\ UNCHANGED <<netVars, enabled, pageVars, up, down, session, saved, history>>
  BY DEF GhostLeaves
<1>2. /\ other'[i].action # "Tmp"
      /\ \A j \in Ids : j # i => other'[j] = other[j]
  BY <1>1 DEF TypeOK, Client
<1>3. socket = "Open" /\ enabled /\ clientId # 0 => clientId \in Ids /\ clientId # i
  BY <1>1, EnabledPhase DEF Drawing, EchoInv, OthersFit, NoSession
<1>4. OwnFits'
  BY <1>1 DEF EchoInv, OwnFits, Pressed, pageVars, history
<1>5. OthersFit'
  <2>1. FitNow'
    BY <1>1, <1>2, <1>3 DEF EchoInv, OthersFit, FitNow, netVars, pageVars, history
  <2>2. \A j \in Ids : other'[j].action = "Tmp" =>
          j \in ghosts' \/ (socket' = "Open" /\ enabled' /\ j = session'.id)
    BY <1>1, <1>2 DEF EchoInv, OthersFit, netVars
  <2> QED
    BY <1>1, <2>1, <2>2 DEF EchoInv, OthersFit
<1> QED
  BY <1>1, <1>4, <1>5 DEF EchoInv, history

LEMMA InitEcho == Init => EchoInv
<1> SUFFICES ASSUME Init PROVE EchoInv
  OBVIOUS
<1>1. \A i \in Ids : other[i].action # "Tmp"
  BY DEF Init, Replay
<1> QED
  BY <1>1 DEF Init, EchoInv, OwnFits, OthersFit, FitNow, NewClient

LEMMA NextEcho ==
  ASSUME TypeOK, Phase, EchoInv, [Next]_vars
  PROVE  EchoInv'
<1>1. CASE Server
  BY <1>1, AcceptEcho, OtherwiseEcho DEF Server
<1>2. CASE Page
  BY <1>2, StreamSyncedEcho, OtherwiseEcho DEF Page
<1>3. CASE User
  BY <1>3, UserEcho
<1>4. CASE Break
  BY <1>4, BreakEcho
<1>5. CASE Disconnected
  BY <1>5, OtherwiseEcho
<1>6. CASE \E i \in Ids : GhostLeaves(i)
  BY <1>6, GhostLeavesEcho
<1>7. CASE UNCHANGED vars
  BY <1>7 DEF vars, netVars, pageVars, serverVars, history, EchoInv, OwnFits, OthersFit, FitNow, Pressed
<1> QED
  BY <1>1, <1>2, <1>3, <1>4, <1>5, <1>6, <1>7 DEF Next

(***************************************************************************)
(* Objects are drawn everywhere with the class they were drawn with here.  *)
(***************************************************************************)
THEOREM ClassesAgree == Spec => []SameClass
<1>1. EchoInv => SameClass
  BY DEF EchoInv, SameClass
<1> QED
  BY <1>1, InitPhase, NextPhase, InitEcho, NextEcho, PTL DEF Spec

(***************************************************************************)
(* When nothing is under way any more, another page sees this one as it    *)
(* sees itself.                                                            *)
(***************************************************************************)
THEOREM EchoIsShared == Spec => []EchoAgrees
<1>1. TypeOK /\ EchoInv => EchoAgrees
  <2> SUFFICES ASSUME TypeOK, EchoInv, enabled, clientId # 0, socket = "Open",
                      building = <<>>, up = <<>>
               PROVE  /\ other[clientId].class = own.class
                      /\ (other[clientId].action = "Tmp") = (own.action = "Tmp")
    BY DEF EchoAgrees
  <2> DEFINE o == other[clientId]
  <2>1. up \o building = <<>> /\ Len(<<>>) + 1 = 1 /\ \A j \in 1..1 - 1 : FALSE
    OBVIOUS
  <2>2. Fit(<<>>, o, own, ~pressLost)
    BY <2>1 DEF EchoInv, OthersFit, FitNow
  <2>3. ClassBefore(<<>>, 1, o.class, own.class)
        /\ (own.action = "Tmp" <=> TmpBefore(<<>>, 1, o.action))
    BY <2>1, <2>2 DEF Fit
  <2> HIDE DEF o
  <2>4. o.class = own.class /\ (own.action = "Tmp" <=> o.action = "Tmp")
    BY <2>1, <2>3 DEF ClassBefore, TmpBefore
  <2> QED
    BY <2>4 DEF o
<1> QED
  BY <1>1, InitPhase, NextPhase, InitEcho, NextEcho, PTL DEF Spec

(***************************************************************************)
(* No Point or Cancel meets another object than its own before a press     *)
(* outlived the tool or the connection it began with.                      *)
(***************************************************************************)
THEOREM NothingStrays == Spec => []StraysAfterLostPress
<1>1. EchoInv => StraysAfterLostPress
  BY DEF EchoInv, StraysAfterLostPress
<1> QED
  BY <1>1, InitPhase, NextPhase, InitEcho, NextEcho, PTL DEF Spec
================================================================================
