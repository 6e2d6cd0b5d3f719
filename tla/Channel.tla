------------------------------- MODULE Channel -------------------------------
(***************************************************************************)
(* What a MsgSession promises its callers: per client, an ordered lossless *)
(* stream of messages for as long as its websocket is open.  A message     *)
(* that was accepted is delivered once, after everything accepted before   *)
(* it; closing stops delivery and makes later messages vanish.             *)
(***************************************************************************)
EXTENDS Naturals, Sequences

CONSTANTS Sessions, Message

VARIABLES
  open,       \* open[s]: the websocket of s is connected
  accepted,   \* accepted[s]: every message taken for s, in order
  delivered   \* delivered[s]: how many of them were handed to the socket

channelVars == <<open, accepted, delivered>>

Init ==
  /\ open = [s \in Sessions |-> TRUE]
  /\ accepted = [s \in Sessions |-> <<>>]
  /\ delivered = [s \in Sessions |-> 0]

Accept(s) ==
  /\ open[s]
  /\ \E m \in Message : accepted' = [accepted EXCEPT ![s] = Append(@, m)]
  /\ UNCHANGED <<open, delivered>>

\* Any number of waiting messages may go out in one step.
Deliver(s) ==
  /\ open[s]
  /\ \E n \in 1..Len(accepted[s]) :
       /\ n > delivered[s]
       /\ delivered' = [delivered EXCEPT ![s] = n]
  /\ UNCHANGED <<open, accepted>>

Close(s) ==
  /\ open[s]
  /\ open' = [open EXCEPT ![s] = FALSE]
  /\ UNCHANGED <<accepted, delivered>>

Next == \E s \in Sessions : Accept(s) \/ Deliver(s) \/ Close(s)

Spec == Init /\ [][Next]_channelVars
==============================================================================
