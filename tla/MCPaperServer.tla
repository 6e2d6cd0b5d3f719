---------------------------- MODULE MCPaperServer ----------------------------
(* Constant values for the runs of PaperServer.                            *)
EXTENDS PaperServer, TLC

Stored(n) == Ev("Stored", 1, n)
EmptyPaper == [disk |-> <<>>, events |-> <<>>]
OneBlock == [disk |-> <<[events |-> <<Stored(1)>>, ok |-> TRUE]>>, events |-> <<"Stored">>]
Corrupt == [disk |-> <<[events |-> <<Stored(1)>>, ok |-> TRUE], [events |-> <<>>, ok |-> FALSE]>>,
            events |-> <<"Stored">>]
Empty == {EmptyPaper}
EmptyOrCorrupt == {EmptyPaper, Corrupt}
AllPapers == {EmptyPaper, OneBlock, Corrupt}
BlockOrCorrupt == {OneBlock, Corrupt}

(***************************************************************************)
(* The view of a client in safety runs: the stored draws, the cursors and  *)
(* the marks of the stream it was sent, not how they are cut into          *)
(* messages, and not notified, on which only fairness depends.  No action  *)
(* and no invariant of those runs tells two states with the same view      *)
(* apart.                                                                  *)
(***************************************************************************)
DrawNumbers(evs) ==
  LET draws == SelectSeq(evs, LAMBDA e : e.kind = "Stored") IN [i \in DOMAIN draws |-> draws[i].n]

Mark(msgs, i) ==
  CASE msgs[i].type = "Block" -> <<"Block">>
    [] msgs[i].type = "Frame" ->
         IF \E j \in 1..i - 1 : msgs[j].type = "Frame" THEN <<>> ELSE <<"Frame">>
    [] OTHER -> <<msgs[i].type, msgs[i].id>>

Summary(msgs) ==
  LET upTo[i \in 0..Len(msgs)] ==
        IF i = 0 THEN <<>>
        ELSE upTo[i - 1] \o Mark(msgs, i) \o DrawNumbers(msgs[i].events)
  IN upTo[Len(msgs)]

ClientView(s) ==
  LET sent == Sent(s) IN
    <<Summary(wire[s]), msg_queue[s] = <<>>, Summary(msg_queue[s]),
      UNION {sent[i].cursors : i \in DOMAIN sent}>>

View == <<ws, [s \in Sessions |-> ClientView(s)], deferred, buffered, pc,
          sessionVars, paperVars, need_data_sessions, store_sessions, io, ghostVars>>

\* In the safety runs all clients are alike.
Clients == Permutations(Sessions)
==============================================================================
