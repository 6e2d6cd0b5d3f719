---------------------------- MODULE MCPaperPanZoom ----------------------------
(***************************************************************************)
(* A small screen for PaperPanZoom: two pointer positions that differ in   *)
(* both directions, and flings along and against each direction.           *)
(***************************************************************************)
EXTENDS PaperPanZoom

CONSTANTS X, Y

MCPoint == {[a \in Axes |-> 0], [a \in Axes |-> 1]}

MCFlings ==
  {[a \in Axes |-> 0], [a \in Axes |-> -1], [a \in Axes |-> IF a = X THEN 1 ELSE 0]}
==============================================================================
