---------------------------- MODULE MCPaperView ----------------------------
(* Symmetry and view for the run of PaperView.                             *)
EXTENDS PaperView

AllAlike == Permutations(Pages)

(***************************************************************************)
(* Of the screen of a page, what it shows after its next animation frame;  *)
(* of one that went astray, nothing.  The invariants look at a screen only *)
(* when no draw is requested, which the view tells, and never at one that  *)
(* is astray, which it stays until the page is closed.  Without Cancel on  *)
(* finished objects, which leads astray, it does not matter in how many    *)
(* animation frames things are drawn.                                      *)
(***************************************************************************)
Screen(v) ==
  <<v.increments, v.currentAction, v.drawRequested, v.failed, v.astray,
    IF v.astray THEN {} ELSE Draw(v).shown>>

View == <<live, id, [p \in Pages |-> Screen(view[p])], userVars, serverVars, loads>>
==============================================================================
