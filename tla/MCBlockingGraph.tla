--------------------------- MODULE MCBlockingGraph ---------------------------
(***************************************************************************)
(* Instances of BlockingGraph for TLC: every blocking graph on a few        *)
(* sessions, and every order of its rows.                                  *)
(***************************************************************************)
EXTENDS BlockingGraph
=============================================================================
