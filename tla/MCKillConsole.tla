----------------------------- MODULE MCKillConsole -----------------------------
(***************************************************************************)
(* An instance of KillConsole for TLC: two instances, and frames that hold   *)
(* a session of each kind.                                                  *)
(***************************************************************************)
EXTENDS KillConsole, TLC

FetchSymmetry == Permutations(Fetches)

MCFrames == {[s \in {51} |-> "user"],
             50 :> "user" @@ 51 :> "ending"}
=============================================================================
