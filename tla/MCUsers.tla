------------------------------- MODULE MCUsers -------------------------------
(***************************************************************************)
(* An instance of Users for TLC: two users who can administrate each other. *)
(***************************************************************************)
EXTENDS Users, TLC

HandlersSymmetry == Permutations(Handlers)
=============================================================================
