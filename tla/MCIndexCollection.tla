-------------------------- MODULE MCIndexCollection --------------------------
(***************************************************************************)
(* Instances of IndexCollection for TLC.                                   *)
(***************************************************************************)
EXTENDS IndexCollection, TLC

\* Databases are interchangeable.
DatabasesSymmetry == Permutations(Databases)
=============================================================================
