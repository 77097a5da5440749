--------------------------- MODULE MCIndexOperation ---------------------------
(***************************************************************************)
(* Instances of IndexOperation for TLC.                                    *)
(***************************************************************************)
EXTENDS IndexOperation
=============================================================================
