------------------------------ MODULE MCRefCount ------------------------------
(***************************************************************************)
(* Model-checking instance of RefCount.                                    *)
(***************************************************************************)
EXTENDS RefCount, TLC

=============================================================================
