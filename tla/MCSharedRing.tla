---------------------------- MODULE MCSharedRing ---------------------------
(* SharedRing on small instances. *)
EXTENDS SharedRing, TLC
=============================================================================
