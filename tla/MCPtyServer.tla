---------------------------- MODULE MCPtyServer ----------------------------
(* PtyServer on small instances. *)
EXTENDS PtyServer, TLC

FdSymmetry == Permutations(Fd)
=============================================================================
