---------------------------- MODULE MCEventLoop ----------------------------
(* EventLoop on small instances. *)
EXTENDS EventLoop, TLC
=============================================================================
