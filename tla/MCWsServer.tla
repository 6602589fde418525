----------------------------- MODULE MCWsServer ----------------------------
(* WsServer on small instances. *)
EXTENDS WsServer, TLC

\* Sessions are interchangeable, and so are clients.
WsSymmetry == Permutations(Ws) \cup Permutations(Sid)
=============================================================================
