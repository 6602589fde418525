------------------------------ MODULE Session ------------------------------
(***************************************************************************)
(* One terminal session as the daemon's SessionManager keeps it            *)
(* (pty-daemon/src/session.rs), reduced to the fields that decide who      *)
(* reads the PTY: the state, the attached client, the client a takeover    *)
(* displaced, the count of WebSocket clients, and whether the              *)
(* baton-release cooldown is still running.  Ring, parser, snapshot and    *)
(* window size are data; whether kill(pid, 0) finds the child is an input  *)
(* of the handlers that ask.                                               *)
(***************************************************************************)
EXTENDS Naturals

CONSTANTS Fd,       \* the descriptor numbers the kernel gives to control sockets
          NoFd      \* Option::None for owner_fd and previous_owner_fd

ASSUME FdAssumption == NoFd \notin Fd

\* Idle (Tier 3) is declared by the code and tested, but the daemon never
\* calls degrade_to_idle, so no session enters it.
SessionState == {"Attached", "Active"}

Session == [state    : SessionState,
            owner    : Fd \cup {NoFd},
            prev     : Fd \cup {NoFd},
            ws       : Nat,
            cooldown : BOOLEAN]

\* Session::new
NewSession == [state |-> "Active", owner |-> NoFd, prev |-> NoFd,
               ws |-> 0, cooldown |-> FALSE]

\* Session::attach
Attach(ss, c) == [ss EXCEPT !.state = "Attached", !.owner = c]

\* Session::detach
Detach(ss) == [ss EXCEPT !.state = "Active", !.owner = NoFd]

\* Session::baton_detach
BatonDetach(ss) ==
  Detach([ss EXCEPT !.prev = IF ss.owner # NoFd THEN ss.owner ELSE ss.prev])

\* Mutant: a disconnect forgets to clear previous_owner_fd.
WithoutClient_KeepsPrev(ss, c) == IF ss.owner = c THEN Detach(ss) ELSE ss

\* Mutant: a disconnect clears previous_owner_fd and nothing else.
WithoutClient_KeepsOwner(ss, c) == [ss EXCEPT !.prev = IF @ = c THEN NoFd ELSE @]

\* What handle_client_disconnect does to a session when client c is gone.
WithoutClient(ss, c) ==
  LET cleared == [ss EXCEPT !.prev = IF @ = c THEN NoFd ELSE @]
  IN  IF ss.owner = c THEN Detach(cleared) ELSE cleared

\* handle_ws_attach counts the WS client.
WsJoined(ss) == [ss EXCEPT !.ws = @ + 1]

\* Mutant: the count is decremented without a floor.
WsLeft_NoFloor(ss) == [ss EXCEPT !.ws = @ - 1]

\* handle_ws_detach: the count goes down for whichever client asks.
WsLeft(ss) == IF ss.ws > 0 THEN [ss EXCEPT !.ws = @ - 1] ELSE ss
=============================================================================
