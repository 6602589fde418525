---------------------------- MODULE PtyOwnership ---------------------------
(***************************************************************************)
(* What the daemon promises about a PTY, without kqueue, sockets or        *)
(* takeovers (pty-daemon/docs/design.md, "hot standby"): at every moment a *)
(* live session has exactly one designated reader, the daemon or one       *)
(* connected client; the role goes from one client to another only through *)
(* the daemon; and a client that disconnects gives back all it had in the  *)
(* same step.                                                              *)
(***************************************************************************)
CONSTANTS Fd, Sid

VARIABLES conn,     \* connected clients
          reader    \* the designated reader of every session

NotYet  == "not yet"
Standby == "daemon"
Ended   == "ended"

avars == <<conn, reader>>

AInit == /\ conn = {}
         /\ reader = [s \in Sid |-> NotYet]

Connect(c) == /\ c \notin conn
              /\ conn' = conn \cup {c}
              /\ UNCHANGED reader

Leave(c) == /\ c \in conn
            /\ conn' = conn \ {c}
            /\ reader' = [s \in Sid |-> IF reader[s] = c THEN Standby ELSE reader[s]]

Start(s) == /\ reader[s] = NotYet
            /\ reader' = [reader EXCEPT ![s] = Standby]
            /\ UNCHANGED conn

Grant(s, c) == /\ reader[s] = Standby
               /\ c \in conn
               /\ reader' = [reader EXCEPT ![s] = c]
               /\ UNCHANGED conn

TakeBack(s) == /\ reader[s] \in Fd
               /\ reader' = [reader EXCEPT ![s] = Standby]
               /\ UNCHANGED conn

Finish(s) == /\ reader[s] \in Fd \cup {Standby}
             /\ reader' = [reader EXCEPT ![s] = Ended]
             /\ UNCHANGED conn

FinishAll == /\ conn' = {}
             /\ reader' = [s \in Sid |->
                  IF reader[s] = NotYet THEN NotYet ELSE Ended]

ANext == \/ \E c \in Fd : Connect(c) \/ Leave(c)
         \/ \E s \in Sid : \/ Start(s) \/ TakeBack(s) \/ Finish(s)
                           \/ \E c \in Fd : Grant(s, c)
         \/ FinishAll

ASpec == AInit /\ [][ANext]_avars
=============================================================================
