----------------------------- MODULE PtyServer -----------------------------
(***************************************************************************)
(* The control plane of the PTY daemon (pty-daemon/src/server.rs).         *)
(*                                                                         *)
(* The daemon is one thread around a kqueue.  Every handler runs to its    *)
(* end before the next event, so a handler is one action, with two         *)
(* exceptions the code itself makes:                                       *)
(*   - handle_client_data reads a socket once and then serves every        *)
(*     complete frame of the read buffer (pc.at = "serve"), with blocking  *)
(*     writes to the client in between;                                    *)
(*   - a baton takeover blocks in wait_for_detach_ack until a frame, a     *)
(*     timeout or the end of the connection (pc.at = "await").             *)
(* Clients run all the time.  ETerm is not part of the repository: it is   *)
(* modelled from the duties protocol.rs gives it (Push, PushAck) and from  *)
(* the command-line client in main.rs.                                     *)
(*                                                                         *)
(* Sockets carry frames; a socket holds at most QBound of them in each     *)
(* direction.                                                              *)
(***************************************************************************)
EXTENDS Session, Sequences, FiniteSets

CONSTANTS Sid,            \* session ids; a Uuid is never reused
          NoSid,
          QBound,         \* frames a socket buffer holds in one direction
          LeftoverBound,  \* frames an earlier wait may have left in read_buf
          MaxWs,          \* bound on ws_client_count
          Requests,       \* the kinds of request the clients of an instance send
          Faults          \* which faults an instance has; "cut": AttachReady is
                          \* cut short by the write timeout, its descriptor not;
                          \* "swallow": a read takes the byte of a descriptor too;
                          \* "torn": a client dies inside a ring write

ASSUME PtyAssumption == /\ NoSid \notin Sid
                        /\ Fd \cap {"not yet", "daemon", "ended"} = {}
                        /\ QBound \in Nat \ {0}
                        /\ LeftoverBound \in Nat
                        /\ MaxWs \in Nat
                        /\ Requests \subseteq {"Attach", "Detach", "Kill",
                                              "Create", "Query", "Shutdown"}
                        /\ Faults \subseteq {"cut", "swallow", "torn"}

VARIABLES
  ids,       \* keys of SessionManager.sessions
  used,      \* every id ever given out
  session,   \* the Session of every id in ids
  kq,        \* sessions whose master_fd is registered for EVFILT_READ
  odd,       \* sessions whose ring a writer left with an odd sequence
  clients,   \* keys of Server.clients
  running,   \* Server.running
  pc,        \* where the event loop stands
  readBuf,   \* ClientState.read_buf, in frames
  open,      \* connections whose far end is still open
  toDaemon,  \* frames in the socket towards the daemon
  toClient,  \* frames in the socket towards the client
  timed,     \* clients whose stream has the write timeout a push set
  waiting,   \* the client has a request without a response
  holds,     \* the sessions whose dup(master_fd) the client process has open
  missed     \* the sessions whose descriptor came and was lost in a plain read

sessionVars == <<ids, used, session, kq, odd>>
socketVars  == <<toDaemon, toClient, readBuf, timed>>
clientVars  == <<waiting, holds, missed>>
vars == <<sessionVars, clients, running, pc, socketVars, open, clientVars>>

-----------------------------------------------------------------------------
(* Messages *)

\* Ping, List, WinsizeUpdate and Input leave all of this state alone: "Query".
SessionRequest == {"Attach", "Detach", "Kill"}
PlainRequest   == {"Create", "Query", "Shutdown"}
Ack            == {"DetachAck", "ResumeAck"}

Frame == [kind : SessionRequest \cup Ack, sid : Sid]
           \cup [kind : PlainRequest, sid : {NoSid}]

\* Every response without an effect on the client's descriptors is "Reply".
\* AttachReady and ResumeAttach come with dup(master_fd); the NoFd forms are
\* the same messages when sending the descriptor failed, and StrayFd is the
\* byte of a descriptor whose AttachReady did not get through.
Response == {"Reply", "Detached", "AttachReady", "AttachNoFd"}
Push     == {"ForceDetach", "ResumeAttach", "ResumeNoFd"}

Message == [kind : (Response \cup Push \cup {"StrayFd"}) \ {"Reply"}, sid : Sid]
             \cup [kind : {"Reply"}, sid : {NoSid}]

Msg(k, s) == [kind |-> k, sid |-> s]
Reply     == Msg("Reply", NoSid)

PC == [at   : {"loop", "serve", "await", "hung", "down"},
       fd   : Fd \cup {NoFd},
       sid  : Sid \cup {NoSid},
       then : {"none", "attach", "detach"}]

AtLoop == [at |-> "loop", fd |-> NoFd, sid |-> NoSid, then |-> "none"]
Serving(c) == [at |-> "serve", fd |-> c, sid |-> NoSid, then |-> "none"]
Awaiting(c, s, t) == [at |-> "await", fd |-> c, sid |-> s, then |-> t]
Hung == [at |-> "hung", fd |-> NoFd, sid |-> NoSid, then |-> "none"]
Down == [at |-> "down", fd |-> NoFd, sid |-> NoSid, then |-> "none"]

-----------------------------------------------------------------------------
Init ==
  /\ ids = {} /\ used = {} /\ kq = {} /\ odd = {} /\ timed = {}
  /\ session = [s \in Sid |-> NewSession]
  /\ clients = {} /\ open = {}
  /\ running = TRUE
  /\ pc = AtLoop
  /\ readBuf  = [c \in Fd |-> <<>>]
  /\ toDaemon = [c \in Fd |-> <<>>]
  /\ toClient = [c \in Fd |-> <<>>]
  /\ waiting  = [c \in Fd |-> FALSE]
  /\ holds    = [c \in Fd |-> {}]
  /\ missed   = [c \in Fd |-> {}]

-----------------------------------------------------------------------------
(* What the handlers share *)

\* Mutant: other events are handled while a takeover waits.
AtTop_WhileAwaiting == pc.at \in {"loop", "await"} /\ running

\* The loop is about to handle an event.  The rest of a kevent batch is still
\* handled after a Shutdown; that is the order in which the Shutdown came last.
AtTop == pc.at = "loop" /\ running

\* There is somebody to write to, and room.  A write that finds none is lost.
CanWrite(c) == c \in open /\ Len(toClient[c]) < QBound

Written(c, m) == IF CanWrite(c)
                 THEN [toClient EXCEPT ![c] = Append(@, m)]
                 ELSE toClient

\* A response is a blocking write: the daemon stands still while c does not read,
\* for ever unless a push has left its write timeout on the stream.
MayAnswer(c) == c \notin open \/ CanWrite(c) \/ c \in timed

\* Mutant: a push without set_write_timeout.
Pushes_NoTimeout(c, m) == /\ toClient' = Written(c, m)
                          /\ UNCHANGED timed

\* A push sets the timeout first; it fails when there is no room in time.
Pushes(c, m) == /\ toClient' = Written(c, m)
                /\ timed' = timed \cup {c}

\* Mutant: master_fd is not registered again.
DaemonReads_NotRegistered(s, ss) == /\ session' = [session EXCEPT ![s] = ss]
                                    /\ UNCHANGED <<ids, used, kq, odd>>

\* Session s becomes ss and the daemon reads its PTY again (EV_ADD).
DaemonReads(s, ss) == /\ session' = [session EXCEPT ![s] = ss]
                      /\ kq' = kq \cup {s}
                      /\ UNCHANGED <<ids, used, odd>>

\* Mutant: the registration of a dropped session stays.
Remove_LeavesRegistration(s) == /\ ids' = ids \ {s}
                                /\ session' = [session EXCEPT ![s] = NewSession]
                                /\ odd' = odd \ {s}
                                /\ UNCHANGED <<used, kq>>

\* EV_DELETE, drop the Session: the map entry and the master_fd are gone, and
\* with them everything the record held.
Remove(s) == /\ ids' = ids \ {s}
             /\ kq' = kq \ {s}
             /\ odd' = odd \ {s}
             /\ session' = [session EXCEPT ![s] = NewSession]
             /\ UNCHANGED used

\* handle_create; a new session is Active and its PTY is read by the daemon.
Created(s) == /\ s \notin used
              /\ ids' = ids \cup {s}
              /\ used' = used \cup {s}
              /\ session' = [session EXCEPT ![s] = NewSession]
              /\ kq' = kq \cup {s}
              /\ UNCHANGED odd

\* SharedRingBuffer::dump returns: it spins while the sequence is odd, which
\* only another writer that is still there can make even for a moment.
DumpReturns(s) == s \notin odd \/ \E d \in open : s \in holds[d]

\* A dump that does not return stops the loop for good.
DumpHangs == pc' = Hung

-----------------------------------------------------------------------------
(* Connections: accept_clients, handle_client_disconnect *)

\* accept_clients.  The kernel reuses descriptor numbers.
Accept(c) ==
  /\ AtTop
  /\ c \notin clients
  /\ clients' = clients \cup {c}
  /\ open' = open \cup {c}
  /\ UNCHANGED <<sessionVars, running, pc, socketVars, clientVars>>

\* handle_client_disconnect, on EV_EOF or when read returns 0.  EV_EOF wins
\* over unread data: frames still in the socket are dropped with it.  The ring
\* of every session c owned is dumped for its parser.
Disconnect(c) ==
  /\ AtTop
  /\ c \in clients \ open
  /\ \A s \in ids : session[s].owner = c => DumpReturns(s)
  /\ clients' = clients \ {c}
  /\ session' = [s \in Sid |-> WithoutClient(session[s], c)]
  /\ kq' = kq \cup {s \in ids : session[s].owner = c}
  /\ toDaemon' = [toDaemon EXCEPT ![c] = <<>>]
  /\ toClient' = [toClient EXCEPT ![c] = <<>>]
  /\ readBuf'  = [readBuf  EXCEPT ![c] = <<>>]
  /\ timed' = timed \ {c}
  /\ UNCHANGED <<ids, used, odd, running, pc, open, clientVars>>

\* The owner died inside a ring write.  What the handler did before the dump,
\* nobody will ever look at.
DisconnectHangs(c) ==
  /\ AtTop
  /\ c \in clients \ open
  /\ \E s \in ids \cap odd : session[s].owner = c
  /\ DumpHangs
  /\ UNCHANGED <<sessionVars, clients, running, socketVars, open, clientVars>>

-----------------------------------------------------------------------------
(* handle_client_data: one read, then the frames of the buffer one by one *)

ReadClient(c) ==
  /\ AtTop
  /\ c \in clients
  /\ \E n \in 1 .. Len(toDaemon[c]) :
       /\ readBuf'  = [readBuf EXCEPT ![c] = @ \o SubSeq(toDaemon[c], 1, n)]
       /\ toDaemon' = [toDaemon EXCEPT ![c] = SubSeq(@, n + 1, Len(@))]
  /\ pc' = Serving(c)
  /\ UNCHANGED <<sessionVars, clients, running, open, toClient, timed, clientVars>>

\* The frame being served, and what every served frame does: the response is
\* written and the frame leaves the buffer.
Serves(c, k) == /\ pc.at = "serve" /\ pc.fd = c
                /\ readBuf[c] # <<>>
                /\ Head(readBuf[c]).kind = k

\* Mutant: the response is not written.
Answer_Silent(c, m) == /\ MayAnswer(c)
                       /\ readBuf' = [readBuf EXCEPT ![c] = Tail(@)]
                       /\ UNCHANGED <<toClient, clients, pc, open, toDaemon, timed, clientVars>>

Answer(c, m) == /\ MayAnswer(c)
                /\ readBuf' = [readBuf EXCEPT ![c] = Tail(@)]
                /\ toClient' = Written(c, m)
                /\ UNCHANGED <<clients, pc, open, toDaemon, timed, clientVars>>

ServeDone == /\ pc.at = "serve"
             /\ readBuf[pc.fd] = <<>>
             /\ pc' = AtLoop
             /\ UNCHANGED <<sessionVars, clients, running, socketVars, open,
                            clientVars>>

\* handle_create; opening the PTY can fail.
ServeCreate(c) == /\ Serves(c, "Create")
                  /\ \/ \E s \in Sid : Created(s)
                     \/ UNCHANGED sessionVars
                  /\ Answer(c, Reply)
                  /\ UNCHANGED running

\* Mutant: attach does not ask whether the session is attached.
CanAttach_Steals(s) == s \in ids

\* handle_attach followed by send_attach_data.
CanAttach(s) == s \in ids /\ session[s].state # "Attached"

ServeAttach(c) ==
  /\ Serves(c, "Attach")
  /\ LET s == Head(readBuf[c]).sid
     IN  /\ CanAttach(s)
         /\ CanWrite(c)
         /\ session' = [session EXCEPT ![s] = Attach(@, c)]
         /\ kq' = kq \ {s}
         /\ Answer(c, Msg("AttachReady", s))
  /\ UNCHANGED <<ids, used, odd, running>>

\* The write of AttachReady times out, its result is ignored, and the byte with
\* the descriptor finds room: the session stays attached.
ServeAttachCut(c) ==
  /\ Serves(c, "Attach")
  /\ "cut" \in Faults
  /\ c \in open /\ ~CanWrite(c) /\ c \in timed
  /\ LET s == Head(readBuf[c]).sid
     IN  /\ CanAttach(s)
         /\ session' = [session EXCEPT ![s] = Attach(@, c)]
         /\ kq' = kq \ {s}
         /\ toClient' = [toClient EXCEPT ![c] = Append(@, Msg("StrayFd", s))]
  /\ readBuf' = [readBuf EXCEPT ![c] = Tail(@)]
  /\ UNCHANGED <<ids, used, odd, clients, running, pc, open, toDaemon, timed, clientVars>>

\* Not found, already attached, or, for any session, child dead or dup failed.
ServeAttachRefused(c) ==
  /\ Serves(c, "Attach")
  /\ UNCHANGED sessionVars
  /\ Answer(c, Reply)
  /\ UNCHANGED running

\* Mutant: the failed attach is not reverted.
Reverted_Not(ss, c) == Attach(ss, c)

\* send_attach_data failed: revert_attach.
Reverted(ss, c) == Detach(Attach(ss, c))

ServeAttachReverted(c) ==
  /\ Serves(c, "Attach")
  /\ LET s == Head(readBuf[c]).sid
     IN  /\ CanAttach(s)
         /\ DaemonReads(s, Reverted(session[s], c))
         /\ Answer(c, Msg("AttachNoFd", s))
  /\ UNCHANGED running

\* handle_detach: nothing asks whether c is the owner.
ServeDetach(c) ==
  /\ Serves(c, "Detach")
  /\ LET s == Head(readBuf[c]).sid
     IN  \/ /\ s \in ids
            /\ DaemonReads(s, Detach(session[s]))
            /\ Answer(c, Msg("Detached", s))
         \/ /\ s \notin ids
            /\ UNCHANGED sessionVars
            /\ Answer(c, Reply)
  /\ UNCHANGED running

\* handle_kill
ServeKill(c) ==
  /\ Serves(c, "Kill")
  /\ Remove(Head(readBuf[c]).sid)
  /\ Answer(c, Reply)
  /\ UNCHANGED running

\* handle_list, handle_winsize_update, handle_remote_input, Ping.
ServeQuery(c) == /\ Serves(c, "Query")
                 /\ Answer(c, Reply)
                 /\ UNCHANGED <<sessionVars, running>>

ServeShutdown(c) == /\ Serves(c, "Shutdown")
                    /\ running' = FALSE
                    /\ Answer(c, Reply)
                    /\ UNCHANGED sessionVars

\* A PushAck is no Request: it is answered with a parse error.
ServeAck(c) == /\ \E k \in Ack : Serves(c, k)
               /\ Answer(c, Reply)
               /\ UNCHANGED <<sessionVars, running>>

-----------------------------------------------------------------------------
(* Baton takeover: handle_baton_takeover, wait_for_detach_ack,             *)
(* force_complete_takeover, and what the WS handler that asked for it does *)
(* afterwards.                                                             *)

\* handle_ws_attach dumps the ring and counts its client after the takeover,
\* unless the child is gone.
CompleteTakeover(s, ss, then) ==
  \/ /\ then = "attach" /\ DumpReturns(s)
     /\ DaemonReads(s, WsJoined(BatonDetach(ss)))
     /\ pc' = AtLoop
  \/ /\ DaemonReads(s, BatonDetach(ss))
     /\ \/ pc' = AtLoop
        \/ then = "attach" /\ s \in odd /\ DumpHangs

\* ss is the session as the WS handler has left it so far.
StartTakeover(s, ss, then) ==
  /\ ss.state = "Attached"
  /\ Len(readBuf[ss.owner]) <= LeftoverBound
  /\ Pushes(ss.owner, Msg("ForceDetach", s))
  /\ \/ /\ CanWrite(ss.owner)
        /\ session' = [session EXCEPT ![s] = ss]
        /\ pc' = Awaiting(ss.owner, s, then)
        /\ UNCHANGED <<ids, used, kq, odd>>
     \/ /\ ~CanWrite(ss.owner)
        /\ CompleteTakeover(s, ss, then)
  /\ UNCHANGED <<clients, running, readBuf, open, toDaemon, clientVars>>

EndOfWait == /\ CompleteTakeover(pc.sid, session[pc.sid], pc.then)
             /\ UNCHANGED <<clients, running, open, toClient, timed, clientVars>>

\* Data arrives: the first frame of the buffer is taken out, whatever it is.
\* A DetachAck for the session, an ack for another one, a ResumeAck and an
\* ordinary request all end the wait the same way.
AwaitFrame ==
  /\ pc.at = "await"
  /\ \E n \in 1 .. Len(toDaemon[pc.fd]) :
       /\ readBuf' = [readBuf EXCEPT
            ![pc.fd] = Tail(@ \o SubSeq(toDaemon[pc.fd], 1, n))]
       /\ toDaemon' = [toDaemon EXCEPT ![pc.fd] = SubSeq(@, n + 1, Len(@))]
  /\ EndOfWait

\* Mutant: the wait has no timeout.
AwaitNothing_NoTimeout ==
  /\ pc.at = "await"
  /\ toDaemon[pc.fd] = <<>>
  /\ pc.fd \notin open
  /\ UNCHANGED <<readBuf, toDaemon>>
  /\ EndOfWait

\* BATON_PASS_TIMEOUT, a read error, or a closed connection.
AwaitNothing ==
  /\ pc.at = "await"
  /\ toDaemon[pc.fd] = <<>>
  /\ UNCHANGED <<readBuf, toDaemon>>
  /\ EndOfWait

-----------------------------------------------------------------------------
(* Baton release: handle_baton_release, with a previous owner set *)

Unsent == UNCHANGED <<toClient, timed>>

Release(s, ss) ==
  LET p == ss.prev
  IN  \/ /\ CanWrite(p)
         /\ Pushes(p, Msg("ResumeAttach", s))
         /\ session' = [session EXCEPT ![s] =
              [Attach(ss, p) EXCEPT !.prev = NoFd, !.cooldown = TRUE]]
         /\ kq' = kq \ {s}
         /\ UNCHANGED <<ids, used, odd>>
      \* the push or its descriptor could not be sent
      \/ /\ Pushes(p, Msg("ResumeNoFd", s))
         /\ DaemonReads(s, Detach([ss EXCEPT !.prev = NoFd]))
      \* dup(master_fd) failed
      \/ /\ Unsent
         /\ DaemonReads(s, Detach(ss))

-----------------------------------------------------------------------------
(* WebSocket commands, as drain_ws_commands finds them in the channel.     *)
(* Any WS client may send any request; one without effect here is left     *)
(* out.  So is WsCommand::Disconnected: handle_ws_client_disconnect looks  *)
(* the client up in client_sessions, where the WS server has just removed  *)
(* it, and finds nothing to do (module WsServer).                          *)

Unmoved == UNCHANGED <<clients, running, pc, readBuf, open, toDaemon, clientVars>>

\* handle_ws_attach; with a dead child and no owner it changes nothing.
WsAttach(s) ==
  /\ AtTop
  /\ s \in ids
  /\ session[s].ws < MaxWs
  /\ \/ StartTakeover(s, session[s], "attach")
     \/ /\ session[s].state # "Attached" /\ DumpReturns(s)
        /\ DaemonReads(s, WsJoined(session[s]))
        /\ Unsent
        /\ Unmoved
     \/ /\ session[s].state # "Attached" /\ s \in odd
        /\ DumpHangs
        /\ UNCHANGED <<sessionVars, clients, running, socketVars, open, clientVars>>

WsDetach(s) ==
  /\ AtTop
  /\ s \in ids
  /\ LET ss == WsLeft(session[s])
     IN  \/ /\ ~ss.cooldown
            /\ StartTakeover(s, ss, "detach")
         \/ /\ ss.state = "Attached" /\ ss.cooldown
            /\ session' = [session EXCEPT ![s] = ss]
            /\ UNCHANGED <<ids, used, kq, odd>>
            /\ Unsent
            /\ Unmoved
         \/ /\ ss.state # "Attached" /\ ss.prev # NoFd
            /\ Release(s, ss)
            /\ Unmoved
         \/ /\ ss.state # "Attached" /\ ss.prev = NoFd
            /\ DaemonReads(s, Detach(ss))
            /\ Unsent
            /\ Unmoved

\* handle_ws_command hands Create, Kill and Shutdown to handle_request.
WsCreate(s) == /\ AtTop
               /\ Created(s)
               /\ Unsent
               /\ Unmoved

WsKill(s) == /\ AtTop
             /\ s \in ids
             /\ Remove(s)
             /\ Unsent
             /\ Unmoved

WsShutdown == /\ AtTop
              /\ running' = FALSE
              /\ UNCHANGED <<sessionVars, clients, pc, socketVars, open, clientVars>>

-----------------------------------------------------------------------------
(* The child process and the end of a session *)

\* The shell has exited: handle_child_exit (EVFILT_PROC), handle_session_output
\* at EOF or reap_dead, whichever comes first, removes the session.
SessionEnds(s) == /\ AtTop
                  /\ s \in ids
                  /\ Remove(s)
                  /\ Unsent
                  /\ Unmoved

\* baton_release_at is two seconds old.
CooldownEnds(s) ==
  /\ s \in ids
  /\ session[s].cooldown
  /\ session' = [session EXCEPT ![s].cooldown = FALSE]
  /\ UNCHANGED <<ids, used, kq, odd, clients, running, pc, socketVars, open, clientVars>>

-----------------------------------------------------------------------------
(* The end of the daemon *)

\* The loop ends on a Shutdown, and at any time on SIGTERM, the idle timeout
\* or an error that run() passes on (accept, kevent, a client's read).
\* cleanup drops every session and the process closes its sockets.
Cleanup ==
  /\ pc.at = "loop"
  /\ ids' = {} /\ kq' = {} /\ odd' = {}
  /\ session' = [s \in Sid |-> NewSession]
  /\ clients' = {} /\ open' = {}
  /\ pc' = Down
  /\ toDaemon' = [c \in Fd |-> <<>>]
  /\ toClient' = [c \in Fd |-> <<>>]
  /\ readBuf'  = [c \in Fd |-> <<>>]
  /\ timed' = {}
  /\ UNCHANGED <<used, running, clientVars>>

Terminated == pc.at \in {"hung", "down"} /\ UNCHANGED vars

-----------------------------------------------------------------------------
(* Clients *)

ClientUnchanged == UNCHANGED <<sessionVars, clients, running, pc, readBuf, timed>>

\* One request at a time (send_request in main.rs); a client whose descriptor
\* was lost waits for it in recv_fd.
ClientSends(c, f) ==
  /\ c \in open
  /\ ~waiting[c] /\ missed[c] = {}
  /\ f.kind \in Requests
  /\ Len(toDaemon[c]) < QBound
  /\ toDaemon' = [toDaemon EXCEPT ![c] = Append(@, f)]
  /\ waiting' = [waiting EXCEPT ![c] = TRUE]
  /\ ClientUnchanged
  /\ UNCHANGED <<toClient, open, holds, missed>>

Receives(c, k) == /\ c \in open
                  /\ toClient[c] # <<>>
                  /\ Head(toClient[c]).kind = k
                  /\ toClient' = [toClient EXCEPT ![c] = Tail(@)]

Incoming(c) == Head(toClient[c]).sid

\* A descriptor for s comes.  The read that took the message in front of it may
\* have taken its byte too, and a plain read drops the descriptor.
Takes(c, s) ==
  \/ /\ holds'  = [holds  EXCEPT ![c] = @ \cup {s}]
     /\ missed' = [missed EXCEPT ![c] = @ \ {s}]
  \/ /\ "swallow" \in Faults
     /\ missed' = [missed EXCEPT ![c] = @ \cup {s}]
     /\ UNCHANGED holds

Closes(c, s) == /\ holds'  = [holds  EXCEPT ![c] = @ \ {s}]
                /\ missed' = [missed EXCEPT ![c] = @ \ {s}]

\* A response ends the wait.  A client that asked to detach closes its
\* dup(master_fd) once it has the response (run_interactive).
ClientGetsResponse(c) ==
  /\ \E k \in Response :
       /\ Receives(c, k)
       /\ \/ k = "AttachReady" /\ Takes(c, Incoming(c))
          \/ k = "Detached" /\ Closes(c, Incoming(c))
          \/ k \notin {"AttachReady", "Detached"} /\ UNCHANGED <<holds, missed>>
  /\ waiting' = [waiting EXCEPT ![c] = FALSE]
  /\ ClientUnchanged
  /\ UNCHANGED <<toDaemon, open>>

\* A byte without a message: the client reads on.
ClientGetsStray(c) ==
  /\ Receives(c, "StrayFd")
  /\ missed' = [missed EXCEPT ![c] = @ \cup {Incoming(c)}]
  /\ ClientUnchanged
  /\ UNCHANGED <<toDaemon, open, waiting, holds>>

\* ForceDetach: close the dup, send DetachAck.
ClientYields(c) ==
  /\ Receives(c, "ForceDetach")
  /\ Len(toDaemon[c]) < QBound
  /\ toDaemon' = [toDaemon EXCEPT ![c] = Append(@, Msg("DetachAck", Incoming(c)))]
  /\ Closes(c, Incoming(c))
  /\ ClientUnchanged
  /\ UNCHANGED <<open, waiting>>

\* ResumeAttach: take the new dup, send ResumeAck.
ClientResumes(c) ==
  /\ Receives(c, "ResumeAttach")
  /\ Len(toDaemon[c]) < QBound
  /\ toDaemon' = [toDaemon EXCEPT ![c] = Append(@, Msg("ResumeAck", Incoming(c)))]
  /\ Takes(c, Incoming(c))
  /\ ClientUnchanged
  /\ UNCHANGED <<open, waiting>>

\* ResumeAttach whose descriptor never came.
ClientCannotResume(c) ==
  /\ Receives(c, "ResumeNoFd")
  /\ ClientUnchanged
  /\ UNCHANGED <<toDaemon, open, clientVars>>

\* The client process exits or crashes: the kernel closes what it had open.  It
\* may die inside a write to any of the rings it fed, which changes the parity
\* of the ring's sequence.
ClientDies(c) ==
  /\ c \in open
  /\ open' = open \ {c}
  /\ waiting' = [waiting EXCEPT ![c] = FALSE]
  /\ holds'  = [holds  EXCEPT ![c] = {}]
  /\ missed' = [missed EXCEPT ![c] = {}]
  /\ toClient' = [toClient EXCEPT ![c] = <<>>]
  /\ \E torn \in SUBSET {s \in ids \cap holds[c] : "torn" \in Faults} :
       odd' = (odd \ torn) \cup (torn \ odd)
  /\ UNCHANGED <<ids, used, session, kq, clients, running, pc, readBuf, timed, toDaemon>>

-----------------------------------------------------------------------------
Serve(c) == \/ ServeCreate(c) \/ ServeAttach(c) \/ ServeAttachCut(c)
            \/ ServeAttachRefused(c) \/ ServeAttachReverted(c) \/ ServeDetach(c) \/ ServeKill(c)
            \/ ServeQuery(c) \/ ServeShutdown(c) \/ ServeAck(c)

Daemon == \/ \E c \in Fd : \/ Accept(c) \/ Disconnect(c) \/ DisconnectHangs(c)
                           \/ ReadClient(c) \/ Serve(c)
          \/ ServeDone \/ AwaitFrame \/ AwaitNothing
          \/ \E s \in Sid : \/ WsAttach(s) \/ WsDetach(s) \/ WsCreate(s) \/ WsKill(s)
                            \/ SessionEnds(s)
          \/ WsShutdown \/ Cleanup \/ Terminated

Client(c) == \/ \E f \in Frame : ClientSends(c, f)
             \/ ClientGetsResponse(c) \/ ClientGetsStray(c)
             \/ ClientYields(c) \/ ClientResumes(c)
             \/ ClientCannotResume(c) \/ ClientDies(c)

Environment == \/ \E c \in Fd : Client(c)
               \/ \E s \in Sid : CooldownEnds(s)

Next == Daemon \/ Environment

Spec == Init /\ [][Next]_vars

\* kevent returns every descriptor that is ready and the loop handles them all
\* before it asks again, so a closed connection is noticed however busy the
\* other sockets are; a buffer being served and a takeover wait run to their
\* end (BATON_PASS_TIMEOUT).  Nothing is assumed of clients.
DaemonStep == (\E c \in Fd : Serve(c)) \/ ServeDone \/ AwaitFrame \/ AwaitNothing

Fairness == /\ WF_vars(DaemonStep)
            /\ \A c \in Fd : SF_vars(Disconnect(c) \/ DisconnectHangs(c))
            /\ WF_vars(Cleanup /\ ~running)

FairSpec == Spec /\ Fairness

-----------------------------------------------------------------------------
TypeOK ==
  /\ ids \subseteq Sid /\ used \subseteq Sid /\ kq \subseteq Sid /\ odd \subseteq Sid
  /\ session \in [Sid -> Session]
  /\ clients \subseteq Fd /\ open \subseteq Fd /\ timed \subseteq Fd
  /\ running \in BOOLEAN
  /\ pc \in PC
  /\ readBuf  \in [Fd -> Seq(Frame)]
  /\ toDaemon \in [Fd -> Seq(Frame)]
  /\ toClient \in [Fd -> Seq(Message)]
  /\ waiting \in [Fd -> BOOLEAN]
  /\ holds \in [Fd -> SUBSET Sid] /\ missed \in [Fd -> SUBSET Sid]

\* The daemon reads the PTY of exactly the sessions no client is attached to,
\* across attach, revert, detach, takeover, release, disconnect and kill: no
\* session is left without a reader and none is read behind its owner's back.
ReaderDiscipline ==
  \A s \in ids : /\ (session[s].owner # NoFd) <=> (session[s].state = "Attached")
                 /\ (s \in kq) <=> (session[s].state # "Attached")

\* owner_fd and previous_owner_fd always name connected clients.  Descriptor
\* numbers are reused, so a stale one would hand a PTY to a stranger.
OwnersConnected ==
  \A s \in ids : {session[s].owner, session[s].prev} \subseteq clients \cup {NoFd}

\* A takeover waits on the client that still owns the session: nothing the loop
\* does before the wait can leave it waiting on somebody else.
WaitsOnOwner ==
  pc.at = "await" => /\ pc.sid \in ids
                     /\ session[pc.sid].owner = pc.fd
                     /\ pc.fd \in clients

\* The inductive invariant behind the three: registered sessions exist, ids are
\* never reused, and the buffer being served is a connected client's.
TableWellFormed == ids \subseteq used /\ kq \subseteq ids
ServesConnected == pc.at = "serve" => pc.fd \in clients

IInv == TypeOK /\ TableWellFormed /\ ServesConnected
          /\ ReaderDiscipline /\ OwnersConnected /\ WaitsOnOwner

\* Once the client has taken in every frame on its way, the last descriptor for
\* s has come to it and was not called back.
GivenTo(c, s) ==
  LET q == toClient[c]
      About(i, ks) == q[i].kind \in ks /\ q[i].sid = s
      Revoked(i) == \E j \in i .. Len(q) : About(j, {"ForceDetach", "Detached"})
  IN  \/ s \in holds[c] \cup missed[c] /\ ~Revoked(1)
      \/ \E i \in 1 .. Len(q) : About(i, {"AttachReady", "ResumeAttach", "StrayFd"})
                                /\ ~Revoked(i + 1)

\* While the daemon stays away from an attached PTY, its live owner was sent a
\* descriptor to read it with and was not asked for it back since, whatever
\* pushes, late acks, responses and re-attaches are in flight: the owner has it,
\* has it on its way, or lost it in its own read (missed).
AttachedIsServed ==
  \A s \in ids : LET c == session[s].owner
                 IN  c \in open /\ pc.sid # s => GivenTo(c, s)

\* A response never stops the event loop for good: whatever pushes and late acks
\* have filled the socket of a client that does not read, either there is room
\* or the write times out.
NeverStuck == pc.at = "serve" /\ readBuf[pc.fd] # <<>> => MayAnswer(pc.fd)

\* A request that c waits for is on its way, in the buffer, or answered.
Pending(c) ==
  \/ \E i \in DOMAIN readBuf[c]  : readBuf[c][i].kind \notin Ack
  \/ \E i \in DOMAIN toDaemon[c] : toDaemon[c][i].kind \notin Ack
  \/ \E i \in DOMAIN toClient[c] : toClient[c][i].kind \in Response

\* A request is never lost on a live connection, however frames, late acks and
\* leftovers mix in its buffer, but in two places: a takeover wait takes a frame out
\* without looking whether it is a request, and a response that finds no room before
\* the write timeout of an earlier push is dropped.
RequestKept ==
  [][\A c \in open \cap open' :
       waiting[c] /\ waiting'[c] /\ Pending(c)
         => \/ Pending(c)'
            \/ pc.at = "await" /\ pc.fd = c
            \/ pc.at = "serve" /\ pc.fd = c /\ c \in timed /\ ~CanWrite(c)]_vars

\* The PTY goes from one client to another only through the daemon.
HandoffThroughDaemon ==
  [][\A s \in ids \cap ids' :
       session[s].owner # NoFd /\ session'[s].owner # NoFd
         => session'[s].owner = session[s].owner]_vars

\* A session whose owner's connection died is taken back (or has ended), unless
\* the loop hangs in the dump of a ring whose writer died inside a write.
LostOwnerReplaced ==
  \A s \in Sid, c \in Fd :
    (s \in ids /\ session[s].owner = c /\ c \notin open)
      ~> (s \notin ids \/ session[s].owner # c \/ pc.at = "hung")

\* Every takeover ends, with or without ETerm's help.
TakeoverEnds == pc.at = "await" ~> pc.at # "await"

\* The designated reader of a session: the daemon while master_fd is registered,
\* and the owner otherwise.
designated ==
  [s \in Sid |-> CASE s \notin used -> "not yet"
                  [] s \in used \ ids -> "ended"
                  [] s \in ids /\ s \in kq -> "daemon"
                  [] OTHER -> session[s].owner]

Ownership == INSTANCE PtyOwnership WITH conn <- clients, reader <- designated

\* The control plane implements PtyOwnership: whatever requests, takeovers,
\* releases, failures and disconnects do to the session table and the kqueue, one
\* connected party is designated at every moment.
ImplementsOwnership == Ownership!ASpec

-----------------------------------------------------------------------------
(* What the documents and comments of the repository say and the code does *)
(* not do; TLC refutes it.                                                 *)

\* docs/design.md, server.rs: the daemon reads a PTY only when no client does.
\* A client that detaches closes its dup after the response, one that is slow
\* to yield closes it after the timeout, and both overlap with the daemon.
SoleReader == \A s \in kq, c \in open : s \notin holds[c]
=============================================================================
