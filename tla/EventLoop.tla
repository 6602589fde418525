----------------------------- MODULE EventLoop -----------------------------
(***************************************************************************)
(* run(), the kqueue loop of the daemon (pty-daemon/src/server.rs), with   *)
(* the descriptor table of the process below it.  PtyServer lets the       *)
(* handlers run in any order; here they run the way the loop calls them:   *)
(* kevent fills a batch of events, and every event is dispatched by its    *)
(* number, which may mean something else by then, because descriptor       *)
(* numbers are reused as soon as they are closed.                          *)
(*                                                                         *)
(*   - Fd are the numbers left when listener, kqueue and self-pipe have    *)
(*     theirs; the kernel always gives the lowest free one.                *)
(*   - A session keeps two numbers, master_fd and the shm_fd of its ring.  *)
(*   - master_fd is registered exactly while the session is not Attached   *)
(*     (PtyServer's ReaderDiscipline); takeover and release are its        *)
(*     business too, and are a Detach and an Attach as far as numbers go.  *)
(*   - The order of the events in a batch is kevent's: any order.          *)
(*   - Whether a socket or a terminal has something to read is an input.   *)
(*   - A pid names one shell until it has been waited for, so the session  *)
(*     stands for the pid of its child; pids above every descriptor        *)
(*     number are assumed.                                                 *)
(*   - Time passes while the loop waits, between two batches.              *)
(***************************************************************************)
EXTENDS Session, Integers, FiniteSets

CONSTANTS Sid, NoSid,
          MaxBacklog,  \* connections waiting to be accepted
          Timeout      \* IDLE_TIMEOUT, in ticks

ASSUME LoopAssumption == /\ Fd \subseteq Nat \ {0} /\ IsFiniteSet(Fd)
                         /\ NoSid \notin Sid /\ Sid \cap Nat = {}
                         /\ MaxBacklog \in Nat \ {0} /\ Timeout \in Nat \ {0}

VARIABLES
  files,       \* what every number refers to
  clients,     \* keys of Server.clients
  hung,        \* clients whose far end is closed
  fresh,       \* history: clients accepted in this batch
  ids,         \* keys of SessionManager.sessions
  session,     \* state and owner_fd of a session
  own,         \* its master_fd and shm_fd
  child,       \* the shell: running, exited (zombie), or none
  watched,     \* its NOTE_EXIT registration is armed
  hungup,      \* nobody has its terminal open: read on the master finds EOF
  phase, at,   \* where the loop stands, and the client it is serving
  batch,       \* the events of the last kevent still to be handled
  running,     \* Server.running
  idle,        \* the age of idle_since; NotIdle for None
  quiet,       \* history: how long no Unix client has been connected
  cause        \* history: why run() ended

sessionVars == <<ids, session, own>>
shellVars   == <<child, watched, hungup>>
clientVars  == <<clients, hung, fresh, quiet>>
tableVars   == <<files, sessionVars, clientVars>>
loopVars    == <<phase, at, batch, running, idle, cause>>
vars == <<tableVars, shellVars, loopVars>>

NotIdle == -1

Refers(w, s) == [what |-> w, sid |-> s]
Free == Refers("free", NoSid)
File == [what : {"free", "client", "leaked"}, sid : {NoSid}]
          \cup [what : {"master", "ring"}, sid : Sid]

Unused == {n \in Fd : files[n] = Free}
Lowest(k) == {n \in Unused : Cardinality({m \in Unused : m < n}) < k}

Ev(n, f, e) == [ident |-> n, filter |-> f, eof |-> e]
Listener == 0
Event == [ident : Fd \cup Sid \cup {Listener}, filter : {"READ", "PROC"}, eof : BOOLEAN]

Nothing == [master |-> NoFd, ring |-> NoFd]

Init ==
  /\ files = [n \in Fd |-> Free]
  /\ clients = {} /\ hung = {} /\ fresh = {} /\ quiet = 0
  /\ ids = {}
  /\ session = [s \in Sid |-> NewSession]
  /\ own = [s \in Sid |-> Nothing]
  /\ child = [s \in Sid |-> "none"] /\ watched = {} /\ hungup = {}
  /\ phase = "top" /\ at = NoFd /\ batch = {} /\ running = TRUE
  /\ idle = 0 /\ cause = "none"

-----------------------------------------------------------------------------
(* What the handlers do to the tables *)

\* Mutant: the descriptor of the ring stays open.
Closed_KeepsRing(S) == [n \in Fd |-> IF files[n].what = "master" /\ files[n].sid \in S
                                     THEN Free ELSE files[n]]

\* close(master_fd), and close(shm_fd) in the Drop of the ring.
Closed(S) == [n \in Fd |-> IF files[n].sid \in S THEN Free ELSE files[n]]

\* Session::cleanup or Drop, for every session of S: both numbers are closed, and
\* their registrations with them; the shell gets SIGHUP and is not waited for.
Dropped(S) ==
  /\ files' = Closed(S)
  /\ ids' = ids \ S
  /\ session' = [s \in Sid |-> IF s \in S THEN NewSession ELSE session[s]]
  /\ own' = [s \in Sid |-> IF s \in S THEN Nothing ELSE own[s]]
  /\ hungup' = hungup \ S

\* The end of run(): cleanup, or Drop when run() returns an error or panics.
Stops(why) ==
  /\ cause' = why
  /\ phase' = "down" /\ at' = NoFd /\ batch' = {} /\ running' = FALSE
  /\ files' = [n \in Fd |-> Free]
  /\ clients' = {} /\ hung' = {} /\ fresh' = {} /\ ids' = {} /\ hungup' = {}
  /\ session' = [s \in Sid |-> NewSession] /\ own' = [s \in Sid |-> Nothing]
  /\ UNCHANGED <<idle, quiet, child, watched>>

\* create_pty and Session::new.  openpty takes two numbers and the two try_clone of
\* the child side one each (the pipe of spawn is not counted); after the spawn only
\* the master is left, and the ring gets the next number.  The NOTE_EXIT
\* registration fails, unnoticed, when the shell has exited already.
Creates(s) ==
  /\ child[s] = "none"
  /\ Cardinality(Unused) >= 4
  /\ \E master \in Lowest(1) :
       \E ring \in Lowest(2) \ {master} :
         /\ own' = [own EXCEPT ![s] = [master |-> master, ring |-> ring]]
         /\ files' = [files EXCEPT ![master] = Refers("master", s),
                                   ![ring] = Refers("ring", s)]
  /\ ids' = ids \cup {s}
  /\ \/ child' = [child EXCEPT ![s] = "running"] /\ watched' = watched \cup {s}
     \/ child' = [child EXCEPT ![s] = "zombie"] /\ UNCHANGED watched
  /\ UNCHANGED <<session, hungup>>

\* try_clone fails and create_pty returns without closing the master.
CreateLeaks == /\ Cardinality(Unused) \in {2, 3}
               /\ files' = [n \in Fd |-> IF n \in Lowest(1) THEN Refers("leaked", NoSid)
                                         ELSE files[n]]
               /\ UNCHANGED <<sessionVars, shellVars>>

Becomes(s, ss) == /\ session' = [session EXCEPT ![s] = ss]
                  /\ UNCHANGED <<files, ids, own, shellVars>>

\* handle_attach with send_attach_data: a dup is made, sent and closed again.
Attaches(n, s) == /\ s \in ids /\ session[s].state # "Attached"
                  /\ Unused # {}
                  /\ Becomes(s, Attach(session[s], n))

\* handle_kill
Kills(s) == s \in ids /\ Dropped({s}) /\ UNCHANGED <<child, watched>>

\* A Shutdown request.
Quits == running' = FALSE /\ UNCHANGED <<files, sessionVars, shellVars>>

-----------------------------------------------------------------------------
(* The top of the loop: reap_dead, drain_ws_commands, the idle check, kevent. *)
(* reap_dead drops sessions whose pid is gone.  There are none: a zombie      *)
(* keeps its pid until handle_child_exit waits for it and drops the session.  *)

AtTop == phase = "top" /\ running

\* Commands of WebSocket clients, handled by drain_ws_commands.
WsCommand ==
  /\ AtTop
  /\ \/ /\ CreateLeaks \/ \E s \in Sid : Creates(s) \/ Kills(s)
        /\ UNCHANGED running
     \/ Quits
  /\ UNCHANGED <<clientVars, phase, at, batch, idle, cause>>

\* ws says whether client_sessions of the WebSocket server has an entry.
Busy(ws) == ids # {} \/ clients # {} \/ ws

\* Mutant: idle_since is not cleared when somebody is there.
IdleSince_Kept(busy) == IF idle = NotIdle THEN 0 ELSE idle

\* idle_since after the check.
IdleSince(busy) == IF busy THEN NotIdle ELSE IF idle = NotIdle THEN 0 ELSE idle

IdleOut == /\ AtTop
           /\ ~Busy(FALSE) /\ idle = Timeout
           /\ Stops("idle")

\* What kevent must report, and what it may: NOTE_EXIT comes with EV_EOF, once.
Fired  == {s \in watched : child[s] = "zombie"}
Active == {s \in ids : session[s].state # "Attached"}
Due == {Ev(n, "READ", TRUE) : n \in hung}
         \cup {Ev(own[s].master, "READ", TRUE) : s \in Active \cap hungup}
         \cup {Ev(s, "PROC", TRUE) : s \in Fired}
Possible == {Ev(n, "READ", FALSE) : n \in {Listener} \cup (clients \ hung)}
              \cup {Ev(own[s].master, "READ", FALSE) : s \in Active \ hungup}

Wait == /\ AtTop
        /\ \E ws \in BOOLEAN : /\ Busy(ws) \/ idle # Timeout
                               /\ idle' = IdleSince(Busy(ws))
        /\ \E more \in SUBSET Possible : batch' = Due \cup more
        /\ watched' = watched \ Fired
        /\ phase' = "batch"
        /\ UNCHANGED <<tableVars, child, hungup, at, running, cause>>

NextRound == /\ phase = "batch" /\ batch = {} /\ running
             /\ phase' = "top" /\ fresh' = {}
             /\ UNCHANGED <<files, sessionVars, clients, hung, quiet, shellVars, at, batch, running, idle, cause>>

\* running is tested again when the batch is done.
ShutsDown == /\ ~running
             /\ phase = "top" \/ (phase = "batch" /\ batch = {})
             /\ Stops("shutdown")

-----------------------------------------------------------------------------
(* One event of the batch, in the order of the tests in run() *)

\* EVFILT_SIGNAL: the rest of the batch is left.
HandleSignal == phase = "batch" /\ Stops("signal")

Takes(ev) == /\ phase = "batch" /\ ev \in batch
             /\ batch' = batch \ {ev}
             /\ UNCHANGED <<running, idle, cause>>

\* accept_clients takes everything that waits; accept without a free number fails,
\* and the error ends run().
HandleListener(ev, k) ==
  /\ ev.ident = Listener
  /\ \/ /\ Takes(ev) /\ UNCHANGED <<phase, at>>
        /\ k <= Cardinality(Unused)
        /\ clients' = clients \cup Lowest(k)
        /\ files' = [n \in Fd |-> IF n \in Lowest(k) THEN Refers("client", NoSid)
                                  ELSE files[n]]
        /\ quiet' = 0 /\ fresh' = fresh \cup Lowest(k)
        /\ UNCHANGED <<hung, sessionVars, shellVars>>
     \/ /\ phase = "batch" /\ ev \in batch
        /\ k > Cardinality(Unused)
        /\ Stops("error")

\* Mutant: nothing to read is taken for the end of the connection.
AtEnd_Nothing(ev) == TRUE

\* EV_EOF, or read returns 0.
AtEnd(ev) == ev.eof \/ ev.ident \in hung

\* handle_client_disconnect
HandleEof(ev) ==
  LET n == ev.ident
  IN  /\ Takes(ev) /\ UNCHANGED <<phase, at>>
      /\ n \in clients
      /\ AtEnd(ev)
      /\ files' = [files EXCEPT ![n] = Free]
      /\ clients' = clients \ {n} /\ hung' = hung \ {n} /\ fresh' = fresh \ {n}
      /\ session' = [s \in Sid |-> WithoutClient(session[s], n)]
      /\ UNCHANGED <<quiet, ids, own, shellVars>>

\* handle_client_data: requests to serve, nothing to read, or a read error.
HandleData(ev) ==
  /\ ev.ident \in clients /\ ~ev.eof
  /\ \/ /\ Takes(ev)
        /\ \/ phase' = "serve" /\ at' = ev.ident
           \/ UNCHANGED <<phase, at>>
        /\ UNCHANGED <<tableVars, shellVars>>
     \/ /\ phase = "batch" /\ ev \in batch
        /\ Stops("error")

\* The number is no client's.
Other(ev, f) == /\ Takes(ev) /\ UNCHANGED <<phase, at, clientVars>>
                /\ ev.filter = f
                /\ ev.ident \notin clients \cup {Listener}

\* Mutant: a session a client is attached to is left alone.
Exited_Detached(p) == {s \in ids \cap {p} : session[s].state # "Attached"}

\* find_by_child_pid
Exited(p) == ids \cap {p}

\* handle_child_exit: waitpid first, then the session, if there still is one.
HandleProc(ev) ==
  /\ Other(ev, "PROC")
  /\ Dropped(Exited(ev.ident))
  /\ child' = [child EXCEPT ![ev.ident] = "none"]
  /\ UNCHANGED watched

\* Mutant: EV_EOF of the event decides, not what read returns.
AtEof_ByFlag(ev) == {s \in Active : own[s].master = ev.ident /\ ev.eof}

\* find_by_master_fd; an attached session is left alone, and read decides.
AtEof(ev) == {s \in Active : own[s].master = ev.ident /\ s \in hungup}

\* handle_session_output: end of file, or output or nothing.
HandleOutput(ev) == /\ Other(ev, "READ")
                    /\ \/ Dropped(AtEof(ev))
                       \/ UNCHANGED <<files, sessionVars, hungup>>
                    /\ UNCHANGED <<child, watched>>

\* The requests of one read, as many as there were.
Serve ==
  /\ phase = "serve"
  /\ \/ /\ CreateLeaks \/ \E s \in Sid : \/ Creates(s) \/ Attaches(at, s) \/ Kills(s)
                                         \/ s \in ids /\ Becomes(s, Detach(session[s]))
        /\ UNCHANGED running
     \/ Quits
  /\ UNCHANGED <<clientVars, phase, at, batch, idle, cause>>

\* SharedRingBuffer::create fails: Session::new panics.
CreatePanics == /\ phase = "serve" \/ AtTop
                /\ Cardinality(Unused) >= 4
                /\ Stops("panic")

Served == /\ phase = "serve"
          /\ phase' = "batch" /\ at' = NoFd
          /\ UNCHANGED <<tableVars, shellVars, batch, running, idle, cause>>

-----------------------------------------------------------------------------
(* The world: clients, shells, time *)

HangsUp(n) == /\ n \in clients \ hung
              /\ hung' = hung \cup {n}
              /\ UNCHANGED <<files, clients, fresh, quiet, sessionVars, shellVars, loopVars>>

ShellExits(s) == /\ phase # "down" /\ child[s] = "running"
                 /\ child' = [child EXCEPT ![s] = "zombie"]
                 /\ UNCHANGED <<tableVars, watched, hungup, loopVars>>

\* Nobody has the terminal open any more: not the shell, which may have closed it and
\* run on, and not what it started.
TerminalCloses(s) == /\ s \in ids \ hungup
                     /\ hungup' = hungup \cup {s}
                     /\ UNCHANGED <<tableVars, child, watched, loopVars>>

Later(t) == IF t < Timeout THEN t + 1 ELSE t

Tick == /\ phase = "top"
        /\ idle' = IF idle = NotIdle THEN idle ELSE Later(idle)
        /\ quiet' = IF clients = {} THEN Later(quiet) ELSE 0
        /\ UNCHANGED <<files, sessionVars, clients, hung, fresh, shellVars, phase, at, batch,
                       running, cause>>

-----------------------------------------------------------------------------
HandleEvent == \E ev \in batch : \/ HandleEof(ev) \/ HandleData(ev) \/ HandleProc(ev)
                                 \/ HandleOutput(ev)
                                 \/ \E k \in 1 .. MaxBacklog : HandleListener(ev, k)

Loop == \/ WsCommand \/ IdleOut \/ Wait \/ NextRound \/ ShutsDown
        \/ HandleEvent \/ HandleSignal \/ Serve \/ Served \/ CreatePanics

World == \/ \E n \in Fd : HangsUp(n)
         \/ \E s \in Sid : ShellExits(s) \/ TerminalCloses(s)
         \/ Tick

Terminated == phase = "down" /\ UNCHANGED vars

Next == Loop \/ World \/ Terminated

Spec == Init /\ [][Next]_vars

\* The loop never waits longer than a second and a read holds finitely many
\* requests; nothing is assumed of clients and shells.
FairSpec == /\ Spec
            /\ WF_vars(Wait) /\ WF_vars(HandleEvent) /\ WF_vars(Served)
            /\ WF_vars(NextRound) /\ WF_vars(ShutsDown)

-----------------------------------------------------------------------------
TypeOK ==
  /\ files \in [Fd -> File]
  /\ clients \subseteq Fd /\ hung \subseteq clients /\ fresh \subseteq clients
  /\ ids \subseteq Sid
  /\ session \in [Sid -> Session]
  /\ \A s \in Sid : session[s].owner \in clients \cup {NoFd}
  /\ own \in [Sid -> [master : Fd \cup {NoFd}, ring : Fd \cup {NoFd}]]
  /\ child \in [Sid -> {"none", "running", "zombie"}]
  /\ watched \subseteq Sid /\ hungup \subseteq ids
  /\ phase \in {"top", "batch", "serve", "down"} /\ at \in Fd \cup {NoFd}
  /\ batch \subseteq Event
  /\ running \in BOOLEAN
  /\ idle \in NotIdle .. Timeout /\ quiet \in 0 .. Timeout
  /\ cause \in {"none", "idle", "shutdown", "signal", "error", "panic"}

\* Every number the daemon holds is open and refers to what the daemon thinks, and
\* every open number is held by one party only, whatever is closed and reused in
\* one batch; the one exception is the master create_pty forgets when a clone of
\* the child side fails.
NumbersOwned ==
  \A n \in Fd :
    files[n] = CASE n \in clients -> Refers("client", NoSid)
                 [] \E s \in ids : own[s].master = n ->
                      Refers("master", CHOOSE s \in ids : own[s].master = n)
                 [] \E s \in ids : own[s].ring = n ->
                      Refers("ring", CHOOSE s \in ids : own[s].ring = n)
                 [] OTHER -> IF files[n].what = "leaked" THEN files[n] ELSE Free

\* No event ends the session of a shell that is running on its terminal: not one left
\* in the batch for a number that belongs to another session by now, whatever its
\* flags say.  (A shell that closes its terminal and runs on loses its session: read
\* on the master finds end of file.)
EventSparesRunning ==
  [][phase = "batch" /\ phase' = "batch" =>
       \A s \in ids \ ids' : child[s] = "running" => s \in hungup]_vars

\* The daemon leaves for idleness only when no session is there and no Unix client
\* has been connected for the whole timeout.
IdleExitWaits ==
  [][cause' = "idle" /\ cause # "idle" => ids = {} /\ clients = {} /\ quiet = Timeout]_vars

\* A shell the daemon watches is noticed when it exits, attached or not, and its
\* session removed: no session stays for a dead shell.
DeadSessionRemoved ==
  \A s \in Sid : (s \in ids \cap watched /\ child[s] = "zombie") ~> s \notin ids

\* A connection whose client is there is never ended, unless it was accepted in the
\* very batch: when a shell exits, NOTE_EXIT and EV_EOF of its master come together;
\* the first closes the master, accept gives its number to a new client, and the
\* second, dispatched by number, disconnects it.
EstablishedClientKept ==
  [][phase' # "down" => clients \ clients' \subseteq hung \cup fresh]_vars
=============================================================================
