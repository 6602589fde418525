------------------------------ MODULE WsServer -----------------------------
(***************************************************************************)
(* The WebSocket side of the daemon (pty-daemon/src/ws_server.rs and the   *)
(* handle_ws_* methods of server.rs): one tokio task per connection, the   *)
(* command channel to the event loop, the oneshot that brings the response *)
(* back, and WsSharedState behind its mutex.                               *)
(*                                                                         *)
(* The event loop handles a command in one step: a takeover may keep it    *)
(* waiting (module PtyServer), but the wait touches nothing the tasks see. *)
(* A task runs alone between two of its awaits.  Unix clients are reduced  *)
(* to what they do to a session, and whether the loop reads a PTY is its   *)
(* state: PtyServer's ReaderDiscipline says that they agree.               *)
(***************************************************************************)
EXTENDS Session, Sequences, FiniteSets

CONSTANTS Ws,          \* client ids, given out once each
          Sid, NoSid,
          MaxChan,     \* channels a client opens, one for each successful attach
          MaxEvents,   \* bound on the length of an event channel
          WsRequests   \* the kinds of request the clients of an instance send

ASSUME WsAssumption == /\ NoSid \notin Sid
                       /\ MaxChan \in Nat /\ MaxEvents \in Nat
                       /\ WsRequests \subseteq {"Attach", "Detach", "Kill", "Create",
                                               "Query", "Shutdown"}

VARIABLES
  ids, used, session, running,   \* the event loop, as in PtyServer
  cmds,            \* the WsCommand channel
  reply,           \* the oneshot of the request a task waits for
  subscribers,     \* WsSharedState.subscribers
  clientSessions,  \* WsSharedState.client_sessions
  silent,          \* history: sessions whose end some subscriber was not told
  at,              \* where each task stands
  request,         \* the request it has sent
  attached,        \* attached_session
  rx,              \* event_rx: the number of the latest channel; None unless attached
  events           \* what is in that channel

daemonVars == <<ids, used, session, running>>
sharedVars == <<subscribers, clientSessions, silent>>
taskVars   == <<at, request, attached, rx, events>>
vars == <<daemonVars, cmds, reply, sharedVars, taskVars>>

-----------------------------------------------------------------------------
\* Create, Query and Shutdown name no session.  WinsizeUpdate, List, Ping and
\* Input are "Query"; Input frames that need no answer change nothing here.
Request == [kind : {"Attach", "Detach", "Kill"}, sid : Sid]
             \cup [kind : {"Create", "Query", "Shutdown"}, sid : {NoSid}]

Command == [client : Ws, kind : {"Attach", "Detach", "Kill"}, sid : Sid]
             \cup [client : Ws, kind : {"Create", "Query", "Shutdown", "Disconnected"},
                   sid : {NoSid}]

\* Of the responses a task tells apart only AttachReady.
Answers == {"AttachReady", "Other"}
NoReply == "none"

Subscriber == [client : Ws, chan : Nat]
Event == [kind : {"PtyOutput", "SessionEnded"}, sid : Sid]

Init ==
  /\ ids = {} /\ used = {} /\ running = TRUE
  /\ session = [s \in Sid |-> NewSession]
  /\ cmds = <<>>
  /\ reply = [w \in Ws |-> NoReply]
  /\ subscribers = [s \in Sid |-> {}]
  /\ clientSessions = [w \in Ws |-> NoSid] /\ silent = {}
  /\ at = [w \in Ws |-> "new"]
  /\ request = [w \in Ws |-> [kind |-> "Query", sid |-> NoSid]]
  /\ attached = [w \in Ws |-> NoSid]
  /\ rx = [w \in Ws |-> 0]
  /\ events = [w \in Ws |-> <<>>]

-----------------------------------------------------------------------------
(* WsSharedState *)

\* Mutant: the client stays in client_sessions.
Unsubscribe_KeepsClient(s, w) ==
  /\ subscribers' = [subscribers EXCEPT ![s] = {x \in @ : x.client # w}]
  /\ UNCHANGED <<clientSessions, silent>>

\* unsubscribe
Unsubscribe(s, w) ==
  /\ subscribers' = [subscribers EXCEPT ![s] = {x \in @ : x.client # w}]
  /\ clientSessions' = [clientSessions EXCEPT ![w] = NoSid]
  /\ UNCHANGED silent

\* subscribe; a subscription the client had before stays in its list, with the
\* sending half of a channel nobody receives from.  The session may have ended
\* since its AttachReady: nothing checks, and its notification is past.
Subscribe(s, w) ==
  /\ subscribers' = [subscribers EXCEPT ![s] = @ \cup {[client |-> w, chan |-> rx[w] + 1]}]
  /\ clientSessions' = [clientSessions EXCEPT ![w] = s]
  /\ silent' = silent \cup ({s} \ ids)

\* The tasks that receive what is sent to the subscribers of s.
Listeners(s) == {w \in Ws : [client |-> w, chan |-> rx[w]] \in subscribers[s]}

SentTo(s, k) == [w \in Ws |-> IF w \in Listeners(s)
                              THEN Append(events[w], [kind |-> k, sid |-> s])
                              ELSE events[w]]

\* Mutant: the subscribers are dropped and not told.
NotifyEnded_Silent(S) ==
  /\ subscribers' = [s \in Sid |-> IF s \in S THEN {} ELSE subscribers[s]]
  /\ UNCHANGED <<events, clientSessions, silent>>

\* notify_session_ended, for every session of S.
NotifyEnded(S) ==
  LET told == UNION {subscribers[s] : s \in S}
  IN  /\ subscribers' = [s \in Sid |-> IF s \in S THEN {} ELSE subscribers[s]]
      /\ events' = [w \in Ws |->
           LET mine == {s \in S : w \in Listeners(s)}
           IN  IF mine = {} THEN events[w]
               ELSE Append(events[w], [kind |-> "SessionEnded",
                                       sid |-> CHOOSE s \in mine : TRUE])]
      /\ clientSessions' = [w \in Ws |-> IF \E x \in told : x.client = w THEN NoSid
                                         ELSE clientSessions[w]]
      /\ UNCHANGED silent

-----------------------------------------------------------------------------
(* handle_ws_connection and handle_text_message *)

Connect(w) == /\ at[w] = "new"
              /\ at' = [at EXCEPT ![w] = "open"]
              /\ UNCHANGED <<daemonVars, cmds, reply, sharedVars, request, attached, rx,
                             events>>

\* attached_session and event_rx become None; the events go with the receiver.
LeavesChannel(w) == /\ attached' = [attached EXCEPT ![w] = NoSid]
                    /\ events' = [events EXCEPT ![w] = <<>>]

\* A text frame.  A Detach of the attached session unsubscribes first.
Sends(w, r) ==
  /\ at[w] = "open"
  /\ r.kind \in WsRequests
  /\ r.kind = "Attach" => rx[w] < MaxChan
  /\ cmds' = Append(cmds, [client |-> w, kind |-> r.kind, sid |-> r.sid])
  /\ request' = [request EXCEPT ![w] = r]
  /\ at' = [at EXCEPT ![w] = "await"]
  /\ IF r.kind = "Detach" /\ attached[w] = r.sid
     THEN Unsubscribe(r.sid, w) /\ LeavesChannel(w)
     ELSE UNCHANGED <<sharedVars, attached, events>>
  /\ UNCHANGED <<daemonVars, reply, rx>>

\* The connection ends: a Close frame, an error, or a Shutdown answered.
Leaves(w) ==
  /\ IF attached[w] # NoSid
     THEN Unsubscribe(attached[w], w) /\ LeavesChannel(w)
     ELSE UNCHANGED <<sharedVars, attached, events>>
  /\ cmds' = Append(cmds, [client |-> w, kind |-> "Disconnected", sid |-> NoSid])
  /\ at' = [at EXCEPT ![w] = "closed"]
  /\ UNCHANGED <<daemonVars, request, rx>>

Closes(w) == at[w] = "open" /\ Leaves(w) /\ UNCHANGED reply

Answered(w) == at[w] = "await" /\ reply[w] # NoReply
Taken(w)    == reply' = [reply EXCEPT ![w] = NoReply]

\* The response is an AttachReady to an Attach: subscribe, and stream from now on.
StartsStream(w) ==
  LET s == request[w].sid
  IN  /\ Answered(w) /\ Taken(w)
      /\ reply[w] = "AttachReady"
      /\ Subscribe(s, w)
      /\ attached' = [attached EXCEPT ![w] = s]
      /\ rx' = [rx EXCEPT ![w] = @ + 1]
      /\ events' = [events EXCEPT ![w] = <<>>]
      /\ at' = [at EXCEPT ![w] = "open"]
      /\ UNCHANGED <<daemonVars, cmds, request>>

GoesOn(w) == /\ Answered(w) /\ Taken(w)
             /\ reply[w] = "Other" /\ request[w].kind # "Shutdown"
             /\ at' = [at EXCEPT ![w] = "open"]
             /\ UNCHANGED <<daemonVars, cmds, sharedVars, request, attached, rx, events>>

EndsAfterShutdown(w) == /\ Answered(w) /\ Taken(w)
                        /\ request[w].kind = "Shutdown"
                        /\ Leaves(w)

\* select! takes an event from the channel.
Receives(w, k) == /\ at[w] = "open" /\ attached[w] # NoSid
                  /\ events[w] # <<>>
                  /\ Head(events[w]).kind = k

ForwardsOutput(w) == /\ Receives(w, "PtyOutput")
                     /\ events' = [events EXCEPT ![w] = Tail(@)]
                     /\ UNCHANGED <<daemonVars, cmds, reply, sharedVars, at, request,
                                    attached, rx>>

ForwardsEnd(w) == /\ Receives(w, "SessionEnded")
                  /\ Unsubscribe(attached[w], w)
                  /\ LeavesChannel(w)
                  /\ UNCHANGED <<daemonVars, cmds, reply, at, request, rx>>

-----------------------------------------------------------------------------
(* The event loop: drain_ws_commands, handle_ws_command.  As in PtyServer,  *)
(* what the loop still handles after a Shutdown counts as handled before.  *)

Handles(k) == running /\ cmds # <<>> /\ Head(cmds).kind = k /\ cmds' = Tail(cmds)


Replies(r) == reply' = [reply EXCEPT ![Head(cmds).client] = r]

Becomes(s, ss) == session' = [session EXCEPT ![s] = ss] /\ UNCHANGED <<ids, used, running>>

\* handle_baton_takeover has been through, however it ended.
TakenOver(ss) == IF ss.state = "Attached" THEN BatonDetach(ss) ELSE ss

\* handle_ws_attach
HandleAttach ==
  /\ Handles("Attach")
  /\ LET s == Head(cmds).sid
     IN  \/ /\ s \in ids
            /\ Becomes(s, WsJoined(TakenOver(session[s])))
            /\ Replies("AttachReady")
         \* the child is dead: known only after the takeover
         \/ /\ s \in ids
            /\ Becomes(s, TakenOver(session[s]))
            /\ Replies("Other")
         \/ /\ s \notin ids
            /\ UNCHANGED daemonVars
            /\ Replies("Other")
  /\ UNCHANGED <<sharedVars, taskVars>>

\* handle_baton_release: resumed, the push failed, dup failed.
Released(ss) == {[Attach(ss, ss.prev) EXCEPT !.prev = NoFd, !.cooldown = TRUE],
                 Detach([ss EXCEPT !.prev = NoFd]),
                 Detach(ss)}

\* What handle_ws_detach may leave.
AfterWsDetach(ss) ==
  CASE ss.state = "Attached" /\ ~ss.cooldown -> {BatonDetach(ss)}
    [] ss.state = "Attached" /\ ss.cooldown -> {ss}
    [] ss.state # "Attached" /\ ss.prev # NoFd -> Released(ss)
    [] OTHER -> {Detach(ss)}

HandleDetach ==
  /\ Handles("Detach")
  /\ LET s == Head(cmds).sid
     IN  \/ s \in ids /\ \E ss \in AfterWsDetach(WsLeft(session[s])) : Becomes(s, ss)
         \/ s \notin ids /\ UNCHANGED daemonVars
  /\ Replies("Other")
  /\ UNCHANGED <<sharedVars, taskVars>>

\* handle_ws_client_disconnect
AfterDisconnect(ss) == LET left == WsLeft(ss)
                       IN  IF left.ws = 0 /\ left.prev # NoFd THEN Released(left) ELSE {left}

HandleDisconnected ==
  /\ Handles("Disconnected")
  /\ LET s == clientSessions[Head(cmds).client]
     IN  IF s \in ids THEN \E ss \in AfterDisconnect(session[s]) : Becomes(s, ss)
         ELSE UNCHANGED daemonVars
  /\ UNCHANGED <<reply, sharedVars, taskVars>>

Started(s) == /\ s \in Sid \ used
              /\ ids' = ids \cup {s} /\ used' = used \cup {s}
              /\ UNCHANGED <<session, running>>

Gone(S) == /\ ids' = ids \ S
           /\ session' = [s \in Sid |-> IF s \in S THEN NewSession ELSE session[s]]
           /\ UNCHANGED <<used, running>>

Ended(S) == Gone(S) /\ NotifyEnded(S)

HandleCreate == /\ Handles("Create")
                /\ (\E s \in Sid : Started(s)) \/ UNCHANGED daemonVars
                /\ Replies("Other")
                /\ UNCHANGED <<sharedVars, taskVars>>

HandleKill == /\ Handles("Kill")
              /\ Ended({Head(cmds).sid} \cap ids)
              /\ Replies("Other")
              /\ UNCHANGED <<at, request, attached, rx>>

HandleQuery == /\ Handles("Query")
               /\ Replies("Other")
               /\ UNCHANGED <<daemonVars, sharedVars, taskVars>>

HandleShutdown == /\ Handles("Shutdown")
                  /\ running' = FALSE
                  /\ Replies("Other")
                  /\ UNCHANGED <<ids, used, session, sharedVars, taskVars>>

-----------------------------------------------------------------------------
(* The event loop: everything else *)

NoTask == UNCHANGED <<cmds, reply, at, request, attached, rx>>

\* handle_create for a Unix client.
SessionStarts(s) == /\ running
                    /\ Started(s)
                    /\ NoTask /\ UNCHANGED <<sharedVars, events>>

\* handle_attach, handle_detach and handle_client_disconnect of Unix client c.
UnixAttach(c, s) == /\ running
                    /\ s \in ids /\ session[s].state # "Attached"
                    /\ Becomes(s, Attach(session[s], c))
                    /\ NoTask /\ UNCHANGED <<sharedVars, events>>

UnixDetach(s) == /\ running
                 /\ s \in ids /\ session[s].state = "Attached"
                 /\ Becomes(s, Detach(session[s]))
                 /\ NoTask /\ UNCHANGED <<sharedVars, events>>

UnixGone(c) == /\ running
               /\ session' = [s \in Sid |-> WithoutClient(session[s], c)]
               /\ UNCHANGED <<ids, used, running>>
               /\ NoTask /\ UNCHANGED <<sharedVars, events>>

\* handle_session_output: the loop reads only sessions that are not Attached.
Output(s) == /\ running
             /\ s \in ids /\ session[s].state # "Attached"
             /\ \A w \in Listeners(s) : Len(events[w]) < MaxEvents
             /\ events' = SentTo(s, "PtyOutput")
             /\ NoTask /\ UNCHANGED <<daemonVars, sharedVars>>

\* handle_session_output finds end of file: it removes the session and notifies
\* nobody.
EndsAtEof(s) == /\ running
                /\ s \in ids /\ session[s].state # "Attached"
                /\ Gone({s})
                /\ silent' = silent \cup {s}
                /\ NoTask /\ UNCHANGED <<subscribers, clientSessions, events>>

\* handle_child_exit, reap_dead, or handle_kill for a Unix client.
SessionEnds(s) == /\ running
                  /\ s \in ids
                  /\ Ended({s})
                  /\ NoTask

CooldownEnds(s) == /\ s \in ids /\ session[s].cooldown
                   /\ Becomes(s, [session[s] EXCEPT !.cooldown = FALSE])
                   /\ NoTask /\ UNCHANGED <<sharedVars, events>>

\* cleanup: every session with subscribers is reported ended, and the process
\* exits.
Cleanup == /\ running' = FALSE
           /\ ids' = {} /\ session' = [s \in Sid |-> NewSession] /\ UNCHANGED used
           /\ NotifyEnded(Sid)
           /\ NoTask

Terminated == ~running /\ UNCHANGED vars

-----------------------------------------------------------------------------
Task(w) == \/ \E r \in Request : Sends(w, r)
           \/ Connect(w) \/ Closes(w) \/ StartsStream(w) \/ GoesOn(w)
           \/ EndsAfterShutdown(w) \/ ForwardsOutput(w) \/ ForwardsEnd(w)

HandleCommand == \/ HandleAttach \/ HandleDetach \/ HandleDisconnected
                 \/ HandleCreate \/ HandleKill \/ HandleQuery \/ HandleShutdown

Loop == \/ HandleCommand \/ Cleanup \/ Terminated
        \/ \E s \in Sid : \/ SessionStarts(s) \/ UnixDetach(s) \/ Output(s)
                          \/ EndsAtEof(s) \/ SessionEnds(s) \/ CooldownEnds(s)
                          \/ \E c \in Fd : UnixAttach(c, s)
        \/ \E c \in Fd : UnixGone(c)

Next == Loop \/ \E w \in Ws : Task(w)

Spec == Init /\ [][Next]_vars

\* kevent waits for one second at most, so the loop drains the command channel
\* again and again, and a task that has its response is woken.
FairSpec == /\ Spec
            /\ WF_vars(HandleCommand)
            /\ \A w \in Ws : WF_vars(StartsStream(w) \/ GoesOn(w))

-----------------------------------------------------------------------------
TypeOK ==
  /\ ids \subseteq used /\ used \subseteq Sid
  /\ session \in [Sid -> Session]
  /\ running \in BOOLEAN
  /\ cmds \in Seq(Command)
  /\ reply \in [Ws -> Answers \cup {NoReply}]
  /\ subscribers \in [Sid -> SUBSET Subscriber]
  /\ clientSessions \in [Ws -> Sid \cup {NoSid}]
  /\ silent \subseteq Sid
  /\ at \in [Ws -> {"new", "open", "await", "closed"}]
  /\ request \in [Ws -> Request]
  /\ attached \in [Ws -> Sid \cup {NoSid}]
  /\ rx \in [Ws -> Nat]
  /\ events \in [Ws -> Seq(Event)]

\* client_sessions, which decides idle exit and the cleanup after a disconnect,
\* never names a session the client's task is not attached to, and a closed
\* connection leaves neither an entry there nor a channel that is still fed.
SharedMatchesTasks ==
  \A w \in Ws : /\ clientSessions[w] \in {NoSid, attached[w]}
                /\ attached[w] = NoSid => w \notin UNION {Listeners(s) : s \in Sid}

\* A streaming task is subscribed to a session that lives, or the end of that
\* session is the last event it will find (WsEvent::SessionEnded).  Two ends alone
\* go unannounced: the end of file the event loop reads (handle_session_output
\* removes the session and notifies nobody), and an end between AttachReady and
\* subscribe.  Nothing of another session is in the task's channel, however it
\* re-attached.
StreamOpen ==
  \A w \in Ws : LET s == attached[w] q == events[w]
                IN  /\ s # NoSid => \/ w \in Listeners(s) /\ s \in ids \cup silent
                                    \/ q # <<>> /\ q[Len(q)].kind = "SessionEnded"
                    /\ \A i \in 1 .. Len(q) :
                         /\ q[i].sid = s
                         /\ q[i].kind = "SessionEnded" => i = Len(q)


-----------------------------------------------------------------------------
(* What the comments say and the code does not do *)

Quiet == running /\ cmds = <<>> /\ \A w \in Ws : at[w] # "await"

\* handle_ws_client_disconnect: when the last WS client of a session is gone its
\* previous owner gets it back.  The task unsubscribes before it reports the
\* disconnect, so the handler never finds the session.
BatonReturned ==
  Quiet /\ (\A w \in Ws : at[w] \in {"new", "closed"})
    => \A s \in ids : session[s].ws > 0 => session[s].prev = NoFd
=============================================================================
