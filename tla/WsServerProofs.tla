--------------------------- MODULE WsServerProofs --------------------------
(* Proofs about WsServer, for every set of clients and sessions.           *)
(*                                                                         *)
(* The inductive invariant has three parts: OneRequest, about the command  *)
(* channel and the oneshots; Channels, about the subscriptions and the     *)
(* event channels; and Live, about the sessions they are for.  The type    *)
(* invariant rests on the first: an AttachReady is well typed for a task   *)
(* only because it answers an Attach.                                      *)
EXTENDS WsServer, SessionProofs, TLAPS

\* A task has at most one request under way, in the command channel or in its
\* oneshot, and what is there belongs to the request it waits for: the task
\* awaits the response before it reads another frame (handle_text_message).
OneRequest ==
  /\ \A i \in 1 .. Len(cmds) : cmds[i].kind # "Disconnected" =>
        /\ at[cmds[i].client] = "await" /\ reply[cmds[i].client] = NoReply
        /\ request[cmds[i].client].kind = cmds[i].kind
  /\ \A i, j \in 1 .. Len(cmds) :
        cmds[i].kind # "Disconnected" /\ cmds[j].kind # "Disconnected"
          /\ cmds[i].client = cmds[j].client => i = j
  /\ \A w \in Ws : /\ reply[w] # NoReply => at[w] = "await"
                   /\ reply[w] = "AttachReady" => request[w].kind = "Attach"

\* A subscription is never ahead of the channels its client has opened; the one
\* for the latest channel is in the list of the attached session only, and what
\* it feeds has not been told of an end.
Channels ==
  /\ \A s \in Sid : \A x \in subscribers[s] : x.chan <= rx[x.client]
  /\ \A s \in Sid : \A w \in Listeners(s) :
        /\ attached[w] = s
        /\ \A i \in 1 .. Len(events[w]) : events[w][i].kind # "SessionEnded"

\* StreamOpen, without the life of the session.
Subscribed ==
  \A w \in Ws : LET s == attached[w] q == events[w]
                IN  /\ s # NoSid => \/ w \in Listeners(s)
                                    \/ q # <<>> /\ q[Len(q)].kind = "SessionEnded"
                    /\ \A i \in 1 .. Len(q) :
                         /\ q[i].sid = s
                         /\ q[i].kind = "SessionEnded" => i = Len(q)

\* What is listened to lives, or has ended in one of the two silent ways.
Live == \A s \in Sid : Listeners(s) # {} => s \in ids \cup silent

IInv == TypeOK /\ OneRequest /\ Channels /\ SharedMatchesTasks /\ Subscribed /\ Live

-----------------------------------------------------------------------------
(* Sequences *)

\* Taking the first element (recv on a channel) shifts the others.
LEMMA TailFacts ==
  ASSUME NEW S, NEW q \in Seq(S), q # <<>>
  PROVE  /\ Len(q) \in Nat \ {0} /\ Head(q) \in S /\ Head(q) = q[1]
         /\ Tail(q) \in Seq(S) /\ Len(Tail(q)) = Len(q) - 1
         /\ \A i \in 1 .. Len(Tail(q)) : /\ i + 1 \in 1 .. Len(q)
                                         /\ Tail(q)[i] = q[i + 1]
  OBVIOUS

\* Sending (send on a channel) adds one element at the end.
LEMMA AppendFacts ==
  ASSUME NEW S, NEW q \in Seq(S), NEW e \in S
  PROVE  /\ Append(q, e) \in Seq(S) /\ Len(Append(q, e)) = Len(q) + 1
         /\ Len(q) \in Nat
         /\ \A i \in 1 .. Len(q) : Append(q, e)[i] = q[i]
         /\ Append(q, e)[Len(q) + 1] = e
         /\ Append(q, e) # <<>>
  OBVIOUS

-----------------------------------------------------------------------------
(* OneRequest *)

\* Steps that leave the channel, the oneshots and the tasks' positions alone.
LEMMA RequestsUnchanged ==
  ASSUME OneRequest, UNCHANGED <<cmds, reply, at, request>>
  PROVE  OneRequest'
  BY DEF OneRequest

\* The event loop takes a request and answers it: only the client's own oneshot
\* is filled, and nothing else of that client is in the channel.
LEMMA HandledRequest ==
  ASSUME TypeOK, OneRequest, NEW k, Handles(k), k # "Disconnected",
         NEW r \in Answers, Replies(r), r = "AttachReady" => k = "Attach",
         UNCHANGED <<at, request>>
  PROVE  OneRequest'
  <1> DEFINE c == Head(cmds).client
  <1>1. /\ cmds' = Tail(cmds) /\ reply' = [reply EXCEPT ![c] = r]
        /\ Len(cmds) \in Nat \ {0} /\ Head(cmds) = cmds[1] /\ cmds[1].kind = k
        /\ Len(Tail(cmds)) = Len(cmds) - 1
        /\ \A i \in 1 .. Len(cmds') : i + 1 \in 1 .. Len(cmds) /\ cmds'[i] = cmds[i + 1]
        /\ cmds[1] \in Command
    BY TailFacts DEF Handles, Replies, TypeOK
  <1>2. c \in Ws /\ c = cmds[1].client /\ reply \in [Ws -> Answers \cup {NoReply}]
    BY <1>1 DEF Command, TypeOK
  <1>3. at[c] = "await" /\ request[c].kind = k
    BY <1>1, <1>2 DEF OneRequest
  <1>4. ASSUME NEW i \in 1 .. Len(cmds'), cmds'[i].kind # "Disconnected"
        PROVE  cmds'[i].client # c
    <2>1. i + 1 # 1 /\ 1 \in 1 .. Len(cmds) /\ i + 1 \in 1 .. Len(cmds)
      BY <1>1
    <2> QED BY <1>1, <1>2, <1>4, <2>1 DEF OneRequest
  <1>5. \A i \in 1 .. Len(cmds') : cmds'[i].kind # "Disconnected" =>
           /\ at'[cmds'[i].client] = "await" /\ reply'[cmds'[i].client] = NoReply
           /\ request'[cmds'[i].client].kind = cmds'[i].kind
    <2> SUFFICES ASSUME NEW i \in 1 .. Len(cmds'), cmds'[i].kind # "Disconnected"
                 PROVE  /\ at[cmds'[i].client] = "await" /\ reply'[cmds'[i].client] = NoReply
                        /\ request[cmds'[i].client].kind = cmds'[i].kind
      OBVIOUS
    <2>1. /\ at[cmds'[i].client] = "await" /\ reply[cmds'[i].client] = NoReply
          /\ request[cmds'[i].client].kind = cmds'[i].kind
      BY <1>1 DEF OneRequest
    <2>2. reply'[cmds'[i].client] = reply[cmds'[i].client]
      BY <1>1, <1>2, <1>4
    <2> QED BY <2>1, <2>2
  <1>6. \A i, j \in 1 .. Len(cmds') :
           cmds'[i].kind # "Disconnected" /\ cmds'[j].kind # "Disconnected"
             /\ cmds'[i].client = cmds'[j].client => i = j
    <2> SUFFICES ASSUME NEW i \in 1 .. Len(cmds'), NEW j \in 1 .. Len(cmds'),
                        cmds'[i].kind # "Disconnected", cmds'[j].kind # "Disconnected",
                        cmds'[i].client = cmds'[j].client
                 PROVE  i = j
      OBVIOUS
    <2>1. i + 1 = j + 1
      BY <1>1 DEF OneRequest
    <2> QED BY <2>1
  <1>7. \A w \in Ws : /\ reply'[w] # NoReply => at'[w] = "await"
                      /\ reply'[w] = "AttachReady" => request'[w].kind = "Attach"
    BY <1>1, <1>2, <1>3 DEF OneRequest, Answers, NoReply
  <1> QED BY <1>5, <1>6, <1>7 DEF OneRequest

\* Taking a Disconnected notice disturbs nothing.
LEMMA HandledNotice ==
  ASSUME TypeOK, OneRequest, cmds # <<>>, cmds' = Tail(cmds), UNCHANGED <<reply, at, request>>
  PROVE  OneRequest'
  <1>1. \A i \in 1 .. Len(cmds') : i + 1 \in 1 .. Len(cmds) /\ cmds'[i] = cmds[i + 1]
    BY TailFacts DEF TypeOK
  <1>2. \A i, j \in 1 .. Len(cmds') :
           cmds'[i].kind # "Disconnected" /\ cmds'[j].kind # "Disconnected"
             /\ cmds'[i].client = cmds'[j].client => i = j
    <2> SUFFICES ASSUME NEW i \in 1 .. Len(cmds'), NEW j \in 1 .. Len(cmds'),
                        cmds'[i].kind # "Disconnected", cmds'[j].kind # "Disconnected",
                        cmds'[i].client = cmds'[j].client
                 PROVE  i = j
      OBVIOUS
    <2>1. i + 1 = j + 1
      BY <1>1 DEF OneRequest
    <2> QED BY <2>1
  <1> QED BY <1>1, <1>2 DEF OneRequest

\* A task between two requests has nothing in the channel but notices.
LEMMA NothingUnderWay ==
  ASSUME OneRequest, NEW w \in Ws, at[w] # "await" \/ reply[w] # NoReply
  PROVE  \A i \in 1 .. Len(cmds) : cmds[i].kind # "Disconnected" => cmds[i].client # w
  BY DEF OneRequest

\* A task that has nothing under way sends a request or a notice.
LEMMA SentCommand ==
  ASSUME TypeOK, OneRequest, NEW w \in Ws, at[w] # "await" \/ reply[w] # NoReply,
         NEW e \in Command, e.client = w, cmds' = Append(cmds, e),
         NEW p, at' = [at EXCEPT ![w] = p],
         NEW r, request' = [request EXCEPT ![w] = r],
         reply' = [reply EXCEPT ![w] = NoReply],
         e.kind # "Disconnected" => p = "await" /\ r.kind = e.kind
  PROVE  OneRequest'
  <1>1. \A i \in 1 .. Len(cmds) : cmds[i].kind # "Disconnected" => cmds[i].client # w
    BY NothingUnderWay
  <1>2. /\ Len(cmds') = Len(cmds) + 1 /\ Len(cmds) \in Nat
        /\ \A i \in 1 .. Len(cmds) : cmds'[i] = cmds[i]
        /\ cmds'[Len(cmds) + 1] = e
    BY AppendFacts DEF TypeOK
  <1>3. \A v \in Ws : v # w => at'[v] = at[v] /\ request'[v] = request[v] /\ reply'[v] = reply[v]
    BY DEF TypeOK
  <1>4. at'[w] = p /\ request'[w] = r /\ reply'[w] = NoReply
    BY DEF TypeOK
  <1>5. \A i \in 1 .. Len(cmds) : cmds[i].client \in Ws
    BY DEF TypeOK, Command
  <1>6. \A i \in 1 .. Len(cmds') : cmds'[i].kind # "Disconnected" =>
           /\ at'[cmds'[i].client] = "await" /\ reply'[cmds'[i].client] = NoReply
           /\ request'[cmds'[i].client].kind = cmds'[i].kind
    <2> SUFFICES ASSUME NEW i \in 1 .. Len(cmds'), cmds'[i].kind # "Disconnected"
                 PROVE  /\ at'[cmds'[i].client] = "await" /\ reply'[cmds'[i].client] = NoReply
                        /\ request'[cmds'[i].client].kind = cmds'[i].kind
      OBVIOUS
    <2>1. CASE i = Len(cmds) + 1
      BY <1>2, <1>4, <2>1
    <2>2. CASE i # Len(cmds) + 1
      <3>1. i \in 1 .. Len(cmds)
        BY <1>2, <2>2
      <3> QED BY <1>1, <1>2, <1>3, <1>5, <3>1 DEF OneRequest
    <2> QED BY <2>1, <2>2
  <1>7. \A i, j \in 1 .. Len(cmds') :
           cmds'[i].kind # "Disconnected" /\ cmds'[j].kind # "Disconnected"
             /\ cmds'[i].client = cmds'[j].client => i = j
    <2>1. \A i \in 1 .. Len(cmds') : i \in 1 .. Len(cmds) \/ i = Len(cmds) + 1
      BY <1>2
    <2> QED BY <1>1, <1>2, <2>1 DEF OneRequest
  <1>8. \A v \in Ws : /\ reply'[v] # NoReply => at'[v] = "await"
                      /\ reply'[v] = "AttachReady" => request'[v].kind = "Attach"
    BY <1>3, <1>4 DEF OneRequest, NoReply
  <1> QED BY <1>6, <1>7, <1>8 DEF OneRequest

\* A task that has its response, or has not started, goes on to its next frame.
LEMMA GoneOn ==
  ASSUME TypeOK, OneRequest, NEW w \in Ws, at[w] # "await" \/ reply[w] # NoReply,
         at' = [at EXCEPT ![w] = "open"], reply' = [reply EXCEPT ![w] = NoReply],
         UNCHANGED <<cmds, request>>
  PROVE  OneRequest'
  <1>1. \A i \in 1 .. Len(cmds) : cmds[i].kind # "Disconnected" => cmds[i].client # w
    BY NothingUnderWay
  <1>2. \A v \in Ws : v # w => at'[v] = at[v] /\ reply'[v] = reply[v]
    BY DEF TypeOK
  <1>3. at'[w] = "open" /\ reply'[w] = NoReply
    BY DEF TypeOK
  <1>4. \A i \in 1 .. Len(cmds) : cmds[i].client \in Ws
    BY DEF TypeOK, Command
  <1> QED BY <1>1, <1>2, <1>3, <1>4 DEF OneRequest, NoReply

-----------------------------------------------------------------------------
(* Channels, SharedMatchesTasks and Subscribed *)

Streams == Channels /\ SharedMatchesTasks /\ Subscribed

\* Steps that leave WsSharedState and the channels alone.
LEMMA StreamsUnchanged ==
  ASSUME Streams, UNCHANGED <<subscribers, clientSessions, attached, rx, events>>
  PROVE  Streams'
  BY DEF Streams, Channels, SharedMatchesTasks, Subscribed, Listeners

\* The task unsubscribes and drops its receiver, whatever made it: Detach, the
\* end of the connection, or the SessionEnded it forwarded.
LEMMA LeftChannel ==
  ASSUME TypeOK, Streams, NEW w \in Ws, attached[w] # NoSid,
         Unsubscribe(attached[w], w), LeavesChannel(w), rx' = rx
  PROVE  Streams'
  <1> DEFINE s0 == attached[w]
  <1>1. s0 \in Sid
    BY DEF TypeOK
  <1>2. /\ \A s \in Sid : subscribers'[s] \subseteq subscribers[s]
        /\ subscribers'[s0] = {x \in subscribers[s0] : x.client # w}
        /\ \A s \in Sid : s # s0 => subscribers'[s] = subscribers[s]
        /\ \A v \in Ws : v # w => /\ clientSessions'[v] = clientSessions[v]
                                  /\ attached'[v] = attached[v] /\ events'[v] = events[v]
        /\ clientSessions'[w] = NoSid /\ attached'[w] = NoSid /\ events'[w] = <<>>
    BY <1>1 DEF TypeOK, Unsubscribe, LeavesChannel
  <1>3. \A s \in Sid : w \notin Listeners(s)'
    BY <1>1, <1>2 DEF Streams, Channels, Listeners
  <1>4. \A s \in Sid, v \in Ws : v # w => (v \in Listeners(s)' <=> v \in Listeners(s))
    <2> SUFFICES ASSUME NEW s \in Sid, NEW v \in Ws, v # w
                 PROVE  [client |-> v, chan |-> rx[v]] \in subscribers'[s]
                          <=> [client |-> v, chan |-> rx[v]] \in subscribers[s]
      BY DEF Listeners
    <2> QED BY <1>2
  <1>5. Channels'
    <2>1. \A s \in Sid : \A x \in subscribers'[s] : x.chan <= rx'[x.client]
      BY <1>2 DEF Streams, Channels
    <2>2. \A s \in Sid : \A v \in Listeners(s)' :
             /\ attached'[v] = s
             /\ \A i \in 1 .. Len(events'[v]) : events'[v][i].kind # "SessionEnded"
      <3> SUFFICES ASSUME NEW s \in Sid, NEW v \in Listeners(s)'
                   PROVE  /\ attached'[v] = s
                          /\ \A i \in 1 .. Len(events'[v]) : events'[v][i].kind # "SessionEnded"
        OBVIOUS
      <3>1. v \in Ws /\ v # w
        BY <1>3 DEF Listeners
      <3> QED BY <1>2, <1>4, <3>1 DEF Streams, Channels
    <2> QED BY <2>1, <2>2 DEF Channels
  <1>6. SharedMatchesTasks'
    <2> SUFFICES ASSUME NEW v \in Ws
                 PROVE  /\ clientSessions'[v] \in {NoSid, attached'[v]}
                        /\ attached'[v] = NoSid => \A s \in Sid : v \notin Listeners(s)'
      BY DEF SharedMatchesTasks
    <2> QED BY <1>2, <1>3, <1>4 DEF Streams, SharedMatchesTasks
  <1>7. Subscribed'
    <2> SUFFICES ASSUME NEW v \in Ws
                 PROVE  LET s == attached'[v] q == events'[v]
                        IN  /\ s # NoSid => \/ [client |-> v, chan |-> rx'[v]] \in subscribers'[s]
                                            \/ q # <<>> /\ q[Len(q)].kind = "SessionEnded"
                            /\ \A i \in 1 .. Len(q) :
                                 /\ q[i].sid = s
                                 /\ q[i].kind = "SessionEnded" => i = Len(q)
      BY DEF Subscribed, Listeners
    <2>1. CASE v = w
      BY <1>2, <2>1
    <2>2. CASE v # w
      <3>1. attached[v] # NoSid => attached[v] \in Sid
        BY DEF TypeOK
      <3> QED BY <1>2, <1>4, <2>2, <3>1 DEF Streams, Subscribed, Listeners
    <2> QED BY <2>1, <2>2
  <1> QED BY <1>5, <1>6, <1>7 DEF Streams

\* An AttachReady: the new channel's number is in no list, so the task listens to
\* the session it attached to and to no other.
LEMMA JoinedStream ==
  ASSUME TypeOK, Streams, NEW w \in Ws, NEW s0 \in Sid, Subscribe(s0, w),
         attached' = [attached EXCEPT ![w] = s0],
         rx' = [rx EXCEPT ![w] = @ + 1],
         events' = [events EXCEPT ![w] = <<>>]
  PROVE  Streams'
  <1> DEFINE new == [client |-> w, chan |-> rx[w] + 1]
  <1>1. /\ \A v \in Ws : v # w => /\ clientSessions'[v] = clientSessions[v]
                                  /\ attached'[v] = attached[v] /\ events'[v] = events[v]
                                  /\ rx'[v] = rx[v]
        /\ clientSessions'[w] = s0 /\ attached'[w] = s0 /\ events'[w] = <<>>
        /\ rx'[w] = rx[w] + 1 /\ rx[w] \in Nat
    BY DEF TypeOK, Subscribe
  <1>2. /\ subscribers'[s0] = subscribers[s0] \cup {new}
        /\ \A s \in Sid : s # s0 => subscribers'[s] = subscribers[s]
    BY DEF TypeOK, Subscribe
  <1>3. \A s \in Sid : subscribers[s] \subseteq Subscriber
    BY DEF TypeOK
  <1>4. \A s \in Sid, x \in Subscriber : x \in subscribers[s] => x.chan <= rx[x.client]
    BY DEF Streams, Channels
  <1>5. \A s \in Sid : new \notin subscribers[s]
    <2> SUFFICES ASSUME NEW s \in Sid, new \in subscribers[s] PROVE FALSE
      OBVIOUS
    <2>1. new \in Subscriber /\ new.client = w /\ new.chan = rx[w] + 1
      BY <1>1 DEF Subscriber
    <2> QED BY <1>1, <1>4, <2>1
  <1>6. \A s \in Sid : w \in Listeners(s)' <=> s = s0
    BY <1>1, <1>2, <1>5 DEF Listeners
  <1>7. \A s \in Sid, v \in Ws : v # w => (v \in Listeners(s)' <=> v \in Listeners(s))
    <2> SUFFICES ASSUME NEW s \in Sid, NEW v \in Ws, v # w
                 PROVE  [client |-> v, chan |-> rx[v]] \in subscribers'[s]
                          <=> [client |-> v, chan |-> rx[v]] \in subscribers[s]
      BY <1>1 DEF Listeners
    <2> QED BY <1>2
  <1>8. Channels'
    <2>1. \A s \in Sid : \A x \in subscribers'[s] : x.chan <= rx'[x.client]
      <3> SUFFICES ASSUME NEW s \in Sid, NEW x \in subscribers'[s]
                   PROVE  x.chan <= rx'[x.client]
        OBVIOUS
      <3>1. CASE x \in subscribers[s]
        <4>1. x.client \in Ws /\ x.chan \in Nat /\ x.chan <= rx[x.client]
          BY <1>3, <1>4, <3>1 DEF Subscriber
        <4>2. rx[x.client] \in Nat
          BY <4>1 DEF TypeOK
        <4> QED BY <1>1, <4>1, <4>2
      <3>2. CASE x \notin subscribers[s]
        BY <1>1, <1>2, <3>2
      <3> QED BY <3>1, <3>2
    <2>2. \A s \in Sid : \A v \in Listeners(s)' :
             /\ attached'[v] = s
             /\ \A i \in 1 .. Len(events'[v]) : events'[v][i].kind # "SessionEnded"
      <3> SUFFICES ASSUME NEW s \in Sid, NEW v \in Listeners(s)'
                   PROVE  /\ attached'[v] = s
                          /\ \A i \in 1 .. Len(events'[v]) : events'[v][i].kind # "SessionEnded"
        OBVIOUS
      <3>1. v \in Ws
        BY DEF Listeners
      <3>2. CASE v = w
        BY <1>1, <1>6, <3>2
      <3>3. CASE v # w
        BY <1>1, <1>7, <3>1, <3>3 DEF Streams, Channels
      <3> QED BY <3>2, <3>3
    <2> QED BY <2>1, <2>2 DEF Channels
  <1>9. SharedMatchesTasks'
    <2> SUFFICES ASSUME NEW v \in Ws
                 PROVE  /\ clientSessions'[v] \in {NoSid, attached'[v]}
                        /\ attached'[v] = NoSid => \A s \in Sid : v \notin Listeners(s)'
      BY DEF SharedMatchesTasks
    <2> QED BY <1>1, <1>7, WsAssumption DEF Streams, SharedMatchesTasks
  <1>10. Subscribed'
    <2> SUFFICES ASSUME NEW v \in Ws
                 PROVE  LET s == attached'[v] q == events'[v]
                        IN  /\ s # NoSid => \/ [client |-> v, chan |-> rx'[v]] \in subscribers'[s]
                                            \/ q # <<>> /\ q[Len(q)].kind = "SessionEnded"
                            /\ \A i \in 1 .. Len(q) :
                                 /\ q[i].sid = s
                                 /\ q[i].kind = "SessionEnded" => i = Len(q)
      BY DEF Subscribed, Listeners
    <2>1. CASE v = w
      BY <1>1, <1>2, <2>1
    <2>2. CASE v # w
      <3>1. attached[v] # NoSid => attached[v] \in Sid
        BY DEF TypeOK
      <3> QED BY <1>1, <1>7, <2>2, <3>1 DEF Streams, Subscribed, Listeners
    <2> QED BY <2>1, <2>2
  <1> QED BY <1>8, <1>9, <1>10 DEF Streams

\* What Subscribed says of one channel: what is in it is of session s, and an end
\* is the last thing in it.
OfSession(q, s) == \A i \in 1 .. Len(q) : /\ q[i].sid = s
                                          /\ q[i].kind = "SessionEnded" => i = Len(q)

ToldEnd(q) == q # <<>> /\ q[Len(q)].kind = "SessionEnded"

\* Its latest channel is in the list of session s.
Fed(w, s) == [client |-> w, chan |-> rx[w]] \in subscribers[s]

\* Subscribed, channel by channel.
LEMMA OpenChannels ==
  Subscribed <=> \A w \in Ws : /\ OfSession(events[w], attached[w])
                               /\ attached[w] # NoSid /\ ~Fed(w, attached[w])
                                    => ToldEnd(events[w])
  BY DEF Subscribed, OfSession, ToldEnd, Fed, Listeners

\* Dropping an event that is not the end.
LEMMA TailOfChannel ==
  ASSUME NEW q \in Seq(Event), NEW s, q # <<>>, Head(q).kind # "SessionEnded"
  PROVE  /\ OfSession(q, s) => OfSession(Tail(q), s)
         /\ ToldEnd(q) => ToldEnd(Tail(q))
         /\ (\A i \in 1 .. Len(q) : q[i].kind # "SessionEnded")
              => \A i \in 1 .. Len(Tail(q)) : Tail(q)[i].kind # "SessionEnded"
  <1> DEFINE n == Len(q)
             tl == Tail(q)
  <1>1. /\ n \in Nat \ {0} /\ Head(q) = q[1] /\ Len(tl) = n - 1
        /\ \A i \in 1 .. n - 1 : i + 1 \in 1 .. n /\ tl[i] = q[i + 1]
        /\ tl \in Seq(Event)
    BY TailFacts
  <1> HIDE DEF tl, n
  <1>2. OfSession(q, s) => OfSession(tl, s)
    BY <1>1 DEF OfSession, n
  <1>3. ASSUME ToldEnd(q) PROVE ToldEnd(tl)
    <2>1. q[n].kind = "SessionEnded"
      BY <1>3 DEF ToldEnd, n
    <2>2. n # 1
      BY <1>1, <2>1
    <2>3. n - 1 \in 1 .. n - 1 /\ n - 1 + 1 = n /\ n - 1 # 0
      BY <1>1, <2>2
    <2>4. tl[n - 1] = q[n]
      BY <1>1, <2>3
    <2>5. tl # <<>>
      BY <1>1, <2>3, Len(<<>>) = 0
    <2> QED BY <1>1, <2>1, <2>4, <2>5 DEF ToldEnd
  <1>4. (\A i \in 1 .. n : q[i].kind # "SessionEnded")
           => \A i \in 1 .. Len(tl) : tl[i].kind # "SessionEnded"
    BY <1>1
  <1> QED BY <1>2, <1>3, <1>4 DEF tl, n

\* An event of the attached session is appended to a channel without an end.
LEMMA AppendedEvent ==
  ASSUME NEW q \in Seq(Event), NEW s \in Sid, NEW k \in {"PtyOutput", "SessionEnded"},
         OfSession(q, s), \A i \in 1 .. Len(q) : q[i].kind # "SessionEnded"
  PROVE  LET r == Append(q, [kind |-> k, sid |-> s])
         IN  /\ r \in Seq(Event)
             /\ OfSession(r, s)
             /\ k = "SessionEnded" => ToldEnd(r)
             /\ k = "PtyOutput" => \A i \in 1 .. Len(r) : r[i].kind # "SessionEnded"
  <1> DEFINE e == [kind |-> k, sid |-> s]
             r == Append(q, e)
  <1>1. e \in Event /\ e.kind = k /\ e.sid = s
    BY DEF Event
  <1>2. /\ r \in Seq(Event) /\ Len(r) = Len(q) + 1 /\ Len(q) \in Nat /\ r # <<>>
        /\ \A i \in 1 .. Len(q) : r[i] = q[i]
        /\ r[Len(q) + 1] = e
    BY <1>1, AppendFacts
  <1>3. \A i \in 1 .. Len(r) : i \in 1 .. Len(q) \/ i = Len(r)
    BY <1>2
  <1> HIDE DEF r, e
  <1>4. OfSession(r, s)
    BY <1>1, <1>2, <1>3 DEF OfSession
  <1>5. k = "SessionEnded" => ToldEnd(r)
    BY <1>1, <1>2 DEF ToldEnd
  <1>6. k = "PtyOutput" => \A i \in 1 .. Len(r) : r[i].kind # "SessionEnded"
    BY <1>1, <1>2, <1>3
  <1> QED BY <1>2, <1>4, <1>5, <1>6 DEF r, e

\* Streams, for steps that leave the subscriptions and the receivers alone.
LEMMA EventsMoved ==
  ASSUME TypeOK, Streams, UNCHANGED <<subscribers, clientSessions, attached, rx>>,
         \A w \in Ws : \/ events'[w] = events[w]
                       \/ /\ OfSession(events'[w], attached[w])
                          /\ ToldEnd(events[w]) => ToldEnd(events'[w])
                          /\ (\A i \in 1 .. Len(events[w]) : events[w][i].kind # "SessionEnded")
                               => \A i \in 1 .. Len(events'[w]) :
                                     events'[w][i].kind # "SessionEnded"
  PROVE  Streams'
  <1>1. Channels'
    <2> SUFFICES ASSUME NEW s \in Sid, NEW w \in Listeners(s)
                 PROVE  /\ attached[w] = s
                        /\ \A i \in 1 .. Len(events'[w]) : events'[w][i].kind # "SessionEnded"
      BY DEF Channels, Listeners, Streams
    <2>1. w \in Ws /\ attached[w] = s
          /\ \A i \in 1 .. Len(events[w]) : events[w][i].kind # "SessionEnded"
      BY DEF Streams, Channels, Listeners
    <2> QED BY <2>1
  <1>2. SharedMatchesTasks'
    BY DEF Streams, SharedMatchesTasks, Listeners
  <1>3. Subscribed'
    <2>1. \A w \in Ws : /\ OfSession(events'[w], attached[w])
                        /\ attached[w] # NoSid /\ ~Fed(w, attached[w]) => ToldEnd(events'[w])
      BY OpenChannels DEF Streams
    <2>2. (\A w \in Ws : /\ OfSession(events[w], attached[w])
                         /\ attached[w] # NoSid /\ ~Fed(w, attached[w])
                              => ToldEnd(events[w]))'
      BY <2>1 DEF OfSession, ToldEnd, Fed
    <2> QED BY <2>2, OpenChannels, PTL
  <1> QED BY <1>1, <1>2, <1>3 DEF Streams

\* select! takes an output event out of the channel.
LEMMA ForwardedOutput ==
  ASSUME TypeOK, Streams, NEW w \in Ws, ForwardsOutput(w)
  PROVE  Streams' /\ events' \in [Ws -> Seq(Event)]
  <1> DEFINE q == events[w]
  <1>1. /\ UNCHANGED <<subscribers, clientSessions, attached, rx>>
        /\ events' = [events EXCEPT ![w] = Tail(q)]
        /\ q # <<>> /\ Head(q).kind # "SessionEnded" /\ q \in Seq(Event)
    BY DEF ForwardsOutput, Receives, sharedVars, TypeOK
  <1>2. /\ events'[w] = Tail(q)
        /\ \A v \in Ws : v # w => events'[v] = events[v]
    BY <1>1 DEF TypeOK
  <1>3. OfSession(q, attached[w])
    BY OpenChannels DEF Streams
  <1>4. /\ OfSession(Tail(q), attached[w])
        /\ ToldEnd(q) => ToldEnd(Tail(q))
        /\ (\A i \in 1 .. Len(q) : q[i].kind # "SessionEnded")
              => \A i \in 1 .. Len(Tail(q)) : Tail(q)[i].kind # "SessionEnded"
    BY <1>1, <1>3, TailOfChannel
  <1>5. Tail(q) \in Seq(Event)
    BY <1>1, TailFacts
  <1>6. events' \in [Ws -> Seq(Event)]
    BY <1>1, <1>5 DEF TypeOK
  <1> HIDE DEF q
  <1>7. Streams'
    BY <1>1, <1>2, <1>4, EventsMoved DEF q
  <1> QED BY <1>6, <1>7

\* handle_session_output sends to the listeners of the session, and these are
\* attached to it.
LEMMA SentOutput ==
  ASSUME TypeOK, Streams, NEW s \in Sid, events' = SentTo(s, "PtyOutput"),
         UNCHANGED <<subscribers, clientSessions, attached, rx>>
  PROVE  Streams' /\ events' \in [Ws -> Seq(Event)]
  <1>1. ASSUME NEW w \in Ws, w \in Listeners(s)
        PROVE  /\ events'[w] \in Seq(Event)
               /\ OfSession(events'[w], attached[w])
               /\ \A i \in 1 .. Len(events'[w]) : events'[w][i].kind # "SessionEnded"
               /\ ~ToldEnd(events[w])
    <2> DEFINE q == events[w]
    <2>1. attached[w] = s /\ (\A i \in 1 .. Len(q) : q[i].kind # "SessionEnded")
      BY <1>1 DEF Streams, Channels
    <2>2. q \in Seq(Event) /\ OfSession(q, s)
      BY <2>1, OpenChannels DEF Streams, TypeOK
    <2>3. events'[w] = Append(q, [kind |-> "PtyOutput", sid |-> s])
      BY <1>1 DEF SentTo
    <2>4. ~ToldEnd(q)
      <3>1. q # <<>> => Len(q) \in 1 .. Len(q)
        BY <2>2
      <3> QED BY <2>1, <3>1 DEF ToldEnd
    <2> HIDE DEF q
    <2>5. LET r == Append(q, [kind |-> "PtyOutput", sid |-> s])
          IN  /\ r \in Seq(Event)
              /\ OfSession(r, s)
              /\ \A i \in 1 .. Len(r) : r[i].kind # "SessionEnded"
      BY <2>1, <2>2, AppendedEvent
    <2> QED BY <2>1, <2>3, <2>4, <2>5 DEF q
  <1>2. \A w \in Ws : w \notin Listeners(s) => events'[w] = events[w]
    BY DEF SentTo
  <1>3. Streams'
    BY <1>1, <1>2, EventsMoved
  <1>4. events' \in [Ws -> Seq(Event)]
    <2>1. \A w \in Ws : events'[w] \in Seq(Event)
      BY <1>1, <1>2 DEF TypeOK
    <2>2. events' = [w \in Ws |-> events'[w]]
      BY DEF SentTo
    <2> QED BY <2>1, <2>2
  <1> QED BY <1>3, <1>4

\* notify_session_ended: every listener of an ended session finds the end as the
\* last event, and is in no list any more.
LEMMA NotifiedEnd ==
  ASSUME TypeOK, Streams, NEW S \in SUBSET Sid, NotifyEnded(S), UNCHANGED <<attached, rx>>
  PROVE  /\ Streams'
         /\ events' \in [Ws -> Seq(Event)]
         /\ subscribers' \in [Sid -> SUBSET Subscriber]
         /\ clientSessions' \in [Ws -> Sid \cup {NoSid}]
         /\ silent' \subseteq Sid
  <1>1. /\ \A s \in Sid : subscribers'[s] = IF s \in S THEN {} ELSE subscribers[s]
        /\ \A w \in Ws : clientSessions'[w] \in {NoSid, clientSessions[w]}
    BY DEF NotifyEnded
  <1>2. ASSUME NEW w \in Ws, NEW s \in S, w \in Listeners(s)
        PROVE  /\ attached[w] = s /\ OfSession(events'[w], s) /\ ToldEnd(events'[w])
               /\ events'[w] \in Seq(Event)
    <2> DEFINE q == events[w]
               mine == {x \in S : w \in Listeners(x)}
    <2>1. attached[w] = s /\ \A i \in 1 .. Len(q) : q[i].kind # "SessionEnded"
      BY <1>2 DEF Streams, Channels
    <2>2. mine = {s}
      <3>1. \A x \in mine : x = s
        BY <2>1 DEF Streams, Channels
      <3> QED BY <1>2, <3>1
    <2>3. (CHOOSE x \in mine : TRUE) = s
      BY <2>2
    <2>4. events'[w] = Append(q, [kind |-> "SessionEnded", sid |-> CHOOSE x \in mine : TRUE])
      BY <2>2 DEF NotifyEnded
    <2>5. events'[w] = Append(q, [kind |-> "SessionEnded", sid |-> s])
      BY <2>3, <2>4
    <2>6. q \in Seq(Event) /\ OfSession(q, s)
      BY <2>1, OpenChannels DEF Streams, TypeOK
    <2> HIDE DEF q
    <2>7. LET r == Append(q, [kind |-> "SessionEnded", sid |-> s])
          IN  r \in Seq(Event) /\ OfSession(r, s) /\ ToldEnd(r)
      BY <2>1, <2>6, AppendedEvent
    <2> QED BY <2>1, <2>5, <2>7
  <1>3. ASSUME NEW w \in Ws, \A s \in S : w \notin Listeners(s)
        PROVE  /\ events'[w] = events[w]
               /\ \A s \in Sid : Fed(w, s)' <=> Fed(w, s)
    BY <1>1, <1>3 DEF NotifyEnded, Fed, Listeners
  <1>4. \A w \in Ws, s \in Sid : Fed(w, s)' => Fed(w, s) /\ s \notin S
    BY <1>1 DEF Fed
  <1>5. Channels'
    <2>1. \A s \in Sid : \A x \in subscribers'[s] : x.chan <= rx'[x.client]
      BY <1>1 DEF Streams, Channels
    <2>2. ASSUME NEW s \in Sid, NEW w \in Ws, Fed(w, s)'
          PROVE  /\ attached[w] = s
                 /\ \A i \in 1 .. Len(events'[w]) : events'[w][i].kind # "SessionEnded"
      <3>1. Fed(w, s) /\ s \notin S
        BY <1>4, <2>2
      <3>2. w \in Listeners(s)
        BY <3>1 DEF Fed, Listeners
      <3>3. \A x \in S : w \notin Listeners(x)
        BY <3>1, <3>2 DEF Streams, Channels
      <3>4. events'[w] = events[w]
        BY <1>3, <3>3
      <3> QED BY <3>2, <3>4 DEF Streams, Channels
    <2> QED BY <2>1, <2>2 DEF Channels, Listeners, Fed
  <1>6. SharedMatchesTasks'
    <2> SUFFICES ASSUME NEW w \in Ws
                 PROVE  /\ clientSessions'[w] \in {NoSid, attached[w]}
                        /\ attached[w] = NoSid => \A s \in Sid : ~Fed(w, s)'
      BY DEF SharedMatchesTasks, Listeners, Fed
    <2> QED BY <1>1, <1>4 DEF Streams, SharedMatchesTasks, Listeners, Fed
  <1>7. Subscribed'
    <2>1. ASSUME NEW w \in Ws
          PROVE  /\ OfSession(events'[w], attached[w])
                 /\ attached[w] # NoSid /\ ~[client |-> w, chan |-> rx[w]] \in subscribers'[attached[w]]
                      => ToldEnd(events'[w])
      <3>1. CASE \E s \in S : w \in Listeners(s)
        BY <1>2, <3>1
      <3>2. CASE \A s \in S : w \notin Listeners(s)
        <4>1. attached[w] # NoSid => attached[w] \in Sid
          BY DEF TypeOK
        <4> QED BY <1>3, <3>2, <4>1, OpenChannels DEF Streams, Fed
      <3> QED BY <3>1, <3>2
    <2>2. (\A w \in Ws : /\ OfSession(events[w], attached[w])
                         /\ attached[w] # NoSid /\ ~Fed(w, attached[w])
                              => ToldEnd(events[w]))'
      BY <2>1 DEF OfSession, ToldEnd, Fed
    <2> QED BY <2>2, OpenChannels, PTL
  <1>8. events' \in [Ws -> Seq(Event)]
    <2>1. \A w \in Ws : events'[w] \in Seq(Event)
      BY <1>2, <1>3 DEF TypeOK
    <2>2. events' = [w \in Ws |-> events'[w]]
      BY DEF NotifyEnded
    <2> QED BY <2>1, <2>2
  <1>9. subscribers' \in [Sid -> SUBSET Subscriber]
    BY DEF NotifyEnded, TypeOK
  <1>10. clientSessions' \in [Ws -> Sid \cup {NoSid}]
    BY <1>1 DEF NotifyEnded, TypeOK
  <1>11. silent' \subseteq Sid
    BY DEF NotifyEnded, TypeOK
  <1> QED BY <1>5, <1>6, <1>7, <1>8, <1>9, <1>10, <1>11 DEF Streams

-----------------------------------------------------------------------------
(* Type correctness *)

\* What the handlers leave of a session is a session.
LEMMA SessionOps ==
  ASSUME NEW ss \in Session
  PROVE  /\ TakenOver(ss) \in Session
         /\ AfterWsDetach(WsLeft(ss)) \subseteq Session
         /\ AfterDisconnect(ss) \subseteq Session
  <1> DEFINE left == WsLeft(ss)
  <1>1. \A x \in Session : x.prev # NoFd => Released(x) \subseteq Session
    <2> SUFFICES ASSUME NEW x \in Session, x.prev # NoFd PROVE Released(x) \subseteq Session
      OBVIOUS
    <2>1. x.prev \in Fd
      BY DEF Session
    <2>2. [Attach(x, x.prev) EXCEPT !.prev = NoFd, !.cooldown = TRUE] \in Session
      BY <2>1, ResumedOK
    <2>3. Detach([x EXCEPT !.prev = NoFd]) \in Session /\ Detach(x) \in Session
      BY NoPrevOK, DetachOK
    <2> QED BY <2>2, <2>3 DEF Released
  <1>2. left \in Session
    BY WsCountOK
  <1> HIDE DEF left
  <1>3. AfterWsDetach(left) \subseteq Session
    BY <1>1, <1>2, BatonDetachOK, DetachOK DEF AfterWsDetach
  <1>4. AfterDisconnect(ss) \subseteq Session
    BY <1>1, <1>2 DEF AfterDisconnect, left
  <1> QED BY <1>3, <1>4, BatonDetachOK DEF TakenOver, left

\* The part of the type that the event loop owns.
LoopTyped == /\ ids \subseteq used /\ used \subseteq Sid
             /\ session \in [Sid -> Session] /\ running \in BOOLEAN

\* The updates of the session table.
LEMMA TableOK ==
  ASSUME TypeOK
  PROVE  /\ \A s \in Sid, ss \in Session : Becomes(s, ss) => LoopTyped'
         /\ \A s \in Sid : Started(s) => LoopTyped'
         /\ \A S \in SUBSET Sid : Gone(S) => LoopTyped'
         /\ UNCHANGED daemonVars => LoopTyped'
  BY NewSessionOK DEF TypeOK, LoopTyped, Becomes, Started, Gone, daemonVars

\* Taking a command and answering it.
LEMMA CommandOK ==
  ASSUME TypeOK, NEW k, Handles(k)
  PROVE  /\ cmds' \in Seq(Command) /\ Head(cmds) \in Command
         /\ \A r \in Answers : Replies(r) => reply' \in [Ws -> Answers \cup {NoReply}]
  <1>1. Tail(cmds) \in Seq(Command) /\ Head(cmds) \in Command
    BY TailFacts DEF TypeOK, Handles
  <1>2. Head(cmds).client \in Ws
    BY <1>1 DEF Command
  <1> QED BY <1>1, <1>2 DEF Handles, Replies, TypeOK

\* Subscribing and unsubscribing.
LEMMA SharedOK ==
  ASSUME TypeOK, NEW w \in Ws, NEW s \in Sid
  PROVE  Unsubscribe(s, w) \/ Subscribe(s, w) =>
           /\ subscribers' \in [Sid -> SUBSET Subscriber]
           /\ clientSessions' \in [Ws -> Sid \cup {NoSid}]
           /\ silent' \subseteq Sid
  <1>1. [client |-> w, chan |-> rx[w] + 1] \in Subscriber
    BY DEF TypeOK, Subscriber
  <1>2. ASSUME Unsubscribe(s, w) PROVE subscribers' \in [Sid -> SUBSET Subscriber]
    <2>1. {x \in subscribers[s] : x.client # w} \in SUBSET Subscriber
      BY DEF TypeOK
    <2> QED BY <1>2, <2>1 DEF Unsubscribe, TypeOK
  <1>3. ASSUME Subscribe(s, w) PROVE subscribers' \in [Sid -> SUBSET Subscriber]
    <2>1. subscribers[s] \cup {[client |-> w, chan |-> rx[w] + 1]} \in SUBSET Subscriber
      BY <1>1 DEF TypeOK
    <2> QED BY <1>3, <2>1 DEF Subscribe, TypeOK
  <1>4. Unsubscribe(s, w) \/ Subscribe(s, w) => clientSessions' \in [Ws -> Sid \cup {NoSid}]
    BY DEF Unsubscribe, Subscribe, TypeOK
  <1>5. Unsubscribe(s, w) \/ Subscribe(s, w) => silent' \subseteq Sid
    BY DEF Unsubscribe, Subscribe, TypeOK
  <1> QED BY <1>2, <1>3, <1>4, <1>5

\* A task that unsubscribes and drops its receiver, or does neither.
LEMMA LeavingOK ==
  ASSUME TypeOK, Streams, NEW w \in Ws, rx' = rx,
         \/ attached[w] # NoSid /\ Unsubscribe(attached[w], w) /\ LeavesChannel(w)
         \/ UNCHANGED <<sharedVars, attached, events>>
  PROVE  /\ Streams'
         /\ subscribers' \in [Sid -> SUBSET Subscriber]
         /\ clientSessions' \in [Ws -> Sid \cup {NoSid}]
         /\ silent' \subseteq Sid
         /\ attached' \in [Ws -> Sid \cup {NoSid}]
         /\ events' \in [Ws -> Seq(Event)]
  <1>1. CASE attached[w] # NoSid /\ Unsubscribe(attached[w], w) /\ LeavesChannel(w)
    <2>1. attached[w] \in Sid
      BY <1>1 DEF TypeOK
    <2>2. Streams'
      BY <1>1, LeftChannel
    <2>3. attached' \in [Ws -> Sid \cup {NoSid}] /\ events' \in [Ws -> Seq(Event)]
      BY <1>1 DEF LeavesChannel, TypeOK
    <2> QED BY <1>1, <2>1, <2>2, <2>3, SharedOK
  <1>2. CASE UNCHANGED <<sharedVars, attached, events>>
    BY <1>2, StreamsUnchanged DEF sharedVars, TypeOK
  <1> QED BY <1>1, <1>2

-----------------------------------------------------------------------------
(* The steps *)

\* What a connection's task does between two of its awaits keeps the invariant.
LEMMA TaskStep ==
  ASSUME TypeOK, OneRequest, Streams, NEW w \in Ws, Task(w)
  PROVE  TypeOK' /\ OneRequest' /\ Streams'
  <1> DEFINE notice == [client |-> w, kind |-> "Disconnected", sid |-> NoSid]
  <1>0. notice \in Command /\ Append(cmds, notice) \in Seq(Command)
    BY AppendFacts DEF Command, TypeOK
  <1>1. ASSUME NEW r \in Request, Sends(w, r) PROVE TypeOK' /\ OneRequest' /\ Streams'
    <2> DEFINE e == [client |-> w, kind |-> r.kind, sid |-> r.sid]
    <2>1. e \in Command /\ e.client = w /\ e.kind = r.kind
      BY DEF Request, Command
    <2>2. Append(cmds, e) \in Seq(Command)
      BY <2>1, AppendFacts DEF TypeOK
    <2>3. reply[w] = NoReply /\ reply' = reply /\ reply' = [reply EXCEPT ![w] = NoReply]
      BY <1>1 DEF Sends, OneRequest, TypeOK
    <2>4. OneRequest'
      BY <1>1, <2>1, <2>3, SentCommand DEF Sends
    <2>5. r.kind = "Detach" => r.sid # NoSid
      BY WsAssumption DEF Request
    <2>6. /\ rx' = rx
          /\ \/ attached[w] # NoSid /\ Unsubscribe(attached[w], w) /\ LeavesChannel(w)
             \/ UNCHANGED <<sharedVars, attached, events>>
      BY <1>1, <2>5 DEF Sends
    <2>7. /\ request' \in [Ws -> Request]
          /\ at' \in [Ws -> {"new", "open", "await", "closed"}]
      BY <1>1 DEF Sends, TypeOK
    <2>8. /\ cmds' \in Seq(Command) /\ UNCHANGED <<ids, used, session, running, reply, rx>>
      BY <1>1, <2>2 DEF Sends, daemonVars
    <2>9. TypeOK'
      BY <2>6, <2>7, <2>8, LeavingOK DEF TypeOK
    <2> QED BY <2>4, <2>6, <2>9, LeavingOK
  <1>2. ASSUME Connect(w) PROVE TypeOK' /\ OneRequest' /\ Streams'
    <2>1. reply[w] = NoReply /\ reply' = [reply EXCEPT ![w] = NoReply]
      BY <1>2 DEF Connect, OneRequest, TypeOK
    <2>2. OneRequest'
      BY <1>2, <2>1, GoneOn DEF Connect
    <2>3. Streams'
      BY <1>2, StreamsUnchanged DEF Connect, sharedVars
    <2> QED BY <1>2, <2>2, <2>3 DEF Connect, TypeOK, daemonVars, sharedVars
  <1>3. ASSUME Leaves(w), reply' \in [Ws -> Answers \cup {NoReply}]
        PROVE  TypeOK' /\ Streams'
    <2>1. /\ rx' = rx
          /\ \/ attached[w] # NoSid /\ Unsubscribe(attached[w], w) /\ LeavesChannel(w)
             \/ UNCHANGED <<sharedVars, attached, events>>
      BY <1>3 DEF Leaves
    <2>2. /\ at' \in [Ws -> {"new", "open", "await", "closed"}] /\ cmds' \in Seq(Command)
          /\ UNCHANGED <<ids, used, session, running, request, rx>>
      BY <1>0, <1>3 DEF Leaves, TypeOK, daemonVars
    <2> QED BY <1>3, <2>1, <2>2, LeavingOK DEF TypeOK
  <1>4. ASSUME Leaves(w), at[w] # "await" \/ reply[w] # NoReply,
               reply' = [reply EXCEPT ![w] = NoReply]
        PROVE  OneRequest'
    <2>1. request' = [request EXCEPT ![w] = request[w]]
      BY <1>4 DEF Leaves, TypeOK
    <2>2. notice.client = w /\ notice.kind = "Disconnected" /\ cmds' = Append(cmds, notice)
          /\ at' = [at EXCEPT ![w] = "closed"]
      BY <1>4 DEF Leaves
    <2> HIDE DEF notice
    <2> QED BY <1>0, <1>4, <2>1, <2>2, SentCommand
  <1>5. ASSUME Closes(w) PROVE TypeOK' /\ OneRequest' /\ Streams'
    <2>1. reply[w] = NoReply /\ reply' = [reply EXCEPT ![w] = NoReply]
      BY <1>5 DEF Closes, OneRequest, TypeOK
    <2>2. reply' \in [Ws -> Answers \cup {NoReply}]
      BY <1>5 DEF Closes, TypeOK
    <2> QED BY <1>3, <1>4, <1>5, <2>1, <2>2 DEF Closes
  <1>6. ASSUME Answered(w), Taken(w)
        PROVE  /\ reply' \in [Ws -> Answers \cup {NoReply}]
               /\ reply' = [reply EXCEPT ![w] = NoReply] /\ reply[w] # NoReply
    BY <1>6 DEF Answered, Taken, TypeOK
  <1>7. ASSUME StartsStream(w) PROVE TypeOK' /\ OneRequest' /\ Streams'
    <2>1. request[w].kind = "Attach" /\ request[w] \in Request
      BY <1>7 DEF StartsStream, OneRequest, TypeOK
    <2>2. request[w].sid \in Sid
      BY <2>1 DEF Request
    <2>3. OneRequest'
      BY <1>6, <1>7, GoneOn DEF StartsStream
    <2>4. Streams'
      BY <1>7, <2>2, JoinedStream DEF StartsStream
    <2>5. /\ subscribers' \in [Sid -> SUBSET Subscriber]
          /\ clientSessions' \in [Ws -> Sid \cup {NoSid}]
          /\ silent' \subseteq Sid
      BY <1>7, <2>2, SharedOK DEF StartsStream
    <2>6. /\ attached' \in [Ws -> Sid \cup {NoSid}] /\ rx' \in [Ws -> Nat]
          /\ events' \in [Ws -> Seq(Event)]
          /\ at' \in [Ws -> {"new", "open", "await", "closed"}]
          /\ UNCHANGED <<ids, used, session, running, cmds, request>>
      BY <1>7, <2>2 DEF StartsStream, TypeOK, daemonVars
    <2>7. TypeOK'
      BY <1>6, <1>7, <2>5, <2>6 DEF StartsStream, TypeOK
    <2> QED BY <2>3, <2>4, <2>7
  <1>8. ASSUME GoesOn(w) PROVE TypeOK' /\ OneRequest' /\ Streams'
    <2>1. OneRequest'
      BY <1>6, <1>8, GoneOn DEF GoesOn
    <2>2. Streams'
      BY <1>8, StreamsUnchanged DEF GoesOn, sharedVars
    <2> QED BY <1>6, <1>8, <2>1, <2>2 DEF GoesOn, TypeOK, daemonVars, sharedVars
  <1>9. ASSUME EndsAfterShutdown(w) PROVE TypeOK' /\ OneRequest' /\ Streams'
    BY <1>3, <1>4, <1>6, <1>9 DEF EndsAfterShutdown
  <1>10. ASSUME ForwardsOutput(w) PROVE TypeOK' /\ OneRequest' /\ Streams'
    <2>1. OneRequest'
      BY <1>10, RequestsUnchanged DEF ForwardsOutput
    <2> QED BY <1>10, <2>1, ForwardedOutput DEF ForwardsOutput, TypeOK, daemonVars, sharedVars
  <1>11. ASSUME ForwardsEnd(w) PROVE TypeOK' /\ OneRequest' /\ Streams'
    <2>1. OneRequest'
      BY <1>11, RequestsUnchanged DEF ForwardsEnd
    <2> QED BY <1>11, <2>1, LeavingOK DEF ForwardsEnd, Receives, TypeOK, daemonVars
  <1> QED BY <1>1, <1>2, <1>5, <1>7, <1>8, <1>9, <1>10, <1>11 DEF Task

\* So does what the event loop does with a command.
LEMMA CommandStep ==
  ASSUME TypeOK, OneRequest, Streams, HandleCommand
  PROVE  TypeOK' /\ OneRequest' /\ Streams'
  <1> USE DEF sharedVars, taskVars
  <1>0. "Other" \in Answers /\ "AttachReady" \in Answers /\ ids \subseteq Sid
    BY DEF Answers, TypeOK
  <1>1. ASSUME NEW k, Handles(k), k # "Disconnected", NEW r \in Answers, Replies(r),
               r = "AttachReady" => k = "Attach",
               LoopTyped', UNCHANGED <<sharedVars, taskVars>>
        PROVE  TypeOK' /\ OneRequest' /\ Streams'
    <2>1. OneRequest'
      BY <1>1, HandledRequest
    <2>2. Streams'
      BY <1>1, StreamsUnchanged
    <2> QED BY <1>1, <2>1, <2>2, CommandOK DEF TypeOK, LoopTyped
  <1>2. ASSUME HandleAttach PROVE TypeOK' /\ OneRequest' /\ Streams'
    <2> DEFINE s == Head(cmds).sid
    <2>1. s \in ids => session[s] \in Session
      BY <1>0 DEF TypeOK
    <2>2. s \in ids => /\ WsJoined(TakenOver(session[s])) \in Session
                       /\ TakenOver(session[s]) \in Session
      BY <2>1, SessionOps, WsCountOK
    <2>3. LoopTyped'
      BY <1>0, <1>2, <2>2, TableOK DEF HandleAttach
    <2>4. PICK r \in Answers : Replies(r)
      BY <1>0, <1>2 DEF HandleAttach
    <2> QED BY <1>1, <1>2, <2>3, <2>4 DEF HandleAttach
  <1>3. ASSUME HandleDetach PROVE TypeOK' /\ OneRequest' /\ Streams'
    <2> DEFINE s == Head(cmds).sid
    <2>1. s \in ids => AfterWsDetach(WsLeft(session[s])) \subseteq Session
      BY <1>0, SessionOps DEF TypeOK
    <2>2. LoopTyped'
      BY <1>0, <1>3, <2>1, TableOK DEF HandleDetach
    <2> QED BY <1>0, <1>1, <1>3, <2>2 DEF HandleDetach
  <1>4. ASSUME HandleDisconnected PROVE TypeOK' /\ OneRequest' /\ Streams'
    <2> DEFINE s == clientSessions[Head(cmds).client]
    <2>1. s \in ids => AfterDisconnect(session[s]) \subseteq Session
      BY <1>0, SessionOps DEF TypeOK
    <2>2. LoopTyped'
      BY <1>0, <1>4, <2>1, TableOK DEF HandleDisconnected
    <2>3. OneRequest'
      BY <1>4, HandledNotice DEF HandleDisconnected, Handles
    <2>4. Streams'
      BY <1>4, StreamsUnchanged DEF HandleDisconnected
    <2>5. cmds' \in Seq(Command)
      BY <1>4, CommandOK DEF HandleDisconnected
    <2> QED BY <1>4, <2>2, <2>3, <2>4, <2>5 DEF HandleDisconnected, TypeOK, LoopTyped
  <1>5. ASSUME HandleCreate PROVE TypeOK' /\ OneRequest' /\ Streams'
    <2>1. LoopTyped'
      BY <1>5, TableOK DEF HandleCreate
    <2> QED BY <1>0, <1>1, <1>5, <2>1 DEF HandleCreate
  <1>6. ASSUME HandleKill PROVE TypeOK' /\ OneRequest' /\ Streams'
    <2> DEFINE S == {Head(cmds).sid} \cap ids
    <2>1. S \in SUBSET Sid
      BY <1>0
    <2>2. Gone(S) /\ NotifyEnded(S) /\ Handles("Kill") /\ Replies("Other")
          /\ UNCHANGED <<at, request, attached, rx>>
      BY <1>6 DEF HandleKill, Ended
    <2> HIDE DEF S
    <2>3. LoopTyped'
      BY <2>1, <2>2, TableOK
    <2>4. OneRequest'
      BY <1>0, <2>2, HandledRequest
    <2>5. /\ Streams'
          /\ events' \in [Ws -> Seq(Event)]
          /\ subscribers' \in [Sid -> SUBSET Subscriber]
          /\ clientSessions' \in [Ws -> Sid \cup {NoSid}]
          /\ silent' \subseteq Sid
      BY <2>1, <2>2, NotifiedEnd
    <2>6. cmds' \in Seq(Command) /\ reply' \in [Ws -> Answers \cup {NoReply}]
      BY <1>0, <2>2, CommandOK
    <2> QED BY <2>2, <2>3, <2>4, <2>5, <2>6 DEF TypeOK, LoopTyped
  <1>7. ASSUME HandleQuery PROVE TypeOK' /\ OneRequest' /\ Streams'
    <2>1. LoopTyped'
      BY <1>7, TableOK DEF HandleQuery
    <2> QED BY <1>0, <1>1, <1>7, <2>1 DEF HandleQuery
  <1>8. ASSUME HandleShutdown PROVE TypeOK' /\ OneRequest' /\ Streams'
    <2>1. LoopTyped'
      BY <1>8 DEF HandleShutdown, LoopTyped, TypeOK
    <2> QED BY <1>0, <1>1, <1>8, <2>1 DEF HandleShutdown
  <1> QED BY <1>2, <1>3, <1>4, <1>5, <1>6, <1>7, <1>8 DEF HandleCommand

\* And everything else the event loop does.
LEMMA LoopStep ==
  ASSUME TypeOK, OneRequest, Streams, Loop
  PROVE  TypeOK' /\ OneRequest' /\ Streams'
  <1> USE DEF sharedVars, taskVars
  <1>0. ids \subseteq Sid
    BY DEF TypeOK
  <1>1. ASSUME LoopTyped', NoTask, UNCHANGED <<subscribers, clientSessions, events>>,
               silent' \subseteq Sid \/ silent' = silent
        PROVE  TypeOK' /\ OneRequest' /\ Streams'
    BY <1>1, RequestsUnchanged, StreamsUnchanged DEF NoTask, TypeOK, LoopTyped
  <1>2. ASSUME LoopTyped', NoTask, NEW S \in SUBSET Sid, NotifyEnded(S)
        PROVE  TypeOK' /\ OneRequest' /\ Streams'
    <2>1. OneRequest'
      BY <1>2, RequestsUnchanged DEF NoTask
    <2>2. /\ Streams'
          /\ events' \in [Ws -> Seq(Event)]
          /\ subscribers' \in [Sid -> SUBSET Subscriber]
          /\ clientSessions' \in [Ws -> Sid \cup {NoSid}]
          /\ silent' \subseteq Sid
      BY <1>2, NotifiedEnd DEF NoTask
    <2> QED BY <1>2, <2>1, <2>2 DEF NoTask, TypeOK, LoopTyped
  <1>3. ASSUME Cleanup PROVE TypeOK' /\ OneRequest' /\ Streams'
    <2>1. LoopTyped'
      BY <1>3, NewSessionOK DEF Cleanup, LoopTyped, TypeOK
    <2> QED BY <1>2, <1>3, <2>1 DEF Cleanup
  <1>4. ASSUME Terminated PROVE TypeOK' /\ OneRequest' /\ Streams'
    <2>1. NoTask /\ UNCHANGED <<daemonVars, sharedVars, events>>
      BY <1>4 DEF Terminated, vars, NoTask
    <2> QED BY <1>1, <2>1, TableOK
  <1>5. ASSUME NEW s \in Sid, SessionStarts(s) PROVE TypeOK' /\ OneRequest' /\ Streams'
    BY <1>1, <1>5, TableOK DEF SessionStarts
  <1>6. ASSUME NEW s \in Sid, NEW c \in Fd, UnixAttach(c, s)
        PROVE  TypeOK' /\ OneRequest' /\ Streams'
    <2>1. Attach(session[s], c) \in Session
      BY AttachOK DEF TypeOK
    <2> QED BY <1>1, <1>6, <2>1, TableOK DEF UnixAttach
  <1>7. ASSUME NEW s \in Sid, UnixDetach(s) PROVE TypeOK' /\ OneRequest' /\ Streams'
    <2>1. Detach(session[s]) \in Session
      BY DetachOK DEF TypeOK
    <2> QED BY <1>1, <1>7, <2>1, TableOK DEF UnixDetach
  <1>8. ASSUME NEW c \in Fd, UnixGone(c) PROVE TypeOK' /\ OneRequest' /\ Streams'
    <2>1. session' \in [Sid -> Session]
      BY <1>8, WithoutClientOK DEF UnixGone, TypeOK
    <2>2. LoopTyped'
      BY <1>8, <2>1 DEF UnixGone, LoopTyped, TypeOK
    <2> QED BY <1>1, <1>8, <2>2 DEF UnixGone
  <1>9. ASSUME NEW s \in Sid, Output(s) PROVE TypeOK' /\ OneRequest' /\ Streams'
    <2>1. OneRequest'
      BY <1>9, RequestsUnchanged DEF Output, NoTask
    <2>2. Streams' /\ events' \in [Ws -> Seq(Event)]
      BY <1>9, SentOutput DEF Output, NoTask
    <2> QED BY <1>9, <2>1, <2>2 DEF Output, NoTask, TypeOK, daemonVars
  <1>10. ASSUME NEW s \in Sid, EndsAtEof(s) PROVE TypeOK' /\ OneRequest' /\ Streams'
    <2>1. silent' \subseteq Sid
      BY <1>10 DEF EndsAtEof, TypeOK
    <2> QED BY <1>1, <1>10, <2>1, TableOK, {s} \in SUBSET Sid DEF EndsAtEof
  <1>11. ASSUME NEW s \in Sid, SessionEnds(s) PROVE TypeOK' /\ OneRequest' /\ Streams'
    BY <1>2, <1>11, TableOK, {s} \in SUBSET Sid DEF SessionEnds, Ended
  <1>12. ASSUME NEW s \in Sid, CooldownEnds(s) PROVE TypeOK' /\ OneRequest' /\ Streams'
    <2>1. [session[s] EXCEPT !.cooldown = FALSE] \in Session
      BY DEF TypeOK, Session
    <2> QED BY <1>1, <1>12, <2>1, TableOK DEF CooldownEnds
  <1> QED BY <1>3, <1>4, <1>5, <1>6, <1>7, <1>8, <1>9, <1>10, <1>11, <1>12, CommandStep DEF Loop

-----------------------------------------------------------------------------
(* Live *)

\* Nobody starts to listen, and no session that is listened to goes, unless
\* silently.
LEMMA LiveKept ==
  ASSUME Live, rx' = rx, \A s \in Sid : subscribers'[s] \subseteq subscribers[s],
         \A s \in Sid : s \in ids \cup silent => s \in ids' \cup silent' \/ subscribers'[s] = {}
  PROVE  Live'
  <1> SUFFICES ASSUME NEW s \in Sid, NEW w \in Ws,
                      [client |-> w, chan |-> rx[w]] \in subscribers'[s]
               PROVE  s \in ids' \cup silent'
    BY DEF Live, Listeners
  <1>1. Listeners(s) # {}
    BY DEF Listeners
  <1> QED BY <1>1 DEF Live

\* A session that ends with a notification has no listener left.
LEMMA LiveNotified ==
  ASSUME Live, NEW S \in SUBSET Sid, NotifyEnded(S), rx' = rx, ids \ S \subseteq ids'
  PROVE  Live'
  <1>1. /\ \A s \in Sid : subscribers'[s] = IF s \in S THEN {} ELSE subscribers[s]
        /\ silent' = silent
    BY DEF NotifyEnded
  <1> QED BY <1>1, LiveKept

\* A task that subscribes listens to that session only, and it is marked if it is
\* gone.
LEMMA LiveJoined ==
  ASSUME TypeOK, Channels, Live, NEW w \in Ws, NEW s0 \in Sid, Subscribe(s0, w),
         rx' = [rx EXCEPT ![w] = @ + 1], ids' = ids
  PROVE  Live'
  <1> DEFINE new == [client |-> w, chan |-> rx[w] + 1]
  <1>1. rx[w] \in Nat /\ rx'[w] = rx[w] + 1 /\ \A v \in Ws : v # w => rx'[v] = rx[v]
    BY DEF TypeOK
  <1>2. /\ subscribers'[s0] = subscribers[s0] \cup {new}
        /\ \A s \in Sid : s # s0 => subscribers'[s] = subscribers[s]
        /\ silent' = silent \cup ({s0} \ ids)
    BY DEF TypeOK, Subscribe
  <1>3. \A s \in Sid : new \notin subscribers[s]
    <2> SUFFICES ASSUME NEW s \in Sid, new \in subscribers[s] PROVE FALSE
      OBVIOUS
    <2>1. new.client = w /\ new.chan = rx[w] + 1
      OBVIOUS
    <2>2. new.chan <= rx[new.client]
      BY DEF Channels
    <2> QED BY <1>1, <2>1, <2>2
  <1> SUFFICES ASSUME NEW s \in Sid, NEW v \in Ws,
                      [client |-> v, chan |-> rx'[v]] \in subscribers'[s]
               PROVE  s \in ids \cup silent'
    BY DEF Live, Listeners
  <1>4. CASE s = s0
    BY <1>2, <1>4
  <1>5. CASE s # s0
    <2>1. [client |-> v, chan |-> rx'[v]] \in subscribers[s]
      BY <1>2, <1>5
    <2>2. v # w
      BY <1>1, <1>3, <2>1
    <2>3. v \in Listeners(s)
      BY <1>1, <2>1, <2>2 DEF Listeners
    <2> QED BY <1>2, <2>3 DEF Live
  <1> QED BY <1>4, <1>5

\* Every step keeps Live: subscriptions are added in StartsStream alone, and a
\* session goes with a notification or, at the end of file, silently.
LEMMA LiveStep ==
  ASSUME TypeOK, OneRequest, Channels, Live, Next
  PROVE  Live'
  <1>same. ASSUME UNCHANGED <<subscribers, rx>>, ids \cup silent \subseteq ids' \cup silent'
           PROVE  Live'
    BY <1>same, LiveKept
  <1>left. ASSUME NEW w \in Ws, NEW s \in Sid, Unsubscribe(s, w), rx' = rx, ids' = ids
           PROVE  Live'
    <2>1. /\ \A x \in Sid : subscribers'[x] \subseteq subscribers[x]
          /\ silent' = silent
      BY <1>left DEF Unsubscribe, TypeOK
    <2> QED BY <1>left, <2>1, LiveKept
  <1>1. ASSUME NEW w \in Ws, Task(w) PROVE Live'
    <2>1. CASE \E r \in Request : Sends(w, r)
      <3>1. PICK r \in Request : Sends(w, r)
        BY <2>1
      <3>2. r.kind = "Detach" => r.sid \in Sid
        BY DEF Request
      <3>3. CASE r.kind = "Detach" /\ attached[w] = r.sid
        BY <1>left, <3>1, <3>2, <3>3 DEF Sends, daemonVars
      <3>4. CASE ~(r.kind = "Detach" /\ attached[w] = r.sid)
        BY <1>same, <3>1, <3>4 DEF Sends, daemonVars, sharedVars
      <3> QED BY <3>3, <3>4
    <2>2. ASSUME Leaves(w) PROVE Live'
      <3>1. CASE attached[w] # NoSid
        <4>1. attached[w] \in Sid
          BY <3>1 DEF TypeOK
        <4> QED BY <1>left, <2>2, <3>1, <4>1 DEF Leaves, daemonVars
      <3>2. CASE attached[w] = NoSid
        BY <1>same, <2>2, <3>2 DEF Leaves, daemonVars, sharedVars
      <3> QED BY <3>1, <3>2
    <2>3. CASE StartsStream(w)
      <3>1. request[w].kind = "Attach" /\ request[w] \in Request
        BY <2>3 DEF StartsStream, OneRequest, TypeOK
      <3>2. request[w].sid \in Sid
        BY <3>1 DEF Request
      <3> QED BY <2>3, <3>2, LiveJoined DEF StartsStream, daemonVars
    <2>4. CASE ForwardsEnd(w)
      <3>1. attached[w] \in Sid
        BY <2>4 DEF ForwardsEnd, Receives, TypeOK
      <3> QED BY <1>left, <2>4, <3>1 DEF ForwardsEnd, daemonVars
    <2>5. CASE Connect(w) \/ GoesOn(w) \/ ForwardsOutput(w)
      BY <1>same, <2>5 DEF Connect, GoesOn, ForwardsOutput, daemonVars, sharedVars
    <2> QED BY <1>1, <2>1, <2>2, <2>3, <2>4, <2>5 DEF Task, Closes, EndsAfterShutdown
  <1>2. CASE HandleKill
    <2>1. /\ NotifyEnded({Head(cmds).sid} \cap ids) /\ rx' = rx
          /\ ids' = ids \ ({Head(cmds).sid} \cap ids)
      BY <1>2 DEF HandleKill, Ended, Gone
    <2>2. {Head(cmds).sid} \cap ids \in SUBSET Sid
      BY DEF TypeOK
    <2> QED BY <2>1, <2>2, LiveNotified
  <1>3. CASE HandleCommand /\ ~HandleKill
    <2>1. UNCHANGED <<subscribers, silent, rx>>
      BY <1>3 DEF HandleCommand, HandleAttach, HandleDetach, HandleDisconnected,
                  HandleCreate, HandleQuery, HandleShutdown, sharedVars, taskVars
    <2>2. ids \subseteq ids'
      BY <1>3 DEF HandleCommand, HandleAttach, HandleDetach, HandleDisconnected,
                  HandleCreate, HandleQuery, HandleShutdown, Becomes, Started, daemonVars
    <2> QED BY <1>same, <2>1, <2>2
  <1>4. CASE Cleanup
    <2>1. ids \ Sid = {}
      BY DEF TypeOK
    <2> QED BY <1>4, <2>1, LiveNotified DEF Cleanup, NoTask
  <1>5. CASE Terminated
    BY <1>same, <1>5 DEF Terminated, vars, daemonVars, sharedVars, taskVars
  <1>6. ASSUME NEW s \in Sid, SessionEnds(s) PROVE Live'
    BY <1>6, LiveNotified, {s} \in SUBSET Sid DEF SessionEnds, Ended, Gone, NoTask
  <1>7. ASSUME NEW s \in Sid, EndsAtEof(s) PROVE Live'
    BY <1>7, <1>same DEF EndsAtEof, Gone, NoTask
  <1>8. ASSUME NEW s \in Sid, SessionStarts(s) \/ UnixDetach(s) \/ Output(s) \/ CooldownEnds(s)
        PROVE  Live'
    BY <1>8, <1>same DEF SessionStarts, UnixDetach, Output, CooldownEnds, Started, Becomes,
                         NoTask, daemonVars, sharedVars
  <1>9. ASSUME NEW c \in Fd, NEW s \in Sid, UnixAttach(c, s) PROVE Live'
    BY <1>9, <1>same DEF UnixAttach, Becomes, NoTask, sharedVars
  <1>10. ASSUME NEW c \in Fd, UnixGone(c) PROVE Live'
    BY <1>10, <1>same DEF UnixGone, NoTask, sharedVars
  <1> QED BY <1>1, <1>2, <1>3, <1>4, <1>5, <1>6, <1>7, <1>8, <1>9, <1>10 DEF Next, Loop

-----------------------------------------------------------------------------
(* The theorems *)

\* In every reachable state the types are right, each request is in one place,
\* and the subscriptions agree with the tasks.
THEOREM Invariance == Spec => []IInv
  <1>1. Init => IInv
    <2> SUFFICES ASSUME Init PROVE IInv
      OBVIOUS
    <2>1. TypeOK
      <3>1. [kind |-> "Query", sid |-> NoSid] \in Request
        BY DEF Request
      <3> QED BY <3>1, NewSessionOK DEF Init, TypeOK, Answers, NoReply, Subscriber
    <2>2. OneRequest
      BY DEF Init, OneRequest, NoReply
    <2>3. Channels /\ SharedMatchesTasks /\ Subscribed /\ Live
      BY DEF Init, Channels, SharedMatchesTasks, Subscribed, Live, Listeners
    <2> QED BY <2>1, <2>2, <2>3 DEF IInv
  <1>2. IInv /\ [Next]_vars => IInv'
    <2> SUFFICES ASSUME IInv, [Next]_vars PROVE IInv'
      OBVIOUS
    <2>1. TypeOK /\ OneRequest /\ Streams /\ Channels /\ Live
      BY DEF IInv, Streams
    <2>2. CASE Next
      <3>1. TypeOK' /\ OneRequest' /\ Streams'
        BY <2>1, <2>2, LoopStep, TaskStep DEF Next
      <3>2. Live'
        BY <2>1, <2>2, LiveStep
      <3> QED BY <3>1, <3>2 DEF IInv, Streams
    <2>3. CASE UNCHANGED vars
      <3>1. OneRequest' /\ Streams'
        BY <2>1, <2>3, RequestsUnchanged, StreamsUnchanged DEF vars, sharedVars, taskVars
      <3>2. TypeOK'
        BY <2>1, <2>3 DEF TypeOK, vars, daemonVars, sharedVars, taskVars
      <3>3. Live'
        BY <2>1, <2>3 DEF Live, Listeners, vars, daemonVars, sharedVars, taskVars
      <3> QED BY <3>1, <3>2, <3>3 DEF IInv, Streams
    <2> QED BY <2>2, <2>3
  <1> QED BY <1>1, <1>2, PTL DEF Spec

\* Type correctness of the WebSocket side; an AttachReady always finds the Attach
\* it answers, so a task never subscribes to something that is not a session.
THEOREM TypeCorrect == Spec => []TypeOK
  BY Invariance, PTL DEF IInv

\* client_sessions agrees with the tasks, and a channel nobody receives from is
\* not the latest one of its client (SharedMatchesTasks).
THEOREM SharedMatchesTasksHolds == Spec => []SharedMatchesTasks
  BY Invariance, PTL DEF IInv

\* A streaming task is subscribed to a session that lives or has ended in one of
\* the two silent ways, or finds the end of its session as the last event in its
\* channel; no event of another session is in it (StreamOpen).
THEOREM StreamOpenHolds == Spec => []StreamOpen
  <1>1. IInv => StreamOpen
    <2> SUFFICES ASSUME IInv, NEW w \in Ws, attached[w] # NoSid, w \in Listeners(attached[w])
                 PROVE  attached[w] \in ids \cup silent
      BY DEF IInv, Subscribed, StreamOpen
    <2>1. attached[w] \in Sid
      BY DEF IInv, TypeOK
    <2> QED BY <2>1 DEF IInv, Live
  <1> QED BY <1>1, Invariance, PTL

\* At most one request of a client is under way, and the oneshot answers it
\* (OneRequest).
THEOREM OneRequestHolds == Spec => []OneRequest
  BY Invariance, PTL DEF IInv
=============================================================================
