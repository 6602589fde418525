--------------------------- MODULE PtyClientProofs ---------------------------
(***************************************************************************)
(* What PtyServer does for its clients, for every number of them: an       *)
(* attached session is served, the event loop never blocks for good on a   *)
(* response, and a request is lost in two places only.                     *)
(***************************************************************************)
EXTENDS PtyServerProofs

-----------------------------------------------------------------------------
(* The inductive invariants *)

\* The loop remembers a session only while it waits for its owner.
WaitsForOne == pc.at # "await" => pc.sid = NoSid

\* A connection is open at the far end only while the daemon has it, and leaves
\* nothing behind: the next client with its number starts with empty buffers.
Sockets == /\ open \subseteq clients
           /\ \A c \in Fd \ clients :
                readBuf[c] = <<>> /\ toDaemon[c] = <<>> /\ toClient[c] = <<>>

\* A client the daemon never pushed anything to has one frame under way at most,
\* its request or the response, and none unless it waits.
OneAtATime ==
  \A c \in open \ timed :
    /\ Len(readBuf[c]) + (Len(toDaemon[c]) + Len(toClient[c]))
         <= IF waiting[c] THEN 1 ELSE 0
    /\ \A i \in 1 .. Len(toClient[c]) : toClient[c][i].kind \in Response

ClientInv == WaitsForOne /\ AttachedIsServed /\ Sockets /\ OneAtATime

-----------------------------------------------------------------------------
(* The descriptors on their way to a client *)

Gives   == {"AttachReady", "ResumeAttach", "StrayFd"}
Revokes == {"ForceDetach", "Detached"}

\* GivenTo, of the descriptors h that came to the client and the frames q on their
\* way.
Revoked(q, s, i) == \E j \in i .. Len(q) : q[j].kind \in Revokes /\ q[j].sid = s
Given(h, q, s) ==
  \/ s \in h /\ ~Revoked(q, s, 1)
  \/ \E i \in 1 .. Len(q) : q[i].kind \in Gives /\ q[i].sid = s /\ ~Revoked(q, s, i + 1)

\* The same of a client's own state, now and after the step.
GivenNow(c, s)  == Given(holds[c] \cup missed[c], toClient[c], s)
GivenNext(c, s) == Given(holds'[c] \cup missed'[c], toClient'[c], s)

\* GivenTo is Given of the client's own state.
LEMMA GivenToIs == \A c, s : GivenTo(c, s) <=> GivenNow(c, s)
  BY DEF GivenTo, GivenNow, Given, Revoked, Gives, Revokes

\* A frame about another session, or one that neither gives nor revokes, changes
\* nothing.
LEMMA AppendOther ==
  ASSUME NEW q \in Seq(Message), NEW m \in Message, NEW h, NEW s,
         m.sid # s \/ m.kind \notin Gives \cup Revokes, Given(h, q, s)
  PROVE  Given(h, Append(q, m), s)
  <1> DEFINE n == Len(q)
             r == Append(q, m)
  <1>1. n \in Nat /\ Len(r) = n + 1 /\ r[n + 1] = m /\ \A i \in 1 .. n : r[i] = q[i]
    OBVIOUS
  <1> HIDE DEF n, r
  <1>2. \A i \in Nat \ {0} : Revoked(r, s, i) => Revoked(q, s, i)
    <2> SUFFICES ASSUME NEW i \in Nat \ {0}, NEW j \in i .. n + 1,
                        r[j].kind \in Revokes, r[j].sid = s
                 PROVE  Revoked(q, s, i)
      BY <1>1 DEF Revoked
    <2>1. j # n + 1
      BY <1>1
    <2>2. j \in i .. n /\ j \in 1 .. n
      BY <1>1, <2>1
    <2> QED BY <1>1, <2>2 DEF Revoked, n
  <1>3. CASE s \in h /\ ~Revoked(q, s, 1)
    BY <1>2, <1>3 DEF Given, r
  <1>4. ASSUME NEW i \in 1 .. n, q[i].kind \in Gives, q[i].sid = s, ~Revoked(q, s, i + 1)
        PROVE  Given(h, r, s)
    <2>1. i \in 1 .. Len(r) /\ r[i] = q[i] /\ i + 1 \in Nat \ {0}
      BY <1>1
    <2> QED BY <1>2, <1>4, <2>1 DEF Given
  <1> QED BY <1>3, <1>4 DEF Given, n, r

\* A frame that gives the descriptor, last in the socket, gives it.
LEMMA AppendGives ==
  ASSUME NEW q \in Seq(Message), NEW m \in Message, NEW h, NEW s,
         m.sid = s, m.kind \in Gives
  PROVE  Given(h, Append(q, m), s)
  <1> DEFINE n == Len(q)
             r == Append(q, m)
  <1>1. n \in Nat /\ Len(r) = n + 1 /\ r[n + 1] = m
    OBVIOUS
  <1> HIDE DEF n, r
  <1>2. ~Revoked(r, s, n + 2)
    BY <1>1 DEF Revoked
  <1>3. (n + 1) + 1 = n + 2 /\ n + 1 \in 1 .. Len(r)
    BY <1>1
  <1> QED BY <1>1, <1>2, <1>3 DEF Given, r

\* A client that takes a frame in, and does with its descriptors what the frame
\* says, still has what it was given.
LEMMA TakesIn ==
  ASSUME NEW q \in Seq(Message), q # <<>>, NEW h, NEW h2, NEW s, Given(h, q, s),
         Head(q).sid = s /\ Head(q).kind \in Gives => s \in h2,
         s \in h => s \in h2 \/ (Head(q).sid = s /\ Head(q).kind \in Revokes)
  PROVE  Given(h2, Tail(q), s)
  <1> DEFINE n == Len(q)
             t == Tail(q)
  <1>1. /\ n \in Nat \ {0} /\ Len(t) = n - 1 /\ Head(q) = q[1]
        /\ \A i \in 1 .. n - 1 : t[i] = q[i + 1]
    OBVIOUS
  <1> HIDE DEF n, t
  <1>2. \A i \in 1 .. n : Revoked(t, s, i) => Revoked(q, s, i + 1)
    <2> SUFFICES ASSUME NEW i \in 1 .. n, NEW j \in i .. n - 1,
                        t[j].kind \in Revokes, t[j].sid = s
                 PROVE  Revoked(q, s, i + 1)
      BY <1>1 DEF Revoked
    <2>1. j + 1 \in i + 1 .. Len(q) /\ t[j] = q[j + 1]
      BY <1>1 DEF n
    <2> QED BY <2>1 DEF Revoked
  <1>3. \A i \in 1 .. n : ~Revoked(q, s, i) => ~Revoked(q, s, i + 1) /\ ~(q[i].kind \in Revokes /\ q[i].sid = s)
    <2> SUFFICES ASSUME NEW i \in 1 .. n, ~Revoked(q, s, i)
                 PROVE  ~Revoked(q, s, i + 1) /\ ~(q[i].kind \in Revokes /\ q[i].sid = s)
      OBVIOUS
    <2>1. i \in i .. Len(q) /\ \A j \in i + 1 .. Len(q) : j \in i .. Len(q)
      BY <1>1 DEF n
    <2> QED BY <2>1 DEF Revoked
  <1>4. 1 \in 1 .. n
    BY <1>1
  <1>5. CASE s \in h /\ ~Revoked(q, s, 1)
    BY <1>1, <1>2, <1>3, <1>4, <1>5 DEF Given, t
  <1>6. ASSUME NEW i \in 1 .. n, q[i].kind \in Gives, q[i].sid = s, ~Revoked(q, s, i + 1)
        PROVE  Given(h2, t, s)
    <2>1. CASE i = 1
      BY <1>1, <1>2, <1>4, <1>6, <2>1 DEF Given
    <2>2. CASE i # 1
      <3>1. i - 1 \in 1 .. Len(t) /\ t[i - 1] = q[i] /\ (i - 1) + 1 = i /\ i \in 1 .. n
        BY <1>1, <2>2
      <3> QED BY <1>2, <1>6, <3>1 DEF Given
    <2> QED BY <2>1, <2>2
  <1> QED BY <1>5, <1>6 DEF Given, n, t

-----------------------------------------------------------------------------
(* AttachedIsServed *)

\* What a step leaves alone of session x, and of what client c was given of it.
SameOwner(x) == /\ x \in ids
                /\ session'[x].owner = session[x].owner
                /\ pc'.sid # x => pc.sid # x
KeepsGiven(c, x) == c \in open' =>
  /\ c \in open
  /\ GivenNow(c, x) => GivenNext(c, x)

\* A step may end an attachment, keep it with what its owner was given, or make
\* one whose owner is given the descriptor.
LEMMA ServedStep ==
  ASSUME IInv', AttachedIsServed,
         \A x \in ids' :
            \/ session'[x].owner = NoFd
            \/ SameOwner(x) /\ KeepsGiven(session[x].owner, x)
            \/ GivenNext(session'[x].owner, x)
  PROVE  AttachedIsServed'
  <1> SUFFICES ASSUME NEW x \in ids', session'[x].owner \in open', pc'.sid # x
               PROVE  GivenNext(session'[x].owner, x)
    BY DEF AttachedIsServed, GivenTo, GivenNext, Given, Revoked, Gives, Revokes
  <1>1. session'[x].owner # NoFd
    BY FdAssumption DEF IInv, TypeOK
  <1>2. CASE SameOwner(x) /\ KeepsGiven(session[x].owner, x)
    <2>1. GivenTo(session[x].owner, x)
      BY <1>2 DEF SameOwner, KeepsGiven, AttachedIsServed
    <2> QED BY <1>2, <2>1, GivenToIs DEF SameOwner, KeepsGiven
  <1> QED BY <1>1, <1>2

\* A step that leaves the sockets towards the clients alone takes nothing away.
LEMMA KeepsUnsent ==
  ASSUME UNCHANGED <<holds, missed, toClient>>, open' \subseteq open, NEW c, NEW x
  PROVE  KeepsGiven(c, x)
  BY DEF KeepsGiven, GivenNow, GivenNext

\* Neither does a write about another session, or a neutral one.
LEMMA KeepsWritten ==
  ASSUME TypeOK, NEW d \in Fd, NEW m \in Message, toClient' = Written(d, m),
         UNCHANGED <<holds, missed, open>>, NEW c, NEW x,
         m.sid # x \/ m.kind \notin Gives \cup Revokes
  PROVE  KeepsGiven(c, x)
  <1> DEFINE h == holds[c] \cup missed[c]
  <1> SUFFICES ASSUME c \in open, Given(h, toClient[c], x)
               PROVE  Given(h, toClient'[c], x)
    BY DEF KeepsGiven, GivenNow, GivenNext
  <1> HIDE DEF h
  <1>1. c \in Fd /\ toClient[c] \in Seq(Message)
    BY DEF TypeOK
  <1>2. toClient'[c] = toClient[c] \/ toClient'[c] = Append(toClient[c], m)
    BY <1>1 DEF Written, TypeOK
  <1> QED BY <1>1, <1>2, AppendOther

\* A write that gives x's descriptor, with room for it.
LEMMA WrittenGives ==
  ASSUME TypeOK, NEW d \in Fd, NEW m \in Message, toClient' = Written(d, m),
         CanWrite(d), m.kind \in Gives
  PROVE  GivenNext(d, m.sid)
  <1>1. toClient[d] \in Seq(Message) /\ toClient'[d] = Append(toClient[d], m)
    BY DEF TypeOK, Written
  <1> QED BY <1>1, AppendGives DEF GivenNext

\* A client that takes in the first frame of its socket.
LEMMA KeepsReceived ==
  ASSUME TypeOK, NEW d \in Fd, NEW k, Receives(d, k), open' = open,
         \A e \in Fd \ {d} : holds'[e] = holds[e] /\ missed'[e] = missed[e],
         NEW c, NEW x,
         Incoming(d) = x /\ k \in Gives => x \in holds'[d] \cup missed'[d],
         x \in holds[d] \cup missed[d] =>
           x \in holds'[d] \cup missed'[d] \/ (Incoming(d) = x /\ k \in Revokes)
  PROVE  KeepsGiven(c, x)
  <1> SUFFICES ASSUME c \in open, Given(holds[c] \cup missed[c], toClient[c], x)
               PROVE  Given(holds'[c] \cup missed'[c], toClient'[c], x)
    BY DEF KeepsGiven, GivenNow, GivenNext
  <1>1. c \in Fd /\ toClient[c] \in Seq(Message)
    BY DEF TypeOK
  <1>2. CASE c = d
    <2>1. /\ toClient[d] # <<>> /\ Head(toClient[d]).kind = k
          /\ toClient'[d] = Tail(toClient[d])
      BY DEF Receives, TypeOK
    <2> DEFINE h == holds[d] \cup missed[d]
               g == holds'[d] \cup missed'[d]
    <2>2. /\ Head(toClient[d]).sid = x /\ Head(toClient[d]).kind \in Gives => x \in g
          /\ x \in h => x \in g \/ (Head(toClient[d]).sid = x /\ Head(toClient[d]).kind \in Revokes)
          /\ Given(h, toClient[d], x)
      BY <1>2, <2>1 DEF Incoming
    <2> HIDE DEF h, g
    <2>3. Given(g, Tail(toClient[d]), x)
      BY <1>1, <1>2, <2>1, <2>2, TakesIn
    <2> QED BY <1>2, <2>1, <2>3 DEF g
  <1>3. CASE c # d
    BY <1>1, <1>3 DEF Receives, TypeOK
  <1> QED BY <1>2, <1>3

\* The table after one session became ss, of which the daemon is the reader.
LEMMA OwnersAfterReads ==
  ASSUME IInv, NEW s \in Sid, NEW ss \in Session, ss.owner = NoFd,
         session' = [session EXCEPT ![s] = ss], ids' = ids,
         pc' = pc \/ pc.sid = NoSid \/ pc.sid = s
  PROVE  \A x \in ids' : session'[x].owner = NoFd \/ (x # s /\ SameOwner(x))
  <1> SUFFICES ASSUME NEW x \in ids'
               PROVE  session'[x].owner = NoFd \/ (x # s /\ SameOwner(x))
    OBVIOUS
  <1>1. x \in Sid /\ x # NoSid
    BY PtyAssumption DEF IInv, TypeOK
  <1>2. CASE x = s
    BY <1>1, <1>2 DEF IInv, TypeOK
  <1>3. CASE x # s
    BY <1>1, <1>3 DEF IInv, TypeOK, SameOwner
  <1> QED BY <1>2, <1>3

\* The table after a session was dropped or created.
LEMMA OwnersAfterChange ==
  ASSUME IInv, NEW s \in Sid, Remove(s) \/ Created(s), pc' = pc
  PROVE  \A x \in ids' : session'[x].owner = NoFd \/ (x # s /\ SameOwner(x))
  <1> SUFFICES ASSUME NEW x \in ids'
               PROVE  session'[x].owner = NoFd \/ (x # s /\ SameOwner(x))
    OBVIOUS
  <1>1. CASE x = s
    BY <1>1, NewSessionOK DEF IInv, TypeOK, Remove, Created
  <1>2. CASE x # s
    BY <1>2 DEF IInv, TypeOK, Remove, Created, SameOwner
  <1> QED BY <1>1, <1>2

\* The table when only the counts and flags of sessions changed.
LEMMA OwnersAfterCount ==
  ASSUME IInv, NEW s \in Sid, NEW ss, ss.owner = session[s].owner,
         session' = [session EXCEPT ![s] = ss], ids' = ids,
         pc' = pc \/ pc.sid = NoSid
  PROVE  \A x \in ids' : SameOwner(x)
  <1> SUFFICES ASSUME NEW x \in ids' PROVE SameOwner(x)
    OBVIOUS
  <1>1. x \in Sid /\ x # NoSid
    BY PtyAssumption DEF IInv, TypeOK
  <1> QED BY <1>1 DEF IInv, TypeOK, SameOwner

\* The table when no session changed.
LEMMA OwnersUntouched ==
  ASSUME IInv, UNCHANGED <<ids, session>>, pc' = pc \/ pc.sid = NoSid
  PROVE  \A x \in ids' : SameOwner(x)
  BY PtyAssumption DEF IInv, TypeOK, SameOwner

\* The frame a client is answered with.
LEMMA AnswerIs ==
  ASSUME NEW c, NEW m, Answer(c, m)
  PROVE  toClient' = Written(c, m) /\ UNCHANGED <<holds, missed, open, pc>>
  BY DEF Answer, clientVars

\* Serving a frame: an attach that succeeds gives the descriptor, and every other
\* answer leaves what the owners were given or comes with the end of the
\* attachment.
LEMMA ServeServed ==
  ASSUME IInv, IInv', AttachedIsServed, NEW c \in Fd, Serve(c)
  PROVE  AttachedIsServed'
  <1> DEFINE f == Head(readBuf[c])
  <1>0. TypeOK /\ NoSid \notin Sid /\ ids \subseteq Sid /\ ids' \subseteq Sid
    BY PtyAssumption DEF IInv, TypeOK
  <1>r. Reply \in Message /\ Reply.sid = NoSid
    BY MsgOK DEF Reply, Msg
  \* A Reply is about no session.
  <1>reply. ASSUME Answer(c, Reply),
                   \A x \in ids' : session'[x].owner = NoFd \/ SameOwner(x)
            PROVE  AttachedIsServed'
    <2>1. \A x \in ids' : KeepsGiven(session[x].owner, x)
      BY <1>0, <1>r, <1>reply, AnswerIs, KeepsWritten
    <2> QED BY <1>reply, <2>1, ServedStep
  <1>same. ASSUME UNCHANGED sessionVars, Answer(c, Reply) PROVE AttachedIsServed'
    BY <1>same, <1>reply, AnswerIs, OwnersUntouched DEF sessionVars
  <1>1. CASE ServeCreate(c)
    <2>1. Answer(c, Reply) /\ pc' = pc
      BY <1>1, AnswerIs DEF ServeCreate
    <2>2. ASSUME NEW s \in Sid, Created(s) PROVE AttachedIsServed'
      BY <2>1, <2>2, <1>reply, OwnersAfterChange
    <2> QED BY <1>1, <1>same, <2>1, <2>2 DEF ServeCreate
  <1>2. CASE ServeAttach(c)
    <2>1. /\ f.sid \in ids /\ CanWrite(c) /\ Answer(c, Msg("AttachReady", f.sid))
          /\ session' = [session EXCEPT ![f.sid] = Attach(session[f.sid], c)] /\ ids' = ids
      BY <1>2 DEF ServeAttach, CanAttach
    <2> DEFINE m == Msg("AttachReady", f.sid)
    <2>2. m \in Message /\ m.kind \in Gives /\ m.sid = f.sid /\ f.sid \in Sid
      BY <1>0, <2>1, MsgOK DEF Msg, Gives, Response
    <2>3. session'[f.sid].owner = c
      BY <2>1, <2>2, OneSessionInv, AttachOK DEF IInv, TypeOK
    <2>4. toClient' = Written(c, m) /\ UNCHANGED <<holds, missed, open, pc>>
      BY <2>1, AnswerIs
    <2> HIDE DEF m
    <2>5. GivenNext(c, f.sid)
      BY <1>0, <2>1, <2>2, <2>4, WrittenGives
    <2>6. ASSUME NEW x \in ids', x # f.sid
          PROVE  SameOwner(x) /\ KeepsGiven(session[x].owner, x)
      <3>1. SameOwner(x)
        BY <1>0, <2>1, <2>2, <2>4, <2>6 DEF SameOwner, IInv, TypeOK
      <3>2. KeepsGiven(session[x].owner, x)
        BY <1>0, <2>2, <2>4, <2>6, KeepsWritten
      <3> QED BY <3>1, <3>2
    <2> QED BY <2>3, <2>5, <2>6, ServedStep
  \* The response is lost and the descriptor sent all the same.
  <1>8. CASE ServeAttachCut(c)
    <2> DEFINE m == Msg("StrayFd", f.sid)
    <2>1. /\ f.sid \in ids /\ toClient' = [toClient EXCEPT ![c] = Append(toClient[c], m)]
          /\ session' = [session EXCEPT ![f.sid] = Attach(session[f.sid], c)] /\ ids' = ids
          /\ UNCHANGED <<holds, missed, open, pc>>
      BY <1>8 DEF ServeAttachCut, CanAttach, clientVars
    <2>2. m \in Message /\ m.kind \in Gives /\ m.sid = f.sid /\ f.sid \in Sid
      BY <1>0, <2>1, MsgOK DEF Msg, Gives, Response
    <2>3. session'[f.sid].owner = c
      BY <2>1, <2>2, OneSessionInv, AttachOK DEF IInv, TypeOK
    <2> HIDE DEF m
    <2>4. toClient[c] \in Seq(Message) /\ toClient'[c] = Append(toClient[c], m)
      BY <1>0, <2>1 DEF TypeOK
    <2>5. GivenNext(c, f.sid)
      BY <2>2, <2>4, AppendGives DEF GivenNext
    <2>6. ASSUME NEW x \in ids', x # f.sid
          PROVE  SameOwner(x) /\ KeepsGiven(session[x].owner, x)
      <3>1. SameOwner(x)
        BY <1>0, <2>1, <2>2, <2>6 DEF SameOwner, IInv, TypeOK
      <3>2. ASSUME NEW d \in open, GivenNow(d, x) PROVE GivenNext(d, x)
        <4>1. d \in Fd /\ toClient[d] \in Seq(Message)
          BY <1>0 DEF TypeOK
        <4>2. toClient'[d] = toClient[d] \/ toClient'[d] = Append(toClient[d], m)
          BY <1>0, <2>1, <4>1 DEF TypeOK
        <4> DEFINE h == holds[d] \cup missed[d]
        <4>3. Given(h, toClient[d], x)
          BY <3>2 DEF GivenNow
        <4> HIDE DEF h
        <4>4. Given(h, toClient'[d], x)
          BY <2>2, <2>6, <4>1, <4>2, <4>3, AppendOther
        <4> QED BY <2>1, <4>4 DEF GivenNext, h
      <3>3. KeepsGiven(session[x].owner, x)
        BY <2>1, <3>2 DEF KeepsGiven
      <3> QED BY <3>1, <3>3
    <2> QED BY <2>3, <2>5, <2>6, ServedStep
  <1>3. CASE ServeAttachRefused(c)
    BY <1>3, <1>same DEF ServeAttachRefused
  \* The daemon becomes the reader of s, and the answer is about s.
  <1>reads. ASSUME NEW s \in ids, NEW ss \in Session, ss.owner = NoFd, DaemonReads(s, ss),
                   NEW k \in {"AttachNoFd", "Detached"}, Answer(c, Msg(k, s))
            PROVE  AttachedIsServed'
    <2> DEFINE m == Msg(k, s)
    <2>1. m \in Message /\ m.sid = s /\ s \in Sid
      BY <1>0, MsgOK DEF Msg, Response
    <2>2. toClient' = Written(c, m) /\ UNCHANGED <<holds, missed, open, pc>>
      BY <1>reads, AnswerIs
    <2> HIDE DEF m
    <2>3. \A x \in ids' : session'[x].owner = NoFd \/ (x # s /\ SameOwner(x))
      BY <1>reads, <2>1, <2>2, OwnersAfterReads DEF DaemonReads
    <2>4. \A x \in ids' : x # s => KeepsGiven(session[x].owner, x)
      BY <1>0, <2>1, <2>2, KeepsWritten
    <2> QED BY <2>3, <2>4, ServedStep
  <1>4. CASE ServeAttachReverted(c)
    <2>1. /\ f.sid \in ids /\ DaemonReads(f.sid, Reverted(session[f.sid], c))
          /\ Answer(c, Msg("AttachNoFd", f.sid))
      BY <1>4 DEF ServeAttachReverted, CanAttach
    <2>2. /\ Reverted(session[f.sid], c) \in Session
          /\ Reverted(session[f.sid], c).owner = NoFd
      BY <2>1, OneSessionInv, AttachOK, DetachOK DEF Reverted
    <2> QED BY <1>reads, <2>1, <2>2
  <1>5. CASE ServeDetach(c)
    <2>1. CASE /\ f.sid \in ids /\ DaemonReads(f.sid, Detach(session[f.sid]))
               /\ Answer(c, Msg("Detached", f.sid))
      <3>1. Detach(session[f.sid]) \in Session /\ Detach(session[f.sid]).owner = NoFd
        BY <2>1, OneSessionInv, DetachOK
      <3> QED BY <1>reads, <2>1, <3>1
    <2> QED BY <1>5, <1>same, <2>1 DEF ServeDetach
  <1>6. CASE ServeKill(c)
    <2>1. f.sid \in Sid
      BY <1>0, <1>6, ServedSid DEF ServeKill, SessionRequest
    <2>2. Remove(f.sid) /\ Answer(c, Reply) /\ pc' = pc
      BY <1>6, AnswerIs DEF ServeKill
    <2> QED BY <1>reply, <2>1, <2>2, OwnersAfterChange
  <1>7. CASE ServeQuery(c) \/ ServeShutdown(c) \/ ServeAck(c)
    BY <1>7, <1>same DEF ServeQuery, ServeShutdown, ServeAck
  <1> QED BY <1>1, <1>2, <1>3, <1>4, <1>5, <1>6, <1>7, <1>8 DEF Serve

\* The table after a takeover of session s is complete.
LEMMA OwnersAfterTakeover ==
  ASSUME IInv, NEW s \in Sid, NEW ss \in Session, NEW th, CompleteTakeover(s, ss, th),
         pc.sid = NoSid \/ pc.sid = s
  PROVE  \A x \in ids' : session'[x].owner = NoFd \/ (x # s /\ SameOwner(x))
  <1>1. /\ BatonDetach(ss) \in Session /\ BatonDetach(ss).owner = NoFd
        /\ WsJoined(BatonDetach(ss)) \in Session /\ WsJoined(BatonDetach(ss)).owner = NoFd
    BY BatonDetachOK, WsCountOK
  <1> QED BY <1>1, OwnersAfterReads DEF CompleteTakeover, DaemonReads

\* The daemon becomes the reader of s and writes to nobody.
LEMMA UnsentServed ==
  ASSUME IInv, IInv', AttachedIsServed, NEW s \in Sid, NEW ss \in Session, ss.owner = NoFd,
         DaemonReads(s, ss), Unsent, UNCHANGED <<pc, open, holds, missed>>
  PROVE  AttachedIsServed'
  <1>1. \A x \in ids' : session'[x].owner = NoFd \/ (x # s /\ SameOwner(x))
    BY OwnersAfterReads DEF DaemonReads
  <1>2. \A x \in ids' : KeepsGiven(session[x].owner, x)
    BY KeepsUnsent DEF Unsent
  <1> QED BY <1>1, <1>2, ServedStep

\* A takeover, whether it waits for its owner or completes at once: the session
\* is exempt while the loop waits and is the daemon's afterwards, and the push
\* revokes nothing else.
LEMMA TakeoverServed ==
  ASSUME IInv, IInv', AttachedIsServed, pc.sid = NoSid, NEW s \in ids, NEW ss \in Session,
         ss.owner = session[s].owner, ss.owner \in Fd, NEW th, StartTakeover(s, ss, th)
  PROVE  AttachedIsServed'
  <1> DEFINE m == Msg("ForceDetach", s)
  <1>0. TypeOK /\ s \in Sid
    BY DEF IInv, TypeOK
  <1>1. m \in Message /\ m.sid = s
    BY <1>0, MsgOK DEF Msg, Push, Response
  <1>2. /\ toClient' = Written(ss.owner, m) /\ UNCHANGED <<holds, missed, open>>
    BY DEF StartTakeover, Pushes, clientVars
  <1> HIDE DEF m
  <1>3. \A x \in ids' : x # s => KeepsGiven(session[x].owner, x)
    BY <1>0, <1>1, <1>2, KeepsWritten
  <1>4. CASE /\ session' = [session EXCEPT ![s] = ss] /\ ids' = ids
             /\ pc' = Awaiting(ss.owner, s, th)
    <2>1. pc'.sid = s
      BY <1>4 DEF Awaiting
    <2>2. \A x \in ids' : SameOwner(x)
      BY <1>0, <1>4, OwnersAfterCount
    <2> SUFFICES ASSUME NEW x \in ids', session'[x].owner \in open', pc'.sid # x
                 PROVE  GivenNext(session'[x].owner, x)
      BY DEF AttachedIsServed, GivenTo, GivenNext, Given, Revoked, Gives, Revokes
    <2>3. GivenTo(session[x].owner, x) /\ session'[x].owner = session[x].owner
      BY <1>2, <2>2 DEF SameOwner, AttachedIsServed
    <2> QED BY <1>3, <2>1, <2>3, GivenToIs DEF KeepsGiven
  <1>5. CASE CompleteTakeover(s, ss, th)
    <2>1. \A x \in ids' : session'[x].owner = NoFd \/ (x # s /\ SameOwner(x))
      BY <1>0, <1>5, OwnersAfterTakeover
    <2> QED BY <1>3, <2>1, ServedStep
  <1> QED BY <1>4, <1>5 DEF StartTakeover

\* The end of a wait: the session is the daemon's, and nothing is written.
LEMMA EndOfWaitServed ==
  ASSUME IInv, IInv', AttachedIsServed, pc.at = "await", EndOfWait
  PROVE  AttachedIsServed'
  <1>1. pc.sid \in Sid /\ session[pc.sid] \in Session
    BY DEF IInv, TypeOK, WaitsOnOwner
  <1>2. CompleteTakeover(pc.sid, session[pc.sid], pc.then) /\ UNCHANGED <<holds, missed, open, toClient>>
    BY DEF EndOfWait, clientVars
  <1>3. \A x \in ids' : session'[x].owner = NoFd \/ SameOwner(x)
    BY <1>1, <1>2, OwnersAfterTakeover
  <1>4. \A x \in ids' : KeepsGiven(session[x].owner, x)
    BY <1>2, KeepsUnsent
  <1> QED BY <1>3, <1>4, ServedStep

\* handle_baton_release: the push that attaches the previous owner gives it the
\* descriptor.
LEMMA ReleaseServed ==
  ASSUME IInv, IInv', AttachedIsServed, NEW s \in ids, NEW ss \in Session, ss.prev \in Fd,
         Release(s, ss), UNCHANGED <<pc, open, holds, missed>>
  PROVE  AttachedIsServed'
  <1> DEFINE p == ss.prev
             m == Msg("ResumeAttach", s)
  <1>0. TypeOK /\ s \in Sid
    BY DEF IInv, TypeOK
  <1>1. CASE /\ CanWrite(p) /\ Pushes(p, m) /\ ids' = ids
             /\ session' = [session EXCEPT ![s] =
                  [Attach(ss, p) EXCEPT !.prev = NoFd, !.cooldown = TRUE]]
    <2>1. m \in Message /\ m.kind \in Gives /\ m.sid = s
      BY <1>0, MsgOK DEF Msg, Gives, Push, Response
    <2>2. session'[s].owner = p
      BY <1>0, <1>1, ResumedOK DEF TypeOK
    <2>3. toClient' = Written(p, m)
      BY <1>1 DEF Pushes
    <2> HIDE DEF m
    <2>4. GivenNext(p, s)
      BY <1>0, <1>1, <2>1, <2>3, WrittenGives
    <2>5. ASSUME NEW x \in ids', x # s
          PROVE  SameOwner(x) /\ KeepsGiven(session[x].owner, x)
      <3>1. SameOwner(x)
        BY <1>0, <1>1, <2>5 DEF SameOwner, TypeOK
      <3>2. KeepsGiven(session[x].owner, x)
        BY <1>0, <2>1, <2>3, <2>5, KeepsWritten
      <3> QED BY <3>1, <3>2
    <2> QED BY <2>2, <2>4, <2>5, ServedStep
  <1>2. CASE Pushes(p, Msg("ResumeNoFd", s)) /\ DaemonReads(s, Detach([ss EXCEPT !.prev = NoFd]))
    <2> DEFINE r == Msg("ResumeNoFd", s)
    <2>1. r \in Message /\ r.sid = s
      BY <1>0, MsgOK DEF Msg, Push, Response
    <2>2. toClient' = Written(p, r)
      BY <1>2 DEF Pushes
    <2> HIDE DEF r
    <2>3. /\ Detach([ss EXCEPT !.prev = NoFd]) \in Session
          /\ Detach([ss EXCEPT !.prev = NoFd]).owner = NoFd
      BY NoPrevOK, DetachOK
    <2>4. \A x \in ids' : session'[x].owner = NoFd \/ (x # s /\ SameOwner(x))
      BY <1>0, <1>2, <2>3, OwnersAfterReads DEF DaemonReads
    <2>5. \A x \in ids' : x # s => KeepsGiven(session[x].owner, x)
      BY <1>0, <2>1, <2>2, KeepsWritten
    <2> QED BY <2>4, <2>5, ServedStep
  <1>3. CASE Unsent /\ DaemonReads(s, Detach(ss))
    BY <1>0, <1>3, DetachOK, UnsentServed
  <1> QED BY <1>1, <1>2, <1>3 DEF Release

\* Every step keeps an attached session served.
LEMMA AttachedStep ==
  ASSUME IInv, IInv', WaitsForOne, AttachedIsServed, Next
  PROVE  AttachedIsServed'
  <1> USE DEF sessionVars, socketVars, clientVars
  <1>0. TypeOK /\ NoSid \notin Sid /\ AttachedHasOwner
    BY PtyAssumption, OwnerIsFd DEF IInv
  <1>top. AtTop => pc.sid = NoSid
    BY DEF AtTop, WaitsForOne
  \* Nothing happens to sessions, to what clients have, or to who is there.
  <1>idle. ASSUME UNCHANGED <<ids, session, holds, missed, toClient>>, open' \subseteq open,
                  pc' = pc \/ pc.sid = NoSid
           PROVE  AttachedIsServed'
    BY <1>idle, OwnersUntouched, KeepsUnsent, ServedStep
  <1>1. ASSUME NEW c \in Fd, Accept(c) PROVE AttachedIsServed'
    <2>1. UNCHANGED <<ids, session, pc, holds, missed, toClient>> /\ c \notin clients
          /\ open' = open \cup {c}
      BY <1>1 DEF Accept
    <2>2. \A x \in ids' : SameOwner(x)
      BY <2>1, OwnersUntouched
    <2>3. \A x \in ids' : session[x].owner = NoFd \/ session[x].owner # c
      BY <2>1, OneSessionInv
    <2>4. \A x \in ids' : session[x].owner # c => KeepsGiven(session[x].owner, x)
      BY <2>1 DEF KeepsGiven, GivenNow, GivenNext
    <2> QED BY <2>1, <2>2, <2>3, <2>4, ServedStep
  <1>2. ASSUME NEW c \in Fd, Disconnect(c) PROVE AttachedIsServed'
    <2>1. /\ ids' = ids /\ UNCHANGED <<pc, holds, missed, open>> /\ c \notin open
          /\ toClient' = [toClient EXCEPT ![c] = <<>>]
      BY <1>2 DEF Disconnect
    <2>2. ASSUME NEW x \in ids' PROVE session'[x].owner = NoFd \/ SameOwner(x)
      <3>1. x \in Sid /\ session'[x] = WithoutClient(session[x], c)
        BY <1>2, <2>1 DEF Disconnect, IInv, TypeOK
      <3>2. session'[x].owner = IF session[x].owner = c THEN NoFd ELSE session[x].owner
        BY <1>0, <3>1, WithoutClientOK DEF TypeOK
      <3> QED BY <2>1, <3>2 DEF SameOwner
    <2>3. ASSUME NEW x \in ids' PROVE KeepsGiven(session[x].owner, x)
      BY <1>0, <2>1 DEF KeepsGiven, GivenNow, GivenNext, TypeOK
    <2> QED BY <2>2, <2>3, ServedStep
  <1>14. ASSUME NEW c \in Fd, DisconnectHangs(c) PROVE AttachedIsServed'
    BY <1>14, <1>idle, <1>top DEF DisconnectHangs
  <1>3. ASSUME NEW c \in Fd, ReadClient(c) PROVE AttachedIsServed'
    BY <1>3, <1>idle, <1>top DEF ReadClient
  <1>4. ASSUME NEW c \in Fd, Serve(c) PROVE AttachedIsServed'
    BY <1>4, ServeServed
  <1>5. ASSUME ServeDone PROVE AttachedIsServed'
    BY <1>5, <1>idle DEF ServeDone, WaitsForOne
  <1>6. ASSUME AwaitFrame \/ AwaitNothing PROVE AttachedIsServed'
    BY <1>6, EndOfWaitServed DEF AwaitFrame, AwaitNothing
  <1>7. ASSUME NEW s \in Sid, WsAttach(s) PROVE AttachedIsServed'
    <2>1. s \in ids /\ pc.sid = NoSid /\ session[s] \in Session
      BY <1>7, <1>top, OneSessionInv DEF WsAttach
    <2>2. CASE StartTakeover(s, session[s], "attach")
      <3>1. session[s].owner \in Fd
        BY <1>0, <2>1, <2>2 DEF StartTakeover, AttachedHasOwner
      <3> QED BY <2>1, <2>2, <3>1, TakeoverServed
    <2>3. CASE /\ session[s].state # "Attached" /\ DaemonReads(s, WsJoined(session[s]))
               /\ Unsent /\ Unmoved
      <3>1. WsJoined(session[s]) \in Session /\ WsJoined(session[s]).owner = NoFd
        BY <2>1, <2>3, OneSessionInv, WsCountOK
      <3> QED BY <2>3, <3>1, UnsentServed DEF Unmoved
    <2>4. CASE UNCHANGED <<sessionVars, socketVars, open, clientVars>>
      BY <1>idle, <2>1, <2>4
    <2> QED BY <1>7, <2>2, <2>3, <2>4 DEF WsAttach
  <1>8. ASSUME NEW s \in Sid, WsDetach(s) PROVE AttachedIsServed'
    <2> DEFINE ss == WsLeft(session[s])
    <2>1. s \in ids /\ pc.sid = NoSid
      BY <1>8, <1>top DEF WsDetach
    <2>2. /\ ss \in Session /\ ss.owner = session[s].owner /\ ss.state = session[s].state
      BY <2>1, OneSessionInv, WsCountOK
    <2> HIDE DEF ss
    <2>3. CASE StartTakeover(s, ss, "detach")
      <3>1. ss.owner \in Fd
        BY <1>0, <2>1, <2>2, <2>3 DEF StartTakeover, AttachedHasOwner
      <3> QED BY <2>1, <2>2, <2>3, <3>1, TakeoverServed
    <2>4. CASE /\ session' = [session EXCEPT ![s] = ss] /\ UNCHANGED <<ids, used, kq>>
               /\ Unsent /\ Unmoved
      <3>1. \A x \in ids' : SameOwner(x)
        BY <2>1, <2>2, <2>4, OwnersAfterCount
      <3> QED BY <2>4, <3>1, KeepsUnsent, ServedStep DEF Unsent, Unmoved
    <2>5. CASE ss.prev # NoFd /\ Release(s, ss) /\ Unmoved
      <3>1. ss.prev \in Fd
        BY <2>2, <2>5 DEF Session
      <3> QED BY <2>1, <2>2, <2>5, <3>1, ReleaseServed DEF Unmoved
    <2>6. CASE DaemonReads(s, Detach(ss)) /\ Unsent /\ Unmoved
      BY <2>2, <2>6, DetachOK, UnsentServed DEF Unmoved
    <2> QED BY <1>8, <2>3, <2>4, <2>5, <2>6 DEF WsDetach, ss
  <1>9. ASSUME NEW s \in Sid, WsCreate(s) \/ WsKill(s) \/ SessionEnds(s)
        PROVE  AttachedIsServed'
    <2>1. (Remove(s) \/ Created(s)) /\ UNCHANGED <<pc, holds, missed, toClient, open>>
      BY <1>9 DEF WsCreate, WsKill, SessionEnds, Unsent, Unmoved
    <2> QED BY <2>1, OwnersAfterChange, KeepsUnsent, ServedStep
  <1>10. ASSUME NEW s \in Sid, CooldownEnds(s) PROVE AttachedIsServed'
    <2> DEFINE ss == [session[s] EXCEPT !.cooldown = FALSE]
    <2>1. session' = [session EXCEPT ![s] = ss] /\ UNCHANGED <<ids, pc, holds, missed, toClient, open>>
      BY <1>10 DEF CooldownEnds
    <2>2. ss.owner = session[s].owner
      BY <1>0 DEF TypeOK, Session
    <2>3. \A x \in ids' : SameOwner(x)
      BY <2>1, <2>2, OwnersAfterCount
    <2> QED BY <2>1, <2>3, KeepsUnsent, ServedStep
  <1>11. ASSUME Cleanup PROVE AttachedIsServed'
    BY <1>11, ServedStep DEF Cleanup
  <1>12. ASSUME WsShutdown \/ Terminated PROVE AttachedIsServed'
    BY <1>12, <1>idle DEF WsShutdown, Terminated, vars
  <1>13. ASSUME NEW c \in Fd, Client(c) PROVE AttachedIsServed'
    <2>0. UNCHANGED <<ids, session, pc>>
      BY <1>13 DEF Client, ClientSends, ClientGetsResponse, ClientGetsStray, ClientYields,
                   ClientResumes, ClientCannotResume, ClientDies, ClientUnchanged
    <2>same. \A x \in ids' : SameOwner(x)
      BY <2>0, OwnersUntouched
    \* The client takes in one frame; its descriptors change as the frame says.
    <2>in. ASSUME NEW k, Receives(c, k), open' = open, NEW h, NEW g,
                  holds' = [holds EXCEPT ![c] = h], missed' = [missed EXCEPT ![c] = g],
                  k \in Gives => Incoming(c) \in h \cup g,
                  \A x \in holds[c] \cup missed[c] :
                    x \in h \cup g \/ (Incoming(c) = x /\ k \in Revokes)
           PROVE  AttachedIsServed'
      <3>1. /\ holds'[c] = h /\ missed'[c] = g
            /\ \A e \in Fd \ {c} : holds'[e] = holds[e] /\ missed'[e] = missed[e]
        BY <1>0, <2>in DEF TypeOK
      <3>2. \A x : /\ Incoming(c) = x /\ k \in Gives => x \in holds'[c] \cup missed'[c]
                   /\ x \in holds[c] \cup missed[c] =>
                        x \in holds'[c] \cup missed'[c] \/ (Incoming(c) = x /\ k \in Revokes)
        BY <2>in, <3>1
      <3>3. \A x \in ids' : KeepsGiven(session[x].owner, x)
        BY <1>0, <2>in, <3>1, <3>2, KeepsReceived
      <3> QED BY <2>same, <3>3, ServedStep
    <2>takes. ASSUME NEW k \in Gives, Receives(c, k), open' = open, Takes(c, Incoming(c))
              PROVE  AttachedIsServed'
      <3> DEFINE i == Incoming(c)
                 h == holds[c] \cup {i}
                 g == missed[c] \ {i}
                 m == missed[c] \cup {i}
      <3>1. CASE holds' = [holds EXCEPT ![c] = h] /\ missed' = [missed EXCEPT ![c] = g]
        <4>1. i \in h \cup g /\ \A x \in holds[c] \cup missed[c] : x \in h \cup g
          OBVIOUS
        <4> HIDE DEF h, g
        <4> QED BY <2>in, <2>takes, <3>1, <4>1
      <3>2. CASE missed' = [missed EXCEPT ![c] = m] /\ holds' = holds
        <4>1. holds' = [holds EXCEPT ![c] = holds[c]]
          BY <1>0, <3>2 DEF TypeOK
        <4>2. i \in holds[c] \cup m /\ \A x \in holds[c] \cup missed[c] : x \in holds[c] \cup m
          OBVIOUS
        <4> HIDE DEF m
        <4> QED BY <2>in, <2>takes, <3>2, <4>1, <4>2
      <3> QED BY <2>takes, <3>1, <3>2 DEF Takes
    <2>closes. ASSUME NEW k \in Revokes, Receives(c, k), open' = open, Closes(c, Incoming(c))
               PROVE  AttachedIsServed'
      <3>1. k \notin Gives
        BY <2>closes DEF Gives, Revokes
      <3> QED BY <2>in, <2>closes, <3>1 DEF Closes
    <2>neutral. ASSUME NEW k, k \notin Gives, Receives(c, k), open' = open,
                       UNCHANGED <<holds, missed>>
                PROVE  AttachedIsServed'
      <3>1. /\ holds' = [holds EXCEPT ![c] = holds[c]]
            /\ missed' = [missed EXCEPT ![c] = missed[c]]
        BY <1>0, <2>neutral DEF TypeOK
      <3> QED BY <2>in, <2>neutral, <3>1
    <2>1. ASSUME NEW f \in Frame, ClientSends(c, f) PROVE AttachedIsServed'
      BY <2>0, <2>1, <1>idle DEF ClientSends
    <2>2. CASE ClientGetsResponse(c)
      <3>1. PICK k \in Response :
              /\ Receives(c, k)
              /\ \/ k = "AttachReady" /\ Takes(c, Incoming(c))
                 \/ k = "Detached" /\ Closes(c, Incoming(c))
                 \/ k \notin {"AttachReady", "Detached"} /\ UNCHANGED <<holds, missed>>
        BY <2>2 DEF ClientGetsResponse
      <3>2. open' = open
        BY <2>2 DEF ClientGetsResponse
      <3>3. k = "AttachReady" => k \in Gives
        BY DEF Gives
      <3>4. k = "Detached" => k \in Revokes
        BY DEF Revokes
      <3>5. k \notin {"AttachReady", "Detached"} => k \notin Gives
        BY DEF Gives, Response
      <3> QED BY <2>takes, <2>closes, <2>neutral, <3>1, <3>2, <3>3, <3>4, <3>5
    <2>3. CASE ClientYields(c)
      <3>1. "ForceDetach" \in Revokes
        BY DEF Revokes
      <3> QED BY <2>3, <2>closes, <3>1 DEF ClientYields
    <2>4. CASE ClientResumes(c)
      <3>1. "ResumeAttach" \in Gives
        BY DEF Gives
      <3> QED BY <2>4, <2>takes, <3>1 DEF ClientResumes
    <2>5. CASE ClientCannotResume(c)
      <3>1. "ResumeNoFd" \notin Gives
        BY DEF Gives
      <3> QED BY <2>5, <2>neutral, <3>1 DEF ClientCannotResume
    <2>7. CASE ClientGetsStray(c)
      <3> DEFINE m == missed[c] \cup {Incoming(c)}
      <3>1. /\ Receives(c, "StrayFd") /\ open' = open /\ holds' = holds
            /\ missed' = [missed EXCEPT ![c] = m]
        BY <2>7 DEF ClientGetsStray
      <3>2. holds' = [holds EXCEPT ![c] = holds[c]]
        BY <1>0, <3>1 DEF TypeOK
      <3>3. /\ Incoming(c) \in holds[c] \cup m
            /\ \A x \in holds[c] \cup missed[c] : x \in holds[c] \cup m
        OBVIOUS
      <3> HIDE DEF m
      <3> QED BY <2>in, <3>1, <3>2, <3>3
    <2>6. CASE ClientDies(c)
      <3>1. ASSUME NEW x \in ids' PROVE KeepsGiven(session[x].owner, x)
        BY <1>0, <2>6 DEF ClientDies, KeepsGiven, GivenNow, GivenNext, TypeOK
      <3> QED BY <2>same, <3>1, ServedStep
    <2> QED BY <1>13, <2>1, <2>2, <2>3, <2>4, <2>5, <2>6, <2>7 DEF Client
  <1> QED BY <1>1, <1>2, <1>3, <1>4, <1>5, <1>6, <1>7, <1>8, <1>9, <1>10, <1>11, <1>12, <1>13,
             <1>14 DEF Next, Daemon, Environment

\* The loop forgets the session it waited for whenever it goes on.
LEMMA WaitsForOneStep ==
  ASSUME WaitsForOne, Next
  PROVE  WaitsForOne'
  <1>1. CASE pc' = pc
    BY <1>1 DEF WaitsForOne
  <1>2. CASE pc' = AtLoop \/ pc' = Hung \/ pc' = Down \/ \E c \in Fd : pc' = Serving(c)
    BY <1>2 DEF WaitsForOne, AtLoop, Hung, Down, Serving
  <1>3. CASE \E c, s, th : pc' = Awaiting(c, s, th)
    BY <1>3 DEF WaitsForOne, Awaiting
  <1>4. \A s, ss, th : StartTakeover(s, ss, th) =>
          pc' = AtLoop \/ pc' = Hung \/ pc' = Awaiting(ss.owner, s, th)
    BY DEF StartTakeover, CompleteTakeover, DumpHangs
  <1>5. \A c \in Fd : Serve(c) => pc' = pc
    BY DEF Serve, ServeCreate, ServeAttach, ServeAttachCut, ServeAttachRefused,
           ServeAttachReverted, ServeDetach, ServeKill, ServeQuery, ServeShutdown, ServeAck, Answer
  <1>6. \A c \in Fd : Client(c) => pc' = pc
    BY DEF Client, ClientSends, ClientGetsResponse, ClientGetsStray, ClientYields, ClientResumes,
           ClientCannotResume, ClientDies, ClientUnchanged
  <1>7. \A s \in Sid : WsAttach(s) \/ WsDetach(s) =>
          pc' = pc \/ pc' = Hung \/ \E ss, th : StartTakeover(s, ss, th)
    BY DEF WsAttach, WsDetach, Unmoved, DumpHangs
  <1>8. Cleanup => pc' = Down
    BY DEF Cleanup
  <1>9. ServeDone \/ AwaitFrame \/ AwaitNothing => pc' = AtLoop \/ pc' = Hung
    BY DEF ServeDone, AwaitFrame, AwaitNothing, EndOfWait, CompleteTakeover, DumpHangs
  <1>10. \A c \in Fd : /\ Accept(c) \/ Disconnect(c) => pc' = pc
                       /\ DisconnectHangs(c) => pc' = Hung
                       /\ ReadClient(c) => pc' = Serving(c)
    BY DEF Accept, Disconnect, DisconnectHangs, DumpHangs, ReadClient
  <1>11. /\ \A s \in Sid : WsCreate(s) \/ WsKill(s) \/ SessionEnds(s) \/ CooldownEnds(s) => pc' = pc
         /\ WsShutdown \/ Terminated => pc' = pc
    BY DEF WsCreate, WsKill, SessionEnds, CooldownEnds, Unmoved, WsShutdown, Terminated, vars
  <1> QED BY <1>1, <1>2, <1>3, <1>4, <1>5, <1>6, <1>7, <1>8, <1>9, <1>10, <1>11
          DEF Next, Daemon, Environment

-----------------------------------------------------------------------------
(* One frame at a time *)

\* What Sockets and OneAtATime say of one client with buffers r, d and t.
Empty(r, d, t) == r = <<>> /\ d = <<>> /\ t = <<>>
Light(r, d, t, w) == /\ Len(r) + (Len(d) + Len(t)) <= IF w THEN 1 ELSE 0
                     /\ \A i \in 1 .. Len(t) : t[i].kind \in Response

\* What the two say, client by client.
ClientOK(c) ==
  /\ c \in open => c \in clients
  /\ c \notin clients => Empty(readBuf[c], toDaemon[c], toClient[c])
  /\ c \in open \ timed => Light(readBuf[c], toDaemon[c], toClient[c], waiting[c])

\* They are the sum of what they say of each client.
LEMMA ByClient == TypeOK => ((Sockets /\ OneAtATime) <=> \A c \in Fd : ClientOK(c))
  BY DEF TypeOK, Sockets, OneAtATime, ClientOK, Empty, Light

\* The same of the next state.
LEMMA ByClientNext ==
  TypeOK' /\ (\A c \in Fd : ClientOK(c)') => Sockets' /\ OneAtATime'
  BY DEF TypeOK, Sockets, OneAtATime, ClientOK, Empty, Light

\* The buffers and the connection of c are as they were, up to a push timeout.
Alone(c) == /\ readBuf'[c] = readBuf[c] /\ toDaemon'[c] = toDaemon[c]
            /\ toClient'[c] = toClient[c] /\ waiting'[c] = waiting[c]
            /\ (c \in clients') <=> (c \in clients)
            /\ (c \in open') <=> (c \in open)
            /\ c \in timed => c \in timed'

\* A client left alone stays well.
LEMMA AloneOK ==
  ASSUME NEW c, ClientOK(c), Alone(c)
  PROVE  ClientOK(c)'
  BY DEF ClientOK, Alone

\* A connection that starts with empty buffers, and one without buffers.
LEMMA EmptyLight == \A w : Empty(<<>>, <<>>, <<>>) /\ Light(<<>>, <<>>, <<>>, w)
  BY DEF Empty, Light

\* A read moves frames and makes none.
LEMMA ReadLight ==
  ASSUME NEW r \in Seq(Frame), NEW d \in Seq(Frame), NEW t \in Seq(Message), NEW w,
         NEW n \in 1 .. Len(d), Light(r, d, t, w)
  PROVE  /\ Light(r \o SubSeq(d, 1, n), SubSeq(d, n + 1, Len(d)), t, w)
         /\ Light(Tail(r \o SubSeq(d, 1, n)), SubSeq(d, n + 1, Len(d)), t, w)
  <1> DEFINE p == SubSeq(d, 1, n)
             e == SubSeq(d, n + 1, Len(d))
             b == r \o p
  <1>1. /\ p \in Seq(Frame) /\ Len(p) = n /\ e \in Seq(Frame) /\ Len(e) = Len(d) - n
        /\ Len(d) \in Nat /\ n \in Nat \ {0} /\ Len(r) \in Nat /\ Len(t) \in Nat
    <2>1. Len(d) \in Nat /\ n \in Nat \ {0} /\ Len(r) \in Nat /\ Len(t) \in Nat /\ n <= Len(d)
      OBVIOUS
    <2>2. \A i \in 1 .. Len(d) : d[i] \in Frame
      OBVIOUS
    <2>3. p \in Seq(Frame) /\ Len(p) = n
      <3>1. \A i \in 1 .. n : d[i] \in Frame
        BY <2>1, <2>2
      <3> QED BY <2>1, <3>1, SubSeqProperties
    <2>4. e \in Seq(Frame) /\ Len(e) = Len(d) - n
      <3>1. \A i \in n + 1 .. Len(d) : d[i] \in Frame
        BY <2>1, <2>2
      <3> QED BY <2>1, <3>1, SubSeqProperties
    <2> QED BY <2>1, <2>3, <2>4
  <1> HIDE DEF p, e
  <1>2. b \in Seq(Frame) /\ Len(b) = Len(r) + Len(p)
    <2>1. p \in Seq(Frame)
      BY <1>1
    <2> QED BY <2>1
  <1> HIDE DEF b
  <1>3. b # <<>>
    BY <1>1, <1>2
  <1>4. Len(Tail(b)) = Len(b) - 1
    BY <1>2, <1>3
  <1> DEFINE k == IF w THEN 1 ELSE 0
  <1>5. Len(r) + (Len(d) + Len(t)) <= k /\ k \in Nat
    BY DEF Light
  <1> HIDE DEF k
  <1> DEFINE lb == Len(b)  lu == Len(Tail(b))
  <1>6. lb = Len(r) + n /\ lu = lb - 1
    BY <1>1, <1>2, <1>4
  <1> HIDE DEF lb, lu
  <1>7. lb + (Len(e) + Len(t)) <= k /\ lu + (Len(e) + Len(t)) <= k
    BY <1>1, <1>5, <1>6
  <1> QED BY <1>5, <1>7 DEF Light, k, p, e, b, lb, lu

\* Answering a frame turns it into a response.
LEMMA AnswerLight ==
  ASSUME NEW r \in Seq(Frame), r # <<>>, NEW d \in Seq(Frame), NEW t \in Seq(Message),
         NEW w, NEW m \in Message, m.kind \in Response, Light(r, d, t, w)
  PROVE  Light(Tail(r), d, t, w) /\ Light(Tail(r), d, Append(t, m), w)
  <1> DEFINE a == Append(t, m)
             k == IF w THEN 1 ELSE 0
  <1>1. /\ Len(r) \in Nat /\ Len(d) \in Nat /\ Len(t) \in Nat /\ Len(Tail(r)) = Len(r) - 1
        /\ Len(a) = Len(t) + 1 /\ a[Len(t) + 1] = m /\ \A i \in 1 .. Len(t) : a[i] = t[i]
    OBVIOUS
  <1> HIDE DEF a
  <1>2. Len(r) + (Len(d) + Len(t)) <= k /\ k \in Nat /\ \A i \in 1 .. Len(t) : t[i].kind \in Response
    BY DEF Light
  <1> HIDE DEF k
  <1>3. Len(Tail(r)) + (Len(d) + Len(t)) <= k /\ Len(Tail(r)) + (Len(d) + Len(a)) <= k
    BY <1>1, <1>2
  <1>4. \A i \in 1 .. Len(a) : i \in 1 .. Len(t) \/ i = Len(t) + 1
    BY <1>1
  <1>5. \A i \in 1 .. Len(a) : a[i].kind \in Response
    BY <1>1, <1>2, <1>4
  <1> QED BY <1>2, <1>3, <1>5 DEF Light, k, a

\* A client that does not wait may send one frame and wait.
LEMMA SendLight ==
  ASSUME NEW r \in Seq(Frame), NEW d \in Seq(Frame), NEW t \in Seq(Message),
         NEW f \in Frame, Light(r, d, t, FALSE)
  PROVE  Light(r, Append(d, f), t, TRUE)
  <1>1. Len(r) \in Nat /\ Len(d) \in Nat /\ Len(t) \in Nat /\ Len(Append(d, f)) = Len(d) + 1
    OBVIOUS
  <1> QED BY <1>1 DEF Light

\* Whoever takes a frame in had waited for it: it is a response, and the last.
LEMMA ReceiveLight ==
  ASSUME NEW r \in Seq(Frame), NEW d \in Seq(Frame), NEW t \in Seq(Message), t # <<>>,
         NEW w, Light(r, d, t, w)
  PROVE  Head(t).kind \in Response /\ Light(r, d, Tail(t), FALSE)
  <1> DEFINE u == Tail(t)
             k == IF w THEN 1 ELSE 0
  <1>1. /\ Len(r) \in Nat /\ Len(d) \in Nat /\ Len(t) \in Nat \ {0} /\ Len(u) = Len(t) - 1
        /\ Head(t) = t[1]
    OBVIOUS
  <1> HIDE DEF u
  <1>2. Len(r) + (Len(d) + Len(t)) <= k /\ k \in {0, 1} /\ \A i \in 1 .. Len(t) : t[i].kind \in Response
    BY DEF Light
  <1> HIDE DEF k
  <1>3. Len(r) + (Len(d) + Len(u)) <= 0 /\ Len(u) = 0
    BY <1>1, <1>2
  <1> QED BY <1>1, <1>2, <1>3 DEF Light, u

\* Every served frame is answered with a response, whatever it asks for, unless
\* the response to an attach is cut.
LEMMA ServeAnswers ==
  ASSUME TypeOK, NEW c \in Fd, Serve(c), ~ServeAttachCut(c)
  PROVE  /\ pc.at = "serve" /\ pc.fd = c /\ readBuf[c] # <<>>
         /\ \E m \in Message : m.kind \in Response /\ Answer(c, m)
  <1> DEFINE f == Head(readBuf[c])
  <1>1. \E k : Serves(c, k)
    BY DEF Serve, ServeCreate, ServeAttach, ServeAttachCut, ServeAttachRefused,
           ServeAttachReverted, ServeDetach, ServeKill, ServeQuery, ServeShutdown, ServeAck
  <1>2. Reply \in Message /\ Reply.kind \in Response
    BY MsgOK DEF Reply, Msg, Response
  <1>3. \A k \in {"Detached", "AttachReady", "AttachNoFd"}, s \in Sid :
          Msg(k, s) \in Message /\ Msg(k, s).kind \in Response
    BY MsgOK DEF Msg, Response
  <1>4. ServeAttach(c) \/ ServeAttachReverted(c) \/ ServeDetach(c) => f.sid \in Sid
    BY ServedSid DEF ServeAttach, ServeAttachReverted, ServeDetach, SessionRequest
  <1>5. \/ Answer(c, Reply)
        \/ f.sid \in Sid /\ \E k \in {"Detached", "AttachReady", "AttachNoFd"} :
                               Answer(c, Msg(k, f.sid))
    BY <1>4 DEF Serve, ServeCreate, ServeAttach, ServeAttachCut, ServeAttachRefused,
           ServeAttachReverted, ServeDetach, ServeKill, ServeQuery, ServeShutdown, ServeAck
  <1> QED BY <1>1, <1>2, <1>3, <1>5 DEF Serves

\* A WS command touches the connections only with one push, if at all.
LEMMA WsPushes ==
  ASSUME IInv, NEW s \in Sid, WsAttach(s) \/ WsDetach(s)
  PROVE  /\ UNCHANGED <<clients, readBuf, toDaemon, open, waiting>>
         /\ Unsent \/ \E p \in Fd, m \in Message : Pushes(p, m)
  <1> USE DEF clientVars
  <1>1. s \in ids /\ AttachedHasOwner /\ session[s] \in Session
    BY OwnerIsFd, OneSessionInv DEF WsAttach, WsDetach
  <1>2. /\ WsLeft(session[s]) \in Session /\ WsLeft(session[s]).owner = session[s].owner
        /\ WsLeft(session[s]).state = session[s].state
    BY <1>1, WsCountOK
  <1>3. \A k \in Push : Msg(k, s) \in Message
    BY MsgOK DEF Push, Response
  <1>4. ASSUME NEW ss \in Session, ss.owner = session[s].owner, ss.state = session[s].state,
               NEW th, StartTakeover(s, ss, th)
        PROVE  /\ UNCHANGED <<clients, readBuf, toDaemon, open, waiting>>
               /\ \E p \in Fd, m \in Message : Pushes(p, m)
    <2>1. ss.owner \in Fd /\ Pushes(ss.owner, Msg("ForceDetach", s))
      BY <1>1, <1>4 DEF StartTakeover, AttachedHasOwner
    <2> QED BY <1>3, <1>4, <2>1 DEF StartTakeover, Push
  <1>5. ASSUME NEW ss \in Session, ss.prev # NoFd, Release(s, ss)
        PROVE  Unsent \/ \E p \in Fd, m \in Message : Pushes(p, m)
    BY <1>3, <1>5 DEF Release, Push, Session
  <1>6. CASE WsAttach(s)
    <2>1. CASE StartTakeover(s, session[s], "attach")
      BY <1>1, <1>4, <2>1
    <2>2. CASE ~StartTakeover(s, session[s], "attach")
      BY <1>6, <2>2 DEF WsAttach, Unmoved, Unsent, socketVars
    <2> QED BY <2>1, <2>2
  <1>7. CASE WsDetach(s)
    BY <1>2, <1>4, <1>5, <1>7 DEF WsDetach, Unmoved
  <1> QED BY <1>6, <1>7

\* Every step keeps the connections well.
LEMMA ConnectionsStep ==
  ASSUME IInv, TypeOK', Sockets, OneAtATime, Next
  PROVE  Sockets' /\ OneAtATime'
  <1> USE DEF sessionVars, socketVars, clientVars
  <1>0. TypeOK /\ \A c \in Fd : ClientOK(c)
    BY ByClient DEF IInv
  <1>t. \A c \in Fd : /\ readBuf[c] \in Seq(Frame) /\ toDaemon[c] \in Seq(Frame)
                      /\ toClient[c] \in Seq(Message) /\ waiting[c] \in BOOLEAN
    BY <1>0 DEF TypeOK
  <1> SUFFICES \A c \in Fd : ClientOK(c)'
    BY ByClientNext
  \* Client d is well, and the others are left alone.
  <1>one. ASSUME NEW d \in Fd, ClientOK(d)', \A e \in Fd \ {d} : Alone(e)
          PROVE  \A e \in Fd : ClientOK(e)'
    BY <1>0, <1>one, AloneOK
  <1>idle. ASSUME UNCHANGED <<clients, readBuf, toDaemon, toClient, timed, open, waiting>>
           PROVE  \A e \in Fd : ClientOK(e)'
    BY <1>0, <1>idle, AloneOK DEF Alone
  <1>1. ASSUME NEW c \in Fd, Accept(c) PROVE \A e \in Fd : ClientOK(e)'
    <2>1. \A e \in Fd \ {c} : Alone(e)
      BY <1>1 DEF Accept, Alone
    <2>2. Empty(readBuf[c], toDaemon[c], toClient[c]) /\ c \in clients'
          /\ UNCHANGED <<readBuf, toDaemon, toClient>>
      BY <1>0, <1>1 DEF Accept, ClientOK
    <2>3. ClientOK(c)'
      BY <2>2, EmptyLight DEF ClientOK, Empty
    <2> QED BY <1>one, <2>1, <2>3
  <1>2. ASSUME NEW c \in Fd, Disconnect(c) PROVE \A e \in Fd : ClientOK(e)'
    <2>1. \A e \in Fd \ {c} : Alone(e)
      BY <1>0, <1>2 DEF Disconnect, Alone, TypeOK
    <2>2. ClientOK(c)'
      BY <1>0, <1>2 DEF Disconnect, ClientOK, TypeOK, Empty
    <2> QED BY <1>one, <2>1, <2>2
  <1>3. ASSUME NEW c \in Fd, ReadClient(c) PROVE \A e \in Fd : ClientOK(e)'
    <2>1. PICK n \in 1 .. Len(toDaemon[c]) :
            /\ readBuf'  = [readBuf EXCEPT ![c] = @ \o SubSeq(toDaemon[c], 1, n)]
            /\ toDaemon' = [toDaemon EXCEPT ![c] = SubSeq(@, n + 1, Len(@))]
      BY <1>3 DEF ReadClient
    <2>2. c \in clients /\ UNCHANGED <<clients, toClient, timed, open, waiting>>
      BY <1>3 DEF ReadClient
    <2>3. /\ readBuf'[c] = readBuf[c] \o SubSeq(toDaemon[c], 1, n)
          /\ toDaemon'[c] = SubSeq(toDaemon[c], n + 1, Len(toDaemon[c]))
          /\ \A e \in Fd \ {c} : readBuf'[e] = readBuf[e] /\ toDaemon'[e] = toDaemon[e]
      BY <1>0, <2>1 DEF TypeOK
    <2>4. ClientOK(c)'
      BY <1>0, <1>t, <2>2, <2>3, ReadLight DEF ClientOK
    <2> QED BY <1>one, <2>2, <2>3, <2>4 DEF Alone
  <1>13. ASSUME NEW c \in Fd, DisconnectHangs(c) PROVE \A e \in Fd : ClientOK(e)'
    BY <1>13, <1>idle DEF DisconnectHangs
  \* The response of a timed client is cut.
  <1>14. ASSUME NEW c \in Fd, ServeAttachCut(c) PROVE \A e \in Fd : ClientOK(e)'
    <2>1. c \in timed /\ c \in open /\ UNCHANGED <<clients, toDaemon, timed, open, waiting>>
      BY <1>14 DEF ServeAttachCut
    <2>2. \A e \in Fd \ {c} : readBuf'[e] = readBuf[e] /\ toClient'[e] = toClient[e]
      BY <1>0, <1>14 DEF ServeAttachCut, TypeOK
    <2>3. c \in clients /\ c \in timed'
      BY <1>0, <2>1 DEF ClientOK
    <2>4. ClientOK(c)'
      BY <2>1, <2>3 DEF ClientOK
    <2> QED BY <1>one, <2>1, <2>2, <2>4 DEF Alone
  <1>4. ASSUME NEW c \in Fd, Serve(c), ~ServeAttachCut(c) PROVE \A e \in Fd : ClientOK(e)'
    <2>1. PICK m \in Message : m.kind \in Response /\ Answer(c, m)
      BY <1>0, <1>4, ServeAnswers
    <2>2. c \in clients /\ readBuf[c] # <<>>
      BY <1>0, <1>4, ServeAnswers DEF IInv, ServesConnected
    <2>3. UNCHANGED <<clients, toDaemon, timed, open, waiting>>
      BY <2>1 DEF Answer
    <2>4. /\ readBuf'[c] = Tail(readBuf[c])
          /\ toClient'[c] = toClient[c] \/ toClient'[c] = Append(toClient[c], m)
          /\ \A e \in Fd \ {c} : readBuf'[e] = readBuf[e] /\ toClient'[e] = toClient[e]
      BY <1>0, <2>1 DEF Answer, Written, TypeOK
    <2>5. ASSUME c \in open \ timed
          PROVE  Light(readBuf'[c], toDaemon'[c], toClient'[c], waiting'[c])
      <3>1. Light(readBuf[c], toDaemon[c], toClient[c], waiting[c])
        BY <1>0, <2>5 DEF ClientOK
      <3> QED BY <1>t, <2>1, <2>2, <2>3, <2>4, <3>1, AnswerLight
    <2>6. ClientOK(c)'
      BY <1>0, <2>2, <2>3, <2>5 DEF ClientOK
    <2> QED BY <1>one, <2>3, <2>4, <2>6 DEF Alone
  <1>5. ASSUME ServeDone PROVE \A e \in Fd : ClientOK(e)'
    BY <1>5, <1>idle DEF ServeDone
  <1>6. ASSUME AwaitFrame PROVE \A e \in Fd : ClientOK(e)'
    <2>0. PICK c \in Fd : c = pc.fd
      BY <1>6 DEF AwaitFrame, IInv, TypeOK, WaitsOnOwner
    <2>1. PICK n \in 1 .. Len(toDaemon[c]) :
            /\ readBuf' = [readBuf EXCEPT ![c] = Tail(@ \o SubSeq(toDaemon[c], 1, n))]
            /\ toDaemon' = [toDaemon EXCEPT ![c] = SubSeq(@, n + 1, Len(@))]
      BY <1>6, <2>0 DEF AwaitFrame
    <2>2. c \in clients /\ UNCHANGED <<clients, toClient, timed, open, waiting>>
      BY <1>6, <2>0 DEF AwaitFrame, EndOfWait, IInv, WaitsOnOwner
    <2>3. /\ readBuf'[c] = Tail(readBuf[c] \o SubSeq(toDaemon[c], 1, n))
          /\ toDaemon'[c] = SubSeq(toDaemon[c], n + 1, Len(toDaemon[c]))
          /\ \A e \in Fd \ {c} : readBuf'[e] = readBuf[e] /\ toDaemon'[e] = toDaemon[e]
      BY <1>0, <2>1 DEF TypeOK
    <2>4. ClientOK(c)'
      BY <1>0, <1>t, <2>2, <2>3, ReadLight DEF ClientOK
    <2> QED BY <1>one, <2>2, <2>3, <2>4 DEF Alone
  <1>7. ASSUME AwaitNothing PROVE \A e \in Fd : ClientOK(e)'
    BY <1>7, <1>idle DEF AwaitNothing, EndOfWait
  <1>8. ASSUME NEW s \in Sid, WsAttach(s) \/ WsDetach(s) PROVE \A e \in Fd : ClientOK(e)'
    <2>1. /\ UNCHANGED <<clients, readBuf, toDaemon, open, waiting>>
          /\ Unsent \/ \E p \in Fd, m \in Message : Pushes(p, m)
      BY <1>8, WsPushes
    <2>2. ASSUME NEW p \in Fd, NEW m \in Message, Pushes(p, m)
          PROVE  \A e \in Fd : ClientOK(e)'
      <3>1. p \in timed' /\ \A e \in Fd \ {p} : toClient'[e] = toClient[e] /\ (e \in timed' <=> e \in timed)
        BY <1>0, <2>2 DEF Pushes, Written, TypeOK
      <3>2. p \notin clients => toClient'[p] = toClient[p]
        BY <1>0, <2>2 DEF Pushes, Written, CanWrite, ClientOK
      <3>3. ClientOK(p)'
        BY <1>0, <2>1, <3>1, <3>2 DEF ClientOK
      <3> QED BY <1>one, <2>1, <3>1, <3>3 DEF Alone
    <2> QED BY <1>idle, <2>1, <2>2 DEF Unsent
  <1>9. ASSUME NEW s \in Sid, WsCreate(s) \/ WsKill(s) \/ SessionEnds(s) \/ CooldownEnds(s)
        PROVE  \A e \in Fd : ClientOK(e)'
    BY <1>9, <1>idle DEF WsCreate, WsKill, SessionEnds, CooldownEnds, Unsent, Unmoved
  <1>10. ASSUME Cleanup PROVE \A e \in Fd : ClientOK(e)'
    BY <1>10, EmptyLight DEF Cleanup, ClientOK
  <1>11. ASSUME WsShutdown \/ Terminated PROVE \A e \in Fd : ClientOK(e)'
    BY <1>11, <1>idle DEF WsShutdown, Terminated, vars
  <1>12. ASSUME NEW c \in Fd, Client(c) PROVE \A e \in Fd : ClientOK(e)'
    <2>0. c \in open /\ UNCHANGED <<clients, readBuf, timed>>
      BY <1>12 DEF Client, ClientSends, ClientGetsResponse, ClientGetsStray, ClientYields,
                   ClientResumes, ClientCannotResume, ClientDies, ClientUnchanged, Receives
    <2>1. \A e \in Fd \ {c} : Alone(e)
      <3>1. \A e \in Fd \ {c} : toDaemon'[e] = toDaemon[e] /\ toClient'[e] = toClient[e]
                                /\ waiting'[e] = waiting[e] /\ (e \in open' <=> e \in open)
        BY <1>0, <1>12 DEF Client, ClientSends, ClientGetsResponse, ClientGetsStray,
             ClientYields, ClientResumes, ClientCannotResume, ClientDies, Receives, TypeOK
      <3> QED BY <2>0, <3>1 DEF Alone
    <2> SUFFICES ClientOK(c)'
      BY <1>one, <2>1
    <2>2. c \in clients
      BY <1>0, <2>0 DEF ClientOK
    <2>3. ASSUME NEW f \in Frame, ClientSends(c, f) PROVE ClientOK(c)'
      <3>1. /\ waiting[c] = FALSE /\ waiting'[c] = TRUE /\ toDaemon'[c] = Append(toDaemon[c], f)
            /\ UNCHANGED <<toClient, open>>
        BY <1>0, <2>3 DEF ClientSends, TypeOK
      <3> QED BY <1>0, <1>t, <2>0, <2>2, <3>1, SendLight DEF ClientOK
    <2>4. CASE ClientGetsResponse(c)
      <3>1. /\ waiting'[c] = FALSE /\ toClient[c] # <<>> /\ toClient'[c] = Tail(toClient[c])
            /\ UNCHANGED <<toDaemon, open>>
        BY <1>0, <2>4 DEF ClientGetsResponse, Receives, TypeOK
      <3>2. ASSUME c \in open \ timed
            PROVE  Light(readBuf'[c], toDaemon'[c], toClient'[c], waiting'[c])
        <4>1. Light(readBuf[c], toDaemon[c], toClient[c], waiting[c])
          BY <1>0, <3>2 DEF ClientOK
        <4> QED BY <1>t, <2>0, <3>1, <4>1, ReceiveLight
      <3> QED BY <2>0, <2>2, <3>1, <3>2 DEF ClientOK
    \* A push is taken in: the client is a timed one.
    <2>5. CASE \/ ClientYields(c) \/ ClientResumes(c) \/ ClientCannotResume(c)
               \/ ClientGetsStray(c)
      <3>1. toClient[c] # <<>> /\ Head(toClient[c]).kind \notin Response /\ UNCHANGED open
        BY <2>5 DEF ClientYields, ClientResumes, ClientCannotResume, ClientGetsStray, Receives,
                    Response
      <3>2. c \in timed
        BY <1>0, <1>t, <2>0, <3>1, ReceiveLight DEF ClientOK
      <3>3. c \in clients' /\ c \in timed'
        BY <2>0, <2>2, <3>2
      <3> QED BY <3>3 DEF ClientOK
    <2>6. CASE ClientDies(c)
      <3>1. c \in clients' /\ c \notin open'
        BY <2>0, <2>2, <2>6 DEF ClientDies
      <3> QED BY <3>1 DEF ClientOK
    <2> QED BY <1>12, <2>3, <2>4, <2>5, <2>6 DEF Client
  <1> QED BY <1>1, <1>2, <1>3, <1>4, <1>5, <1>6, <1>7, <1>8, <1>9, <1>10, <1>11, <1>12,
             <1>13, <1>14 DEF Next, Daemon, Environment

-----------------------------------------------------------------------------
(* A request is not lost *)

\* Pending, of the buffers r, d and t of a client.
PendingIn(r, d, t) == \/ \E i \in 1 .. Len(r) : r[i].kind \notin Ack
                      \/ \E i \in 1 .. Len(d) : d[i].kind \notin Ack
                      \/ \E i \in 1 .. Len(t) : t[i].kind \in Response

\* Pending is PendingIn of the client's own buffers.
LEMMA PendingIs ==
  ASSUME TypeOK, NEW c \in Fd
  PROVE  Pending(c) <=> PendingIn(readBuf[c], toDaemon[c], toClient[c])
  <1>1. readBuf[c] \in Seq(Frame) /\ toDaemon[c] \in Seq(Frame) /\ toClient[c] \in Seq(Message)
    BY DEF TypeOK
  <1>2. /\ DOMAIN readBuf[c] = 1 .. Len(readBuf[c]) /\ DOMAIN toDaemon[c] = 1 .. Len(toDaemon[c])
        /\ DOMAIN toClient[c] = 1 .. Len(toClient[c])
    BY <1>1
  <1> QED BY <1>2 DEF Pending, PendingIn

\* The same of the next state.
LEMMA PendingIsNext ==
  ASSUME TypeOK', NEW c \in Fd, PendingIn(readBuf'[c], toDaemon'[c], toClient'[c])
  PROVE  Pending(c)'
  <1>1. /\ readBuf'[c] \in Seq(Frame) /\ toDaemon'[c] \in Seq(Frame)
        /\ toClient'[c] \in Seq(Message)
    BY DEF TypeOK
  <1>2. /\ DOMAIN readBuf'[c] = 1 .. Len(readBuf'[c])
        /\ DOMAIN toDaemon'[c] = 1 .. Len(toDaemon'[c])
        /\ DOMAIN toClient'[c] = 1 .. Len(toClient'[c])
    BY <1>1
  <1> QED BY <1>2 DEF Pending, PendingIn

\* A read moves the request along with the frames around it.
LEMMA ReadPending ==
  ASSUME NEW r \in Seq(Frame), NEW d \in Seq(Frame), NEW t, NEW n \in 1 .. Len(d),
         PendingIn(r, d, t)
  PROVE  PendingIn(r \o SubSeq(d, 1, n), SubSeq(d, n + 1, Len(d)), t)
  <1> DEFINE p == SubSeq(d, 1, n)
             e == SubSeq(d, n + 1, Len(d))
             b == r \o p
  <1>1. /\ p \in Seq(Frame) /\ Len(p) = n /\ e \in Seq(Frame) /\ Len(e) = Len(d) - n
        /\ Len(d) \in Nat /\ n \in Nat \ {0} /\ Len(r) \in Nat
        /\ \A i \in 1 .. n : p[i] = d[i]
    BY SubSeqProperties, SMT
  <1>2. \A i \in 1 .. Len(d) - n : e[i] = d[n + i]
    BY SubSeqProperties, SMT
  <1> HIDE DEF p, e
  <1>3. p \in Seq(Frame)
    BY <1>1
  <1>4. /\ Len(b) = Len(r) + Len(p) /\ \A i \in 1 .. Len(r) : b[i] = r[i]
        /\ \A i \in 1 .. Len(p) : b[Len(r) + i] = p[i]
    BY <1>3
  <1> HIDE DEF b
  <1>5. ASSUME NEW i \in 1 .. Len(r), r[i].kind \notin Ack PROVE PendingIn(b, e, t)
    <2>1. i \in 1 .. Len(b) /\ b[i] = r[i]
      BY <1>1, <1>4
    <2> QED BY <1>5, <2>1 DEF PendingIn
  <1>6. ASSUME NEW i \in 1 .. Len(d), d[i].kind \notin Ack PROVE PendingIn(b, e, t)
    <2>1. CASE i <= n
      <3>1. i \in 1 .. n /\ Len(r) + i \in 1 .. Len(b)
        BY <1>1, <1>4, <2>1
      <3>2. b[Len(r) + i] = d[i]
        BY <1>1, <1>4, <3>1
      <3> QED BY <1>6, <3>1, <3>2 DEF PendingIn
    <2>2. CASE i > n
      <3>1. i - n \in 1 .. Len(e) /\ i - n \in 1 .. Len(d) - n /\ n + (i - n) = i
        BY <1>1, <2>2
      <3>2. e[i - n] = d[i]
        BY <1>2, <3>1
      <3> QED BY <1>6, <3>1, <3>2 DEF PendingIn
    <2> QED BY <1>1, <2>1, <2>2
  <1> QED BY <1>5, <1>6 DEF PendingIn, b, p, e

\* Sending more frames, in either direction, loses none.
LEMMA AppendPending ==
  ASSUME NEW r, NEW d \in Seq(Frame), NEW t \in Seq(Message), NEW f, NEW m,
         PendingIn(r, d, t)
  PROVE  PendingIn(r, Append(d, f), t) /\ PendingIn(r, d, Append(t, m))
  <1>1. /\ \A i \in 1 .. Len(d) : i \in 1 .. Len(Append(d, f)) /\ Append(d, f)[i] = d[i]
        /\ \A i \in 1 .. Len(t) : i \in 1 .. Len(Append(t, m)) /\ Append(t, m)[i] = t[i]
    OBVIOUS
  <1> QED BY <1>1 DEF PendingIn

\* A response on its way is what the client waits for.
LEMMA ResponsePending ==
  ASSUME NEW r, NEW d, NEW t \in Seq(Message), NEW m \in Message, m.kind \in Response
  PROVE  PendingIn(r, d, Append(t, m))
  <1>1. Len(t) + 1 \in 1 .. Len(Append(t, m)) /\ Append(t, m)[Len(t) + 1] = m
    OBVIOUS
  <1> QED BY <1>1 DEF PendingIn

\* Taking in a push leaves the response where it is.
LEMMA PushPending ==
  ASSUME NEW r, NEW d, NEW t \in Seq(Message), t # <<>>, Head(t).kind \notin Response,
         PendingIn(r, d, t)
  PROVE  PendingIn(r, d, Tail(t))
  <1>1. \A i \in 1 .. Len(t) : i = 1 \/ (i - 1 \in 1 .. Len(Tail(t)) /\ Tail(t)[i - 1] = t[i])
    OBVIOUS
  <1>2. Head(t) = t[1]
    OBVIOUS
  <1> QED BY <1>1, <1>2 DEF PendingIn

\* No step loses the request of a client that goes on waiting, but for the frame
\* a takeover wait takes out and the response that times out.
LEMMA RequestStep ==
  ASSUME IInv, TypeOK', Next, NEW c \in open \cap open', waiting[c], waiting'[c], Pending(c),
         ~(pc.at = "await" /\ pc.fd = c),
         ~(pc.at = "serve" /\ pc.fd = c /\ c \in timed /\ ~CanWrite(c))
  PROVE  Pending(c)'
  <1> USE DEF sessionVars, socketVars, clientVars
  <1>0. TypeOK /\ c \in Fd /\ c \in open /\ c \in open'
    BY DEF IInv, TypeOK
  <1>t. readBuf[c] \in Seq(Frame) /\ toDaemon[c] \in Seq(Frame) /\ toClient[c] \in Seq(Message)
    BY <1>0 DEF TypeOK
  <1>p. PendingIn(readBuf[c], toDaemon[c], toClient[c])
    BY <1>0, PendingIs
  <1> SUFFICES PendingIn(readBuf'[c], toDaemon'[c], toClient'[c])
    BY <1>0, PendingIsNext
  <1> DEFINE Goal == PendingIn(readBuf'[c], toDaemon'[c], toClient'[c])
  <1>idle. ASSUME readBuf'[c] = readBuf[c], toDaemon'[c] = toDaemon[c], toClient'[c] = toClient[c]
           PROVE  Goal
    BY <1>p, <1>idle
  <1>1. ASSUME NEW d \in Fd, Accept(d) PROVE Goal
    BY <1>1, <1>idle DEF Accept
  <1>2. ASSUME NEW d \in Fd, Disconnect(d) PROVE Goal
    BY <1>0, <1>2, <1>idle DEF Disconnect, TypeOK
  <1>3. ASSUME NEW d \in Fd, ReadClient(d) PROVE Goal
    <2>1. PICK n \in 1 .. Len(toDaemon[d]) :
            /\ readBuf'  = [readBuf EXCEPT ![d] = @ \o SubSeq(toDaemon[d], 1, n)]
            /\ toDaemon' = [toDaemon EXCEPT ![d] = SubSeq(@, n + 1, Len(@))]
      BY <1>3 DEF ReadClient
    <2>2. toClient' = toClient
      BY <1>3 DEF ReadClient
    <2>3. CASE d = c
      <3>1. /\ readBuf'[c] = readBuf[c] \o SubSeq(toDaemon[c], 1, n)
            /\ toDaemon'[c] = SubSeq(toDaemon[c], n + 1, Len(toDaemon[c]))
            /\ n \in 1 .. Len(toDaemon[c])
        BY <1>0, <2>1, <2>3 DEF TypeOK
      <3> QED BY <1>t, <1>p, <2>2, <3>1, ReadPending
    <2>4. CASE d # c
      BY <1>0, <1>idle, <2>1, <2>2, <2>4 DEF TypeOK
    <2> QED BY <2>3, <2>4
  <1>13. ASSUME NEW d \in Fd, DisconnectHangs(d) PROVE Goal
    BY <1>13, <1>idle DEF DisconnectHangs
  <1>14. ASSUME NEW d \in Fd, ServeAttachCut(d) PROVE Goal
    <2>1. d # c
      BY <1>14 DEF ServeAttachCut, Serves
    <2> QED BY <1>0, <1>14, <1>idle, <2>1 DEF ServeAttachCut, TypeOK
  <1>4. ASSUME NEW d \in Fd, Serve(d), ~ServeAttachCut(d) PROVE Goal
    <2>1. PICK m \in Message : m.kind \in Response /\ Answer(d, m)
      BY <1>0, <1>4, ServeAnswers
    <2>2. pc.at = "serve" /\ pc.fd = d
      BY <1>0, <1>4, ServeAnswers
    <2>3. CASE d = c
      <3>1. CanWrite(c)
        BY <1>0, <2>1, <2>2, <2>3 DEF Answer, MayAnswer
      <3>2. toClient'[c] = Append(toClient[c], m)
        BY <1>0, <2>1, <2>3, <3>1 DEF Answer, Written, TypeOK
      <3> QED BY <1>t, <2>1, <3>2, ResponsePending
    <2>4. CASE d # c
      BY <1>0, <1>idle, <2>1, <2>4 DEF Answer, Written, TypeOK
    <2> QED BY <2>3, <2>4
  <1>5. ASSUME ServeDone PROVE Goal
    BY <1>5, <1>idle DEF ServeDone
  <1>6. ASSUME AwaitFrame \/ AwaitNothing PROVE Goal
    <2>1. pc.fd # c /\ toClient' = toClient
      BY <1>6 DEF AwaitFrame, AwaitNothing, EndOfWait
    <2>2. readBuf'[c] = readBuf[c] /\ toDaemon'[c] = toDaemon[c]
      BY <1>0, <1>6, <2>1 DEF AwaitFrame, AwaitNothing, TypeOK
    <2> QED BY <1>idle, <2>1, <2>2
  <1>7. ASSUME NEW s \in Sid, WsAttach(s) \/ WsDetach(s) PROVE Goal
    <2>1. /\ UNCHANGED <<readBuf, toDaemon>>
          /\ Unsent \/ \E p \in Fd, m \in Message : Pushes(p, m)
      BY <1>7, WsPushes
    <2>2. ASSUME NEW p \in Fd, NEW m \in Message, Pushes(p, m) PROVE Goal
      <3>1. toClient'[c] = toClient[c] \/ toClient'[c] = Append(toClient[c], m)
        BY <1>0, <2>2 DEF Pushes, Written, TypeOK
      <3> QED BY <1>t, <1>p, <2>1, <3>1, AppendPending
    <2> QED BY <1>idle, <2>1, <2>2 DEF Unsent
  <1>8. ASSUME NEW s \in Sid, WsCreate(s) \/ WsKill(s) \/ SessionEnds(s) \/ CooldownEnds(s)
        PROVE  Goal
    BY <1>8, <1>idle DEF WsCreate, WsKill, SessionEnds, CooldownEnds, Unsent, Unmoved
  <1>9. ASSUME Cleanup PROVE Goal
    BY <1>0, <1>9 DEF Cleanup
  <1>10. ASSUME WsShutdown \/ Terminated PROVE Goal
    BY <1>10, <1>idle DEF WsShutdown, Terminated, vars
  <1>11. ASSUME NEW d \in Fd, Client(d), d # c PROVE Goal
    <2>1. readBuf' = readBuf
      BY <1>11 DEF Client, ClientSends, ClientGetsResponse, ClientGetsStray, ClientYields,
                   ClientResumes, ClientCannotResume, ClientDies, ClientUnchanged
    <2>2. toDaemon'[c] = toDaemon[c] /\ toClient'[c] = toClient[c]
      BY <1>0, <1>11 DEF Client, ClientSends, ClientGetsResponse, ClientGetsStray,
             ClientYields, ClientResumes, ClientCannotResume, ClientDies, Receives, TypeOK
    <2> QED BY <1>idle, <2>1, <2>2
  <1>12. ASSUME Client(c) PROVE Goal
    <2>1. /\ ~\E f \in Frame : ClientSends(c, f)
          /\ ~ClientGetsResponse(c) /\ ~ClientDies(c)
      BY <1>0 DEF ClientSends, ClientGetsResponse, ClientDies, TypeOK
    <2>2. ClientYields(c) \/ ClientResumes(c) \/ ClientCannotResume(c) \/ ClientGetsStray(c)
      BY <1>12, <2>1 DEF Client
    <2>3. /\ toClient[c] # <<>> /\ Head(toClient[c]).kind \notin Response
          /\ toClient'[c] = Tail(toClient[c]) /\ readBuf' = readBuf
      BY <1>0, <2>2 DEF ClientYields, ClientResumes, ClientCannotResume, ClientGetsStray,
                        Receives, Response, ClientUnchanged, TypeOK
    <2>4. toDaemon'[c] = toDaemon[c] \/ \E f : toDaemon'[c] = Append(toDaemon[c], f)
      BY <1>0, <2>2 DEF ClientYields, ClientResumes, ClientCannotResume, ClientGetsStray, TypeOK
    <2>5. PendingIn(readBuf[c], toDaemon[c], Tail(toClient[c]))
      BY <1>t, <1>p, <2>3, PushPending
    <2>6. Tail(toClient[c]) \in Seq(Message)
      BY <1>t, <2>3
    <2> QED BY <1>t, <2>3, <2>4, <2>5, <2>6, AppendPending
  <1> QED BY <1>1, <1>2, <1>3, <1>4, <1>5, <1>6, <1>7, <1>8, <1>9, <1>10, <1>11, <1>12,
             <1>13, <1>14 DEF Next, Daemon, Environment

-----------------------------------------------------------------------------
(* The theorems *)

\* The daemon starts without clients and sessions (Server::new).
LEMMA ClientInit == Init => ClientInv
  <1> SUFFICES ASSUME Init PROVE ClientInv
    OBVIOUS
  <1>1. WaitsForOne /\ AttachedIsServed
    BY DEF Init, WaitsForOne, AttachedIsServed, AtLoop
  <1>2. Sockets /\ OneAtATime
    BY DEF Init, Sockets, OneAtATime
  <1> QED BY <1>1, <1>2 DEF ClientInv

\* ClientInv is inductive, relative to IInv.
LEMMA ClientStep == IInv /\ IInv' /\ ClientInv /\ [Next]_vars => ClientInv'
  <1>1. ASSUME IInv, IInv', ClientInv, Next PROVE ClientInv'
    <2>1. TypeOK'
      BY <1>1 DEF IInv
    <2> QED BY <1>1, <2>1, WaitsForOneStep, AttachedStep, ConnectionsStep DEF ClientInv
  <1>2. ASSUME ClientInv, UNCHANGED vars PROVE ClientInv'
    <2>1. UNCHANGED <<ids, session, clients, pc, readBuf, open, toDaemon, toClient, timed,
                      waiting, holds, missed>>
      BY <1>2 DEF vars, sessionVars, socketVars, clientVars
    <2>2. WaitsForOne' /\ Sockets' /\ OneAtATime'
      BY <1>2, <2>1 DEF ClientInv, WaitsForOne, Sockets, OneAtATime
    <2>3. AttachedIsServed'
      BY <1>2, <2>1 DEF ClientInv, AttachedIsServed, GivenTo
    <2> QED BY <2>2, <2>3 DEF ClientInv
  <1> QED BY <1>1, <1>2

\* The connections of every reachable state satisfy ClientInv, with any number of
\* clients and sessions and sockets of any size.
THEOREM ClientInvariance == Spec => []ClientInv
  BY Invariance, ClientInit, ClientStep, PTL DEF Spec

\* The owner of an attached session was sent the descriptor to read it with, and it
\* was not called back since, whatever takeovers, releases and detaches overlapped
\* (handle_attach, handle_baton_release): if the PTY has no reader, the client's own
\* read has thrown the descriptor away.
THEOREM AttachedIsServedHolds == Spec => []AttachedIsServed
  <1>1. ClientInv => AttachedIsServed
    BY DEF ClientInv
  <1> QED BY <1>1, ClientInvariance, PTL

\* write_all of a response cannot block the loop for good: a client without the
\* write timeout of a push has one frame under way, so its socket has room.
THEOREM NeverStuckHolds == Spec => []NeverStuck
  <1>1. IInv /\ ClientInv => NeverStuck
    <2> SUFFICES ASSUME IInv, ClientInv, pc.at = "serve", readBuf[pc.fd] # <<>>,
                        pc.fd \in open \ timed
                 PROVE  CanWrite(pc.fd)
      BY DEF NeverStuck, MayAnswer
    <2> DEFINE r == readBuf[pc.fd]  d == toDaemon[pc.fd]  t == toClient[pc.fd]
    <2>1. r \in Seq(Frame) /\ d \in Seq(Frame) /\ t \in Seq(Message)
      BY DEF IInv, TypeOK
    <2>2. Len(r) + (Len(d) + Len(t)) <= IF waiting[pc.fd] THEN 1 ELSE 0
      BY DEF ClientInv, OneAtATime
    <2> HIDE DEF r, d, t
    <2>3. Len(r) \in Nat \ {0} /\ Len(d) \in Nat /\ Len(t) \in Nat
      BY <2>1 DEF r
    <2>4. Len(r) + (Len(d) + Len(t)) <= 1
      BY <2>2, <2>3
    <2>5. Len(t) = 0
      BY <2>3, <2>4
    <2>6. QBound \in Nat /\ QBound # 0
      BY PtyAssumption
    <2>7. Len(t) < QBound
      BY <2>5, <2>6
    <2> QED BY <2>7 DEF CanWrite, t
  <1> QED BY <1>1, Invariance, ClientInvariance, PTL

\* A request of a live client is answered, or still on its way, unless a takeover
\* wait takes it out or its response finds no room within the write timeout.
THEOREM RequestKeptHolds == Spec => RequestKept
  <1> DEFINE Kept == \A c \in open \cap open' :
                       waiting[c] /\ waiting'[c] /\ Pending(c)
                         => \/ Pending(c)'
                            \/ pc.at = "await" /\ pc.fd = c
                            \/ pc.at = "serve" /\ pc.fd = c /\ c \in timed /\ ~CanWrite(c)
  <1>1. IInv /\ IInv' /\ [Next]_vars => [Kept]_vars
    BY RequestStep DEF IInv
  <1>2. Spec => [][Kept]_vars
    BY <1>1, Invariance, PTL DEF Spec
  <1> QED BY <1>2 DEF RequestKept
=============================================================================
