-------------------------- MODULE PtyServerProofs --------------------------
(* Proofs about PtyServer and its refinement of PtyOwnership, for every    *)
(* set of descriptors and sessions.                                        *)
EXTENDS PtyServer, SessionProofs, TLAPS, SequenceTheorems

\* Taking a frame out of a read buffer leaves frames (try_decode_message).
LEMMA FrameOK == \A q \in Seq(Frame) : q # <<>> =>
                    /\ Head(q) \in Frame /\ Tail(q) \in Seq(Frame)
  OBVIOUS

\* A request about a session names one.
LEMMA SessionSid == \A f \in Frame : f.kind \in SessionRequest => f.sid \in Sid
  BY DEF Frame, SessionRequest, PlainRequest, Ack

\* What one read moves from the socket to read_buf is frames, at least one.
LEMMA ReadOK ==
  ASSUME NEW q \in Seq(Frame), NEW b \in Seq(Frame), NEW n \in 1 .. Len(q)
  PROVE  /\ b \o SubSeq(q, 1, n) \in Seq(Frame)
         /\ b \o SubSeq(q, 1, n) # <<>>
         /\ SubSeq(q, n + 1, Len(q)) \in Seq(Frame)
  <1> DEFINE p == SubSeq(q, 1, n)
  <1>1. p \in Seq(Frame) /\ Len(p) = n
    BY SubSeqProperties, SMT
  <1>2. SubSeq(q, n + 1, Len(q)) \in Seq(Frame)
    BY SubSeqProperties, SMT
  <1> HIDE DEF p
  <1>3. b \o p \in Seq(Frame) /\ Len(b \o p) = Len(b) + Len(p)
    BY <1>1
  <1>4. b \o p # <<>>
    BY <1>1, <1>3, Len(b) \in Nat, n \in Nat \ {0}, SMT
  <1> QED BY <1>2, <1>3, <1>4 DEF p

-----------------------------------------------------------------------------
(* Type correctness *)

\* The messages the handlers and the clients build are well typed.
LEMMA MsgOK == /\ Reply \in Message
               /\ \A k \in (Response \cup Push \cup {"StrayFd"}) \ {"Reply"}, s \in Sid :
                     Msg(k, s) \in Message
               /\ \A k \in Ack, s \in Sid : Msg(k, s) \in Frame
  BY DEF Reply, Msg, Message, Response, Push, Frame, Ack

\* A write, done or lost, leaves messages in the socket.
LEMMA WrittenOK ==
  ASSUME TypeOK, NEW c \in Fd, NEW m \in Message
  PROVE  Written(c, m) \in [Fd -> Seq(Message)]
  BY DEF TypeOK, Written

\* So does a push.
LEMMA PushesOK ==
  ASSUME TypeOK, NEW c \in Fd, NEW m \in Message, Pushes(c, m)
  PROVE  toClient' \in [Fd -> Seq(Message)] /\ timed' \subseteq Fd
  BY WrittenOK DEF Pushes, TypeOK

\* Answering a request keeps the buffers well typed and moves nothing else.
LEMMA AnswerOK ==
  ASSUME TypeOK, NEW c \in Fd, NEW m \in Message, readBuf[c] # <<>>, Answer(c, m)
  PROVE  /\ readBuf' \in [Fd -> Seq(Frame)] /\ toClient' \in [Fd -> Seq(Message)]
         /\ UNCHANGED <<clients, pc, open, toDaemon, timed, waiting, holds, missed>>
  <1>1. toClient' \in [Fd -> Seq(Message)]
    BY WrittenOK DEF Answer
  <1>2. Tail(readBuf[c]) \in Seq(Frame)
    BY FrameOK DEF TypeOK
  <1>3. readBuf' \in [Fd -> Seq(Frame)]
    BY <1>2 DEF Answer, TypeOK
  <1> QED BY <1>1, <1>3 DEF Answer, clientVars

\* A served request about a session names one.
LEMMA ServedSid ==
  ASSUME TypeOK, NEW c \in Fd, NEW k \in SessionRequest, Serves(c, k)
  PROVE  Head(readBuf[c]).sid \in Sid
  BY FrameOK, SessionSid DEF TypeOK, Serves

\* DaemonReads, Remove and Created keep the session table well typed.
LEMMA TableOK ==
  ASSUME TypeOK, NEW s \in Sid
  PROVE  /\ \A ss \in Session : DaemonReads(s, ss) =>
              ids' \subseteq Sid /\ used' \subseteq Sid /\ kq' \subseteq Sid
                /\ odd' \subseteq Sid /\ session' \in [Sid -> Session]
         /\ Remove(s) \/ Created(s) =>
              ids' \subseteq Sid /\ used' \subseteq Sid /\ kq' \subseteq Sid
                /\ odd' \subseteq Sid /\ session' \in [Sid -> Session]
  BY NewSessionOK DEF TypeOK, DaemonReads, Remove, Created

\* The positions of the event loop are well typed.
LEMMA PCOK == /\ AtLoop \in PC /\ Hung \in PC /\ Down \in PC
              /\ \A c \in Fd : Serving(c) \in PC
              /\ \A c \in Fd, s \in Sid, th \in {"none", "attach", "detach"} :
                    Awaiting(c, s, th) \in PC
  BY DEF AtLoop, Hung, Down, Serving, Awaiting, PC

\* force_complete_takeover keeps the session table well typed.
LEMMA CompleteTakeoverOK ==
  ASSUME TypeOK, NEW s \in Sid, NEW ss \in Session, NEW th,
         CompleteTakeover(s, ss, th)
  PROVE  /\ ids' \subseteq Sid /\ used' \subseteq Sid /\ kq' \subseteq Sid
         /\ odd' \subseteq Sid /\ session' \in [Sid -> Session]
         /\ pc' \in PC
  <1>1. BatonDetach(ss) \in Session /\ WsJoined(BatonDetach(ss)) \in Session
    BY BatonDetachOK, WsCountOK
  <1>2. DaemonReads(s, BatonDetach(ss)) \/ DaemonReads(s, WsJoined(BatonDetach(ss)))
    BY DEF CompleteTakeover
  <1>3. pc' \in PC
    BY PCOK DEF CompleteTakeover, DumpHangs
  <1> QED BY <1>1, <1>2, <1>3, TableOK

\* handle_baton_takeover is well typed for a session that has an owner.
LEMMA StartTakeoverOK ==
  ASSUME TypeOK, NEW s \in Sid, NEW ss \in Session, ss.owner \in Fd,
         NEW th \in {"attach", "detach"}, StartTakeover(s, ss, th)
  PROVE  TypeOK'
  <1>1. toClient' \in [Fd -> Seq(Message)] /\ timed' \subseteq Fd
    BY PushesOK, MsgOK DEF StartTakeover, Push, Response
  <1>2. CASE CanWrite(ss.owner)
    <2>1. /\ session' = [session EXCEPT ![s] = ss] /\ UNCHANGED <<ids, used, kq, odd>>
          /\ pc' = Awaiting(ss.owner, s, th)
      BY <1>2 DEF StartTakeover
    <2>2. session' \in [Sid -> Session]
      BY <2>1 DEF TypeOK
    <2>3. pc' \in PC
      BY <2>1, PCOK
    <2> QED BY <1>1, <2>1, <2>2, <2>3 DEF StartTakeover, TypeOK, clientVars
  <1>3. CASE ~CanWrite(ss.owner)
    BY <1>1, <1>3, CompleteTakeoverOK DEF StartTakeover, TypeOK, clientVars
  <1> QED BY <1>2, <1>3

\* handle_baton_release is well typed for a session that has a previous owner.
LEMMA ReleaseOK ==
  ASSUME TypeOK, NEW s \in Sid, NEW ss \in Session, ss.prev \in Fd, Release(s, ss)
  PROVE  /\ ids' \subseteq Sid /\ used' \subseteq Sid /\ kq' \subseteq Sid
         /\ odd' \subseteq Sid /\ session' \in [Sid -> Session]
         /\ toClient' \in [Fd -> Seq(Message)] /\ timed' \subseteq Fd
  <1> DEFINE p == ss.prev
  <1>1. Msg("ResumeAttach", s) \in Message /\ Msg("ResumeNoFd", s) \in Message
    BY MsgOK DEF Push, Response
  <1>2. CASE session' = [session EXCEPT ![s] =
               [Attach(ss, p) EXCEPT !.prev = NoFd, !.cooldown = TRUE]]
             /\ Pushes(p, Msg("ResumeAttach", s))
             /\ kq' = kq \ {s} /\ UNCHANGED <<ids, used, odd>>
    <2>1. toClient' \in [Fd -> Seq(Message)] /\ timed' \subseteq Fd
      BY <1>1, <1>2, PushesOK
    <2> QED BY <1>2, <2>1, ResumedOK DEF TypeOK
  <1>3. CASE Pushes(p, Msg("ResumeNoFd", s))
             /\ DaemonReads(s, Detach([ss EXCEPT !.prev = NoFd]))
    <2>1. toClient' \in [Fd -> Seq(Message)] /\ timed' \subseteq Fd
      BY <1>1, <1>3, PushesOK
    <2> QED BY <1>3, <2>1, NoPrevOK, DetachOK, TableOK
  <1>4. CASE Unsent /\ DaemonReads(s, Detach(ss))
    BY <1>4, DetachOK, TableOK DEF Unsent, TypeOK
  <1> QED BY <1>2, <1>3, <1>4 DEF Release

\* What a takeover needs of the session it takes over, beyond its type: an
\* attached session has an owner.  (WsDetach and WsAttach are typed with it.)
AttachedHasOwner ==
  /\ \A s \in ids : session[s].state = "Attached" => session[s].owner \in Fd
  /\ pc.at = "await" => pc.sid \in Sid /\ pc.fd \in Fd
  /\ pc.at = "serve" => pc.fd \in Fd

\* Every step is well typed.
LEMMA TypeStep ==
  ASSUME TypeOK, AttachedHasOwner, Next
  PROVE  TypeOK'
  <1> USE DEF sessionVars, socketVars, clientVars
  <1>1. ASSUME NEW c \in Fd, Accept(c) PROVE TypeOK'
    BY <1>1 DEF Accept, TypeOK
  <1>2. ASSUME NEW c \in Fd, Disconnect(c) PROVE TypeOK'
    <2>1. session' \in [Sid -> Session]
      BY <1>2, WithoutClientOK DEF Disconnect, TypeOK
    <2>2. kq' \subseteq Sid
      BY <1>2 DEF Disconnect, TypeOK
    <2>3. <<>> \in Seq(Frame) /\ <<>> \in Seq(Message)
      OBVIOUS
    <2> QED BY <1>2, <2>1, <2>2, <2>3 DEF Disconnect, TypeOK
  <1>16. ASSUME NEW c \in Fd, DisconnectHangs(c) PROVE TypeOK'
    BY <1>16, PCOK DEF DisconnectHangs, DumpHangs, TypeOK
  <1>3. ASSUME NEW c \in Fd, ReadClient(c) PROVE TypeOK'
    <2>1. PICK n \in 1 .. Len(toDaemon[c]) :
            /\ readBuf'  = [readBuf EXCEPT ![c] = @ \o SubSeq(toDaemon[c], 1, n)]
            /\ toDaemon' = [toDaemon EXCEPT ![c] = SubSeq(@, n + 1, Len(@))]
      BY <1>3 DEF ReadClient
    <2>2. toDaemon[c] \in Seq(Frame) /\ readBuf[c] \in Seq(Frame)
      BY DEF TypeOK
    <2>3. readBuf' \in [Fd -> Seq(Frame)] /\ toDaemon' \in [Fd -> Seq(Frame)]
      BY <2>1, <2>2, ReadOK DEF TypeOK
    <2> QED BY <1>3, <2>3, PCOK DEF ReadClient, TypeOK
  <1>4. ASSUME NEW c \in Fd, Serve(c) PROVE TypeOK'
    <2> DEFINE f == Head(readBuf[c])
    <2>1. CASE ServeCreate(c)
      <3>1. /\ ids' \subseteq Sid /\ used' \subseteq Sid /\ kq' \subseteq Sid
            /\ odd' \subseteq Sid /\ session' \in [Sid -> Session]
        BY <2>1, TableOK DEF ServeCreate, TypeOK
      <3> QED BY <2>1, <3>1, AnswerOK, MsgOK DEF ServeCreate, Serves, TypeOK
    <2>2. CASE ServeAttach(c)
      <3>1. f.sid \in Sid
        BY <2>2, ServedSid DEF ServeAttach, SessionRequest
      <3>2. session' \in [Sid -> Session]
        BY <2>2, <3>1, AttachOK DEF ServeAttach, TypeOK
      <3>3. Msg("AttachReady", f.sid) \in Message
        BY <3>1, MsgOK DEF Response
      <3> QED BY <2>2, <3>2, <3>3, AnswerOK DEF ServeAttach, Serves, TypeOK
    <2>10. CASE ServeAttachCut(c)
      <3>1. f.sid \in Sid /\ readBuf[c] # <<>>
        BY <2>10, ServedSid DEF ServeAttachCut, SessionRequest, Serves
      <3>2. session' \in [Sid -> Session]
        BY <2>10, <3>1, AttachOK DEF ServeAttachCut, TypeOK
      <3>3. Msg("StrayFd", f.sid) \in Message
        BY <3>1, MsgOK
      <3>4. toClient' \in [Fd -> Seq(Message)]
        BY <2>10, <3>3 DEF ServeAttachCut, TypeOK
      <3>5. Tail(readBuf[c]) \in Seq(Frame)
        BY <3>1, FrameOK DEF TypeOK
      <3>6. readBuf' \in [Fd -> Seq(Frame)]
        BY <2>10, <3>5 DEF ServeAttachCut, TypeOK
      <3> QED BY <2>10, <3>2, <3>4, <3>6 DEF ServeAttachCut, TypeOK
    <2>3. CASE ServeAttachRefused(c)
      BY <2>3, AnswerOK, MsgOK DEF ServeAttachRefused, Serves, TypeOK
    <2>4. CASE ServeAttachReverted(c)
      <3>1. f.sid \in Sid
        BY <2>4, ServedSid DEF ServeAttachReverted, SessionRequest
      <3>2. Reverted(session[f.sid], c) \in Session
        BY <3>1, AttachOK, DetachOK DEF Reverted, TypeOK
      <3>3. Msg("AttachNoFd", f.sid) \in Message
        BY <3>1, MsgOK DEF Response
      <3> QED BY <2>4, <3>1, <3>2, <3>3, AnswerOK, TableOK
              DEF ServeAttachReverted, Serves, TypeOK
    <2>5. CASE ServeDetach(c)
      <3>1. f.sid \in Sid
        BY <2>5, ServedSid DEF ServeDetach, SessionRequest
      <3>2. Detach(session[f.sid]) \in Session
        BY <3>1, DetachOK DEF TypeOK
      <3>3. Msg("Detached", f.sid) \in Message
        BY <3>1, MsgOK DEF Response
      <3> QED BY <2>5, <3>1, <3>2, <3>3, AnswerOK, TableOK, MsgOK
              DEF ServeDetach, Serves, TypeOK
    <2>6. CASE ServeKill(c)
      <3>1. f.sid \in Sid
        BY <2>6, ServedSid DEF ServeKill, SessionRequest
      <3> QED BY <2>6, <3>1, AnswerOK, TableOK, MsgOK DEF ServeKill, Serves, TypeOK
    <2>7. CASE ServeQuery(c)
      BY <2>7, AnswerOK, MsgOK DEF ServeQuery, Serves, TypeOK
    <2>8. CASE ServeShutdown(c)
      BY <2>8, AnswerOK, MsgOK DEF ServeShutdown, Serves, TypeOK
    <2>9. CASE ServeAck(c)
      BY <2>9, AnswerOK, MsgOK DEF ServeAck, Serves, TypeOK
    <2> QED BY <1>4, <2>1, <2>2, <2>3, <2>4, <2>5, <2>6, <2>7, <2>8, <2>9, <2>10
            DEF Serve
  <1>5. ASSUME ServeDone PROVE TypeOK'
    BY <1>5, PCOK DEF ServeDone, TypeOK
  <1>6. ASSUME AwaitFrame PROVE TypeOK'
    <2>1. PICK n \in 1 .. Len(toDaemon[pc.fd]) :
            /\ readBuf' = [readBuf EXCEPT
                  ![pc.fd] = Tail(@ \o SubSeq(toDaemon[pc.fd], 1, n))]
            /\ toDaemon' = [toDaemon EXCEPT ![pc.fd] = SubSeq(@, n + 1, Len(@))]
      BY <1>6 DEF AwaitFrame
    <2>2. pc.fd \in Fd /\ pc.sid \in Sid
      BY <1>6 DEF AwaitFrame, AttachedHasOwner
    <2>3. toDaemon[pc.fd] \in Seq(Frame) /\ readBuf[pc.fd] \in Seq(Frame)
      BY <2>2 DEF TypeOK
    <2>4. /\ Tail(readBuf[pc.fd] \o SubSeq(toDaemon[pc.fd], 1, n)) \in Seq(Frame)
          /\ SubSeq(toDaemon[pc.fd], n + 1, Len(toDaemon[pc.fd])) \in Seq(Frame)
      BY <2>3, ReadOK, FrameOK
    <2>5. readBuf' \in [Fd -> Seq(Frame)] /\ toDaemon' \in [Fd -> Seq(Frame)]
      BY <2>1, <2>4 DEF TypeOK
    <2>6. session[pc.sid] \in Session
      BY <2>2 DEF TypeOK
    <2> QED BY <1>6, <2>2, <2>5, <2>6, CompleteTakeoverOK
            DEF AwaitFrame, EndOfWait, TypeOK
  <1>7. ASSUME AwaitNothing PROVE TypeOK'
    <2>1. pc.sid \in Sid /\ session[pc.sid] \in Session
      BY <1>7 DEF AwaitNothing, AttachedHasOwner, TypeOK
    <2> QED BY <1>7, <2>1, CompleteTakeoverOK DEF AwaitNothing, EndOfWait, TypeOK
  <1>8. ASSUME NEW s \in Sid, WsAttach(s) PROVE TypeOK'
    <2>1. session[s] \in Session
      BY DEF TypeOK
    <2>2. CASE StartTakeover(s, session[s], "attach")
      BY <1>8, <2>1, <2>2, StartTakeoverOK
         DEF WsAttach, StartTakeover, AttachedHasOwner
    <2>3. CASE DaemonReads(s, WsJoined(session[s])) /\ Unsent /\ Unmoved
      BY <2>1, <2>3, WsCountOK, TableOK DEF Unmoved, Unsent, TypeOK
    <2>4. CASE DumpHangs /\ UNCHANGED <<sessionVars, clients, running, socketVars, open, clientVars>>
      BY <2>4, PCOK DEF DumpHangs, TypeOK
    <2> QED BY <1>8, <2>2, <2>3, <2>4 DEF WsAttach
  <1>9. ASSUME NEW s \in Sid, WsDetach(s) PROVE TypeOK'
    <2> DEFINE ss == WsLeft(session[s])
    <2>1. ss \in Session /\ ss.state = session[s].state /\ ss.owner = session[s].owner
      BY WsCountOK DEF TypeOK
    <2>2. CASE StartTakeover(s, ss, "detach")
      BY <1>9, <2>1, <2>2, StartTakeoverOK DEF WsDetach, StartTakeover, AttachedHasOwner
    <2>3. CASE session' = [session EXCEPT ![s] = ss] /\ UNCHANGED <<ids, used, kq, odd>>
               /\ Unsent /\ Unmoved
      BY <2>1, <2>3 DEF Unmoved, Unsent, TypeOK
    <2>4. CASE ss.prev # NoFd /\ Release(s, ss) /\ Unmoved
      <3>1. ss.prev \in Fd
        BY <2>1, <2>4 DEF Session
      <3> QED BY <2>1, <2>4, <3>1, ReleaseOK DEF Unmoved, TypeOK
    <2>5. CASE DaemonReads(s, Detach(ss)) /\ Unsent /\ Unmoved
      BY <2>1, <2>5, DetachOK, TableOK DEF Unmoved, Unsent, TypeOK
    <2> QED BY <1>9, <2>2, <2>3, <2>4, <2>5 DEF WsDetach
  <1>10. ASSUME NEW s \in Sid, WsCreate(s) \/ WsKill(s) \/ SessionEnds(s) PROVE TypeOK'
    BY <1>10, TableOK DEF WsCreate, WsKill, SessionEnds, Unmoved, Unsent, TypeOK
  <1>11. ASSUME NEW s \in Sid, CooldownEnds(s) PROVE TypeOK'
    <2>1. [session[s] EXCEPT !.cooldown = FALSE] \in Session
      BY DEF TypeOK, Session
    <2> QED BY <1>11, <2>1 DEF CooldownEnds, TypeOK
  <1>12. ASSUME Cleanup PROVE TypeOK'
    <2>1. <<>> \in Seq(Frame) /\ <<>> \in Seq(Message)
      OBVIOUS
    <2> QED BY <1>12, <2>1, NewSessionOK, PCOK DEF Cleanup, TypeOK
  <1>15. ASSUME WsShutdown PROVE TypeOK'
    BY <1>15 DEF WsShutdown, TypeOK
  <1>13. ASSUME Terminated PROVE TypeOK'
    BY <1>13 DEF Terminated, vars, TypeOK
  <1>14. ASSUME NEW c \in Fd, Client(c) PROVE TypeOK'
    <2> USE DEF ClientUnchanged
    <2>1. ASSUME NEW f \in Frame, ClientSends(c, f) PROVE TypeOK'
      BY <2>1 DEF ClientSends, TypeOK
    <2>2. \A q \in Seq(Message) : q # <<>> => Tail(q) \in Seq(Message) /\ Head(q) \in Message
      OBVIOUS
    <2>5. ASSUME NEW s \in Sid, Takes(c, s) \/ Closes(c, s)
          PROVE  holds' \in [Fd -> SUBSET Sid] /\ missed' \in [Fd -> SUBSET Sid]
      <3>1. CASE Takes(c, s)
        <4>1. CASE /\ holds' = [holds EXCEPT ![c] = @ \cup {s}]
                   /\ missed' = [missed EXCEPT ![c] = @ \ {s}]
          BY <4>1 DEF TypeOK
        <4>2. CASE missed' = [missed EXCEPT ![c] = @ \cup {s}] /\ holds' = holds
          BY <4>2 DEF TypeOK
        <4> QED BY <3>1, <4>1, <4>2 DEF Takes
      <3>2. CASE Closes(c, s)
        BY <2>5, <3>2 DEF Closes, TypeOK
      <3> QED BY <2>5, <3>1, <3>2
    <2>8. ASSUME NEW k, Receives(c, k)
          PROVE  /\ toClient' \in [Fd -> Seq(Message)]
                 /\ Head(toClient[c]) \in Message /\ Head(toClient[c]).kind = k
                 /\ k # "Reply" => Incoming(c) \in Sid
      <3>1. /\ Head(toClient[c]) \in Message /\ Tail(toClient[c]) \in Seq(Message)
            /\ Head(toClient[c]).kind = k
        BY <2>2, <2>8 DEF Receives, TypeOK
      <3>2. toClient' \in [Fd -> Seq(Message)]
        BY <2>8, <3>1 DEF Receives, TypeOK
      <3> QED BY <3>1, <3>2 DEF Incoming, Message
    <2>3. CASE ClientGetsResponse(c)
      <3>1. PICK k \in Response :
              /\ Receives(c, k)
              /\ \/ k = "AttachReady" /\ Takes(c, Incoming(c))
                 \/ k = "Detached" /\ Closes(c, Incoming(c))
                 \/ k \notin {"AttachReady", "Detached"} /\ UNCHANGED <<holds, missed>>
        BY <2>3 DEF ClientGetsResponse
      <3>2. holds' \in [Fd -> SUBSET Sid] /\ missed' \in [Fd -> SUBSET Sid]
        BY <2>5, <2>8, <3>1 DEF TypeOK
      <3>3. toClient' \in [Fd -> Seq(Message)]
        BY <2>8, <3>1
      <3> QED BY <2>3, <3>2, <3>3 DEF ClientGetsResponse, TypeOK
    <2>4. CASE ClientYields(c) \/ ClientResumes(c)
      <3>1. /\ Incoming(c) \in Sid /\ toClient' \in [Fd -> Seq(Message)]
        BY <2>4, <2>8 DEF ClientYields, ClientResumes
      <3>2. Msg("DetachAck", Incoming(c)) \in Frame /\ Msg("ResumeAck", Incoming(c)) \in Frame
        BY <3>1, MsgOK DEF Ack
      <3>3. holds' \in [Fd -> SUBSET Sid] /\ missed' \in [Fd -> SUBSET Sid]
        BY <2>4, <2>5, <3>1 DEF ClientYields, ClientResumes
      <3>4. toDaemon' \in [Fd -> Seq(Frame)]
        <4>1. PICK f \in Frame : toDaemon' = [toDaemon EXCEPT ![c] = Append(@, f)]
          BY <2>4, <3>2 DEF ClientYields, ClientResumes
        <4> QED BY <4>1 DEF TypeOK
      <3> QED BY <2>4, <3>1, <3>3, <3>4 DEF ClientYields, ClientResumes, TypeOK
    <2>9. CASE ClientGetsStray(c)
      <3>1. Incoming(c) \in Sid /\ toClient' \in [Fd -> Seq(Message)]
        BY <2>8, <2>9 DEF ClientGetsStray
      <3>2. missed' \in [Fd -> SUBSET Sid]
        BY <2>9, <3>1 DEF ClientGetsStray, TypeOK
      <3> QED BY <2>9, <3>1, <3>2 DEF ClientGetsStray, TypeOK
    <2>6. CASE ClientCannotResume(c)
      BY <2>2, <2>6 DEF ClientCannotResume, Receives, TypeOK
    <2>7. CASE ClientDies(c)
      <3>1. odd' \subseteq Sid
        BY <2>7 DEF ClientDies, TypeOK
      <3>2. <<>> \in Seq(Message)
        OBVIOUS
      <3> QED BY <2>7, <3>1, <3>2 DEF ClientDies, TypeOK
    <2> QED BY <1>14, <2>1, <2>3, <2>4, <2>6, <2>7, <2>9 DEF Client
  <1> QED
    BY <1>1, <1>2, <1>3, <1>4, <1>5, <1>6, <1>7, <1>8, <1>9, <1>10, <1>11, <1>12,
       <1>13, <1>14, <1>15, <1>16 DEF Next, Daemon, Environment

-----------------------------------------------------------------------------
(* The reader discipline *)

\* The inductive invariant gives what TypeStep asks of takeovers.
LEMMA OwnerIsFd ==
  ASSUME IInv
  PROVE  AttachedHasOwner
  <1>1. ASSUME NEW s \in ids, session[s].state = "Attached"
        PROVE  session[s].owner \in Fd
    <2>1. session[s].owner # NoFd /\ session[s].owner \in clients \cup {NoFd}
      BY <1>1 DEF IInv, ReaderDiscipline, OwnersConnected
    <2> QED BY <2>1 DEF IInv, TypeOK
  <1>2. pc.at = "await" => pc.sid \in Sid /\ pc.fd \in Fd
    BY DEF IInv, WaitsOnOwner, TypeOK
  <1>3. pc.at = "serve" => pc.fd \in Fd
    BY DEF IInv, ServesConnected, TypeOK
  <1> QED BY <1>1, <1>2, <1>3 DEF AttachedHasOwner

\* A handler that leaves one session, ss, with the registration its state calls
\* for and with connected clients keeps the table in order.
LEMMA OneSession ==
  ASSUME IInv, NEW s \in ids, NEW ss \in Session,
         session' = [session EXCEPT ![s] = ss],
         UNCHANGED <<ids, used, clients>>,
         kq' = IF ss.state = "Attached" THEN kq \ {s} ELSE kq \cup {s},
         (ss.owner # NoFd) <=> (ss.state = "Attached"),
         ss.owner \in clients \cup {NoFd}, ss.prev \in clients \cup {NoFd}
  PROVE  TableWellFormed' /\ ReaderDiscipline' /\ OwnersConnected'
  <1>1. s \in Sid /\ session'[s] = ss
    BY DEF IInv, TypeOK
  <1>2. \A x \in ids \ {s} : session'[x] = session[x] /\ (x \in kq' <=> x \in kq)
    BY DEF IInv, TypeOK
  <1>3. TableWellFormed'
    BY DEF IInv, TableWellFormed
  <1>4. ReaderDiscipline'
    BY <1>1, <1>2 DEF IInv, ReaderDiscipline
  <1>5. OwnersConnected'
    BY <1>1, <1>2 DEF IInv, OwnersConnected
  <1> QED BY <1>3, <1>4, <1>5

\* What the invariant says of one session.
LEMMA OneSessionInv ==
  ASSUME IInv, NEW s \in ids
  PROVE  /\ s \in Sid /\ session[s] \in Session
         /\ (session[s].owner # NoFd) <=> (session[s].state = "Attached")
         /\ (s \in kq) <=> (session[s].state # "Attached")
         /\ session[s].owner \in clients \cup {NoFd}
         /\ session[s].prev \in clients \cup {NoFd}
  BY DEF IInv, TypeOK, ReaderDiscipline, OwnersConnected

\* Dropping a session preserves the discipline of the others.
LEMMA RemoveInv ==
  ASSUME IInv, NEW s \in Sid, Remove(s), UNCHANGED clients
  PROVE  TableWellFormed' /\ ReaderDiscipline' /\ OwnersConnected'
  <1>1. \A x \in ids' : x \in ids /\ session'[x] = session[x] /\ (x \in kq' <=> x \in kq)
    BY DEF IInv, TypeOK, Remove
  <1>2. TableWellFormed'
    BY DEF IInv, TableWellFormed, Remove
  <1>3. ReaderDiscipline'
    BY <1>1 DEF IInv, ReaderDiscipline
  <1>4. OwnersConnected'
    BY <1>1 DEF IInv, OwnersConnected
  <1> QED BY <1>2, <1>3, <1>4

\* A new session starts with the daemon as its reader.
LEMMA CreatedInv ==
  ASSUME IInv, NEW s \in Sid, Created(s), UNCHANGED clients
  PROVE  TableWellFormed' /\ ReaderDiscipline' /\ OwnersConnected'
  <1>1. session'[s] = NewSession /\ s \in kq'
    BY DEF IInv, TypeOK, Created
  <1>2. \A x \in ids' \ {s} : x \in ids /\ session'[x] = session[x] /\ (x \in kq' <=> x \in kq)
    BY DEF IInv, TypeOK, Created
  <1>3. TableWellFormed'
    BY DEF IInv, TableWellFormed, Created
  <1>4. ReaderDiscipline'
    BY <1>1, <1>2, NewSessionOK DEF IInv, ReaderDiscipline
  <1>5. OwnersConnected'
    BY <1>1, <1>2, NewSessionOK DEF IInv, OwnersConnected
  <1> QED BY <1>3, <1>4, <1>5

\* A completed takeover leaves the daemon reading and the loop out of the wait.
LEMMA TakeoverInv ==
  ASSUME IInv, NEW s \in ids, NEW ss \in Session, NEW th,
         ss.owner \in clients \cup {NoFd}, ss.prev \in clients \cup {NoFd},
         CompleteTakeover(s, ss, th), UNCHANGED clients
  PROVE  TableWellFormed' /\ ReaderDiscipline' /\ OwnersConnected'
         /\ WaitsOnOwner' /\ ServesConnected'
  <1> DEFINE b == BatonDetach(ss)
  <1>1. /\ b \in Session /\ b.owner = NoFd /\ b.state = "Active"
        /\ b.prev \in clients \cup {NoFd}
    BY BatonDetachOK
  <1>2. /\ WsJoined(b) \in Session /\ WsJoined(b).owner = NoFd
        /\ WsJoined(b).state = "Active" /\ WsJoined(b).prev \in clients \cup {NoFd}
    BY <1>1, WsCountOK
  <1>3. WaitsOnOwner' /\ ServesConnected'
    BY DEF CompleteTakeover, WaitsOnOwner, ServesConnected, AtLoop, DumpHangs, Hung
  <1>4. CASE DaemonReads(s, b)
    BY <1>1, <1>3, <1>4, OneSession DEF DaemonReads
  <1>5. CASE DaemonReads(s, WsJoined(b))
    BY <1>2, <1>3, <1>5, OneSession DEF DaemonReads
  <1> QED BY <1>4, <1>5 DEF CompleteTakeover

\* Every step preserves the parts of IInv beyond the types.
LEMMA CoreStep ==
  ASSUME IInv, Next
  PROVE  (TableWellFormed /\ ServesConnected /\ ReaderDiscipline /\ OwnersConnected
            /\ WaitsOnOwner)'
  <1> DEFINE Goal == TableWellFormed /\ ServesConnected /\ ReaderDiscipline
                       /\ OwnersConnected /\ WaitsOnOwner
  <1> USE DEF sessionVars, socketVars, clientVars
  <1>typ. TypeOK
    BY DEF IInv
  <1>own. AttachedHasOwner
    BY OwnerIsFd
  \* A step that touches neither the sessions nor the loop's position, and
  \* loses no client.
  <1>idle. ASSUME UNCHANGED <<ids, used, session, kq, pc>>, clients \subseteq clients'
           PROVE  Goal'
    BY <1>idle DEF IInv, TableWellFormed, ServesConnected, ReaderDiscipline,
                           OwnersConnected, WaitsOnOwner
  \* A step that keeps the loop away from a wait.
  <1>away. ASSUME pc.at # "await", UNCHANGED <<pc, clients>>
           PROVE  WaitsOnOwner' /\ ServesConnected'
    BY <1>away DEF IInv, WaitsOnOwner, ServesConnected
  <1>1. ASSUME NEW c \in Fd, Accept(c) PROVE Goal'
    BY <1>1, <1>idle DEF Accept
  <1>2. ASSUME NEW c \in Fd, Disconnect(c) PROVE Goal'
    <2>1. /\ ids' = ids /\ used' = used /\ pc' = pc /\ pc.at = "loop"
          /\ clients' = clients \ {c}
          /\ kq' = kq \cup {s \in ids : session[s].owner = c}
      BY <1>2 DEF Disconnect, AtTop
    <2>2. \A s \in ids : session'[s] = WithoutClient(session[s], c)
      BY <1>2 DEF Disconnect, IInv, TypeOK
    <2>3. c \in Fd /\ c # NoFd
      BY FdAssumption
    <2>4. ASSUME NEW s \in ids
          PROVE  /\ (session'[s].owner # NoFd) <=> (session'[s].state = "Attached")
                 /\ (s \in kq') <=> (session'[s].state # "Attached")
                 /\ {session'[s].owner, session'[s].prev} \subseteq clients' \cup {NoFd}
      <3> DEFINE ss == session[s]
                 s2 == session'[s]
      <3>1. ss \in Session
        BY DEF IInv, TypeOK
      <3>2. /\ s2.owner = IF ss.owner = c THEN NoFd ELSE ss.owner
            /\ s2.prev = IF ss.prev = c THEN NoFd ELSE ss.prev
            /\ s2.state = IF ss.owner = c THEN "Active" ELSE ss.state
        BY <2>2, <3>1, WithoutClientOK
      <3>3. /\ (ss.owner # NoFd) <=> (ss.state = "Attached")
            /\ (s \in kq) <=> (ss.state # "Attached")
            /\ ss.owner \in clients \cup {NoFd} /\ ss.prev \in clients \cup {NoFd}
        BY OneSessionInv
      <3>4. (s \in kq') <=> (s \in kq \/ ss.owner = c)
        BY <2>1
      <3> HIDE DEF ss, s2
      <3> QED BY <2>1, <2>3, <3>2, <3>3, <3>4 DEF s2, ss
    <2>5. ReaderDiscipline' /\ OwnersConnected'
      BY <2>1, <2>4 DEF ReaderDiscipline, OwnersConnected
    <2>6. TableWellFormed'
      BY <2>1 DEF IInv, TableWellFormed
    <2> QED BY <2>1, <2>5, <2>6 DEF ServesConnected, WaitsOnOwner
  \* The loop hangs, and no session has changed.
  <1>hang. ASSUME DumpHangs, UNCHANGED <<ids, used, session, kq, clients>> PROVE Goal'
    <2>1. TableWellFormed' /\ ReaderDiscipline' /\ OwnersConnected'
      BY <1>hang DEF IInv, TableWellFormed, ReaderDiscipline, OwnersConnected
    <2> QED BY <1>hang, <2>1 DEF DumpHangs, Hung, ServesConnected, WaitsOnOwner
  <1>16. ASSUME NEW c \in Fd, DisconnectHangs(c) PROVE Goal'
    BY <1>16, <1>hang DEF DisconnectHangs
  <1>3. ASSUME NEW c \in Fd, ReadClient(c) PROVE Goal'
    <2>1. UNCHANGED <<ids, used, session, kq, clients>> /\ c \in clients /\ pc' = Serving(c)
      BY <1>3 DEF ReadClient
    <2>2. TableWellFormed' /\ ReaderDiscipline' /\ OwnersConnected'
      BY <2>1 DEF IInv, TableWellFormed, ReaderDiscipline, OwnersConnected
    <2> QED BY <2>1, <2>2 DEF ServesConnected, WaitsOnOwner, Serving
  <1>4. ASSUME NEW c \in Fd, Serve(c) PROVE Goal'
    <2> DEFINE f == Head(readBuf[c])
    <2>0. \E k \in SessionRequest \cup PlainRequest \cup Ack : Serves(c, k)
      BY <1>4 DEF Serve, ServeCreate, ServeAttach, ServeAttachCut, ServeAttachRefused,
                  ServeAttachReverted, ServeDetach, ServeKill, ServeQuery, ServeShutdown, ServeAck,
                  SessionRequest, PlainRequest
    <2>1. pc.at = "serve" /\ pc.fd = c /\ c \in clients
      BY <2>0 DEF Serves, IInv, ServesConnected
    <2>2. UNCHANGED <<clients, pc>>
      BY <1>4 DEF Serve, ServeCreate, ServeAttach, ServeAttachCut, ServeAttachRefused,
                  ServeAttachReverted, ServeDetach, ServeKill, ServeQuery, ServeShutdown, ServeAck, Answer
    <2>3. WaitsOnOwner' /\ ServesConnected'
      BY <1>away, <2>1, <2>2
    <2>4. CASE UNCHANGED sessionVars
      BY <1>idle, <2>2, <2>4
    <2>5. CASE ServeCreate(c)
      BY <2>2, <2>3, <2>4, <2>5, CreatedInv DEF ServeCreate
    <2>6. CASE ServeAttach(c) \/ ServeAttachCut(c)
      <3>1. f.sid \in ids /\ session[f.sid].state # "Attached"
        BY <2>6 DEF ServeAttach, ServeAttachCut, CanAttach
      <3>2. LET ss == Attach(session[f.sid], c)
            IN  /\ ss \in Session /\ ss.owner = c /\ ss.state = "Attached"
                /\ ss.prev = session[f.sid].prev
        BY <3>1, OneSessionInv, AttachOK
      <3>3. session[f.sid].prev \in clients \cup {NoFd}
        BY <3>1, OneSessionInv
      <3>4. /\ session' = [session EXCEPT ![f.sid] = Attach(session[f.sid], c)]
            /\ kq' = kq \ {f.sid} /\ UNCHANGED <<ids, used>>
        BY <2>6 DEF ServeAttach, ServeAttachCut
      <3> QED BY <2>1, <2>2, <2>3, <3>1, <3>2, <3>3, <3>4, OneSession, FdAssumption
    <2>7. CASE ServeAttachRefused(c)
      BY <2>4, <2>7 DEF ServeAttachRefused
    <2>8. CASE ServeAttachReverted(c)
      <3>1. f.sid \in ids /\ DaemonReads(f.sid, Reverted(session[f.sid], c))
        BY <2>8 DEF ServeAttachReverted, CanAttach
      <3>2. LET ss == Reverted(session[f.sid], c)
            IN  /\ ss \in Session /\ ss.owner = NoFd /\ ss.state = "Active"
                /\ ss.prev \in clients \cup {NoFd}
        BY <3>1, OneSessionInv, AttachOK, DetachOK DEF Reverted
      <3> QED BY <2>2, <2>3, <3>1, <3>2, OneSession DEF DaemonReads
    <2>9. CASE ServeDetach(c)
      <3>1. CASE f.sid \in ids /\ DaemonReads(f.sid, Detach(session[f.sid]))
        <4>1. LET ss == Detach(session[f.sid])
              IN  /\ ss \in Session /\ ss.owner = NoFd /\ ss.state = "Active"
                  /\ ss.prev \in clients \cup {NoFd}
          BY <3>1, OneSessionInv, DetachOK
        <4> QED BY <2>2, <2>3, <3>1, <4>1, OneSession DEF DaemonReads
      <3> QED BY <2>4, <2>9, <3>1 DEF ServeDetach
    <2>10. CASE ServeKill(c)
      <3>1. f.sid \in Sid
        BY <1>typ, <2>10, ServedSid DEF ServeKill, SessionRequest
      <3> QED BY <2>2, <2>3, <2>10, <3>1, RemoveInv DEF ServeKill
    <2>11. CASE ServeQuery(c) \/ ServeShutdown(c) \/ ServeAck(c)
      BY <2>4, <2>11 DEF ServeQuery, ServeShutdown, ServeAck
    <2> QED BY <1>4, <2>5, <2>6, <2>7, <2>8, <2>9, <2>10, <2>11 DEF Serve
  <1>5. ASSUME ServeDone PROVE Goal'
    <2>1. UNCHANGED <<ids, used, session, kq, clients>> /\ pc' = AtLoop
      BY <1>5 DEF ServeDone
    <2> QED BY <2>1 DEF IInv, TableWellFormed, ReaderDiscipline, OwnersConnected,
                        ServesConnected, WaitsOnOwner, AtLoop
  <1>6. ASSUME AwaitFrame \/ AwaitNothing PROVE Goal'
    <2>1. pc.sid \in ids /\ EndOfWait
      BY <1>6 DEF AwaitFrame, AwaitNothing, IInv, WaitsOnOwner
    <2>2. /\ session[pc.sid] \in Session
          /\ session[pc.sid].owner \in clients \cup {NoFd}
          /\ session[pc.sid].prev \in clients \cup {NoFd}
      BY <2>1, OneSessionInv
    <2> QED BY <2>1, <2>2, TakeoverInv DEF EndOfWait
  \* StartTakeover, from a session that is ss but for its count of WS clients.
  <1>7. ASSUME NEW s \in ids, NEW ss \in Session, NEW th \in {"attach", "detach"},
               ss.owner = session[s].owner, ss.prev = session[s].prev,
               ss.state = session[s].state, StartTakeover(s, ss, th)
        PROVE  Goal'
    <2>1. /\ ss.owner \in clients \cup {NoFd} /\ ss.prev \in clients \cup {NoFd}
          /\ ss.state = "Attached" /\ ss.owner # NoFd /\ s \notin kq /\ s \in Sid
      BY <1>7, OneSessionInv DEF StartTakeover
    <2>2. UNCHANGED clients
      BY <1>7 DEF StartTakeover
    <2>3. CASE CompleteTakeover(s, ss, th)
      BY <2>1, <2>2, <2>3, TakeoverInv
    <2>4. CASE /\ session' = [session EXCEPT ![s] = ss]
               /\ pc' = Awaiting(ss.owner, s, th)
               /\ UNCHANGED <<ids, used, kq>>
      <3>1. TableWellFormed' /\ ReaderDiscipline' /\ OwnersConnected'
        <4>1. kq = kq \ {s}
          BY <2>1
        <4> QED BY <2>1, <2>2, <2>4, <4>1, OneSession
      <3>2. session'[s] = ss
        BY <2>1, <2>4 DEF IInv, TypeOK
      <3> QED BY <2>1, <2>2, <2>4, <3>1, <3>2 DEF ServesConnected, WaitsOnOwner, Awaiting
    <2> QED BY <1>7, <2>3, <2>4 DEF StartTakeover
  <1>8. ASSUME NEW s \in Sid, WsAttach(s) PROVE Goal'
    <2>1. s \in ids /\ pc.at = "loop"
      BY <1>8 DEF WsAttach, AtTop
    <2>2. session[s] \in Session
      BY <2>1, OneSessionInv
    <2>3. CASE StartTakeover(s, session[s], "attach")
      BY <1>7, <2>1, <2>2, <2>3
    <2>4. CASE /\ session[s].state # "Attached" /\ DaemonReads(s, WsJoined(session[s]))
               /\ Unmoved
      <3> DEFINE ss == WsJoined(session[s])
      <3>1. /\ ss \in Session /\ ss.owner = session[s].owner /\ ss.prev = session[s].prev
            /\ ss.state = session[s].state
        BY <2>2, WsCountOK
      <3>2. /\ (ss.owner # NoFd) <=> (ss.state = "Attached")
            /\ ss.owner \in clients \cup {NoFd} /\ ss.prev \in clients \cup {NoFd}
        BY <2>1, <3>1, OneSessionInv
      <3> HIDE DEF ss
      <3>3. TableWellFormed' /\ ReaderDiscipline' /\ OwnersConnected'
        BY <2>1, <2>4, <3>1, <3>2, OneSession DEF DaemonReads, Unmoved, ss
      <3> QED BY <1>away, <2>1, <2>4, <3>3 DEF Unmoved
    <2>5. CASE DumpHangs /\ UNCHANGED <<sessionVars, clients>>
      BY <1>hang, <2>5
    <2> QED BY <1>8, <2>3, <2>4, <2>5 DEF WsAttach
  <1>9. ASSUME NEW s \in Sid, WsDetach(s) PROVE Goal'
    <2> DEFINE ss == WsLeft(session[s])
    <2>1. s \in ids /\ pc.at = "loop"
      BY <1>9 DEF WsDetach, AtTop
    <2>2. /\ ss \in Session /\ ss.owner = session[s].owner /\ ss.prev = session[s].prev
          /\ ss.state = session[s].state
      BY <2>1, OneSessionInv, WsCountOK
    <2>3. /\ (ss.owner # NoFd) <=> (ss.state = "Attached")
          /\ (s \in kq) <=> (ss.state # "Attached")
          /\ ss.owner \in clients \cup {NoFd} /\ ss.prev \in clients \cup {NoFd}
      BY <2>1, <2>2, OneSessionInv
    <2> HIDE DEF ss
    <2>4. CASE StartTakeover(s, ss, "detach")
      BY <1>7, <2>1, <2>2, <2>4
    <2>5. CASE Unmoved
      <3>1. WaitsOnOwner' /\ ServesConnected' /\ UNCHANGED clients
        BY <1>away, <2>1, <2>5 DEF Unmoved
      <3>2. CASE ss.state = "Attached" /\ session' = [session EXCEPT ![s] = ss]
                 /\ UNCHANGED <<ids, used, kq>>
        <4>1. kq = kq \ {s}
          BY <2>3, <3>2
        <4> QED BY <2>1, <2>2, <2>3, <3>1, <3>2, <4>1, OneSession
      <3>3. CASE DaemonReads(s, Detach(ss))
        <4>1. LET d == Detach(ss) IN d \in Session /\ d.owner = NoFd /\ d.state = "Active"
                                     /\ d.prev \in clients \cup {NoFd}
          BY <2>2, <2>3, DetachOK
        <4> QED BY <2>1, <3>1, <3>3, <4>1, OneSession DEF DaemonReads
      <3>4. CASE DaemonReads(s, Detach([ss EXCEPT !.prev = NoFd]))
        <4>1. LET d == Detach([ss EXCEPT !.prev = NoFd])
              IN  d \in Session /\ d.owner = NoFd /\ d.state = "Active" /\ d.prev = NoFd
          BY <2>2, NoPrevOK, DetachOK
        <4> QED BY <2>1, <3>1, <3>4, <4>1, OneSession DEF DaemonReads
      <3>5. CASE /\ ss.prev # NoFd
                 /\ session' = [session EXCEPT ![s] =
                      [Attach(ss, ss.prev) EXCEPT !.prev = NoFd, !.cooldown = TRUE]]
                 /\ kq' = kq \ {s} /\ UNCHANGED <<ids, used>>
        <4>1. ss.prev \in clients /\ ss.prev \in Fd
          BY <2>3, <3>5 DEF IInv, TypeOK
        <4>2. LET d == [Attach(ss, ss.prev) EXCEPT !.prev = NoFd, !.cooldown = TRUE]
              IN  d \in Session /\ d.owner = ss.prev /\ d.state = "Attached" /\ d.prev = NoFd
          BY <2>2, <4>1, ResumedOK
        <4> QED BY <2>1, <3>1, <3>5, <4>1, <4>2, OneSession
      <3> QED BY <1>9, <2>4, <3>2, <3>3, <3>4, <3>5 DEF WsDetach, Release, ss
    <2> QED BY <1>9, <2>4, <2>5 DEF WsDetach, ss
  <1>10. ASSUME NEW s \in Sid, WsCreate(s) \/ WsKill(s) \/ SessionEnds(s) PROVE Goal'
    <2>1. pc.at = "loop" /\ Unmoved
      BY <1>10 DEF WsCreate, WsKill, SessionEnds, AtTop
    <2>2. WaitsOnOwner' /\ ServesConnected' /\ UNCHANGED clients
      BY <1>away, <2>1 DEF Unmoved
    <2>3. TableWellFormed' /\ ReaderDiscipline' /\ OwnersConnected'
      BY <1>10, <2>2, CreatedInv, RemoveInv DEF WsCreate, WsKill, SessionEnds
    <2> QED BY <2>2, <2>3
  <1>11. ASSUME NEW s \in Sid, CooldownEnds(s) PROVE Goal'
    <2> DEFINE ss == [session[s] EXCEPT !.cooldown = FALSE]
    <2>1. s \in ids /\ session' = [session EXCEPT ![s] = ss]
          /\ UNCHANGED <<ids, used, kq, clients, pc>>
      BY <1>11 DEF CooldownEnds
    <2>2. /\ ss \in Session /\ ss.owner = session[s].owner /\ ss.prev = session[s].prev
          /\ ss.state = session[s].state
      BY DEF IInv, TypeOK, Session
    <2>3. \A x \in ids : /\ session'[x].owner = session[x].owner
                         /\ session'[x].prev = session[x].prev
                         /\ session'[x].state = session[x].state
      BY <2>1, <2>2 DEF IInv, TypeOK
    <2> QED BY <2>1, <2>3 DEF IInv, TableWellFormed, ReaderDiscipline, OwnersConnected,
                             ServesConnected, WaitsOnOwner
  <1>12. ASSUME Cleanup PROVE Goal'
    BY <1>12 DEF Cleanup, Down, IInv, TableWellFormed, ReaderDiscipline, OwnersConnected,
                 ServesConnected, WaitsOnOwner
  <1>15. ASSUME WsShutdown PROVE Goal'
    BY <1>15, <1>idle DEF WsShutdown
  <1>13. ASSUME Terminated PROVE Goal'
    BY <1>13, <1>idle DEF Terminated, vars
  <1>14. ASSUME NEW c \in Fd, Client(c) PROVE Goal'
    BY <1>14, <1>idle DEF Client, ClientSends, ClientGetsResponse, ClientYields, ClientResumes,
                          ClientGetsStray, ClientCannotResume, ClientDies, ClientUnchanged
  <1> QED
    BY <1>1, <1>2, <1>3, <1>4, <1>5, <1>6, <1>8, <1>9, <1>10, <1>11, <1>12, <1>13, <1>14,
       <1>15, <1>16 DEF Next, Daemon, Environment
-----------------------------------------------------------------------------
(* The theorems *)

\* The empty table the daemon starts with (Server::new) satisfies IInv.
LEMMA InitInv == Init => IInv
  <1> SUFFICES ASSUME Init PROVE IInv
    OBVIOUS
  <1>1. session \in [Sid -> Session]
    BY NewSessionOK DEF Init
  <1>2. <<>> \in Seq(Frame) /\ <<>> \in Seq(Message)
    OBVIOUS
  <1>3. TypeOK
    BY <1>1, <1>2, PCOK DEF Init, TypeOK
  <1> QED BY <1>3 DEF Init, IInv, TableWellFormed, ServesConnected, ReaderDiscipline,
                      OwnersConnected, WaitsOnOwner, AtLoop

\* IInv is inductive: no handler, client or stuttering step breaks it.
LEMMA StepInv == IInv /\ [Next]_vars => IInv'
  <1>1. ASSUME IInv, Next PROVE IInv'
    BY <1>1, OwnerIsFd, TypeStep, CoreStep DEF IInv
  <1>2. ASSUME IInv, UNCHANGED vars PROVE IInv'
    BY <1>2 DEF vars, sessionVars, socketVars, clientVars, IInv, TypeOK, TableWellFormed,
                ServesConnected, ReaderDiscipline, OwnersConnected, WaitsOnOwner
  <1> QED BY <1>1, <1>2

\* Every reachable state of the daemon, with any number of clients, sessions
\* and queued frames, satisfies the inductive invariant.
THEOREM Invariance == Spec => []IInv
  BY InitInv, StepInv, PTL DEF Spec

\* Type correctness of the whole control plane.
THEOREM TypeCorrect == Spec => []TypeOK
  <1>1. IInv => TypeOK
    BY DEF IInv
  <1> QED BY <1>1, Invariance, PTL

\* The daemon reads exactly the PTYs that no client is attached to.
THEOREM ReaderDisciplineHolds == Spec => []ReaderDiscipline
  <1>1. IInv => ReaderDiscipline
    BY DEF IInv
  <1> QED BY <1>1, Invariance, PTL

\* No session keeps the descriptor number of a client that is gone, although
\* the kernel reuses the numbers.
THEOREM OwnersConnectedHolds == Spec => []OwnersConnected
  <1>1. IInv => OwnersConnected
    BY DEF IInv
  <1> QED BY <1>1, Invariance, PTL

\* wait_for_detach_ack always waits on the connected owner of its session.
THEOREM WaitsOnOwnerHolds == Spec => []WaitsOnOwner
  <1>1. IInv => WaitsOnOwner
    BY DEF IInv
  <1> QED BY <1>1, Invariance, PTL

-----------------------------------------------------------------------------
(* PtyServer implements PtyOwnership, and what follows from that *)

\* What the mapping gives, case by case.
LEMMA DesignatedIs ==
  ASSUME IInv, NEW s \in Sid
  PROVE  /\ s \notin used => designated[s] = "not yet"
         /\ s \in used \ ids => designated[s] = "ended"
         /\ s \in kq => designated[s] = "daemon"
         /\ s \in ids \ kq => designated[s] = session[s].owner /\ session[s].owner \in clients
  <1>1. ids \subseteq used /\ kq \subseteq ids
    BY DEF IInv, TableWellFormed
  <1>2. s \in ids \ kq => session[s].owner \in clients
    BY OneSessionInv
  <1> QED BY <1>1, <1>2 DEF designated

\* The same after the step.
LEMMA DesignatedIsNext ==
  ASSUME IInv', NEW s \in Sid
  PROVE  /\ s \notin used' => designated'[s] = "not yet"
         /\ s \in used' \ ids' => designated'[s] = "ended"
         /\ s \in kq' => designated'[s] = "daemon"
         /\ s \in ids' \ kq' => /\ designated'[s] = session'[s].owner
                                /\ session'[s].owner \in clients'
  <1>1. ids' \subseteq used' /\ kq' \subseteq ids'
    BY DEF IInv, TableWellFormed
  <1>2. s \in ids' \ kq' => session'[s].owner \in clients'
    <2>1. ASSUME s \in ids' \ kq' PROVE session'[s].owner \in clients'
      <3>1. session'[s].owner # NoFd
        BY <2>1 DEF IInv, ReaderDiscipline
      <3> QED BY <2>1, <3>1 DEF IInv, OwnersConnected
    <2> QED BY <2>1
  <1> QED BY <1>1, <1>2 DEF designated

\* The mapping is a function on the sessions.
LEMMA DesignatedFcn ==
  /\ designated = [x \in Sid |-> designated[x]]
  /\ designated' = [x \in Sid |-> designated'[x]]
  BY DEF designated

\* A session none of whose fields the mapping looks at has changed keeps its
\* reader.
LEMMA SameReader ==
  ASSUME IInv, IInv', NEW s \in Sid,
         /\ (s \in ids' <=> s \in ids) /\ (s \in used' <=> s \in used)
         /\ (s \in kq' <=> s \in kq),
         s \in ids \ kq => session'[s].owner = session[s].owner
  PROVE  designated'[s] = designated[s]
  <1>1. ids \subseteq used /\ ids' \subseteq used'
    BY DEF IInv, TableWellFormed
  <1>2. CASE s \in ids \ kq
    BY <1>1, <1>2 DEF designated
  <1>3. CASE s \notin ids \ kq
    BY <1>1, <1>3 DEF designated
  <1> QED BY <1>2, <1>3

\* A step that leaves the table, the registrations and the owners of the
\* attached sessions alone is a stuttering step.
LEMMA Stutters ==
  ASSUME IInv, IInv', UNCHANGED <<ids, used, kq, clients>>,
         \A s \in ids \ kq : session'[s].owner = session[s].owner
  PROVE  UNCHANGED Ownership!avars
  <1>1. \A s \in Sid : designated'[s] = designated[s]
    BY SameReader
  <1>2. designated' = designated
    BY <1>1, DesignatedFcn
  <1> QED BY <1>2 DEF Ownership!avars

\* The mapping of a step that changes one session.
LEMMA OneReader ==
  ASSUME IInv, IInv', NEW s \in Sid, NEW d,
         \A x \in Sid \ {s} : /\ (x \in ids' <=> x \in ids) /\ (x \in used' <=> x \in used)
                              /\ (x \in kq' <=> x \in kq) /\ session'[x] = session[x],
         designated'[s] = d
  PROVE  designated' = [designated EXCEPT ![s] = d]
  <1>1. \A x \in Sid \ {s} : designated'[x] = designated[x]
    BY SameReader
  <1> DEFINE D == designated
             Dn == designated'
  <1>2. D = [x \in Sid |-> D[x]] /\ Dn = [x \in Sid |-> Dn[x]]
    BY DesignatedFcn
  <1>3. Dn[s] = d /\ \A x \in Sid \ {s} : Dn[x] = D[x]
    BY <1>1
  <1> HIDE DEF D, Dn
  <1>4. Dn = [D EXCEPT ![s] = d]
    BY <1>2, <1>3
  <1> QED BY <1>4 DEF D, Dn

\* The daemon takes a PTY back: TakeBack, or a stutter if it was reading.
LEMMA DaemonReadsRefines ==
  ASSUME IInv, IInv', NEW s \in ids, NEW ss, DaemonReads(s, ss), UNCHANGED clients
  PROVE  [Ownership!ANext]_Ownership!avars
  <1>1. s \in Sid /\ s \in kq' /\ s \in ids' /\ s \in used'
    BY DEF IInv, TypeOK, TableWellFormed, DaemonReads
  <1>2. designated' = [designated EXCEPT ![s] = "daemon"]
    BY <1>1, DesignatedIsNext, OneReader DEF DaemonReads, IInv, TypeOK
  <1>3. CASE s \in kq
    <2>1. designated[s] = "daemon"
      BY <1>1, <1>3, DesignatedIs
    <2>2. designated' = designated
      BY <1>2, <2>1 DEF designated
    <2> QED BY <2>2 DEF Ownership!avars
  <1>4. CASE s \notin kq
    <2>1. designated[s] \in Fd
      BY <1>1, <1>4, DesignatedIs DEF IInv, TypeOK
    <2>2. Ownership!TakeBack(s)
      BY <1>2, <2>1 DEF Ownership!TakeBack, Ownership!Standby
    <2> QED BY <1>1, <2>2 DEF Ownership!ANext
  <1> QED BY <1>3, <1>4

\* An attach or a resume: Grant.
LEMMA GrantRefines ==
  ASSUME IInv, IInv', NEW s \in ids, NEW ss, NEW c \in clients, s \in kq, ss.owner = c,
         session' = [session EXCEPT ![s] = ss], kq' = kq \ {s},
         UNCHANGED <<ids, used, clients>>
  PROVE  [Ownership!ANext]_Ownership!avars
  <1>1. s \in Sid /\ c \in Fd /\ session'[s] = ss
    BY DEF IInv, TypeOK
  <1>2. designated'[s] = c
    <2>1. s \in ids' \ kq'
      OBVIOUS
    <2>2. designated'[s] = session'[s].owner
      BY <1>1, <2>1, DesignatedIsNext
    <2> QED BY <1>1, <2>2
  <1>3. designated' = [designated EXCEPT ![s] = c]
    BY <1>1, <1>2, OneReader DEF IInv, TypeOK
  <1>4. designated[s] = "daemon"
    BY <1>1, DesignatedIs
  <1>5. Ownership!Grant(s, c)
    BY <1>3, <1>4 DEF Ownership!Grant, Ownership!Standby
  <1> QED BY <1>1, <1>5 DEF Ownership!ANext

\* A session is dropped: Finish, or a stutter if there was none.
LEMMA RemoveRefines ==
  ASSUME IInv, IInv', NEW s \in Sid, Remove(s), UNCHANGED clients
  PROVE  [Ownership!ANext]_Ownership!avars
  <1>1. CASE s \in ids
    <2>1. s \in used' \ ids'
      BY <1>1 DEF IInv, TableWellFormed, Remove
    <2>2. designated' = [designated EXCEPT ![s] = "ended"]
      BY <2>1, DesignatedIsNext, OneReader DEF Remove, IInv, TypeOK
    <2>3. designated[s] \in Fd \cup {"daemon"}
      BY <1>1, DesignatedIs DEF IInv, TypeOK
    <2>4. Ownership!Finish(s)
      BY <2>2, <2>3 DEF Ownership!Finish, Ownership!Standby, Ownership!Ended
    <2> QED BY <2>4 DEF Ownership!ANext
  <1>2. CASE s \notin ids
    <2>1. UNCHANGED <<ids, used, kq, clients>>
      BY <1>2 DEF Remove, IInv, TableWellFormed
    <2>2. \A x \in ids \ kq : session'[x] = session[x]
      BY <1>2 DEF Remove, IInv, TypeOK
    <2> QED BY <2>1, <2>2, Stutters
  <1> QED BY <1>1, <1>2

\* A session is created: Start.
LEMMA CreatedRefines ==
  ASSUME IInv, IInv', NEW s \in Sid, Created(s), UNCHANGED clients
  PROVE  [Ownership!ANext]_Ownership!avars
  <1>1. s \in kq' /\ s \notin used
    BY DEF Created
  <1>2. designated' = [designated EXCEPT ![s] = "daemon"]
    BY <1>1, DesignatedIsNext, OneReader DEF Created, IInv, TypeOK
  <1>3. designated[s] = "not yet"
    BY <1>1, DesignatedIs
  <1>4. Ownership!Start(s)
    BY <1>2, <1>3 DEF Ownership!Start, Ownership!Standby, Ownership!NotYet
  <1> QED BY <1>4 DEF Ownership!ANext
-----------------------------------------------------------------------------
\* Every step of the daemon and its clients is a step of PtyOwnership or a
\* stutter.
LEMMA StepRefines ==
  ASSUME IInv, IInv', Next
  PROVE  [Ownership!ANext]_Ownership!avars
  <1> DEFINE Goal == [Ownership!ANext]_Ownership!avars
  <1> USE DEF sessionVars, socketVars, clientVars
  <1>idle. ASSUME UNCHANGED <<ids, used, session, kq, clients>> PROVE Goal
    BY <1>idle, Stutters
  <1>own. \A s \in ids : session[s].state # "Attached" => s \in kq
    BY OneSessionInv
  <1>typ. \A s \in ids : session[s] \in Session
    BY OneSessionInv
  <1>1. ASSUME NEW c \in Fd, Accept(c) PROVE Goal
    <2>1. designated' = designated
      BY <1>1 DEF Accept, designated
    <2>2. Ownership!Connect(c)
      BY <1>1, <2>1 DEF Accept, Ownership!Connect
    <2> QED BY <2>2 DEF Ownership!ANext
  <1>2. ASSUME NEW c \in Fd, Disconnect(c) PROVE Goal
    <2>1. /\ ids' = ids /\ used' = used /\ clients' = clients \ {c} /\ c \in clients
          /\ kq' = kq \cup {s \in ids : session[s].owner = c}
          /\ \A s \in ids : session'[s] = WithoutClient(session[s], c)
      BY <1>2 DEF Disconnect, IInv, TypeOK
    <2>2. ASSUME NEW s \in Sid
          PROVE  designated'[s] = IF designated[s] = c THEN "daemon" ELSE designated[s]
      <3>1. CASE s \in ids \ kq
        <4>1. designated[s] = session[s].owner
          BY <3>1, DesignatedIs
        <4>2. CASE session[s].owner = c
          BY <2>1, <3>1, <4>1, <4>2, DesignatedIsNext
        <4>3. CASE session[s].owner # c
          <5>1. session'[s].owner = session[s].owner
            BY <1>typ, <2>1, <3>1, <4>3, WithoutClientOK
          <5>2. s \in ids' \ kq'
            BY <2>1, <3>1, <4>3
          <5>3. designated'[s] = session[s].owner
            BY <5>1, <5>2, DesignatedIsNext
          <5> QED BY <4>1, <4>3, <5>3
        <4> QED BY <4>2, <4>3
      <3>2. CASE s \notin ids \ kq
        <4>1. designated'[s] = designated[s]
          <5>1. s \in kq' <=> s \in kq
            <6>1. s \in ids => session[s].owner # c
              <7>1. s \in ids => session[s].owner = NoFd
                BY <3>2, OneSessionInv
              <7> QED BY <7>1, FdAssumption
            <6> QED BY <2>1, <6>1
          <5> QED BY <2>1, <3>2, <5>1, SameReader
        <4>2. designated[s] \in {"not yet", "ended", "daemon"}
          BY <3>2, DesignatedIs
        <4>3. designated[s] # c
          BY <4>2, PtyAssumption
        <4> QED BY <4>1, <4>3
      <3> QED BY <3>1, <3>2
    <2>3. designated' = [s \in Sid |-> IF designated[s] = c THEN "daemon" ELSE designated[s]]
      BY <2>2, DesignatedFcn
    <2>4. Ownership!Leave(c)
      BY <2>1, <2>3 DEF Ownership!Leave, Ownership!Standby
    <2> QED BY <2>4 DEF Ownership!ANext
  <1>16. ASSUME NEW c \in Fd, DisconnectHangs(c) PROVE Goal
    BY <1>16, <1>idle DEF DisconnectHangs
  <1>3. ASSUME NEW c \in Fd, ReadClient(c) PROVE Goal
    BY <1>3, <1>idle DEF ReadClient
  <1>4. ASSUME NEW c \in Fd, Serve(c) PROVE Goal
    <2> DEFINE f == Head(readBuf[c])
    <2>1. \E k \in SessionRequest \cup PlainRequest \cup Ack : Serves(c, k)
      BY <1>4 DEF Serve, ServeCreate, ServeAttach, ServeAttachCut, ServeAttachRefused,
                  ServeAttachReverted, ServeDetach, ServeKill, ServeQuery, ServeShutdown, ServeAck,
                  SessionRequest, PlainRequest
    <2>2. c \in clients
      BY <2>1 DEF Serves, IInv, ServesConnected
    <2>3. UNCHANGED clients
      BY <1>4 DEF Serve, ServeCreate, ServeAttach, ServeAttachCut, ServeAttachRefused,
                  ServeAttachReverted, ServeDetach, ServeKill, ServeQuery, ServeShutdown, ServeAck, Answer
    <2>4. CASE UNCHANGED sessionVars
      BY <1>idle, <2>3, <2>4
    <2>5. CASE ServeCreate(c)
      BY <2>3, <2>4, <2>5, CreatedRefines DEF ServeCreate
    <2>6. CASE ServeAttach(c) \/ ServeAttachCut(c)
      <3>1. f.sid \in ids /\ session[f.sid].state # "Attached"
            /\ session' = [session EXCEPT ![f.sid] = Attach(session[f.sid], c)]
            /\ kq' = kq \ {f.sid} /\ UNCHANGED <<ids, used>>
        BY <2>6 DEF ServeAttach, ServeAttachCut, CanAttach
      <3>2. f.sid \in kq /\ Attach(session[f.sid], c).owner = c
        BY <1>own, <1>typ, <3>1, AttachOK
      <3> HIDE DEF f
      <3> QED BY <2>2, <2>3, <3>1, <3>2, GrantRefines
    <2>7. CASE ServeAttachReverted(c)
      BY <2>3, <2>7, DaemonReadsRefines DEF ServeAttachReverted, CanAttach
    <2>8. CASE ServeDetach(c)
      BY <2>3, <2>4, <2>8, DaemonReadsRefines DEF ServeDetach
    <2>9. CASE ServeKill(c)
      <3>1. f.sid \in Sid
        BY <2>9, ServedSid DEF ServeKill, SessionRequest, IInv
      <3> QED BY <2>3, <2>9, <3>1, RemoveRefines DEF ServeKill
    <2>10. CASE ServeAttachRefused(c) \/ ServeQuery(c) \/ ServeShutdown(c) \/ ServeAck(c)
      BY <2>4, <2>10 DEF ServeAttachRefused, ServeQuery, ServeShutdown, ServeAck
    <2> QED BY <1>4, <2>5, <2>6, <2>7, <2>8, <2>9, <2>10 DEF Serve
  <1>5. ASSUME ServeDone PROVE Goal
    BY <1>5, <1>idle DEF ServeDone
  <1>6. ASSUME AwaitFrame \/ AwaitNothing PROVE Goal
    <2>1. pc.sid \in ids /\ EndOfWait
      BY <1>6 DEF AwaitFrame, AwaitNothing, IInv, WaitsOnOwner
    <2> QED BY <2>1, DaemonReadsRefines DEF EndOfWait, CompleteTakeover
  <1>7. ASSUME NEW s \in ids, NEW ss \in Session, NEW th, ss.owner = session[s].owner,
               StartTakeover(s, ss, th)
        PROVE  Goal
    <2>1. UNCHANGED clients
      BY <1>7 DEF StartTakeover
    <2>2. CASE CompleteTakeover(s, ss, th)
      BY <2>1, <2>2, DaemonReadsRefines DEF CompleteTakeover
    <2>3. CASE session' = [session EXCEPT ![s] = ss] /\ UNCHANGED <<ids, used, kq>>
      <3>1. \A x \in ids : session'[x].owner = session[x].owner
        BY <1>7, <2>3 DEF IInv, TypeOK
      <3> QED BY <2>1, <2>3, <3>1, Stutters
    <2> QED BY <1>7, <2>2, <2>3 DEF StartTakeover
  <1>8. ASSUME NEW s \in Sid, WsAttach(s) PROVE Goal
    <2>1. s \in ids
      BY <1>8 DEF WsAttach
    <2>2. CASE StartTakeover(s, session[s], "attach")
      BY <1>7, <1>typ, <2>1, <2>2
    <2>3. CASE DaemonReads(s, WsJoined(session[s])) /\ Unmoved
      BY <2>1, <2>3, DaemonReadsRefines DEF Unmoved
    <2>4. CASE UNCHANGED <<sessionVars, clients>>
      BY <1>idle, <2>4
    <2> QED BY <1>8, <2>2, <2>3, <2>4 DEF WsAttach
  <1>9. ASSUME NEW s \in Sid, WsDetach(s) PROVE Goal
    <2> DEFINE ss == WsLeft(session[s])
    <2>1. s \in ids
      BY <1>9 DEF WsDetach
    <2>2. /\ ss \in Session /\ ss.owner = session[s].owner /\ ss.prev = session[s].prev
          /\ ss.state = session[s].state
      BY <1>typ, <2>1, WsCountOK
    <2> HIDE DEF ss
    <2>3. CASE StartTakeover(s, ss, "detach")
      BY <1>7, <2>1, <2>2, <2>3
    <2>4. CASE Unmoved
      <3>1. UNCHANGED clients
        BY <2>4 DEF Unmoved
      <3>2. CASE session' = [session EXCEPT ![s] = ss] /\ UNCHANGED <<ids, used, kq>>
        <4>1. \A x \in ids : session'[x].owner = session[x].owner
          BY <2>2, <3>2 DEF IInv, TypeOK
        <4> QED BY <3>1, <3>2, <4>1, Stutters
      <3>3. CASE \E x : DaemonReads(s, x)
        BY <2>1, <3>1, <3>3, DaemonReadsRefines
      <3>4. CASE /\ ss.state # "Attached" /\ ss.prev # NoFd
                 /\ session' = [session EXCEPT ![s] =
                      [Attach(ss, ss.prev) EXCEPT !.prev = NoFd, !.cooldown = TRUE]]
                 /\ kq' = kq \ {s} /\ UNCHANGED <<ids, used>>
        <4>1. ss.prev \in clients /\ ss.prev \in Fd /\ s \in kq
          BY <1>own, <2>1, <2>2, <3>4, OneSessionInv DEF IInv, TypeOK
        <4>2. [Attach(ss, ss.prev) EXCEPT !.prev = NoFd, !.cooldown = TRUE].owner = ss.prev
          BY <2>2, <4>1, ResumedOK
        <4> QED BY <2>1, <3>1, <3>4, <4>1, <4>2, GrantRefines
      <3> QED BY <1>9, <2>3, <3>2, <3>3, <3>4 DEF WsDetach, Release, ss
    <2> QED BY <1>9, <2>3, <2>4 DEF WsDetach, ss
  <1>10. ASSUME NEW s \in Sid, WsCreate(s) \/ WsKill(s) \/ SessionEnds(s) PROVE Goal
    BY <1>10, CreatedRefines, RemoveRefines DEF WsCreate, WsKill, SessionEnds, Unmoved
  <1>11. ASSUME NEW s \in Sid, CooldownEnds(s) PROVE Goal
    <2>1. \A x \in ids : session'[x].owner = session[x].owner
      BY <1>11, <1>typ DEF CooldownEnds, IInv, TypeOK, Session
    <2> QED BY <1>11, <2>1, Stutters DEF CooldownEnds
  <1>12. ASSUME Cleanup PROVE Goal
    <2>1. ids' = {} /\ kq' = {} /\ used' = used /\ clients' = {}
      BY <1>12 DEF Cleanup
    <2>2. ASSUME NEW s \in Sid
          PROVE  designated'[s] = IF designated[s] = "not yet" THEN "not yet" ELSE "ended"
      <3>1. CASE s \notin used
        BY <2>1, <3>1, DesignatedIs, DesignatedIsNext
      <3>2. CASE s \in used
        <4>1. designated'[s] = "ended"
          BY <2>1, <3>2, DesignatedIsNext
        <4>2. designated[s] # "not yet"
          <5>1. CASE s \in ids \ kq
            BY <5>1, DesignatedIs, PtyAssumption DEF IInv, TypeOK
          <5>2. CASE s \notin ids \ kq
            BY <3>2, <5>2, DesignatedIs
          <5> QED BY <5>1, <5>2
        <4> QED BY <4>1, <4>2
      <3> QED BY <3>1, <3>2
    <2>3. designated' = [s \in Sid |-> IF designated[s] = "not yet" THEN "not yet" ELSE "ended"]
      BY <2>2, DesignatedFcn
    <2>4. Ownership!FinishAll
      BY <2>1, <2>3 DEF Ownership!FinishAll, Ownership!NotYet, Ownership!Ended
    <2> QED BY <2>4 DEF Ownership!ANext
  <1>15. ASSUME WsShutdown PROVE Goal
    BY <1>15, <1>idle DEF WsShutdown
  <1>13. ASSUME Terminated PROVE Goal
    BY <1>13, <1>idle DEF Terminated, vars
  <1>14. ASSUME NEW c \in Fd, Client(c) PROVE Goal
    BY <1>14, <1>idle DEF Client, ClientSends, ClientGetsResponse, ClientYields, ClientResumes,
                          ClientGetsStray, ClientCannotResume, ClientDies, ClientUnchanged
  <1> QED
    BY <1>1, <1>2, <1>3, <1>4, <1>5, <1>6, <1>8, <1>9, <1>10, <1>11, <1>12, <1>13, <1>14,
       <1>15, <1>16 DEF Next, Daemon, Environment

\* The control plane implements PtyOwnership: whatever requests, pushes, acks,
\* timeouts and disconnects interleave, every live session has one designated
\* reader, and the role moves only the ways the abstract specification allows.
THEOREM Refinement == Spec => ImplementsOwnership
  <1>1. Init => Ownership!AInit
    BY DEF Init, designated, Ownership!AInit, Ownership!NotYet
  <1>2. IInv /\ IInv' /\ [Next]_vars => [Ownership!ANext]_Ownership!avars
    <2>1. ASSUME IInv, IInv', Next PROVE [Ownership!ANext]_Ownership!avars
      BY <2>1, StepRefines
    <2>2. ASSUME IInv, IInv', UNCHANGED vars PROVE [Ownership!ANext]_Ownership!avars
      BY <2>2, Stutters DEF vars, sessionVars
    <2> QED BY <2>1, <2>2
  <1> QED BY <1>1, <1>2, Invariance, PTL DEF Spec, ImplementsOwnership, Ownership!ASpec

\* In PtyOwnership a client never takes over from another client.
LEMMA ReaderKept ==
  ASSUME NEW s \in Sid, [Ownership!ANext]_Ownership!avars,
         designated[s] \in Fd, designated'[s] \in Fd
  PROVE  designated'[s] = designated[s]
  <1>1. {"not yet", "daemon", "ended"} \cap Fd = {}
    BY PtyAssumption
  <1>2. CASE UNCHANGED Ownership!avars
    BY <1>2 DEF Ownership!avars
  <1>3. CASE Ownership!ANext
    <2>1. ASSUME NEW c \in Fd, Ownership!Connect(c) \/ Ownership!Leave(c)
          PROVE  designated'[s] = designated[s]
      BY <1>1, <2>1 DEF Ownership!Connect, Ownership!Leave, Ownership!Standby
    <2>2. ASSUME NEW x \in Sid, NEW c \in Fd, Ownership!Grant(x, c)
          PROVE  designated'[s] = designated[s]
      BY <1>1, <2>2, DesignatedFcn DEF Ownership!Grant, Ownership!Standby
    <2>3. ASSUME NEW x \in Sid,
                 Ownership!Start(x) \/ Ownership!TakeBack(x) \/ Ownership!Finish(x)
          PROVE  designated'[s] = designated[s]
      BY <1>1, <2>3, DesignatedFcn
         DEF Ownership!Start, Ownership!TakeBack, Ownership!Finish, Ownership!Standby,
             Ownership!Ended, Ownership!NotYet
    <2>4. ASSUME Ownership!FinishAll PROVE designated'[s] = designated[s]
      BY <1>1, <2>4 DEF Ownership!FinishAll, Ownership!NotYet, Ownership!Ended
    <2> QED BY <1>3, <2>1, <2>2, <2>3, <2>4 DEF Ownership!ANext
  <1> QED BY <1>2, <1>3

\* No handler passes a PTY from one attached client to another: the daemon is
\* its reader in between.
THEOREM Handoff == Spec => HandoffThroughDaemon
  <1> DEFINE Same == \A s \in ids \cap ids' :
                       session[s].owner # NoFd /\ session'[s].owner # NoFd
                         => session'[s].owner = session[s].owner
  <1>1. IInv /\ IInv' /\ [Ownership!ANext]_Ownership!avars => Same
    <2> SUFFICES ASSUME IInv, IInv', [Ownership!ANext]_Ownership!avars,
                        NEW s \in ids \cap ids',
                        session[s].owner # NoFd, session'[s].owner # NoFd
                 PROVE  session'[s].owner = session[s].owner
      OBVIOUS
    <2>1. s \in Sid /\ s \in ids \ kq /\ s \in ids' \ kq'
      BY DEF IInv, TypeOK, ReaderDiscipline
    <2>2. designated[s] = session[s].owner /\ designated[s] \in Fd
      BY <2>1, DesignatedIs DEF IInv, TypeOK
    <2>3. designated'[s] = session'[s].owner /\ designated'[s] \in Fd
      BY <2>1, DesignatedIsNext DEF IInv, TypeOK
    <2> QED BY <2>1, <2>2, <2>3, ReaderKept
  <1>2. ASSUME IInv, IInv', [Next]_vars PROVE [Same]_vars
    <2>1. CASE Next
      BY <1>1, <1>2, <2>1, StepRefines
    <2>2. CASE UNCHANGED vars
      BY <2>2
    <2> QED BY <1>2, <2>1, <2>2
  <1> HIDE DEF Same
  <1>3. Spec => [][Same]_vars
    BY <1>2, Invariance, PTL DEF Spec
  <1> QED BY <1>3 DEF Same, HandoffThroughDaemon
=============================================================================
