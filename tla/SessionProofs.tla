--------------------------- MODULE SessionProofs ---------------------------
(* Lemmas about the operations on one session (module Session): the type,  *)
(* and the fields that decide who reads.                                   *)
EXTENDS Session, TLAPS

\* Session::new gives a well-typed session without owner.
LEMMA NewSessionOK == /\ NewSession \in Session
                      /\ NewSession.owner = NoFd /\ NewSession.prev = NoFd
                      /\ NewSession.state = "Active"
  BY DEF NewSession, Session, SessionState

\* Session::attach sets the state and the owner and keeps previous_owner_fd.
LEMMA AttachOK ==
  ASSUME NEW ss \in Session, NEW c \in Fd
  PROVE  /\ Attach(ss, c) \in Session
         /\ Attach(ss, c).owner = c /\ Attach(ss, c).state = "Attached"
         /\ Attach(ss, c).prev = ss.prev
  BY DEF Attach, Session, SessionState

\* Session::detach clears the owner and keeps previous_owner_fd.
LEMMA DetachOK ==
  ASSUME NEW ss \in Session
  PROVE  /\ Detach(ss) \in Session
         /\ Detach(ss).owner = NoFd /\ Detach(ss).state = "Active"
         /\ Detach(ss).prev = ss.prev
  BY DEF Detach, Session, SessionState

\* Session::baton_detach remembers the owner it displaces, or the one before.
LEMMA BatonDetachOK ==
  ASSUME NEW ss \in Session
  PROVE  /\ BatonDetach(ss) \in Session
         /\ BatonDetach(ss).owner = NoFd /\ BatonDetach(ss).state = "Active"
         /\ BatonDetach(ss).prev \in {ss.owner, ss.prev}
  <1> DEFINE s2 == [ss EXCEPT !.prev = IF ss.owner # NoFd THEN ss.owner ELSE ss.prev]
  <1>1. s2 \in Session /\ s2.prev \in {ss.owner, ss.prev}
    BY DEF Session
  <1> QED BY <1>1, DetachOK DEF BatonDetach

\* Counting WS clients in and out touches none of the fields that decide who
\* reads, and the saturating decrement keeps the count a natural number.
LEMMA WsCountOK ==
  ASSUME NEW ss \in Session
  PROVE  /\ WsJoined(ss) \in Session /\ WsLeft(ss) \in Session
         /\ WsJoined(ss).owner = ss.owner /\ WsLeft(ss).owner = ss.owner
         /\ WsJoined(ss).prev = ss.prev /\ WsLeft(ss).prev = ss.prev
         /\ WsJoined(ss).state = ss.state /\ WsLeft(ss).state = ss.state
  BY DEF WsJoined, WsLeft, Session

\* Forgetting the previous owner changes nothing else.
LEMMA NoPrevOK ==
  ASSUME NEW ss \in Session
  PROVE  LET s2 == [ss EXCEPT !.prev = NoFd]
         IN  s2 \in Session /\ s2.owner = ss.owner /\ s2.state = ss.state /\ s2.prev = NoFd
  BY DEF Session

\* What handle_baton_release stores when the push succeeded.
LEMMA ResumedOK ==
  ASSUME NEW ss \in Session, NEW c \in Fd
  PROVE  LET s2 == [Attach(ss, c) EXCEPT !.prev = NoFd, !.cooldown = TRUE]
         IN  s2 \in Session /\ s2.owner = c /\ s2.state = "Attached" /\ s2.prev = NoFd
  BY DEF Session, Attach, SessionState

\* What handle_client_disconnect leaves of a session, field by field.
LEMMA WithoutClientOK ==
  ASSUME NEW ss \in Session, NEW c \in Fd
  PROVE  LET s2 == WithoutClient(ss, c)
         IN  /\ s2 \in Session
             /\ s2.owner = IF ss.owner = c THEN NoFd ELSE ss.owner
             /\ s2.prev = IF ss.prev = c THEN NoFd ELSE ss.prev
             /\ s2.state = IF ss.owner = c THEN "Active" ELSE ss.state
  BY DEF WithoutClient, Detach, Session, SessionState
=============================================================================
