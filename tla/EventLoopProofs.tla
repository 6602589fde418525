-------------------------- MODULE EventLoopProofs --------------------------
(* Proofs about EventLoop, for every set of descriptor numbers and sessions, *)
(* every backlog and every timeout.                                          *)
EXTENDS EventLoop, SessionProofs, TLAPS, FiniteSetTheorems, WellFoundedInduction

\* The descriptor table seen from both sides: what the daemon holds is open under
\* the right name, and what is open under a name is held.
Numbers ==
  /\ \A n \in Fd : files[n].what = "client" <=> n \in clients
  /\ \A s \in ids : /\ own[s].master \in Fd /\ files[own[s].master] = Refers("master", s)
                    /\ own[s].ring \in Fd /\ files[own[s].ring] = Refers("ring", s)
  /\ \A n \in Fd : /\ files[n].what = "master" => /\ files[n].sid \in ids
                                                  /\ own[files[n].sid].master = n
                   /\ files[n].what = "ring" => /\ files[n].sid \in ids
                                                /\ own[files[n].sid].ring = n

\* The requests of one read are served for a client that is connected.
ServesClient == phase = "serve" => at \in clients

\* A session has a child until waitpid has returned for it.
Shells == \A s \in ids : child[s] # "none"

\* What the events left in the batch still say, although numbers are reused: a
\* NOTE_EXIT is about a shell that has not been waited for, and an EV_EOF under the
\* number of a client is that client's own or the client is new.
Events ==
  \A ev \in batch :
    /\ ev.filter = "PROC" => /\ ev.ident \in Sid /\ child[ev.ident] = "zombie"
                             /\ ev = Ev(ev.ident, "PROC", TRUE)
    /\ ev.eof /\ ev.ident \in clients => ev.ident \in hung \cup fresh

\* idle_since is never older than the time without clients, because a batch that
\* kevent returned with idle_since set has no event for a client or a session.
IdleClock ==
  phase # "down" /\ idle # NotIdle =>
    /\ clients = {} => idle <= quiet
    /\ phase # "serve"
    /\ phase = "batch" => \A ev \in batch : ev.ident \notin Fd

IInv == TypeOK /\ Numbers /\ ServesClient /\ Shells /\ Events /\ IdleClock

-----------------------------------------------------------------------------
(* Descriptor numbers *)

\* A set of natural numbers that is not empty has a least element.
LEMMA NatMin ==
  ASSUME NEW T \in SUBSET Nat, T # {}
  PROVE  \E x \in T : \A y \in T : ~(y < x)
  <1>1. PICK x \in T : \A y \in T : ~(<<y, x>> \in OpToRel(<, Nat))
    BY NatLessThanWellFounded, WFMin
  <1>2. \A y \in T : <<y, x>> \in OpToRel(<, Nat) <=> y < x
    BY DEF OpToRel
  <1> QED BY <1>1, <1>2

\* The kernel gives out numbers that are free, at least one when one is asked for
\* and there is one (open, accept, dup).
LEMMA LowestOK ==
  ASSUME NEW k \in Nat
  PROVE  /\ Lowest(k) \subseteq Unused /\ Unused \subseteq Fd
         /\ k # 0 /\ k <= Cardinality(Unused) => Lowest(k) # {}
  <1>1. Lowest(k) \subseteq Unused /\ Unused \subseteq Fd /\ Unused \subseteq Nat
    BY LoopAssumption DEF Lowest, Unused
  <1>2. ASSUME k # 0, k <= Cardinality(Unused) PROVE Lowest(k) # {}
    <2>1. Unused # {}
      BY <1>2, FS_EmptySet
    <2>2. PICK x \in Unused : \A y \in Unused : ~(y < x)
      BY <1>1, <2>1, NatMin
    <2>3. {m \in Unused : m < x} = {}
      BY <2>2
    <2>4. Cardinality({m \in Unused : m < x}) < k
      BY <1>2, <2>3, FS_EmptySet
    <2> QED BY <2>2, <2>4 DEF Lowest
  <1> QED BY <1>1, <1>2

\* The numbers the kernel gives out are free.
LEMMA LowestFree ==
  ASSUME NEW k \in Nat, NEW n \in Lowest(k)
  PROVE  n \in Fd /\ files[n].what = "free"
  <1>1. n \in Fd /\ files[n] = Free
    BY DEF Lowest, Unused
  <1> QED BY <1>1 DEF Free, Refers

\* Session::cleanup or Drop closes the numbers of the session and no others.
LEMMA DroppedOK ==
  ASSUME TypeOK, Numbers, NEW S \in SUBSET Sid, Dropped(S), clients' = clients
  PROVE  /\ Numbers'
         /\ files' \in [Fd -> File] /\ ids' \subseteq Sid /\ hungup' \subseteq ids'
         /\ session' \in [Sid -> Session]
         /\ \A s \in Sid : session'[s].owner \in clients \cup {NoFd}
         /\ own' \in [Sid -> [master : Fd \cup {NoFd}, ring : Fd \cup {NoFd}]]
  <1>1. /\ \A n \in Fd : files'[n] = IF files[n].sid \in S THEN Free ELSE files[n]
        /\ ids' = ids \ S
        /\ \A s \in ids' : s \in Sid /\ own'[s] = own[s]
    BY DEF Dropped, Closed, TypeOK
  <1>2. Free \in File /\ Free.what = "free"
    BY DEF Free, File, Refers
  <1>3. \A n \in Fd : files[n].what = "client" => files[n].sid \notin S
    BY LoopAssumption DEF TypeOK, File
  <1>4. Numbers'
    <2>1. \A n \in Fd : files'[n].what = "client" <=> n \in clients'
      BY <1>1, <1>2, <1>3 DEF Numbers
    <2>2. \A s \in ids' : /\ own'[s].master \in Fd /\ files'[own'[s].master] = Refers("master", s)
                          /\ own'[s].ring \in Fd /\ files'[own'[s].ring] = Refers("ring", s)
      <3> SUFFICES ASSUME NEW s \in ids'
                   PROVE  /\ own'[s].master \in Fd /\ files'[own'[s].master] = Refers("master", s)
                          /\ own'[s].ring \in Fd /\ files'[own'[s].ring] = Refers("ring", s)
        OBVIOUS
      <3>1. s \in ids /\ s \notin S /\ own'[s] = own[s]
        BY <1>1
      <3>2. /\ own[s].master \in Fd /\ files[own[s].master] = Refers("master", s)
            /\ own[s].ring \in Fd /\ files[own[s].ring] = Refers("ring", s)
        BY <3>1 DEF Numbers
      <3>3. files[own[s].master].sid = s /\ files[own[s].ring].sid = s
        BY <3>2 DEF Refers
      <3> QED BY <1>1, <3>1, <3>2, <3>3
    <2>3. \A n \in Fd : /\ files'[n].what = "master" => /\ files'[n].sid \in ids'
                                                        /\ own'[files'[n].sid].master = n
                        /\ files'[n].what = "ring" => /\ files'[n].sid \in ids'
                                                      /\ own'[files'[n].sid].ring = n
      BY <1>1, <1>2 DEF Numbers
    <2> QED BY <2>1, <2>2, <2>3 DEF Numbers
  <1>5. files' \in [Fd -> File]
    BY <1>2 DEF Dropped, Closed, TypeOK
  <1>6. session' \in [Sid -> Session] /\ \A s \in Sid : session'[s].owner \in clients \cup {NoFd}
    BY NewSessionOK DEF Dropped, TypeOK
  <1>7. own' \in [Sid -> [master : Fd \cup {NoFd}, ring : Fd \cup {NoFd}]]
    BY DEF Dropped, TypeOK, Nothing
  <1> QED BY <1>1, <1>4, <1>5, <1>6, <1>7 DEF Dropped, TypeOK

\* The numbers a session holds, and the names they are open under.
LEMMA Held ==
  ASSUME Numbers, NEW s \in ids
  PROVE  /\ own[s].master \in Fd /\ own[s].ring \in Fd
         /\ files[own[s].master] = Refers("master", s)
         /\ files[own[s].ring] = Refers("ring", s)
         /\ files[own[s].master].what = "master" /\ files[own[s].master].sid = s
         /\ files[own[s].ring].what = "ring" /\ files[own[s].ring].sid = s
  <1>1. /\ own[s].master \in Fd /\ own[s].ring \in Fd
        /\ files[own[s].master] = Refers("master", s)
        /\ files[own[s].ring] = Refers("ring", s)
    BY DEF Numbers
  <1> QED BY <1>1 DEF Refers

\* create_pty and Session::new: both numbers were free, and the session was not in
\* the table, because its pid had been waited for.
LEMMA CreatesOK ==
  ASSUME TypeOK, Numbers, Shells, NEW s \in Sid, Creates(s), clients' = clients
  PROVE  /\ Numbers' /\ Shells'
         /\ files' \in [Fd -> File] /\ ids' \subseteq Sid /\ hungup' \subseteq ids'
         /\ own' \in [Sid -> [master : Fd \cup {NoFd}, ring : Fd \cup {NoFd}]]
         /\ child' \in [Sid -> {"none", "running", "zombie"}] /\ watched' \subseteq Sid
         /\ \A x \in Sid : child[x] = "zombie" => child'[x] = "zombie"
  <1>1. PICK master \in Lowest(1) : \E ring \in Lowest(2) \ {master} :
           /\ own' = [own EXCEPT ![s] = [master |-> master, ring |-> ring]]
           /\ files' = [files EXCEPT ![master] = Refers("master", s),
                                     ![ring] = Refers("ring", s)]
    BY DEF Creates
  <1>2. PICK ring \in Lowest(2) \ {master} :
           /\ own' = [own EXCEPT ![s] = [master |-> master, ring |-> ring]]
           /\ files' = [files EXCEPT ![master] = Refers("master", s),
                                     ![ring] = Refers("ring", s)]
    BY <1>1
  <1>3. /\ master \in Fd /\ ring \in Fd /\ master # ring
        /\ files[master].what = "free" /\ files[ring].what = "free"
    BY LowestFree
  <1>4. s \notin ids /\ ids' = ids \cup {s}
    BY DEF Creates, Shells
  <1>5. /\ \A n \in Fd : files'[n] = IF n = ring THEN Refers("ring", s)
                                     ELSE IF n = master THEN Refers("master", s) ELSE files[n]
        /\ own'[s] = [master |-> master, ring |-> ring]
        /\ \A x \in Sid : x # s => own'[x] = own[x]
    BY <1>2, <1>3 DEF TypeOK
  <1>6. Refers("master", s) \in File /\ Refers("ring", s) \in File
    BY DEF Refers, File
  <1>7. \A x \in ids : /\ own[x].master \in Fd \ {master, ring} /\ own[x].ring \in Fd \ {master, ring}
                       /\ files[own[x].master] = Refers("master", x)
                       /\ files[own[x].ring] = Refers("ring", x)
    BY <1>3, Held
  <1>8. Numbers'
    <2>1. \A n \in Fd : files'[n].what = "client" <=> n \in clients'
      BY <1>3, <1>5 DEF Numbers, Refers
    <2>2. \A x \in ids' : /\ own'[x].master \in Fd /\ files'[own'[x].master] = Refers("master", x)
                          /\ own'[x].ring \in Fd /\ files'[own'[x].ring] = Refers("ring", x)
      <3> SUFFICES ASSUME NEW x \in ids'
                   PROVE  /\ own'[x].master \in Fd /\ files'[own'[x].master] = Refers("master", x)
                          /\ own'[x].ring \in Fd /\ files'[own'[x].ring] = Refers("ring", x)
        OBVIOUS
      <3>1. CASE x = s
        BY <1>3, <1>5, <3>1
      <3>2. CASE x # s
        <4>1. x \in ids /\ x \in Sid
          BY <1>4, <3>2 DEF TypeOK
        <4>2. /\ own'[x] = own[x]
              /\ own[x].master \in Fd \ {master, ring} /\ own[x].ring \in Fd \ {master, ring}
              /\ files[own[x].master] = Refers("master", x)
              /\ files[own[x].ring] = Refers("ring", x)
          BY <1>5, <1>7, <3>2, <4>1
        <4>3. /\ files'[own[x].master] = files[own[x].master]
              /\ files'[own[x].ring] = files[own[x].ring]
          BY <1>5, <4>2
        <4> QED BY <4>2, <4>3
      <3> QED BY <3>1, <3>2
    <2>3. \A n \in Fd : /\ files'[n].what = "master" => /\ files'[n].sid \in ids'
                                                        /\ own'[files'[n].sid].master = n
                        /\ files'[n].what = "ring" => /\ files'[n].sid \in ids'
                                                      /\ own'[files'[n].sid].ring = n
      <3> SUFFICES ASSUME NEW n \in Fd
                   PROVE  /\ files'[n].what = "master" => /\ files'[n].sid \in ids'
                                                          /\ own'[files'[n].sid].master = n
                          /\ files'[n].what = "ring" => /\ files'[n].sid \in ids'
                                                        /\ own'[files'[n].sid].ring = n
        OBVIOUS
      <3>1. CASE n = ring
        BY <1>4, <1>5, <3>1 DEF Refers
      <3>2. CASE n = master
        BY <1>3, <1>4, <1>5, <3>2 DEF Refers
      <3>3. CASE n \notin {master, ring}
        <4>1. files'[n] = files[n]
          BY <1>5, <3>3
        <4>2. \A x \in ids : x \in Sid /\ x # s /\ own'[x] = own[x]
          BY <1>4, <1>5 DEF TypeOK
        <4> QED BY <1>4, <4>1, <4>2 DEF Numbers
      <3> QED BY <3>1, <3>2, <3>3
    <2> QED BY <2>1, <2>2, <2>3 DEF Numbers
  <1>9. /\ child' \in [Sid -> {"none", "running", "zombie"}] /\ watched' \subseteq Sid
        /\ child'[s] # "none" /\ \A x \in Sid : x # s => child'[x] = child[x]
        /\ child[s] = "none" /\ hungup' = hungup
    BY DEF Creates, TypeOK
  <1>10. Shells'
    BY <1>4, <1>9 DEF Shells, TypeOK
  <1>11. files' \in [Fd -> File]
    BY <1>2, <1>6 DEF TypeOK
  <1>12. own' \in [Sid -> [master : Fd \cup {NoFd}, ring : Fd \cup {NoFd}]]
    BY <1>2, <1>3 DEF TypeOK
  <1>13. \A x \in Sid : child[x] = "zombie" => child'[x] = "zombie"
    BY <1>9
  <1> QED BY <1>4, <1>8, <1>9, <1>10, <1>11, <1>12, <1>13 DEF TypeOK

\* Numbers that were free become somebody's: a client's (accept) or nobody's (the
\* master create_pty does not close).
LEMMA TakenOK ==
  ASSUME TypeOK, Numbers, NEW k \in Nat, NEW w \in {"client", "leaked"},
         files' = [n \in Fd |-> IF n \in Lowest(k) THEN Refers(w, NoSid) ELSE files[n]],
         clients' = IF w = "client" THEN clients \cup Lowest(k) ELSE clients,
         UNCHANGED <<ids, own>>
  PROVE  Numbers' /\ files' \in [Fd -> File]
  <1> DEFINE new == Lowest(k)
  <1>1. \A n \in new : n \in Fd /\ files[n].what = "free"
    BY LowestFree
  <1>2. Refers(w, NoSid) \in File /\ Refers(w, NoSid).what = w
    BY DEF Refers, File
  <1> HIDE DEF new
  <1>3. \A n \in Fd : files'[n] = IF n \in new THEN Refers(w, NoSid) ELSE files[n]
    BY DEF new
  <1>4. \A n \in Fd : files'[n].what = "client" <=> n \in clients'
    BY <1>1, <1>2, <1>3 DEF Numbers, new
  <1>5. \A s \in ids : /\ own[s].master \in Fd \ new /\ own[s].ring \in Fd \ new
                       /\ files[own[s].master] = Refers("master", s)
                       /\ files[own[s].ring] = Refers("ring", s)
    BY <1>1, Held
  <1>6. \A s \in ids' : /\ own'[s].master \in Fd /\ files'[own'[s].master] = Refers("master", s)
                        /\ own'[s].ring \in Fd /\ files'[own'[s].ring] = Refers("ring", s)
    BY <1>3, <1>5
  <1>7. \A n \in Fd : /\ files'[n].what = "master" => /\ files'[n].sid \in ids'
                                                      /\ own'[files'[n].sid].master = n
                      /\ files'[n].what = "ring" => /\ files'[n].sid \in ids'
                                                    /\ own'[files'[n].sid].ring = n
    BY <1>2, <1>3 DEF Numbers
  <1>8. files' \in [Fd -> File]
    BY <1>2 DEF TypeOK
  <1> QED BY <1>4, <1>6, <1>7, <1>8 DEF Numbers

\* handle_client_disconnect closes the client's number.
LEMMA GoneOK ==
  ASSUME TypeOK, Numbers, NEW n0 \in clients, files' = [files EXCEPT ![n0] = Free],
         clients' = clients \ {n0}, UNCHANGED <<ids, own>>
  PROVE  Numbers' /\ files' \in [Fd -> File]
  <1>1. n0 \in Fd /\ files[n0].what = "client"
    BY DEF TypeOK, Numbers
  <1>2. Free \in File /\ Free.what = "free"
    BY DEF Free, File, Refers
  <1>3. \A n \in Fd : files'[n] = IF n = n0 THEN Free ELSE files[n]
    BY <1>1 DEF TypeOK
  <1>4. \A n \in Fd : files'[n].what = "client" <=> n \in clients'
    BY <1>1, <1>2, <1>3 DEF Numbers
  <1>5. \A s \in ids : /\ own[s].master \in Fd \ {n0} /\ own[s].ring \in Fd \ {n0}
                       /\ files[own[s].master] = Refers("master", s)
                       /\ files[own[s].ring] = Refers("ring", s)
    BY <1>1, Held
  <1>6. \A s \in ids' : /\ own'[s].master \in Fd /\ files'[own'[s].master] = Refers("master", s)
                        /\ own'[s].ring \in Fd /\ files'[own'[s].ring] = Refers("ring", s)
    BY <1>3, <1>5
  <1>7. \A n \in Fd : /\ files'[n].what = "master" => /\ files'[n].sid \in ids'
                                                      /\ own'[files'[n].sid].master = n
                      /\ files'[n].what = "ring" => /\ files'[n].sid \in ids'
                                                    /\ own'[files'[n].sid].ring = n
    BY <1>2, <1>3 DEF Numbers
  <1>8. files' \in [Fd -> File]
    BY <1>2 DEF TypeOK
  <1> QED BY <1>4, <1>6, <1>7, <1>8 DEF Numbers

-----------------------------------------------------------------------------
(* The steps *)

\* The end of run(), for whatever reason, leaves nothing open.
LEMMA StopsStep ==
  ASSUME IInv, NEW why \in {"none", "idle", "shutdown", "signal", "error", "panic"}, Stops(why)
  PROVE  IInv'
  <1>1. Free \in File /\ Free.what = "free"
    BY DEF Free, File, Refers
  <1>2. files' \in [Fd -> File] /\ \A n \in Fd : files'[n].what = "free"
    BY <1>1 DEF Stops
  <1>3. session' \in [Sid -> Session] /\ \A s \in Sid : session'[s].owner = NoFd
    BY NewSessionOK DEF Stops
  <1>4. own' \in [Sid -> [master : Fd \cup {NoFd}, ring : Fd \cup {NoFd}]]
    BY DEF Stops, Nothing
  <1>5. TypeOK'
    BY <1>2, <1>3, <1>4 DEF Stops, IInv, TypeOK
  <1>6. Numbers'
    BY <1>2 DEF Stops, Numbers
  <1>7. ServesClient' /\ Shells' /\ Events' /\ IdleClock'
    BY DEF Stops, ServesClient, Shells, Events, IdleClock
  <1> QED BY <1>5, <1>6, <1>7 DEF IInv

\* What a request does, served for a Unix client or for a WebSocket client, keeps
\* the invariant: the batch and the clients stay, and no shell that has exited comes
\* back to life.
LEMMA RequestStep ==
  ASSUME IInv, UNCHANGED <<clientVars, phase, at, batch, idle, cause>>,
         \/ /\ CreateLeaks \/ \E s \in Sid : \/ Creates(s) \/ Kills(s)
                                             \/ \E n \in clients : Attaches(n, s)
                                             \/ s \in ids /\ Becomes(s, Detach(session[s]))
            /\ UNCHANGED running
         \/ Quits
  PROVE  IInv'
  <1>0. TypeOK /\ Numbers /\ Shells /\ UNCHANGED <<clients, hung, fresh, quiet>>
    BY DEF IInv, clientVars
  <1>1. running' \in BOOLEAN
    BY <1>0 DEF TypeOK, Quits
  <1>2. ServesClient' /\ IdleClock'
    BY <1>0 DEF IInv, ServesClient, IdleClock
  <1>3. ASSUME \A s \in Sid : child[s] = "zombie" => child'[s] = "zombie" PROVE Events'
    BY <1>0, <1>3 DEF IInv, Events
  <1>4. CASE CreateLeaks
    <2>1. UNCHANGED <<ids, session, own, child, watched, hungup>>
      BY <1>4 DEF CreateLeaks, sessionVars, shellVars
    <2>2. Numbers' /\ files' \in [Fd -> File]
      BY <1>0, <1>4, <2>1, TakenOK DEF CreateLeaks
    <2>3. Shells' /\ Events'
      BY <1>0, <1>3, <2>1 DEF Shells
    <2>4. TypeOK'
      BY <1>0, <1>1, <2>1, <2>2 DEF TypeOK
    <2> QED BY <1>2, <2>2, <2>3, <2>4 DEF IInv
  <1>5. ASSUME NEW s \in Sid, Creates(s) PROVE IInv'
    <2>1. /\ Numbers' /\ Shells'
          /\ files' \in [Fd -> File] /\ ids' \subseteq Sid /\ hungup' \subseteq ids'
          /\ own' \in [Sid -> [master : Fd \cup {NoFd}, ring : Fd \cup {NoFd}]]
          /\ child' \in [Sid -> {"none", "running", "zombie"}] /\ watched' \subseteq Sid
          /\ \A x \in Sid : child[x] = "zombie" => child'[x] = "zombie"
      BY <1>0, <1>5, CreatesOK
    <2>2. session' = session
      BY <1>5 DEF Creates
    <2>3. TypeOK'
      BY <1>0, <1>1, <2>1, <2>2 DEF TypeOK
    <2> QED BY <1>2, <1>3, <2>1, <2>3 DEF IInv
  <1>6. ASSUME NEW s \in Sid, Kills(s) PROVE IInv'
    <2>1. Dropped({s}) /\ {s} \in SUBSET Sid /\ UNCHANGED <<child, watched>>
      BY <1>6 DEF Kills
    <2>2. /\ Numbers'
          /\ files' \in [Fd -> File] /\ ids' \subseteq Sid /\ hungup' \subseteq ids'
          /\ session' \in [Sid -> Session]
          /\ \A x \in Sid : session'[x].owner \in clients \cup {NoFd}
          /\ own' \in [Sid -> [master : Fd \cup {NoFd}, ring : Fd \cup {NoFd}]]
      BY <1>0, <2>1, DroppedOK
    <2>3. TypeOK'
      BY <1>0, <1>1, <2>1, <2>2 DEF TypeOK
    <2>4. Shells'
      BY <1>0, <2>1 DEF Shells, Dropped
    <2> QED BY <1>2, <1>3, <2>1, <2>2, <2>3, <2>4 DEF IInv
  <1>7. ASSUME NEW s \in Sid, NEW ss \in Session, ss.owner \in clients \cup {NoFd}, Becomes(s, ss)
        PROVE  IInv'
    <2>1. UNCHANGED <<files, ids, own, child, watched, hungup>>
      BY <1>7 DEF Becomes, shellVars
    <2>2. /\ session' \in [Sid -> Session]
          /\ \A x \in Sid : session'[x].owner \in clients \cup {NoFd}
      BY <1>0, <1>7 DEF Becomes, TypeOK
    <2>3. TypeOK'
      BY <1>0, <1>1, <2>1, <2>2 DEF TypeOK
    <2>4. Numbers' /\ Shells' /\ Events'
      BY <1>0, <1>3, <2>1 DEF Numbers, Shells
    <2> QED BY <1>2, <2>3, <2>4 DEF IInv
  <1>8. ASSUME NEW s \in Sid, NEW n \in clients, Attaches(n, s) PROVE IInv'
    <2>1. session[s] \in Session /\ n \in Fd
      BY <1>0 DEF TypeOK
    <2>2. Attach(session[s], n) \in Session /\ Attach(session[s], n).owner = n
      BY <2>1, AttachOK
    <2> QED BY <1>7, <1>8, <2>2 DEF Attaches
  <1>9. ASSUME NEW s \in Sid, Becomes(s, Detach(session[s])) PROVE IInv'
    <2>1. session[s] \in Session
      BY <1>0 DEF TypeOK
    <2>2. Detach(session[s]) \in Session /\ Detach(session[s]).owner = NoFd
      BY <2>1, DetachOK
    <2> QED BY <1>7, <1>9, <2>2
  <1>10. CASE Quits
    <2>1. UNCHANGED <<files, ids, session, own, child, watched, hungup>>
      BY <1>10 DEF Quits, sessionVars, shellVars
    <2>2. Numbers' /\ Shells' /\ Events'
      BY <1>0, <1>3, <2>1 DEF Numbers, Shells
    <2>3. TypeOK'
      BY <1>0, <1>1, <2>1 DEF TypeOK
    <2> QED BY <1>2, <2>2, <2>3 DEF IInv
  <1> QED BY <1>4, <1>5, <1>6, <1>8, <1>9, <1>10

\* An event is well typed and has the fields it was made with.
LEMMA EvOK ==
  ASSUME NEW n \in Fd \cup Sid \cup {Listener}, NEW f \in {"READ", "PROC"}, NEW e \in BOOLEAN
  PROVE  Ev(n, f, e) \in Event /\ Ev(n, f, e).ident = n
  BY DEF Ev, Event

\* A pid is not a descriptor number.
LEMMA PidIsNoFd == \A s \in Sid : s \notin Fd
  BY LoopAssumption

\* kevent: the events it returns are about what the numbers mean now, and when
\* idle_since stays set there is nobody they could be about.
LEMMA WaitStep ==
  ASSUME IInv, Wait
  PROVE  IInv'
  <1>0. /\ TypeOK /\ Numbers /\ Shells /\ IdleClock
        /\ UNCHANGED <<files, ids, session, own, clients, hung, fresh, quiet, child, hungup,
                       at, running, cause>>
        /\ phase = "top" /\ phase' = "batch"
    BY DEF IInv, Wait, tableVars, sessionVars, clientVars, AtTop
  <1>1. PICK ws \in BOOLEAN : /\ Busy(ws) \/ idle # Timeout
                              /\ idle' = IdleSince(Busy(ws))
    BY DEF Wait
  <1>2. PICK more \in SUBSET Possible : batch' = Due \cup more
    BY DEF Wait
  <1>3. idle' \in NotIdle .. Timeout
    BY <1>0, <1>1, LoopAssumption DEF TypeOK, IdleSince, NotIdle
  <1>4. \A s \in Active : s \in ids /\ own[s].master \in Fd /\ own[s].master \notin clients
    <2> SUFFICES ASSUME NEW s \in ids PROVE own[s].master \in Fd /\ own[s].master \notin clients
      BY DEF Active
    <2>1. own[s].master \in Fd /\ files[own[s].master].what = "master"
      BY <1>0, Held
    <2> QED BY <1>0, <2>1 DEF Numbers
  <1>5. ASSUME NEW ev \in batch'
        PROVE  \/ \E n \in hung : ev = Ev(n, "READ", TRUE)
               \/ \E s \in Active : \E e \in BOOLEAN : ev = Ev(own[s].master, "READ", e)
               \/ \E s \in Fired : ev = Ev(s, "PROC", TRUE)
               \/ \E n \in {Listener} \cup clients : ev = Ev(n, "READ", FALSE)
    BY <1>2 DEF Due, Possible
  <1>6. batch' \subseteq Event
    <2> SUFFICES ASSUME NEW ev \in batch' PROVE ev \in Event
      OBVIOUS
    <2>1. hung \subseteq Fd /\ clients \subseteq Fd /\ Fired \subseteq Sid
      BY <1>0 DEF TypeOK, Fired
    <2>2. CASE \E n \in hung : ev = Ev(n, "READ", TRUE)
      BY <2>1, <2>2, EvOK
    <2>3. CASE \E s \in Active : \E e \in BOOLEAN : ev = Ev(own[s].master, "READ", e)
      BY <1>4, <2>3, EvOK
    <2>4. CASE \E s \in Fired : ev = Ev(s, "PROC", TRUE)
      BY <2>1, <2>4, EvOK
    <2>5. CASE \E n \in {Listener} \cup clients : ev = Ev(n, "READ", FALSE)
      BY <2>1, <2>5, EvOK
    <2> QED BY <1>5, <2>2, <2>3, <2>4, <2>5
  <1>7. watched' \subseteq Sid
    BY <1>0 DEF Wait, TypeOK
  <1>8. TypeOK'
    BY <1>0, <1>3, <1>6, <1>7 DEF TypeOK
  <1>9. Numbers' /\ Shells' /\ ServesClient'
    BY <1>0 DEF Numbers, Shells, ServesClient
  <1>10. Events'
    <2> SUFFICES ASSUME NEW ev \in batch'
                 PROVE  /\ ev.filter = "PROC" => /\ ev.ident \in Sid
                                                 /\ child[ev.ident] = "zombie"
                                                 /\ ev = Ev(ev.ident, "PROC", TRUE)
                        /\ ev.eof /\ ev.ident \in clients => ev.ident \in hung \cup fresh
      BY <1>0 DEF Events
    <2>1. CASE \E n \in hung : ev = Ev(n, "READ", TRUE)
      BY <2>1 DEF Ev
    <2>2. CASE \E s \in Active : \E e \in BOOLEAN : ev = Ev(own[s].master, "READ", e)
      BY <1>4, <2>2 DEF Ev
    <2>3. CASE \E s \in Fired : ev = Ev(s, "PROC", TRUE)
      <3>1. PICK s \in Fired : ev = Ev(s, "PROC", TRUE)
        BY <2>3
      <3>2. ev.ident = s /\ s \in Sid /\ child[s] = "zombie"
        BY <1>0, <3>1 DEF Ev, Fired, TypeOK
      <3>3. s \notin clients
        BY <1>0, <3>2, PidIsNoFd DEF TypeOK
      <3> QED BY <3>1, <3>2, <3>3
    <2>4. CASE \E n \in {Listener} \cup clients : ev = Ev(n, "READ", FALSE)
      BY <2>4 DEF Ev
    <2> QED BY <1>5, <2>1, <2>2, <2>3, <2>4
  <1>11. IdleClock'
    <2> SUFFICES ASSUME idle' # NotIdle
                 PROVE  /\ clients = {} => idle' <= quiet
                        /\ \A ev \in batch' : ev.ident \notin Fd
      BY <1>0 DEF IdleClock
    <2>1. ~Busy(ws)
      BY <1>1 DEF IdleSince
    <2>2. ids = {} /\ clients = {} /\ hung = {} /\ Active = {}
      BY <1>0, <2>1 DEF Busy, TypeOK, Active
    <2>3. idle' <= quiet
      <3>1. idle' = IF idle = NotIdle THEN 0 ELSE idle
        BY <1>1, <2>1 DEF IdleSince
      <3>2. 0 <= quiet
        BY <1>0 DEF TypeOK
      <3>3. idle # NotIdle => idle <= quiet
        BY <1>0, <2>2 DEF IdleClock
      <3> QED BY <3>1, <3>2, <3>3
    <2>4. \A ev \in batch' : ev.ident \notin Fd
      <3> SUFFICES ASSUME NEW ev \in batch' PROVE ev.ident \notin Fd
        OBVIOUS
      <3>1. CASE \E s \in Fired : ev = Ev(s, "PROC", TRUE)
        <4>1. PICK s \in Fired : ev = Ev(s, "PROC", TRUE)
          BY <3>1
        <4>2. s \in Sid
          BY <1>0, <4>1 DEF Fired, TypeOK
        <4>3. ev.ident = s
          BY <4>1, <4>2, EvOK
        <4> QED BY <4>2, <4>3, PidIsNoFd
      <3>2. CASE ev = Ev(Listener, "READ", FALSE)
        BY <3>2, LoopAssumption DEF Ev, Listener
      <3> QED BY <1>5, <2>2, <3>1, <3>2
    <2> QED BY <2>3, <2>4
  <1> QED BY <1>8, <1>9, <1>10, <1>11 DEF IInv

\* One event of the batch, whatever its number means by now.
LEMMA EventStep ==
  ASSUME IInv, HandleEvent
  PROVE  IInv'
  <1>0. /\ TypeOK /\ Numbers /\ Shells /\ Events /\ IdleClock /\ phase = "batch"
    BY DEF IInv, HandleEvent, HandleEof, HandleData, HandleProc, Other, HandleOutput,
           HandleListener, Takes
  <1>1. ASSUME NEW ev \in batch, HandleEof(ev) PROVE IInv'
    <2> DEFINE n == ev.ident
    <2>1. /\ n \in clients /\ n \in Fd
          /\ batch' = batch \ {ev} /\ UNCHANGED <<running, idle, cause, phase, at>>
          /\ files' = [files EXCEPT ![n] = Free]
          /\ clients' = clients \ {n} /\ hung' = hung \ {n} /\ fresh' = fresh \ {n}
          /\ session' = [s \in Sid |-> WithoutClient(session[s], n)]
          /\ UNCHANGED <<quiet, ids, own, child, watched, hungup>>
      BY <1>0, <1>1 DEF HandleEof, Takes, shellVars, TypeOK
    <2> HIDE DEF n
    <2>2. Numbers' /\ files' \in [Fd -> File]
      BY <1>0, <2>1, GoneOK
    <2>3. \A s \in Sid : session[s] \in Session /\ session[s].owner \in clients \cup {NoFd}
      BY <1>0 DEF TypeOK
    <2>4. \A s \in Sid : /\ WithoutClient(session[s], n) \in Session
                         /\ WithoutClient(session[s], n).owner
                              = IF session[s].owner = n THEN NoFd ELSE session[s].owner
      BY <2>1, <2>3, WithoutClientOK
    <2>5. /\ session' \in [Sid -> Session]
          /\ \A s \in Sid : session'[s].owner \in clients' \cup {NoFd}
      BY <2>1, <2>3, <2>4
    <2>6. TypeOK'
      BY <1>0, <2>1, <2>2, <2>5 DEF TypeOK
    <2>7. Shells' /\ ServesClient'
      BY <1>0, <2>1 DEF Shells, ServesClient
    <2>8. Events'
      BY <1>0, <2>1 DEF Events
    <2>9. idle = NotIdle
      BY <1>0, <1>1, <2>1 DEF IdleClock, n
    <2>10. IdleClock'
      BY <2>1, <2>9 DEF IdleClock
    <2> QED BY <2>2, <2>6, <2>7, <2>8, <2>10 DEF IInv
  <1>2. ASSUME NEW ev \in batch, HandleData(ev) PROVE IInv'
    <2>1. CASE Stops("error")
      BY <2>1, StopsStep
    <2>2. CASE ~Stops("error")
      <3>1. /\ batch' = batch \ {ev}
            /\ UNCHANGED <<running, idle, cause, files, clients, hung, fresh, quiet, ids,
                           session, own, child, watched, hungup>>
            /\ ev.ident \in clients /\ ev.ident \in Fd
            /\ \/ phase' = "serve" /\ at' = ev.ident
               \/ UNCHANGED <<phase, at>>
        BY <1>0, <1>2, <2>2
           DEF HandleData, Takes, tableVars, sessionVars, clientVars, shellVars, TypeOK
      <3>2. TypeOK'
        BY <1>0, <3>1 DEF TypeOK
      <3>3. Numbers' /\ Shells' /\ Events'
        BY <1>0, <3>1 DEF Numbers, Shells, Events
      <3>4. ServesClient'
        BY <1>0, <3>1 DEF ServesClient
      <3>5. idle = NotIdle
        BY <1>0, <3>1 DEF IdleClock
      <3>6. IdleClock'
        BY <3>1, <3>5 DEF IdleClock
      <3> QED BY <3>2, <3>3, <3>4, <3>6 DEF IInv
    <2> QED BY <2>1, <2>2
  <1>3. ASSUME NEW ev \in batch, Takes(ev), UNCHANGED <<phase, at, clientVars>>,
               NEW S \in SUBSET Sid, Dropped(S), watched' = watched,
               child' \in [Sid -> {"none", "running", "zombie"}],
               \A s \in Sid \ S : child'[s] = child[s] \/ (child[s] = "zombie" /\ s \notin ids),
               \A x \in batch \ {ev} : x.filter = "PROC" => child'[x.ident] = child[x.ident]
        PROVE  IInv'
    <2>1. /\ batch' = batch \ {ev}
          /\ UNCHANGED <<running, idle, cause, phase, at, clients, hung, fresh, quiet>>
      BY <1>3 DEF Takes, clientVars
    <2>2. /\ Numbers'
          /\ files' \in [Fd -> File] /\ ids' \subseteq Sid /\ hungup' \subseteq ids'
          /\ session' \in [Sid -> Session]
          /\ \A s \in Sid : session'[s].owner \in clients \cup {NoFd}
          /\ own' \in [Sid -> [master : Fd \cup {NoFd}, ring : Fd \cup {NoFd}]]
      BY <1>0, <1>3, <2>1, DroppedOK
    <2>3. TypeOK'
      BY <1>0, <1>3, <2>1, <2>2 DEF TypeOK
    <2>4. Shells'
      BY <1>0, <1>3, <2>2 DEF Shells, Dropped, TypeOK
    <2>5. Events'
      BY <1>0, <1>3, <2>1 DEF Events
    <2>6. ServesClient' /\ IdleClock'
      BY <1>0, <2>1 DEF ServesClient, IdleClock
    <2> QED BY <2>2, <2>3, <2>4, <2>5, <2>6 DEF IInv
  <1>4. ASSUME NEW ev \in batch, HandleProc(ev) PROVE IInv'
    <2> DEFINE p == ev.ident
    <2>1. /\ Other(ev, "PROC") /\ Dropped(Exited(p)) /\ ev.filter = "PROC"
          /\ child' = [child EXCEPT ![p] = "none"] /\ watched' = watched
      BY <1>4 DEF HandleProc, Other
    <2>2. p \in Sid
      BY <1>0, <2>1 DEF Events
    <2>3. Exited(p) \in SUBSET Sid /\ (p \in ids => p \in Exited(p))
      BY <2>2 DEF Exited
    <2>4. child' \in [Sid -> {"none", "running", "zombie"}]
      BY <1>0, <2>1 DEF TypeOK
    <2>5. child[p] = "zombie"
      BY <1>0, <2>1 DEF Events
    <2>6. \A s \in Sid : s # p => child'[s] = child[s]
      BY <1>0, <2>1 DEF TypeOK
    <2>7. \A s \in Sid \ Exited(p) : child'[s] = child[s] \/ (child[s] = "zombie" /\ s \notin ids)
      BY <2>3, <2>5, <2>6
    <2>8. \A x \in batch \ {ev} : x.filter = "PROC" => child'[x.ident] = child[x.ident]
      <3> SUFFICES ASSUME NEW x \in batch, x # ev, x.filter = "PROC"
                   PROVE  x.ident \in Sid /\ x.ident # p
        BY <2>6
      <3>1. x.ident \in Sid /\ x = Ev(x.ident, "PROC", TRUE)
        BY <1>0 DEF Events
      <3>2. ev = Ev(p, "PROC", TRUE)
        BY <1>0, <2>1 DEF Events
      <3> HIDE DEF p
      <3> QED BY <3>1, <3>2
    <2> QED BY <1>3, <1>4, <2>1, <2>3, <2>4, <2>7, <2>8 DEF Other
  <1>5. ASSUME NEW ev \in batch, HandleOutput(ev) PROVE IInv'
    <2>1. /\ Takes(ev) /\ UNCHANGED <<phase, at, clientVars>> /\ UNCHANGED <<child, watched>>
      BY <1>5 DEF HandleOutput, Other
    <2>2. CASE Dropped(AtEof(ev))
      <3>1. AtEof(ev) \in SUBSET Sid
        BY <1>0 DEF AtEof, Active, TypeOK
      <3>2. child' \in [Sid -> {"none", "running", "zombie"}]
        BY <1>0, <2>1 DEF TypeOK
      <3> QED BY <1>3, <2>1, <2>2, <3>1, <3>2
    <2>3. CASE UNCHANGED <<files, sessionVars, hungup>>
      <3>1. /\ batch' = batch \ {ev}
            /\ UNCHANGED <<running, idle, cause, phase, at, clients, hung, fresh, quiet, files,
                           ids, session, own, child, watched, hungup>>
        BY <2>1, <2>3 DEF Takes, clientVars, sessionVars
      <3>2. TypeOK' /\ Numbers' /\ Shells' /\ Events'
        BY <1>0, <3>1 DEF TypeOK, Numbers, Shells, Events
      <3>3. ServesClient' /\ IdleClock'
        BY <1>0, <3>1 DEF ServesClient, IdleClock
      <3> QED BY <3>2, <3>3 DEF IInv
    <2> QED BY <1>5, <2>2, <2>3 DEF HandleOutput
  <1>6. ASSUME NEW ev \in batch, NEW k \in 1 .. MaxBacklog, HandleListener(ev, k) PROVE IInv'
    <2>1. CASE Stops("error")
      BY <2>1, StopsStep
    <2>2. CASE ~Stops("error")
      <3>1. /\ batch' = batch \ {ev} /\ k <= Cardinality(Unused)
            /\ UNCHANGED <<running, idle, cause, phase, at, hung, ids, session, own,
                           child, watched, hungup>>
            /\ clients' = clients \cup Lowest(k) /\ fresh' = fresh \cup Lowest(k)
            /\ files' = [n \in Fd |-> IF n \in Lowest(k) THEN Refers("client", NoSid)
                                      ELSE files[n]]
            /\ quiet' = 0
        BY <1>6, <2>2 DEF HandleListener, Takes, sessionVars, shellVars
      <3>2. k \in Nat /\ k # 0
        BY LoopAssumption
      <3>3. Lowest(k) # {} /\ Lowest(k) \subseteq Fd
        BY <3>1, <3>2, LowestOK
      <3>4. Numbers' /\ files' \in [Fd -> File]
        BY <1>0, <3>1, <3>2, TakenOK
      <3>5. quiet' \in 0 .. Timeout
        BY <3>1, LoopAssumption
      <3>6. TypeOK'
        BY <1>0, <3>1, <3>3, <3>4, <3>5 DEF TypeOK
      <3>7. Shells' /\ Events'
        BY <1>0, <3>1 DEF Shells, Events
      <3>8. ServesClient' /\ IdleClock'
        BY <1>0, <3>1, <3>3 DEF ServesClient, IdleClock
      <3> QED BY <3>4, <3>6, <3>7, <3>8 DEF IInv
    <2> QED BY <2>1, <2>2
  <1> QED BY <1>1, <1>2, <1>4, <1>5, <1>6 DEF HandleEvent

\* The rest of the loop, and the world.
LEMMA OtherStep ==
  ASSUME IInv, NextRound \/ Served \/ World \/ UNCHANGED vars
  PROVE  IInv'
  <1>0. TypeOK /\ Numbers /\ ServesClient /\ Shells /\ Events /\ IdleClock
    BY DEF IInv
  <1>1. CASE NextRound
    <2>1. /\ phase = "batch" /\ batch = {} /\ phase' = "top" /\ fresh' = {}
          /\ UNCHANGED <<files, ids, session, own, clients, hung, quiet, child, watched, hungup,
                         at, batch, running, idle, cause>>
      BY <1>1 DEF NextRound, sessionVars, shellVars
    <2>2. TypeOK' /\ Numbers' /\ Shells' /\ Events'
      BY <1>0, <2>1 DEF TypeOK, Numbers, Shells, Events
    <2>3. ServesClient' /\ IdleClock'
      BY <1>0, <2>1 DEF ServesClient, IdleClock
    <2> QED BY <2>2, <2>3 DEF IInv
  <1>2. CASE Served
    <2>1. /\ phase = "serve" /\ phase' = "batch" /\ at' = NoFd
          /\ UNCHANGED <<files, ids, session, own, clients, hung, fresh, quiet, child, watched,
                         hungup, batch, running, idle, cause>>
      BY <1>2 DEF Served, tableVars, clientVars, sessionVars, shellVars
    <2>2. TypeOK' /\ Numbers' /\ Shells' /\ Events'
      BY <1>0, <2>1 DEF TypeOK, Numbers, Shells, Events
    <2>3. ServesClient' /\ IdleClock'
      BY <1>0, <2>1 DEF ServesClient, IdleClock
    <2> QED BY <2>2, <2>3 DEF IInv
  <1>3. ASSUME NEW n \in Fd, HangsUp(n) PROVE IInv'
    <2>1. /\ n \in clients /\ hung' = hung \cup {n}
          /\ UNCHANGED <<files, ids, session, own, clients, fresh, quiet, child, watched,
                         hungup, phase, at, batch, running, idle, cause>>
      BY <1>3 DEF HangsUp, sessionVars, shellVars, loopVars
    <2>2. TypeOK' /\ Numbers' /\ Shells' /\ Events'
      BY <1>0, <2>1 DEF TypeOK, Numbers, Shells, Events
    <2>3. ServesClient' /\ IdleClock'
      BY <1>0, <2>1 DEF ServesClient, IdleClock
    <2> QED BY <2>2, <2>3 DEF IInv
  <1>4. ASSUME NEW s \in Sid, ShellExits(s) PROVE IInv'
    <2>1. /\ child' = [child EXCEPT ![s] = "zombie"]
          /\ UNCHANGED <<files, ids, session, own, clients, hung, fresh, quiet, watched,
                         hungup, phase, at, batch, running, idle, cause>>
      BY <1>4 DEF ShellExits, tableVars, sessionVars, clientVars, loopVars
    <2>2. /\ child' \in [Sid -> {"none", "running", "zombie"}] /\ child'[s] = "zombie"
          /\ \A x \in Sid : x # s => child'[x] = child[x]
      BY <1>0, <2>1 DEF TypeOK
    <2>3. TypeOK' /\ Numbers'
      BY <1>0, <2>1, <2>2 DEF TypeOK, Numbers
    <2>4. Shells' /\ Events'
      BY <1>0, <2>1, <2>2 DEF Shells, Events, TypeOK
    <2>5. ServesClient' /\ IdleClock'
      BY <1>0, <2>1 DEF ServesClient, IdleClock
    <2> QED BY <2>3, <2>4, <2>5 DEF IInv
  <1>5. ASSUME NEW s \in Sid, TerminalCloses(s) PROVE IInv'
    <2>1. /\ s \in ids /\ hungup' = hungup \cup {s}
          /\ UNCHANGED <<files, ids, session, own, clients, hung, fresh, quiet, child, watched,
                         phase, at, batch, running, idle, cause>>
      BY <1>5 DEF TerminalCloses, tableVars, sessionVars, clientVars, loopVars
    <2>2. TypeOK' /\ Numbers' /\ Shells' /\ Events'
      BY <1>0, <2>1 DEF TypeOK, Numbers, Shells, Events
    <2>3. ServesClient' /\ IdleClock'
      BY <1>0, <2>1 DEF ServesClient, IdleClock
    <2> QED BY <2>2, <2>3 DEF IInv
  <1>6. CASE Tick
    <2>1. /\ phase = "top"
          /\ idle' = IF idle = NotIdle THEN idle ELSE Later(idle)
          /\ quiet' = IF clients = {} THEN Later(quiet) ELSE 0
          /\ UNCHANGED <<files, ids, session, own, clients, hung, fresh, child, watched, hungup,
                         phase, at, batch, running, cause>>
      BY <1>6 DEF Tick, sessionVars, shellVars
    <2>2. idle' \in NotIdle .. Timeout /\ quiet' \in 0 .. Timeout
      BY <1>0, <2>1, LoopAssumption DEF TypeOK, Later, NotIdle
    <2>3. TypeOK' /\ Numbers' /\ Shells' /\ Events'
      BY <1>0, <2>1, <2>2 DEF TypeOK, Numbers, Shells, Events
    <2>4. ServesClient'
      BY <1>0, <2>1 DEF ServesClient
    <2>5. IdleClock'
      <3> SUFFICES ASSUME idle' # NotIdle, clients = {} PROVE idle' <= quiet'
        BY <2>1 DEF IdleClock
      <3>1. idle # NotIdle /\ idle <= quiet
        BY <1>0, <2>1 DEF IdleClock
      <3>2. idle' = Later(idle) /\ quiet' = Later(quiet)
        BY <2>1, <3>1
      <3>3. idle \in Int /\ quiet \in Int /\ Timeout \in Int /\ quiet <= Timeout
        BY <1>0, LoopAssumption DEF TypeOK, NotIdle
      <3> QED BY <3>1, <3>2, <3>3 DEF Later
    <2> QED BY <2>3, <2>4, <2>5 DEF IInv
  <1>7. CASE UNCHANGED vars
    <2>1. UNCHANGED <<files, ids, session, own, clients, hung, fresh, quiet, child, watched,
                      hungup, phase, at, batch, running, idle, cause>>
      BY <1>7 DEF vars, tableVars, sessionVars, clientVars, shellVars, loopVars
    <2>2. TypeOK' /\ Numbers' /\ Shells' /\ Events'
      BY <1>0, <2>1 DEF TypeOK, Numbers, Shells, Events
    <2>3. ServesClient' /\ IdleClock'
      BY <1>0, <2>1 DEF ServesClient, IdleClock
    <2> QED BY <2>2, <2>3 DEF IInv
  <1> QED BY <1>1, <1>2, <1>3, <1>4, <1>5, <1>6, <1>7 DEF World

-----------------------------------------------------------------------------
(* The theorems *)

\* Every step of the loop, of the clients, of the shells and of time keeps the
\* invariant.
LEMMA Step ==
  ASSUME IInv, [Next]_vars
  PROVE  IInv'
  <1>1. CASE WsCommand
    BY <1>1, RequestStep DEF WsCommand
  <1>2. CASE IdleOut
    BY <1>2, StopsStep DEF IdleOut
  <1>3. CASE Wait
    BY <1>3, WaitStep
  <1>4. CASE ShutsDown
    BY <1>4, StopsStep DEF ShutsDown
  <1>5. CASE HandleEvent
    BY <1>5, EventStep
  <1>6. CASE HandleSignal
    BY <1>6, StopsStep DEF HandleSignal
  <1>7. CASE Serve
    <2>1. at \in clients
      BY <1>7 DEF Serve, IInv, ServesClient
    <2> QED BY <1>7, <2>1, RequestStep DEF Serve
  <1>8. CASE CreatePanics
    BY <1>8, StopsStep DEF CreatePanics
  <1> QED BY <1>1, <1>2, <1>3, <1>4, <1>5, <1>6, <1>7, <1>8, OtherStep
          DEF Next, Loop, Terminated

\* The invariant holds in every reachable state.
THEOREM Invariance == Spec => []IInv
  <1>1. Init => IInv
    <2> SUFFICES ASSUME Init PROVE IInv
      OBVIOUS
    <2>1. Free \in File /\ Free.what = "free"
      BY DEF Free, File, Refers
    <2>2. files \in [Fd -> File] /\ \A n \in Fd : files[n].what = "free"
      BY <2>1 DEF Init
    <2>3. TypeOK
      BY <2>2, NewSessionOK, LoopAssumption DEF Init, TypeOK, Nothing, NotIdle
    <2>4. Numbers
      BY <2>2 DEF Init, Numbers
    <2>5. ServesClient /\ Shells /\ Events /\ IdleClock
      BY DEF Init, ServesClient, Shells, Events, IdleClock
    <2> QED BY <2>3, <2>4, <2>5 DEF IInv
  <1>2. IInv /\ [Next]_vars => IInv'
    BY Step
  <1> QED BY <1>1, <1>2, PTL DEF Spec

\* Type correctness of the loop: an owner is a connected client, and the clocks stay
\* within the timeout.
THEOREM TypeCorrect == Spec => []TypeOK
  BY Invariance, PTL DEF IInv

\* The two sides of the descriptor table make every number owned by one party.
LEMMA NumbersImplyOwned ==
  ASSUME TypeOK, Numbers
  PROVE  NumbersOwned
  <1> SUFFICES ASSUME NEW n \in Fd
               PROVE  files[n] = CASE n \in clients -> Refers("client", NoSid)
                        [] \E s \in ids : own[s].master = n ->
                             Refers("master", CHOOSE s \in ids : own[s].master = n)
                        [] \E s \in ids : own[s].ring = n ->
                             Refers("ring", CHOOSE s \in ids : own[s].ring = n)
                        [] OTHER -> IF files[n].what = "leaked" THEN files[n] ELSE Free
    BY DEF NumbersOwned
  <1>1. files[n] \in File
    BY DEF TypeOK
  <1>2. n \in clients <=> files[n].what = "client"
    BY DEF Numbers
  <1>3. \A s \in ids : own[s].master = n => files[n] = Refers("master", s) /\ files[n].what = "master"
    BY Held
  <1>4. \A s \in ids : own[s].ring = n => files[n] = Refers("ring", s) /\ files[n].what = "ring"
    BY Held
  <1>5. CASE n \in clients
    <2>1. files[n] = Refers("client", NoSid)
      BY <1>1, <1>2, <1>5 DEF File, Refers
    <2>2. ~(\E s \in ids : own[s].master = n) /\ ~(\E s \in ids : own[s].ring = n)
      BY <1>2, <1>3, <1>4, <1>5
    <2> QED BY <1>5, <2>1, <2>2
  <1>6. CASE \E s \in ids : own[s].master = n
    <2> DEFINE c == CHOOSE s \in ids : own[s].master = n
    <2>1. c \in ids /\ own[c].master = n
      BY <1>6
    <2> HIDE DEF c
    <2>2. files[n] = Refers("master", c)
      BY <1>3, <2>1
    <2>3. n \notin clients /\ ~(\E s \in ids : own[s].ring = n)
      BY <1>2, <1>3, <1>4, <1>6
    <2> QED BY <1>6, <2>2, <2>3 DEF c
  <1>7. CASE \E s \in ids : own[s].ring = n
    <2> DEFINE c == CHOOSE s \in ids : own[s].ring = n
    <2>1. c \in ids /\ own[c].ring = n
      BY <1>7
    <2> HIDE DEF c
    <2>2. files[n] = Refers("ring", c)
      BY <1>4, <2>1
    <2>3. n \notin clients /\ ~(\E s \in ids : own[s].master = n)
      BY <1>2, <1>3, <1>4, <1>7
    <2> QED BY <1>7, <2>2, <2>3 DEF c
  <1>8. CASE n \notin clients /\ ~(\E s \in ids : own[s].master = n)
               /\ ~(\E s \in ids : own[s].ring = n)
    <2>1. files[n].what \notin {"client", "master", "ring"}
      BY <1>2, <1>8 DEF Numbers
    <2>2. files[n].what # "leaked" => files[n] = Free
      BY <1>1, <2>1 DEF File, Free, Refers
    <2> QED BY <1>8, <2>2
  <1> QED BY <1>5, <1>6, <1>7, <1>8

\* Every number the daemon holds is open and refers to what the daemon thinks, and
\* every open number has one holder, however often numbers are reused (NumbersOwned).
THEOREM NumbersOwnedHolds == Spec => []NumbersOwned
  BY Invariance, NumbersImplyOwned, PTL DEF IInv

\* No event of a batch ends the session of a shell that runs on its terminal: NOTE_EXIT
\* is about a shell that has exited, and end of file is what read finds, not what the
\* flag says (EventSparesRunning).
THEOREM EventSparesRunningHolds == Spec => EventSparesRunning
  <1>1. IInv /\ [Next]_vars =>
          [phase = "batch" /\ phase' = "batch" =>
             \A s \in ids \ ids' : child[s] = "running" => s \in hungup]_vars
    <2> SUFFICES ASSUME IInv, [Next]_vars, phase = "batch", phase' = "batch",
                        NEW s \in ids \ ids', UNCHANGED vars => FALSE
                 PROVE  child[s] = "running" => s \in hungup
      BY DEF vars, tableVars, sessionVars
    <2>0. Events
      BY DEF IInv
    <2>1. ~(ids' = ids)
      OBVIOUS
    <2>2. PICK ev \in batch : HandleProc(ev) \/ HandleOutput(ev)
      BY <2>1 DEF Next, Loop, World, Terminated, WsCommand, IdleOut, AtTop, Wait, NextRound,
         ShutsDown, HandleEvent, HandleSignal, Serve, Served, CreatePanics, Stops, HandleEof,
         HandleData, HandleListener, HangsUp, ShellExits, TerminalCloses, Tick, tableVars,
         sessionVars
    <2>3. CASE HandleProc(ev)
      BY <2>0, <2>3 DEF HandleProc, Other, Dropped, Exited, Events
    <2>4. CASE HandleOutput(ev)
      BY <2>0, <2>1, <2>4 DEF HandleOutput, Dropped, AtEof, sessionVars
    <2> QED BY <2>2, <2>3, <2>4
  <1> QED BY <1>1, Invariance, PTL DEF Spec, EventSparesRunning

\* A connection is ended only when its client has hung up or was accepted in the same
\* batch: no stale EV_EOF reaches an established one (EstablishedClientKept).
THEOREM EstablishedClientKeptHolds == Spec => EstablishedClientKept
  <1>1. IInv /\ [Next]_vars =>
          [phase' # "down" => clients \ clients' \subseteq hung \cup fresh]_vars
    <2> SUFFICES ASSUME IInv, [Next]_vars, phase' # "down",
                        NEW n \in clients \ clients'
                 PROVE  n \in hung \cup fresh
      OBVIOUS
    <2>1. PICK ev \in batch : HandleEof(ev)
      BY DEF Next, Loop, World, Terminated, WsCommand, IdleOut, AtTop, Wait, NextRound,
         ShutsDown, HandleEvent, HandleSignal, Serve, Served, CreatePanics, Stops, HandleProc,
         HandleOutput, Other, HandleData, HandleListener, HangsUp, ShellExits, TerminalCloses,
         Tick, tableVars, clientVars, vars
    <2> QED BY <2>1 DEF HandleEof, AtEnd, IInv, Events
  <1> QED BY <1>1, Invariance, PTL DEF Spec, EstablishedClientKept

\* The daemon leaves for idleness only with no session, no client, and none for the
\* whole timeout (IdleExitWaits).
THEOREM IdleExitWaitsHolds == Spec => IdleExitWaits
  <1>1. IInv /\ [Next]_vars =>
          [cause' = "idle" /\ cause # "idle" => ids = {} /\ clients = {} /\ quiet = Timeout]_vars
    <2> SUFFICES ASSUME IInv, [Next]_vars, cause' = "idle", cause # "idle"
                 PROVE  ids = {} /\ clients = {} /\ quiet = Timeout
      OBVIOUS
    <2>1. IdleOut
      BY DEF Next, Loop, World, Terminated, WsCommand, Wait, NextRound,
         ShutsDown, HandleEvent, HandleSignal, Serve, Served, CreatePanics, Stops, HandleProc,
         HandleOutput, HandleEof, Other, Takes, HandleData, HandleListener, HangsUp, ShellExits,
         TerminalCloses, Tick, loopVars, vars
    <2>2. ids = {} /\ clients = {} /\ idle = Timeout /\ phase = "top"
      BY <2>1 DEF IdleOut, Busy, AtTop
    <2>3. Timeout <= quiet /\ quiet \in 0 .. Timeout
      BY <2>2, LoopAssumption DEF IInv, IdleClock, NotIdle, TypeOK
    <2> QED BY <2>2, <2>3, LoopAssumption
  <1> QED BY <1>1, Invariance, PTL DEF Spec, IdleExitWaits
=============================================================================
