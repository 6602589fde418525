------------------------------ MODULE Terminal -----------------------------
(***************************************************************************)
(* Where the output of a shell goes (handle_session_output, the attach and *)
(* detach handlers of pty-daemon/src/server.rs, terminal_state.rs, the     *)
(* subscription in ws_server.rs): from the buffer of the PTY through       *)
(* whoever reads it into the ring, the daemon's parser, the snapshots and  *)
(* the stream of a WebSocket client.                                       *)
(*                                                                         *)
(* One session with a live shell, one ETerm, one WS client.  A byte is its *)
(* number in the output of the shell; a screen is the bytes that were fed  *)
(* to it.  ETerm reads its dup of the master, then writes the ring, as     *)
(* docs/design.md says; between the two the bytes are in its hand.  It may *)
(* be slow to leave, may miss a push, and may die at any moment, also      *)
(* inside a write.  The daemon reads, then writes the ring: the two writes *)
(* may overlap when ETerm is late.  What they then do to the ring is for   *)
(* module SharedRing to say; here the bytes cannot be told any more.       *)
(***************************************************************************)
EXTENDS Session, SequencesExt

CONSTANTS ETerm,      \* the descriptor number of ETerm's control socket
          Cap,        \* capacity of the ring
          MaxBytes,   \* bound on the output of the shell
          MaxStarts   \* bound on how often ETerm is started

ASSUME TerminalAssumption == /\ ETerm \in Fd
                             /\ Cap \in Nat \ {0}
                             /\ MaxBytes \in Nat /\ MaxStarts \in Nat

VARIABLES
  session,          \* state, owner_fd and previous_owner_fd
  produced, taken,  \* bytes the shell has written, and how many have been read
  ring,             \* shared_ring
  parser,           \* terminal_state: everything fed to it
  grid,             \* grid_snapshot: the bytes it shows
  file,             \* what the last attach wrote to the snapshot file
  event,            \* the batch holds a read event of master_fd
  buf,              \* what handle_session_output has read and not yet written
  race,             \* who is inside a write that the other one's has run into
  seq,              \* the sequence between two writes: even, or odd, and the loop
                    \* hung in dump for it
  eterm, dup, hand, \* ETerm: where it stands, has it the dup, what it has just read
  starts,           \* how often ETerm has been started
  ws, reply, view,  \* the WS client: where it stands, the replay, what it has got
  stored, lost,     \* history: bytes that were in the ring; bytes that died with ETerm
  overlapped,       \* history: bytes of writes that overlapped another
  mixed,            \* history: one of them has read while ETerm was late to leave, or a
                    \* copy of ETerm's, cut off or still going on, has reached the ring
  gap,              \* history: bytes read since the replay was made, and not streamed
  own               \* history: only the daemon has read since the last crash detach

kernelVars == <<produced, taken, event>>
ringVars   == <<buf, race, seq>>
dataVars   == <<ring, parser, grid, file>>
etermVars  == <<eterm, dup, hand, starts>>
wsVars     == <<ws, reply, view>>
history    == <<stored, lost, overlapped, mixed, gap, own>>
vars == <<session, kernelVars, ringVars, dataVars, etermVars, wsVars, history>>

\* A byte of the ring that cannot be told: of either of two overlapping writes, an
\* older one, or one nobody wrote.
Garbage == 0
Byte == 0 .. MaxBytes
None == [some |-> FALSE, shows |-> {}]
Some(S) == [some |-> TRUE, shows |-> S]

Attached == session.state = "Attached"

Init ==
  /\ session = NewSession
  /\ produced = 0 /\ taken = 0 /\ event = FALSE
  /\ buf = <<>> /\ race = "no" /\ seq = "even"
  /\ ring = <<>> /\ parser = <<>> /\ grid = None /\ file = None
  /\ eterm = "gone" /\ dup = FALSE /\ hand = <<>> /\ starts = 0
  /\ ws = "off" /\ reply = <<>> /\ view = <<>>
  /\ stored = {} /\ lost = {} /\ overlapped = {} /\ mixed = FALSE /\ gap = {} /\ own = TRUE

\* Mutant: the oldest bytes are not overwritten.
Newest_All(n, s) == s

Newest(n, s) == IF Len(s) <= n THEN s ELSE SubSeq(s, Len(s) - n + 1, Len(s))

Other(w) == IF w = "eterm" THEN "daemon" ELSE "eterm"

WritesAlone(bytes) == /\ ring' = Newest(Cap, ring \o bytes)
                      /\ stored' = stored \cup ToSet(bytes)
                      /\ UNCHANGED overlapped

WritesOver(bytes) == /\ \E n \in 1 .. Cap : ring' = [i \in 1 .. n |-> Garbage]
                     /\ overlapped' = overlapped \cup ToSet(bytes)
                     /\ UNCHANGED stored

\* SharedRingBuffer::write by w: load the position, copy, publish.  The other one,
\* with bytes in its hand, may be inside its write at the end of this one, and so may
\* w have been at the end of the other one's.
RingWrites(w, bytes, theirs) ==
  /\ \/ race' = Other(w) /\ theirs # <<>>
     \/ race' = "no" /\ race # Other(w)
  /\ IF race = w \/ race' = Other(w) THEN WritesOver(bytes) ELSE WritesAlone(bytes)

\* A copy that is not published yet reaches the oldest bytes of a ring that is full.
Reached == {i \in DOMAIN ring : i <= Len(ring) + Len(hand) - Cap}
Overwritten(K) == [i \in DOMAIN ring |-> IF i \in K THEN Garbage ELSE ring[i]]

Chunk(k) == [i \in 1 .. k |-> taken + i]

ShellWrites == /\ produced < MaxBytes
               /\ produced' = produced + 1
               /\ UNCHANGED <<session, taken, event, ringVars, dataVars, etermVars, wsVars,
                              history>>

-----------------------------------------------------------------------------
(* The daemon reads *)

\* The loop is between two handlers.
Free == buf = <<>> /\ seq # "hung"

\* kevent reports the master; it is registered while the session is not Attached.
Polls == /\ Free /\ ~Attached /\ ~event
         /\ taken < produced
         /\ event' = TRUE
         /\ UNCHANGED <<session, produced, taken, ringVars, dataVars, etermVars, wsVars,
                        history>>

\* Mutant: the state is not looked at, the registration is relied on.
MayRead_Always == TRUE

\* handle_session_output: an event left in the batch from before an attach.
MayRead == ~Attached

\* Mutant: the master is read before the state is looked at.
HandleNothing_ReadsFirst == /\ Free /\ event
                            /\ ~MayRead \/ taken = produced
                            /\ event' = FALSE /\ taken' = produced
                            /\ UNCHANGED <<session, produced, ringVars, dataVars, etermVars,
                                           wsVars, history>>

\* The dup may have been faster, and then there is nothing to read.
HandleNothing == /\ Free /\ event
                 /\ ~MayRead \/ taken = produced
                 /\ event' = FALSE
                 /\ UNCHANGED <<session, produced, taken, ringVars, dataVars, etermVars,
                                wsVars, history>>

\* TerminalState::feed
Fed(bytes) == parser \o bytes

ReadOutput(k) ==
  /\ Free /\ event /\ MayRead
  /\ k \in 1 .. produced - taken
  /\ event' = FALSE
  /\ taken' = taken + k /\ buf' = Chunk(k)
  /\ mixed' = (mixed \/ (~Attached /\ (dup \/ hand # <<>>)))
  /\ UNCHANGED <<session, produced, race, seq, dataVars, etermVars, wsVars, stored, lost,
                 overlapped, gap, own>>

\* The rest of handle_session_output: the ring, the parser, the subscribers.
HandleOutput ==
  /\ buf # <<>>
  /\ RingWrites("daemon", buf, hand)
  /\ buf' = <<>>
  /\ parser' = Fed(buf)
  /\ view' = IF ws = "on" THEN view \o buf ELSE view
  /\ gap' = IF ws = "await" THEN gap \cup ToSet(buf) ELSE gap
  /\ UNCHANGED <<session, kernelVars, seq, grid, file, etermVars, ws, reply, lost, mixed,
                 own>>

-----------------------------------------------------------------------------
(* ETerm: what the repository says it does with its dup *)

EtermStarts == /\ eterm = "gone" /\ starts < MaxStarts
               /\ ETerm \notin {session.owner, session.prev}
               /\ eterm' = "idle" /\ starts' = starts + 1
               /\ UNCHANGED <<session, kernelVars, ringVars, dataVars, dup, hand, wsVars,
                              history>>

EtermReads(k) == /\ dup /\ hand = <<>>
                 /\ k \in 1 .. produced - taken
                 /\ hand' = Chunk(k) /\ taken' = taken + k
                 /\ own' = FALSE
                 /\ gap' = IF ws # "off" THEN gap \cup ToSet(Chunk(k)) ELSE gap
                 /\ mixed' = (mixed \/ ~Attached)
                 /\ UNCHANGED <<session, produced, event, ringVars, dataVars, eterm, dup,
                                starts, wsVars, stored, lost, overlapped>>

EtermWrites == /\ hand # <<>>
               /\ RingWrites("eterm", hand, buf)
               /\ hand' = <<>>
               /\ UNCHANGED <<session, kernelVars, buf, seq, parser, grid, file, eterm, dup,
                              starts, wsVars, lost, mixed, gap, own>>

\* It has stopped reading, after its own Detach or a ForceDetach.
EtermCloses == /\ eterm = "leaving" /\ hand = <<>>
               /\ eterm' = "idle" /\ dup' = FALSE
               /\ UNCHANGED <<session, kernelVars, ringVars, dataVars, hand, starts, wsVars,
                              history>>

\* With bytes in its hand ETerm may die inside the write: part of them copied, and
\* the sequence incremented once.
EtermDies == /\ eterm # "gone"
             /\ eterm' = "gone" /\ dup' = FALSE /\ hand' = <<>>
             /\ lost' = lost \cup ToSet(hand)
             /\ race' = IF race = "eterm" THEN "no" ELSE race
             /\ seq' \in IF hand # <<>> /\ seq # "hung" THEN {"even", "odd"} ELSE {seq}
             /\ \E K \in SUBSET Reached : /\ ring' = Overwritten(K)
                                          /\ mixed' = (mixed \/ K # {})
             /\ UNCHANGED <<session, kernelVars, buf, parser, grid, file, starts, wsVars,
                            stored, overlapped, gap, own>>

\* What ETerm's screen shows: everything, as far as it lives to tell.
EtermSnapshot == Some(1 .. taken \ lost)

-----------------------------------------------------------------------------
(* The handlers *)

\* TerminalState::capture_snapshot, which always succeeds.
Captured == Some(ToSet(parser))

\* handle_attach and send_attach_data.  The capture replaces the snapshot ETerm left
\* at its detach, goes to the file, and leaves no snapshot behind, also when the
\* descriptor cannot be sent and the attach is undone.
HandleAttach ==
  /\ Free /\ eterm = "idle" /\ ~Attached
  /\ file' = Captured /\ grid' = None
  /\ \/ session' = Attach(session, ETerm) /\ eterm' = "attached" /\ dup' = TRUE
     \/ session' = Detach(session) /\ UNCHANGED <<eterm, dup>>
  /\ UNCHANGED <<kernelVars, ringVars, ring, parser, hand, starts, wsVars, history>>

\* handle_detach of ETerm, with its snapshot: ETerm closes after the response.
HandleDetach ==
  /\ Free /\ eterm = "attached"
  /\ session' = Detach(session)
  /\ grid' = EtermSnapshot
  /\ eterm' = "leaving"
  /\ UNCHANGED <<kernelVars, ringVars, ring, parser, file, dup, hand, starts, wsVars,
                 history>>

\* Mutant: the history is not replayed.
Replayed_Not == parser

\* handle_client_disconnect: the ring into the parser, which may know part of it.
Replayed == IF session.owner = ETerm THEN parser \o ring ELSE parser

HandleDisconnect ==
  /\ Free /\ eterm = "gone" /\ ETerm \in {session.owner, session.prev}
  /\ session.owner = ETerm => seq = "even"
  /\ parser' = Replayed
  /\ own' = (own \/ session.owner = ETerm)
  /\ session' = WithoutClient(session, ETerm)
  /\ UNCHANGED <<kernelVars, ringVars, ring, grid, file, etermVars, wsVars, stored, lost,
                 overlapped, mixed, gap>>

\* SharedRingBuffer::dump spins while the sequence is odd, and the loop with it.
\* Here nobody is left to write.
DisconnectHangs ==
  /\ Free /\ eterm = "gone"
  /\ session.owner = ETerm /\ seq = "odd"
  /\ seq' = "hung"
  /\ UNCHANGED <<session, kernelVars, buf, race, dataVars, etermVars, wsVars, history>>

\* handle_baton_takeover: acknowledged with a snapshot; timed out, ETerm being slow;
\* or not sent at all, and ETerm dead or unaware.  It leaves g as grid_snapshot.
TakesOver(g) ==
  /\ session' = BatonDetach(session)
  /\ \/ /\ eterm = "attached" /\ hand = <<>>
        /\ eterm' = "idle" /\ dup' = FALSE
        /\ g = EtermSnapshot
     \/ /\ IF eterm = "attached" THEN eterm' \in {"attached", "leaving"}
                                 ELSE UNCHANGED eterm
        /\ UNCHANGED dup
        /\ g = grid

\* handle_baton_release: resumed, the push failed, or dup failed.
Releases ==
  /\ \/ /\ session' = [Attach(session, session.prev) EXCEPT !.prev = NoFd]
        /\ eterm # "gone"
        /\ eterm' = "attached" /\ dup' = TRUE
        /\ UNCHANGED grid
     \/ /\ session' = Detach([session EXCEPT !.prev = NoFd])
        /\ grid' = Captured
        /\ UNCHANGED <<eterm, dup>>
     \/ /\ session' = Detach(session)
        /\ UNCHANGED <<eterm, dup, grid>>

\* Mutant: the snapshot is preferred to the ring.
Replay_Grid(dump, screen) == screen

\* The history in AttachReady: the ring, or the capture when the ring is empty.
Replay(dump, screen) == IF ring # <<>> THEN dump ELSE screen

\* handle_ws_attach: a takeover of an attached session first.
TakesOverFirst == \/ Attached /\ \E g \in {grid, EtermSnapshot} : TakesOver(g)
                  \/ ~Attached /\ UNCHANGED <<session, eterm, dup>>

\* The capture replaces grid_snapshot, and an empty ring takes it for the reply.  The
\* dump copies after it has checked the sequence, and an ETerm that still writes may
\* reach what it copies.
HandleWsAttach ==
  /\ Free /\ ws = "off"
  /\ seq = "even" \/ hand # <<>>
  /\ TakesOverFirst
  /\ \E K \in SUBSET Reached : /\ reply' = Replay(Overwritten(K), parser)
                               /\ mixed' = (mixed \/ K # {})
  /\ ws' = "await"
  /\ grid' = IF ring = <<>> THEN None ELSE Captured
  /\ gap' = ToSet(hand)
  /\ UNCHANGED <<kernelVars, ringVars, ring, parser, file, hand, starts, view, stored, lost,
                 overlapped, own>>

\* The dump does not return: ETerm died inside a write, or stays in one.
WsAttachHangs ==
  /\ Free /\ ws = "off"
  /\ seq = "odd" \/ hand # <<>>
  /\ TakesOverFirst
  /\ grid' = Captured
  /\ seq' = "hung"
  /\ UNCHANGED <<kernelVars, buf, race, ring, parser, file, hand, starts, wsVars, history>>

Hangs == seq = "hung" /\ UNCHANGED vars

\* handle_text_message: the task has the response, and subscribes.
WsSubscribes == /\ ws = "await"
                /\ ws' = "on" /\ view' = reply /\ reply' = <<>>
                /\ UNCHANGED <<session, kernelVars, ringVars, dataVars, etermVars, history>>

WsLeaves == ws' = "off" /\ view' = <<>> /\ gap' = {} /\ UNCHANGED reply

\* handle_ws_detach; the cooldown after a release may be running or over.
HandleWsDetach ==
  /\ Free /\ ws = "on" /\ WsLeaves
  /\ \/ Attached /\ \E g \in {grid, EtermSnapshot} : TakesOver(g) /\ grid' = g
     \/ Attached /\ UNCHANGED <<session, eterm, dup, grid>>
     \/ ~Attached /\ session.prev # NoFd /\ Releases
     \/ /\ ~Attached /\ session.prev = NoFd
        /\ session' = Detach(session) /\ UNCHANGED <<eterm, dup, grid>>
  /\ UNCHANGED <<kernelVars, ringVars, ring, parser, file, hand, starts, stored, lost,
                 overlapped, mixed, own>>

\* A disconnect: its handler finds no session (module WsServer).
WsDisconnects == /\ ws = "on" /\ WsLeaves
                 /\ UNCHANGED <<session, kernelVars, ringVars, dataVars, etermVars, stored,
                                lost, overlapped, mixed, own>>

-----------------------------------------------------------------------------
Eterm == \/ EtermStarts \/ EtermWrites \/ EtermCloses \/ EtermDies
         \/ \E k \in Byte : EtermReads(k)

Daemon == \/ Polls \/ HandleNothing \/ \E k \in Byte : ReadOutput(k)
          \/ HandleOutput
          \/ HandleAttach \/ HandleDetach
          \/ HandleDisconnect \/ DisconnectHangs
          \/ HandleWsAttach \/ WsAttachHangs \/ HandleWsDetach
          \/ Hangs

Next == ShellWrites \/ Eterm \/ Daemon \/ WsSubscribes \/ WsDisconnects

Spec == Init /\ [][Next]_vars

\* The loop polls, handles every event of a batch, and finds a closed socket.
\* Nothing is assumed of ETerm and the WS client.
FairSpec == /\ Spec
            /\ WF_vars(Polls) /\ WF_vars(HandleNothing \/ \E k \in Byte : ReadOutput(k))
            /\ WF_vars(HandleOutput)
            /\ WF_vars(HandleDisconnect \/ DisconnectHangs)

-----------------------------------------------------------------------------
Snapshot == [some : BOOLEAN, shows : SUBSET Byte]

TypeOK ==
  /\ session \in Session
  /\ produced \in 0 .. MaxBytes /\ taken \in 0 .. produced /\ event \in BOOLEAN
  /\ buf \in Seq(Byte) /\ race \in {"no", "eterm", "daemon"}
  /\ seq \in {"even", "odd", "hung"}
  /\ ring \in Seq(Byte) /\ Len(ring) <= Cap
  /\ parser \in Seq(Byte) /\ grid \in Snapshot /\ file \in Snapshot
  /\ eterm \in {"gone", "idle", "attached", "leaving"}
  /\ dup \in BOOLEAN /\ hand \in Seq(Byte) /\ starts \in 0 .. MaxStarts
  /\ ws \in {"off", "await", "on"} /\ reply \in Seq(Byte) /\ view \in Seq(Byte)
  /\ stored \subseteq Byte /\ lost \subseteq Byte /\ overlapped \subseteq Byte
  /\ gap \subseteq Byte
  /\ mixed \in BOOLEAN /\ own \in BOOLEAN

\* docs/design.md, "no byte is lost": whatever has been read from the PTY went into
\* the ring or is about to be written there.  It is lost in two ways only: with the
\* ETerm that died with it, or in a write that overlapped one of the other reader,
\* for which ETerm must have been late to leave.
NoByteLost ==
  /\ 1 .. taken = stored \cup ToSet(hand) \cup ToSet(buf) \cup lost \cup overlapped
  /\ ~mixed => overlapped = {}

InOrder(s) == \A i, j \in DOMAIN s : i < j => s[i] < s[j]

\* As long as ETerm had closed its dup whenever the daemon read, and did not die in a
\* copy onto the oldest bytes, the ring is the end of the output, in order and
\* without holes but for what ETerm died with: what a re-attaching ETerm replays is
\* followed by what it then reads.
RingIsHistory ==
  ~mixed => LET s == ring \o hand \o buf
            IN  /\ InOrder(s)
                /\ s # <<>> => s[1] .. taken \subseteq ToSet(s) \cup lost
                /\ taken > 0 /\ s = <<>> => lost = 1 .. taken

\* While only the daemon reads, from the start or from a crash detach on, its parser
\* ends with what is in the ring: the screen it captures is not behind.
ParserFollows == own => IsSuffix(ring, parser)

\* A WS client gets nothing twice, the replay and the stream taken together; and
\* as long as ETerm closes in time it gets its bytes in order, and misses, of all
\* that was read since its replay was made, only what ETerm read and what the daemon
\* read before the task had subscribed, or has just read.
WsStream == /\ \A i, j \in DOMAIN view : i # j /\ view[i] = view[j] => view[i] = Garbage
            /\ ~mixed => /\ InOrder(view)
                         /\ view # <<>> => view[1] .. taken
                                             \subseteq ToSet(view) \cup gap \cup lost
                                                         \cup ToSet(buf)

\* What the shell writes while nobody is attached is read, and so it is when the
\* owner died, however it handed over before; unless the loop hangs in a dump of a
\* ring whose writer died, or stopped, inside a write.
OutputDrained ==
  \A b \in Byte : (produced >= b /\ (~Attached \/ eterm = "gone"))
                   ~> (taken >= b \/ (Attached /\ eterm # "gone") \/ seq = "hung")

-----------------------------------------------------------------------------
\* handle_baton_release: "daemon has been reading, its state is current".  Its parser
\* has not seen what ETerm read before the takeover.
SnapshotCurrent ==
  [][session.prev # NoFd /\ session'.prev = NoFd /\ session'.state = "Attached"
       => stored \subseteq Captured.shows]_vars
=============================================================================
