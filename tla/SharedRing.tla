----------------------------- MODULE SharedRing ----------------------------
(***************************************************************************)
(* The shared-memory ring of a session (pty-daemon/src/shared_ring.rs):    *)
(* write, dump, read_since and the sequence lock around write_pos and      *)
(* total_written, one action per access to shared memory.                  *)
(*                                                                         *)
(* A byte is the number it has in the stream of everything written, so     *)
(* "in order" means consecutive numbers and "torn" means anything else.    *)
(* memcpy may copy in any order; the two stores between the fences are     *)
(* Relaxed and may also become visible in any order.  The fences order     *)
(* everything else, and the model's interleavings are those of that order. *)
(***************************************************************************)
EXTENDS Integers, Sequences

CONSTANTS Cap,           \* capacity
          Writers,       \* processes that map the ring to write: ETerm, the daemon
          Readers,       \* threads that dump or poll it
          MaxTotal,      \* bound on total_written
          MaxLen,        \* bound on the length of one write
          SingleWriter,  \* the writers take turns, as "single writer" says
          CrashAt        \* where in write a writer may die

ASSUME RingAssumption == /\ Cap \in Nat \ {0}
                         /\ MaxTotal \in Nat /\ MaxLen \in Nat
                         /\ SingleWriter \in BOOLEAN
                         /\ CrashAt \subseteq {"idle", "copy", "publish"}

VARIABLES seq, writePos, total, data,   \* the mapping
          turn,                         \* whose turn it is to write
          wr,                           \* what each writer is doing
          rd,                           \* what each reader is doing
          pub                           \* history: the pairs published so far

vars == <<seq, writePos, total, data, turn, wr, rd, pub>>
shared == <<seq, writePos, total, data>>

Slot == 0 .. Cap - 1
Empty == -1       \* a slot never written

Lesser(a, b) == IF a < b THEN a ELSE b

\* "dead" and "torn" are the ends of a writer: killed between writes or while it
\* copied, and killed between seq_begin_write and seq_end_write.
Writer == [at : {"idle", "copy", "publish", "dead", "torn"},
           pos : Nat, total : Nat, len : Nat,   \* loaded at the start of write
           todo : SUBSET Slot,                  \* bytes memcpy has not copied yet
           stores : SUBSET {"pos", "total"}]    \* header stores not done yet

Reader == [at : {"idle", "seq", "pos", "total", "check", "copy"},
           call : {"dump", "read_since", "overrun"},
           last : Nat,                          \* last_total of read_since
           ret : Nat,                           \* the total it will return
           seq : Nat, pos : Nat, total : Nat,   \* the snapshot
           start : Nat, n : Nat,                \* the slice to copy
           out : Seq(Nat \cup {Empty}),
           clean : BOOLEAN]                     \* history: no write step since the call

IdleWriter == [at |-> "idle", pos |-> 0, total |-> 0, len |-> 0,
               todo |-> {}, stores |-> {}]
IdleReader == [at |-> "idle", call |-> "dump", last |-> 0, ret |-> 0, seq |-> 0,
               pos |-> 0, total |-> 0, start |-> 0, n |-> 0, out |-> <<>>,
               clean |-> TRUE]

Init == /\ seq = 0 /\ writePos = 0 /\ total = 0
        /\ data = [i \in Slot |-> Empty]
        /\ turn \in Writers
        /\ wr = [w \in Writers |-> IdleWriter]
        /\ rd = [r \in Readers |-> IdleReader]
        /\ pub = {<<0, 0>>}

-----------------------------------------------------------------------------
(* write: copy the bytes, then publish write_pos and total_written under   *)
(* an odd sequence number                                                  *)

\* Mutant: both processes write.
MayWrite_Both(w) == TRUE

MayWrite(w) == SingleWriter => turn = w

NoteWrite == rd' = [r \in Readers |-> [rd[r] EXCEPT !.clean = FALSE]]

\* The header is loaded once; of data longer than the ring only the last Cap
\* bytes are copied.
WriteStart(w) ==
  /\ wr[w].at = "idle" /\ MayWrite(w)
  /\ \E n \in 1 .. MaxLen :
       /\ total + n <= MaxTotal
       /\ wr' = [wr EXCEPT ![w] =
            [at |-> "copy", pos |-> writePos, total |-> total, len |-> n,
             todo |-> 0 .. Lesser(n, Cap) - 1, stores |-> {"pos", "total"}]]
  /\ NoteWrite
  /\ UNCHANGED <<shared, turn, pub>>

\* Byte k of the copy: its slot and its number in the stream.
SlotOf(x, k) == IF x.len >= Cap THEN k ELSE (x.pos + k) % Cap
ByteOf(x, k) == IF x.len >= Cap THEN x.total + (x.len - Cap) + k ELSE x.total + k

\* Mutant: write_pos is not reset by a write that fills the ring.
NewPos_NoReset(x) == (x.pos + x.len) % Cap

NewPos(x) == IF x.len >= Cap THEN 0 ELSE (x.pos + x.len) % Cap

CopyIn(w) ==
  /\ wr[w].at = "copy"
  /\ \E k \in wr[w].todo :
       /\ data' = [data EXCEPT ![SlotOf(wr[w], k)] = ByteOf(wr[w], k)]
       /\ wr' = [wr EXCEPT ![w].todo = @ \ {k}]
  /\ NoteWrite
  /\ UNCHANGED <<seq, writePos, total, turn, pub>>

\* Mutant: the header is published before the bytes are copied.
CopyDone_Early(w) == wr[w].at = "copy"

\* seq_begin_write, only after the copy.
CopyDone(w) == wr[w].at = "copy" /\ wr[w].todo = {}

SeqBegin(w) == /\ CopyDone(w)
               /\ seq' = seq + 1
               /\ wr' = [wr EXCEPT ![w].at = "publish"]
               /\ NoteWrite
               /\ UNCHANGED <<writePos, total, data, turn, pub>>

StorePos(w) == /\ wr[w].at = "publish" /\ "pos" \in wr[w].stores
               /\ writePos' = NewPos(wr[w])
               /\ wr' = [wr EXCEPT ![w].stores = @ \ {"pos"}]
               /\ NoteWrite
               /\ UNCHANGED <<seq, total, data, turn, pub>>

StoreTotal(w) == /\ wr[w].at = "publish" /\ "total" \in wr[w].stores
                 /\ total' = wr[w].total + wr[w].len
                 /\ wr' = [wr EXCEPT ![w].stores = @ \ {"total"}]
                 /\ NoteWrite
                 /\ UNCHANGED <<seq, writePos, data, turn, pub>>

\* seq_end_write
SeqEnd(w) == /\ wr[w].at = "publish" /\ wr[w].stores = {}
             /\ seq' = seq + 1
             /\ wr' = [wr EXCEPT ![w] = IdleWriter]
             /\ pub' = pub \cup {<<writePos, total>>}
             /\ NoteWrite
             /\ UNCHANGED <<writePos, total, data, turn>>

\* How a writer killed at this point of write ends.
Ends(at) == IF at = "publish" THEN "torn" ELSE "dead"

\* The process dies; the mapping stays as it is.
WriterCrash(w) == /\ wr[w].at \in CrashAt
                  /\ turn = w
                  /\ wr' = [wr EXCEPT ![w] = [IdleWriter EXCEPT !.at = Ends(wr[w].at)]]
                  /\ UNCHANGED <<shared, turn, rd, pub>>

\* Attach, detach or crash detach: another process writes from now on.  Nothing
\* repairs the sequence a dead writer left odd.
PassTurn(w) == /\ wr[turn].at \in {"idle", "dead", "torn"}
               /\ turn # w /\ wr[w].at \notin {"dead", "torn"}
               /\ turn' = w
               /\ UNCHANGED <<shared, wr, rd, pub>>

-----------------------------------------------------------------------------
(* read_snapshot, then dump or read_since *)

Sets(r, x) == /\ rd' = [rd EXCEPT ![r] = x]
              /\ UNCHANGED <<shared, turn, wr, pub>>

Call(r, c) == /\ rd[r].at = "idle"
              /\ Sets(r, [rd[r] EXCEPT !.at = "seq", !.call = c, !.out = <<>>,
                                       !.clean = \A w \in Writers : wr[w].at = "idle"])

\* An odd sequence number makes the reader spin.
Spin(r) == /\ rd[r].at = "seq"
           /\ seq % 2 = 1
           /\ UNCHANGED vars

LoadSeq(r) == /\ rd[r].at = "seq"
              /\ seq % 2 = 0
              /\ Sets(r, [rd[r] EXCEPT !.at = "pos", !.seq = seq])

LoadPos(r) == /\ rd[r].at = "pos"
              /\ Sets(r, [rd[r] EXCEPT !.at = "total", !.pos = writePos])

LoadTotal(r) == /\ rd[r].at = "total"
                /\ Sets(r, [rd[r] EXCEPT !.at = "check", !.total = total])

\* Mutant: the sequence is not read again.
Unchanged_NoRecheck(r) == rd[r].at = "check"

Unchanged(r) == rd[r].at = "check" /\ seq = rd[r].seq

\* Mutant: a retry keeps the old sequence.
Retry_NoReload(r) == /\ rd[r].at = "check"
                     /\ seq # rd[r].seq
                     /\ Sets(r, [rd[r] EXCEPT !.at = "pos"])

Retry(r) == /\ rd[r].at = "check"
            /\ seq # rd[r].seq
            /\ Sets(r, [rd[r] EXCEPT !.at = "seq"])

\* A ring that has not wrapped is valid up to write_pos.
DumpLen(x) == IF x.total >= Cap THEN Cap ELSE IF x.total = 0 THEN 0 ELSE x.pos

\* dump, and the dump() that read_since falls back to: the older part of a full
\* ring starts at write_pos.
DumpSlice(r) ==
  /\ Unchanged(r)
  /\ rd[r].call \in {"dump", "overrun"}
  /\ Sets(r, [rd[r] EXCEPT !.at = "copy",
                           !.start = IF rd[r].total >= Cap THEN rd[r].pos ELSE 0,
                           !.n = DumpLen(rd[r])])

\* read_since
NewBytes(x) == x.total - x.last

\* Mutant: the wrapped part of the slice is left out.
SinceStart_NoWrap(x) == IF x.pos >= NewBytes(x) THEN x.pos - NewBytes(x) ELSE 0

SinceStart(x) == IF x.pos >= NewBytes(x) THEN x.pos - NewBytes(x)
                 ELSE Cap - (NewBytes(x) - x.pos)

SinceNothing(r) ==
  /\ Unchanged(r)
  /\ rd[r].call = "read_since"
  /\ rd[r].total <= rd[r].last
  /\ Sets(r, [IdleReader EXCEPT !.last = rd[r].total])

SinceSlice(r) ==
  /\ Unchanged(r)
  /\ rd[r].call = "read_since"
  /\ NewBytes(rd[r]) \in 1 .. Cap - 1
  /\ Sets(r, [rd[r] EXCEPT !.at = "copy", !.start = SinceStart(rd[r]),
                           !.n = NewBytes(rd[r]), !.ret = rd[r].total])

\* Overrun: dump() takes a snapshot of its own, the total returned is the first.
SinceOverrun(r) ==
  /\ Unchanged(r)
  /\ rd[r].call = "read_since"
  /\ NewBytes(rd[r]) >= Cap
  /\ Sets(r, [rd[r] EXCEPT !.at = "seq", !.call = "overrun", !.ret = rd[r].total])

CopyOut(r) ==
  /\ rd[r].at = "copy"
  /\ Len(rd[r].out) < rd[r].n
  /\ Sets(r, [rd[r] EXCEPT
       !.out = Append(@, data[(rd[r].start + Len(rd[r].out)) % Cap])])

Finished(r) == rd[r].at = "copy" /\ Len(rd[r].out) = rd[r].n

Return(r) ==
  /\ Finished(r)
  /\ Sets(r, [IdleReader EXCEPT
       !.last = IF rd[r].call = "dump" THEN rd[r].last ELSE rd[r].ret])

-----------------------------------------------------------------------------
WriterStep(w) == \/ CopyIn(w) \/ SeqBegin(w) \/ StorePos(w) \/ StoreTotal(w)
                 \/ SeqEnd(w)

ReaderStep(r) == \/ Spin(r) \/ LoadSeq(r) \/ LoadPos(r) \/ LoadTotal(r) \/ Retry(r)
                 \/ DumpSlice(r) \/ SinceNothing(r) \/ SinceSlice(r)
                 \/ SinceOverrun(r) \/ CopyOut(r) \/ Return(r)

Next == \/ \E w \in Writers : \/ WriteStart(w) \/ WriterStep(w)
                              \/ WriterCrash(w) \/ PassTurn(w)
        \/ \E r \in Readers : \/ \E c \in {"dump", "read_since"} : Call(r, c)
                              \/ ReaderStep(r)

Spec == Init /\ [][Next]_vars

\* A read that has begun goes on.  Nothing is assumed of the writers.
FairSpec == Spec /\ \A r \in Readers : WF_vars(ReaderStep(r))

-----------------------------------------------------------------------------
TypeOK == /\ seq \in Nat /\ writePos \in Nat /\ total \in Nat
          /\ data \in [Slot -> Nat \cup {Empty}]
          /\ turn \in Writers
          /\ wr \in [Writers -> Writer]
          /\ rd \in [Readers -> Reader]
          /\ pub \subseteq Nat \X Nat

\* A writer was killed while it published and another one writes since, over the
\* odd sequence: from then on the lock protects nothing.  (The crash detach of
\* server.rs spins in dump() first and never gets there; a takeover that a WS
\* Detach starts dumps nothing and does.)
Handed == \E w \in Writers \ {turn} : wr[w].at = "torn"

\* read_snapshot returns a pair that some write published: never the position
\* of one write with the total of another, however the threads interleave and
\* wherever a writer is killed, until somebody writes over an odd sequence.
SnapshotConsistent ==
  Handed \/ \A r \in Readers : rd[r].at = "copy" => <<rd[r].pos, rd[r].total>> \in pub

\* The inductive invariant behind it: only the writer whose turn it is writes,
\* the sequence is odd exactly while it publishes (for ever, if it is killed
\* there), and a reader that still sees the sequence it started from has loaded
\* the current header.
OneWriter == \A w \in Writers \ {turn} : wr[w].at \in {"idle", "dead", "torn"}
InPublish(x) == x.at \in {"publish", "torn"}
Parity == seq % 2 = (IF InPublish(wr[turn]) THEN 1 ELSE 0)
HeaderPublished == ~InPublish(wr[turn]) => <<writePos, total>> \in pub
ReaderCurrent(x) ==
  /\ x.at \in {"pos", "total", "check"} => x.seq % 2 = 0 /\ x.seq <= seq
  /\ x.at \in {"total", "check"} /\ x.seq = seq => x.pos = writePos
  /\ x.at = "check" /\ x.seq = seq => x.total = total

SeqlockInv == /\ TypeOK
              /\ \/ Handed
                 \/ /\ OneWriter /\ Parity /\ HeaderPublished
                    /\ \A r \in Readers : ReaderCurrent(rd[r])
                    /\ SnapshotConsistent

\* Between writes the ring holds the last bytes of the stream ending just before
\* write_pos, also after a write longer than the ring moved write_pos to 0.
RingHoldsTail ==
  (\A w \in Writers : wr[w].at = "idle") =>
    \A k \in 1 .. Lesser(total, Cap) : data[(writePos + Cap - k) % Cap] = total - k

\* The numbers the bytes of the answer should have.
Expected(x, i) == x.total - x.n + i - 1

\* A snapshot never promises bytes that are not there yet: a byte read is the
\* one expected or, when the writer has lapped the reader, a later one; until
\* somebody writes over an odd sequence.
NeverStale ==
  Handed \/ \A r \in Readers : rd[r].at = "copy" =>
              \A i \in 1 .. Len(rd[r].out) : rd[r].out[i] >= Expected(rd[r], i)

\* dump and read_since return exactly the bytes asked for when no write
\* overlaps the call: all wrap-arounds, overruns and oversized writes.
QuietReadExact ==
  \A r \in Readers : Finished(r) /\ rd[r].clean =>
    LET x == rd[r]
    IN  /\ \A i \in 1 .. x.n : x.out[i] = Expected(x, i)
        /\ x.call = "read_since" => x.total = x.ret /\ x.n = x.ret - x.last
        /\ x.call = "overrun" => x.total = x.ret
        /\ x.call = "dump" => x.n = Lesser(total, Cap) /\ x.total = total

\* Nobody is inside a write and the sequence is even.
Resting == seq % 2 = 0 /\ \A w \in Writers : wr[w].at # "publish"

\* A read returns once the ring comes to rest, whatever happened to it before:
\* writes that overlapped it, a writer killed between writes or in its copy.  The
\* two cases in which read_snapshot never returns are those in which the ring does
\* not rest: a writer that publishes again and again between its two loads of the
\* sequence, and one that was killed between seq_begin_write and seq_end_write.
ReadReturns ==
  <>[]Resting => \A r \in Readers : (rd[r].at # "idle" ~> rd[r].at = "idle")
=============================================================================
