-------------------------- MODULE SharedRingProofs -------------------------
(* The sequence lock of SharedRing is correct for every capacity, any      *)
(* number of readers and writes of any length, as long as the writers take *)
(* turns, and wherever they are killed, until one writes over the odd      *)
(* sequence another has left (Handed).                                     *)
EXTENDS SharedRing, TLAPS

\* A write stays inside the ring and what it stores are stream numbers.
LEMMA WriteInRing ==
  ASSUME NEW x \in Writer, NEW k \in x.todo
  PROVE  SlotOf(x, k) \in Slot /\ ByteOf(x, k) \in Nat /\ NewPos(x) \in Nat
  <1>1. Cap \in Nat \ {0}
    BY RingAssumption
  <1>2. /\ x.pos \in Nat /\ x.total \in Nat /\ x.len \in Nat
        /\ k \in Slot
    BY DEF Writer
  <1>3. k \in Nat /\ k <= Cap - 1
    BY <1>1, <1>2 DEF Slot
  <1>4. (x.pos + k) % Cap \in Slot /\ (x.pos + x.len) % Cap \in Nat
    BY <1>1, <1>2, <1>3 DEF Slot
  <1> QED BY <1>1, <1>2, <1>3, <1>4 DEF SlotOf, ByteOf, NewPos

\* Positions wrap into the ring.
LEMMA ModSlot == \A n \in Nat : n % Cap \in Slot
  BY RingAssumption DEF Slot

\* The position a write publishes is a number.
LEMMA NewPosNat ==
  ASSUME NEW x \in Writer
  PROVE  NewPos(x) \in Nat
  <1>1. Cap \in Nat \ {0} /\ x.pos \in Nat /\ x.len \in Nat
    BY RingAssumption DEF Writer
  <1> QED BY <1>1 DEF NewPos

\* The slice read_since copies starts inside the address range.
LEMMA SinceStartNat ==
  ASSUME NEW x \in Reader, NewBytes(x) \in 1 .. Cap - 1
  PROVE  SinceStart(x) \in Nat /\ NewBytes(x) \in Nat
  <1>1. Cap \in Nat \ {0} /\ x.pos \in Nat /\ x.total \in Nat /\ x.last \in Nat
    BY RingAssumption DEF Reader
  <1> DEFINE b == NewBytes(x)
  <1>2. b \in 1 .. Cap - 1
    OBVIOUS
  <1> HIDE DEF b
  <1>3. b \in Nat /\ (IF x.pos >= b THEN x.pos - b ELSE Cap - (b - x.pos)) \in Nat
    BY <1>1, <1>2
  <1> QED BY <1>3 DEF SinceStart, b

-----------------------------------------------------------------------------
(* Type correctness *)

\* The history variable of the readers is all a write step changes of them.
LEMMA NoteWriteOK ==
  ASSUME TypeOK, NoteWrite
  PROVE  /\ rd' \in [Readers -> Reader]
         /\ \A r \in Readers : /\ rd'[r].at = rd[r].at /\ rd'[r].seq = rd[r].seq
                               /\ rd'[r].pos = rd[r].pos /\ rd'[r].total = rd[r].total
  <1>1. ASSUME NEW x \in Reader
        PROVE  LET y == [x EXCEPT !.clean = FALSE]
               IN  /\ y \in Reader
                   /\ y.at = x.at /\ y.seq = x.seq /\ y.pos = x.pos /\ y.total = x.total
    BY DEF Reader
  <1>2. \A r \in Readers : rd[r] \in Reader /\ rd'[r] = [rd[r] EXCEPT !.clean = FALSE]
    BY DEF TypeOK, NoteWrite
  <1>3. rd' \in [Readers -> Reader]
    BY <1>1, <1>2 DEF NoteWrite
  <1> QED BY <1>1, <1>2, <1>3

\* Idle records are well typed.
LEMMA IdleOK == /\ IdleWriter \in Writer /\ \A d \in {"dead", "torn"} : [IdleWriter EXCEPT !.at = d] \in Writer
                /\ IdleReader \in Reader
                /\ \A n \in Nat : [IdleReader EXCEPT !.last = n] \in Reader
  <1>1. IdleWriter \in Writer /\ \A d \in {"dead", "torn"} : [IdleWriter EXCEPT !.at = d] \in Writer
    BY DEF IdleWriter, Writer
  <1> DEFINE Outs == Seq(Nat \cup {Empty})
  <1>2. <<>> \in Outs
    OBVIOUS
  <1> HIDE DEF Outs
  <1>3. IdleReader \in Reader
    BY <1>2 DEF IdleReader, Reader, Outs
  <1>4. \A n \in Nat : [IdleReader EXCEPT !.last = n] \in Reader
    BY <1>3 DEF Reader
  <1> QED BY <1>1, <1>3, <1>4

\* What a call makes of the reader's record.
LEMMA CallFields ==
  ASSUME NEW x \in Reader, NEW c \in {"dump", "read_since"},
         NEW o \in Seq(Nat \cup {Empty}), NEW q \in BOOLEAN
  PROVE  [x EXCEPT !.at = "seq", !.call = c, !.out = o, !.clean = q] \in Reader
  <1> DEFINE y == [x EXCEPT !.at = "seq", !.call = c, !.out = o]
  <1>1. y \in Reader
    BY DEF Reader
  <1> HIDE DEF y
  <1>2. [y EXCEPT !.clean = q] \in Reader
    BY <1>1 DEF Reader
  <1> QED BY <1>2 DEF y

\* What a writer's step makes of its own record.
LEMMA WriterFields ==
  ASSUME NEW x \in Writer
  PROVE  /\ \A k : [x EXCEPT !.todo = @ \ {k}] \in Writer
         /\ \A k : [x EXCEPT !.stores = @ \ {k}] \in Writer
         /\ [x EXCEPT !.at = "publish"] \in Writer
  BY DEF Writer

\* Every step of a writer is well typed.
LEMMA WriterTypes ==
  ASSUME TypeOK, NEW w \in Writers,
         WriteStart(w) \/ WriterStep(w) \/ WriterCrash(w) \/ PassTurn(w)
  PROVE  TypeOK'
  <1>cap. Cap \in Nat \ {0} /\ MaxLen \in Nat
    BY RingAssumption
  <1>1. CASE WriteStart(w)
    <2>1. PICK n \in 1 .. MaxLen :
            wr' = [wr EXCEPT ![w] =
              [at |-> "copy", pos |-> writePos, total |-> total, len |-> n,
               todo |-> 0 .. Lesser(n, Cap) - 1, stores |-> {"pos", "total"}]]
      BY <1>1 DEF WriteStart
    <2>2. n \in Nat /\ 0 .. Lesser(n, Cap) - 1 \subseteq Slot
      BY <1>cap DEF Lesser, Slot
    <2>3. wr' \in [Writers -> Writer]
      BY <2>1, <2>2 DEF TypeOK, Writer
    <2> QED BY <1>1, <2>3, NoteWriteOK DEF WriteStart, shared, TypeOK
  <1>2. CASE CopyIn(w)
    <2>1. PICK k \in wr[w].todo :
            /\ data' = [data EXCEPT ![SlotOf(wr[w], k)] = ByteOf(wr[w], k)]
            /\ wr' = [wr EXCEPT ![w].todo = @ \ {k}]
      BY <1>2 DEF CopyIn
    <2>2. wr[w] \in Writer
      BY DEF TypeOK
    <2>3. SlotOf(wr[w], k) \in Slot /\ ByteOf(wr[w], k) \in Nat
      BY <2>2, WriteInRing
    <2>4. data' \in [Slot -> Nat \cup {Empty}]
      BY <2>1, <2>3 DEF TypeOK
    <2>5. wr' \in [Writers -> Writer]
      BY <2>1, <2>2, WriterFields DEF TypeOK
    <2> QED BY <1>2, <2>4, <2>5, NoteWriteOK DEF CopyIn, TypeOK
  <1>3. CASE SeqBegin(w)
    <2>1. wr' \in [Writers -> Writer]
      BY <1>3, WriterFields DEF SeqBegin, TypeOK
    <2> QED BY <1>3, <2>1, NoteWriteOK DEF SeqBegin, TypeOK
  <1>4. CASE StorePos(w)
    <2>1. wr' \in [Writers -> Writer]
      BY <1>4, WriterFields DEF StorePos, TypeOK
    <2>2. NewPos(wr[w]) \in Nat
      BY NewPosNat DEF TypeOK
    <2> QED BY <1>4, <2>1, <2>2, NoteWriteOK DEF StorePos, TypeOK
  <1>5. CASE StoreTotal(w)
    <2>1. wr' \in [Writers -> Writer]
      BY <1>5, WriterFields DEF StoreTotal, TypeOK
    <2>2. wr[w].total + wr[w].len \in Nat
      BY DEF TypeOK, Writer
    <2> QED BY <1>5, <2>1, <2>2, NoteWriteOK DEF StoreTotal, TypeOK
  <1>6. CASE SeqEnd(w)
    <2>1. wr' \in [Writers -> Writer]
      BY <1>6, IdleOK DEF SeqEnd, TypeOK
    <2> QED BY <1>6, <2>1, NoteWriteOK DEF SeqEnd, TypeOK
  <1>7. CASE WriterCrash(w)
    <2>1. wr' \in [Writers -> Writer]
      BY <1>7, IdleOK DEF WriterCrash, TypeOK, Ends
    <2> QED BY <1>7, <2>1 DEF WriterCrash, shared, TypeOK
  <1>8. CASE PassTurn(w)
    BY <1>8 DEF PassTurn, shared, TypeOK
  <1> QED BY <1>1, <1>2, <1>3, <1>4, <1>5, <1>6, <1>7, <1>8 DEF WriterStep

\* A reader's step changes its own record only.
LEMMA SetsOK ==
  ASSUME TypeOK, NEW r \in Readers, NEW x \in Reader, Sets(r, x)
  PROVE  TypeOK'
  BY DEF Sets, shared, TypeOK

\* Every step of a reader is well typed.
LEMMA ReaderTypes ==
  ASSUME TypeOK, NEW r \in Readers,
         (\E c \in {"dump", "read_since"} : Call(r, c)) \/ ReaderStep(r)
  PROVE  TypeOK'
  <1> DEFINE x == rd[r]
  <1>cap. Cap \in Nat \ {0}
    BY RingAssumption
  <1>typ. /\ x \in Reader /\ x.seq \in Nat /\ x.pos \in Nat /\ x.total \in Nat
          /\ x.last \in Nat /\ x.ret \in Nat /\ x.start \in Nat
          /\ x.out \in Seq(Nat \cup {Empty})
    BY DEF TypeOK, Reader
  <1>1. ASSUME NEW c \in {"dump", "read_since"}, Call(r, c) PROVE TypeOK'
    <2> DEFINE quiet == \A w \in Writers : wr[w].at = "idle"
               y == [x EXCEPT !.at = "seq", !.call = c, !.out = <<>>, !.clean = quiet]
    <2>1. quiet \in BOOLEAN
      OBVIOUS
    <2>2. Sets(r, y)
      BY <1>1 DEF Call
    <2> HIDE DEF quiet
    <2>3. <<>> \in Seq(Nat \cup {Empty})
      OBVIOUS
    <2>4. y \in Reader
      BY <1>typ, <2>1, <2>3, CallFields
    <2> HIDE DEF y
    <2> QED BY <2>2, <2>4, SetsOK
  <1>2. CASE Spin(r)
    BY <1>2 DEF Spin, vars, TypeOK
  <1>3. CASE LoadSeq(r)
    <2>1. [x EXCEPT !.at = "pos", !.seq = seq] \in Reader
      BY <1>typ DEF Reader, TypeOK
    <2> QED BY <1>3, <2>1, SetsOK DEF LoadSeq
  <1>4. CASE LoadPos(r)
    <2>1. [x EXCEPT !.at = "total", !.pos = writePos] \in Reader
      BY <1>typ DEF Reader, TypeOK
    <2> QED BY <1>4, <2>1, SetsOK DEF LoadPos
  <1>5. CASE LoadTotal(r)
    <2>1. [x EXCEPT !.at = "check", !.total = total] \in Reader
      BY <1>typ DEF Reader, TypeOK
    <2> QED BY <1>5, <2>1, SetsOK DEF LoadTotal
  <1>6. CASE Retry(r)
    <2>1. [x EXCEPT !.at = "seq"] \in Reader
      BY <1>typ DEF Reader
    <2> QED BY <1>6, <2>1, SetsOK DEF Retry
  <1>7. CASE DumpSlice(r)
    <2>1. DumpLen(x) \in Nat /\ (IF x.total >= Cap THEN x.pos ELSE 0) \in Nat
      BY <1>cap, <1>typ DEF DumpLen
    <2>2. [x EXCEPT !.at = "copy", !.start = IF x.total >= Cap THEN x.pos ELSE 0,
                    !.n = DumpLen(x)] \in Reader
      BY <1>typ, <2>1 DEF Reader
    <2> QED BY <1>7, <2>2, SetsOK DEF DumpSlice
  <1>8. CASE SinceNothing(r)
    BY <1>8, <1>typ, IdleOK, SetsOK DEF SinceNothing
  <1>9. CASE SinceSlice(r)
    <2>1. SinceStart(x) \in Nat /\ NewBytes(x) \in Nat
      BY <1>9, <1>typ, SinceStartNat DEF SinceSlice
    <2>2. [x EXCEPT !.at = "copy", !.start = SinceStart(x), !.n = NewBytes(x),
                    !.ret = x.total] \in Reader
      BY <1>typ, <2>1 DEF Reader
    <2> QED BY <1>9, <2>2, SetsOK DEF SinceSlice
  <1>10. CASE SinceOverrun(r)
    <2>1. [x EXCEPT !.at = "seq", !.call = "overrun", !.ret = x.total] \in Reader
      BY <1>typ DEF Reader
    <2> QED BY <1>10, <2>1, SetsOK DEF SinceOverrun
  <1>11. CASE CopyOut(r)
    <2>0. x.start + Len(x.out) \in Nat
      BY <1>typ
    <2>1. (x.start + Len(x.out)) % Cap \in Slot
      BY <2>0, ModSlot
    <2>2. Append(x.out, data[(x.start + Len(x.out)) % Cap]) \in Seq(Nat \cup {Empty})
      BY <1>typ, <2>1 DEF TypeOK
    <2>3. [x EXCEPT !.out = Append(@, data[(x.start + Len(x.out)) % Cap])] \in Reader
      BY <1>typ, <2>2 DEF Reader
    <2> QED BY <1>11, <2>3, SetsOK DEF CopyOut
  <1>12. CASE Return(r)
    BY <1>12, <1>typ, IdleOK, SetsOK DEF Return
  <1> QED BY <1>1, <1>2, <1>3, <1>4, <1>5, <1>6, <1>7, <1>8, <1>9, <1>10, <1>11, <1>12
          DEF ReaderStep

-----------------------------------------------------------------------------
(* The sequence lock *)

\* What the lock keeps up until it is handed on broken.
Sound == /\ TypeOK /\ OneWriter /\ Parity /\ HeaderPublished
         /\ \A r \in Readers : /\ ReaderCurrent(rd[r])
                               /\ rd[r].at = "copy" => <<rd[r].pos, rd[r].total>> \in pub

\* The empty ring that create() maps.
LEMMA InitSeqlock == Init => Sound
  <1> SUFFICES ASSUME Init PROVE Sound
    OBVIOUS
  <1>1. TypeOK
    BY IdleOK DEF Init, TypeOK
  <1>2. wr[turn].at = "idle" /\ \A w \in Writers : wr[w].at = "idle"
    BY DEF Init, IdleWriter
  <1>3. \A r \in Readers : rd[r].at = "idle"
    BY DEF Init, IdleReader
  <1>4. OneWriter /\ Parity /\ HeaderPublished
    BY <1>2 DEF OneWriter, Parity, HeaderPublished, InPublish, Init
  <1> QED BY <1>1, <1>3, <1>4 DEF Sound, ReaderCurrent

\* What a step in a writer's turn needs to show: the header changes only while
\* the sequence is odd, and the sequence never goes back.
LEMMA HeaderGuarded ==
  ASSUME Sound, TypeOK', OneWriter', Parity', HeaderPublished', pub \subseteq pub',
         \A r \in Readers : /\ rd'[r].at = rd[r].at /\ rd'[r].seq = rd[r].seq
                            /\ rd'[r].pos = rd[r].pos /\ rd'[r].total = rd[r].total,
         \/ seq' = seq /\ seq % 2 = 1
         \/ seq' = seq /\ UNCHANGED <<writePos, total>>
         \/ seq' = seq + 1
  PROVE  Sound'
  <1>1. \A r \in Readers : rd'[r].at = "copy" => <<rd'[r].pos, rd'[r].total>> \in pub'
    BY DEF Sound
  <1>2. ASSUME NEW r \in Readers PROVE ReaderCurrent(rd[r])'
    <2>1. /\ rd[r].at \in {"pos", "total", "check"} => rd[r].seq % 2 = 0 /\ rd[r].seq <= seq
          /\ rd[r].at \in {"total", "check"} /\ rd[r].seq = seq => rd[r].pos = writePos
          /\ rd[r].at = "check" /\ rd[r].seq = seq => rd[r].total = total
      BY DEF Sound, ReaderCurrent
    <2>2. rd[r].seq \in Nat /\ seq \in Nat
      BY DEF Sound, TypeOK, Reader
    <2> QED BY <2>1, <2>2 DEF ReaderCurrent
  <1> QED BY <1>1, <1>2 DEF Sound

\* Steps of writers preserve the invariant.
LEMMA WriterKeeps ==
  ASSUME SingleWriter, Sound, NEW w \in Writers,
         WriteStart(w) \/ WriterStep(w) \/ WriterCrash(w) \/ PassTurn(w)
  PROVE  Sound' \/ Handed'
  <1>typ. TypeOK /\ TypeOK'
    BY WriterTypes DEF Sound
  <1>inv. OneWriter /\ Parity /\ HeaderPublished /\ turn \in Writers /\ seq \in Nat
          /\ wr[w] \in Writer
    BY DEF Sound, TypeOK
  \* a step that keeps the writer out of the publishing section
  <1>out. ASSUME UNCHANGED <<seq, writePos, total, turn, pub>>, NEW x \in Writer,
                 wr' = [wr EXCEPT ![w] = x], w = turn \/ x.at \in {"idle", "dead"},
                 InPublish(x) <=> InPublish(wr[w])
          PROVE  OneWriter' /\ Parity' /\ HeaderPublished'
    <2>1. wr'[w] = x /\ \A v \in Writers \ {w} : wr'[v] = wr[v]
      BY <1>out, <1>typ DEF TypeOK
    <2>2. OneWriter'
      BY <1>inv, <1>out, <2>1 DEF OneWriter
    <2>3. InPublish(wr'[turn']) <=> InPublish(wr[turn])
      BY <1>inv, <1>out, <2>1
    <2> QED BY <1>inv, <1>out, <2>2, <2>3 DEF Parity, HeaderPublished
  <1>1. CASE WriteStart(w)
    <2>1. PICK x : wr' = [wr EXCEPT ![w] = x] /\ x.at = "copy"
      <3>1. PICK n \in 1 .. MaxLen :
              wr' = [wr EXCEPT ![w] =
                [at |-> "copy", pos |-> writePos, total |-> total, len |-> n,
                 todo |-> 0 .. Lesser(n, Cap) - 1, stores |-> {"pos", "total"}]]
        BY <1>1 DEF WriteStart
      <3> DEFINE x == [at |-> "copy", pos |-> writePos, total |-> total, len |-> n,
                       todo |-> 0 .. Lesser(n, Cap) - 1, stores |-> {"pos", "total"}]
      <3>2. x.at = "copy"
        OBVIOUS
      <3>3. wr' = [wr EXCEPT ![w] = x]
        BY <3>1
      <3> HIDE DEF x
      <3> QED BY <3>2, <3>3
    <2>2. /\ UNCHANGED <<seq, writePos, total, turn, pub>> /\ NoteWrite
          /\ w = turn /\ wr[w].at = "idle"
      BY <1>1 DEF WriteStart, shared, MayWrite
    <2>3. wr'[w] = x /\ x \in Writer
      BY <1>typ, <2>1 DEF TypeOK
    <2>4. ~InPublish(x) /\ ~InPublish(wr[w])
      BY <2>1, <2>2 DEF InPublish
    <2> QED BY <1>out, <1>typ, <2>1, <2>2, <2>3, <2>4, NoteWriteOK, HeaderGuarded
  <1>turn. ASSUME wr[w].at \in {"copy", "publish"} PROVE w = turn
    BY <1>inv, <1>turn DEF OneWriter
  <1>2. CASE CopyIn(w)
    <2>1. PICK k : wr' = [wr EXCEPT ![w].todo = @ \ {k}]
      BY <1>2 DEF CopyIn
    <2> DEFINE x == [wr[w] EXCEPT !.todo = @ \ {k}]
    <2>2. x \in Writer /\ x.at = "copy" /\ wr[w].at = "copy"
      BY <1>2, <1>inv, WriterFields DEF CopyIn, Writer
    <2>3. UNCHANGED <<seq, writePos, total, turn, pub>> /\ NoteWrite
      BY <1>2 DEF CopyIn
    <2>4. wr' = [wr EXCEPT ![w] = x]
      BY <2>1
    <2> HIDE DEF x
    <2>5. ~InPublish(x) /\ ~InPublish(wr[w])
      BY <2>2 DEF InPublish
    <2> QED BY <1>out, <1>turn, <1>typ, <2>2, <2>3, <2>4, <2>5, NoteWriteOK, HeaderGuarded
  <1>3. CASE SeqBegin(w)
    <2>1. /\ wr[w].at = "copy" /\ wr' = [wr EXCEPT ![w].at = "publish"] /\ seq' = seq + 1
          /\ UNCHANGED <<writePos, total, turn, pub>> /\ NoteWrite
      BY <1>3 DEF SeqBegin, CopyDone
    <2>2. w = turn
      BY <1>turn, <2>1
    <2>3. wr'[w].at = "publish" /\ \A v \in Writers \ {w} : wr'[v] = wr[v]
      BY <1>typ, <2>1 DEF TypeOK, Writer
    <2>4. seq % 2 = 0
      BY <1>inv, <2>1, <2>2 DEF Parity, InPublish
    <2>5. seq' % 2 = 1
      BY <1>inv, <2>1, <2>4
    <2>6. OneWriter' /\ Parity' /\ HeaderPublished'
      BY <1>inv, <2>1, <2>2, <2>3, <2>5 DEF OneWriter, Parity, HeaderPublished, InPublish
    <2> QED BY <1>typ, <2>1, <2>6, NoteWriteOK, HeaderGuarded
  <1>4. CASE StorePos(w) \/ StoreTotal(w)
    <2>1. PICK k : /\ wr' = [wr EXCEPT ![w].stores = @ \ {k}] /\ wr[w].at = "publish"
                   /\ UNCHANGED <<seq, turn, pub>> /\ NoteWrite
      BY <1>4 DEF StorePos, StoreTotal
    <2>2. w = turn
      BY <1>turn, <2>1
    <2>3. wr'[w].at = "publish" /\ \A v \in Writers \ {w} : wr'[v] = wr[v]
      BY <1>typ, <2>1 DEF TypeOK, Writer
    <2>4. seq % 2 = 1
      BY <1>inv, <2>1, <2>2 DEF Parity, InPublish
    <2>5. OneWriter' /\ Parity' /\ HeaderPublished'
      BY <1>inv, <2>1, <2>2, <2>3, <2>4 DEF OneWriter, Parity, HeaderPublished, InPublish
    <2> QED BY <1>typ, <2>1, <2>4, <2>5, NoteWriteOK, HeaderGuarded
  <1>5. CASE SeqEnd(w)
    <2>1. /\ wr[w].at = "publish" /\ wr' = [wr EXCEPT ![w] = IdleWriter] /\ seq' = seq + 1
          /\ pub' = pub \cup {<<writePos, total>>}
          /\ UNCHANGED <<writePos, total, turn>> /\ NoteWrite
      BY <1>5 DEF SeqEnd
    <2>2. w = turn
      BY <1>turn, <2>1
    <2>3. wr'[w].at = "idle" /\ \A v \in Writers \ {w} : wr'[v] = wr[v]
      BY <1>typ, <2>1 DEF TypeOK, IdleWriter
    <2>4. seq % 2 = 1
      BY <1>inv, <2>1, <2>2 DEF Parity, InPublish
    <2>5. seq' % 2 = 0
      BY <1>inv, <2>1, <2>4
    <2>6. OneWriter' /\ Parity' /\ HeaderPublished'
      BY <1>inv, <2>1, <2>2, <2>3, <2>5 DEF OneWriter, Parity, HeaderPublished, InPublish
    <2> QED BY <1>typ, <2>1, <2>6, NoteWriteOK, HeaderGuarded
  <1>6. CASE WriterCrash(w)
    <2>1. /\ wr' = [wr EXCEPT ![w] = [IdleWriter EXCEPT !.at = Ends(wr[w].at)]] /\ w = turn
          /\ wr[w].at \in {"idle", "copy", "publish"}
          /\ UNCHANGED <<seq, writePos, total, turn, pub, rd>>
      BY <1>6, RingAssumption DEF WriterCrash, shared
    <2>2. PICK d \in {"dead", "torn"} :
            d = Ends(wr[w].at) /\ ((d = "torn") <=> (wr[w].at = "publish"))
      BY <2>1 DEF Ends
    <2> DEFINE x == [IdleWriter EXCEPT !.at = d]
    <2>3. x \in Writer /\ wr' = [wr EXCEPT ![w] = x]
      BY <2>1, <2>2, IdleOK
    <2>4. x.at = d
      BY DEF IdleWriter
    <2> HIDE DEF x
    <2>5. InPublish(x) <=> InPublish(wr[w])
      <3>1. CASE d = "torn"
        BY <2>2, <2>4, <3>1 DEF InPublish
      <3>2. CASE d = "dead"
        BY <2>1, <2>2, <2>4, <3>2 DEF InPublish
      <3> QED BY <3>1, <3>2
    <2> QED BY <1>out, <1>typ, <2>1, <2>3, <2>5, HeaderGuarded
  <1>7. CASE PassTurn(w)
    <2>1. /\ wr[turn].at \in {"idle", "dead", "torn"} /\ turn # w /\ turn' = w
          /\ wr[w].at \notin {"dead", "torn"}
          /\ UNCHANGED <<seq, writePos, total, wr, rd, pub>>
      BY <1>7 DEF PassTurn, shared
    <2>2. CASE wr[turn].at = "torn"
      BY <1>inv, <2>1, <2>2 DEF Handed
    <2>3. CASE wr[turn].at \in {"idle", "dead"}
      <3>1. wr[w].at = "idle"
        BY <1>inv, <2>1 DEF OneWriter
      <3>2. ~InPublish(wr[w]) /\ ~InPublish(wr[turn])
        BY <2>3, <3>1 DEF InPublish
      <3>3. OneWriter' /\ Parity' /\ HeaderPublished'
        BY <1>inv, <2>1, <2>3, <3>1, <3>2 DEF OneWriter, Parity, HeaderPublished
      <3> QED BY <1>typ, <2>1, <3>3, HeaderGuarded
    <2> QED BY <2>1, <2>2, <2>3
  <1> QED BY <1>1, <1>2, <1>3, <1>4, <1>5, <1>6, <1>7 DEF WriterStep

\* Steps of readers preserve it.
LEMMA ReaderKeeps ==
  ASSUME Sound, NEW r \in Readers,
         (\E c \in {"dump", "read_since"} : Call(r, c)) \/ ReaderStep(r)
  PROVE  Sound'
  <1>typ. TypeOK /\ TypeOK'
    BY ReaderTypes DEF Sound
  <1>cur. ReaderCurrent(rd[r]) /\ rd[r] \in Reader
    BY DEF Sound, TypeOK
  \* what the new record of reader r has to satisfy
  <1>set. ASSUME NEW x, Sets(r, x), ReaderCurrent(x),
                 x.at = "copy" => <<x.pos, x.total>> \in pub
          PROVE  Sound'
    <2>1. UNCHANGED <<seq, writePos, total, wr, turn, pub>>
      BY <1>set DEF Sets, shared
    <2>2. rd'[r] = x /\ \A q \in Readers \ {r} : rd'[q] = rd[q]
      BY <1>set, <1>typ DEF Sets, TypeOK
    <2>3. OneWriter' /\ Parity' /\ HeaderPublished'
      BY <2>1 DEF Sound, OneWriter, Parity, HeaderPublished
    <2>4. ASSUME NEW q \in Readers PROVE ReaderCurrent(rd[q])'
      BY <1>set, <2>1, <2>2 DEF Sound, ReaderCurrent
    <2>5. \A q \in Readers : rd'[q].at = "copy" => <<rd'[q].pos, rd'[q].total>> \in pub'
      BY <1>set, <2>1, <2>2 DEF Sound
    <2> QED BY <1>typ, <2>3, <2>4, <2>5 DEF Sound
  \* an unchanged, even sequence vouches for the loaded header
  <1>ok. ASSUME Unchanged(r) PROVE <<rd[r].pos, rd[r].total>> \in pub
    <2>1. rd[r].at = "check" /\ rd[r].seq = seq
      BY <1>ok DEF Unchanged
    <2>2. seq % 2 = 0 /\ rd[r].pos = writePos /\ rd[r].total = total
      BY <1>cur, <2>1 DEF ReaderCurrent
    <2>3. ~InPublish(wr[turn])
      BY <2>2 DEF Sound, Parity
    <2> QED BY <2>2, <2>3 DEF Sound, HeaderPublished
  <1>1. ASSUME NEW c \in {"dump", "read_since"}, Call(r, c) PROVE Sound'
    <2> DEFINE quiet == \A w \in Writers : wr[w].at = "idle"
               x == [rd[r] EXCEPT !.at = "seq", !.call = c, !.out = <<>>, !.clean = quiet]
    <2>1. Sets(r, x)
      BY <1>1 DEF Call
    <2>2. x.at = "seq"
      BY <1>cur DEF Reader
    <2> HIDE DEF x
    <2>3. ReaderCurrent(x) /\ x.at # "copy"
      BY <2>2 DEF ReaderCurrent
    <2> QED BY <1>set, <2>1, <2>3
  <1>2. CASE Spin(r)
    <2>1. UNCHANGED <<seq, writePos, total, wr, turn, pub, rd>>
      BY <1>2 DEF Spin, vars
    <2> QED BY <1>typ, <2>1 DEF Sound, OneWriter, Parity, HeaderPublished,
                               InPublish, ReaderCurrent
  <1>3. CASE LoadSeq(r)
    <2> DEFINE x == [rd[r] EXCEPT !.at = "pos", !.seq = seq]
    <2>1. Sets(r, x) /\ seq % 2 = 0 /\ seq \in Nat
      BY <1>3, <1>typ DEF LoadSeq, TypeOK
    <2>2. x.at = "pos" /\ x.seq = seq
      BY <1>cur DEF Reader
    <2> HIDE DEF x
    <2>3. ReaderCurrent(x)
      BY <2>1, <2>2 DEF ReaderCurrent
    <2> QED BY <1>set, <2>1, <2>2, <2>3
  <1>4. CASE LoadPos(r)
    <2> DEFINE x == [rd[r] EXCEPT !.at = "total", !.pos = writePos]
    <2>1. Sets(r, x) /\ rd[r].at = "pos"
      BY <1>4 DEF LoadPos
    <2>2. x.at = "total" /\ x.seq = rd[r].seq /\ x.pos = writePos
      BY <1>cur DEF Reader
    <2> HIDE DEF x
    <2>3. ReaderCurrent(x)
      BY <1>cur, <2>1, <2>2 DEF ReaderCurrent
    <2> QED BY <1>set, <2>1, <2>2, <2>3
  <1>5. CASE LoadTotal(r)
    <2> DEFINE x == [rd[r] EXCEPT !.at = "check", !.total = total]
    <2>1. Sets(r, x) /\ rd[r].at = "total"
      BY <1>5 DEF LoadTotal
    <2>2. x.at = "check" /\ x.seq = rd[r].seq /\ x.pos = rd[r].pos /\ x.total = total
      BY <1>cur DEF Reader
    <2> HIDE DEF x
    <2>3. ReaderCurrent(x)
      BY <1>cur, <2>1, <2>2 DEF ReaderCurrent
    <2> QED BY <1>set, <2>1, <2>2, <2>3
  <1>6. CASE Retry(r)
    <2> DEFINE x == [rd[r] EXCEPT !.at = "seq"]
    <2>1. Sets(r, x)
      BY <1>6 DEF Retry
    <2>2. x.at = "seq"
      BY <1>cur DEF Reader
    <2> HIDE DEF x
    <2> QED BY <1>set, <2>1, <2>2 DEF ReaderCurrent
  \* the call goes on to copy, from a snapshot that is good
  <1>copy. ASSUME NEW x, Sets(r, x), Unchanged(r), x.at = "copy",
                  x.pos = rd[r].pos, x.total = rd[r].total
           PROVE  Sound'
    BY <1>set, <1>ok, <1>copy DEF ReaderCurrent
  <1>7. CASE DumpSlice(r)
    <2> DEFINE st == IF rd[r].total >= Cap THEN rd[r].pos ELSE 0
               ln == DumpLen(rd[r])
               x == [rd[r] EXCEPT !.at = "copy", !.start = st, !.n = ln]
    <2>1. Sets(r, x) /\ Unchanged(r)
      BY <1>7 DEF DumpSlice
    <2> HIDE DEF st, ln
    <2>2. x.at = "copy" /\ x.pos = rd[r].pos /\ x.total = rd[r].total
      BY <1>cur DEF Reader
    <2> HIDE DEF x
    <2> QED BY <1>copy, <2>1, <2>2
  <1>8. CASE SinceSlice(r)
    <2> DEFINE st == SinceStart(rd[r])
               ln == NewBytes(rd[r])
               x == [rd[r] EXCEPT !.at = "copy", !.start = st, !.n = ln, !.ret = rd[r].total]
    <2>1. Sets(r, x) /\ Unchanged(r)
      BY <1>8 DEF SinceSlice
    <2> HIDE DEF st, ln
    <2>2. x.at = "copy" /\ x.pos = rd[r].pos /\ x.total = rd[r].total
      BY <1>cur DEF Reader
    <2> HIDE DEF x
    <2> QED BY <1>copy, <2>1, <2>2
  <1>9. CASE SinceOverrun(r)
    <2> DEFINE x == [rd[r] EXCEPT !.at = "seq", !.call = "overrun", !.ret = rd[r].total]
    <2>1. Sets(r, x)
      BY <1>9 DEF SinceOverrun
    <2>2. x.at = "seq"
      BY <1>cur DEF Reader
    <2> HIDE DEF x
    <2> QED BY <1>set, <2>1, <2>2 DEF ReaderCurrent
  <1>10. CASE SinceNothing(r) \/ Return(r)
    <2>1. PICK n : Sets(r, [IdleReader EXCEPT !.last = n])
      BY <1>10 DEF SinceNothing, Return
    <2> DEFINE x == [IdleReader EXCEPT !.last = n]
    <2>2. x.at = "idle"
      BY DEF IdleReader
    <2> HIDE DEF x
    <2>3. Sets(r, x)
      BY <2>1 DEF x
    <2> QED BY <1>set, <2>2, <2>3 DEF ReaderCurrent
  <1>11. CASE CopyOut(r)
    <2>1. PICK o : Sets(r, [rd[r] EXCEPT !.out = o]) /\ rd[r].at = "copy"
      BY <1>11 DEF CopyOut
    <2> DEFINE x == [rd[r] EXCEPT !.out = o]
    <2>2. x.at = "copy" /\ x.pos = rd[r].pos /\ x.total = rd[r].total
      BY <1>cur, <2>1 DEF Reader
    <2>3. <<rd[r].pos, rd[r].total>> \in pub
      BY <2>1 DEF Sound
    <2>4. Sets(r, x)
      BY <2>1
    <2> HIDE DEF x
    <2> QED BY <1>set, <2>2, <2>3, <2>4 DEF ReaderCurrent
  <1> QED BY <1>1, <1>2, <1>3, <1>4, <1>5, <1>6, <1>7, <1>8, <1>9, <1>10, <1>11
          DEF ReaderStep

\* A killed writer never writes again nor gets the turn back.
LEMMA HandedStays ==
  ASSUME TypeOK, Handed, [Next]_vars
  PROVE  Handed'
  <1>1. PICK v \in Writers \ {turn} : wr[v].at = "torn"
    BY DEF Handed
  <1>2. ASSUME NEW w \in Writers, WriteStart(w) \/ WriterStep(w) \/ WriterCrash(w)
        PROVE  /\ turn' = turn /\ w # v
               /\ \E x : wr' = [wr EXCEPT ![w] = x]
    <2>1. w # v
      BY <1>1, <1>2, RingAssumption
         DEF WriteStart, WriterStep, CopyIn, SeqBegin, CopyDone, StorePos, StoreTotal, SeqEnd,
             WriterCrash
    <2>2. turn' = turn
      BY <1>2 DEF WriteStart, WriterStep, CopyIn, SeqBegin, StorePos, StoreTotal, SeqEnd, WriterCrash
    <2>3. \E x : wr' = [wr EXCEPT ![w] = x]
      BY <1>2 DEF WriteStart, WriterStep, CopyIn, SeqBegin, StorePos, StoreTotal, SeqEnd, WriterCrash
    <2> QED BY <2>1, <2>2, <2>3
  <1>3. CASE \E w \in Writers : WriteStart(w) \/ WriterStep(w) \/ WriterCrash(w)
    <2>1. turn' = turn /\ wr'[v] = wr[v]
      BY <1>2, <1>3 DEF TypeOK
    <2> QED BY <1>1, <2>1 DEF Handed
  <1>4. CASE \E w \in Writers : PassTurn(w)
    <2>1. turn' # v /\ wr' = wr
      BY <1>1, <1>4 DEF PassTurn
    <2> QED BY <1>1, <2>1 DEF Handed
  <1>5. CASE \E r \in Readers : (\E c \in {"dump", "read_since"} : Call(r, c)) \/ ReaderStep(r)
    <2>1. turn' = turn /\ wr' = wr
      BY <1>5 DEF Call, ReaderStep, Spin, vars, LoadSeq, LoadPos, LoadTotal, Retry, DumpSlice,
                  SinceNothing, SinceSlice, SinceOverrun, CopyOut, Return, Sets
    <2> QED BY <1>1, <2>1 DEF Handed
  <1>6. CASE UNCHANGED vars
    BY <1>1, <1>6 DEF vars, Handed
  <1> QED BY <1>3, <1>4, <1>5, <1>6 DEF Next

\* Every step is well typed.
LEMMA StepTypes ==
  ASSUME TypeOK, [Next]_vars
  PROVE  TypeOK'
  <1>1. CASE Next
    BY <1>1, WriterTypes, ReaderTypes DEF Next
  <1>2. CASE UNCHANGED vars
    BY <1>2 DEF vars, TypeOK
  <1> QED BY <1>1, <1>2

\* A step of a sound lock leaves it sound or hands it on broken.
LEMMA SoundStep ==
  ASSUME SingleWriter, Sound, [Next]_vars
  PROVE  Sound' \/ Handed'
  <1>1. CASE Next
    BY <1>1, WriterKeeps, ReaderKeeps DEF Next
  <1>2. CASE UNCHANGED vars
    BY <1>2 DEF vars, Sound, TypeOK, OneWriter, Parity, HeaderPublished, InPublish, ReaderCurrent
  <1> QED BY <1>1, <1>2

\* The two ways to write the invariant.
LEMMA SoundIs == SeqlockInv <=> TypeOK /\ (Handed \/ Sound)
  BY DEF SeqlockInv, Sound, SnapshotConsistent

\* The sequence lock invariant holds in every reachable state, wherever writers are
\* killed (SharedRingBuffer::write, read_snapshot).
THEOREM Seqlock ==
  ASSUME SingleWriter
  PROVE  Spec => []SeqlockInv
  <1>1. Init => SeqlockInv
    BY InitSeqlock, SoundIs DEF Sound
  <1>2. ASSUME SeqlockInv, [Next]_vars PROVE (TypeOK /\ (Handed \/ Sound))'
    BY <1>2, SoundIs, StepTypes, HandedStays, SoundStep
  <1>3. (TypeOK /\ (Handed \/ Sound))' => SeqlockInv'
    BY SoundIs, PTL
  <1> QED BY <1>1, <1>2, <1>3, PTL DEF Spec

\* read_snapshot returns only headers that some write published: for every
\* capacity, any number of readers, any lengths of writes, any interleaving and
\* any death of a writer, while the writers take turns and none writes over an odd
\* sequence.
THEOREM SnapshotsAreConsistent ==
  ASSUME SingleWriter
  PROVE  Spec => []SnapshotConsistent
  <1>1. SeqlockInv => SnapshotConsistent
    BY DEF SeqlockInv, SnapshotConsistent
  <1> QED BY <1>1, Seqlock, PTL

-----------------------------------------------------------------------------
(* Positions in the ring *)

\* The slot k bytes before position p, and the slot i bytes behind it.
Back(p, k) == IF k <= p THEN p - k ELSE p + Cap - k
Fwd(p, i) == IF p + i < Cap THEN p + i ELSE p + i - Cap

\* Both are what the code computes with %.
LEMMA Wrap ==
  ASSUME NEW p \in Slot
  PROVE  /\ \A k \in 1 .. Cap : (p + Cap - k) % Cap = Back(p, k) /\ Back(p, k) \in Slot
         /\ \A i \in 0 .. Cap : (p + i) % Cap = Fwd(p, i) /\ Fwd(p, i) \in Slot
  <1> USE RingAssumption DEF Slot
  <1>1. ASSUME NEW k \in 1 .. Cap PROVE (p + Cap - k) % Cap = Back(p, k) /\ Back(p, k) \in Slot
    BY DEF Back
  <1>2. ASSUME NEW i \in 0 .. Cap PROVE (p + i) % Cap = Fwd(p, i) /\ Fwd(p, i) \in Slot
    BY DEF Fwd
  <1> QED BY <1>1, <1>2

\* The data d ends with the stream before t at position p, or, where a writer has
\* been since, with later bytes.  A ring that has not wrapped starts at slot 0.
PosOK(p, t) == p \in Slot /\ (t < Cap => p = t)
Floor(d, p, t) == \A k \in 1 .. Lesser(t, Cap) : d[Back(p, k)] >= t - k
Exact(d, p, t) == \A k \in 1 .. Lesser(t, Cap) : d[Back(p, k)] = t - k

\* Of a write x that copies: the bytes that are there, and the older bytes that
\* will still be in the ring after it.
Span(x) == 0 .. Lesser(x.len, Cap) - 1
Copied(d, x) == \A k \in Span(x) \ x.todo : d[SlotOf(x, k)] = ByteOf(x, k)
Older(d, x) == \A k \in 1 .. Lesser(x.total, Cap - x.len) : d[Back(x.pos, k)] = x.total - k

\* The slots of a write are different from each other, and from those of the older
\* bytes that stay.
LEMMA SlotsApart ==
  ASSUME NEW x \in Writer, x.pos \in Slot, NEW k \in Span(x)
  PROVE  /\ SlotOf(x, k) \in Slot
         /\ \A i \in Span(x) : SlotOf(x, i) = SlotOf(x, k) => i = k
         /\ \A j \in 1 .. Lesser(x.total, Cap - x.len) : SlotOf(x, k) # Back(x.pos, j)
         /\ x.len < Cap => SlotOf(x, k) = Fwd(x.pos, k)
         /\ x.len >= Cap => SlotOf(x, k) = k
  <1>1. /\ Cap \in Nat \ {0} /\ x.len \in Nat /\ x.total \in Nat /\ x.pos \in Nat
        /\ x.pos < Cap
    BY RingAssumption DEF Writer, Slot
  <1>2. \A i \in Span(x) : i \in 0 .. Cap - 1 /\ i \in 0 .. Cap /\ (x.len < Cap => i < x.len)
    BY <1>1 DEF Span, Lesser
  <1>3. ASSUME NEW i \in Span(x)
        PROVE  /\ x.len < Cap => SlotOf(x, i) = Fwd(x.pos, i)
               /\ x.len >= Cap => SlotOf(x, i) = i
    <2>1. (x.pos + i) % Cap = Fwd(x.pos, i)
      BY <1>2, Wrap
    <2>2. x.len < Cap <=> ~(x.len >= Cap)
      BY <1>1
    <2> QED BY <2>1, <2>2 DEF SlotOf
  <1>4. CASE x.len < Cap
    <2>1. SlotOf(x, k) \in Slot
      BY <1>2, <1>3, <1>4, Wrap
    <2>2. \A i \in Span(x) : Fwd(x.pos, i) = Fwd(x.pos, k) => i = k
      BY <1>1, <1>2 DEF Fwd
    <2>3. \A j \in 1 .. Lesser(x.total, Cap - x.len) : Fwd(x.pos, k) # Back(x.pos, j)
      BY <1>1, <1>2, <1>4 DEF Fwd, Back, Lesser
    <2> QED BY <1>1, <1>3, <1>4, <2>1, <2>2, <2>3
  <1>5. CASE x.len >= Cap
    <2>1. SlotOf(x, k) \in Slot
      BY <1>1, <1>2, <1>3, <1>5 DEF Slot
    <2>2. 1 .. Lesser(x.total, Cap - x.len) = {}
      BY <1>1, <1>5 DEF Lesser
    <2> QED BY <1>1, <1>3, <1>5, <2>1, <2>2
  <1> QED BY <1>1, <1>4, <1>5

\* One byte of memcpy: a byte later than t lands in the ring.
LEMMA FloorKept ==
  ASSUME NEW d \in [Slot -> Nat \cup {Empty}], NEW s \in Slot, NEW b \in Nat,
         NEW p \in Slot, NEW t \in Nat, b >= t, Floor(d, p, t)
  PROVE  Floor([d EXCEPT ![s] = b], p, t)
  <1> SUFFICES ASSUME NEW k \in 1 .. Lesser(t, Cap)
               PROVE  [d EXCEPT ![s] = b][Back(p, k)] >= t - k
    BY DEF Floor
  <1>1. k \in 1 .. Cap /\ k \in Nat /\ b >= t - k
    BY RingAssumption DEF Lesser
  <1>2. Back(p, k) \in Slot
    BY <1>1, Wrap
  <1>3. d[Back(p, k)] >= t - k
    BY DEF Floor
  <1> QED BY <1>1, <1>2, <1>3

\* One byte of memcpy, seen from the write itself.
LEMMA CopiedOne ==
  ASSUME NEW x \in Writer, x.pos \in Slot, NEW k \in x.todo, x.todo \subseteq Span(x),
         NEW d \in [Slot -> Nat \cup {Empty}], Copied(d, x)
  PROVE  LET e == [d EXCEPT ![SlotOf(x, k)] = ByteOf(x, k)]
             y == [x EXCEPT !.todo = @ \ {k}]
         IN  /\ y.at = x.at /\ y.pos = x.pos /\ y.total = x.total /\ y.len = x.len
             /\ y.stores = x.stores /\ y.todo = x.todo \ {k} /\ Span(y) = Span(x)
             /\ Copied(e, y)
             /\ Older(d, x) => Older(e, y)
             /\ ByteOf(x, k) \in Nat /\ ByteOf(x, k) >= x.total /\ SlotOf(x, k) \in Slot
  <1> DEFINE e == [d EXCEPT ![SlotOf(x, k)] = ByteOf(x, k)]
             y == [x EXCEPT !.todo = @ \ {k}]
  <1>1. /\ y.at = x.at /\ y.pos = x.pos /\ y.total = x.total /\ y.len = x.len
        /\ y.stores = x.stores /\ y.todo = x.todo \ {k}
    BY DEF Writer
  <1>2. k \in Span(x) /\ SlotOf(x, k) \in Slot
    BY SlotsApart
  <1>3. ByteOf(x, k) \in Nat /\ ByteOf(x, k) >= x.total
    <2>1. Cap \in Nat \ {0} /\ x.len \in Nat /\ x.total \in Nat /\ k \in Nat
      BY <1>2, RingAssumption DEF Writer, Span, Lesser
    <2> QED BY <2>1 DEF ByteOf
  <1>4. \A i : SlotOf(y, i) = SlotOf(x, i) /\ ByteOf(y, i) = ByteOf(x, i)
    BY <1>1 DEF SlotOf, ByteOf
  <1>5. Span(y) = Span(x)
    BY <1>1 DEF Span
  <1> HIDE DEF y
  <1>6. Copied(e, y)
    <2> SUFFICES ASSUME NEW i \in Span(x), i \notin x.todo \ {k}
                 PROVE  e[SlotOf(x, i)] = ByteOf(x, i)
      BY <1>1, <1>4, <1>5 DEF Copied
    <2>1. CASE i = k
      BY <1>2, <2>1
    <2>2. CASE i # k
      <3>1. SlotOf(x, i) # SlotOf(x, k) /\ SlotOf(x, i) \in Slot
        BY <1>2, <2>2, SlotsApart
      <3>2. d[SlotOf(x, i)] = ByteOf(x, i)
        BY <2>2 DEF Copied
      <3> QED BY <3>1, <3>2
    <2> QED BY <2>1, <2>2
  <1>7. ASSUME Older(d, x) PROVE Older(e, y)
    <2> SUFFICES ASSUME NEW j \in 1 .. Lesser(x.total, Cap - x.len)
                 PROVE  e[Back(x.pos, j)] = x.total - j
      BY <1>1 DEF Older
    <2>1. SlotOf(x, k) # Back(x.pos, j)
      BY <1>2, SlotsApart
    <2>2. j \in 1 .. Cap
      BY RingAssumption DEF Lesser, Writer
    <2>3. Back(x.pos, j) \in Slot
      BY <2>2, Wrap
    <2>4. d[Back(x.pos, j)] = x.total - j
      BY <1>7 DEF Older
    <2> QED BY <2>1, <2>3, <2>4
  <1> QED BY <1>1, <1>2, <1>3, <1>5, <1>6, <1>7 DEF y

\* Where the bytes of the new header are: the ones just written, then the older ones.
LEMMA NewHeader ==
  ASSUME NEW x \in Writer, x.pos \in Slot, x.len > 0
  PROVE  /\ NewPos(x) \in Slot
         /\ \A j \in 1 .. Cap :
              /\ j <= x.len => \E k \in Span(x) : /\ SlotOf(x, k) = Back(NewPos(x), j)
                                                   /\ ByteOf(x, k) = (x.total + x.len) - j
              /\ j > x.len => Back(NewPos(x), j) = Back(x.pos, j - x.len)
  <1>1. /\ Cap \in Nat \ {0} /\ x.len \in Nat /\ x.total \in Nat /\ x.pos \in Nat
        /\ x.pos < Cap
    BY RingAssumption DEF Writer, Slot
  <1>2. CASE x.len >= Cap
    <2>1. NewPos(x) = 0 /\ 0 \in Slot /\ Span(x) = 0 .. Cap - 1
      BY <1>1, <1>2 DEF NewPos, Slot, Span, Lesser
    <2>2. ASSUME NEW j \in 1 .. Cap
          PROVE  \E k \in Span(x) : /\ SlotOf(x, k) = Back(0, j)
                                     /\ ByteOf(x, k) = (x.total + x.len) - j
      <3>1. Cap - j \in Span(x) /\ Back(0, j) = Cap - j
        BY <1>1, <2>1 DEF Back
      <3>2. SlotOf(x, Cap - j) = Cap - j /\ ByteOf(x, Cap - j) = (x.total + x.len) - j
        BY <1>1, <1>2 DEF SlotOf, ByteOf
      <3> QED BY <3>1, <3>2
    <2> QED BY <1>1, <1>2, <2>1, <2>2
  <1>3. CASE x.len < Cap
    <2>1. x.len \in 0 .. Cap /\ Span(x) = 0 .. x.len - 1
      BY <1>1, <1>3 DEF Span, Lesser
    <2>2. NewPos(x) = Fwd(x.pos, x.len) /\ Fwd(x.pos, x.len) \in Slot
      <3>1. (x.pos + x.len) % Cap = Fwd(x.pos, x.len) /\ Fwd(x.pos, x.len) \in Slot
        BY <2>1, Wrap
      <3>2. ~(x.len >= Cap)
        BY <1>1, <1>3
      <3> QED BY <3>1, <3>2 DEF NewPos
    <2>3. ASSUME NEW j \in 1 .. Cap, j <= x.len
          PROVE  \E k \in Span(x) : /\ SlotOf(x, k) = Back(NewPos(x), j)
                                     /\ ByteOf(x, k) = (x.total + x.len) - j
      <3>1. x.len - j \in Span(x) /\ x.len - j \in 0 .. Cap
        BY <1>1, <1>3, <2>1, <2>3
      <3>2. SlotOf(x, x.len - j) = Fwd(x.pos, x.len - j)
        BY <1>1, <1>3, <3>1, SlotsApart
      <3>3. Fwd(x.pos, x.len - j) = Back(Fwd(x.pos, x.len), j)
        BY <1>1, <1>3, <2>3 DEF Fwd, Back
      <3>4. ByteOf(x, x.len - j) = (x.total + x.len) - j
        BY <1>1, <1>3 DEF ByteOf
      <3> QED BY <2>2, <3>1, <3>2, <3>3, <3>4
    <2>4. ASSUME NEW j \in 1 .. Cap, j > x.len
          PROVE  Back(NewPos(x), j) = Back(x.pos, j - x.len)
      <3>1. Back(Fwd(x.pos, x.len), j) = Back(x.pos, j - x.len)
        BY <1>1, <1>3, <2>4 DEF Fwd, Back
      <3> QED BY <2>2, <3>1
    <2> QED BY <1>1, <2>2, <2>3, <2>4
  <1> QED BY <1>1, <1>2, <1>3

\* When memcpy is done, the data is right for the header about to be published.
LEMMA CopyIsDone ==
  ASSUME NEW x \in Writer, x.len > 0, x.todo = {}, PosOK(x.pos, x.total),
         NEW d \in [Slot -> Nat \cup {Empty}], Copied(d, x), Floor(d, x.pos, x.total)
  PROVE  /\ PosOK(NewPos(x), x.total + x.len)
         /\ Floor(d, NewPos(x), x.total + x.len)
         /\ Older(d, x) => Exact(d, NewPos(x), x.total + x.len)
  <1>1. /\ Cap \in Nat \ {0} /\ x.len \in Nat /\ x.total \in Nat /\ x.pos \in Slot
        /\ x.pos \in Nat /\ x.pos < Cap
    BY RingAssumption DEF Writer, Slot, PosOK
  <1>2. PosOK(NewPos(x), x.total + x.len)
    <2>1. ASSUME x.total + x.len < Cap PROVE NewPos(x) = x.total + x.len
      <3>1. x.pos = x.total /\ x.len < Cap /\ x.len \in 0 .. Cap
        BY <1>1, <2>1 DEF PosOK
      <3>2. NewPos(x) = Fwd(x.pos, x.len)
        BY <1>1, <3>1, Wrap DEF NewPos
      <3> QED BY <1>1, <2>1, <3>1, <3>2 DEF Fwd
    <2> QED BY <1>1, <2>1, NewHeader DEF PosOK
  <1>3. ASSUME NEW j \in 1 .. Lesser(x.total + x.len, Cap)
        PROVE  /\ d[Back(NewPos(x), j)] >= (x.total + x.len) - j
               /\ Older(d, x) => d[Back(NewPos(x), j)] = (x.total + x.len) - j
    <2>1. j \in 1 .. Cap /\ j <= x.total + x.len
      BY <1>1 DEF Lesser
    <2>2. CASE j <= x.len
      <3>1. PICK k \in Span(x) : /\ SlotOf(x, k) = Back(NewPos(x), j)
                                  /\ ByteOf(x, k) = (x.total + x.len) - j
        BY <1>1, <2>1, <2>2, NewHeader
      <3>2. d[SlotOf(x, k)] = ByteOf(x, k)
        BY DEF Copied
      <3>3. (x.total + x.len) - j \in Int
        BY <1>1, <2>1
      <3> QED BY <3>1, <3>2, <3>3
    <2>3. CASE j > x.len
      <3>1. Back(NewPos(x), j) = Back(x.pos, j - x.len)
        BY <1>1, <2>1, <2>3, NewHeader
      <3>2. j - x.len \in 1 .. Lesser(x.total, Cap) /\ x.total - (j - x.len) = (x.total + x.len) - j
        BY <1>1, <2>1, <2>3 DEF Lesser
      <3>3. d[Back(x.pos, j - x.len)] >= x.total - (j - x.len)
        BY <3>2 DEF Floor
      <3>4. j - x.len \in 1 .. Lesser(x.total, Cap - x.len)
        BY <1>1, <2>1, <2>3 DEF Lesser
      <3>5. Older(d, x) => d[Back(x.pos, j - x.len)] = x.total - (j - x.len)
        BY <3>4 DEF Older
      <3> QED BY <3>1, <3>2, <3>3, <3>5
    <2> QED BY <1>1, <2>1, <2>2, <2>3
  <1>4. Floor(d, NewPos(x), x.total + x.len)
    BY <1>3 DEF Floor
  <1>5. ASSUME Older(d, x) PROVE Exact(d, NewPos(x), x.total + x.len)
    BY <1>3, <1>5 DEF Exact
  <1> QED BY <1>2, <1>4, <1>5

-----------------------------------------------------------------------------
(* The bytes of the ring *)

NoneDead == \A w \in Writers : wr[w].at \notin {"dead", "torn"}

\* The data between writes, while memcpy runs, and while the header is stored.  A
\* writer that died in memcpy leaves later bytes behind that no header promises.
AtRest ==
  wr[turn].at \in {"idle", "dead"} =>
    /\ PosOK(writePos, total) /\ Floor(data, writePos, total)
    /\ NoneDead => Exact(data, writePos, total)

Copying ==
  wr[turn].at = "copy" =>
    /\ PosOK(writePos, total) /\ Floor(data, writePos, total)
    /\ wr[turn].pos = writePos /\ wr[turn].total = total /\ wr[turn].len > 0
    /\ wr[turn].todo \subseteq Span(wr[turn]) /\ wr[turn].stores = {"pos", "total"}
    /\ Copied(data, wr[turn])
    /\ NoneDead => Older(data, wr[turn])

NewTotal(x) == x.total + x.len

Publishing ==
  wr[turn].at = "publish" =>
    /\ PosOK(NewPos(wr[turn]), NewTotal(wr[turn]))
    /\ Floor(data, NewPos(wr[turn]), NewTotal(wr[turn]))
    /\ NoneDead => Exact(data, NewPos(wr[turn]), NewTotal(wr[turn]))
    /\ "pos" \notin wr[turn].stores => writePos = NewPos(wr[turn])
    /\ "total" \notin wr[turn].stores => total = NewTotal(wr[turn])
    /\ total <= NewTotal(wr[turn])

\* The slice a reader copies is the end of its snapshot, and so is what it has.
Slice(x) ==
  /\ x.at \in {"seq", "pos", "total", "check"} => x.out = <<>>
  /\ x.at = "copy" =>
       /\ PosOK(x.pos, x.total) /\ x.n <= Lesser(x.total, Cap)
       /\ \A j \in 0 .. x.n - 1 : (x.start + j) % Cap = Back(x.pos, x.n - j)
       /\ \A i \in 1 .. Len(x.out) : x.out[i] >= Expected(x, i)

\* What the snapshot promises is in the ring, or has been overwritten with later bytes.
Grounded(x) ==
  x.at = "copy" => x.total <= total /\ Floor(data, x.pos, x.total)

\* A call that no write has overlapped yet has the current header.
Quiet(x) ==
  x.at # "idle" /\ x.clean =>
    /\ wr[turn].at \in {"idle", "dead"}
    /\ Exact(data, writePos, total)
    /\ x.at \in {"total", "check", "copy"} => x.pos = writePos
    /\ x.at \in {"check", "copy"} => x.total = total
    /\ x.call = "overrun" => x.ret = total
    /\ x.at = "copy" =>
         /\ x.call = "read_since" => x.ret = total /\ x.n = x.ret - x.last
         /\ x.call = "dump" => x.n = Lesser(total, Cap)
         /\ \A i \in 1 .. Len(x.out) : x.out[i] = Expected(x, i)

ReadersOK == \A r \in Readers : Slice(rd[r]) /\ Grounded(rd[r]) /\ Quiet(rd[r])

Bytes == Sound /\ AtRest /\ Copying /\ Publishing /\ ReadersOK

\* A write step takes the quiet from the calls it overlaps; the rest of a reader
\* stays, if what the snapshots promise does.
LEMMA ReadersKept ==
  ASSUME TypeOK, ReadersOK, NoteWrite, total' \in Nat, total <= total',
         \A p \in Slot, t \in 0 .. total : Floor(data, p, t) => Floor(data', p, t)
  PROVE  ReadersOK'
  <1> SUFFICES ASSUME NEW r \in Readers
               PROVE  Slice(rd'[r]) /\ Grounded(rd[r])' /\ Quiet(rd[r])'
    BY DEF ReadersOK, Slice, PosOK, Expected
  <1>1. rd[r] \in Reader /\ rd'[r] = [rd[r] EXCEPT !.clean = FALSE] /\ total \in Nat
    BY DEF TypeOK, NoteWrite
  <1>2. /\ rd'[r].at = rd[r].at /\ rd'[r].pos = rd[r].pos /\ rd'[r].total = rd[r].total
        /\ rd'[r].start = rd[r].start /\ rd'[r].n = rd[r].n /\ rd'[r].out = rd[r].out
        /\ rd'[r].clean = FALSE /\ rd[r].total \in Nat
    BY <1>1 DEF Reader
  <1>3. Slice(rd[r]) /\ Grounded(rd[r])
    BY DEF ReadersOK
  <1>4. Slice(rd'[r])
    BY <1>2, <1>3 DEF Slice, Expected
  <1>5. ASSUME rd[r].at = "copy"
        PROVE  rd[r].total <= total' /\ Floor(data', rd[r].pos, rd[r].total)
    <2>1. rd[r].total <= total /\ Floor(data, rd[r].pos, rd[r].total) /\ rd[r].pos \in Slot
      BY <1>3, <1>5 DEF Slice, Grounded, PosOK
    <2> QED BY <1>1, <1>2, <2>1
  <1>6. Grounded(rd[r])'
    BY <1>2, <1>5 DEF Grounded
  <1>7. Quiet(rd[r])'
    BY <1>2 DEF Quiet
  <1> QED BY <1>4, <1>6, <1>7

\* Steps of writers keep the bytes of the ring right.
LEMMA WriterBytes ==
  ASSUME SingleWriter, Bytes, NEW w \in Writers, Sound',
         WriteStart(w) \/ WriterStep(w) \/ WriterCrash(w) \/ PassTurn(w)
  PROVE  AtRest' /\ Copying' /\ Publishing' /\ ReadersOK'
  <1>typ. /\ TypeOK /\ TypeOK' /\ OneWriter /\ OneWriter' /\ turn \in Writers /\ wr[w] \in Writer
          /\ total \in Nat /\ writePos \in Nat /\ data \in [Slot -> Nat \cup {Empty}]
          /\ total' \in Nat
          /\ wr[w].total \in Nat /\ wr[w].len \in Nat /\ wr[w].pos \in Nat
    BY DEF Bytes, Sound, TypeOK, Writer
  <1>turn. ASSUME wr[w].at \in {"copy", "publish"} PROVE w = turn
    BY <1>typ, <1>turn DEF OneWriter
  <1>inv. AtRest /\ Copying /\ Publishing /\ ReadersOK
    BY DEF Bytes
  \* a step that leaves the data and total_written alone
  <1>same. ASSUME NoteWrite, data' = data, total' = total PROVE ReadersOK'
    BY <1>typ, <1>inv, <1>same, ReadersKept
  \* the record of the writer, and nobody dies of writing
  <1>own. ASSUME NEW x, wr' = [wr EXCEPT ![w] = x], x.at \notin {"dead", "torn"}, wr[w].at \notin {"dead", "torn"},
                 w = turn,
                 turn' = turn
          PROVE  wr'[turn'] = x /\ (NoneDead' <=> NoneDead)
    <2>1. wr'[w] = x /\ \A v \in Writers \ {w} : wr'[v] = wr[v]
      BY <1>own, <1>typ DEF TypeOK
    <2> QED BY <1>own, <2>1 DEF NoneDead
  <1>1. CASE WriteStart(w)
    <2>1. PICK n \in 1 .. MaxLen :
            wr' = [wr EXCEPT ![w] =
              [at |-> "copy", pos |-> writePos, total |-> total, len |-> n,
               todo |-> 0 .. Lesser(n, Cap) - 1, stores |-> {"pos", "total"}]]
      BY <1>1 DEF WriteStart
    <2>2. /\ UNCHANGED <<writePos, total, data, turn>> /\ NoteWrite
          /\ w = turn /\ wr[w].at = "idle"
      BY <1>1 DEF WriteStart, shared, MayWrite
    <2> DEFINE x == [at |-> "copy", pos |-> writePos, total |-> total, len |-> n,
                     todo |-> 0 .. Lesser(n, Cap) - 1, stores |-> {"pos", "total"}]
    <2>3. /\ x.at = "copy" /\ x.pos = writePos /\ x.total = total /\ x.len = n
          /\ x.todo = Span(x) /\ x.stores = {"pos", "total"}
      BY DEF Span
    <2>4. wr' = [wr EXCEPT ![w] = x]
      BY <2>1
    <2> HIDE DEF x
    <2>5. wr'[turn'] = x /\ (NoneDead' <=> NoneDead)
      BY <1>own, <2>2, <2>3, <2>4
    <2>6. /\ PosOK(writePos, total) /\ Floor(data, writePos, total)
          /\ NoneDead => Exact(data, writePos, total)
      BY <1>inv, <2>2 DEF AtRest
    <2>7. n \in Nat /\ n > 0
      BY RingAssumption
    <2>8. Copied(data, x)
      BY <2>3 DEF Copied
    <2>9. ASSUME Exact(data, writePos, total) PROVE Older(data, x)
      <3>1. \A k \in 1 .. Lesser(total, Cap - n) : k \in 1 .. Lesser(total, Cap)
        BY <1>typ, <2>7, RingAssumption DEF Lesser
      <3> QED BY <2>3, <2>9, <3>1 DEF Exact, Older
    <2>10. Copying'
      BY <2>2, <2>3, <2>5, <2>6, <2>7, <2>8, <2>9 DEF Copying
    <2>11. AtRest' /\ Publishing'
      BY <2>3, <2>5 DEF AtRest, Publishing
    <2> QED BY <1>same, <2>2, <2>10, <2>11
  <1>2. CASE CopyIn(w)
    <2>1. PICK k \in wr[w].todo : /\ data' = [data EXCEPT ![SlotOf(wr[w], k)] = ByteOf(wr[w], k)]
                                  /\ wr' = [wr EXCEPT ![w].todo = @ \ {k}]
      BY <1>2 DEF CopyIn
    <2>2. /\ wr[w].at = "copy" /\ w = turn /\ UNCHANGED <<writePos, total, turn>> /\ NoteWrite
      BY <1>2, <1>turn DEF CopyIn
    <2>3. /\ PosOK(writePos, total) /\ Floor(data, writePos, total)
          /\ wr[w].pos = writePos /\ wr[w].total = total /\ wr[w].len > 0
          /\ wr[w].todo \subseteq Span(wr[w]) /\ wr[w].stores = {"pos", "total"}
          /\ Copied(data, wr[w])
          /\ NoneDead => Older(data, wr[w])
      BY <1>inv, <2>2 DEF Copying
    <2> DEFINE x == [wr[w] EXCEPT !.todo = @ \ {k}]
    <2>4. wr' = [wr EXCEPT ![w] = x]
      BY <2>1
    <2>5. /\ x.at = wr[w].at /\ x.pos = wr[w].pos /\ x.total = wr[w].total /\ x.len = wr[w].len
          /\ x.stores = wr[w].stores /\ x.todo = wr[w].todo \ {k} /\ Span(x) = Span(wr[w])
          /\ Copied(data', x)
          /\ Older(data, wr[w]) => Older(data', x)
          /\ ByteOf(wr[w], k) \in Nat /\ ByteOf(wr[w], k) >= total /\ SlotOf(wr[w], k) \in Slot
      BY <1>typ, <2>1, <2>3, CopiedOne DEF PosOK
    <2> HIDE DEF x
    <2>6. wr'[turn'] = x /\ (NoneDead' <=> NoneDead)
      BY <1>own, <2>2, <2>4, <2>5
    <2>7. \A p \in Slot, t \in 0 .. total : Floor(data, p, t) => Floor(data', p, t)
      <3> SUFFICES ASSUME NEW p \in Slot, NEW t \in 0 .. total, Floor(data, p, t)
                   PROVE  Floor(data', p, t)
        OBVIOUS
      <3>1. t \in Nat /\ ByteOf(wr[w], k) >= t
        BY <1>typ, <2>5
      <3> QED BY <1>typ, <2>1, <2>5, <3>1, FloorKept
    <2>8. Floor(data', writePos, total)
      BY <1>typ, <2>3, <2>7 DEF PosOK
    <2>9. Copying'
      BY <2>2, <2>3, <2>5, <2>6, <2>8 DEF Copying
    <2>10. AtRest' /\ Publishing'
      BY <2>2, <2>5, <2>6 DEF AtRest, Publishing
    <2>11. ReadersOK'
      BY <1>typ, <1>inv, <2>2, <2>7, ReadersKept
    <2> QED BY <2>9, <2>10, <2>11
  <1>3. CASE SeqBegin(w)
    <2>1. /\ wr[w].at = "copy" /\ wr[w].todo = {} /\ wr' = [wr EXCEPT ![w].at = "publish"]
          /\ UNCHANGED <<writePos, total, data, turn>> /\ NoteWrite
      BY <1>3 DEF SeqBegin, CopyDone
    <2>2. w = turn
      BY <1>turn, <2>1
    <2>3. /\ PosOK(wr[w].pos, wr[w].total) /\ Floor(data, wr[w].pos, wr[w].total)
          /\ wr[w].total = total /\ wr[w].len > 0
          /\ wr[w].stores = {"pos", "total"} /\ Copied(data, wr[w])
          /\ NoneDead => Older(data, wr[w])
      BY <1>inv, <2>1, <2>2 DEF Copying
    <2>4. /\ PosOK(NewPos(wr[w]), NewTotal(wr[w])) /\ Floor(data, NewPos(wr[w]), NewTotal(wr[w]))
          /\ NoneDead => Exact(data, NewPos(wr[w]), NewTotal(wr[w]))
      BY <1>typ, <2>1, <2>3, CopyIsDone DEF NewTotal
    <2> DEFINE x == [wr[w] EXCEPT !.at = "publish"]
    <2>5. /\ x.at = "publish" /\ x.stores = wr[w].stores
          /\ x.pos = wr[w].pos /\ x.total = wr[w].total /\ x.len = wr[w].len
      BY <1>typ DEF Writer
    <2>6. wr' = [wr EXCEPT ![w] = x]
      BY <2>1
    <2> HIDE DEF x
    <2>7. NewPos(x) = NewPos(wr[w]) /\ NewTotal(x) = NewTotal(wr[w]) /\ total <= NewTotal(wr[w])
      BY <1>typ, <2>3, <2>5 DEF NewPos, NewTotal
    <2>8. wr'[turn'] = x /\ (NoneDead' <=> NoneDead)
      BY <1>own, <2>1, <2>2, <2>5, <2>6
    <2>9. Publishing'
      BY <2>1, <2>3, <2>4, <2>5, <2>7, <2>8 DEF Publishing
    <2>10. AtRest' /\ Copying'
      BY <2>5, <2>8 DEF AtRest, Copying
    <2> QED BY <1>same, <2>1, <2>9, <2>10
  <1>4. CASE StorePos(w) \/ StoreTotal(w)
    <2>1. PICK k : /\ wr' = [wr EXCEPT ![w].stores = @ \ {k}] /\ wr[w].at = "publish"
                   /\ UNCHANGED <<data, turn>> /\ NoteWrite
                   /\ \/ k = "pos" /\ writePos' = NewPos(wr[w]) /\ total' = total
                      \/ k = "total" /\ total' = NewTotal(wr[w]) /\ writePos' = writePos
      BY <1>4 DEF StorePos, StoreTotal, NewTotal
    <2>2. w = turn
      BY <1>turn, <2>1
    <2>3. /\ PosOK(NewPos(wr[w]), NewTotal(wr[w])) /\ Floor(data, NewPos(wr[w]), NewTotal(wr[w]))
          /\ NoneDead => Exact(data, NewPos(wr[w]), NewTotal(wr[w]))
          /\ "pos" \notin wr[w].stores => writePos = NewPos(wr[w])
          /\ "total" \notin wr[w].stores => total = NewTotal(wr[w])
          /\ total <= NewTotal(wr[w])
      BY <1>inv, <2>1, <2>2 DEF Publishing
    <2> DEFINE x == [wr[w] EXCEPT !.stores = @ \ {k}]
    <2>4. /\ x.at = "publish" /\ x.stores = wr[w].stores \ {k}
          /\ x.pos = wr[w].pos /\ x.total = wr[w].total /\ x.len = wr[w].len
      BY <1>typ, <2>1 DEF Writer
    <2>5. wr' = [wr EXCEPT ![w] = x]
      BY <2>1
    <2> HIDE DEF x
    <2>6. NewPos(x) = NewPos(wr[w]) /\ NewTotal(x) = NewTotal(wr[w]) /\ NewTotal(wr[w]) \in Nat
      BY <1>typ, <2>4 DEF NewPos, NewTotal
    <2>7. wr'[turn'] = x /\ (NoneDead' <=> NoneDead)
      BY <1>own, <2>1, <2>2, <2>4, <2>5
    <2>8. total <= total' /\ total' <= NewTotal(x)
      BY <1>typ, <2>1, <2>3, <2>6
    <2>9. /\ "pos" \notin x.stores => writePos' = NewPos(x)
          /\ "total" \notin x.stores => total' = NewTotal(x)
      BY <2>1, <2>3, <2>4, <2>6
    <2>10. Publishing'
      BY <2>1, <2>3, <2>6, <2>7, <2>8, <2>9 DEF Publishing
    <2>11. AtRest' /\ Copying'
      BY <2>4, <2>7 DEF AtRest, Copying
    <2>12. ReadersOK'
      BY <1>typ, <1>inv, <2>1, <2>8, ReadersKept
    <2> QED BY <2>10, <2>11, <2>12
  <1>5. CASE SeqEnd(w)
    <2>1. /\ wr[w].at = "publish" /\ wr[w].stores = {} /\ wr' = [wr EXCEPT ![w] = IdleWriter]
          /\ UNCHANGED <<writePos, total, data, turn>> /\ NoteWrite
      BY <1>5 DEF SeqEnd
    <2>2. w = turn
      BY <1>turn, <2>1
    <2>3. /\ PosOK(writePos, total) /\ Floor(data, writePos, total)
          /\ NoneDead => Exact(data, writePos, total)
      BY <1>inv, <2>1, <2>2 DEF Publishing
    <2>4. IdleWriter.at = "idle"
      BY DEF IdleWriter
    <2>5. wr'[turn'] = IdleWriter /\ (NoneDead' <=> NoneDead)
      BY <1>own, <2>1, <2>2, <2>4
    <2>6. AtRest' /\ Copying' /\ Publishing'
      BY <2>1, <2>3, <2>4, <2>5 DEF AtRest, Copying, Publishing
    <2> QED BY <1>same, <2>1, <2>6
  \* a step that changes no shared memory, and leaves the turn with a writer at rest
  <1>rest. ASSUME UNCHANGED <<writePos, total, data, rd>>, wr[turn].at \in {"idle", "dead", "copy"},
                  wr'[turn'].at \in {"idle", "dead"},
                  NoneDead' => NoneDead /\ wr[turn].at # "copy"
           PROVE  AtRest' /\ Copying' /\ Publishing' /\ ReadersOK'
    <2>1. /\ PosOK(writePos, total) /\ Floor(data, writePos, total)
          /\ NoneDead /\ wr[turn].at # "copy" => Exact(data, writePos, total)
      BY <1>inv, <1>rest DEF AtRest, Copying
    <2>2. AtRest' /\ Copying' /\ Publishing'
      BY <1>rest, <2>1 DEF AtRest, Copying, Publishing
    <2>3. ASSUME NEW r \in Readers PROVE (Slice(rd[r]) /\ Grounded(rd[r]) /\ Quiet(rd[r]))'
      <3>1. Slice(rd[r]) /\ Grounded(rd[r]) /\ Quiet(rd[r])
        BY <1>inv DEF ReadersOK
      <3>2. Slice(rd[r])' /\ Grounded(rd[r])'
        BY <1>rest, <3>1 DEF Slice, Grounded, PosOK, Expected
      <3>3. Quiet(rd[r])'
        BY <1>rest, <3>1 DEF Quiet, Expected
      <3> QED BY <3>2, <3>3
    <2> QED BY <2>2, <2>3 DEF ReadersOK
  \* a writer killed while it publishes leaves what the snapshots promise
  <1>torn. ASSUME UNCHANGED <<writePos, total, data, rd>>, wr[turn].at = "publish",
                  wr'[turn'].at = "torn"
           PROVE  AtRest' /\ Copying' /\ Publishing' /\ ReadersOK'
    <2>1. AtRest' /\ Copying' /\ Publishing'
      BY <1>torn DEF AtRest, Copying, Publishing
    <2>2. ASSUME NEW r \in Readers PROVE (Slice(rd[r]) /\ Grounded(rd[r]) /\ Quiet(rd[r]))'
      <3>1. Slice(rd[r]) /\ Grounded(rd[r]) /\ Quiet(rd[r])
        BY <1>inv DEF ReadersOK
      <3>2. Slice(rd[r])' /\ Grounded(rd[r])'
        BY <1>torn, <3>1 DEF Slice, Grounded, PosOK, Expected
      <3>3. Quiet(rd[r])'
        BY <1>torn, <3>1 DEF Quiet
      <3> QED BY <3>2, <3>3
    <2> QED BY <2>1, <2>2 DEF ReadersOK
  <1>6. CASE WriterCrash(w)
    <2>1. /\ wr' = [wr EXCEPT ![w] = [IdleWriter EXCEPT !.at = Ends(wr[w].at)]]
          /\ wr[w].at \in {"idle", "copy", "publish"} /\ turn = w
          /\ UNCHANGED <<writePos, total, data, rd, turn>>
      BY <1>6, RingAssumption DEF WriterCrash, shared
    <2>2. wr'[w].at = Ends(wr[w].at)
      BY <1>typ, <2>1 DEF TypeOK, IdleWriter
    <2>3. CASE wr[w].at = "publish"
      BY <1>torn, <2>1, <2>2, <2>3 DEF Ends
    <2>4. CASE wr[w].at \in {"idle", "copy"}
      <3>1. wr'[w].at = "dead"
        BY <2>2, <2>4 DEF Ends
      <3> QED BY <1>rest, <2>1, <2>4, <3>1 DEF NoneDead
    <2> QED BY <2>1, <2>3, <2>4
  <1>7. CASE PassTurn(w)
    <2>1. /\ wr[turn].at \in {"idle", "dead", "torn"} /\ turn # w /\ turn' = w
          /\ wr[w].at \notin {"dead", "torn"}
          /\ UNCHANGED <<writePos, total, data, rd, wr, seq>>
      BY <1>7 DEF PassTurn, shared
    <2>2. wr[w].at = "idle"
      BY <1>typ, <2>1 DEF OneWriter
    <2>3. wr[turn].at # "torn"
      <3>1. (seq % 2 = 0)'
        BY <2>1, <2>2 DEF Sound, Parity, InPublish
      <3>2. wr[turn].at = "torn" => seq % 2 = 1
        BY DEF Bytes, Sound, Parity, InPublish
      <3> QED BY <2>1, <3>1, <3>2
    <2> QED BY <1>rest, <2>1, <2>2, <2>3 DEF NoneDead
  <1> QED BY <1>1, <1>2, <1>3, <1>4, <1>5, <1>6, <1>7 DEF WriterStep

\* dump and the slices: where the copy starts, and how many bytes it has.
LEMMA DumpLine ==
  ASSUME NEW x \in Reader, PosOK(x.pos, x.total)
  PROVE  /\ DumpLen(x) = Lesser(x.total, Cap)
         /\ LET st == IF x.total >= Cap THEN x.pos ELSE 0
            IN  \A j \in 0 .. DumpLen(x) - 1 : (st + j) % Cap = Back(x.pos, DumpLen(x) - j)
  <1>1. /\ Cap \in Nat \ {0} /\ x.total \in Nat /\ x.pos \in Slot /\ x.pos \in Nat
        /\ x.pos < Cap /\ (x.total < Cap => x.pos = x.total) /\ 0 \in Slot
    BY RingAssumption DEF Reader, PosOK, Slot
  <1>2. DumpLen(x) = Lesser(x.total, Cap)
    BY <1>1 DEF DumpLen, Lesser
  <1>3. ASSUME x.total >= Cap, NEW j \in 0 .. Cap - 1
        PROVE  (x.pos + j) % Cap = Back(x.pos, Cap - j)
    <2>0. j \in 0 .. Cap
      BY <1>1
    <2>1. (x.pos + j) % Cap = Fwd(x.pos, j)
      BY <1>1, <2>0, Wrap
    <2> QED BY <1>1, <2>1 DEF Fwd, Back
  <1>4. ASSUME x.total < Cap, NEW j \in 0 .. x.total - 1
        PROVE  (0 + j) % Cap = Back(x.pos, x.total - j)
    <2>0. j \in 0 .. Cap
      BY <1>1, <1>4
    <2>1. (0 + j) % Cap = Fwd(0, j)
      BY <1>1, <2>0, Wrap
    <2> QED BY <1>1, <1>4, <2>1 DEF Fwd, Back
  <1>5. CASE x.total >= Cap
    <2>1. Lesser(x.total, Cap) = Cap
      BY <1>1, <1>5 DEF Lesser
    <2> QED BY <1>2, <1>3, <1>5, <2>1
  <1>6. CASE x.total < Cap
    <2>1. Lesser(x.total, Cap) = x.total /\ ~(x.total >= Cap)
      BY <1>1, <1>6 DEF Lesser
    <2> QED BY <1>2, <1>4, <1>6, <2>1
  <1> QED BY <1>1, <1>5, <1>6

\* The slice of read_since, which may wrap around.
LEMMA SinceLine ==
  ASSUME NEW x \in Reader, PosOK(x.pos, x.total), NewBytes(x) \in 1 .. Cap - 1
  PROVE  /\ NewBytes(x) <= Lesser(x.total, Cap)
         /\ \A j \in 0 .. NewBytes(x) - 1 :
              (SinceStart(x) + j) % Cap = Back(x.pos, NewBytes(x) - j)
  <1>1. /\ Cap \in Nat \ {0} /\ x.total \in Nat /\ x.last \in Nat /\ x.pos \in Slot
        /\ x.pos \in Nat /\ x.pos < Cap
    BY RingAssumption DEF Reader, PosOK, Slot
  <1>2. NewBytes(x) <= x.total
    BY <1>1 DEF NewBytes
  <1>3. PICK b \in 1 .. Cap - 1 : b = NewBytes(x)
    OBVIOUS
  <1>4. SinceStart(x) = Back(x.pos, b) /\ Back(x.pos, b) \in Slot
    BY <1>1, <1>3 DEF SinceStart, Back, Slot
  <1>5. ASSUME NEW j \in 0 .. b - 1 PROVE (Back(x.pos, b) + j) % Cap = Back(x.pos, b - j)
    <2>1. j \in 0 .. Cap
      BY <1>1, <1>3
    <2>2. (Back(x.pos, b) + j) % Cap = Fwd(Back(x.pos, b), j)
      BY <1>4, <2>1, Wrap
    <2>3. Fwd(Back(x.pos, b), j) = Back(x.pos, b - j)
      BY <1>1, <1>3 DEF Fwd, Back
    <2> QED BY <2>2, <2>3
  <1>6. b <= Lesser(x.total, Cap)
    BY <1>1, <1>2, <1>3 DEF Lesser
  <1> QED BY <1>3, <1>4, <1>5, <1>6

\* Steps of readers: what they take from the ring is what their snapshot promised.
LEMMA ReaderBytes ==
  ASSUME Bytes, NEW r \in Readers,
         (\E c \in {"dump", "read_since"} : Call(r, c)) \/ ReaderStep(r)
  PROVE  AtRest' /\ Copying' /\ Publishing' /\ ReadersOK'
  <1>typ. /\ rd[r] \in Reader /\ total \in Nat /\ writePos \in Nat /\ turn \in Writers
          /\ rd \in [Readers -> Reader] /\ TypeOK
          /\ rd[r].out \in Seq(Nat \cup {Empty}) /\ rd[r].n \in Nat /\ rd[r].total \in Nat
          /\ rd[r].last \in Nat /\ rd[r].start \in Nat
    BY DEF Bytes, Sound, TypeOK, Reader
  <1>inv. AtRest /\ Copying /\ Publishing /\ ReadersOK /\ OneWriter
    BY DEF Bytes, Sound
  <1>old. Slice(rd[r]) /\ Grounded(rd[r]) /\ Quiet(rd[r]) /\ ReaderCurrent(rd[r])
    BY <1>inv DEF ReadersOK, Bytes, Sound
  \* what the new record of reader r has to satisfy
  <1>set. ASSUME NEW x, Sets(r, x), Slice(x), Grounded(x), Quiet(x)
          PROVE  AtRest' /\ Copying' /\ Publishing' /\ ReadersOK'
    <2>1. UNCHANGED <<seq, writePos, total, data, wr, turn>>
      BY <1>set DEF Sets, shared
    <2>2. rd'[r] = x /\ \A q \in Readers \ {r} : rd'[q] = rd[q]
      BY <1>set, <1>typ DEF Sets
    <2>3. NoneDead' <=> NoneDead
      BY <2>1 DEF NoneDead
    <2>4. AtRest' /\ Copying' /\ Publishing'
      BY <1>inv, <2>1, <2>3 DEF AtRest, Copying, Publishing
    <2>5. ASSUME NEW q \in Readers PROVE (Slice(rd[q]) /\ Grounded(rd[q]) /\ Quiet(rd[q]))'
      <3>1. PICK y : y = rd'[q] /\ Slice(y) /\ Grounded(y) /\ Quiet(y)
        BY <1>inv, <1>set, <2>2 DEF ReadersOK
      <3>2. Slice(rd[q])'
        BY <3>1 DEF Slice, PosOK, Expected
      <3>3. Grounded(rd[q])'
        BY <2>1, <3>1 DEF Grounded
      <3>4. Quiet(rd[q])'
        BY <2>1, <3>1 DEF Quiet, Expected
      <3> QED BY <3>2, <3>3, <3>4
    <2> QED BY <2>4, <2>5 DEF ReadersOK
  \* an unchanged, even sequence: the snapshot is the header, and the bytes are there
  <1>ok. ASSUME Unchanged(r)
         PROVE  /\ rd[r].at = "check" /\ rd[r].pos = writePos /\ rd[r].total = total
                /\ PosOK(rd[r].pos, rd[r].total) /\ Floor(data, rd[r].pos, rd[r].total)
    <2>1. rd[r].at = "check" /\ rd[r].seq = seq
      BY <1>ok DEF Unchanged
    <2>2. seq % 2 = 0 /\ rd[r].pos = writePos /\ rd[r].total = total
      BY <1>old, <2>1 DEF ReaderCurrent
    <2>3. wr[turn].at \notin {"publish", "torn"}
      BY <2>2 DEF Bytes, Sound, Parity, InPublish
    <2>4. wr[turn].at \in {"idle", "dead", "copy"}
      BY <1>typ, <2>3 DEF TypeOK, Writer
    <2>5. PosOK(writePos, total) /\ Floor(data, writePos, total)
      BY <1>inv, <2>4 DEF AtRest, Copying
    <2> QED BY <2>1, <2>2, <2>5
  <1>1. ASSUME NEW c \in {"dump", "read_since"}, Call(r, c)
        PROVE  AtRest' /\ Copying' /\ Publishing' /\ ReadersOK'
    <2> DEFINE quiet == \A w \in Writers : wr[w].at = "idle"
               x == [rd[r] EXCEPT !.at = "seq", !.call = c, !.out = <<>>, !.clean = quiet]
    <2>1. Sets(r, x)
      BY <1>1 DEF Call
    <2>2. x.at = "seq" /\ x.call = c /\ x.out = <<>> /\ x.clean = quiet
      BY <1>typ DEF Reader
    <2> HIDE DEF x
    <2>3. quiet => wr[turn].at = "idle" /\ NoneDead
      BY <1>typ DEF NoneDead
    <2> HIDE DEF quiet
    <2>4. quiet => wr[turn].at \in {"idle", "dead"} /\ Exact(data, writePos, total)
      BY <1>inv, <2>3 DEF AtRest
    <2>5. Slice(x) /\ Grounded(x) /\ Quiet(x)
      BY <2>2, <2>4 DEF Slice, Grounded, Quiet
    <2> QED BY <1>set, <2>1, <2>5
  <1>2. CASE Spin(r)
    <2>1. UNCHANGED <<writePos, total, data, wr, turn, rd>>
      BY <1>2 DEF Spin, vars
    <2> QED BY <1>inv, <2>1 DEF AtRest, Copying, Publishing, ReadersOK, Slice, Grounded, Quiet,
                               NoneDead, PosOK, Expected
  <1>3. CASE LoadSeq(r)
    <2> DEFINE x == [rd[r] EXCEPT !.at = "pos", !.seq = seq]
    <2>1. Sets(r, x) /\ rd[r].at = "seq"
      BY <1>3 DEF LoadSeq
    <2>2. /\ x.at = "pos" /\ x.out = rd[r].out /\ x.clean = rd[r].clean /\ x.call = rd[r].call
          /\ x.ret = rd[r].ret
      BY <1>typ DEF Reader
    <2> HIDE DEF x
    <2>3. Slice(x) /\ Grounded(x) /\ Quiet(x)
      BY <1>old, <2>1, <2>2 DEF Slice, Grounded, Quiet
    <2> QED BY <1>set, <2>1, <2>3
  <1>4. CASE LoadPos(r)
    <2> DEFINE x == [rd[r] EXCEPT !.at = "total", !.pos = writePos]
    <2>1. Sets(r, x) /\ rd[r].at = "pos"
      BY <1>4 DEF LoadPos
    <2>2. /\ x.at = "total" /\ x.out = rd[r].out /\ x.clean = rd[r].clean /\ x.call = rd[r].call
          /\ x.ret = rd[r].ret /\ x.pos = writePos
      BY <1>typ DEF Reader
    <2> HIDE DEF x
    <2>3. Slice(x) /\ Grounded(x) /\ Quiet(x)
      BY <1>old, <2>1, <2>2 DEF Slice, Grounded, Quiet
    <2> QED BY <1>set, <2>1, <2>3
  <1>5. CASE LoadTotal(r)
    <2> DEFINE x == [rd[r] EXCEPT !.at = "check", !.total = total]
    <2>1. Sets(r, x) /\ rd[r].at = "total"
      BY <1>5 DEF LoadTotal
    <2>2. /\ x.at = "check" /\ x.out = rd[r].out /\ x.clean = rd[r].clean /\ x.call = rd[r].call
          /\ x.ret = rd[r].ret /\ x.pos = rd[r].pos /\ x.total = total
      BY <1>typ DEF Reader
    <2> HIDE DEF x
    <2>3. Slice(x) /\ Grounded(x) /\ Quiet(x)
      BY <1>old, <2>1, <2>2 DEF Slice, Grounded, Quiet
    <2> QED BY <1>set, <2>1, <2>3
  <1>6. CASE Retry(r)
    <2> DEFINE x == [rd[r] EXCEPT !.at = "seq"]
    <2>1. Sets(r, x) /\ rd[r].at = "check"
      BY <1>6 DEF Retry
    <2>2. /\ x.at = "seq" /\ x.out = rd[r].out /\ x.clean = rd[r].clean /\ x.call = rd[r].call
          /\ x.ret = rd[r].ret
      BY <1>typ DEF Reader
    <2> HIDE DEF x
    <2>3. Slice(x) /\ Grounded(x) /\ Quiet(x)
      BY <1>old, <2>1, <2>2 DEF Slice, Grounded, Quiet
    <2> QED BY <1>set, <2>1, <2>3
  <1>7. CASE DumpSlice(r)
    <2> DEFINE st == IF rd[r].total >= Cap THEN rd[r].pos ELSE 0
               ln == DumpLen(rd[r])
               x == [rd[r] EXCEPT !.at = "copy", !.start = st, !.n = ln]
    <2>1. Sets(r, x) /\ Unchanged(r) /\ rd[r].call \in {"dump", "overrun"}
      BY <1>7 DEF DumpSlice
    <2>2. /\ ln = Lesser(rd[r].total, Cap)
          /\ \A j \in 0 .. ln - 1 : (st + j) % Cap = Back(rd[r].pos, ln - j)
      BY <1>typ, <1>ok, <2>1, DumpLine
    <2> HIDE DEF st, ln
    <2>3. /\ x.at = "copy" /\ x.out = rd[r].out /\ x.clean = rd[r].clean /\ x.call = rd[r].call
          /\ x.ret = rd[r].ret /\ x.pos = rd[r].pos /\ x.total = rd[r].total
          /\ x.start = st /\ x.n = ln
      BY <1>typ DEF Reader
    <2> HIDE DEF x
    <2>4. rd[r].out = <<>> /\ Len(<<>>) = 0 /\ 1 .. 0 = {}
      BY <1>old, <1>ok, <2>1 DEF Slice
    <2>5. Lesser(rd[r].total, Cap) \in Int
      BY <1>typ, RingAssumption DEF Lesser
    <2>6. Slice(x)
      BY <1>ok, <2>1, <2>2, <2>3, <2>4, <2>5 DEF Slice
    <2>7. Grounded(x)
      BY <1>ok, <1>typ, <2>1, <2>3 DEF Grounded
    <2>8. Quiet(x)
      BY <1>ok, <1>old, <2>1, <2>2, <2>3, <2>4 DEF Quiet
    <2> QED BY <1>set, <2>1, <2>6, <2>7, <2>8
  <1>8. CASE SinceSlice(r)
    <2> DEFINE st == SinceStart(rd[r])
               ln == NewBytes(rd[r])
               x == [rd[r] EXCEPT !.at = "copy", !.start = st, !.n = ln, !.ret = rd[r].total]
    <2>1. Sets(r, x) /\ Unchanged(r) /\ rd[r].call = "read_since"
      BY <1>8 DEF SinceSlice
    <2>2. /\ ln <= Lesser(rd[r].total, Cap)
          /\ \A j \in 0 .. ln - 1 : (st + j) % Cap = Back(rd[r].pos, ln - j)
          /\ ln = rd[r].total - rd[r].last
      BY <1>8, <1>typ, <1>ok, <2>1, SinceLine DEF SinceSlice, NewBytes
    <2> HIDE DEF st, ln
    <2>3. /\ x.at = "copy" /\ x.out = rd[r].out /\ x.clean = rd[r].clean /\ x.call = rd[r].call
          /\ x.ret = rd[r].total /\ x.pos = rd[r].pos /\ x.total = rd[r].total
          /\ x.start = st /\ x.n = ln /\ x.last = rd[r].last
      BY <1>typ DEF Reader
    <2> HIDE DEF x
    <2>4. rd[r].out = <<>> /\ Len(<<>>) = 0 /\ 1 .. 0 = {}
      BY <1>old, <1>ok, <2>1 DEF Slice
    <2>5. Slice(x)
      BY <1>ok, <2>1, <2>2, <2>3, <2>4 DEF Slice
    <2>6. Grounded(x)
      BY <1>ok, <1>typ, <2>1, <2>3 DEF Grounded
    <2>7. Quiet(x)
      BY <1>ok, <1>old, <2>1, <2>2, <2>3, <2>4 DEF Quiet
    <2> QED BY <1>set, <2>1, <2>5, <2>6, <2>7
  <1>9. CASE SinceOverrun(r)
    <2> DEFINE x == [rd[r] EXCEPT !.at = "seq", !.call = "overrun", !.ret = rd[r].total]
    <2>1. Sets(r, x) /\ Unchanged(r)
      BY <1>9 DEF SinceOverrun
    <2>2. /\ x.at = "seq" /\ x.out = rd[r].out /\ x.clean = rd[r].clean
          /\ x.ret = rd[r].total
      BY <1>typ DEF Reader
    <2> HIDE DEF x
    <2>3. Slice(x) /\ Grounded(x) /\ Quiet(x)
      BY <1>old, <1>ok, <2>1, <2>2 DEF Slice, Grounded, Quiet
    <2> QED BY <1>set, <2>1, <2>3
  <1>10. CASE SinceNothing(r) \/ Return(r)
    <2>1. PICK n : Sets(r, [IdleReader EXCEPT !.last = n])
      BY <1>10 DEF SinceNothing, Return
    <2> DEFINE x == [IdleReader EXCEPT !.last = n]
    <2>2. x.at = "idle"
      BY DEF IdleReader
    <2> HIDE DEF x
    <2>3. Sets(r, x)
      BY <2>1 DEF x
    <2> QED BY <1>set, <2>2, <2>3 DEF Slice, Grounded, Quiet
  <1>11. CASE CopyOut(r)
    <2> DEFINE L == Len(rd[r].out)
               v == data[(rd[r].start + L) % Cap]
               x == [rd[r] EXCEPT !.out = Append(@, v)]
    <2>1. Sets(r, x) /\ rd[r].at = "copy" /\ L < rd[r].n /\ L \in Nat
      BY <1>11, <1>typ DEF CopyOut
    <2>2. /\ PosOK(rd[r].pos, rd[r].total) /\ rd[r].n <= Lesser(rd[r].total, Cap)
          /\ (rd[r].start + L) % Cap = Back(rd[r].pos, rd[r].n - L)
      <3>1. L \in 0 .. rd[r].n - 1
        BY <1>typ, <2>1
      <3> QED BY <1>old, <2>1, <3>1 DEF Slice
    <2>3. rd[r].n - L \in 1 .. Lesser(rd[r].total, Cap)
      BY <1>typ, <2>1, <2>2, RingAssumption, SMTT(30) DEF Lesser
    <2>4. v >= rd[r].total - (rd[r].n - L)
      BY <1>old, <2>1, <2>2, <2>3 DEF Grounded, Floor
    <2>5. rd[r].clean => v = rd[r].total - (rd[r].n - L)
      <3>1. ASSUME rd[r].clean PROVE v = rd[r].total - (rd[r].n - L)
        <4>1. /\ Exact(data, writePos, total) /\ rd[r].pos = writePos /\ rd[r].total = total
          BY <1>old, <2>1, <3>1 DEF Quiet
        <4> QED BY <2>2, <2>3, <4>1 DEF Exact
      <3> QED BY <3>1
    <2>6. v \in Nat \cup {Empty}
      <3>1. rd[r].start + L \in Nat
        BY <1>typ, <2>1
      <3> QED BY <1>typ, <3>1, ModSlot DEF TypeOK
    <2> HIDE DEF v
    <2>7. /\ x.at = "copy" /\ x.clean = rd[r].clean /\ x.call = rd[r].call
          /\ x.ret = rd[r].ret /\ x.pos = rd[r].pos /\ x.total = rd[r].total
          /\ x.start = rd[r].start /\ x.n = rd[r].n /\ x.last = rd[r].last
          /\ x.out = Append(rd[r].out, v)
      BY <1>typ, <2>1 DEF Reader
    <2>8. /\ Len(x.out) = L + 1 /\ x.out[L + 1] = v
          /\ \A i \in 1 .. L : x.out[i] = rd[r].out[i]
      BY <1>typ, <2>6, <2>7
    <2> HIDE DEF x
    <2>9. /\ \A i : Expected(x, i) = Expected(rd[r], i)
          /\ Expected(rd[r], L + 1) = rd[r].total - (rd[r].n - L)
      BY <1>typ, <2>1, <2>7 DEF Expected
    <2>10. \A i \in 1 .. L + 1 : i \in 1 .. L \/ i = L + 1
      BY <2>1
    <2> HIDE DEF L
    <2>11. \A i \in 1 .. Len(x.out) : x.out[i] >= Expected(x, i)
      <3>1. \A i \in 1 .. L : rd[r].out[i] >= Expected(rd[r], i)
        BY <1>old, <2>1 DEF Slice, L
      <3> QED BY <2>4, <2>8, <2>9, <2>10, <3>1
    <2>12. ASSUME x.clean PROVE \A i \in 1 .. Len(x.out) : x.out[i] = Expected(x, i)
      <3>1. \A i \in 1 .. L : rd[r].out[i] = Expected(rd[r], i)
        BY <1>old, <2>1, <2>7, <2>12 DEF Quiet, L
      <3> QED BY <2>5, <2>7, <2>8, <2>9, <2>10, <2>12, <3>1
    <2>13. Slice(x)
      BY <1>old, <2>1, <2>7, <2>11 DEF Slice
    <2>14. Grounded(x)
      BY <1>old, <2>1, <2>7 DEF Grounded
    <2>15. Quiet(x)
      BY <1>old, <2>1, <2>7, <2>12 DEF Quiet
    <2> QED BY <1>set, <2>1, <2>13, <2>14, <2>15
  <1> QED BY <1>1, <1>2, <1>3, <1>4, <1>5, <1>6, <1>7, <1>8, <1>9, <1>10, <1>11
          DEF ReaderStep

\* Once a writer was killed while it published, no call is free of its write.
NoQuiet == (\E w \in Writers : wr[w].at = "torn")
             => \A r \in Readers : rd[r].at # "idle" => ~rd[r].clean

\* The inductive invariant of the bytes.
RingInv == TypeOK /\ NoQuiet /\ (Handed \/ Bytes)

\* A call begins clean only when every writer is idle, and a write overlaps the
\* calls under way.
LEMMA NoQuietStep ==
  ASSUME RingInv, [Next]_vars, TypeOK'
  PROVE  NoQuiet'
  <1>typ. TypeOK /\ rd \in [Readers -> Reader] /\ wr \in [Writers -> Writer] /\ turn \in Writers
    BY DEF RingInv, TypeOK
  <1>note. ASSUME NoteWrite PROVE \A r \in Readers : ~rd'[r].clean
    <2>1. ASSUME NEW r \in Readers PROVE rd'[r].clean = FALSE
      BY <1>note, <1>typ DEF NoteWrite, Reader
    <2> QED BY <2>1
  <1>1. CASE \E w \in Writers : WriteStart(w) \/ WriterStep(w)
    <2>1. NoteWrite
      BY <1>1 DEF WriteStart, WriterStep, CopyIn, SeqBegin, StorePos, StoreTotal, SeqEnd
    <2> QED BY <1>note, <2>1 DEF NoQuiet
  <1>2. ASSUME NEW w \in Writers, WriterCrash(w) PROVE NoQuiet'
    <2>1. /\ wr' = [wr EXCEPT ![w] = [IdleWriter EXCEPT !.at = Ends(wr[w].at)]] /\ turn = w
          /\ rd' = rd
      BY <1>2 DEF WriterCrash
    <2>2. wr'[w].at = Ends(wr[w].at) /\ \A v \in Writers \ {w} : wr'[v] = wr[v]
      BY <1>typ, <2>1 DEF IdleWriter
    <2>3. CASE \E v \in Writers : wr[v].at = "torn"
      BY <2>1, <2>3 DEF RingInv, NoQuiet
    <2>4. CASE ~ \E v \in Writers : wr[v].at = "torn"
      <3>1. Bytes
        BY <2>4 DEF RingInv, Handed
      <3>2. CASE wr[w].at = "publish"
        <4>1. \A r \in Readers : rd[r].at # "idle" => ~rd[r].clean
          BY <2>1, <3>1, <3>2 DEF Bytes, ReadersOK, Quiet
        <4> QED BY <2>1, <4>1 DEF NoQuiet
      <3>3. CASE wr[w].at # "publish"
        <4>1. \A v \in Writers : wr'[v].at # "torn"
          BY <2>2, <2>4, <3>3 DEF Ends
        <4> QED BY <4>1 DEF NoQuiet
      <3> QED BY <3>2, <3>3
    <2> QED BY <2>3, <2>4
  <1>3. CASE \E w \in Writers : PassTurn(w)
    BY <1>3 DEF PassTurn, RingInv, NoQuiet
  <1>4. ASSUME NEW r \in Readers, wr' = wr, NEW x, rd' = [rd EXCEPT ![r] = x],
               x.at # "idle" /\ x.clean => \/ \A w \in Writers : wr[w].at = "idle"
                                           \/ rd[r].at # "idle" /\ rd[r].clean
        PROVE  NoQuiet'
    <2>1. rd'[r] = x /\ \A q \in Readers \ {r} : rd'[q] = rd[q]
      BY <1>4, <1>typ
    <2> QED BY <1>4, <2>1 DEF RingInv, NoQuiet
  <1>5. ASSUME NEW r \in Readers, NEW c \in {"dump", "read_since"}, Call(r, c) PROVE NoQuiet'
    <2> DEFINE quiet == \A w \in Writers : wr[w].at = "idle"
               x == [rd[r] EXCEPT !.at = "seq", !.call = c, !.out = <<>>, !.clean = quiet]
    <2>1. wr' = wr /\ rd' = [rd EXCEPT ![r] = x]
      BY <1>5 DEF Call, Sets
    <2>2. x.clean = quiet
      BY <1>typ DEF Reader
    <2> HIDE DEF x
    <2> QED BY <1>4, <2>1, <2>2
  <1>6. ASSUME NEW r \in Readers, ReaderStep(r) PROVE NoQuiet'
    <2>1. CASE Spin(r)
      BY <2>1 DEF Spin, vars, RingInv, NoQuiet
    <2>2. CASE SinceNothing(r) \/ Return(r)
      <3>1. PICK n : wr' = wr /\ rd' = [rd EXCEPT ![r] = [IdleReader EXCEPT !.last = n]]
        BY <2>2 DEF SinceNothing, Return, Sets
      <3> DEFINE x == [IdleReader EXCEPT !.last = n]
      <3>2. x.at = "idle"
        BY DEF IdleReader
      <3>3. rd' = [rd EXCEPT ![r] = x]
        BY <3>1
      <3> HIDE DEF x
      <3> QED BY <1>4, <3>1, <3>2, <3>3
    <2>3. CASE \/ LoadSeq(r) \/ LoadPos(r) \/ LoadTotal(r) \/ Retry(r)
               \/ DumpSlice(r) \/ SinceSlice(r) \/ SinceOverrun(r) \/ CopyOut(r)
      <3>1. rd[r] \in Reader /\ rd[r].at # "idle"
        BY <1>typ, <2>3 DEF LoadSeq, LoadPos, LoadTotal, Retry, DumpSlice, SinceSlice,
                            SinceOverrun, CopyOut, Unchanged
      <3>2. \E x : wr' = wr /\ rd' = [rd EXCEPT ![r] = x] /\ x.clean = rd[r].clean
        <4>1. CASE LoadSeq(r)
          BY <3>1, <4>1, ZenonT(60) DEF LoadSeq, Sets, Reader
        <4>2. CASE LoadPos(r)
          BY <3>1, <4>2, ZenonT(60) DEF LoadPos, Sets, Reader
        <4>3. CASE LoadTotal(r)
          BY <3>1, <4>3, ZenonT(60) DEF LoadTotal, Sets, Reader
        <4>4. CASE Retry(r)
          BY <3>1, <4>4, ZenonT(60) DEF Retry, Sets, Reader
        <4>5. CASE DumpSlice(r)
          <5>1. PICK a, b : wr' = wr /\ rd' = [rd EXCEPT ![r] = [rd[r] EXCEPT !.at = "copy", !.start = a, !.n = b]]
            BY <4>5 DEF DumpSlice, Sets
          <5>2. [rd[r] EXCEPT !.at = "copy", !.start = a, !.n = b].clean = rd[r].clean
            BY <3>1 DEF Reader
          <5> QED BY <5>1, <5>2
        <4>6. CASE SinceSlice(r)
          <5>1. PICK a, b : wr' = wr /\ rd' = [rd EXCEPT ![r] = [rd[r] EXCEPT !.at = "copy", !.start = a, !.n = b, !.ret = rd[r].total]]
            BY <4>6 DEF SinceSlice, Sets
          <5>2. [rd[r] EXCEPT !.at = "copy", !.start = a, !.n = b, !.ret = rd[r].total].clean = rd[r].clean
            BY <3>1 DEF Reader
          <5> QED BY <5>1, <5>2
        <4>7. CASE SinceOverrun(r)
          <5>1. wr' = wr /\ rd' = [rd EXCEPT ![r] = [rd[r] EXCEPT !.at = "seq", !.call = "overrun",
                                                           !.ret = rd[r].total]]
            BY <4>7 DEF SinceOverrun, Sets
          <5>2. [rd[r] EXCEPT !.at = "seq", !.call = "overrun", !.ret = rd[r].total].clean = rd[r].clean
            BY <3>1 DEF Reader
          <5> QED BY <5>1, <5>2
        <4>8. CASE CopyOut(r)
          <5>1. PICK o : wr' = wr /\ rd' = [rd EXCEPT ![r] = [rd[r] EXCEPT !.out = o]]
            BY <4>8 DEF CopyOut, Sets
          <5>2. [rd[r] EXCEPT !.out = o].clean = rd[r].clean
            BY <3>1 DEF Reader
          <5> QED BY <5>1, <5>2
        <4> QED BY <2>3, <4>1, <4>2, <4>3, <4>4, <4>5, <4>6, <4>7, <4>8
      <3> QED BY <1>4, <3>1, <3>2
    <2> QED BY <1>6, <2>1, <2>2, <2>3 DEF ReaderStep
  <1>7. CASE UNCHANGED vars
    BY <1>7 DEF vars, RingInv, NoQuiet
  <1> QED BY <1>1, <1>2, <1>3, <1>5, <1>6, <1>7 DEF Next

\* The invariant of the bytes holds in every reachable state.
THEOREM RingBytes ==
  ASSUME SingleWriter
  PROVE  Spec => []RingInv
  <1>1. Init => RingInv
    <2> SUFFICES ASSUME Init PROVE RingInv
      OBVIOUS
    <2>1. /\ turn \in Writers /\ wr[turn].at = "idle" /\ total = 0 /\ writePos = 0
          /\ \A r \in Readers : rd[r].at = "idle"
      BY DEF Init, IdleWriter, IdleReader
    <2>2. PosOK(0, 0) /\ Floor(data, 0, 0) /\ Exact(data, 0, 0)
      BY RingAssumption DEF PosOK, Slot, Floor, Exact, Lesser
    <2>3. AtRest /\ Copying /\ Publishing
      BY <2>1, <2>2 DEF AtRest, Copying, Publishing
    <2>4. ReadersOK /\ NoQuiet
      BY <2>1 DEF ReadersOK, Slice, Grounded, Quiet, NoQuiet
    <2> QED BY <2>3, <2>4, InitSeqlock DEF RingInv, Bytes, Sound
  <1>2. RingInv /\ [Next]_vars => RingInv'
    <2> SUFFICES ASSUME RingInv, [Next]_vars PROVE RingInv'
      OBVIOUS
    <2>1. TypeOK' /\ NoQuiet'
      BY StepTypes, NoQuietStep DEF RingInv
    <2>2. CASE Handed
      BY <2>1, <2>2, HandedStays DEF RingInv
    <2>3. CASE Bytes
      <3>1. SUFFICES ASSUME ~Handed' PROVE Bytes'
        BY <2>1 DEF RingInv
      <3>2. Sound'
        BY <2>3, <3>1, SoundStep DEF Bytes
      <3>3. CASE \E w \in Writers : WriteStart(w) \/ WriterStep(w) \/ WriterCrash(w) \/ PassTurn(w)
        BY <2>3, <3>2, <3>3, WriterBytes DEF Bytes
      <3>4. CASE \E r \in Readers : \/ \E c \in {"dump", "read_since"} : Call(r, c)
                                    \/ ReaderStep(r)
        BY <2>3, <3>2, <3>4, ReaderBytes DEF Bytes
      <3>5. CASE UNCHANGED vars
        <4>1. UNCHANGED <<seq, writePos, total, data, turn, wr, rd, pub>>
          BY <3>5 DEF vars
        <4>2. AtRest' /\ Copying' /\ Publishing'
          BY <2>3, <4>1 DEF Bytes, AtRest, Copying, Publishing, NoneDead
        <4>3. ReadersOK'
          BY <2>3, <4>1 DEF Bytes, ReadersOK, Slice, Grounded, Quiet, PosOK, Expected
        <4> QED BY <3>2, <4>2, <4>3 DEF Bytes
      <3> QED BY <3>3, <3>4, <3>5 DEF Next
    <2> QED BY <2>2, <2>3 DEF RingInv
  <1> QED BY <1>1, <1>2, PTL DEF Spec

\* Between writes the ring holds the end of the stream, for every capacity and writes
\* of any length (SharedRingBuffer::write).
THEOREM RingHoldsTailHolds ==
  ASSUME SingleWriter
  PROVE  Spec => []RingHoldsTail
  <1>1. RingInv => RingHoldsTail
    <2> SUFFICES ASSUME RingInv, \A w \in Writers : wr[w].at = "idle",
                        NEW k \in 1 .. Lesser(total, Cap)
                 PROVE  data[(writePos + Cap - k) % Cap] = total - k
      BY DEF RingHoldsTail
    <2>1. turn \in Writers /\ total \in Nat /\ Bytes
      BY DEF RingInv, TypeOK, Handed
    <2>2. PosOK(writePos, total) /\ Exact(data, writePos, total)
      BY <2>1 DEF Bytes, AtRest, NoneDead
    <2>3. k \in 1 .. Cap
      BY <2>1, RingAssumption DEF Lesser
    <2>4. (writePos + Cap - k) % Cap = Back(writePos, k)
      BY <2>2, <2>3, Wrap DEF PosOK
    <2> QED BY <2>2, <2>4 DEF Exact
  <1> QED BY <1>1, RingBytes, PTL

\* No reader ever gets a byte older than the one its snapshot promises, however the
\* writers overtake it and wherever they are killed, until one writes over an odd
\* sequence (dump, read_since).
THEOREM NeverStaleHolds ==
  ASSUME SingleWriter
  PROVE  Spec => []NeverStale
  <1>1. RingInv => NeverStale
    BY DEF RingInv, Bytes, ReadersOK, Slice, NeverStale
  <1> QED BY <1>1, RingBytes, PTL

\* dump and read_since are exact when no write overlaps the call, for every capacity,
\* position and length.
THEOREM QuietReadExactHolds ==
  ASSUME SingleWriter
  PROVE  Spec => []QuietReadExact
  <1>1. RingInv => QuietReadExact
    <2> SUFFICES ASSUME RingInv, NEW r \in Readers, Finished(r), rd[r].clean
                 PROVE  /\ \A i \in 1 .. rd[r].n : rd[r].out[i] = Expected(rd[r], i)
                        /\ rd[r].call = "read_since"
                             => rd[r].total = rd[r].ret /\ rd[r].n = rd[r].ret - rd[r].last
                        /\ rd[r].call = "overrun" => rd[r].total = rd[r].ret
                        /\ rd[r].call = "dump" => /\ rd[r].n = Lesser(total, Cap)
                                                  /\ rd[r].total = total
      BY DEF QuietReadExact
    <2>1. rd[r].at = "copy" /\ Len(rd[r].out) = rd[r].n
      BY DEF Finished
    <2>2. Bytes
      BY <2>1 DEF RingInv, NoQuiet, Handed
    <2> QED BY <2>1, <2>2 DEF Bytes, ReadersOK, Quiet
  <1> QED BY <1>1, RingBytes, PTL
=============================================================================
