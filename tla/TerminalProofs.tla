--------------------------- MODULE TerminalProofs --------------------------
(* Proofs about Terminal, for every capacity of the ring and every length of *)
(* the output.                                                               *)
EXTENDS Terminal, SessionProofs, TLAPS

Distinct(s) == \A i, j \in DOMAIN s : i # j /\ s[i] = s[j] => s[i] = Garbage

\* From its first byte on, s misses of the first n only the ones in M.
Covers(s, n, M) == s # <<>> => s[1] .. n \subseteq ToSet(s) \cup M

EndsWith(p, r) == /\ Len(r) <= Len(p)
                  /\ \A i \in 1 .. Len(r) : r[i] = p[i + (Len(p) - Len(r))]

\* A dead ETerm holds nothing, and while only the daemon reads ETerm holds no bytes.
\* The loop reads while the session is not Attached, and stays in the handler until
\* the bytes are written.  A writer whose write has been run into is still at it.
Reader == /\ eterm = "gone" => hand = <<>> /\ ~dup
          /\ own => hand = <<>>
          /\ buf # <<>> => ~Attached
          /\ race = "eterm" => hand # <<>>
          /\ race = "daemon" => buf # <<>> /\ ~own
          /\ race # "no" => mixed

\* What is about to be written behind the ring, while the readers take turns.
Pending == IF buf = <<>> THEN hand ELSE buf

\* The ring and the bytes on their way to it.  Bytes are read once, so they are
\* distinct in any case; in order and without holes only while the readers took turns.
\* A ring once written is never empty again, so that an empty ring comes with an empty
\* parser.
Ring == /\ ring = <<>> => stored = {} /\ parser = <<>>
        /\ ToSet(ring) \subseteq stored \cup {Garbage}
        /\ InOrder(hand) /\ InOrder(buf)
        /\ Distinct(ring)
        /\ ToSet(ring) \cap ToSet(hand) = {} /\ ToSet(ring) \cap ToSet(buf) = {}
        /\ ToSet(hand) \cap ToSet(buf) = {}
        /\ ~mixed => /\ hand = <<>> \/ buf = <<>>
                     /\ InOrder(ring \o Pending) /\ Covers(ring \o Pending, taken, lost)
                     /\ Covers(buf, taken, {})
        /\ own => EndsWith(parser, ring)

\* One of the sequences on their way to the WS client, bytes b being about to follow
\* and the ones in M missing.
Streamed(s, n, b, M) ==
  /\ ToSet(s) \subseteq 0 .. n
  /\ Distinct(s)
  /\ ToSet(s) \cap ToSet(b) = {}
  /\ ~mixed => /\ InOrder(s) /\ Covers(s, n, M \cup ToSet(b))
               /\ \A x \in ToSet(s), y \in ToSet(b) : x < y

\* The replay on its way to the WS client, and what the client has got.
Stream == /\ ws # "await" => reply = <<>>
          /\ ws # "on" => view = <<>>
          /\ Streamed(reply, taken, buf, gap \cup lost)
          /\ Streamed(view, taken, buf, gap \cup lost)

IInv == TypeOK /\ NoByteLost /\ Reader /\ Ring /\ Stream

-----------------------------------------------------------------------------
(* Sequences of bytes *)

\* The empty sequence satisfies every predicate used here.
LEMMA EmptyOK ==
  ASSUME NEW n \in Nat, NEW M
  PROVE  /\ <<>> \in Seq(Byte) /\ Len(<<>>) = 0 /\ ToSet(<<>>) = {}
         /\ InOrder(<<>>) /\ Distinct(<<>>) /\ Covers(<<>>, n, M)
  BY DEF ToSet, InOrder, Distinct, Covers

\* The elements of a sequence of bytes are numbers.
LEMMA BytesOf ==
  ASSUME NEW s \in Seq(Byte)
  PROVE  /\ DOMAIN s = 1 .. Len(s) /\ Len(s) \in Nat
         /\ \A i \in 1 .. Len(s) : s[i] \in Byte /\ s[i] \in Nat /\ s[i] \in ToSet(s)
         /\ \A x \in ToSet(s) : \E i \in 1 .. Len(s) : x = s[i]
         /\ ToSet(s) \subseteq Byte /\ Byte \subseteq Nat
  <1>1. Byte \subseteq Nat
    BY TerminalAssumption DEF Byte
  <1>2. /\ DOMAIN s = 1 .. Len(s) /\ Len(s) \in Nat
        /\ \A i \in 1 .. Len(s) : s[i] \in Byte
    OBVIOUS
  <1>3. ToSet(s) = {s[i] : i \in 1 .. Len(s)}
    BY <1>2 DEF ToSet
  <1> QED BY <1>1, <1>2, <1>3

\* Appending: length, elements and the set of the bytes.
LEMMA AppendOK ==
  ASSUME NEW s \in Seq(Byte), NEW t \in Seq(Byte)
  PROVE  /\ s \o t \in Seq(Byte) /\ Len(s \o t) = Len(s) + Len(t)
         /\ \A i \in 1 .. Len(s) : (s \o t)[i] = s[i]
         /\ \A i \in 1 .. Len(t) : (s \o t)[Len(s) + i] = t[i]
         /\ ToSet(s \o t) = ToSet(s) \cup ToSet(t)
         /\ s \o <<>> = s /\ <<>> \o s = s
  <1>1. /\ s \o t \in Seq(Byte) /\ Len(s \o t) = Len(s) + Len(t)
        /\ \A i \in 1 .. Len(s) : (s \o t)[i] = s[i]
        /\ \A i \in 1 .. Len(t) : (s \o t)[Len(s) + i] = t[i]
        /\ s \o <<>> = s /\ <<>> \o s = s
    OBVIOUS
  <1>2. ToSet(s \o t) \subseteq ToSet(s) \cup ToSet(t)
    <2> SUFFICES ASSUME NEW i \in 1 .. Len(s \o t)
                 PROVE  (s \o t)[i] \in ToSet(s) \cup ToSet(t)
      BY <1>1 DEF ToSet
    <2>1. CASE i <= Len(s)
      BY <1>1, <2>1 DEF ToSet
    <2>2. CASE i > Len(s)
      <3>1. i - Len(s) \in 1 .. Len(t) /\ i = Len(s) + (i - Len(s))
        BY <1>1, <2>2
      <3>2. (s \o t)[i] = t[i - Len(s)]
        BY <1>1, <3>1
      <3> QED BY <3>1, <3>2 DEF ToSet
    <2> QED BY <1>1, <2>1, <2>2
  <1>3. ToSet(s) \cup ToSet(t) \subseteq ToSet(s \o t)
    <2>1. \A i \in 1 .. Len(s) : i \in 1 .. Len(s \o t)
      BY <1>1
    <2>2. \A i \in 1 .. Len(t) : Len(s) + i \in 1 .. Len(s \o t)
      BY <1>1
    <2>3. ToSet(s) \subseteq ToSet(s \o t)
      BY <1>1, <2>1 DEF ToSet
    <2>4. ASSUME NEW x \in ToSet(t) PROVE x \in ToSet(s \o t)
      <3>1. PICK i \in 1 .. Len(t) : x = t[i]
        BY <2>4, BytesOf
      <3>2. Len(s) + i \in 1 .. Len(s \o t) /\ (s \o t)[Len(s) + i] = x
        BY <1>1, <2>2, <3>1
      <3> QED BY <1>1, <3>2, BytesOf
    <2> QED BY <2>3, <2>4
  <1> QED BY <1>1, <1>2, <1>3

\* What SharedRingBuffer::write leaves of the bytes: the last ones, at least one.
LEMMA NewestOK ==
  ASSUME NEW s \in Seq(Byte), NEW n \in Nat \ {0}
  PROVE  /\ Newest(n, s) \in Seq(Byte) /\ Len(Newest(n, s)) <= n
         /\ Len(Newest(n, s)) <= Len(s)
         /\ \A i \in 1 .. Len(Newest(n, s)) :
              Newest(n, s)[i] = s[i + (Len(s) - Len(Newest(n, s)))]
         /\ ToSet(Newest(n, s)) \subseteq ToSet(s)
         /\ s # <<>> => Newest(n, s) # <<>>
  <1> DEFINE r == Newest(n, s)
  <1>1. CASE Len(s) <= n
    BY <1>1 DEF Newest
  <1>2. CASE Len(s) > n
    <2>1. r = SubSeq(s, Len(s) - n + 1, Len(s))
      BY <1>2 DEF Newest
    <2>2. r \in Seq(Byte) /\ Len(r) = n
      BY <1>2, <2>1
    <2>3. \A i \in 1 .. Len(r) : r[i] = s[i + (Len(s) - Len(r))]
      BY <1>2, <2>1, <2>2
    <2>4. ToSet(r) \subseteq ToSet(s)
      BY <1>2, <2>2, <2>3 DEF ToSet
    <2> QED BY <1>2, <2>2, <2>3, <2>4
  <1> QED BY <1>1, <1>2

\* Bytes in order are distinct, and so are the two parts of a sequence in order.
LEMMA InOrderParts ==
  ASSUME NEW s \in Seq(Byte), NEW t \in Seq(Byte), InOrder(s \o t)
  PROVE  /\ InOrder(s) /\ Distinct(s)
         /\ \A i \in 1 .. Len(s), j \in 1 .. Len(t) : s[i] < t[j]
  <1>1. ASSUME NEW i \in 1 .. Len(s), NEW j \in 1 .. Len(s), i < j PROVE s[i] < s[j]
    <2>1. i \in DOMAIN (s \o t) /\ j \in DOMAIN (s \o t)
      BY AppendOK
    <2>2. (s \o t)[i] < (s \o t)[j]
      BY <1>1, <2>1 DEF InOrder
    <2> QED BY <2>2, AppendOK
  <1>2. InOrder(s)
    BY <1>1 DEF InOrder
  <1>3. ASSUME NEW i \in 1 .. Len(s), NEW j \in 1 .. Len(s), i # j PROVE s[i] # s[j]
    <2>1. (i < j \/ j < i) /\ s[i] \in Nat /\ s[j] \in Nat
      BY <1>3, BytesOf
    <2>2. s[i] < s[j] \/ s[j] < s[i]
      BY <1>1, <2>1
    <2> QED BY <2>1, <2>2
  <1>4. ASSUME NEW i \in 1 .. Len(s), NEW j \in 1 .. Len(t) PROVE s[i] < t[j]
    <2>1. i \in DOMAIN (s \o t) /\ Len(s) + j \in DOMAIN (s \o t) /\ i < Len(s) + j
      BY AppendOK
    <2> QED BY <2>1, AppendOK DEF InOrder
  <1> QED BY <1>2, <1>3, <1>4, BytesOf DEF Distinct

\* Appending bytes that are all later keeps a sequence in order.
LEMMA InOrderAppend ==
  ASSUME NEW s \in Seq(Byte), NEW t \in Seq(Byte), InOrder(s), InOrder(t),
         \A x \in ToSet(s), y \in ToSet(t) : x < y
  PROVE  InOrder(s \o t)
  <1> SUFFICES ASSUME NEW i \in 1 .. Len(s \o t), NEW j \in 1 .. Len(s \o t), i < j
               PROVE  (s \o t)[i] < (s \o t)[j]
    BY AppendOK DEF InOrder
  <1>1. Len(s \o t) = Len(s) + Len(t)
    BY AppendOK
  <1>2. CASE j <= Len(s)
    BY <1>1, <1>2, AppendOK DEF InOrder
  <1>3. CASE i <= Len(s) /\ j > Len(s)
    <2>1. j - Len(s) \in 1 .. Len(t) /\ j = Len(s) + (j - Len(s))
      BY <1>1, <1>3
    <2>2. (s \o t)[i] \in ToSet(s) /\ (s \o t)[j] \in ToSet(t)
      BY <1>3, <2>1, AppendOK DEF ToSet
    <2> QED BY <2>2
  <1>4. CASE i > Len(s)
    <2>1. /\ i - Len(s) \in 1 .. Len(t) /\ i = Len(s) + (i - Len(s))
          /\ j - Len(s) \in 1 .. Len(t) /\ j = Len(s) + (j - Len(s))
          /\ i - Len(s) < j - Len(s)
      BY <1>1, <1>4
    <2>2. (s \o t)[i] = t[i - Len(s)] /\ (s \o t)[j] = t[j - Len(s)]
      BY <2>1, AppendOK
    <2> QED BY <2>1, <2>2 DEF InOrder
  <1> QED BY <1>1, <1>2, <1>3, <1>4

\* Appending other bytes keeps the bytes distinct.
LEMMA DistinctAppend ==
  ASSUME NEW s \in Seq(Byte), NEW t \in Seq(Byte), Distinct(s), InOrder(t),
         ToSet(s) \cap ToSet(t) = {}
  PROVE  Distinct(s \o t)
  <1> SUFFICES ASSUME NEW i \in 1 .. Len(s \o t), NEW j \in 1 .. Len(s \o t), i < j
               PROVE  (s \o t)[i] = (s \o t)[j] => (s \o t)[i] = Garbage
    BY AppendOK DEF Distinct
  <1>1. Len(s \o t) = Len(s) + Len(t)
    BY AppendOK
  <1>2. CASE j <= Len(s)
    BY <1>1, <1>2, AppendOK DEF Distinct
  <1>3. CASE i <= Len(s) /\ j > Len(s)
    <2>1. j - Len(s) \in 1 .. Len(t) /\ j = Len(s) + (j - Len(s))
      BY <1>1, <1>3
    <2>2. (s \o t)[i] \in ToSet(s) /\ (s \o t)[j] \in ToSet(t)
      BY <1>3, <2>1, AppendOK DEF ToSet
    <2> QED BY <2>2
  <1>4. CASE i > Len(s)
    <2>1. /\ i - Len(s) \in 1 .. Len(t) /\ i = Len(s) + (i - Len(s))
          /\ j - Len(s) \in 1 .. Len(t) /\ j = Len(s) + (j - Len(s))
          /\ i - Len(s) < j - Len(s)
      BY <1>1, <1>4
    <2>2. (s \o t)[i] = t[i - Len(s)] /\ (s \o t)[j] = t[j - Len(s)]
      BY <2>1, AppendOK
    <2>3. t[i - Len(s)] < t[j - Len(s)]
      BY <2>1, BytesOf DEF InOrder
    <2>4. t[i - Len(s)] \in Nat /\ t[j - Len(s)] \in Nat
      BY <2>1, BytesOf
    <2> QED BY <2>2, <2>3, <2>4
  <1> QED BY <1>1, <1>2, <1>3, <1>4

\* Overwriting the oldest bytes keeps the rest in order, distinct and without holes.
LEMMA NewestKeeps ==
  ASSUME NEW s \in Seq(Byte), NEW n \in Nat \ {0}, NEW m \in Nat, NEW M
  PROVE  /\ InOrder(s) => InOrder(Newest(n, s))
         /\ Distinct(s) => Distinct(Newest(n, s))
         /\ InOrder(s) /\ Covers(s, m, M) => Covers(Newest(n, s), m, M)
  <1> DEFINE r == Newest(n, s)
             d == Len(s) - Len(r)
  <1>1. /\ r \in Seq(Byte) /\ d \in Nat /\ Len(r) + d = Len(s)
        /\ \A i \in 1 .. Len(r) : i + d \in 1 .. Len(s) /\ r[i] = s[i + d]
    BY NewestOK
  <1> HIDE DEF r, d
  <1>a. \A i, j \in 1 .. Len(r) : /\ i < j => i + d < j + d
                                /\ i # j => i + d # j + d
    BY <1>1
  <1>b. DOMAIN r = 1 .. Len(r) /\ DOMAIN s = 1 .. Len(s)
    BY <1>1, BytesOf
  <1>2. ASSUME InOrder(s), NEW i \in 1 .. Len(r), NEW j \in 1 .. Len(r), i < j
        PROVE  r[i] < r[j]
    <2>1. s[i + d] < s[j + d]
      BY <1>1, <1>2, <1>a, <1>b, SMTT(30) DEF InOrder
    <2> QED BY <2>1, <1>1
  <1>3. ASSUME Distinct(s), NEW i \in 1 .. Len(r), NEW j \in 1 .. Len(r), i # j, r[i] = r[j]
        PROVE  r[i] = Garbage
    <2>1. s[i + d] = s[j + d] => s[i + d] = Garbage
      BY <1>1, <1>3, <1>a, <1>b DEF Distinct
    <2> QED BY <1>1, <1>3, <2>1
  <1>4. ASSUME InOrder(s), Covers(s, m, M), r # <<>>, NEW x \in r[1] .. m, x \notin M
        PROVE  x \in ToSet(r)
    <2>1. Len(r) >= 1 /\ Len(s) >= 1 /\ r[1] = s[1 + d] /\ r[1] \in Byte /\ s[1] \in Byte
      BY <1>1, <1>4
    <2>2. s[1] <= s[1 + d]
      <3>1. 1 \in 1 .. Len(s) /\ 1 + d \in 1 .. Len(s) /\ s[1] \in Nat
        BY <1>1, <2>1, BytesOf
      <3>2. CASE d = 0
        BY <3>1, <3>2
      <3>3. CASE d # 0
        <4>1. 1 < 1 + d /\ s[1 + d] \in Nat
          BY <1>1, <3>1, <3>3, BytesOf
        <4>2. s[1] < s[1 + d]
          BY <1>4, <1>b, <3>1, <4>1 DEF InOrder
        <4> QED BY <3>1, <4>1, <4>2
      <3> QED BY <3>2, <3>3
    <2>3. x \in s[1] .. m
      BY <2>1, <2>2, BytesOf
    <2>4. PICK i \in 1 .. Len(s) : x = s[i]
      BY <1>4, <2>1, <2>3 DEF Covers, ToSet
    <2>5. i > d
      <3>1. 1 + d \in 1 .. Len(s) /\ s[i] \in Nat /\ s[1 + d] \in Nat
        BY <1>1, <2>1, <2>4, BytesOf
      <3>2. s[1 + d] <= s[i]
        BY <1>4, <2>1, <2>4, <3>1
      <3>3. ~(i < 1 + d)
        BY <1>4, <1>b, <2>4, <3>1, <3>2 DEF InOrder
      <3> QED BY <1>1, <3>3
    <2>6. i - d \in 1 .. Len(r) /\ r[i - d] = s[i]
      BY <1>1, <2>4, <2>5
    <2> QED BY <2>4, <2>6 DEF ToSet
  <1>5. InOrder(s) /\ Covers(s, m, M) => Covers(r, m, M)
    BY <1>4 DEF Covers
  <1>6. InOrder(s) => InOrder(r)
    BY <1>2, <1>b DEF InOrder
  <1>7. Distinct(s) => Distinct(r)
    BY <1>3, <1>b DEF Distinct
  <1> QED BY <1>5, <1>6, <1>7 DEF r

\* A sequence without holes up to n, followed by the next k bytes.
LEMMA CoversAppend ==
  ASSUME NEW s \in Seq(Byte), NEW t \in Seq(Byte), NEW n \in Nat, NEW k \in Nat \ {0},
         NEW M, Covers(s, n, M), ToSet(t) = n + 1 .. n + k, t # <<>>, t[1] = n + 1
  PROVE  Covers(s \o t, n + k, M)
  <1>1. CASE s = <<>>
    <2>1. s \o t = t
      BY <1>1, AppendOK
    <2> QED BY <2>1 DEF Covers
  <1>2. CASE s # <<>>
    <2>1. s[1] \in Nat /\ (s \o t)[1] = s[1]
      BY <1>2, BytesOf, AppendOK
    <2>2. s[1] .. n \subseteq ToSet(s) \cup M
      BY <1>2 DEF Covers
    <2>3. \A x \in s[1] .. n + k : x \in s[1] .. n \/ x \in n + 1 .. n + k
      BY <2>1
    <2>4. s[1] .. n + k \subseteq ToSet(s \o t) \cup M
      BY <2>2, <2>3, AppendOK
    <2> QED BY <2>1, <2>4 DEF Covers
  <1> QED BY <1>1, <1>2

\* The next k bytes go elsewhere.
LEMMA CoversMore ==
  ASSUME NEW s \in Seq(Byte), NEW n \in Nat, NEW k \in Nat, NEW M, NEW M2,
         Covers(s, n, M), M \subseteq M2, n + 1 .. n + k \subseteq M2
  PROVE  Covers(s, n + k, M2)
  <1> SUFFICES ASSUME s # <<>> PROVE s[1] .. n + k \subseteq ToSet(s) \cup M2
    BY DEF Covers
  <1>1. s[1] \in Nat
    BY BytesOf
  <1>2. s[1] .. n \subseteq ToSet(s) \cup M
    BY DEF Covers
  <1>3. \A x \in s[1] .. n + k : x \in s[1] .. n \/ x \in n + 1 .. n + k
    BY <1>1
  <1> QED BY <1>2, <1>3

\* Bytes that were about to follow do.
LEMMA CoversJoined ==
  ASSUME NEW s \in Seq(Byte), NEW t \in Seq(Byte), NEW n \in Nat, NEW M,
         Covers(s, n, M \cup ToSet(t)), Covers(t, n, {})
  PROVE  Covers(s \o t, n, M)
  <1>1. CASE s = <<>>
    <2>1. s \o t = t
      BY <1>1, AppendOK
    <2> QED BY <2>1 DEF Covers
  <1>2. CASE s # <<>>
    <2>1. (s \o t)[1] = s[1]
      BY <1>2, BytesOf, AppendOK
    <2>2. s[1] .. n \subseteq ToSet(s) \cup (M \cup ToSet(t))
      BY <1>2 DEF Covers
    <2>3. ToSet(s \o t) = ToSet(s) \cup ToSet(t)
      BY AppendOK
    <2> QED BY <2>1, <2>2, <2>3 DEF Covers
  <1> QED BY <1>1, <1>2

\* TerminalState::feed after SharedRingBuffer::write of the same bytes.
LEMMA EndsWithWritten ==
  ASSUME NEW p \in Seq(Byte), NEW r \in Seq(Byte), NEW t \in Seq(Byte), EndsWith(p, r),
         NEW n \in Nat \ {0}
  PROVE  EndsWith(p \o t, Newest(n, r \o t))
  <1> DEFINE w == r \o t
             q == p \o t
             v == Newest(n, w)
  <1>1. /\ w \in Seq(Byte) /\ q \in Seq(Byte) /\ v \in Seq(Byte)
        /\ Len(w) = Len(r) + Len(t) /\ Len(q) = Len(p) + Len(t) /\ Len(v) <= Len(w)
        /\ Len(w) \in Nat /\ Len(q) \in Nat /\ Len(v) \in Nat /\ Len(r) \in Nat
        /\ Len(p) \in Nat /\ Len(t) \in Nat
        /\ \A i \in 1 .. Len(v) : v[i] = w[i + (Len(w) - Len(v))]
        /\ \A i \in 1 .. Len(r) : w[i] = r[i]
        /\ \A i \in 1 .. Len(p) : q[i] = p[i]
        /\ \A i \in 1 .. Len(t) : w[Len(r) + i] = t[i] /\ q[Len(p) + i] = t[i]
    BY AppendOK, NewestOK, BytesOf, ZenonT(60)
  <1>2. Len(r) <= Len(p) /\ \A i \in 1 .. Len(r) : r[i] = p[i + (Len(p) - Len(r))]
    BY DEF EndsWith
  <1> HIDE DEF w, q, v
  <1>3. ASSUME NEW i \in 1 .. Len(w) PROVE w[i] = q[i + (Len(q) - Len(w))]
    <2>1. Len(q) - Len(w) = Len(p) - Len(r)
      BY <1>1
    <2>2. CASE i <= Len(r)
      <3>1. i \in 1 .. Len(r) /\ i + (Len(p) - Len(r)) \in 1 .. Len(p)
        BY <1>1, <1>2, <2>2
      <3> QED BY <1>1, <1>2, <2>1, <3>1
    <2>3. CASE i > Len(r)
      <3>1. /\ i - Len(r) \in 1 .. Len(t) /\ i = Len(r) + (i - Len(r))
            /\ i + (Len(p) - Len(r)) = Len(p) + (i - Len(r))
        BY <1>1, <2>3
      <3>2. w[Len(r) + (i - Len(r))] = t[i - Len(r)] /\ q[Len(p) + (i - Len(r))] = t[i - Len(r)]
        BY <1>1, <3>1
      <3> QED BY <2>1, <3>1, <3>2
    <2> QED BY <1>1, <2>2, <2>3
  <1>4. ASSUME NEW i \in 1 .. Len(v) PROVE v[i] = q[i + (Len(q) - Len(v))]
    <2>1. i + (Len(w) - Len(v)) \in 1 .. Len(w)
      BY <1>1
    <2>2. (i + (Len(w) - Len(v))) + (Len(q) - Len(w)) = i + (Len(q) - Len(v))
      BY <1>1
    <2>3. w[i + (Len(w) - Len(v))] = q[(i + (Len(w) - Len(v))) + (Len(q) - Len(w))]
      BY <1>3, <2>1
    <2> QED BY <1>1, <2>2, <2>3
  <1>5. Len(v) <= Len(q)
    BY <1>1, <1>2
  <1> QED BY <1>4, <1>5 DEF EndsWith, v, w, q

\* The parser to which the ring has been replayed.
LEMMA EndsWithReplayed ==
  ASSUME NEW p \in Seq(Byte), NEW r \in Seq(Byte)
  PROVE  EndsWith(p \o r, r)
  <1>1. /\ Len(p \o r) = Len(p) + Len(r) /\ Len(p) \in Nat /\ Len(r) \in Nat
        /\ \A i \in 1 .. Len(r) : (p \o r)[Len(p) + i] = r[i]
    BY AppendOK, BytesOf
  <1>2. ASSUME NEW i \in 1 .. Len(r) PROVE i + (Len(p \o r) - Len(r)) = Len(p) + i
    BY <1>1
  <1> QED BY <1>1, <1>2 DEF EndsWith

\* EndsWith is IsSuffix of the library.
LEMMA EndsWithIsSuffix ==
  ASSUME NEW p \in Seq(Byte), NEW r \in Seq(Byte), EndsWith(p, r)
  PROVE  IsSuffix(r, p)
  <1> DEFINE a == Reverse(r)
             b == Reverse(p)
  <1>1. /\ a = [i \in 1 .. Len(r) |-> r[(Len(r) - i) + 1]]
        /\ b = [i \in 1 .. Len(p) |-> p[(Len(p) - i) + 1]]
        /\ Len(r) \in Nat /\ Len(p) \in Nat
    BY BytesOf DEF Reverse
  <1>2. Len(r) <= Len(p) /\ \A i \in 1 .. Len(r) : r[i] = p[i + (Len(p) - Len(r))]
    BY DEF EndsWith
  <1>3. a \in Seq(Byte) /\ b \in Seq(Byte) /\ Len(a) = Len(r) /\ Len(b) = Len(p)
    <2>1. \A i \in 1 .. Len(r) : (Len(r) - i) + 1 \in 1 .. Len(r)
      BY <1>1
    <2>2. \A i \in 1 .. Len(p) : (Len(p) - i) + 1 \in 1 .. Len(p)
      BY <1>1
    <2>3. /\ \A i \in 1 .. Len(r) : r[(Len(r) - i) + 1] \in Byte
          /\ \A i \in 1 .. Len(p) : p[(Len(p) - i) + 1] \in Byte
      BY <2>1, <2>2, BytesOf
    <2> HIDE DEF a, b
    <2> QED BY <1>1, <2>3
  <1>4. ASSUME NEW i \in 1 .. Len(a) PROVE a[i] = b[i]
    <2>1. (Len(r) - i) + 1 \in 1 .. Len(r) /\ i \in 1 .. Len(r) /\ i \in 1 .. Len(p)
      BY <1>1, <1>2, <1>3
    <2>2. ((Len(r) - i) + 1) + (Len(p) - Len(r)) = (Len(p) - i) + 1
      BY <1>1, <2>1
    <2>3. r[(Len(r) - i) + 1] = p[((Len(r) - i) + 1) + (Len(p) - Len(r))]
      BY <1>2, <2>1
    <2> QED BY <1>1, <2>1, <2>2, <2>3
  <1> HIDE DEF a, b
  <1>5. SubSeq(a, 1, Len(a)) = SubSeq(b, 1, Len(a))
    <2> DEFINE x == SubSeq(a, 1, Len(a))
               y == SubSeq(b, 1, Len(a))
    <2>1. /\ x \in Seq(Byte) /\ y \in Seq(Byte) /\ Len(x) = Len(a) /\ Len(y) = Len(a)
          /\ \A i \in 1 .. Len(a) : x[i] = a[i] /\ y[i] = b[i]
      BY <1>1, <1>2, <1>3
    <2> HIDE DEF x, y
    <2> QED BY <1>4, <2>1 DEF x, y
  <1> QED BY <1>1, <1>2, <1>3, <1>5 DEF IsSuffix, IsPrefix, a, b

\* A read of the master takes the next bytes of the output.
LEMMA ChunkOK ==
  ASSUME TypeOK, NEW k \in 1 .. produced - taken
  PROVE  /\ Chunk(k) \in Seq(Byte) /\ Chunk(k) # <<>> /\ Chunk(k)[1] = taken + 1
         /\ ToSet(Chunk(k)) = taken + 1 .. taken + k
         /\ InOrder(Chunk(k))
         /\ k \in Nat \ {0} /\ taken \in Nat /\ taken + k \in 0 .. produced
  <1>1. k \in Nat \ {0} /\ taken \in Nat /\ taken + k \in 0 .. produced /\ produced <= MaxBytes
    BY TerminalAssumption DEF TypeOK
  <1>2. \A i \in 1 .. k : taken + i \in Byte
    BY <1>1, TerminalAssumption DEF TypeOK, Byte
  <1>3. Chunk(k) \in Seq(Byte) /\ Len(Chunk(k)) = k /\ \A i \in 1 .. k : Chunk(k)[i] = taken + i
    BY <1>1, <1>2 DEF Chunk
  <1>4. ToSet(Chunk(k)) = {taken + i : i \in 1 .. k}
    <2>1. DOMAIN Chunk(k) = 1 .. k
      BY <1>1 DEF Chunk
    <2>2. ToSet(Chunk(k)) = {Chunk(k)[i] : i \in 1 .. k}
      BY <2>1 DEF ToSet
    <2> QED BY <1>3, <2>2
  <1>5. {taken + i : i \in 1 .. k} = taken + 1 .. taken + k
    <2>1. ASSUME NEW x \in taken + 1 .. taken + k PROVE \E i \in 1 .. k : x = taken + i
      <3>1. x - taken \in 1 .. k /\ x = taken + (x - taken)
        BY <1>1
      <3> QED BY <3>1
    <2>2. \A i \in 1 .. k : taken + i \in taken + 1 .. taken + k
      BY <1>1
    <2> QED BY <2>1, <2>2
  <1>6. InOrder(Chunk(k))
    BY <1>1, <1>3 DEF InOrder
  <1>7. Chunk(k) # <<>> /\ Chunk(k)[1] = taken + 1
    BY <1>1, <1>3
  <1>8. ToSet(Chunk(k)) = taken + 1 .. taken + k
    BY <1>4, <1>5
  <1> QED BY <1>1, <1>3, <1>6, <1>7, <1>8

-----------------------------------------------------------------------------
(* What a step leaves alone *)

\* The bytes in the ring and on their way to it, and the parser.
LEMMA BytesKept ==
  ASSUME NoByteLost, Ring,
         UNCHANGED <<taken, ring, hand, buf, parser, stored, lost, overlapped, mixed, own>>
  PROVE  NoByteLost' /\ Ring'
  BY DEF NoByteLost, Ring, Pending

\* The stream of the WS client.
LEMMA StreamKept ==
  ASSUME Stream, UNCHANGED <<ws, reply, view, taken, buf, gap>>, lost \subseteq lost',
         mixed => mixed'
  PROVE  Stream'
  <1>1. gap \cup lost \subseteq gap \cup lost'
    OBVIOUS
  <1>2. /\ Streamed(reply, taken, buf, gap \cup lost)
        /\ Streamed(view, taken, buf, gap \cup lost)
    BY DEF Stream
  <1>3. Streamed(reply, taken, buf, gap \cup lost)' /\ Streamed(view, taken, buf, gap \cup lost)'
    <2>1. \A s : Covers(s, taken, (gap \cup lost) \cup ToSet(buf))
                   => Covers(s, taken, (gap \cup lost') \cup ToSet(buf))
      BY DEF Covers
    <2> QED BY <1>2, <2>1 DEF Streamed
  <1> QED BY <1>3 DEF Stream

\* SharedRingBuffer::write of bytes that are not in the ring.
LEMMA WritesAloneOK ==
  ASSUME TypeOK, Ring, NEW t \in Seq(Byte), t # <<>>, InOrder(t),
         ToSet(ring) \cap ToSet(t) = {}, WritesAlone(t), NEW n \in Nat, NEW M
  PROVE  /\ ring' \in Seq(Byte) /\ Len(ring') <= Cap /\ ring' # <<>>
         /\ ToSet(ring') \subseteq ToSet(ring) \cup ToSet(t)
         /\ ToSet(ring') \subseteq stored' \cup {Garbage}
         /\ stored' = stored \cup ToSet(t) /\ stored' \subseteq Byte
         /\ overlapped' = overlapped
         /\ Distinct(ring')
         /\ InOrder(ring \o t) => InOrder(ring')
         /\ InOrder(ring \o t) /\ Covers(ring \o t, n, M) => Covers(ring', n, M)
         /\ EndsWith(parser, ring) => EndsWith(parser \o t, ring')
  <1>1. ring \in Seq(Byte) /\ parser \in Seq(Byte) /\ Cap \in Nat \ {0} /\ stored \subseteq Byte
    BY TerminalAssumption DEF TypeOK
  <1>2. ring' = Newest(Cap, ring \o t) /\ stored' = stored \cup ToSet(t) /\ overlapped' = overlapped
    BY DEF WritesAlone
  <1>3. ring \o t \in Seq(Byte) /\ ToSet(ring \o t) = ToSet(ring) \cup ToSet(t)
    BY <1>1, AppendOK
  <1>4. ring \o t # <<>>
    <2>1. Len(ring \o t) # 0
      BY <1>1
    <2> QED BY <2>1
  <1>5. Distinct(ring \o t)
    BY <1>1, DistinctAppend DEF Ring
  <1>6. /\ ring' \in Seq(Byte) /\ Len(ring') <= Cap /\ ring' # <<>>
        /\ ToSet(ring') \subseteq ToSet(ring \o t)
    BY <1>1, <1>2, <1>3, <1>4, NewestOK
  <1>7. /\ Distinct(ring')
        /\ InOrder(ring \o t) => InOrder(ring')
        /\ InOrder(ring \o t) /\ Covers(ring \o t, n, M) => Covers(ring', n, M)
    BY <1>1, <1>2, <1>3, <1>5, NewestKeeps
  <1>8. EndsWith(parser, ring) => EndsWith(parser \o t, ring')
    BY <1>1, <1>2, EndsWithWritten
  <1>9. ToSet(ring) \subseteq stored \cup {Garbage} /\ ToSet(t) \subseteq Byte
    BY BytesOf DEF Ring
  <1> QED BY <1>1, <1>2, <1>3, <1>6, <1>7, <1>8, <1>9

\* A write that overlapped another.
LEMMA WritesOverOK ==
  ASSUME TypeOK, NEW t \in Seq(Byte), WritesOver(t)
  PROVE  /\ ring' \in Seq(Byte) /\ Len(ring') <= Cap /\ ring' # <<>>
         /\ ToSet(ring') = {Garbage} /\ Distinct(ring')
         /\ stored' = stored /\ overlapped' = overlapped \cup ToSet(t)
         /\ overlapped' \subseteq Byte
  <1>1. PICK n \in 1 .. Cap : ring' = [i \in 1 .. n |-> Garbage]
    BY DEF WritesOver
  <1>2. n \in Nat \ {0} /\ n <= Cap /\ Garbage \in Byte
    BY TerminalAssumption DEF Garbage, Byte
  <1>3. ring' \in Seq(Byte) /\ Len(ring') = n /\ \A i \in 1 .. n : ring'[i] = Garbage
    BY <1>1, <1>2
  <1>4. ToSet(ring') = {Garbage} /\ Distinct(ring') /\ ring' # <<>>
    BY <1>2, <1>3 DEF ToSet, Distinct
  <1>5. ToSet(t) \subseteq Byte
    BY BytesOf
  <1> QED BY <1>2, <1>3, <1>4, <1>5 DEF WritesOver, TypeOK

\* A copy of ETerm's that reaches the ring before it is published.
LEMMA OverwrittenOK ==
  ASSUME TypeOK, Ring, NEW K \in SUBSET Reached
  PROVE  LET r == Overwritten(K)
         IN  /\ r \in Seq(Byte) /\ Len(r) = Len(ring)
             /\ r = <<>> <=> ring = <<>>
             /\ ToSet(r) \subseteq ToSet(ring) \cup {Garbage}
             /\ Distinct(r)
             /\ K = {} => r = ring
  <1> DEFINE r == Overwritten(K)
  <1>1. ring \in Seq(Byte) /\ Len(ring) \in Nat /\ DOMAIN ring = 1 .. Len(ring)
    BY BytesOf DEF TypeOK
  <1>2. Garbage \in Byte
    BY TerminalAssumption DEF Garbage, Byte
  <1>3. r = [i \in 1 .. Len(ring) |-> IF i \in K THEN Garbage ELSE ring[i]]
    BY <1>1 DEF Overwritten
  <1> HIDE DEF r
  <1>4. \A i \in 1 .. Len(ring) : r[i] \in {Garbage, ring[i]} /\ r[i] \in Byte
    BY <1>1, <1>2, <1>3
  <1>5. r \in Seq(Byte) /\ Len(r) = Len(ring)
    BY <1>1, <1>3, <1>4
  <1>6. r = <<>> <=> ring = <<>>
    BY <1>1, <1>5
  <1>7. ToSet(r) \subseteq ToSet(ring) \cup {Garbage}
    BY <1>1, <1>4, <1>5 DEF ToSet
  <1>8. Distinct(r)
    BY <1>1, <1>4, <1>5 DEF Distinct, Ring
  <1>9. K = {} => r = ring
    BY <1>1, <1>3
  <1> QED BY <1>5, <1>6, <1>7, <1>8, <1>9 DEF r

\* The bytes read now are none of those that were read before.
LEMMA ReadBytes ==
  ASSUME TypeOK, NoByteLost, Ring
  PROVE  /\ stored \subseteq 1 .. taken /\ lost \subseteq 1 .. taken
         /\ overlapped \subseteq 1 .. taken
         /\ ToSet(hand) \subseteq 1 .. taken /\ ToSet(buf) \subseteq 1 .. taken
         /\ ToSet(ring) \subseteq 0 .. taken
         /\ taken \in Nat
         /\ Garbage \notin 1 .. taken
  <1>1. taken \in Nat
    BY TerminalAssumption DEF TypeOK
  <1>2. /\ stored \subseteq 1 .. taken /\ lost \subseteq 1 .. taken
        /\ overlapped \subseteq 1 .. taken
        /\ ToSet(hand) \subseteq 1 .. taken /\ ToSet(buf) \subseteq 1 .. taken
    BY DEF NoByteLost
  <1>3. 1 .. taken \subseteq 0 .. taken /\ 0 \in 0 .. taken /\ 0 \notin 1 .. taken
    BY <1>1
  <1>4. ToSet(ring) \subseteq 0 .. taken
    BY <1>2, <1>3 DEF Ring, Garbage
  <1> QED BY <1>1, <1>2, <1>3, <1>4 DEF Garbage

\* TerminalState::capture_snapshot and the snapshot ETerm sends are well typed.
LEMMA SnapshotOK ==
  ASSUME TypeOK
  PROVE  Captured \in Snapshot /\ EtermSnapshot \in Snapshot /\ None \in Snapshot
  <1>1. ToSet(parser) \subseteq Byte
    BY BytesOf DEF TypeOK
  <1>2. 1 .. taken \subseteq Byte
    BY TerminalAssumption DEF TypeOK, Byte
  <1> QED BY <1>1, <1>2 DEF Captured, EtermSnapshot, Some, None, Snapshot

-----------------------------------------------------------------------------
(* The actions *)

\* handle_session_output reads the master.
LEMMA ReadOutputOK ==
  ASSUME IInv, NEW k \in Byte, ReadOutput(k)
  PROVE  IInv'
  <1> DEFINE c == Chunk(k)
  <1>1. /\ buf = <<>> /\ ~Attached /\ event' = FALSE /\ taken' = taken + k /\ buf' = c
        /\ k \in 1 .. produced - taken
        /\ mixed' = (mixed \/ (~Attached /\ (dup \/ hand # <<>>)))
        /\ UNCHANGED <<session, produced, race, seq, ring, parser, grid, file, eterm, dup, hand,
                       starts, ws, reply, view, stored, lost, overlapped, gap, own>>
    BY DEF ReadOutput, Free, MayRead, dataVars, etermVars, wsVars
  <1>2. /\ c \in Seq(Byte) /\ c # <<>> /\ c[1] = taken + 1
        /\ ToSet(c) = taken + 1 .. taken + k /\ InOrder(c)
        /\ k \in Nat \ {0} /\ taken \in Nat /\ taken + k \in 0 .. produced
    BY <1>1, ChunkOK DEF IInv
  <1>3. /\ ToSet(hand) \subseteq 1 .. taken /\ ToSet(ring) \subseteq 0 .. taken
    BY ReadBytes DEF IInv
  <1> HIDE DEF c
  <1>4. /\ \A x \in 0 .. taken, y \in ToSet(c) : x < y
        /\ 0 .. taken \cap ToSet(c) = {}
        /\ 1 .. taken + k = 1 .. taken \cup ToSet(c)
    BY <1>2
  <1>5. /\ ring \in Seq(Byte) /\ hand \in Seq(Byte)
        /\ reply \in Seq(Byte) /\ view \in Seq(Byte)
    BY DEF IInv, TypeOK
  <1>6. ToSet(buf) = {} /\ ToSet(<<>>) = {}
    BY <1>1, <1>2, EmptyOK
  <1>7. mixed' => mixed \/ dup \/ hand # <<>>
    BY <1>1
  <1>8. TypeOK'
    <2>1. taken' \in 0 .. produced' /\ event' \in BOOLEAN /\ mixed' \in BOOLEAN
      BY <1>1, <1>2
    <2>2. TypeOK
      BY DEF IInv
    <2> QED BY <1>1, <1>2, <2>1, <2>2 DEF TypeOK
  <1>9. NoByteLost'
    <2>1. ~mixed' => overlapped = {}
      BY <1>1 DEF IInv, NoByteLost
    <2> QED BY <1>1, <1>4, <1>6, <2>1 DEF IInv, NoByteLost
  <1>10. Reader'
    <2>1. race # "daemon"
      BY <1>1 DEF IInv, Reader, Attached
    <2> QED BY <1>1, <2>1 DEF IInv, Reader, Attached
  <1>11. Ring'
    <2>1. ToSet(ring) \cap ToSet(c) = {} /\ ToSet(hand) \cap ToSet(c) = {}
      BY <1>3, <1>4
    <2>2. ASSUME ~mixed'
          PROVE  /\ hand = <<>> /\ InOrder(ring \o c) /\ Covers(ring \o c, taken + k, lost)
                 /\ Covers(c, taken + k, {})
      <3>1. hand = <<>> /\ ~mixed
        BY <1>1, <2>2
      <3>2. InOrder(ring) /\ Covers(ring, taken, lost)
        BY <1>1, <1>5, <3>1, AppendOK DEF IInv, Ring, Pending
      <3>3. InOrder(ring \o c)
        BY <1>2, <1>3, <1>4, <1>5, <3>2, InOrderAppend
      <3>4. Covers(ring \o c, taken + k, lost)
        BY <1>2, <1>5, <3>2, CoversAppend
      <3>5. Covers(c, taken + k, {})
        BY <1>2 DEF Covers
      <3> QED BY <3>1, <3>3, <3>4, <3>5
    <2>3. Pending' = c
      BY <1>1, <1>2 DEF Pending
    <2>4. /\ ring = <<>> => stored = {} /\ parser = <<>>
          /\ ToSet(ring) \subseteq stored \cup {Garbage}
          /\ InOrder(hand) /\ Distinct(ring) /\ ToSet(ring) \cap ToSet(hand) = {}
          /\ own => EndsWith(parser, ring)
      BY DEF IInv, Ring
    <2> QED BY <1>1, <1>2, <2>1, <2>2, <2>3, <2>4 DEF Ring
  <1>12. Stream'
    <2>1. ASSUME NEW s \in Seq(Byte), Streamed(s, taken, buf, gap \cup lost)
          PROVE  /\ ToSet(s) \subseteq 0 .. taken + k /\ Distinct(s)
                 /\ ToSet(s) \cap ToSet(c) = {}
                 /\ ~mixed' => /\ InOrder(s) /\ Covers(s, taken + k, (gap \cup lost) \cup ToSet(c))
                               /\ \A x \in ToSet(s), y \in ToSet(c) : x < y
      <3>1. ToSet(s) \subseteq 0 .. taken /\ Distinct(s)
        BY <2>1 DEF Streamed
      <3>2. 0 .. taken \subseteq 0 .. taken + k
        BY <1>2
      <3>3. ASSUME ~mixed' PROVE InOrder(s) /\ Covers(s, taken + k, (gap \cup lost) \cup ToSet(c))
        <4>1. ~mixed
          BY <1>1, <3>3
        <4>2. InOrder(s) /\ Covers(s, taken, gap \cup lost)
          BY <1>6, <2>1, <4>1 DEF Streamed
        <4> QED BY <1>2, <4>2, CoversMore
      <3> QED BY <1>4, <3>1, <3>2, <3>3
    <2>2. /\ Streamed(reply, taken, buf, gap \cup lost) /\ Streamed(view, taken, buf, gap \cup lost)
          /\ (ws # "await" => reply = <<>>) /\ (ws # "on" => view = <<>>)
      BY DEF IInv, Stream
    <2>3. Streamed(reply, taken, buf, gap \cup lost)'
      BY <1>1, <1>5, <2>1, <2>2 DEF Streamed
    <2>4. Streamed(view, taken, buf, gap \cup lost)'
      BY <1>1, <1>5, <2>1, <2>2 DEF Streamed
    <2> QED BY <1>1, <2>2, <2>3, <2>4 DEF Stream
  <1> QED BY <1>8, <1>9, <1>10, <1>11, <1>12 DEF IInv

\* The two ways a write can end, whoever writes.
LEMMA RingWritesOK ==
  ASSUME IInv, NEW w \in {"eterm", "daemon"}, NEW bytes, NEW theirs,
         RingWrites(w, bytes, theirs),
         w = "eterm" => bytes = hand /\ theirs = buf,
         w = "daemon" => bytes = buf /\ theirs = hand, bytes # <<>>
  PROVE  /\ race' \in {"no", Other(w)}
         /\ race' = Other(w) => theirs # <<>> /\ mixed
         /\ \/ WritesAlone(bytes)
            \/ WritesOver(bytes) /\ mixed /\ (w = "daemon" => ~own)
  <1>1. /\ \/ race' = Other(w) /\ theirs # <<>>
           \/ race' = "no" /\ race # Other(w)
        /\ IF race = w \/ race' = Other(w) THEN WritesOver(bytes) ELSE WritesAlone(bytes)
    BY DEF RingWrites
  <1>2. Other(w) # "no" /\ w # "no"
    BY DEF Other
  <1>3. theirs # <<>> => mixed
    BY DEF IInv, Ring
  <1>4. race = w => mixed
    BY <1>2 DEF IInv, Reader, Attached
  <1>5. w = "daemon" /\ (race = w \/ theirs # <<>>) => ~own
    BY DEF IInv, Reader, Attached
  <1>6. CASE race = w \/ race' = Other(w)
    <2>1. race' = Other(w) => theirs # <<>>
      BY <1>1, <1>2
    <2> QED BY <1>1, <1>2, <1>3, <1>4, <1>5, <1>6, <2>1
  <1>7. CASE ~(race = w \/ race' = Other(w))
    BY <1>1, <1>7
  <1> QED BY <1>6, <1>7

\* The rest of handle_session_output.
LEMMA HandleOutputOK ==
  ASSUME IInv, HandleOutput
  PROVE  IInv'
  <1>1. /\ buf # <<>> /\ RingWrites("daemon", buf, hand) /\ buf' = <<>>
        /\ parser' = parser \o buf
        /\ view' = IF ws = "on" THEN view \o buf ELSE view
        /\ gap' = IF ws = "await" THEN gap \cup ToSet(buf) ELSE gap
        /\ UNCHANGED <<session, produced, taken, event, seq, grid, file, eterm, dup, hand, starts,
                       ws, reply, lost, mixed, own>>
    BY DEF HandleOutput, Fed, kernelVars, etermVars
  <1>2. /\ ring \in Seq(Byte) /\ parser \in Seq(Byte) /\ hand \in Seq(Byte) /\ buf \in Seq(Byte)
        /\ reply \in Seq(Byte) /\ view \in Seq(Byte) /\ taken \in Nat
    BY TerminalAssumption DEF IInv, TypeOK
  <1>3. /\ race' \in {"no", "eterm"}
        /\ race' = "eterm" => hand # <<>> /\ mixed
        /\ WritesAlone(buf) \/ (WritesOver(buf) /\ mixed /\ ~own)
    <2>1. Other("daemon") = "eterm"
      BY DEF Other
    <2> QED BY <1>1, <2>1, RingWritesOK
  <1>4. /\ InOrder(hand) /\ InOrder(buf) /\ ToSet(ring) \cap ToSet(buf) = {}
        /\ ToSet(ring) \cap ToSet(hand) = {} /\ ToSet(hand) \cap ToSet(buf) = {}
        /\ ~mixed => /\ hand = <<>> /\ InOrder(ring \o buf) /\ Covers(ring \o buf, taken, lost)
                     /\ Covers(buf, taken, {})
    BY <1>1 DEF IInv, Ring, Pending
  <1>5. /\ <<>> \in Seq(Byte) /\ ToSet(<<>>) = {} /\ InOrder(<<>>) /\ Covers(<<>>, taken, {})
    BY <1>2, EmptyOK
  <1>6. /\ ring' \in Seq(Byte) /\ Len(ring') <= Cap /\ ring' # <<>>
        /\ ToSet(ring') \subseteq stored' \cup {Garbage}
        /\ Distinct(ring')
        /\ stored' \subseteq Byte /\ overlapped' \subseteq Byte
        /\ stored' \cup overlapped' = stored \cup overlapped \cup ToSet(buf)
        /\ ~mixed => /\ overlapped' = overlapped
                     /\ InOrder(ring') /\ Covers(ring', taken, lost)
        /\ own => EndsWith(parser \o buf, ring')
        /\ ToSet(ring') \subseteq ToSet(ring) \cup ToSet(buf) \cup {Garbage}
    <2>0. TypeOK /\ Ring /\ stored \subseteq Byte /\ overlapped \subseteq Byte
      BY DEF IInv, TypeOK
    <2>1. CASE WritesAlone(buf)
      <3>1. /\ ring' \in Seq(Byte) /\ Len(ring') <= Cap /\ ring' # <<>>
            /\ ToSet(ring') \subseteq ToSet(ring) \cup ToSet(buf)
            /\ ToSet(ring') \subseteq stored' \cup {Garbage}
            /\ stored' = stored \cup ToSet(buf) /\ stored' \subseteq Byte
            /\ overlapped' = overlapped
            /\ Distinct(ring')
            /\ InOrder(ring \o buf) => InOrder(ring')
            /\ InOrder(ring \o buf) /\ Covers(ring \o buf, taken, lost) => Covers(ring', taken, lost)
            /\ EndsWith(parser, ring) => EndsWith(parser \o buf, ring')
        BY <1>1, <1>2, <1>4, <2>0, <2>1, WritesAloneOK
      <3>2. own => EndsWith(parser, ring)
        BY <2>0 DEF Ring
      <3>3. stored' \cup overlapped' = stored \cup overlapped \cup ToSet(buf)
        BY <3>1
      <3> QED BY <1>4, <2>0, <3>1, <3>2, <3>3
    <2>2. CASE WritesOver(buf) /\ mixed /\ ~own
      <3>1. /\ ring' \in Seq(Byte) /\ Len(ring') <= Cap /\ ring' # <<>>
            /\ ToSet(ring') = {Garbage} /\ Distinct(ring')
            /\ stored' = stored /\ overlapped' = overlapped \cup ToSet(buf)
            /\ overlapped' \subseteq Byte
        BY <1>2, <2>0, <2>2, WritesOverOK
      <3> QED BY <2>0, <2>2, <3>1
    <2> QED BY <1>3, <2>1, <2>2
  <1>7. TypeOK'
    <2>1. parser' \in Seq(Byte) /\ view' \in Seq(Byte)
      BY <1>1, <1>2, AppendOK
    <2>2. gap' \subseteq Byte
      BY <1>1, <1>2, BytesOf DEF IInv, TypeOK
    <2>3. race' \in {"no", "eterm", "daemon"}
      BY <1>3
    <2>4. TypeOK
      BY DEF IInv
    <2> QED BY <1>1, <1>5, <1>6, <2>1, <2>2, <2>3, <2>4 DEF TypeOK
  <1>8. NoByteLost'
    <2>1. 1 .. taken = stored' \cup ToSet(hand) \cup ToSet(<<>>) \cup lost \cup overlapped'
      BY <1>5, <1>6 DEF IInv, NoByteLost
    <2>2. ~mixed => overlapped' = {}
      BY <1>6 DEF IInv, NoByteLost
    <2> QED BY <1>1, <2>1, <2>2 DEF NoByteLost
  <1>9. Reader'
    BY <1>1, <1>3 DEF IInv, Reader, Attached
  <1>10. Ring'
    <2>1. ToSet(ring') \cap ToSet(hand) = {}
      <3>1. Garbage \notin ToSet(hand) /\ Garbage \notin ToSet(buf)
        BY ReadBytes DEF IInv
      <3>2. CASE WritesAlone(buf)
        <4>1. ToSet(ring') \subseteq ToSet(ring) \cup ToSet(buf) \cup {Garbage}
          BY <1>6
        <4> QED BY <1>4, <3>1, <4>1
      <3>3. CASE WritesOver(buf)
        <4>1. ToSet(ring') = {Garbage}
          BY <1>2, <3>3, WritesOverOK DEF IInv
        <4> QED BY <3>1, <4>1
      <3> QED BY <1>3, <3>2, <3>3
    <2>2. ASSUME ~mixed
          PROVE  hand = <<>> /\ InOrder(ring' \o <<>>) /\ Covers(ring' \o <<>>, taken, lost)
      <3>1. ring' \o <<>> = ring'
        BY <1>6, AppendOK, <1>5
      <3> QED BY <1>4, <1>6, <2>2, <3>1
    <2>3. Pending' = hand
      BY <1>1 DEF Pending
    <2> QED BY <1>1, <1>4, <1>5, <1>6, <2>1, <2>2, <2>3 DEF Ring
  <1>11. Stream'
    <2>1. /\ Streamed(reply, taken, buf, gap \cup lost) /\ Streamed(view, taken, buf, gap \cup lost)
          /\ (ws # "await" => reply = <<>>) /\ (ws # "on" => view = <<>>)
      BY DEF IInv, Stream
    <2>2. ASSUME NEW s \in Seq(Byte), NEW M, ToSet(s) \subseteq 0 .. taken, Distinct(s),
                 ~mixed => InOrder(s) /\ Covers(s, taken, M)
          PROVE  /\ ToSet(s) \subseteq 0 .. taken' /\ Distinct(s) /\ ToSet(s) \cap ToSet(buf') = {}
                 /\ ~mixed' => /\ InOrder(s) /\ Covers(s, taken', M \cup ToSet(buf'))
                               /\ \A x \in ToSet(s), y \in ToSet(buf') : x < y
      <3>1. ToSet(buf') = {} /\ M \cup ToSet(buf') = M
        BY <1>1, <1>5
      <3> QED BY <1>1, <2>2, <3>1
    <2>3. Streamed(reply, taken, buf, gap \cup lost)'
      <3>1. CASE ws = "await"
        <4>1. gap' \cup lost = (gap \cup lost) \cup ToSet(buf) /\ lost' = lost
          BY <1>1, <3>1
        <4>2. /\ ToSet(reply) \subseteq 0 .. taken /\ Distinct(reply)
              /\ ~mixed => InOrder(reply) /\ Covers(reply, taken, gap' \cup lost)
          BY <2>1, <4>1 DEF Streamed
        <4> QED BY <1>1, <1>2, <2>2, <4>1, <4>2 DEF Streamed
      <3>2. CASE ws # "await"
        <4>1. reply = <<>> /\ reply' = <<>>
          BY <1>1, <2>1, <3>2
        <4>2. /\ ToSet(<<>>) \subseteq 0 .. taken /\ Distinct(<<>>)
              /\ InOrder(<<>>) /\ Covers(<<>>, taken, gap' \cup lost')
          BY <1>2, EmptyOK
        <4> QED BY <1>5, <2>2, <4>1, <4>2 DEF Streamed
      <3> QED BY <3>1, <3>2
    <2>4. Streamed(view, taken, buf, gap \cup lost)'
      <3>1. CASE ws = "on"
        <4>1. view' = view \o buf /\ gap' \cup lost' = gap \cup lost /\ view \o buf \in Seq(Byte)
          BY <1>1, <1>2, <3>1, AppendOK
        <4>2. /\ ToSet(view) \subseteq 0 .. taken /\ Distinct(view)
              /\ ToSet(view) \cap ToSet(buf) = {}
              /\ ~mixed => /\ InOrder(view) /\ Covers(view, taken, (gap \cup lost) \cup ToSet(buf))
                           /\ \A x \in ToSet(view), y \in ToSet(buf) : x < y
          BY <2>1 DEF Streamed
        <4>3. ToSet(view \o buf) \subseteq 0 .. taken
          <5>1. ToSet(buf) \subseteq 1 .. taken /\ 1 .. taken \subseteq 0 .. taken
            BY ReadBytes DEF IInv
          <5> QED BY <1>2, <4>2, <5>1, AppendOK
        <4>4. Distinct(view \o buf)
          BY <1>2, <1>4, <4>2, DistinctAppend
        <4>5. ASSUME ~mixed PROVE InOrder(view \o buf) /\ Covers(view \o buf, taken, gap \cup lost)
          <5>1. InOrder(view \o buf)
            BY <1>2, <1>4, <4>2, <4>5, InOrderAppend
          <5>2. Covers(view \o buf, taken, gap \cup lost)
            BY <1>2, <1>4, <4>2, <4>5, CoversJoined
          <5> QED BY <5>1, <5>2
        <4> QED BY <2>2, <4>1, <4>3, <4>4, <4>5 DEF Streamed
      <3>2. CASE ws # "on"
        <4>1. view = <<>> /\ view' = <<>>
          BY <1>1, <2>1, <3>2
        <4>2. /\ ToSet(<<>>) \subseteq 0 .. taken /\ Distinct(<<>>)
              /\ InOrder(<<>>) /\ Covers(<<>>, taken, gap' \cup lost')
          BY <1>2, EmptyOK
        <4> QED BY <1>5, <2>2, <4>1, <4>2 DEF Streamed
      <3> QED BY <3>1, <3>2
    <2> QED BY <1>1, <2>1, <2>3, <2>4 DEF Stream
  <1> QED BY <1>7, <1>8, <1>9, <1>10, <1>11 DEF IInv

\* ETerm reads its dup.
LEMMA EtermReadsOK ==
  ASSUME IInv, NEW k \in Byte, EtermReads(k)
  PROVE  IInv'
  <1> DEFINE c == Chunk(k)
  <1>1. /\ dup /\ hand = <<>> /\ k \in 1 .. produced - taken
        /\ hand' = c /\ taken' = taken + k /\ own' = FALSE
        /\ gap' = IF ws # "off" THEN gap \cup ToSet(c) ELSE gap
        /\ mixed' = (mixed \/ ~Attached)
        /\ UNCHANGED <<session, produced, event, buf, race, seq, ring, parser, grid, file, eterm,
                       dup, starts, ws, reply, view, stored, lost, overlapped>>
    BY DEF EtermReads, ringVars, dataVars, wsVars
  <1>2. /\ c \in Seq(Byte) /\ c # <<>> /\ c[1] = taken + 1
        /\ ToSet(c) = taken + 1 .. taken + k /\ InOrder(c)
        /\ k \in Nat \ {0} /\ taken \in Nat /\ taken + k \in 0 .. produced
    BY <1>1, ChunkOK DEF IInv
  <1>3. ToSet(buf) \subseteq 1 .. taken /\ ToSet(ring) \subseteq 0 .. taken
    BY ReadBytes DEF IInv
  <1> HIDE DEF c
  <1>4. /\ \A x \in 0 .. taken, y \in ToSet(c) : x < y
        /\ 0 .. taken \cap ToSet(c) = {} /\ 1 .. taken \subseteq 0 .. taken
        /\ 1 .. taken + k = 1 .. taken \cup ToSet(c)
        /\ 0 .. taken \subseteq 0 .. taken + k
    BY <1>2
  <1>5. /\ ring \in Seq(Byte) /\ reply \in Seq(Byte) /\ view \in Seq(Byte)
    BY DEF IInv, TypeOK
  <1>6. ~mixed' => ~mixed /\ buf = <<>> /\ ToSet(buf) = {}
    BY <1>1, <1>2, EmptyOK DEF IInv, Reader, Attached
  <1>7. TypeOK'
    <2>1. gap' \subseteq Byte
      BY <1>1, <1>2, BytesOf DEF IInv, TypeOK
    <2>2. taken' \in 0 .. produced'
      BY <1>1, <1>2
    <2>3. mixed' \in BOOLEAN /\ own' \in BOOLEAN
      BY <1>1
    <2>4. TypeOK
      BY DEF IInv
    <2> QED BY <1>1, <1>2, <2>1, <2>2, <2>3, <2>4 DEF TypeOK
  <1>8. NoByteLost'
    <2>1. ToSet(hand) = {}
      BY <1>1, <1>2, EmptyOK
    <2>2. ~mixed' => overlapped = {}
      BY <1>1 DEF IInv, NoByteLost
    <2> QED BY <1>1, <1>4, <2>1, <2>2 DEF IInv, NoByteLost
  <1>9. Reader'
    BY <1>1, <1>2 DEF IInv, Reader, Attached
  <1>10. Ring'
    <2>1. ToSet(ring) \cap ToSet(c) = {} /\ ToSet(c) \cap ToSet(buf) = {}
      BY <1>3, <1>4
    <2>2. ASSUME ~mixed'
          PROVE  /\ buf = <<>> /\ InOrder(ring \o c) /\ Covers(ring \o c, taken + k, lost)
                 /\ Covers(buf, taken + k, {})
      <3>1. InOrder(ring) /\ Covers(ring, taken, lost)
        BY <1>1, <1>5, <1>6, <2>2, AppendOK DEF IInv, Ring, Pending
      <3>2. InOrder(ring \o c)
        BY <1>2, <1>3, <1>4, <1>5, <3>1, InOrderAppend
      <3>3. Covers(ring \o c, taken + k, lost)
        BY <1>2, <1>5, <3>1, CoversAppend
      <3> QED BY <1>6, <2>2, <3>2, <3>3 DEF Covers
    <2>3. ~mixed' => Pending' = c
      BY <1>1, <1>6 DEF Pending
    <2>4. /\ ring = <<>> => stored = {} /\ parser = <<>>
          /\ ToSet(ring) \subseteq stored \cup {Garbage}
          /\ InOrder(buf) /\ Distinct(ring) /\ ToSet(ring) \cap ToSet(buf) = {}
      BY DEF IInv, Ring
    <2> QED BY <1>1, <1>2, <2>1, <2>2, <2>3, <2>4 DEF Ring
  <1>11. Stream'
    <2>1. /\ Streamed(reply, taken, buf, gap \cup lost) /\ Streamed(view, taken, buf, gap \cup lost)
          /\ (ws # "await" => reply = <<>>) /\ (ws # "on" => view = <<>>)
      BY DEF IInv, Stream
    <2>2. ASSUME NEW s \in Seq(Byte), Streamed(s, taken, buf, gap \cup lost),
                 ws = "off" => s = <<>>
          PROVE  /\ ToSet(s) \subseteq 0 .. taken + k /\ Distinct(s)
                 /\ ToSet(s) \cap ToSet(buf) = {}
                 /\ ~mixed' => /\ InOrder(s)
                               /\ Covers(s, taken + k, (gap' \cup lost) \cup ToSet(buf))
                               /\ \A x \in ToSet(s), y \in ToSet(buf) : x < y
      <3>1. ToSet(s) \subseteq 0 .. taken + k /\ Distinct(s) /\ ToSet(s) \cap ToSet(buf) = {}
        BY <1>4, <2>2 DEF Streamed
      <3>2. ASSUME ~mixed' PROVE InOrder(s) /\ Covers(s, taken + k, (gap' \cup lost) \cup ToSet(buf))
        <4>1. InOrder(s) /\ Covers(s, taken, gap \cup lost)
          BY <1>6, <2>2, <3>2 DEF Streamed
        <4>2. CASE ws # "off"
          <5>1. gap' = gap \cup ToSet(c)
            BY <1>1, <4>2
          <5> QED BY <1>2, <4>1, <5>1, CoversMore
        <4>3. CASE ws = "off"
          BY <1>2, <2>2, <4>3, EmptyOK DEF Covers
        <4> QED BY <4>1, <4>2, <4>3
      <3> QED BY <1>6, <3>1, <3>2
    <2>3. Streamed(reply, taken, buf, gap \cup lost)'
      BY <1>1, <1>5, <2>1, <2>2 DEF Streamed
    <2>4. Streamed(view, taken, buf, gap \cup lost)'
      BY <1>1, <1>5, <2>1, <2>2 DEF Streamed
    <2> QED BY <1>1, <2>1, <2>3, <2>4 DEF Stream
  <1> QED BY <1>7, <1>8, <1>9, <1>10, <1>11 DEF IInv

\* ETerm writes what it has read into the ring.
LEMMA EtermWritesOK ==
  ASSUME IInv, EtermWrites
  PROVE  IInv'
  <1>1. /\ hand # <<>> /\ RingWrites("eterm", hand, buf) /\ hand' = <<>>
        /\ UNCHANGED <<session, produced, taken, event, buf, seq, parser, grid, file, eterm, dup,
                       starts, ws, reply, view, lost, mixed, gap, own>>
    BY DEF EtermWrites, kernelVars, wsVars
  <1>2. /\ ring \in Seq(Byte) /\ hand \in Seq(Byte) /\ buf \in Seq(Byte) /\ taken \in Nat
    BY TerminalAssumption DEF IInv, TypeOK
  <1>3. /\ race' \in {"no", "daemon"}
        /\ race' = "daemon" => buf # <<>> /\ mixed
        /\ WritesAlone(hand) \/ (WritesOver(hand) /\ mixed)
    <2>1. Other("eterm") = "daemon"
      BY DEF Other
    <2> QED BY <1>1, <2>1, RingWritesOK
  <1>4. /\ InOrder(hand) /\ InOrder(buf) /\ ToSet(ring) \cap ToSet(hand) = {}
        /\ ToSet(ring) \cap ToSet(buf) = {} /\ ToSet(hand) \cap ToSet(buf) = {}
        /\ ~mixed => /\ buf = <<>> /\ InOrder(ring \o hand) /\ Covers(ring \o hand, taken, lost)
                     /\ Covers(buf, taken, {})
    BY <1>1 DEF IInv, Ring, Pending
  <1>5. ~own
    BY <1>1 DEF IInv, Reader, Attached
  <1>6. /\ ring' \in Seq(Byte) /\ Len(ring') <= Cap /\ ring' # <<>>
        /\ ToSet(ring') \subseteq stored' \cup {Garbage}
        /\ Distinct(ring')
        /\ stored' \subseteq Byte /\ overlapped' \subseteq Byte
        /\ stored' \cup overlapped' = stored \cup overlapped \cup ToSet(hand)
        /\ ~mixed => /\ overlapped' = overlapped
                     /\ InOrder(ring') /\ Covers(ring', taken, lost)
        /\ ToSet(ring') \subseteq ToSet(ring) \cup ToSet(hand) \cup {Garbage}
    <2>0. TypeOK /\ Ring /\ stored \subseteq Byte /\ overlapped \subseteq Byte
      BY DEF IInv, TypeOK
    <2>1. CASE WritesAlone(hand)
      <3>1. /\ ring' \in Seq(Byte) /\ Len(ring') <= Cap /\ ring' # <<>>
            /\ ToSet(ring') \subseteq ToSet(ring) \cup ToSet(hand)
            /\ ToSet(ring') \subseteq stored' \cup {Garbage}
            /\ stored' = stored \cup ToSet(hand) /\ stored' \subseteq Byte
            /\ overlapped' = overlapped
            /\ Distinct(ring')
            /\ InOrder(ring \o hand) => InOrder(ring')
            /\ InOrder(ring \o hand) /\ Covers(ring \o hand, taken, lost)
                 => Covers(ring', taken, lost)
        BY <1>1, <1>2, <1>4, <2>0, <2>1, WritesAloneOK
      <3>2. stored' \cup overlapped' = stored \cup overlapped \cup ToSet(hand)
        BY <3>1
      <3> QED BY <1>4, <2>0, <3>1, <3>2
    <2>2. CASE WritesOver(hand) /\ mixed
      <3>1. /\ ring' \in Seq(Byte) /\ Len(ring') <= Cap /\ ring' # <<>>
            /\ ToSet(ring') = {Garbage} /\ Distinct(ring')
            /\ stored' = stored /\ overlapped' = overlapped \cup ToSet(hand)
            /\ overlapped' \subseteq Byte
        BY <1>2, <2>0, <2>2, WritesOverOK
      <3> QED BY <2>0, <2>2, <3>1
    <2> QED BY <1>3, <2>1, <2>2
  <1>7. <<>> \in Seq(Byte) /\ ToSet(<<>>) = {} /\ InOrder(<<>>) /\ ring' \o <<>> = ring'
    BY <1>2, <1>6, EmptyOK, AppendOK
  <1>8. TypeOK'
    <2>1. race' \in {"no", "eterm", "daemon"}
      BY <1>3
    <2> QED BY <1>1, <1>6, <1>7, <2>1 DEF IInv, TypeOK
  <1>9. NoByteLost'
    <2>1. 1 .. taken = stored' \cup ToSet(<<>>) \cup ToSet(buf) \cup lost \cup overlapped'
      BY <1>6, <1>7 DEF IInv, NoByteLost
    <2>2. ~mixed => overlapped' = {}
      BY <1>6 DEF IInv, NoByteLost
    <2> QED BY <1>1, <2>1, <2>2 DEF NoByteLost
  <1>10. Reader'
    BY <1>1, <1>3, <1>5 DEF IInv, Reader, Attached
  <1>11. Ring'
    <2>1. ToSet(ring') \cap ToSet(buf) = {}
      <3>1. Garbage \notin ToSet(buf)
        BY ReadBytes DEF IInv
      <3> QED BY <1>4, <1>6, <3>1
    <2>2. Pending' = buf
      BY <1>1 DEF Pending
    <2>3. ~mixed => ring' \o buf = ring'
      BY <1>4, <1>7
    <2> QED BY <1>1, <1>4, <1>5, <1>6, <1>7, <2>1, <2>2, <2>3 DEF Ring
  <1>12. Stream'
    BY <1>1, StreamKept DEF IInv
  <1> QED BY <1>8, <1>9, <1>10, <1>11, <1>12 DEF IInv

\* ETerm dies, with what is in its hand, and perhaps inside a write.
LEMMA EtermDiesOK ==
  ASSUME IInv, EtermDies
  PROVE  IInv'
  <1>1. /\ eterm' = "gone" /\ dup' = FALSE /\ hand' = <<>>
        /\ lost' = lost \cup ToSet(hand)
        /\ race' = IF race = "eterm" THEN "no" ELSE race
        /\ seq' \in IF hand # <<>> /\ seq # "hung" THEN {"even", "odd"} ELSE {seq}
        /\ UNCHANGED <<session, produced, taken, event, buf, parser, grid, file, starts,
                       ws, reply, view, stored, overlapped, gap, own>>
    BY DEF EtermDies, kernelVars, wsVars
  <1>2. PICK K \in SUBSET Reached : ring' = Overwritten(K) /\ mixed' = (mixed \/ K # {})
    BY DEF EtermDies
  <1>3. /\ ring \in Seq(Byte) /\ hand \in Seq(Byte) /\ buf \in Seq(Byte) /\ taken \in Nat
        /\ Len(ring) <= Cap /\ Len(ring) \in Nat /\ Cap \in Nat
    BY TerminalAssumption, BytesOf DEF IInv, TypeOK
  <1>4. /\ ring' \in Seq(Byte) /\ Len(ring') = Len(ring)
        /\ ring' = <<>> <=> ring = <<>>
        /\ ToSet(ring') \subseteq ToSet(ring) \cup {Garbage}
        /\ Distinct(ring')
        /\ K = {} => ring' = ring
    BY <1>2, OverwrittenOK DEF IInv
  <1>5. hand = <<>> => K = {}
    <2>1. ASSUME hand = <<>> PROVE Reached = {}
      <3>1. Len(hand) = 0 /\ DOMAIN ring = 1 .. Len(ring)
        BY <1>3, <2>1
      <3>2. \A i \in 1 .. Len(ring) : ~(i <= Len(ring) + Len(hand) - Cap)
        BY <1>3, <3>1
      <3> QED BY <3>1, <3>2 DEF Reached
    <2> QED BY <2>1
  <1>6. <<>> \in Seq(Byte) /\ ToSet(<<>>) = {} /\ InOrder(<<>>) /\ ring \o <<>> = ring
    BY <1>3, EmptyOK, AppendOK
  <1>7. TypeOK'
    <2>1. lost' \subseteq Byte
      BY <1>1, <1>3, BytesOf DEF IInv, TypeOK
    <2>2. race' \in {"no", "eterm", "daemon"}
      BY <1>1 DEF IInv, TypeOK
    <2>3. seq' \in {"even", "odd", "hung"}
      BY <1>1 DEF IInv, TypeOK
    <2>4. mixed' \in BOOLEAN
      BY <1>2
    <2> QED BY <1>1, <1>3, <1>4, <1>6, <2>1, <2>2, <2>3, <2>4 DEF IInv, TypeOK
  <1>8. NoByteLost'
    <2>1. 1 .. taken = stored \cup ToSet(<<>>) \cup ToSet(buf) \cup lost' \cup overlapped
      BY <1>1, <1>6 DEF IInv, NoByteLost
    <2>2. ~mixed' => overlapped = {}
      BY <1>2 DEF IInv, NoByteLost
    <2> QED BY <1>1, <2>1, <2>2 DEF NoByteLost
  <1>9. Reader'
    <2>1. race' = "daemon" => race = "daemon"
      BY <1>1
    <2>2. race' # "eterm" /\ (race' # "no" => race # "no")
      BY <1>1
    <2>3. mixed => mixed'
      BY <1>2
    <2> QED BY <1>1, <2>1, <2>2, <2>3 DEF IInv, Reader, Attached
  <1>10. Ring'
    <2>1. ASSUME ~mixed'
          PROVE  /\ InOrder(ring \o buf) /\ Covers(ring \o buf, taken, lost')
                 /\ Covers(buf, taken, {}) /\ ring' = ring
      <3>0. ~mixed /\ K = {} /\ ring' = ring
        BY <1>2, <1>4, <2>1
      <3>1. CASE buf = <<>>
        <4>1. InOrder(ring \o hand) /\ Covers(ring \o hand, taken, lost)
          BY <3>0, <3>1 DEF IInv, Ring, Pending
        <4>2. InOrder(ring)
          BY <1>3, <4>1, InOrderParts
        <4>3. ASSUME ring # <<>> PROVE ring[1] .. taken \subseteq ToSet(ring) \cup lost'
          <5>1. ring \o hand # <<>> /\ (ring \o hand)[1] = ring[1]
            BY <1>3, <4>3
          <5>2. ring[1] .. taken \subseteq ToSet(ring \o hand) \cup lost
            BY <4>1, <5>1 DEF Covers
          <5> QED BY <1>1, <1>3, <5>2, AppendOK
        <4>4. ring \o buf = ring
          BY <1>6, <3>1
        <4> QED BY <3>0, <3>1, <4>2, <4>3, <4>4 DEF Covers
      <3>2. CASE buf # <<>>
        <4>1. /\ hand = <<>> /\ InOrder(ring \o buf) /\ Covers(ring \o buf, taken, lost)
              /\ Covers(buf, taken, {})
          BY <3>0, <3>2 DEF IInv, Ring, Pending
        <4>2. lost' = lost
          BY <1>1, <1>6, <4>1
        <4> QED BY <3>0, <4>1, <4>2
      <3> QED BY <3>1, <3>2
    <2>2. Pending' = buf
      BY <1>1 DEF Pending
    <2>3. own => EndsWith(parser, ring')
      BY <1>4, <1>5 DEF IInv, Reader, Ring
    <2>4. ToSet(ring') \cap ToSet(buf) = {}
      <3>1. Garbage \notin ToSet(buf)
        BY ReadBytes DEF IInv
      <3> QED BY <1>4, <3>1 DEF IInv, Ring
    <2>5. /\ ring' = <<>> => stored = {} /\ parser = <<>>
          /\ ToSet(ring') \subseteq stored \cup {Garbage}
          /\ InOrder(buf)
      BY <1>4 DEF IInv, Ring
    <2> QED BY <1>1, <1>4, <1>6, <2>1, <2>2, <2>3, <2>4, <2>5 DEF Ring
  <1>11. Stream'
    <2>1. mixed => mixed'
      BY <1>2
    <2> QED BY <1>1, <2>1, StreamKept DEF IInv
  <1> QED BY <1>7, <1>8, <1>9, <1>10, <1>11 DEF IInv

\* handle_client_disconnect: after the replay the parser ends with the ring.
LEMMA HandleDisconnectOK ==
  ASSUME IInv, HandleDisconnect
  PROVE  IInv'
  <1>1. /\ buf = <<>> /\ eterm = "gone" /\ parser' = Replayed
        /\ own' = (own \/ session.owner = ETerm)
        /\ session' = WithoutClient(session, ETerm)
        /\ UNCHANGED <<produced, taken, event, buf, race, seq, ring, grid, file, eterm, dup, hand,
                       starts, ws, reply, view, stored, lost, overlapped, mixed, gap>>
    BY DEF HandleDisconnect, Free, kernelVars, ringVars, etermVars, wsVars
  <1>2. ring \in Seq(Byte) /\ parser \in Seq(Byte) /\ session \in Session /\ ETerm \in Fd
    BY TerminalAssumption DEF IInv, TypeOK
  <1>3. session' \in Session
    BY <1>1, <1>2, WithoutClientOK
  <1>4. parser' \in Seq(Byte)
    BY <1>1, <1>2, AppendOK DEF Replayed
  <1>5. TypeOK'
    <2>1. own' \in BOOLEAN
      BY <1>1
    <2> QED BY <1>1, <1>3, <1>4, <2>1 DEF IInv, TypeOK
  <1>6. NoByteLost'
    BY <1>1 DEF IInv, NoByteLost
  <1>7. hand = <<>>
    BY <1>1 DEF IInv, Reader, Attached
  <1>8. Reader'
    BY <1>1, <1>7 DEF IInv, Reader, Attached
  <1>9. Ring'
    <2>1. ring = <<>> => parser' = <<>>
      BY <1>1, <1>2, AppendOK DEF IInv, Ring, Replayed
    <2>2. own' => EndsWith(parser', ring)
      <3>1. CASE session.owner = ETerm
        BY <1>1, <1>2, <3>1, EndsWithReplayed DEF Replayed
      <3>2. CASE session.owner # ETerm
        BY <1>1, <3>2 DEF Replayed, IInv, Ring
      <3> QED BY <3>1, <3>2
    <2> QED BY <1>1, <2>1, <2>2 DEF IInv, Ring, Pending
  <1>10. Stream'
    BY <1>1, StreamKept DEF IInv
  <1> QED BY <1>5, <1>6, <1>8, <1>9, <1>10 DEF IInv

\* handle_attach, with or without the descriptor sent.
LEMMA HandleAttachOK ==
  ASSUME IInv, HandleAttach
  PROVE  IInv'
  <1>1. /\ buf = <<>> /\ eterm = "idle" /\ file' = Captured /\ grid' = None
        /\ \/ session' = Attach(session, ETerm) /\ eterm' = "attached" /\ dup' = TRUE
           \/ session' = Detach(session) /\ UNCHANGED <<eterm, dup>>
        /\ UNCHANGED <<produced, taken, event, buf, race, seq, ring, parser, hand, starts, ws,
                       reply, view, stored, lost, overlapped, mixed, gap, own>>
    BY DEF HandleAttach, Free, kernelVars, ringVars, wsVars, history
  <1>2. session' \in Session
    BY <1>1, TerminalAssumption, AttachOK, DetachOK DEF IInv, TypeOK
  <1>3. file' \in Snapshot /\ grid' \in Snapshot
    BY <1>1, SnapshotOK DEF IInv
  <1>4. TypeOK'
    BY <1>1, <1>2, <1>3 DEF IInv, TypeOK
  <1>5. Reader'
    BY <1>1 DEF IInv, Reader, Attached
  <1> QED BY <1>1, <1>4, <1>5, BytesKept, StreamKept DEF IInv

\* handle_detach of ETerm.
LEMMA HandleDetachOK ==
  ASSUME IInv, HandleDetach
  PROVE  IInv'
  <1>1. /\ buf = <<>> /\ session' = Detach(session) /\ grid' = EtermSnapshot
        /\ eterm' = "leaving"
        /\ UNCHANGED <<produced, taken, event, buf, race, seq, ring, parser, file, dup, hand,
                       starts, ws, reply, view, stored, lost, overlapped, mixed, gap, own>>
    BY DEF HandleDetach, Free, kernelVars, ringVars, wsVars, history
  <1>2. session' \in Session /\ grid' \in Snapshot
    BY <1>1, DetachOK, SnapshotOK DEF IInv, TypeOK
  <1>3. TypeOK'
    BY <1>1, <1>2 DEF IInv, TypeOK
  <1>4. Reader'
    BY <1>1 DEF IInv, Reader, Attached
  <1> QED BY <1>1, <1>3, <1>4, BytesKept, StreamKept DEF IInv

\* handle_baton_takeover, however it ends.
LEMMA TakesOverOK ==
  ASSUME TypeOK, Reader, NEW g, TakesOver(g), buf = <<>>, UNCHANGED <<hand, own, buf, race>>,
         mixed => mixed'
  PROVE  /\ session' \in Session /\ eterm' \in {"gone", "idle", "attached", "leaving"}
         /\ dup' \in BOOLEAN /\ Reader'
  <1>1. session' \in Session
    BY BatonDetachOK DEF TakesOver, TypeOK
  <1>2. \/ eterm = "attached" /\ eterm' = "idle" /\ dup' = FALSE
        \/ eterm = "attached" /\ eterm' \in {"attached", "leaving"} /\ dup' = dup
        \/ eterm' = eterm /\ dup' = dup
    BY DEF TakesOver
  <1>3. eterm' \in {"gone", "idle", "attached", "leaving"} /\ dup' \in BOOLEAN
    BY <1>2 DEF TypeOK
  <1>4. Reader'
    BY <1>2 DEF Reader, Attached
  <1> QED BY <1>1, <1>3, <1>4

\* handle_baton_release, however it ends.
LEMMA ReleasesOK ==
  ASSUME TypeOK, Reader, session.prev # NoFd, Releases, buf = <<>>,
         UNCHANGED <<hand, own, buf, race, mixed>>
  PROVE  /\ session' \in Session /\ eterm' \in {"gone", "idle", "attached", "leaving"}
         /\ dup' \in BOOLEAN /\ grid' \in Snapshot /\ Reader'
  <1>1. session \in Session /\ session.prev \in Fd
    BY DEF TypeOK, Session
  <1>2. /\ [Attach(session, session.prev) EXCEPT !.prev = NoFd] \in Session
        /\ Detach([session EXCEPT !.prev = NoFd]) \in Session
        /\ Detach(session) \in Session
    BY <1>1, AttachOK, NoPrevOK, DetachOK
  <1>3. session' \in Session
    BY <1>2 DEF Releases
  <1>4. grid' \in Snapshot
    BY SnapshotOK DEF Releases, TypeOK
  <1>5. \/ eterm # "gone" /\ eterm' = "attached" /\ dup' = TRUE
        \/ eterm' = eterm /\ dup' = dup
    BY DEF Releases
  <1>6. eterm' \in {"gone", "idle", "attached", "leaving"} /\ dup' \in BOOLEAN
    BY <1>5 DEF TypeOK
  <1>7. Reader'
    BY <1>5 DEF Reader, Attached
  <1> QED BY <1>3, <1>4, <1>6, <1>7

\* What handle_ws_attach does before it makes the replay.
LEMMA TakesOverFirstOK ==
  ASSUME TypeOK, Reader, TakesOverFirst, buf = <<>>, UNCHANGED <<hand, own, buf, race>>,
         mixed => mixed'
  PROVE  /\ session' \in Session /\ eterm' \in {"gone", "idle", "attached", "leaving"}
         /\ dup' \in BOOLEAN /\ Reader'
  <1>1. CASE \E g : TakesOver(g)
    BY <1>1, TakesOverOK
  <1>2. CASE UNCHANGED <<session, eterm, dup>>
    BY <1>2 DEF TypeOK, Reader, Attached
  <1> QED BY <1>1, <1>2 DEF TakesOverFirst

\* handle_ws_attach: the replay is the ring, and what is in the hand of ETerm will not
\* reach the client.
LEMMA HandleWsAttachOK ==
  ASSUME IInv, HandleWsAttach
  PROVE  IInv'
  <1>1. /\ buf = <<>> /\ ws = "off" /\ ws' = "await" /\ TakesOverFirst
        /\ grid' = IF ring = <<>> THEN None ELSE Captured
        /\ gap' = ToSet(hand)
        /\ UNCHANGED <<produced, taken, event, buf, race, seq, ring, parser, file, hand, starts,
                       view, stored, lost, overlapped, own>>
    BY DEF HandleWsAttach, Free, kernelVars, ringVars
  <1>2. PICK K \in SUBSET Reached : /\ reply' = Replay(Overwritten(K), parser)
                                    /\ mixed' = (mixed \/ K # {})
    BY DEF HandleWsAttach
  <1>3. mixed => mixed'
    BY <1>2
  <1>4. /\ session' \in Session /\ eterm' \in {"gone", "idle", "attached", "leaving"}
        /\ dup' \in BOOLEAN /\ Reader'
    BY <1>1, <1>3, TakesOverFirstOK DEF IInv
  <1>5. /\ ring \in Seq(Byte) /\ hand \in Seq(Byte) /\ taken \in Nat
    BY TerminalAssumption DEF IInv, TypeOK
  <1>6. view = <<>> /\ ToSet(buf) = {}
    BY <1>1, <1>5, EmptyOK DEF IInv, Stream
  <1>7. /\ reply' \in Seq(Byte) /\ ToSet(reply') \subseteq ToSet(ring) \cup {Garbage}
        /\ Distinct(reply') /\ (K = {} => reply' = ring)
    <2>1. CASE ring # <<>>
      BY <1>2, <2>1, OverwrittenOK DEF IInv, Replay
    <2>2. CASE ring = <<>>
      <3>1. parser = <<>>
        BY <2>2 DEF IInv, Ring
      <3>2. reply' = <<>>
        BY <1>2, <2>2, <3>1 DEF Replay
      <3> QED BY <1>5, <2>2, <3>2, EmptyOK
    <2> QED BY <2>1, <2>2
  <1>8. TypeOK'
    <2>1. grid' \in Snapshot
      BY <1>1, SnapshotOK DEF IInv
    <2>2. gap' \subseteq Byte
      BY <1>1, <1>5, BytesOf
    <2>3. mixed' \in BOOLEAN
      BY <1>2
    <2> QED BY <1>1, <1>4, <1>7, <2>1, <2>2, <2>3 DEF IInv, TypeOK
  <1>9. NoByteLost' /\ Ring'
    <2>1. NoByteLost /\ Ring
      BY DEF IInv
    <2>2. NoByteLost'
      BY <1>1, <1>3, <2>1 DEF NoByteLost
    <2>3. Ring'
      BY <1>1, <1>3, <2>1 DEF Ring, Pending
    <2> QED BY <2>2, <2>3
  <1>10. Stream'
    <2>1. ToSet(reply') \subseteq 0 .. taken
      <3>1. ToSet(ring) \subseteq 0 .. taken /\ Garbage \in 0 .. taken
        BY <1>5, ReadBytes DEF IInv, Garbage
      <3> QED BY <1>7, <3>1
    <2>2. ASSUME ~mixed'
          PROVE  InOrder(reply') /\ Covers(reply', taken, (ToSet(hand) \cup lost) \cup ToSet(buf))
      <3>0. reply' = ring
        BY <1>2, <1>7, <2>2
      <3>1. InOrder(ring \o hand) /\ Covers(ring \o hand, taken, lost)
        BY <1>1, <1>2, <2>2 DEF IInv, Ring, Pending
      <3>2. InOrder(ring)
        BY <1>5, <3>1, InOrderParts
      <3>3. ASSUME ring # <<>> PROVE ring[1] .. taken \subseteq ToSet(ring) \cup ToSet(hand) \cup lost
        <4>1. ring \o hand # <<>> /\ (ring \o hand)[1] = ring[1]
          BY <1>5, <3>3
        <4>2. ring[1] .. taken \subseteq ToSet(ring \o hand) \cup lost
          BY <3>1, <4>1 DEF Covers
        <4> QED BY <1>5, <4>2, AppendOK
      <3> QED BY <3>0, <3>2, <3>3 DEF Covers
    <2>3. Streamed(reply, taken, buf, gap \cup lost)'
      BY <1>1, <1>6, <1>7, <2>1, <2>2 DEF Streamed
    <2>4. /\ ToSet(<<>>) = {} /\ Distinct(<<>>) /\ InOrder(<<>>)
          /\ Covers(<<>>, taken, (gap' \cup lost) \cup ToSet(buf))
      BY <1>5, EmptyOK
    <2>5. Streamed(view, taken, buf, gap \cup lost)'
      BY <1>1, <1>6, <2>4 DEF Streamed
    <2> QED BY <1>1, <1>6, <2>3, <2>5 DEF Stream
  <1> QED BY <1>4, <1>8, <1>9, <1>10 DEF IInv

\* The dump that does not return leaves everything as it was.
LEMMA HangsOK ==
  ASSUME IInv, DisconnectHangs \/ WsAttachHangs
  PROVE  IInv'
  <1>1. /\ buf = <<>> /\ seq' = "hung"
        /\ UNCHANGED <<produced, taken, event, buf, race, ring, parser, file, hand, starts, ws,
                       reply, view, stored, lost, overlapped, mixed, gap, own>>
    BY DEF DisconnectHangs, WsAttachHangs, Free, kernelVars, dataVars, etermVars, wsVars, history
  <1>2. CASE DisconnectHangs
    <2>1. UNCHANGED <<session, grid, eterm, dup>>
      BY <1>2 DEF DisconnectHangs, dataVars, etermVars
    <2>2. TypeOK' /\ Reader'
      BY <1>1, <2>1 DEF IInv, TypeOK, Reader, Attached
    <2> QED BY <1>1, <2>2, BytesKept, StreamKept DEF IInv
  <1>3. CASE WsAttachHangs
    <2>1. /\ session' \in Session /\ eterm' \in {"gone", "idle", "attached", "leaving"}
          /\ dup' \in BOOLEAN /\ Reader'
      BY <1>1, <1>3, TakesOverFirstOK DEF IInv, WsAttachHangs
    <2>2. grid' \in Snapshot
      BY <1>3, SnapshotOK DEF IInv, WsAttachHangs
    <2>3. TypeOK'
      BY <1>1, <2>1, <2>2 DEF IInv, TypeOK
    <2> QED BY <1>1, <2>1, <2>3, BytesKept, StreamKept DEF IInv
  <1> QED BY <1>2, <1>3

\* The task has the response, and what it replays is the beginning of the stream.
LEMMA WsSubscribesOK ==
  ASSUME IInv, WsSubscribes
  PROVE  IInv'
  <1>1. /\ ws' = "on" /\ view' = reply /\ reply' = <<>>
        /\ UNCHANGED <<session, produced, taken, event, buf, race, seq, ring, parser, grid, file,
                       eterm, dup, hand, starts, stored, lost, overlapped, mixed, gap, own>>
    BY DEF WsSubscribes, kernelVars, ringVars, dataVars, etermVars, history
  <1>2. taken \in Nat
    BY TerminalAssumption DEF IInv, TypeOK
  <1>3. TypeOK'
    BY <1>1 DEF IInv, TypeOK
  <1>4. Reader'
    BY <1>1 DEF IInv, Reader, Attached
  <1>5. Stream'
    <2>1. Streamed(<<>>, taken, buf, gap \cup lost)
      BY <1>2, EmptyOK DEF Streamed
    <2> QED BY <1>1, <2>1 DEF IInv, Stream, Streamed
  <1> QED BY <1>1, <1>3, <1>4, <1>5, BytesKept DEF IInv

\* A WS client that leaves has no stream any more.
LEMMA WsLeavesOK ==
  ASSUME IInv, ws = "on", WsLeaves, UNCHANGED <<taken, buf, lost, mixed>>
  PROVE  /\ Stream' /\ ws' \in {"off", "await", "on"} /\ reply' \in Seq(Byte)
         /\ view' \in Seq(Byte) /\ gap' \subseteq Byte
  <1>1. ws' = "off" /\ view' = <<>> /\ gap' = {} /\ reply' = reply /\ reply = <<>> /\ taken \in Nat
    BY TerminalAssumption DEF WsLeaves, IInv, Stream, TypeOK
  <1>2. Streamed(<<>>, taken, buf, {} \cup lost)
    BY <1>1, EmptyOK DEF Streamed
  <1>3. Stream'
    BY <1>1, <1>2 DEF Stream, Streamed
  <1> QED BY <1>1, <1>3

\* handle_ws_detach.
LEMMA HandleWsDetachOK ==
  ASSUME IInv, HandleWsDetach
  PROVE  IInv'
  <1>1. /\ buf = <<>> /\ ws = "on" /\ WsLeaves
        /\ UNCHANGED <<produced, taken, event, buf, race, seq, ring, parser, file, hand, starts,
                       stored, lost, overlapped, mixed, own>>
        /\ \/ \E g \in {grid, EtermSnapshot} : TakesOver(g) /\ grid' = g
           \/ UNCHANGED <<session, eterm, dup, grid>>
           \/ session.prev # NoFd /\ Releases
           \/ session' = Detach(session) /\ UNCHANGED <<eterm, dup, grid>>
    BY DEF HandleWsDetach, Free, kernelVars, ringVars
  <1>2. TypeOK /\ Reader
    BY DEF IInv
  <1>3. /\ session' \in Session /\ eterm' \in {"gone", "idle", "attached", "leaving"}
        /\ dup' \in BOOLEAN /\ grid' \in Snapshot /\ Reader'
    <2>1. CASE \E g \in {grid, EtermSnapshot} : TakesOver(g) /\ grid' = g
      <3>1. grid' \in Snapshot
        BY <1>2, <2>1, SnapshotOK DEF TypeOK
      <3> QED BY <1>1, <1>2, <2>1, <3>1, TakesOverOK
    <2>2. CASE UNCHANGED <<session, eterm, dup, grid>>
      BY <1>1, <1>2, <2>2 DEF TypeOK, Reader, Attached
    <2>3. CASE session.prev # NoFd /\ Releases
      BY <1>1, <1>2, <2>3, ReleasesOK
    <2>4. CASE session' = Detach(session) /\ UNCHANGED <<eterm, dup, grid>>
      BY <1>1, <1>2, <2>4, DetachOK DEF TypeOK, Reader, Attached
    <2> QED BY <1>1, <2>1, <2>2, <2>3, <2>4
  <1>4. /\ Stream' /\ ws' \in {"off", "await", "on"} /\ reply' \in Seq(Byte)
        /\ view' \in Seq(Byte) /\ gap' \subseteq Byte
    BY <1>1, WsLeavesOK
  <1>5. TypeOK'
    BY <1>1, <1>2, <1>3, <1>4 DEF TypeOK
  <1> QED BY <1>1, <1>3, <1>4, <1>5, BytesKept DEF IInv

\* A WS client that goes without a word.
LEMMA WsDisconnectsOK ==
  ASSUME IInv, WsDisconnects
  PROVE  IInv'
  <1>1. /\ ws = "on" /\ WsLeaves
        /\ UNCHANGED <<session, produced, taken, event, buf, race, seq, ring, parser, grid, file,
                       eterm, dup, hand, starts, stored, lost, overlapped, mixed, own>>
    BY DEF WsDisconnects, kernelVars, ringVars, dataVars, etermVars
  <1>2. /\ Stream' /\ ws' \in {"off", "await", "on"} /\ reply' \in Seq(Byte)
        /\ view' \in Seq(Byte) /\ gap' \subseteq Byte
    BY <1>1, WsLeavesOK
  <1>3. TypeOK'
    BY <1>1, <1>2 DEF IInv, TypeOK
  <1>4. Reader'
    BY <1>1 DEF IInv, Reader, Attached
  <1> QED BY <1>1, <1>2, <1>3, <1>4, BytesKept DEF IInv

\* The steps that touch no byte: the shell writes, kevent reports, an event comes to
\* nothing, ETerm starts or closes its dup.
LEMMA OtherStepsOK ==
  ASSUME IInv, ShellWrites \/ Polls \/ HandleNothing \/ EtermStarts \/ EtermCloses
  PROVE  IInv'
  <1> USE DEF kernelVars, ringVars, dataVars, etermVars, wsVars, history
  <1>1. UNCHANGED <<taken, ring, hand, buf, parser, stored, lost, overlapped, mixed, own, ws,
                    reply, view, gap>>
    BY DEF ShellWrites, Polls, HandleNothing, EtermStarts, EtermCloses
  <1>2. CASE ShellWrites
    <2>1. produced' \in 0 .. MaxBytes /\ taken' \in 0 .. produced'
      BY <1>2, TerminalAssumption DEF ShellWrites, IInv, TypeOK
    <2>2. TypeOK'
      BY <1>2, <2>1 DEF ShellWrites, IInv, TypeOK
    <2>3. Reader'
      BY <1>2 DEF ShellWrites, IInv, Reader, Attached
    <2> QED BY <1>1, <2>2, <2>3, BytesKept, StreamKept DEF IInv
  <1>3. CASE Polls \/ HandleNothing
    <2>1. /\ event' \in BOOLEAN
          /\ UNCHANGED <<session, produced, race, seq, grid, file, eterm, dup, starts>>
      BY <1>3 DEF Polls, HandleNothing
    <2>2. TypeOK'
      BY <1>1, <2>1 DEF IInv, TypeOK
    <2>3. Reader'
      BY <1>1, <2>1 DEF IInv, Reader, Attached
    <2> QED BY <1>1, <2>2, <2>3, BytesKept, StreamKept DEF IInv
  <1>4. CASE EtermStarts
    <2>1. starts' \in 0 .. MaxStarts
      BY <1>4, TerminalAssumption DEF EtermStarts, IInv, TypeOK
    <2>2. TypeOK' /\ Reader'
      BY <1>4, <2>1 DEF EtermStarts, IInv, TypeOK, Reader, Attached
    <2> QED BY <1>1, <2>2, BytesKept, StreamKept DEF IInv
  <1>5. CASE EtermCloses
    <2>1. TypeOK' /\ Reader'
      BY <1>5 DEF EtermCloses, IInv, TypeOK, Reader, Attached
    <2> QED BY <1>1, <2>1, BytesKept, StreamKept DEF IInv
  <1> QED BY <1>2, <1>3, <1>4, <1>5

-----------------------------------------------------------------------------
(* The theorems *)

\* Before the shell has written anything.
LEMMA InitOK == Init => IInv
  <1> SUFFICES ASSUME Init PROVE IInv
    OBVIOUS
  <1> USE DEF Init
  <1>1. taken = 0 /\ 1 .. taken = {} /\ taken \in Nat
    OBVIOUS
  <1>2. /\ <<>> \in Seq(Byte) /\ ToSet(<<>>) = {} /\ <<>> \o <<>> = <<>> /\ Len(<<>>) = 0
        /\ InOrder(<<>>) /\ Distinct(<<>>) /\ \A M : Covers(<<>>, taken, M)
    BY <1>1, EmptyOK
  <1>3. TypeOK
    <2>1. session \in Session
      BY NewSessionOK
    <2>2. /\ produced \in 0 .. MaxBytes /\ taken \in 0 .. produced
          /\ starts \in 0 .. MaxStarts /\ 0 <= Cap
      BY TerminalAssumption
    <2>3. grid \in Snapshot /\ file \in Snapshot
      BY DEF None, Snapshot
    <2> QED BY <1>2, <2>1, <2>2, <2>3 DEF TypeOK
  <1>4. NoByteLost
    BY <1>1, <1>2 DEF NoByteLost
  <1>5. Reader
    BY DEF Reader, Attached
  <1>6. Ring
    BY <1>2 DEF Ring, Pending, EndsWith
  <1>7. Stream
    <2>1. Streamed(<<>>, taken, buf, gap \cup lost)
      BY <1>1, <1>2 DEF Streamed
    <2> QED BY <2>1 DEF Stream
  <1> QED BY <1>3, <1>4, <1>5, <1>6, <1>7 DEF IInv

\* Every step of the shell, ETerm, the daemon and the WS client keeps the invariant.
LEMMA NextOK == IInv /\ [Next]_vars => IInv'
  <1> SUFFICES ASSUME IInv, [Next]_vars PROVE IInv'
    OBVIOUS
  <1>1. CASE UNCHANGED vars
    <2>1. UNCHANGED <<session, produced, taken, event, buf, race, seq, ring, parser, grid, file,
                      eterm, dup, hand, starts, ws, reply, view, stored, lost, overlapped, mixed,
                      gap, own>>
      BY <1>1 DEF vars, kernelVars, ringVars, dataVars, etermVars, wsVars, history
    <2>2. TypeOK' /\ Reader'
      BY <2>1 DEF IInv, TypeOK, Reader, Attached
    <2> QED BY <2>1, <2>2, BytesKept, StreamKept DEF IInv
  <1>2. CASE Eterm
    BY <1>2, OtherStepsOK, EtermWritesOK, EtermDiesOK, EtermReadsOK DEF Eterm
  <1>3. CASE Daemon
    BY <1>1, <1>3, OtherStepsOK, ReadOutputOK, HandleOutputOK, HandleAttachOK, HandleDetachOK,
       HandleDisconnectOK, HandleWsAttachOK, HangsOK, HandleWsDetachOK DEF Daemon, Hangs
  <1>4. CASE ShellWrites \/ WsSubscribes \/ WsDisconnects
    BY <1>4, OtherStepsOK, WsSubscribesOK, WsDisconnectsOK
  <1> QED BY <1>1, <1>2, <1>3, <1>4 DEF Next

\* What the model of the output path maintains, whatever ETerm does.
THEOREM Invariance == Spec => []IInv
  BY InitOK, NextOK, PTL DEF Spec

\* Ring, parser, snapshots and streams hold bytes of the output, and the ring is never
\* longer than its capacity (SharedRingBuffer::write).
THEOREM TypeCorrect == Spec => []TypeOK
  <1>1. IInv => TypeOK
    BY DEF IInv
  <1> QED BY <1>1, Invariance, PTL

\* Every byte read from the PTY is or was in the ring, or is on its way there, or ETerm
\* died with it, or it was in a write that overlapped one of the other reader, which
\* takes an ETerm that is late to leave (handle_session_output, docs/design.md).
THEOREM NoByteLostHolds == Spec => []NoByteLost
  <1>1. IInv => NoByteLost
    BY DEF IInv
  <1> QED BY <1>1, Invariance, PTL

\* The ring is the end of the output, while ETerm closes its dup before the daemon
\* reads (handle_detach, handle_baton_takeover).
THEOREM RingIsHistoryHolds == Spec => []RingIsHistory
  <1>1. IInv => RingIsHistory
    <2> SUFFICES ASSUME IInv, ~mixed
                 PROVE  LET s == ring \o hand \o buf
                        IN  /\ InOrder(s)
                            /\ s # <<>> => s[1] .. taken \subseteq ToSet(s) \cup lost
                            /\ taken > 0 /\ s = <<>> => lost = 1 .. taken
      BY DEF RingIsHistory
    <2>1. ring \in Seq(Byte) /\ hand \in Seq(Byte) /\ buf \in Seq(Byte)
      BY DEF IInv, TypeOK
    <2>2. hand = <<>> \/ buf = <<>>
      BY DEF IInv, Ring
    <2>3. ring \o hand \o buf = ring \o Pending
      <3>1. ring \o hand \in Seq(Byte)
        BY <2>1, AppendOK
      <3>2. CASE buf = <<>>
        <4>1. (ring \o hand) \o <<>> = ring \o hand
          BY <3>1, AppendOK
        <4> QED BY <3>2, <4>1 DEF Pending
      <3>3. CASE buf # <<>>
        <4>1. ring \o <<>> = ring
          BY <2>1, AppendOK
        <4> QED BY <2>2, <3>3, <4>1 DEF Pending
      <3> QED BY <3>2, <3>3
    <2>4. InOrder(ring \o Pending) /\ Covers(ring \o Pending, taken, lost)
      BY DEF IInv, Ring
    <2>5. ASSUME ring \o Pending = <<>> PROVE lost = 1 .. taken
      <3>1. Pending \in Seq(Byte)
        BY <2>1 DEF Pending
      <3>2. ring = <<>> /\ Pending = <<>>
        BY <2>1, <2>5, <3>1
      <3>3. hand = <<>> /\ buf = <<>>
        BY <3>2 DEF Pending
      <3>4. stored = {} /\ ToSet(hand) = {} /\ ToSet(buf) = {} /\ overlapped = {}
        BY <3>2, <3>3, EmptyOK DEF IInv, Ring, NoByteLost
      <3> QED BY <3>4 DEF IInv, NoByteLost
    <2> QED BY <2>3, <2>4, <2>5 DEF Covers
  <1> QED BY <1>1, Invariance, PTL

\* The daemon's parser is not behind the ring, while only the daemon reads
\* (handle_session_output, handle_client_disconnect).
THEOREM ParserFollowsHolds == Spec => []ParserFollows
  <1>1. IInv => ParserFollows
    BY EndsWithIsSuffix DEF IInv, TypeOK, Ring, ParserFollows
  <1> QED BY <1>1, Invariance, PTL

\* No byte reaches a WS client twice, and the ones it misses are accounted for
\* (handle_ws_attach, handle_text_message, handle_session_output).
THEOREM WsStreamHolds == Spec => []WsStream
  <1>1. IInv => WsStream
    <2> SUFFICES ASSUME IInv PROVE WsStream
      OBVIOUS
    <2>1. Streamed(view, taken, buf, gap \cup lost)
      BY DEF IInv, Stream
    <2>2. Distinct(view) /\ (~mixed => InOrder(view) /\ Covers(view, taken, (gap \cup lost) \cup ToSet(buf)))
      BY <2>1 DEF Streamed
    <2> QED BY <2>2 DEF WsStream, Distinct, Covers
  <1> QED BY <1>1, Invariance, PTL
=============================================================================
