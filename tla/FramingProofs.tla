---------------------------- MODULE FramingProofs ----------------------------
(* Proofs about Framing, for every size of the socket buffer and every      *)
(* number of pushes, however reads split and join the bytes.                *)
EXTENDS Framing, TLAPS, SequenceTheorems

Byte == 0 .. 255
Wire == 0 .. FdByte

\* Bytes are numbers.
LEMMA ByteNat == \A x \in Byte : x \in Nat /\ x < 256 /\ x % 256 = x
  BY DEF Byte

-----------------------------------------------------------------------------
(* encode_message and try_decode_message *)

\* The tags tell the messages apart, and are bytes.
LEMMA TagOK == /\ \A m \in Messages : Tag[m] \in 101 .. 109
               /\ \A m, n \in Messages : Tag[m] = Tag[n] => m = n
               /\ Tag["AttachReady"] = 103 /\ Tag["Detached"] = 104
  BY DEF Messages, Upstream, Requests, Acks, Responses, Pushes, Tag

\* The bytes of an encoded message.
LEMMA EncodeIs ==
  ASSUME NEW m \in Messages
  PROVE  /\ Encode(m) \in Seq(Byte) /\ Len(Encode(m)) = 6
         /\ Encode(m)[1] = 0 /\ Encode(m)[2] = 0 /\ Encode(m)[3] = 0 /\ Encode(m)[4] = 2
         /\ Encode(m)[5] = Tag[m] /\ Encode(m)[6] = Tag[m]
  <1> DEFINE t == Tag[m]
  <1>1. t \in Byte
    BY TagOK DEF Byte
  <1> HIDE DEF t
  <1>2. Payload(m) = <<t, t>> /\ Len(Payload(m)) = 2
    BY DEF Payload, t
  <1>3. Encode(m) = <<0, 0, 0, 2>> \o <<t, t>>
    <2>1. /\ (2 \div 16777216) % 256 = 0 /\ (2 \div 65536) % 256 = 0
          /\ (2 \div 256) % 256 = 0 /\ 2 % 256 = 2
      OBVIOUS
    <2>2. Length(2) = <<0, 0, 0, 2>>
      BY <2>1 DEF Length
    <2> QED BY <1>2, <2>2 DEF Encode
  <1>4. <<0, 0, 0, 2>> \in Seq(Byte) /\ <<t, t>> \in Seq(Byte)
    BY <1>1 DEF Byte
  <1> QED BY <1>3, <1>4 DEF t

\* A payload parses as the message it is, or not at all.
LEMMA ParseIs ==
  ASSUME NEW m \in Messages
  PROVE  /\ m \in Upstream => Parse(Payload(m), Upstream) = m
         /\ m \in Requests => Parse(Payload(m), Requests) = m
         /\ m \in Responses => Parse(Payload(m), Responses) = m
         /\ Parse(Payload(m), Acks) # "None" /\ Parse(Payload(m), Requests) # "None"
  <1>1. \A n \in Messages : Payload(n) = Payload(m) => n = m
    BY TagOK DEF Payload
  <1>2. /\ Requests \subseteq Messages /\ Responses \subseteq Messages /\ Acks \subseteq Messages
        /\ Upstream \subseteq Messages /\ "None" \notin Acks /\ "None" \notin Requests
    BY DEF Messages, Upstream, Acks, Requests, Responses, Pushes
  <1>3. m \in Requests => Parse(Payload(m), Requests) = m
    BY <1>1, <1>2 DEF Parse
  <1>4. m \in Responses => Parse(Payload(m), Responses) = m
    BY <1>1, <1>2 DEF Parse
  <1>5. m \in Upstream => Parse(Payload(m), Upstream) = m
    BY <1>1, <1>2 DEF Parse
  <1>6. ASSUME NEW T, T \subseteq Messages, "None" \notin T PROVE Parse(Payload(m), T) # "None"
    <2>1. CASE \E n \in T \cap Messages : Payload(n) = Payload(m)
      <3>1. Parse(Payload(m), T) \in T
        BY <1>6, <2>1 DEF Parse
      <3> QED BY <1>6, <3>1
    <2>2. CASE ~\E n \in T \cap Messages : Payload(n) = Payload(m)
      BY <2>2 DEF Parse
    <2> QED BY <2>1, <2>2
  <1> QED BY <1>2, <1>3, <1>4, <1>5, <1>6

\* The slice of two bytes.
LEMMA PairOf ==
  ASSUME NEW b \in Seq(Byte), ~(Len(b) < 6)
  PROVE  SubSeq(b, 5, 6) = <<b[5], b[6]>>
  <1> DEFINE p == SubSeq(b, 5, 6)
             q == <<b[5], b[6]>>
  <1>1. p \in Seq(Byte) /\ Len(p) = 2 /\ p[1] = b[5] /\ p[2] = b[6]
    BY SubSeqProperties, SMT
  <1>2. b[5] \in Byte /\ b[6] \in Byte
    OBVIOUS
  <1>3. q \in Seq(Byte) /\ Len(q) = 2 /\ q[1] = b[5] /\ q[2] = b[6]
    BY <1>2
  <1> HIDE DEF p, q
  <1>4. \A i \in 1 .. 2 : p[i] = q[i]
    BY <1>1, <1>3
  <1>5. p = q
    BY <1>1, <1>3, <1>4, SeqEqual
  <1> QED BY <1>5 DEF p, q

\* b begins with an encoded m, as far as it goes.
Starts(b, m) == \A i \in 1 .. Len(b) : i <= 6 => b[i] = Encode(m)[i]

\* try_decode_message waits for the whole of the first frame and takes that.
LEMMA DecodeIs ==
  ASSUME NEW b \in Seq(Byte), NEW m \in Messages, Starts(b, m), NEW types
  PROVE  TryDecode(b, types) =
           IF Len(b) < 6 THEN NoFrame ELSE [msg |-> Parse(Payload(m), types), used |-> 6]
  <1>1. CASE Len(b) < 4
    BY <1>1 DEF TryDecode, HeaderLen
  <1>2. CASE ~(Len(b) < 4)
    <2>1. b[1] = 0 /\ b[2] = 0 /\ b[3] = 0 /\ b[4] = 2
      BY <1>2, EncodeIs DEF Starts
    <2>2. Number(b) = 2
      BY <2>1 DEF Number
    <2>3. CASE Len(b) < 6
      <3>1. ~Complete(b, 2)
        BY <2>3 DEF Complete, HeaderLen
      <3> QED BY <2>2, <2>3, <3>1 DEF TryDecode
    <2>4. CASE ~(Len(b) < 6)
      <3>1. Complete(b, 2) /\ ~(Len(b) < HeaderLen)
        BY <2>4 DEF Complete, HeaderLen
      <3>2. b[5] = Tag[m] /\ b[6] = Tag[m]
        BY <2>4, EncodeIs DEF Starts
      <3>3. SubSeq(b, 5, 6) = <<b[5], b[6]>>
        BY <2>4, PairOf
      <3>4. SubSeq(b, HeaderLen + 1, HeaderLen + 2) = Payload(m) /\ HeaderLen + 2 = 6
        BY <3>2, <3>3 DEF HeaderLen, Payload
      <3> QED BY <2>2, <2>4, <3>1, <3>4 DEF TryDecode, Decoded
    <2> QED BY <2>3, <2>4
  <1> QED BY <1>1, <1>2

\* What decoding can give, of any bytes: a response only if its tag is among them.
LEMMA DecodeResponse ==
  ASSUME NEW b \in Seq(Byte)
  PROVE  LET m == TryDecode(b, Responses).msg
         IN  /\ m \in Responses \cup {"None", "ParseError"}
             /\ m \in Responses => \E i \in 1 .. Len(b) : b[i] = Tag[m]
  <1> DEFINE n == Number(b)
             d == TryDecode(b, Responses)
  <1>1. CASE d = NoFrame
    BY <1>1 DEF NoFrame, Responses
  <1>2. CASE d # NoFrame
    <2>1. d = Decoded(b, n, Responses) /\ Len(b) >= 4 /\ Len(b) >= 4 + n
      BY <1>2 DEF TryDecode, Complete, HeaderLen
    <2> HIDE DEF n
    <2> DEFINE p == SubSeq(b, 5, 4 + n)
               m == d.msg
    <2>2. m = Parse(p, Responses)
      BY <2>1 DEF Decoded, HeaderLen
    <2> HIDE DEF d
    <2>3. b[1] \in Byte /\ b[2] \in Byte /\ b[3] \in Byte /\ b[4] \in Byte
      BY <2>1, Len(b) \in Nat
    <2>4. n \in Nat
      <3>1. PICK w, x, y, z \in Nat : b[1] = w /\ b[2] = x /\ b[3] = y /\ b[4] = z
        BY <2>3, ByteNat
      <3>2. n = 256 * (256 * (256 * w + x) + y) + z
        BY <3>1 DEF Number, n
      <3> QED BY <3>2
    <2>5. Responses \subseteq Messages /\ "ParseError" \notin Responses
      BY DEF Messages, Responses
    <2> HIDE DEF p, m
    <2>6. m \in Responses \cup {"ParseError"}
      BY <2>2, <2>5 DEF Parse
    <2>7. ASSUME m \in Responses PROVE \E i \in 1 .. Len(b) : b[i] = Tag[m]
      <3>1. p = <<Tag[m], Tag[m]>>
        BY <2>2, <2>5, <2>7 DEF Parse, Payload
      <3>2. Len(p) = 2 /\ p[1] = Tag[m]
        BY <3>1
      <3>3. Len(p) = n
        BY <2>1, <2>4, SubSeqProperties DEF p
      <3>4. p[1] = b[5]
        <4>1. n = 2
          BY <3>2, <3>3
        <4>2. Len(b) >= 4 + n /\ Len(b) \in Nat
          BY <2>1
        <4>3. ~(Len(b) < 6) /\ 4 + n = 6
          BY <4>1, <4>2
        <4> QED BY <4>3, PairOf DEF p
      <3>5. 5 \in 1 .. Len(b)
        BY <2>1, <3>2, <3>3, Len(b) \in Nat
      <3> QED BY <3>2, <3>4, <3>5
    <2> QED BY <2>6, <2>7 DEF m, d
  <1> QED BY <1>1, <1>2

-----------------------------------------------------------------------------
(* Reads: some of the bytes, and the rest *)

\* The first k elements and the others.
LEMMA TakeDrop ==
  ASSUME NEW S, NEW q \in Seq(S), NEW k \in 0 .. Len(q)
  PROVE  /\ Take(k, q) \in Seq(S) /\ Len(Take(k, q)) = k
         /\ \A i \in 1 .. k : Take(k, q)[i] = q[i]
         /\ Drop(k, q) \in Seq(S) /\ Len(Drop(k, q)) = Len(q) - k
         /\ \A i \in 1 .. Len(q) - k : Drop(k, q)[i] = q[k + i]
  <1>1. Len(q) \in Nat /\ k \in Nat /\ k <= Len(q) /\ \A i \in 1 .. Len(q) : q[i] \in S
    OBVIOUS
  <1>2. /\ Take(k, q) \in Seq(S) /\ Len(Take(k, q)) = k
        /\ \A i \in 1 .. k : Take(k, q)[i] = q[i]
    BY <1>1, SubSeqProperties DEF Take
  <1>3. /\ Drop(k, q) \in Seq(S) /\ Len(Drop(k, q)) = Len(q) - k
        /\ \A i \in 1 .. Len(q) - k : Drop(k, q)[i] = q[k + i]
    BY <1>1, SubSeqProperties DEF Drop
  <1> QED BY <1>2, <1>3

\* Two pieces put together.
LEMMA Cat ==
  ASSUME NEW S, NEW a \in Seq(S), NEW b \in Seq(S)
  PROVE  /\ a \o b \in Seq(S) /\ Len(a \o b) = Len(a) + Len(b)
         /\ Len(a) \in Nat /\ Len(b) \in Nat
         /\ \A i \in 1 .. Len(a) : (a \o b)[i] = a[i]
         /\ \A i \in 1 .. Len(b) : (a \o b)[Len(a) + i] = b[i]
  OBVIOUS

\* A second element follows the first.
LEMMA AppendTwo ==
  ASSUME NEW x, NEW y
  PROVE  Append(<<x>>, y) = <<x, y>>
  <1> DEFINE S == {x, y}
             a == <<x>>
             p == Append(a, y)
             q == <<x, y>>
  <1>1. a \in Seq(S) /\ Len(a) = 1 /\ a[1] = x /\ y \in S
    OBVIOUS
  <1>2. q \in Seq(S) /\ Len(q) = 2 /\ q[1] = x /\ q[2] = y
    OBVIOUS
  <1> HIDE DEF a, q, S
  <1>3. /\ p \in Seq(S) /\ Len(p) = Len(a) + 1
        /\ \A i \in 1 .. Len(a) : p[i] = a[i]
        /\ p[Len(a) + 1] = y
    BY <1>1, AppendProperties, ZenonT(60)
  <1> HIDE DEF p
  <1>4. Len(p) = 2 /\ p[1] = x /\ p[2] = y
    BY <1>1, <1>3
  <1>5. p = q
    BY <1>2, <1>3, <1>4, SeqEqual
  <1> QED BY <1>5 DEF a, p, q

\* What a plain read makes of the bytes on the wire.
LEMMA ValueIs ==
  ASSUME NEW q \in Seq(Wire)
  PROVE  /\ Value(q) \in Seq(Byte) /\ Len(Value(q)) = Len(q)
         /\ \A i \in 1 .. Len(q) : Value(q)[i] = q[i] % 256
         /\ \A i \in 1 .. Len(q) : q[i] \in Byte => Value(q)[i] = q[i]
  <1> DEFINE n == Len(q)
  <1>1. n \in Nat /\ DOMAIN q = 1 .. n
    OBVIOUS
  <1>2. \A x \in Wire : x % 256 \in Byte
    BY DEF Wire, Byte, FdByte
  <1>3. \A i \in 1 .. n : q[i] % 256 \in Byte
    BY <1>2
  <1>4. Value(q) = [i \in 1 .. n |-> q[i] % 256]
    BY <1>1 DEF Value
  <1> HIDE DEF n
  <1>5. [i \in 1 .. n |-> q[i] % 256] \in Seq(Byte)
    BY <1>1, <1>3, SeqDef
  <1>6. Value(q) \in Seq(Byte) /\ DOMAIN Value(q) = 1 .. n
    BY <1>4, <1>5
  <1>7. Len(Value(q)) = n
    BY <1>1, <1>6
  <1>8. \A i \in 1 .. n : Value(q)[i] = q[i] % 256
    BY <1>4
  <1> QED BY <1>6, <1>7, <1>8, ByteNat DEF n

-----------------------------------------------------------------------------
(* The stream of requests and acks *)

\* Bytes b stand behind byte number from of the encoded messages s.
OnStream(b, from, s) ==
  \A i \in 1 .. Len(b) : \A q \in Nat, r \in 1 .. 6 :
    from + i = 6 * q + r => b[i] = Encode(s[q + 1])[r]

\* A read leaves both parts where they are on the stream.
LEMMA StreamSplit ==
  ASSUME NEW q \in Seq(Byte), NEW from \in Nat, NEW s, OnStream(q, from, s),
         NEW k \in 0 .. Len(q)
  PROVE  OnStream(Take(k, q), from, s) /\ OnStream(Drop(k, q), from + k, s)
  <1>1. k \in Nat /\ Len(q) \in Nat /\ k <= Len(q)
    OBVIOUS
  <1>2. OnStream(Take(k, q), from, s)
    <2>1. /\ Len(Take(k, q)) = k /\ \A i \in 1 .. k : Take(k, q)[i] = q[i]
      BY TakeDrop
    <2>2. \A i \in 1 .. k : i \in 1 .. Len(q)
      BY <1>1
    <2> QED BY <2>1, <2>2 DEF OnStream
  <1>3. ASSUME NEW i \in 1 .. Len(q) - k, NEW n \in Nat, NEW r \in 1 .. 6,
               (from + k) + i = 6 * n + r
        PROVE  Drop(k, q)[i] = Encode(s[n + 1])[r]
    <2>1. k + i \in 1 .. Len(q) /\ from + (k + i) = 6 * n + r
      BY <1>1, <1>3
    <2>2. q[k + i] = Encode(s[n + 1])[r]
      BY <2>1 DEF OnStream
    <2>3. Drop(k, q)[i] = q[k + i]
      BY TakeDrop
    <2> QED BY <2>2, <2>3
  <1>4. Len(Drop(k, q)) = Len(q) - k
    BY TakeDrop
  <1> QED BY <1>2, <1>3, <1>4 DEF OnStream

\* What follows on the stream may be appended.
LEMMA StreamJoin ==
  ASSUME NEW a \in Seq(Byte), NEW b \in Seq(Byte), NEW from \in Nat, NEW s,
         OnStream(a, from, s), OnStream(b, from + Len(a), s)
  PROVE  OnStream(a \o b, from, s)
  <1>0. Len(a \o b) = Len(a) + Len(b)
    BY Cat
  <1> SUFFICES ASSUME NEW i \in 1 .. Len(a) + Len(b), NEW n \in Nat, NEW r \in 1 .. 6,
                      from + i = 6 * n + r
               PROVE  (a \o b)[i] = Encode(s[n + 1])[r]
    BY <1>0 DEF OnStream
  <1>1. Len(a) \in Nat /\ Len(b) \in Nat
    OBVIOUS
  <1>2. CASE i <= Len(a)
    <2>1. i \in 1 .. Len(a)
      BY <1>1, <1>2
    <2>2. a[i] = Encode(s[n + 1])[r]
      BY <2>1 DEF OnStream
    <2> QED BY <2>1, <2>2, Cat
  <1>3. CASE i > Len(a)
    <2> DEFINE j == i - Len(a)
    <2>1. j \in 1 .. Len(b) /\ Len(a) + j = i /\ (from + Len(a)) + j = 6 * n + r
      BY <1>1, <1>3
    <2> HIDE DEF j
    <2>2. b[j] = Encode(s[n + 1])[r]
      BY <2>1 DEF OnStream
    <2>3. (a \o b)[Len(a) + j] = b[j]
      BY <2>1, Cat
    <2> QED BY <2>1, <2>2, <2>3
  <1> QED BY <1>1, <1>2, <1>3

\* A message sent later does not disturb what was sent before.
LEMMA StreamMore ==
  ASSUME NEW b \in Seq(Byte), NEW from \in Nat, NEW s \in Seq(Upstream), NEW m \in Upstream,
         OnStream(b, from, s), from + Len(b) <= 6 * Len(s)
  PROVE  OnStream(b, from, Append(s, m))
  <1>1. Len(b) \in Nat /\ Len(s) \in Nat
    OBVIOUS
  <1>2. ASSUME NEW i \in 1 .. Len(b), NEW q \in Nat, NEW r \in 1 .. 6, from + i = 6 * q + r
        PROVE  b[i] = Encode(Append(s, m)[q + 1])[r]
    <2>1. q + 1 \in 1 .. Len(s)
      BY <1>1, <1>2
    <2>2. Append(s, m)[q + 1] = s[q + 1]
      BY <2>1, AppendProperties
    <2>3. b[i] = Encode(s[q + 1])[r]
      BY <1>2 DEF OnStream
    <2> QED BY <2>2, <2>3
  <1> QED BY <1>2 DEF OnStream

\* A buffer at a frame boundary starts with the message that is due.
LEMMA StreamStarts ==
  ASSUME NEW b \in Seq(Byte), NEW g \in Nat, NEW s, OnStream(b, 6 * g, s)
  PROVE  Starts(b, s[g + 1])
  <1>1. ASSUME NEW i \in 1 .. Len(b), i <= 6 PROVE b[i] = Encode(s[g + 1])[i]
    <2>1. i \in 1 .. 6 /\ 6 * g + i = 6 * g + i
      BY <1>1
    <2> QED BY <2>1 DEF OnStream
  <1> QED BY <1>1 DEF Starts

\* So that is what the daemon takes out, once it is whole, whatever it takes it for.
LEMMA StreamDecodes ==
  ASSUME NEW b \in Seq(Byte), NEW g \in Nat, NEW s, OnStream(b, 6 * g, s),
         s[g + 1] \in Upstream
  PROVE  /\ TryDecode(b, Upstream) = IF Len(b) < 6 THEN NoFrame
                                     ELSE [msg |-> s[g + 1], used |-> 6]
         /\ \A types : TryDecode(b, types) =
              IF Len(b) < 6 THEN NoFrame
              ELSE [msg |-> Parse(Payload(s[g + 1]), types), used |-> 6]
  <1>1. s[g + 1] \in Messages
    BY DEF Messages
  <1>2. Starts(b, s[g + 1])
    BY StreamStarts
  <1>3. Parse(Payload(s[g + 1]), Upstream) = s[g + 1]
    BY <1>1, ParseIs
  <1>4. \A types : TryDecode(b, types) =
              IF Len(b) < 6 THEN NoFrame
              ELSE [msg |-> Parse(Payload(s[g + 1]), types), used |-> 6]
    BY <1>1, <1>2, DecodeIs
  <1> QED BY <1>3, <1>4

-----------------------------------------------------------------------------
(* The inductive invariant *)

\* How many messages were sent, and taken out.
Asked  == Len(sent)
Served == Len(got)

\* What was taken out is what was sent.
Follows ==
  /\ sent \in Seq(Upstream) /\ got \in Seq(Upstream)
  /\ Served <= Asked
  /\ \A i \in 1 .. Served : got[i] = sent[i]

\* The command-line client asks to attach and then to detach; the daemon follows.
Order ==
  /\ sent \in {<<>>, <<"Attach">>, <<"Attach", "Detach">>}
  /\ got \in {<<>>, <<"Attach">>, <<"Attach", "Detach">>}
  /\ Served <= Asked

\* How far the client has come with that.
Where ==
  /\ client = "start" => Asked = 0
  /\ client \in {"attach", "recv_fd", "attached", "stray"} => Asked = 1
  /\ client = "detach" => Asked = 2
  /\ client \in {"recv_fd", "attached", "stray", "detach"} => Served >= 1
  /\ client # "eterm"

\* read_buf and the socket hold what is left of the stream of requests and acks.
UpStream ==
  /\ Len(readBuf) + Len(up) = 6 * (Asked - Served)
  /\ OnStream(readBuf, 6 * Served, sent)
  /\ OnStream(up, 6 * Served + Len(readBuf), sent)

\* What takes a push to happen, and what takes an attach.
Causes ==
  /\ pushes = 0 => ~timed /\ ~prev /\ daemon # "await"
  /\ Served = 0 => ~owner /\ ~prev /\ ~dropped /\ pushes = 0 /\ down = <<>> /\ buf = <<>>

\* The tags of the responses are on the wire only once the requests were served.
Tagged(b, g) == \A i \in 1 .. Len(b) : (b[i] = 103 => g >= 1) /\ (b[i] = 104 => g = 2)
Seen == Tagged(down, Served) /\ Tagged(buf, Served)

\* Buffer b, and after it the wire d, begin with message m, which is not whole in b.
Begins(m, b, d) ==
  /\ Len(b) < 6 /\ Len(b) + Len(d) >= 6
  /\ \A i \in 1 .. Len(b) : b[i] = Encode(m)[i]
  /\ \A i \in 1 .. 6 - Len(b) : d[i] = Encode(m)[Len(b) + i]

\* The response to an attach comes first and whole, and the descriptor behind it
\* unless one was dropped; nothing but pushes follows.
AttachAnswered(b, d, n, lost) ==
  \/ Begins("Error", b, d)
  \/ /\ Begins("AttachReady", b, d)
     /\ ~lost => Len(b) + Len(d) >= 7 /\ d[7 - Len(b)] = FdByte
     /\ n = 0 => Len(b) + Len(d) = IF lost THEN 6 ELSE 7
Attaching == client = "attach" /\ Served = 1 => AttachAnswered(buf, down, pushes, dropped)

Receiving ==
  client = "recv_fd" => /\ ~dropped => Len(down) >= 1 /\ down[1] = FdByte
                        /\ pushes = 0 => Len(down) = IF dropped THEN 0 ELSE 1

\* Without pushes the wire is clean when the client asks to detach.
Attached == client = "attached" /\ pushes = 0 => down = <<>>
Detaching ==
  client = "detach" /\ pushes = 0 =>
    IF Served = 1 THEN buf = <<>> /\ down = <<>>
    ELSE Begins("Detached", buf, down) \/ Begins("Error", buf, down)

\* What send_request has returned.
Answers == /\ client \in {"start", "attach", "detach"} => answer = "None"
           /\ answer = "Detached" => Served = 2
           /\ answer = "ParseError" => pushes > 0
           /\ client = "stray" => dropped /\ pushes > 0

\* All that is said of the client and of the wire to it.
Exchange == /\ Where /\ Causes /\ Seen /\ Attaching /\ Receiving /\ Attached
            /\ Detaching /\ Answers

\* Of ETerm nothing is said but that it is not in a call of send_request.
Side == IF eterm THEN client \in {"eterm", "done"} /\ answer = "None" ELSE Order /\ Exchange

IInv == TypeOK /\ Follows /\ UpStream /\ Side

-----------------------------------------------------------------------------
(* The requests *)

\* The counts and what they say.
LEMMA Counts ==
  ASSUME Order
  PROVE  /\ Asked \in {0, 1, 2} /\ Served \in {0, 1, 2} /\ Served <= Asked
         /\ Served = 0 <=> got = <<>>
         /\ Served = 1 <=> got = <<"Attach">>
         /\ Served = 2 <=> got = <<"Attach", "Detach">>
         /\ Asked = 0 <=> sent = <<>>
         /\ Asked = 1 <=> sent = <<"Attach">>
         /\ Asked = 2 <=> sent = <<"Attach", "Detach">>
  BY DEF Order, Asked, Served

\* What the daemon finds in bytes b of the stream: nothing yet, or the message due.
Found(b) ==
  \/ \A types : TryDecode(b, types) = NoFrame
  \/ /\ Served < Asked /\ Len(b) >= 6 /\ sent[Served + 1] \in Upstream
     /\ TryDecode(b, Upstream) = [msg |-> sent[Served + 1], used |-> 6]
     /\ \A types : TryDecode(b, types) = [msg |-> Parse(Payload(sent[Served + 1]), types),
                                          used |-> 6]

\* Whatever has arrived of the stream is one or the other.
LEMMA FindsDue ==
  ASSUME Follows, NEW b \in Seq(Byte), OnStream(b, 6 * Served, sent),
         Len(b) <= 6 * (Asked - Served)
  PROVE  Found(b)
  <1> DEFINE g == Served
             n == Asked
  <1>1. n \in Nat /\ g \in Nat /\ g <= n /\ Len(b) \in Nat
    BY DEF Follows, Asked, Served
  <1>2. Len(b) <= 6 * (n - g) /\ OnStream(b, 6 * g, sent)
    OBVIOUS
  <1>3. g < n => sent[g + 1] \in Upstream
    <2>1. g < n => g + 1 \in 1 .. Len(sent)
      BY <1>1 DEF Asked
    <2> QED BY <2>1 DEF Follows
  <1> HIDE DEF g, n
  <1>4. CASE Len(b) < 4
    BY <1>4 DEF TryDecode, HeaderLen, Found
  <1>5. CASE ~(Len(b) < 4)
    <2>1. g < n
      BY <1>1, <1>2, <1>5
    <2>2. /\ TryDecode(b, Upstream) = IF Len(b) < 6 THEN NoFrame
                                      ELSE [msg |-> sent[g + 1], used |-> 6]
          /\ \A types : TryDecode(b, types) =
               IF Len(b) < 6 THEN NoFrame
               ELSE [msg |-> Parse(Payload(sent[g + 1]), types), used |-> 6]
      BY <1>1, <1>2, <1>3, <2>1, StreamDecodes
    <2>3. CASE Len(b) < 6
      BY <2>2, <2>3 DEF Found
    <2>4. CASE ~(Len(b) < 6)
      <3>1. Len(b) >= 6
        BY <1>1, <2>4
      <3> QED BY <1>3, <2>1, <2>2, <2>4, <3>1 DEF Found, g, n
    <2> QED BY <2>3, <2>4
  <1> QED BY <1>4, <1>5

\* What the steps of the request side do, and no more: nothing, a message sent, some
\* bytes read, or a message taken out.
Idle   == UNCHANGED <<up, readBuf, sent, got>>
Sent   == /\ \E m \in Upstream : up' = up \o Encode(m) /\ sent' = Append(sent, m)
          /\ UNCHANGED <<readBuf, got>>
Moved  == /\ \E k \in 1 .. Len(up) : up' = Drop(k, up) /\ readBuf' = readBuf \o Take(k, up)
          /\ UNCHANGED <<sent, got>>
Popped == /\ Served < Asked
          /\ \E k \in 0 .. Len(up) :
               /\ up' = Drop(k, up)
               /\ Len(readBuf \o Take(k, up)) >= 6
               /\ readBuf' = Drop(6, readBuf \o Take(k, up))
          /\ got' = Append(got, sent[Served + 1])
          /\ UNCHANGED sent

\* The counts follow.
LEMMA CountStep ==
  ASSUME Follows
  PROVE  /\ Sent => Asked' = Asked + 1 /\ Served' = Served
         /\ Idle \/ Moved => Asked' = Asked /\ Served' = Served
         /\ Popped => Asked' = Asked /\ Served' = Served + 1
  <1>1. Sent => Asked' = Asked + 1 /\ Served' = Served
    BY DEF Sent, Follows, Asked, Served
  <1>2. Idle \/ Moved => Asked' = Asked /\ Served' = Served
    BY DEF Idle, Moved, Asked, Served
  <1>3. ASSUME Popped PROVE Asked' = Asked /\ Served' = Served + 1
    <2>1. sent' = sent /\ got' = Append(got, sent[Served + 1])
      BY <1>3 DEF Popped
    <2> DEFINE x == sent[Served + 1]
    <2> HIDE DEF x
    <2>2. got' = Append(got, x) /\ got \in Seq(Upstream)
      BY <2>1 DEF x, Follows
    <2>3. Len(got') = Len(got) + 1
      <3>1. got \in Seq(Upstream \cup {x})
        BY <2>2
      <3> QED BY <2>2, <3>1, AppendProperties
    <2> QED BY <2>1, <2>3 DEF Asked, Served
  <1> QED BY <1>1, <1>2, <1>3

\* Bytes that are read join those before them on the stream.
LEMMA ReadJoins ==
  ASSUME TypeOK, Follows, UpStream, NEW k \in 0 .. Len(up)
  PROVE  LET b == readBuf \o Take(k, up)
         IN  /\ b \in Seq(Byte) /\ Len(b) = Len(readBuf) + k
             /\ OnStream(b, 6 * Served, sent)
             /\ Drop(k, up) \in Seq(Byte) /\ Len(Drop(k, up)) = Len(up) - k
             /\ OnStream(Drop(k, up), 6 * Served + Len(b), sent)
             /\ Found(b)
  <1> DEFINE f == 6 * Served
             t == Take(k, up)
             b == readBuf \o t
  <1>1. readBuf \in Seq(Byte) /\ up \in Seq(Byte) /\ Len(readBuf) \in Nat /\ Len(up) \in Nat
    BY DEF TypeOK, Byte
  <1>2. f \in Nat /\ 6 * (Asked - Served) \in Int
    BY DEF Follows, Asked, Served
  <1>3. /\ OnStream(readBuf, f, sent) /\ OnStream(up, f + Len(readBuf), sent)
        /\ f + Len(readBuf) \in Nat
    BY <1>1, <1>2 DEF UpStream
  <1> HIDE DEF f
  <1>4. /\ t \in Seq(Byte) /\ Len(t) = k /\ Drop(k, up) \in Seq(Byte)
        /\ Len(Drop(k, up)) = Len(up) - k
        /\ OnStream(t, f + Len(readBuf), sent)
        /\ OnStream(Drop(k, up), (f + Len(readBuf)) + k, sent)
    BY <1>1, <1>3, TakeDrop, StreamSplit
  <1> HIDE DEF t
  <1>5. b \in Seq(Byte) /\ Len(b) = Len(readBuf) + k /\ OnStream(b, f, sent)
    BY <1>1, <1>2, <1>3, <1>4, Cat, StreamJoin
  <1> HIDE DEF b
  <1>6. (f + Len(readBuf)) + k = f + Len(b)
    BY <1>1, <1>2, <1>5
  <1>7. Len(b) <= 6 * (Asked - Served)
    <2>1. k <= Len(up) /\ k \in Nat /\ Len(readBuf) + Len(up) = 6 * (Asked - Served)
      BY <1>1 DEF UpStream
    <2> QED BY <1>1, <1>2, <1>5, <2>1
  <1>8. Found(b)
    BY <1>5, <1>7, FindsDue DEF f
  <1> QED BY <1>4, <1>5, <1>6, <1>8 DEF b, t, f

\* A read of nothing.
LEMMA ReadNone ==
  ASSUME NEW a \in Seq(Byte), NEW q \in Seq(Byte)
  PROVE  a \o Take(0, q) = a /\ Drop(0, q) = q /\ 0 \in 0 .. Len(q)
  <1>1. Len(q) \in Nat /\ 0 \in 0 .. Len(q)
    OBVIOUS
  <1>2. Take(0, q) \in Seq(Byte) /\ Len(Take(0, q)) = 0
    BY <1>1, TakeDrop
  <1>3. Take(0, q) = <<>>
    BY <1>2
  <1>4. Drop(0, q) \in Seq(Byte) /\ Len(Drop(0, q)) = Len(q)
        /\ \A i \in 1 .. Len(q) : Drop(0, q)[i] = q[i]
    BY <1>1, TakeDrop
  <1>5. Drop(0, q) = q
    BY <1>4, SeqEqual
  <1> QED BY <1>1, <1>3, <1>5

\* The message sent last is behind all the others on the stream.
LEMMA SentGoesOn ==
  ASSUME NEW s \in Seq(Upstream), NEW m \in Upstream
  PROVE  /\ Encode(m) \in Seq(Byte) /\ Len(Encode(m)) = 6
         /\ OnStream(Encode(m), 6 * Len(s), Append(s, m))
  <1>1. m \in Messages
    BY DEF Messages
  <1>2. Encode(m) \in Seq(Byte) /\ Len(Encode(m)) = 6
    BY <1>1, EncodeIs
  <1> DEFINE n == Len(s)
  <1>3. n \in Nat /\ Append(s, m)[n + 1] = m
    OBVIOUS
  <1> HIDE DEF n
  <1>4. ASSUME NEW i \in 1 .. 6, NEW q \in Nat, NEW r \in 1 .. 6, 6 * n + i = 6 * q + r
        PROVE  Encode(m)[i] = Encode(Append(s, m)[q + 1])[r]
    <2>1. q = n /\ r = i
      BY <1>3, <1>4
    <2> QED BY <1>3, <2>1
  <1>5. OnStream(Encode(m), 6 * n, Append(s, m))
    BY <1>2, <1>4 DEF OnStream
  <1> QED BY <1>2, <1>5 DEF n

\* How the lengths go on when a message is sent, and when one is taken out.
LEMMA Lengths ==
  ASSUME NEW n \in Nat, NEW g \in Nat, NEW a \in Nat, NEW u \in Nat, a + u = 6 * (n - g)
  PROVE  /\ a + (u + 6) = 6 * ((n + 1) - g)
         /\ \A k \in 0 .. u : ((a + k) - 6) + (u - k) = 6 * (n - (g + 1))
         /\ \A c \in Nat : 6 * g + c = 6 * (g + 1) + (c - 6)
  <1>1. 6 * ((n + 1) - g) = 6 * (n - g) + 6 /\ 6 * (n - (g + 1)) = 6 * (n - g) - 6
    OBVIOUS
  <1>2. 6 * (g + 1) = 6 * g + 6 /\ 6 * g \in Nat
    OBVIOUS
  <1> DEFINE w == 6 * (n - g)
             v == 6 * g
  <1>3. a + u = w /\ v \in Nat /\ w \in Int
    BY <1>2
  <1>4. 6 * ((n + 1) - g) = w + 6 /\ 6 * (n - (g + 1)) = w - 6 /\ 6 * (g + 1) = v + 6
    BY <1>1, <1>2
  <1> HIDE DEF w, v
  <1>5. a + (u + 6) = w + 6 /\ \A k \in 0 .. u : ((a + k) - 6) + (u - k) = w - 6
    BY <1>3
  <1>6. \A c \in Nat : v + c = (v + 6) + (c - 6)
    BY <1>3
  <1> QED BY <1>4, <1>5, <1>6 DEF v

\* The stream stays whole: a message is sent.
LEMMA SentStep ==
  ASSUME TypeOK, Follows, UpStream, Sent
  PROVE  UpStream' /\ Follows' /\ up' \in Seq(Byte) /\ readBuf' \in Seq(Byte)
  <1> DEFINE n == Asked
             g == Served
  <1>1. n \in Nat /\ g \in Nat /\ g <= n /\ n = Len(sent) /\ sent \in Seq(Upstream)
    BY DEF Follows, Asked, Served
  <1>2. readBuf \in Seq(Byte) /\ up \in Seq(Byte) /\ Len(readBuf) \in Nat /\ Len(up) \in Nat
    BY DEF TypeOK, Byte
  <1>3. /\ Len(readBuf) + Len(up) = 6 * (n - g)
        /\ OnStream(readBuf, 6 * g, sent) /\ OnStream(up, 6 * g + Len(readBuf), sent)
    BY DEF UpStream
  <1>4. PICK m \in Upstream : up' = up \o Encode(m) /\ sent' = Append(sent, m)
    BY DEF Sent
  <1>5. readBuf' = readBuf /\ got' = got /\ Asked' = n + 1 /\ Served' = g
    BY CountStep DEF Sent
  <1> DEFINE e == Encode(m)
             z == Append(sent, m)
             f == 6 * g + Len(readBuf)
  <1>6. e \in Seq(Byte) /\ Len(e) = 6 /\ OnStream(e, 6 * n, z)
    BY <1>1, SentGoesOn
  <1>7. /\ z \in Seq(Upstream) /\ \A i \in 1 .. n : z[i] = sent[i]
    BY <1>1, AppendProperties
  <1>8. 6 * g \in Nat /\ 6 * g + Len(readBuf) <= 6 * n /\ f \in Nat /\ f + Len(up) = 6 * n
    <2> HIDE DEF n, g
    <2> QED BY <1>1, <1>2, <1>3
  <1>9. OnStream(readBuf, 6 * g, z) /\ OnStream(up, f, z)
    <2>1. 6 * g + Len(readBuf) <= 6 * Len(sent) /\ f + Len(up) <= 6 * Len(sent)
      <3> HIDE DEF f, g
      <3> QED BY <1>1, <1>2, <1>8
    <2> QED BY <1>1, <1>2, <1>3, <1>8, <2>1, StreamMore
  <1> HIDE DEF e, z, f, n, g
  <1>10. up \o e \in Seq(Byte) /\ Len(up \o e) = Len(up) + 6
    <2>1. up \o e \in Seq(Byte) /\ Len(up \o e) = Len(up) + Len(e)
      BY <1>2, <1>6, Cat
    <2> QED BY <1>6, <2>1
  <1>11. OnStream(up \o e, f, z)
    <2>1. OnStream(e, f + Len(up), z)
      BY <1>6, <1>8
    <2> QED BY <1>2, <1>6, <1>8, <1>9, <2>1, StreamJoin
  <1>12. up' = up \o e /\ sent' = z
    BY <1>4 DEF e, z
  <1>13. Len(readBuf) + Len(up') = 6 * ((n + 1) - g)
    <2>1. Len(up') = Len(up) + 6
      BY <1>10, <1>12
    <2>2. n \in Nat /\ g \in Nat /\ Len(readBuf) + Len(up) = 6 * (n - g)
      BY <1>1, <1>3
    <2>3. Len(readBuf) + (Len(up) + 6) = 6 * ((n + 1) - g)
      BY <1>2, <2>2, Lengths
    <2> QED BY <2>1, <2>3
  <1>14. UpStream'
    <2>1. OnStream(readBuf', 6 * Served', sent')
      BY <1>5, <1>9, <1>12
    <2>2. OnStream(up', 6 * Served' + Len(readBuf'), sent')
      BY <1>5, <1>11, <1>12 DEF f
    <2>3. Len(readBuf') + Len(up') = 6 * (Asked' - Served')
      BY <1>5, <1>13
    <2> QED BY <2>1, <2>2, <2>3 DEF UpStream, OnStream
  <1>15. Follows'
    <2>1. got' \in Seq(Upstream) /\ sent' \in Seq(Upstream)
      BY <1>5, <1>7, <1>12 DEF Follows
    <2>2. \A i \in 1 .. g : got[i] = sent[i] /\ i \in 1 .. n
      BY <1>1 DEF Follows, g
    <2>3. \A i \in 1 .. g : got'[i] = sent'[i]
      BY <1>5, <1>7, <1>12, <2>2
    <2>4. g <= n + 1
      BY <1>1
    <2> QED BY <1>5, <2>1, <2>3, <2>4 DEF Follows
  <1> QED BY <1>2, <1>5, <1>10, <1>12, <1>14, <1>15

\* Bytes are read.
LEMMA MovedStep ==
  ASSUME TypeOK, Follows, UpStream, Moved
  PROVE  UpStream' /\ Follows' /\ up' \in Seq(Byte) /\ readBuf' \in Seq(Byte)
  <1> DEFINE n == Asked
             g == Served
  <1>1. n \in Nat /\ g \in Nat /\ g <= n /\ Len(readBuf) \in Nat /\ Len(up) \in Nat
    BY DEF Follows, Asked, Served, TypeOK
  <1>2. PICK k \in 1 .. Len(up) : up' = Drop(k, up) /\ readBuf' = readBuf \o Take(k, up)
    BY DEF Moved
  <1>3. sent' = sent /\ got' = got /\ Asked' = n /\ Served' = g
    BY CountStep DEF Moved
  <1>4. k \in 0 .. Len(up) /\ k <= Len(up) /\ k \in Nat
    BY <1>1
  <1>5. /\ readBuf' \in Seq(Byte) /\ Len(readBuf') = Len(readBuf) + k
        /\ OnStream(readBuf', 6 * g, sent)
        /\ up' \in Seq(Byte) /\ Len(up') = Len(up) - k
        /\ OnStream(up', 6 * g + Len(readBuf'), sent)
    BY <1>2, <1>4, ReadJoins
  <1>6. Len(readBuf) + Len(up) = 6 * (n - g)
    BY DEF UpStream
  <1> HIDE DEF n, g
  <1>7. Len(readBuf') + Len(up') = 6 * (n - g)
    BY <1>1, <1>4, <1>5, <1>6, SMTT(30)
  <1>8. UpStream'
    <2>1. OnStream(readBuf', 6 * Served', sent') /\ OnStream(up', 6 * Served' + Len(readBuf'), sent')
      BY <1>3, <1>5
    <2> QED BY <1>3, <1>7, <2>1 DEF UpStream, OnStream
  <1>9. Follows'
    BY <1>3 DEF Follows, n, g
  <1> QED BY <1>5, <1>8, <1>9

\* A message is taken out.
LEMMA PoppedStep ==
  ASSUME TypeOK, Follows, UpStream, Popped
  PROVE  UpStream' /\ Follows' /\ up' \in Seq(Byte) /\ readBuf' \in Seq(Byte)
  <1> DEFINE n == Asked
             g == Served
             x == sent[Served + 1]
  <1>1. n \in Nat /\ g \in Nat /\ g < n /\ Len(readBuf) \in Nat /\ Len(up) \in Nat
    BY DEF Popped, Follows, Asked, Served, TypeOK
  <1>2. PICK k \in 0 .. Len(up) : /\ up' = Drop(k, up)
                                  /\ Len(readBuf \o Take(k, up)) >= 6
                                  /\ readBuf' = Drop(6, readBuf \o Take(k, up))
    BY DEF Popped
  <1>3. sent' = sent /\ got' = Append(got, x) /\ Asked' = n /\ Served' = g + 1
    BY CountStep DEF Popped
  <1>4. g = Len(got) /\ n = Len(sent) /\ got \in Seq(Upstream) /\ sent \in Seq(Upstream)
        /\ \A i \in 1 .. g : got[i] = sent[i]
    BY DEF Follows, Asked, Served
  <1>x. x = sent[g + 1]
    OBVIOUS
  <1> DEFINE b == readBuf \o Take(k, up)
  <1>5. /\ b \in Seq(Byte) /\ Len(b) = Len(readBuf) + k
        /\ OnStream(b, 6 * g, sent)
        /\ up' \in Seq(Byte) /\ Len(up') = Len(up) - k
        /\ OnStream(up', 6 * g + Len(b), sent) /\ Len(b) >= 6 /\ readBuf' = Drop(6, b)
    BY <1>2, ReadJoins
  <1>6. Len(readBuf) + Len(up) = 6 * (n - g)
    BY DEF UpStream
  <1> HIDE DEF b, n, g, x
  <1>7. 6 \in 0 .. Len(b) /\ 6 * g \in Nat /\ 6 * g + 6 = 6 * (g + 1)
    BY <1>1, <1>5
  <1>8. /\ readBuf' \in Seq(Byte) /\ Len(readBuf') = Len(b) - 6
        /\ OnStream(readBuf', 6 * (g + 1), sent)
    <2>1. Drop(6, b) \in Seq(Byte) /\ Len(Drop(6, b)) = Len(b) - 6
      BY <1>5, <1>7, TakeDrop, ZenonT(20)
    <2>2. OnStream(Drop(6, b), 6 * g + 6, sent)
      BY <1>5, <1>7, StreamSplit
    <2> QED BY <1>5, <1>7, <2>1, <2>2
  <1>9. 6 * g + Len(b) = 6 * (g + 1) + Len(readBuf')
    <2>1. Len(b) \in Nat
      BY <1>5
    <2> QED BY <1>1, <1>6, <1>8, <2>1, Lengths
  <1>10. Len(readBuf') + Len(up') = 6 * (n - (g + 1))
    <2>1. Len(readBuf') = (Len(readBuf) + k) - 6 /\ Len(up') = Len(up) - k
      BY <1>5, <1>8
    <2> QED BY <1>1, <1>6, <2>1, Lengths
  <1>11. UpStream'
    <2>1. OnStream(readBuf', 6 * Served', sent')
      BY <1>3, <1>8
    <2>2. OnStream(up', 6 * Served' + Len(readBuf'), sent')
      BY <1>3, <1>5, <1>9
    <2> QED BY <1>3, <1>10, <2>1, <2>2 DEF UpStream, OnStream
  <1>12. Follows'
    <2>1. g + 1 \in 1 .. n /\ g + 1 <= n
      BY <1>1
    <2>2. x \in Upstream
      BY <1>4, <1>x, <2>1
    <2>3. /\ got' \in Seq(Upstream) /\ \A i \in 1 .. g : got'[i] = got[i]
          /\ got'[g + 1] = x
      BY <1>3, <1>4, <2>2, AppendProperties
    <2>4. ASSUME NEW i \in 1 .. g + 1 PROVE got'[i] = sent[i]
      <3>1. i \in 1 .. g \/ i = g + 1
        BY <1>1
      <3> QED BY <1>4, <1>x, <2>3, <3>1
    <2> QED BY <1>3, <1>4, <2>1, <2>3, <2>4 DEF Follows
  <1> QED BY <1>5, <1>8, <1>11, <1>12

\* Whatever the step, the stream stays whole.
LEMMA StreamStep ==
  ASSUME TypeOK, Follows, UpStream, Idle \/ Sent \/ Moved \/ Popped
  PROVE  UpStream' /\ Follows' /\ up' \in Seq(Byte) /\ readBuf' \in Seq(Byte)
  <1>1. CASE Idle
    <2>1. /\ up' = up /\ readBuf' = readBuf /\ sent' = sent /\ got' = got
          /\ Asked' = Asked /\ Served' = Served
      BY <1>1, CountStep DEF Idle
    <2>2. UpStream' /\ Follows'
      BY <2>1 DEF UpStream, OnStream, Follows
    <2> QED BY <2>1, <2>2 DEF TypeOK, Byte
  <1> QED BY <1>1, SentStep, MovedStep, PoppedStep

\* The request the command-line client sends next, and the daemon serves next.
Nth(g) == IF g = 0 THEN "Attach" ELSE "Detach"

\* It is the one on the stream.
LEMMA DueIs ==
  ASSUME Order, Served < Asked
  PROVE  sent[Served + 1] = Nth(Served) /\ Served \in {0, 1}
  <1>1. Asked \in {1, 2} /\ Served \in {0, 1}
    BY Counts
  <1>2. CASE Asked = 1
    <2>1. Served = 0 /\ sent = <<"Attach">>
      BY <1>2, Counts
    <2> QED BY <2>1 DEF Nth
  <1>3. CASE Asked = 2
    <2>1. sent = <<"Attach", "Detach">>
      BY <1>3, Counts
    <2>2. CASE Served = 0
      BY <2>1, <2>2 DEF Nth
    <2>3. CASE Served = 1
      BY <2>1, <2>3 DEF Nth
    <2> QED BY <1>1, <2>2, <2>3
  <1> QED BY <1>1, <1>2, <1>3

\* One request more, of those sent or of those served.
LEMMA OrderMore ==
  ASSUME NEW s \in {<<>>, <<"Attach">>, <<"Attach", "Detach">>}, Len(s) \in {0, 1}
  PROVE  /\ Append(s, Nth(Len(s))) \in {<<"Attach">>, <<"Attach", "Detach">>}
  <1>1. CASE s = <<>>
    <2>1. Nth(Len(s)) = "Attach"
      BY <1>1 DEF Nth
    <2>2. Append(s, "Attach") = <<"Attach">>
      BY <1>1
    <2> QED BY <2>1, <2>2
  <1>2. CASE s = <<"Attach">>
    <2>1. Nth(Len(s)) = "Detach"
      BY <1>2 DEF Nth
    <2>2. Append(<<"Attach">>, "Detach") = <<"Attach", "Detach">>
      BY AppendTwo
    <2> QED BY <1>2, <2>1, <2>2
  <1>3. CASE s = <<"Attach", "Detach">>
    BY <1>3
  <1> QED BY <1>1, <1>2, <1>3

\* The order of the requests is kept.
LEMMA OrderStep ==
  ASSUME Order, Follows, Follows',
         \/ Idle \/ Moved \/ Popped
         \/ Asked <= 1 /\ sent' = Append(sent, Nth(Asked)) /\ got' = got
  PROVE  Order'
  <1>1. /\ sent \in {<<>>, <<"Attach">>, <<"Attach", "Detach">>}
        /\ got \in {<<>>, <<"Attach">>, <<"Attach", "Detach">>}
        /\ Served' <= Asked'
    BY DEF Order, Follows
  <1>2. CASE Idle \/ Moved
    <2>1. sent' = sent /\ got' = got
      BY <1>2 DEF Idle, Moved
    <2> QED BY <1>1, <2>1 DEF Order
  <1>3. CASE Popped
    <2>1. Served < Asked /\ sent' = sent /\ got' = Append(got, sent[Served + 1])
      BY <1>3 DEF Popped
    <2>2. got' = Append(got, Nth(Len(got))) /\ Len(got) \in {0, 1}
      BY <2>1, DueIs DEF Served
    <2>3. got' \in {<<"Attach">>, <<"Attach", "Detach">>}
      BY <1>1, <2>2, OrderMore
    <2> QED BY <1>1, <2>1, <2>3 DEF Order
  <1>4. CASE Asked <= 1 /\ sent' = Append(sent, Nth(Asked)) /\ got' = got
    <2>1. Asked \in {0, 1}
      BY <1>4, Counts
    <2>2. sent' \in {<<"Attach">>, <<"Attach", "Detach">>}
      BY <1>1, <1>4, <2>1, OrderMore DEF Asked
    <2> QED BY <1>1, <1>4, <2>2 DEF Order
  <1> QED BY <1>2, <1>3, <1>4

-----------------------------------------------------------------------------
(* The wire to the client *)

\* Pieces of a wire are tagged like the whole.
LEMMA TaggedPart ==
  ASSUME NEW q \in Seq(Wire), NEW g \in {0, 1, 2}, Tagged(q, g), NEW k \in 0 .. Len(q)
  PROVE  Tagged(Take(k, q), g) /\ Tagged(Drop(k, q), g)
  <1>1. k \in Nat /\ Len(q) \in Nat /\ k <= Len(q)
    OBVIOUS
  <1>2. Tagged(Take(k, q), g)
    <2>1. Len(Take(k, q)) = k /\ \A i \in 1 .. k : Take(k, q)[i] = q[i]
      BY TakeDrop
    <2>2. \A i \in 1 .. k : i \in 1 .. Len(q)
      BY <1>1
    <2> QED BY <2>1, <2>2 DEF Tagged
  <1>3. Len(Drop(k, q)) = Len(q) - k /\ \A i \in 1 .. Len(q) - k : Drop(k, q)[i] = q[k + i]
    BY TakeDrop
  <1>4. \A i \in 1 .. Len(q) - k : k + i \in 1 .. Len(q)
    BY <1>1
  <1>5. Tagged(Drop(k, q), g)
    BY <1>3, <1>4 DEF Tagged
  <1> QED BY <1>2, <1>5

\* Two tagged pieces make one.
LEMMA TaggedCat ==
  ASSUME NEW S, NEW a \in Seq(S), NEW b \in Seq(S), NEW g \in {0, 1, 2}, Tagged(a, g), Tagged(b, g)
  PROVE  Tagged(a \o b, g)
  <1> SUFFICES ASSUME NEW i \in 1 .. Len(a) + Len(b)
               PROVE  ((a \o b)[i] = 103 => g >= 1) /\ ((a \o b)[i] = 104 => g = 2)
    BY Cat DEF Tagged
  <1>1. Len(a) \in Nat /\ Len(b) \in Nat
    OBVIOUS
  <1>2. CASE i <= Len(a)
    <2>1. i \in 1 .. Len(a)
      BY <1>1, <1>2
    <2> QED BY <2>1, Cat DEF Tagged
  <1>3. CASE i > Len(a)
    <2> DEFINE j == i - Len(a)
    <2>1. j \in 1 .. Len(b) /\ Len(a) + j = i
      BY <1>1, <1>3
    <2> HIDE DEF j
    <2>2. (a \o b)[Len(a) + j] = b[j]
      BY <2>1, Cat
    <2> QED BY <2>1, <2>2 DEF Tagged
  <1> QED BY <1>1, <1>2, <1>3

\* More served allows more.
LEMMA TaggedMore ==
  ASSUME NEW q, NEW g \in {0, 1, 2}, NEW h \in {0, 1, 2}, g <= h, Tagged(q, g)
  PROVE  Tagged(q, h)
  BY DEF Tagged

\* Reading bytes does not make tags.
LEMMA TaggedValue ==
  ASSUME NEW q \in Seq(Wire), NEW g \in {0, 1, 2}, Tagged(q, g)
  PROVE  Tagged(Value(q), g)
  <1>1. \A x \in Wire : x = 256 \/ x \in Byte
    BY DEF Wire, Byte, FdByte
  <1>2. \A i \in 1 .. Len(q) : q[i] \in Wire
    OBVIOUS
  <1>3. ASSUME NEW i \in 1 .. Len(q) PROVE Value(q)[i] = 0 \/ Value(q)[i] = q[i]
    <2>1. CASE q[i] \in Byte
      BY <2>1, ValueIs
    <2>2. CASE q[i] = 256
      BY <2>2, ValueIs
    <2> QED BY <1>1, <1>2, <2>1, <2>2
  <1> QED BY <1>3, ValueIs DEF Tagged

\* The descriptor's byte is among those read, or it is not.
LEMMA HasFdIs ==
  ASSUME NEW q \in Seq(Wire)
  PROVE  HasFd(q) <=> \E i \in 1 .. Len(q) : q[i] = FdByte
  BY DEF HasFd, ToSet

\* What write_all may have written: a piece from the front, all of it without a timeout.
LEMMA WritesIs ==
  ASSUME TypeOK, NEW m \in Messages, NEW bytes \in Writes(m)
  PROVE  /\ bytes \in Seq(Byte) /\ Len(bytes) <= 6
         /\ \A i \in 1 .. Len(bytes) : bytes[i] = Encode(m)[i]
         /\ ~timed' => bytes = Encode(m)
  <1> DEFINE e == Encode(m)
  <1>1. e \in Seq(Byte) /\ Len(e) = 6
    BY EncodeIs
  <1>2. Room \in Nat
    BY FramingAssumption DEF Room, TypeOK
  <1> HIDE DEF e
  <1>3. CASE bytes = e
    <2>1. bytes \in Seq(Byte) /\ Len(bytes) = 6
      BY <1>1, <1>3, Zenon
    <2>2. \A i \in 1 .. Len(bytes) : bytes[i] = e[i]
      BY <1>3, Zenon
    <2>3. Len(bytes) <= 6
      BY <2>1
    <2> QED BY <1>3, <2>1, <2>2, <2>3 DEF e
  <1>4. CASE bytes # e
    <2>1. PICK k \in Room .. Len(e) : timed' /\ bytes = Take(k, e)
      BY <1>4 DEF Writes, e
    <2>2. k \in 0 .. Len(e) /\ k <= 6
      BY <1>1, <1>2
    <2> QED BY <1>1, <2>1, <2>2, TakeDrop DEF e
  <1> QED BY <1>3, <1>4

\* What was written of a message carries its tag and no other.
LEMMA WritesTagged ==
  ASSUME TypeOK, NEW m \in Messages, NEW bytes \in Writes(m), NEW g \in {0, 1, 2},
         m = "AttachReady" => g >= 1, m = "Detached" => g = 2
  PROVE  Tagged(bytes, g)
  <1>1. \A i \in 1 .. Len(bytes) : bytes[i] = Encode(m)[i] /\ i \in 1 .. 6
    <2>1. bytes \in Seq(Byte) /\ Len(bytes) <= 6
      BY WritesIs
    <2>2. Len(bytes) \in Nat
      BY <2>1
    <2>3. \A i \in 1 .. Len(bytes) : i \in 1 .. 6
      BY <2>1, <2>2
    <2> QED BY <2>3, WritesIs
  <1>2. \A i \in 1 .. 6 : Encode(m)[i] \in {0, 2, Tag[m]}
    <2>1. \A i \in 1 .. 6 : i = 1 \/ i = 2 \/ i = 3 \/ i = 4 \/ i = 5 \/ i = 6
      OBVIOUS
    <2> QED BY <2>1, EncodeIs
  <1>3. (Tag[m] = 103 => m = "AttachReady") /\ (Tag[m] = 104 => m = "Detached")
    BY TagOK DEF Messages, Responses
  <1> QED BY <1>1, <1>2, <1>3 DEF Tagged

\* A message that has begun goes on whatever follows it on the wire.
LEMMA BeginsAppend ==
  ASSUME NEW b \in Seq(Byte), NEW d \in Seq(Wire), NEW x \in Seq(Wire), NEW m, Begins(m, b, d)
  PROVE  Begins(m, b, d \o x)
  <1>1. Len(b) \in Nat /\ Len(d) \in Nat /\ Len(x) \in Nat
    OBVIOUS
  <1>2. Len(d \o x) = Len(d) + Len(x) /\ \A i \in 1 .. Len(d) : (d \o x)[i] = d[i]
    BY Cat
  <1>3. \A i \in 1 .. 6 - Len(b) : i \in 1 .. Len(d)
    BY <1>1 DEF Begins
  <1>4. Len(b) + Len(d \o x) >= 6
    BY <1>1, <1>2 DEF Begins
  <1> QED BY <1>2, <1>3, <1>4 DEF Begins

\* So does the answer to an attach.
LEMMA AnsweredAppend ==
  ASSUME NEW b \in Seq(Byte), NEW d \in Seq(Wire), NEW x \in Seq(Wire),
         NEW n, NEW lost \in BOOLEAN, NEW n2 \in Nat \ {0}, NEW lost2 \in BOOLEAN, lost => lost2,
         AttachAnswered(b, d, n, lost)
  PROVE  AttachAnswered(b, d \o x, n2, lost2)
  <1>1. Len(b) \in Nat /\ Len(d) \in Nat /\ Len(x) \in Nat /\ n2 # 0
    OBVIOUS
  <1>2. Len(d \o x) = Len(d) + Len(x) /\ \A i \in 1 .. Len(d) : (d \o x)[i] = d[i]
    BY Cat
  <1>3. CASE Begins("Error", b, d)
    BY <1>3, BeginsAppend DEF AttachAnswered
  <1>4. CASE ~Begins("Error", b, d)
    <2>1. /\ Begins("AttachReady", b, d)
          /\ ~lost => Len(b) + Len(d) >= 7 /\ d[7 - Len(b)] = FdByte
      BY <1>4 DEF AttachAnswered
    <2>2. Begins("AttachReady", b, d \o x) /\ Len(b) < 6
      BY <2>1, BeginsAppend DEF Begins
    <2>3. ASSUME ~lost2 PROVE Len(b) + Len(d \o x) >= 7 /\ (d \o x)[7 - Len(b)] = FdByte
      <3>1. Len(b) + Len(d) >= 7 /\ d[7 - Len(b)] = FdByte
        BY <2>1, <2>3
      <3>2. 7 - Len(b) \in 1 .. Len(d)
        BY <1>1, <2>2, <3>1
      <3>3. Len(b) + Len(d \o x) >= 7
        BY <1>1, <1>2, <3>1
      <3> QED BY <1>2, <3>1, <3>2, <3>3
    <2> QED BY <1>1, <2>2, <2>3 DEF AttachAnswered
  <1> QED BY <1>3, <1>4

\* A read of part of the message goes on with it.
LEMMA BeginsRead ==
  ASSUME NEW m \in Messages, NEW b \in Seq(Byte), NEW d \in Seq(Wire), Begins(m, b, d),
         NEW k \in 1 .. Len(d)
  PROVE  LET all == b \o Value(Take(k, d))
         IN  /\ all \in Seq(Byte) /\ Len(all) = Len(b) + k /\ Starts(all, m)
             /\ k < 6 - Len(b) => Begins(m, all, Drop(k, d))
             /\ \A i \in 1 .. k : i <= 6 - Len(b) => Take(k, d)[i] # FdByte
  <1> DEFINE t == Take(k, d)
             v == Value(t)
             all == b \o v
             r == Drop(k, d)
             e == Encode(m)
  <1>1. /\ Len(b) \in Nat /\ Len(d) \in Nat /\ k \in 0 .. Len(d) /\ k \in Nat /\ 1 <= k
        /\ k <= Len(d)
    OBVIOUS
  <1>2. e \in Seq(Byte) /\ Len(e) = 6 /\ \A i \in 1 .. 6 : e[i] \in Byte
    BY EncodeIs
  <1>3. /\ Len(b) < 6 /\ Len(b) + Len(d) >= 6
        /\ \A i \in 1 .. Len(b) : b[i] = e[i]
        /\ \A i \in 1 .. 6 - Len(b) : d[i] = e[Len(b) + i]
    BY DEF Begins
  <1>4. /\ t \in Seq(Wire) /\ Len(t) = k /\ \A i \in 1 .. k : t[i] = d[i]
        /\ r \in Seq(Wire) /\ Len(r) = Len(d) - k /\ \A i \in 1 .. Len(d) - k : r[i] = d[k + i]
    BY <1>1, TakeDrop
  <1> HIDE DEF t, r, e
  <1>5. v \in Seq(Byte) /\ Len(v) = k /\ \A i \in 1 .. k : t[i] \in Byte => v[i] = t[i]
    BY <1>4, ValueIs
  <1> HIDE DEF v
  <1>6. /\ all \in Seq(Byte) /\ Len(all) = Len(b) + k
        /\ \A i \in 1 .. Len(b) : all[i] = b[i]
        /\ \A i \in 1 .. k : all[Len(b) + i] = v[i]
    <2>1. /\ all \in Seq(Byte) /\ Len(all) = Len(b) + Len(v)
          /\ \A i \in 1 .. Len(b) : all[i] = b[i]
          /\ \A i \in 1 .. Len(v) : all[Len(b) + i] = v[i]
      <3>1. v \in Seq(Byte) /\ b \in Seq(Byte)
        BY <1>5
      <3>2. all \in Seq(Byte) /\ Len(all) = Len(b) + Len(v)
        BY <3>1, Cat
      <3>3. \A i \in 1 .. Len(b) : all[i] = b[i]
        BY <3>1, Cat
      <3>4. \A i \in 1 .. Len(v) : all[Len(b) + i] = v[i]
        BY <3>1, Cat
      <3> QED BY <3>2, <3>3, <3>4
    <2> HIDE DEF all
    <2> QED BY <1>5, <2>1
  <1> HIDE DEF all
  <1>7. ASSUME NEW i \in 1 .. k, i <= 6 - Len(b)
        PROVE  t[i] = e[Len(b) + i] /\ t[i] \in Byte /\ v[i] = e[Len(b) + i]
    <2>1. i \in 1 .. 6 - Len(b) /\ Len(b) + i \in 1 .. 6
      BY <1>1, <1>3, <1>7
    <2>2. t[i] = e[Len(b) + i] /\ t[i] \in Byte
      BY <1>2, <1>3, <1>4, <2>1
    <2> QED BY <1>5, <2>2
  <1>8. ASSUME NEW i \in 1 .. Len(all), i <= 6 PROVE all[i] = e[i]
    <2>1. CASE i <= Len(b)
      <3>1. i \in 1 .. Len(b)
        BY <1>1, <2>1
      <3> QED BY <1>3, <1>6, <3>1
    <2>2. CASE ~(i <= Len(b))
      <3> DEFINE j == i - Len(b)
      <3>1. j \in 1 .. k /\ j <= 6 - Len(b) /\ Len(b) + j = i
        BY <1>1, <1>6, <1>8, <2>2
      <3> HIDE DEF j
      <3> QED BY <1>6, <1>7, <3>1
    <2> QED BY <2>1, <2>2
  <1>9. Starts(all, m)
    BY <1>8 DEF Starts, e
  <1>10. ASSUME k < 6 - Len(b) PROVE Begins(m, all, r)
    <2>1. Len(all) < 6 /\ Len(all) + Len(r) >= 6
      BY <1>1, <1>3, <1>4, <1>6, <1>10
    <2>2. \A i \in 1 .. Len(all) : all[i] = e[i]
      BY <1>1, <1>6, <1>8, <2>1
    <2>3. ASSUME NEW i \in 1 .. 6 - Len(all) PROVE r[i] = e[Len(all) + i]
      <3>1. /\ k + i \in 1 .. 6 - Len(b) /\ i \in 1 .. Len(d) - k
            /\ Len(b) + (k + i) = Len(all) + i
        BY <1>1, <1>3, <1>6, <1>10
      <3> QED BY <1>3, <1>4, <3>1
    <2> QED BY <2>1, <2>2, <2>3 DEF Begins, e
  <1>11. \A i \in 1 .. k : i <= 6 - Len(b) => t[i] # FdByte
    BY <1>7, ByteNat DEF FdByte
  <1> QED BY <1>6, <1>9, <1>10, <1>11 DEF all, v, r, t

-----------------------------------------------------------------------------
(* What the steps do to the exchange *)

\* The types the proofs below use.
LEMMA Types ==
  ASSUME TypeOK
  PROVE  /\ up \in Seq(Byte) /\ readBuf \in Seq(Byte) /\ buf \in Seq(Byte) /\ down \in Seq(Wire)
         /\ pushes \in Nat
         /\ owner \in BOOLEAN /\ prev \in BOOLEAN /\ timed \in BOOLEAN /\ dropped \in BOOLEAN
         /\ eterm \in BOOLEAN
  BY FramingAssumption DEF TypeOK, Byte, Wire

\* Steps that leave the wire and the client's call alone, except that it may exit.
Calm == /\ UNCHANGED <<down, buf, answer, timed, pushes, dropped>>
        /\ Asked' = Asked /\ Served' = Served
        /\ client' \in {client, "done"}
        /\ owner' => owner
        /\ prev' => prev \/ pushes # 0
        /\ daemon' = "await" => daemon = "await"

\* They keep all of it.
LEMMA CalmStep ==
  ASSUME Exchange, Calm
  PROVE  Exchange'
  <1>0. /\ down' = down /\ buf' = buf /\ answer' = answer /\ timed' = timed
        /\ pushes' = pushes /\ dropped' = dropped /\ Asked' = Asked /\ Served' = Served
        /\ client' = client \/ client' = "done"
    BY DEF Calm
  <1>1. Where'
    BY <1>0 DEF Exchange, Where
  <1>2. Causes'
    <2>1. pushes = 0 => ~timed' /\ ~prev' /\ daemon' # "await"
      BY <1>0 DEF Exchange, Causes, Calm
    <2>2. Served = 0 => ~owner' /\ ~prev' /\ ~dropped' /\ pushes' = 0 /\ down' = <<>> /\ buf' = <<>>
      BY <1>0 DEF Exchange, Causes, Calm
    <2> QED BY <1>0, <2>1, <2>2 DEF Causes
  <1>3. Seen'
    BY <1>0 DEF Exchange, Seen
  <1>4. Attaching'
    BY <1>0 DEF Exchange, Attaching
  <1>5. Receiving'
    BY <1>0 DEF Exchange, Receiving
  <1>6. Attached'
    BY <1>0 DEF Exchange, Attached
  <1>7. Detaching'
    BY <1>0 DEF Exchange, Detaching
  <1>8. Answers'
    BY <1>0 DEF Exchange, Answers
  <1> QED BY <1>1, <1>2, <1>3, <1>4, <1>5, <1>6, <1>7, <1>8 DEF Exchange

\* A takeover wait ends with a request: somebody was pushed to, so the attach is done.
LEMMA AwaitPops ==
  ASSUME TypeOK, Order, Exchange, daemon = "await", Served' = Served + 1, Asked' = Asked,
         Served < Asked, UNCHANGED <<down, clientVars, timed, pushes, dropped>>
  PROVE  Exchange'
  <1>0. /\ down' = down /\ buf' = buf /\ answer' = answer /\ timed' = timed /\ client' = client
        /\ pushes' = pushes /\ dropped' = dropped
    BY DEF clientVars
  <1>1. pushes # 0
    BY DEF Exchange, Causes
  <1>2. Served = 1 /\ Asked = 2 /\ Served' = 2 /\ Asked' = 2
    <2>1. Served # 0
      BY <1>1 DEF Exchange, Causes
    <2> QED BY <2>1, Counts
  <1>3. Where'
    BY <1>0, <1>2 DEF Exchange, Where
  <1>4. Causes'
    BY <1>0, <1>1, <1>2 DEF Causes
  <1>5. Seen'
    <2>1. Tagged(down, 2) /\ Tagged(buf, 2)
      BY <1>2, TaggedMore DEF Exchange, Seen
    <2> QED BY <1>0, <1>2, <2>1 DEF Seen
  <1>6. client \in {"detach", "done"}
    BY <1>2 DEF Exchange, Where, TypeOK
  <1>7. Attaching' /\ Receiving' /\ Attached' /\ Detaching'
    BY <1>0, <1>1, <1>6 DEF Attaching, Receiving, Attached, Detaching
  <1>8. Answers'
    BY <1>0, <1>1, <1>2 DEF Exchange, Answers
  <1> QED BY <1>3, <1>4, <1>5, <1>7, <1>8 DEF Exchange

\* The client asks to attach.
LEMMA AttachAsked ==
  ASSUME TypeOK, Order, Exchange, AsksAttach, Asked' = Asked + 1, Served' = Served
  PROVE  Exchange'
  <1>0. /\ client = "start" /\ client' = "attach" /\ buf' = <<>> /\ answer' = "None"
        /\ down' = down /\ daemon' = daemon /\ owner' = owner /\ prev' = prev /\ timed' = timed
        /\ pushes' = pushes /\ dropped' = dropped
    BY DEF AsksAttach, Asks, daemonVars
  <1>1. Asked = 0 /\ Served = 0 /\ Asked' = 1 /\ Served' = 0
    BY <1>0, Counts DEF Exchange, Where
  <1>2. Where'
    BY <1>0, <1>1 DEF Where
  <1>3. Causes'
    BY <1>0, <1>1 DEF Exchange, Causes
  <1>4. Seen'
    <2>1. Tagged(<<>>, 0)
      BY DEF Tagged
    <2> QED BY <1>0, <1>1, <2>1 DEF Exchange, Seen
  <1>5. Attaching' /\ Receiving' /\ Attached' /\ Detaching'
    BY <1>0, <1>1 DEF Attaching, Receiving, Attached, Detaching
  <1>6. Answers'
    BY <1>0 DEF Answers
  <1> QED BY <1>2, <1>3, <1>4, <1>5, <1>6 DEF Exchange

\* The client asks to detach.
LEMMA DetachAsked ==
  ASSUME TypeOK, Order, Exchange, AsksDetach, Asked' = Asked + 1, Served' = Served
  PROVE  Exchange'
  <1>0. /\ client = "attached" /\ client' = "detach" /\ buf' = <<>> /\ answer' = "None"
        /\ down' = down /\ daemon' = daemon /\ owner' = owner /\ prev' = prev /\ timed' = timed
        /\ pushes' = pushes /\ dropped' = dropped
    BY DEF AsksDetach, Asks, daemonVars
  <1>1. Asked = 1 /\ Served = 1 /\ Asked' = 2 /\ Served' = 1
    BY <1>0, Counts DEF Exchange, Where
  <1>2. Where'
    BY <1>0, <1>1 DEF Where
  <1>3. Causes'
    BY <1>0, <1>1 DEF Exchange, Causes
  <1>4. Seen'
    <2>1. Tagged(<<>>, 1)
      BY DEF Tagged
    <2> QED BY <1>0, <1>1, <2>1 DEF Exchange, Seen
  <1>5. Attaching' /\ Receiving' /\ Attached'
    BY <1>0, <1>1 DEF Attaching, Receiving, Attached
  <1>6. Detaching'
    BY <1>0, <1>1 DEF Exchange, Attached, Detaching
  <1>7. Answers'
    BY <1>0 DEF Answers
  <1> QED BY <1>2, <1>3, <1>4, <1>5, <1>6, <1>7 DEF Exchange

\* recv_fd finds the byte of the descriptor where there is one.
LEMMA FdReceived ==
  ASSUME TypeOK, Order, Exchange, RecvFd
  PROVE  Exchange'
  <1>0. /\ client = "recv_fd" /\ down # <<>> /\ down' = Tail(down)
        /\ client' = IF Head(down) = FdByte THEN "attached" ELSE "stray"
        /\ buf' = buf /\ answer' = answer /\ sent' = sent /\ got' = got
        /\ daemon' = daemon /\ owner' = owner /\ prev' = prev /\ timed' = timed
        /\ pushes' = pushes /\ dropped' = dropped
    BY DEF RecvFd, daemonVars
  <1>1. Asked' = Asked /\ Served' = Served
    BY <1>0 DEF Asked, Served
  <1>2. Asked = 1 /\ Served = 1
    BY <1>0, Counts DEF Exchange, Where
  <1>3. down \in Seq(Wire) /\ Len(down) \in Nat /\ Len(down) >= 1 /\ pushes \in Nat
    BY <1>0, Types
  <1>4. /\ Tail(down) \in Seq(Wire) /\ Len(Tail(down)) = Len(down) - 1 /\ Head(down) = down[1]
        /\ \A i \in 1 .. Len(down) - 1 : Tail(down)[i] = down[i + 1]
    BY <1>0, <1>3
  <1>5. Where'
    BY <1>0, <1>1, <1>2 DEF Where
  <1>6. Causes'
    BY <1>0, <1>1, <1>2 DEF Exchange, Causes
  <1>7. Seen'
    <2>1. \A i \in 1 .. Len(down) - 1 : i + 1 \in 1 .. Len(down)
      BY <1>3
    <2>2. Tagged(down, 1) /\ Tagged(buf, 1)
      BY <1>2 DEF Exchange, Seen
    <2>3. Tagged(Tail(down), 1)
      BY <1>4, <2>1, <2>2 DEF Tagged
    <2> QED BY <1>0, <1>1, <1>2, <2>2, <2>3 DEF Seen
  <1>8. Attaching' /\ Receiving' /\ Detaching'
    BY <1>0 DEF Attaching, Receiving, Detaching
  <1>9. pushes = 0 => Len(down) = 1 /\ ~dropped
    BY <1>0, <1>3 DEF Exchange, Receiving
  <1>10. Attached'
    <2>1. Len(Tail(down)) = 0 => Tail(down) = <<>>
      <3> DEFINE t == Tail(down)
      <3>1. t \in Seq(Wire)
        BY <1>4
      <3> HIDE DEF t
      <3>2. Len(t) = 0 => t = <<>>
        BY <3>1
      <3> QED BY <3>2 DEF t
    <2> QED BY <1>0, <1>4, <1>9, <2>1 DEF Attached
  <1>11. client' = "stray" => dropped /\ pushes > 0
    <2>1. ~dropped => Head(down) = FdByte
      BY <1>0, <1>4 DEF Exchange, Receiving
    <2> QED BY <1>0, <1>3, <1>9, <2>1
  <1>12. Answers'
    BY <1>0, <1>1, <1>11 DEF Exchange, Answers
  <1> QED BY <1>5, <1>6, <1>7, <1>8, <1>10, <1>12 DEF Exchange


\* A push goes behind what is on the wire.
LEMMA PushAppends ==
  ASSUME TypeOK, Order, Exchange, owner \/ prev, NEW x \in Seq(Wire),
         \A g \in {1, 2} : Tagged(x, g),
         down' = down \o x, pushes' = pushes + 1, dropped => dropped', dropped' \in BOOLEAN,
         UNCHANGED <<clientVars, got>>
  PROVE  Exchange'
  <1>0. client' = client /\ buf' = buf /\ answer' = answer /\ Asked' = Asked /\ Served' = Served
    BY DEF clientVars, Asked, Served
  <1>1. /\ buf \in Seq(Byte) /\ down \in Seq(Wire) /\ Len(down) \in Nat /\ Len(x) \in Nat
        /\ dropped \in BOOLEAN /\ pushes \in Nat
    BY Types
  <1>2. pushes' \in Nat \ {0} /\ pushes' # 0 /\ pushes' > 0
    BY <1>1
  <1>3. Served \in {1, 2}
    BY Counts DEF Exchange, Causes
  <1>4. Where'
    BY <1>0 DEF Exchange, Where
  <1>5. Causes'
    BY <1>0, <1>2, <1>3 DEF Causes
  <1>6. Seen'
    <2>1. Tagged(down, Served) /\ Tagged(buf, Served) /\ Tagged(x, Served)
      BY <1>3 DEF Exchange, Seen
    <2>2. Tagged(down \o x, Served)
      BY <1>1, <1>3, <2>1, TaggedCat
    <2> QED BY <1>0, <2>1, <2>2 DEF Seen
  <1>7. Attaching'
    <2>1. ASSUME client = "attach", Served = 1
          PROVE  AttachAnswered(buf, down \o x, pushes', dropped')
      <3>1. AttachAnswered(buf, down, pushes, dropped)
        BY <2>1 DEF Exchange, Attaching
      <3> QED BY <1>1, <1>2, <3>1, AnsweredAppend
    <2> QED BY <1>0, <2>1 DEF Attaching
  <1>8. Receiving'
    <2>1. ASSUME client = "recv_fd", ~dropped' PROVE Len(down') >= 1 /\ down'[1] = FdByte
      <3>1. Len(down) >= 1 /\ down[1] = FdByte
        BY <2>1 DEF Exchange, Receiving
      <3>2. Len(down \o x) = Len(down) + Len(x) /\ \A i \in 1 .. Len(down) : (down \o x)[i] = down[i]
        BY <1>1, Cat
      <3> QED BY <1>1, <3>1, <3>2
    <2> QED BY <1>0, <1>2, <2>1 DEF Receiving
  <1>9. Attached' /\ Detaching'
    BY <1>2 DEF Attached, Detaching
  <1>10. Answers'
    BY <1>0, <1>2 DEF Exchange, Answers
  <1> QED BY <1>4, <1>5, <1>6, <1>7, <1>8, <1>9, <1>10 DEF Exchange

\* The byte of the descriptor, or nothing, behind what was written.
LEMMA FdBehind ==
  ASSUME NEW w \in Seq(Byte), NEW g \in {0, 1, 2}, Tagged(w, g)
  PROVE  /\ w \o <<FdByte>> \in Seq(Wire) /\ Tagged(w \o <<FdByte>>, g)
         /\ w \in Seq(Wire) /\ w \o <<>> = w
         /\ \A d \in Seq(Wire) : (d \o w) \o <<>> = d \o w /\ (d \o w) \o <<FdByte>> = d \o (w \o <<FdByte>>)
  <1> DEFINE f == <<FdByte>>
  <1>1. f \in Seq(Wire) /\ Tagged(f, g) /\ Len(f) = 1
    BY DEF FdByte, Wire, Tagged
  <1> HIDE DEF f
  <1>2. w \in Seq(Wire) /\ Len(w) \in Nat
    <2>1. \A x \in Byte : x \in Wire
      BY DEF Byte, Wire, FdByte
    <2> QED BY <2>1
  <1>3. w \o f \in Seq(Wire) /\ Tagged(w \o f, g)
    BY <1>1, <1>2, Cat, TaggedCat
  <1>4. w \o <<>> = w
    BY <1>2, ConcatEmptySeq
  <1>5. ASSUME NEW d \in Seq(Wire)
        PROVE  (d \o w) \o <<>> = d \o w /\ (d \o w) \o f = d \o (w \o f)
    <2>1. d \o w \in Seq(Wire)
      BY <1>2, Cat
    <2>2. (d \o w) \o <<>> = d \o w
      BY <2>1, ConcatEmptySeq
    <2>3. (d \o w) \o f = d \o (w \o f)
      BY <1>1, <1>2, ConcatAssociative
    <2> QED BY <2>2, <2>3
  <1> QED BY <1>2, <1>3, <1>4, <1>5 DEF f

\* A takeover or a release pushes.
LEMMA TakeoverPushes ==
  ASSUME TypeOK, Order, Exchange, Takeover
  PROVE  Exchange' /\ Idle
  <1>1. /\ owner /\ pushes' = pushes + 1 /\ dropped' = dropped
        /\ UNCHANGED <<clientVars, got>> /\ Idle
    BY DEF Takeover, Pushed, Idle, clientVars
  <1>2. PICK bytes \in Writes("ForceDetach") : down' = (down \o bytes) \o <<>>
    BY DEF Takeover, Sends
  <1>3. "ForceDetach" \in Messages
    BY DEF Messages, Pushes
  <1>4. bytes \in Seq(Byte) /\ \A g \in {0, 1, 2} : Tagged(bytes, g)
    BY <1>2, <1>3, WritesIs, WritesTagged
  <1>5. bytes \in Seq(Wire) /\ down' = down \o bytes
    BY <1>2, <1>4, FdBehind, Types
  <1>6. \A g \in {1, 2} : Tagged(bytes, g)
    BY <1>4
  <1> QED BY <1>1, <1>5, <1>6, PushAppends, Types

\* The same of a release, with the descriptor behind the push.
LEMMA ResumePushes ==
  ASSUME TypeOK, Order, Exchange, Resume
  PROVE  Exchange' /\ Idle
  <1>1. /\ prev /\ pushes' = pushes + 1
        /\ UNCHANGED <<clientVars, got>> /\ Idle
    BY DEF Resume, Pushed, Idle, clientVars
  <1>2. PICK bytes \in Writes("ResumeAttach") :
          \/ down' = (down \o bytes) \o <<FdByte>> /\ dropped' = dropped
          \/ down' = (down \o bytes) \o <<>> /\ dropped' = TRUE
    BY DEF Resume, Sends
  <1>3. "ResumeAttach" \in Messages
    BY DEF Messages, Pushes
  <1>4. bytes \in Seq(Byte) /\ \A g \in {0, 1, 2} : Tagged(bytes, g)
    BY <1>2, <1>3, WritesIs, WritesTagged
  <1>5. bytes \in Seq(Wire) /\ bytes \o <<FdByte>> \in Seq(Wire)
        /\ \A g \in {1, 2} : Tagged(bytes, g) /\ Tagged(bytes \o <<FdByte>>, g)
    BY <1>4, FdBehind
  <1>6. PICK x \in Seq(Wire) : /\ x = bytes \/ x = bytes \o <<FdByte>>
                               /\ down' = down \o x
    <2>1. down \in Seq(Wire)
      BY Types
    <2>2. (down \o bytes) \o <<>> = down \o bytes
      BY <1>4, <2>1, FdBehind
    <2>3. (down \o bytes) \o <<FdByte>> = down \o (bytes \o <<FdByte>>)
      BY <1>4, <2>1, FdBehind
    <2>4. down' = down \o bytes \/ down' = down \o (bytes \o <<FdByte>>)
      BY <1>2, <2>2, <2>3, Zenon
    <2> QED BY <1>5, <2>4, Zenon
  <1>7. \A g \in {1, 2} : Tagged(x, g)
    BY <1>5, <1>6
  <1>8. dropped' \in BOOLEAN /\ (dropped => dropped')
    <2>1. dropped \in BOOLEAN
      BY Types
    <2>2. dropped' = dropped \/ dropped' = TRUE
      BY <1>2, Zenon
    <2> QED BY <2>1, <2>2
  <1> QED BY <1>1, <1>6, <1>7, <1>8, PushAppends


\* The answer to an attach: the wire was empty and no write is timed.
LEMMA ServesAttach ==
  ASSUME TypeOK, Order, Exchange, Served = 0, Served < Asked, Served' = 1, Asked' = Asked,
         NEW m \in {"AttachReady", "Error"},
         \/ /\ m = "AttachReady" /\ down' = Encode(m) \o <<FdByte>> /\ dropped' = dropped
         \/ /\ m = "AttachReady" /\ down' = Encode(m) /\ dropped' = TRUE
         \/ /\ m # "AttachReady" /\ down' = Encode(m) /\ dropped' = dropped,
         UNCHANGED <<clientVars, daemon, prev, timed, pushes>>
  PROVE  Exchange'
  <1>0. /\ client' = client /\ buf' = buf /\ answer' = answer /\ daemon' = daemon
        /\ prev' = prev /\ timed' = timed /\ pushes' = pushes
    BY DEF clientVars
  <1>1. /\ ~prev /\ ~dropped /\ pushes = 0 /\ buf = <<>> /\ ~timed /\ daemon # "await"
        /\ Len(buf) = 0
    BY DEF Exchange, Causes
  <1>2. client \in {"attach", "done"}
    BY Counts DEF Exchange, Where, TypeOK
  <1>3. Where'
    BY <1>0, <1>2 DEF Exchange, Where
  <1>4. Causes'
    BY <1>0, <1>1 DEF Causes
  <1> DEFINE e == Encode(m)
  <1>5. m \in Messages /\ e \in Seq(Byte) /\ Len(e) = 6 /\ \A i \in 1 .. 6 : e[i] \in {0, 2, Tag[m]}
    <2>1. m \in Messages
      BY DEF Messages, Responses
    <2>2. \A i \in 1 .. 6 : i = 1 \/ i = 2 \/ i = 3 \/ i = 4 \/ i = 5 \/ i = 6
      OBVIOUS
    <2> QED BY <2>1, <2>2, EncodeIs
  <1>6. Tagged(e, 1)
    <2>1. Tag[m] # 104
      BY <1>5, TagOK DEF Messages, Responses
    <2> QED BY <1>5, <2>1 DEF Tagged
  <1> HIDE DEF e
  <1>7. /\ e \o <<FdByte>> \in Seq(Wire) /\ Tagged(e \o <<FdByte>>, 1)
        /\ Len(e \o <<FdByte>>) = 7 /\ (e \o <<FdByte>>)[7] = FdByte
        /\ \A i \in 1 .. 6 : (e \o <<FdByte>>)[i] = e[i]
    <2>1. e \o <<FdByte>> \in Seq(Wire) /\ Tagged(e \o <<FdByte>>, 1)
      BY <1>5, <1>6, FdBehind
    <2>2. /\ Len(e \o <<FdByte>>) = 7 /\ (e \o <<FdByte>>)[7] = FdByte
          /\ \A i \in 1 .. 6 : (e \o <<FdByte>>)[i] = e[i]
      <3> DEFINE f == <<FdByte>>
      <3>1. f \in Seq(Wire) /\ Len(f) = 1 /\ f[1] = FdByte
        BY DEF FdByte, Wire
      <3>2. e \in Seq(Wire)
        BY <1>5, <1>6, FdBehind
      <3> HIDE DEF f
      <3>3. /\ Len(e \o f) = Len(e) + Len(f)
            /\ \A i \in 1 .. Len(e) : (e \o f)[i] = e[i]
            /\ \A i \in 1 .. Len(f) : (e \o f)[Len(e) + i] = f[i]
        <4>1. Len(e \o f) = Len(e) + Len(f)
          BY <3>1, <3>2, Cat
        <4>2. \A i \in 1 .. Len(e) : (e \o f)[i] = e[i]
          BY <3>1, <3>2, Cat
        <4>3. \A i \in 1 .. Len(f) : (e \o f)[Len(e) + i] = f[i]
          BY <3>1, <3>2, Cat
        <4> QED BY <4>1, <4>2, <4>3
      <3>4. Len(e \o f) = 7 /\ (e \o f)[7] = FdByte /\ \A i \in 1 .. 6 : (e \o f)[i] = e[i]
        BY <1>5, <3>1, <3>3
      <3> QED BY <3>4 DEF f
    <2> QED BY <2>1, <2>2
  <1>8. Tagged(down', 1)
    BY <1>6, <1>7 DEF e
  <1>9. Seen'
    <2>1. Tagged(<<>>, 1)
      BY DEF Tagged
    <2> QED BY <1>0, <1>1, <1>8, <2>1 DEF Seen
  <1>10. \A d : Len(d) \in {6, 7} /\ (\A i \in 1 .. 6 : d[i] = e[i]) => Begins(m, <<>>, d)
    BY DEF Begins, e
  <1>11. AttachAnswered(<<>>, down', 0, dropped')
    <2>1. CASE m = "AttachReady" /\ down' = e \o <<FdByte>> /\ dropped' = dropped
      <3>1. Begins(m, <<>>, down')
        BY <1>7, <1>10, <2>1
      <3>2. ~dropped' /\ Len(<<>>) = 0 /\ Len(down') = 7 /\ down'[7] = FdByte
        BY <1>1, <1>7, <2>1
      <3>3. 7 - Len(<<>>) = 7 /\ Len(<<>>) + Len(down') = 7
        BY <3>2
      <3> QED BY <2>1, <3>1, <3>2, <3>3 DEF AttachAnswered
    <2>2. CASE m = "AttachReady" /\ down' = e /\ dropped' = TRUE
      <3>1. Begins(m, <<>>, down')
        BY <1>5, <1>10, <2>2
      <3>2. Len(<<>>) + Len(down') = 6
        BY <1>5, <2>2
      <3> QED BY <2>2, <3>1, <3>2 DEF AttachAnswered
    <2>3. CASE m # "AttachReady" /\ down' = e
      <3>1. Begins(m, <<>>, down')
        BY <1>5, <1>10, <2>3
      <3> QED BY <2>3, <3>1 DEF AttachAnswered
    <2> QED BY <2>1, <2>2, <2>3 DEF e
  <1>12. Attaching'
    BY <1>0, <1>1, <1>11 DEF Attaching
  <1>13. Receiving' /\ Attached' /\ Detaching'
    BY <1>0, <1>2 DEF Receiving, Attached, Detaching
  <1>14. Answers'
    BY <1>0, <1>2 DEF Exchange, Answers
  <1> QED BY <1>3, <1>4, <1>9, <1>12, <1>13, <1>14 DEF Exchange

\* The answer to a detach: without a push it is the only thing on the wire, and whole.
LEMMA ServesDetach ==
  ASSUME TypeOK, Order, Exchange, Served = 1, Served < Asked, Served' = 2, Asked' = Asked,
         NEW m \in {"Detached", "Error"}, NEW bytes \in Writes(m), down' = down \o bytes,
         UNCHANGED <<clientVars, daemon, prev, timed, pushes, dropped>>
  PROVE  Exchange'
  <1>0. /\ client' = client /\ buf' = buf /\ answer' = answer /\ daemon' = daemon
        /\ prev' = prev /\ timed' = timed /\ pushes' = pushes /\ dropped' = dropped
    BY DEF clientVars
  <1>1. Asked = 2 /\ client \in {"detach", "done"}
    <2>1. Asked = 2
      BY Counts
    <2> QED BY <2>1 DEF Exchange, Where, TypeOK
  <1>2. Where'
    BY <1>0, <1>1 DEF Exchange, Where
  <1>3. Causes'
    BY <1>0 DEF Exchange, Causes
  <1>4. /\ m \in Messages /\ bytes \in Seq(Byte) /\ Tagged(bytes, 2)
        /\ ~timed => bytes = Encode(m)
    <2>1. m \in Messages
      BY DEF Messages, Responses
    <2>2. Tagged(bytes, 2)
      BY <2>1, WritesTagged
    <2>3. bytes \in Seq(Byte) /\ (~timed' => bytes = Encode(m))
      BY <2>1, WritesIs
    <2> QED BY <1>0, <2>1, <2>2, <2>3
  <1>5. Seen'
    <2>1. Tagged(down, 2) /\ Tagged(buf, 2)
      BY TaggedMore DEF Exchange, Seen
    <2>2. bytes \in Seq(Wire) /\ down \in Seq(Wire)
      BY <1>4, FdBehind, Types
    <2>3. Tagged(down \o bytes, 2)
      BY <1>4, <2>1, <2>2, TaggedCat
    <2> QED BY <1>0, <2>1, <2>3 DEF Seen
  <1>6. Attaching' /\ Receiving' /\ Attached'
    BY <1>0, <1>1 DEF Attaching, Receiving, Attached
  <1>7. Detaching'
    <2>1. ASSUME client = "detach", pushes = 0 PROVE Begins(m, buf, down')
      <3>1. buf = <<>> /\ down = <<>> /\ ~timed
        BY <2>1 DEF Exchange, Detaching, Causes
      <3>2. down' = <<>> \o bytes /\ bytes = Encode(m)
        BY <1>4, <3>1
      <3>3. down' = Encode(m) /\ Len(down') = 6
        <4>1. <<>> \o bytes = bytes
          BY <1>4, ConcatEmptySeq
        <4>2. Len(Encode(m)) = 6
          BY <1>4, EncodeIs
        <4> QED BY <3>2, <4>1, <4>2
      <3>4. \A d : Len(d) = 6 /\ d = Encode(m) => Begins(m, <<>>, d)
        BY DEF Begins
      <3> QED BY <3>1, <3>3, <3>4
    <2>2. client = "detach" /\ pushes = 0 => Begins("Detached", buf, down') \/ Begins("Error", buf, down')
      BY <2>1
    <2> QED BY <1>0, <2>2 DEF Detaching
  <1>8. Answers'
    BY <1>0 DEF Exchange, Answers
  <1> QED BY <1>2, <1>3, <1>5, <1>6, <1>7, <1>8 DEF Exchange


\* What a read by the client gives: the types, and tags that were on the wire.
LEMMA ReadGives ==
  ASSUME TypeOK, Order, Exchange, NEW k \in 1 .. Len(down)
  PROVE  LET all == buf \o Value(Take(k, down))
         IN  /\ all \in Seq(Byte) /\ Tagged(all, Served) /\ Tagged(Drop(k, down), Served)
             /\ Drop(k, down) \in Seq(Wire)
             /\ TryDecode(all, Responses).msg \in Responses \cup {"None", "ParseError"}
             /\ TryDecode(all, Responses).msg = "Detached" => Served = 2
  <1> DEFINE t == Take(k, down)
             v == Value(t)
             all == buf \o v
             m == TryDecode(all, Responses).msg
  <1>1. down \in Seq(Wire) /\ buf \in Seq(Byte) /\ k \in 0 .. Len(down) /\ Served \in {0, 1, 2}
    BY Types, Counts
  <1>2. /\ t \in Seq(Wire) /\ Drop(k, down) \in Seq(Wire)
        /\ Tagged(t, Served) /\ Tagged(Drop(k, down), Served)
    BY <1>1, TakeDrop, TaggedPart DEF Exchange, Seen
  <1> HIDE DEF t
  <1>3. v \in Seq(Byte) /\ Tagged(v, Served)
    BY <1>1, <1>2, ValueIs, TaggedValue
  <1> HIDE DEF v
  <1>4. all \in Seq(Byte)
    BY <1>1, <1>3, Cat
  <1>5. Tagged(all, Served)
    <2>1. Tagged(buf, Served)
      BY DEF Exchange, Seen
    <2> QED BY <1>1, <1>3, <2>1, TaggedCat
  <1> HIDE DEF all
  <1>6. /\ m \in Responses \cup {"None", "ParseError"}
        /\ m \in Responses => \E i \in 1 .. Len(all) : all[i] = Tag[m]
    BY <1>4, DecodeResponse
  <1> HIDE DEF m
  <1>7. ASSUME m = "Detached" PROVE Served = 2
    <2>1. PICK i \in 1 .. Len(all) : all[i] = Tag[m]
      BY <1>6, <1>7 DEF Responses
    <2>2. all[i] = 104
      BY <1>7, <2>1, TagOK
    <2> QED BY <1>5, <2>2 DEF Tagged
  <1> QED BY <1>2, <1>4, <1>5, <1>6, <1>7 DEF m, all, v, t

\* A read that does not complete the response leaves the call where it was; one that
\* does, with the byte of the descriptor or without, leaves the rest on the wire.
LEMMA AttachRead ==
  ASSUME NEW b \in Seq(Byte), NEW d \in Seq(Wire), NEW n, NEW lost \in BOOLEAN,
         AttachAnswered(b, d, n, lost), NEW k \in 1 .. Len(d)
  PROVE  LET all  == b \o Value(Take(k, d))
             r    == Drop(k, d)
             m    == TryDecode(all, Responses).msg
             gone == lost \/ HasFd(Take(k, d))
         IN  \/ m = "None" /\ AttachAnswered(all, r, n, gone)
             \/ m = "Error"
             \/ /\ m = "AttachReady"
                /\ ~gone => Len(r) >= 1 /\ r[1] = FdByte
                /\ n = 0 => Len(r) = IF gone THEN 0 ELSE 1
  <1> DEFINE t == Take(k, d)
             all == b \o Value(t)
             r == Drop(k, d)
             gone == lost \/ HasFd(t)
             D(m) == TryDecode(all, Responses).msg = m
  <1>1. /\ Len(b) \in Nat /\ Len(d) \in Nat /\ k \in 0 .. Len(d) /\ k \in Nat /\ 1 <= k
        /\ k <= Len(d) /\ gone \in BOOLEAN
    OBVIOUS
  <1>2. /\ t \in Seq(Wire) /\ Len(t) = k /\ \A i \in 1 .. k : t[i] = d[i]
        /\ r \in Seq(Wire) /\ Len(r) = Len(d) - k /\ \A i \in 1 .. Len(d) - k : r[i] = d[k + i]
    BY <1>1, TakeDrop
  <1>3. ASSUME NEW m \in Responses, Begins(m, b, d)
        PROVE  /\ all \in Seq(Byte) /\ Len(all) = Len(b) + k /\ Len(b) < 6
               /\ k < 6 - Len(b) => D("None") /\ Begins(m, all, r)
               /\ ~(k < 6 - Len(b)) => D(m)
               /\ \A i \in 1 .. k : i <= 6 - Len(b) => t[i] # FdByte
    <2>1. m \in Messages
      BY DEF Messages
    <2>2. /\ all \in Seq(Byte) /\ Len(all) = Len(b) + k /\ Starts(all, m)
          /\ k < 6 - Len(b) => Begins(m, all, r)
          /\ \A i \in 1 .. k : i <= 6 - Len(b) => t[i] # FdByte
      BY <1>3, <2>1, BeginsRead
    <2> HIDE DEF all
    <2>3. TryDecode(all, Responses) =
            IF Len(all) < 6 THEN NoFrame ELSE [msg |-> Parse(Payload(m), Responses), used |-> 6]
      BY <2>1, <2>2, DecodeIs
    <2>4. Parse(Payload(m), Responses) = m
      BY <2>1, ParseIs
    <2>5. k < 6 - Len(b) => D("None")
      <3>1. k < 6 - Len(b) => Len(all) < 6
        BY <1>1, <2>2
      <3> QED BY <2>3, <3>1 DEF NoFrame
    <2>6. ~(k < 6 - Len(b)) => D(m)
      <3>1. ~(k < 6 - Len(b)) => ~(Len(all) < 6)
        BY <1>1, <2>2
      <3> QED BY <2>3, <2>4, <3>1
    <2>7. Len(b) < 6
      BY <1>3 DEF Begins
    <2> QED BY <2>2, <2>5, <2>6, <2>7
  <1> HIDE DEF all, r, D
  <1> SUFFICES \/ D("None") /\ AttachAnswered(all, r, n, gone)
               \/ D("Error")
               \/ /\ D("AttachReady")
                  /\ ~gone => Len(r) >= 1 /\ r[1] = FdByte
                  /\ n = 0 => Len(r) = IF gone THEN 0 ELSE 1
    BY DEF D, all, r
  <1> HIDE DEF t
  <1>4. HasFd(t) <=> \E i \in 1 .. k : t[i] = FdByte
    BY <1>2, HasFdIs
  <1>r. "Error" \in Responses /\ "AttachReady" \in Responses
    BY DEF Responses
  <1>5. CASE Begins("Error", b, d)
    BY <1>r, <1>3, <1>5 DEF AttachAnswered
  <1>6. CASE ~Begins("Error", b, d)
    <2>1. /\ Begins("AttachReady", b, d)
          /\ ~lost => Len(b) + Len(d) >= 7 /\ d[7 - Len(b)] = FdByte
          /\ n = 0 => Len(b) + Len(d) = IF lost THEN 6 ELSE 7
      BY <1>6 DEF AttachAnswered
    <2>2. /\ all \in Seq(Byte) /\ Len(all) = Len(b) + k /\ Len(b) < 6
          /\ k < 6 - Len(b) => D("None") /\ Begins("AttachReady", all, r)
          /\ ~(k < 6 - Len(b)) => D("AttachReady")
          /\ \A i \in 1 .. k : i <= 6 - Len(b) => t[i] # FdByte
      BY <1>r, <1>3, <2>1
    <2>3. CASE k < 6 - Len(b)
      <3>1. \A i \in 1 .. k : i <= 6 - Len(b)
        BY <1>1, <2>3
      <3>2. ~HasFd(t) /\ gone = lost
        BY <1>4, <2>2, <3>1
      <3>3. Len(all) + Len(r) = Len(b) + Len(d)
        BY <1>1, <1>2, <2>2
      <3>4. ASSUME ~lost PROVE r[7 - Len(all)] = FdByte
        <4>1. 7 - Len(all) \in 1 .. Len(d) - k /\ k + (7 - Len(all)) = 7 - Len(b)
          BY <1>1, <2>1, <2>2, <2>3, <3>4
        <4> QED BY <1>2, <2>1, <3>4, <4>1
      <3>5. AttachAnswered(all, r, n, lost)
        BY <2>1, <2>2, <2>3, <3>3, <3>4 DEF AttachAnswered
      <3> QED BY <2>2, <2>3, <3>2, <3>5
    <2>4. CASE ~(k < 6 - Len(b))
      <3>1. ASSUME ~gone PROVE Len(r) >= 1 /\ r[1] = FdByte /\ k = 6 - Len(b)
        <4>1. ~lost /\ \A i \in 1 .. k : t[i] # FdByte
          BY <1>4, <3>1
        <4>2. Len(b) + Len(d) >= 7 /\ d[7 - Len(b)] = FdByte
          BY <2>1, <4>1
        <4>3. 7 - Len(b) \notin 1 .. k
          BY <1>2, <4>1, <4>2
        <4>4. k = 6 - Len(b)
          BY <1>1, <2>2, <2>4, <4>3
        <4>5. 1 \in 1 .. Len(d) - k /\ k + 1 = 7 - Len(b)
          BY <1>1, <2>2, <4>2, <4>4
        <4>6. r[1] = FdByte
          BY <1>2, <4>2, <4>5
        <4>7. Len(r) >= 1
          BY <1>1, <1>2, <4>5
        <4> QED BY <4>4, <4>6, <4>7
      <3>2. ASSUME n = 0 PROVE Len(r) = IF gone THEN 0 ELSE 1
        <4>1. CASE ~gone
          <5>1. ~lost
            BY <4>1
          <5>2. Len(b) + Len(d) = 7
            BY <2>1, <3>2, <5>1
          <5>3. Len(r) = 1
            BY <1>1, <1>2, <3>1, <4>1, <5>2
          <5> QED BY <4>1, <5>3
        <4>2. CASE lost
          <5>1. Len(b) + Len(d) = 6
            BY <2>1, <3>2, <4>2
          <5>2. Len(r) = 0
            BY <1>1, <1>2, <2>4, <5>1
          <5> QED BY <4>2, <5>2
        <4>3. CASE gone /\ ~lost
          <5>1. Len(b) + Len(d) = 7
            BY <2>1, <3>2, <4>3
          <5>2. PICK i \in 1 .. k : t[i] = FdByte
            BY <1>4, <4>3
          <5>3. i > 6 - Len(b)
            BY <1>1, <2>2, <5>2
          <5>4. Len(r) = 0
            BY <1>1, <1>2, <5>1, <5>3
          <5> QED BY <4>3, <5>4
        <4> QED BY <4>1, <4>2, <4>3
      <3> QED BY <2>2, <2>4, <3>1, <3>2
    <2> QED BY <2>3, <2>4
  <1> QED BY <1>5, <1>6


\* A read of the client, in either call.
LEMMA ClientReadsStep ==
  ASSUME TypeOK, Order, Exchange, NEW k \in 1 .. Len(down), ClientReads(k)
  PROVE  /\ Exchange' /\ Idle
         /\ down' \in Seq(Wire) /\ buf' \in Seq(Byte) /\ dropped' \in BOOLEAN
         /\ answer' \in Responses \cup {"None", "ParseError"}
         /\ client' \in {client, "recv_fd", "done"}
  <1> DEFINE all == buf \o Value(Take(k, down))
             r == Drop(k, down)
             m == TryDecode(all, Responses).msg
             gone == dropped \/ HasFd(Take(k, down))
  <1>1. /\ client \in {"attach", "detach"} /\ down' = r /\ dropped' = gone
        /\ \/ m = "None" /\ buf' = all /\ client' = client /\ answer' = answer
           \/ m # "None" /\ buf' = <<>> /\ answer' = m /\ client' = After(m)
    BY DEF ClientReads
  <1>2. /\ daemon' = daemon /\ owner' = owner /\ prev' = prev /\ timed' = timed
        /\ pushes' = pushes /\ Idle
    BY DEF ClientReads, daemonVars, Idle
  <1>3. Asked' = Asked /\ Served' = Served
    BY <1>2 DEF Idle, Asked, Served
  <1>4. /\ all \in Seq(Byte) /\ Tagged(all, Served) /\ Tagged(r, Served) /\ r \in Seq(Wire)
        /\ m \in Responses \cup {"None", "ParseError"}
        /\ m = "Detached" => Served = 2
    BY ReadGives
  <1>5. /\ buf \in Seq(Byte) /\ down \in Seq(Wire) /\ dropped \in BOOLEAN /\ pushes \in Nat
        /\ Len(down) \in Nat /\ Len(down) >= 1
    BY Types
  <1>6. gone \in BOOLEAN
    BY <1>5
  <1>7. ASSUME client = "attach"
        PROVE  /\ Served = 1
               /\ \/ m = "None" /\ AttachAnswered(all, r, pushes, gone)
                  \/ m = "Error"
                  \/ /\ m = "AttachReady"
                     /\ ~gone => Len(r) >= 1 /\ r[1] = FdByte
                     /\ pushes = 0 => Len(r) = IF gone THEN 0 ELSE 1
    <2>1. Served # 0
      BY <1>5 DEF Exchange, Causes
    <2>2. Asked = 1
      BY <1>7 DEF Exchange, Where
    <2>3. Served = 1
      BY <2>1, <2>2, Counts
    <2>4. AttachAnswered(buf, down, pushes, dropped)
      BY <1>7, <2>3 DEF Exchange, Attaching
    <2> QED BY <1>5, <2>3, <2>4, AttachRead
  <1>8. ASSUME client = "detach", pushes = 0
        PROVE  /\ Served = 2
               /\ \/ m = "None" /\ (Begins("Detached", all, r) \/ Begins("Error", all, r))
                  \/ m \in {"Detached", "Error"}
    <2>1. Served = 2
      <3>1. Served # 1
        BY <1>5, <1>8 DEF Exchange, Detaching
      <3>2. Served >= 1
        BY <1>8 DEF Exchange, Where
      <3> QED BY <3>1, <3>2, Counts
    <2>2. PICK a \in {"Detached", "Error"} : Begins(a, buf, down)
      BY <1>8, <2>1 DEF Exchange, Detaching
    <2>3. a \in Messages /\ a \in Responses
      BY DEF Messages, Responses
    <2>4. /\ Len(all) = Len(buf) + k /\ Starts(all, a)
          /\ k < 6 - Len(buf) => Begins(a, all, r)
      BY <1>5, <2>2, <2>3, BeginsRead
    <2> HIDE DEF all, r
    <2>5. TryDecode(all, Responses) =
            IF Len(all) < 6 THEN NoFrame
            ELSE [msg |-> Parse(Payload(a), Responses), used |-> 6]
      BY <1>4, <2>3, <2>4, DecodeIs
    <2>6. Parse(Payload(a), Responses) = a
      BY <2>3, ParseIs
    <2>7. CASE Len(all) < 6
      <3>1. k < 6 - Len(buf)
        BY <1>5, <2>4, <2>7
      <3>2. m = "None" /\ Begins(a, all, r)
        BY <2>4, <2>5, <2>7, <3>1 DEF NoFrame
      <3>3. Begins("Detached", all, r) \/ Begins("Error", all, r)
        BY <3>2
      <3> QED BY <2>1, <3>2, <3>3
    <2>8. CASE ~(Len(all) < 6)
      <3>1. m = a
        BY <2>5, <2>6, <2>8
      <3> QED BY <2>1, <3>1
    <2> QED BY <2>7, <2>8
  <1> HIDE DEF all, r, m, gone
  <1>9. /\ client' \in {client, "recv_fd", "done"}
        /\ client' = "recv_fd" => client = "attach" /\ m = "AttachReady"
        /\ client' = client => m = "None" /\ buf' = all /\ answer' = answer
    BY <1>1 DEF After
  <1>10. Served # 0
    BY <1>5 DEF Exchange, Causes
  <1>11. Where'
    <2>1. client = "attach" => Asked = 1 /\ Served >= 1
      BY <1>7 DEF Exchange, Where
    <2>2. client = "detach" => Asked = 2 /\ Served >= 1
      BY DEF Exchange, Where
    <2> QED BY <1>1, <1>3, <1>9, <2>1, <2>2 DEF Where
  <1>12. Causes'
    BY <1>2, <1>3, <1>10 DEF Exchange, Causes
  <1>13. Seen'
    <2>1. Tagged(<<>>, Served)
      BY DEF Tagged
    <2> QED BY <1>1, <1>3, <1>4, <2>1 DEF Seen
  <1>14. Attaching'
    <2>1. ASSUME client' = "attach", Served = 1 PROVE AttachAnswered(buf', down', pushes', dropped')
      <3>1. client = "attach" /\ m = "None" /\ buf' = all
        BY <1>1, <1>9, <2>1
      <3> QED BY <1>1, <1>2, <1>7, <3>1
    <2> QED BY <1>3, <2>1 DEF Attaching
  <1>15. Receiving'
    <2>1. ASSUME client' = "recv_fd"
          PROVE  /\ ~dropped' => Len(down') >= 1 /\ down'[1] = FdByte
                 /\ pushes' = 0 => Len(down') = IF dropped' THEN 0 ELSE 1
      <3>1. client = "attach" /\ m = "AttachReady"
        BY <1>9, <2>1
      <3> QED BY <1>1, <1>2, <1>7, <3>1
    <2> QED BY <2>1 DEF Receiving
  <1>16. Attached'
    BY <1>1, <1>9 DEF Attached
  <1>17. Detaching'
    <2>1. ASSUME client' = "detach", pushes = 0
          PROVE  Served = 2 /\ (Begins("Detached", buf', down') \/ Begins("Error", buf', down'))
      <3>1. client = "detach" /\ m = "None" /\ buf' = all
        BY <1>1, <1>9, <2>1
      <3> QED BY <1>1, <1>8, <2>1, <3>1
    <2> QED BY <1>2, <1>3, <2>1 DEF Detaching
  <1>18. Answers'
    <2>1. answer = "None"
      BY <1>1 DEF Exchange, Answers
    <2>2. answer' = m
      BY <1>1, <2>1
    <2>3. client' \in {"start", "attach", "detach"} => answer' = "None"
      BY <1>1, <1>9, <2>1
    <2>4. answer' = "Detached" => Served' = 2
      BY <1>3, <1>4, <2>2
    <2>5. answer' = "ParseError" => pushes' > 0
      <3>1. ASSUME m = "ParseError", pushes = 0 PROVE FALSE
        BY <1>1, <1>7, <1>8, <3>1
      <3> QED BY <1>2, <1>5, <2>2, <3>1
    <2>6. client' # "stray"
      BY <1>1, <1>9
    <2> QED BY <2>3, <2>4, <2>5, <2>6 DEF Answers
  <1>19. Exchange'
    BY <1>11, <1>12, <1>13, <1>14, <1>15, <1>16, <1>17, <1>18 DEF Exchange
  <1>20. buf' \in Seq(Byte) /\ answer' \in Responses \cup {"None", "ParseError"}
    <2>1. answer = "None"
      BY <1>1 DEF Exchange, Answers
    <2>2. <<>> \in Seq(Byte)
      OBVIOUS
    <2>3. buf' \in Seq(Byte)
      BY <1>1, <1>4, <2>2, Zenon
    <2>4. answer' = m \/ answer' = "None"
      BY <1>1, <2>1
    <2>5. answer' \in Responses \cup {"None", "ParseError"}
      BY <1>4, <2>4
    <2> QED BY <2>3, <2>5
  <1> QED BY <1>1, <1>2, <1>4, <1>6, <1>9, <1>19, <1>20


-----------------------------------------------------------------------------
(* The steps *)

\* The types that are not those of the stream of requests.
Others ==
  /\ down \in Seq(Wire) /\ buf \in Seq(Byte)
  /\ client \in {"start", "attach", "recv_fd", "attached", "detach", "stray", "eterm",
                "done"}
  /\ daemon \in {"loop", "serve", "await"}
  /\ owner \in BOOLEAN /\ prev \in BOOLEAN /\ timed \in BOOLEAN /\ cut \in BOOLEAN
  /\ dropped \in BOOLEAN /\ eterm \in BOOLEAN
  /\ pushes \in 0 .. MaxPush
  /\ answer \in Responses \cup {"None", "ParseError"}

\* They make up the type invariant.
LEMMA TypeParts ==
  /\ TypeOK => Others
  /\ Others /\ Follows /\ up \in Seq(Byte) /\ readBuf \in Seq(Byte) => TypeOK
  <1>1. TypeOK => Others
    BY DEF TypeOK, Others, Byte, Wire
  <1>2. ASSUME Others, Follows, up \in Seq(Byte), readBuf \in Seq(Byte) PROVE TypeOK
    <2>1. {eterm, owner, prev, timed, cut, dropped} \subseteq BOOLEAN
      BY <1>2, Zenon DEF Others
    <2> QED BY <1>2, <2>1 DEF Others, Follows, TypeOK, Byte, Wire
  <1> QED BY <1>1, <1>2

\* What each step has to keep.
Keeps == (Idle \/ Sent \/ Moved \/ Popped) /\ Side' /\ Others'

\* What the invariant says of either client.
LEMMA Parts ==
  ASSUME IInv
  PROVE  /\ TypeOK /\ Follows /\ UpStream /\ Others /\ eterm \in BOOLEAN
         /\ eterm => client \in {"eterm", "done"} /\ answer = "None"
         /\ ~eterm => Order /\ Exchange /\ client # "eterm"
  <1>1. TypeOK /\ Follows /\ UpStream /\ Others /\ Side
    BY TypeParts DEF IInv
  <1>2. eterm \in BOOLEAN
    BY <1>1 DEF Others
  <1> QED BY <1>1, <1>2 DEF Side, Exchange, Where

\* A step that is not a call of send_request keeps what is said of ETerm.
LEMMA EtermSide ==
  ASSUME IInv, eterm, eterm' = eterm, client' \in {client, "done"}, answer' = answer
  PROVE  Side'
  BY Parts DEF Side

\* The other client: the order of the requests and the exchange.
LEMMA CliSide ==
  ASSUME IInv, ~eterm, eterm' = eterm, Exchange', Idle \/ Moved \/ Popped
  PROVE  Side'
  <1>1. Follows'
    BY Parts, StreamStep
  <1>2. Order'
    BY <1>1, Parts, OrderStep
  <1> QED BY <1>2 DEF Side

\* Calm steps of the control side.
LEMMA CalmKeeps ==
  ASSUME IInv, Idle \/ Moved,
         UNCHANGED <<down, eterm, buf, answer, timed, pushes, dropped, cut>>,
         client' \in {client, "done"}, owner' = owner \/ owner' = FALSE,
         prev' = prev \/ prev' = FALSE \/ prev' = TRUE, ~eterm /\ prev' => prev \/ pushes # 0,
         daemon' \in {"loop", "serve"} \/ daemon' = daemon
  PROVE  Keeps
  <1>1. Follows /\ Others
    BY Parts
  <1>2. Asked' = Asked /\ Served' = Served
    BY <1>1, CountStep
  <1>3. owner' \in BOOLEAN /\ prev' \in BOOLEAN
    BY <1>1, Zenon DEF Others
  <1>4. Others'
    BY <1>1, <1>3 DEF Others
  <1>5. CASE ~eterm
    <2>1. (owner' => owner) /\ (prev' => prev \/ pushes # 0)
      BY <1>5
    <2>2. Calm
      BY <1>2, <2>1 DEF Calm
    <2>3. Exchange'
      BY <1>5, <2>2, CalmStep, Parts
    <2>4. Side'
      BY <1>5, <2>3, CliSide
    <2> QED BY <1>4, <2>4 DEF Keeps
  <1>6. CASE eterm
    <2>1. Side'
      BY <1>6, EtermSide
    <2> QED BY <1>4, <2>1 DEF Keeps
  <1> QED BY <1>5, <1>6, Parts

\* ETerm sends and reads.
LEMMA EtermKeeps ==
  ASSUME IInv, EtermReads \/ \E m \in Upstream : EtermSends(m)
  PROVE  Keeps
  <1>1. /\ client = "eterm"
        /\ UNCHANGED <<eterm, client, buf, answer, daemon, readBuf, owner, prev, timed, pushes,
                       got, cut, dropped>>
        /\ down' = down \/ down' = <<>>
    BY DEF EtermReads, EtermSends, clientVars, daemonVars
  <1>2. eterm /\ Others
    BY <1>1, Parts
  <1>3. Side'
    BY <1>1, <1>2, EtermSide
  <1>4. Others'
    <2>1. down' \in Seq(Wire)
      <3>1. <<>> \in Seq(Wire)
        OBVIOUS
      <3> QED BY <1>1, <1>2, <3>1, Zenon DEF Others
    <2> QED BY <1>1, <1>2, <2>1 DEF Others
  <1>5. Idle \/ Sent
    <2>1. CASE EtermReads
      BY <2>1 DEF EtermReads, Idle, clientVars, daemonVars
    <2>2. CASE \E m \in Upstream : EtermSends(m)
      BY <1>1, <2>2 DEF EtermSends, Sent
    <2> QED BY <2>1, <2>2
  <1> QED BY <1>3, <1>4, <1>5 DEF Keeps

\* The client asks.
LEMMA AsksKeep ==
  ASSUME IInv, AsksAttach \/ AsksDetach
  PROVE  Keeps
  <1>0. ~eterm
    BY Parts DEF AsksAttach, AsksDetach, Asks
  <1>1. TypeOK /\ Follows /\ Order /\ UpStream /\ Exchange /\ Others
    BY <1>0, Parts
  <1>2. /\ UNCHANGED <<down, eterm, daemon, readBuf, owner, prev, timed, pushes, got, cut,
                       dropped>>
        /\ buf' = <<>> /\ answer' = "None" /\ client' \in {"attach", "detach"}
    BY DEF AsksAttach, AsksDetach, Asks, daemonVars
  <1>3. /\ Asked <= 1 /\ up' = up \o Encode(Nth(Asked)) /\ sent' = Append(sent, Nth(Asked))
        /\ Nth(Asked) \in Upstream
    <2>1. CASE AsksAttach
      <3>1. Asked = 0
        BY <1>1, <2>1 DEF AsksAttach, Asks, Exchange, Where
      <3>2. Nth(Asked) = "Attach" /\ Asked <= 1
        BY <3>1 DEF Nth
      <3> QED BY <2>1, <3>2 DEF AsksAttach, Asks, Upstream, Requests
    <2>2. CASE AsksDetach
      <3>1. Asked = 1
        BY <1>1, <2>2 DEF AsksDetach, Asks, Exchange, Where
      <3>2. Nth(Asked) = "Detach" /\ Asked <= 1
        BY <3>1 DEF Nth
      <3> QED BY <2>2, <3>2 DEF AsksDetach, Asks, Upstream, Requests
    <2> QED BY <2>1, <2>2
  <1>4. Sent
    BY <1>2, <1>3 DEF Sent
  <1>5. Asked' = Asked + 1 /\ Served' = Served
    BY <1>1, <1>4, CountStep
  <1>6. Exchange'
    BY <1>1, <1>5, AttachAsked, DetachAsked
  <1>7. Follows'
    BY <1>1, <1>4, StreamStep
  <1>8. Order'
    BY <1>1, <1>2, <1>3, <1>7, OrderStep
  <1>9. Side'
    BY <1>0, <1>2, <1>6, <1>8 DEF Side
  <1>10. Others'
    BY <1>1, <1>2 DEF Others
  <1> QED BY <1>4, <1>9, <1>10 DEF Keeps

\* The client reads.
LEMMA ReadsKeep ==
  ASSUME IInv, RecvFd \/ \E k \in 1 .. Len(down) : ClientReads(k)
  PROVE  Keeps
  <1>0. ~eterm
    BY Parts DEF RecvFd, ClientReads
  <1>1. TypeOK /\ Order /\ Exchange /\ Others
    BY <1>0, Parts
  <1>2. CASE RecvFd
    <2>1. /\ down # <<>> /\ down' = Tail(down) /\ client' \in {"attached", "stray"}
          /\ UNCHANGED <<up, eterm, buf, answer, sent, daemon, readBuf, owner, prev, timed, pushes,
                         got, cut, dropped>>
      BY <1>2 DEF RecvFd, daemonVars
    <2>2. Tail(down) \in Seq(Wire)
      BY <1>1, <2>1 DEF Others
    <2>3. Others'
      BY <1>1, <2>1, <2>2 DEF Others
    <2>4. Exchange' /\ Idle
      BY <1>1, <1>2, <2>1, FdReceived DEF Idle
    <2>5. Side'
      BY <1>0, <2>1, <2>4, CliSide
    <2> QED BY <2>3, <2>4, <2>5 DEF Keeps
  <1>3. CASE \E k \in 1 .. Len(down) : ClientReads(k)
    <2>1. PICK k \in 1 .. Len(down) : ClientReads(k)
      BY <1>3
    <2>2. UNCHANGED <<eterm, daemon, owner, prev, timed, pushes, cut>>
      BY <2>1 DEF ClientReads, daemonVars
    <2>3. /\ Exchange' /\ Idle
          /\ down' \in Seq(Wire) /\ buf' \in Seq(Byte) /\ dropped' \in BOOLEAN
          /\ answer' \in Responses \cup {"None", "ParseError"}
          /\ client' \in {client, "recv_fd", "done"}
      BY <1>1, <2>1, ClientReadsStep
    <2>4. Others'
      BY <1>1, <2>2, <2>3 DEF Others
    <2>5. Side'
      BY <1>0, <2>2, <2>3, CliSide
    <2> QED BY <2>3, <2>4, <2>5 DEF Keeps
  <1> QED BY <1>2, <1>3

\* The daemon pushes.
LEMMA PushesKeep ==
  ASSUME IInv, Takeover \/ Resume
  PROVE  Keeps
  <1>1. TypeOK /\ Others
    BY Parts
  <1>2. Idle /\ UNCHANGED <<eterm, client, answer>>
    BY DEF Takeover, Resume, Pushed, Idle, clientVars
  <1>s. Side'
    <2>1. CASE eterm
      BY <1>2, <2>1, EtermSide
    <2>2. CASE ~eterm
      <3>1. Exchange'
        BY <2>2, Parts, TakeoverPushes, ResumePushes
      <3> QED BY <1>2, <2>2, <3>1, CliSide
    <2> QED BY <2>1, <2>2, Parts
  <1>3. /\ pushes < MaxPush /\ pushes' = pushes + 1 /\ timed' = TRUE /\ UNCHANGED clientVars
        /\ daemon' \in {daemon, "await"} /\ dropped' \in {dropped, TRUE}
        /\ owner' \in {owner, TRUE, FALSE} /\ prev' \in {prev, TRUE, FALSE}
    BY DEF Takeover, Resume, Pushed
  <1>4. cut' \in BOOLEAN
    <2>1. \E x \in {"ForceDetach", "ResumeAttach"} : \E bytes \in Writes(x) :
            cut' = (cut \/ Broken(bytes, x))
      BY DEF Takeover, Resume
    <2> QED BY <2>1
  <1>5. pushes' \in 0 .. MaxPush
    BY <1>1, <1>3, FramingAssumption DEF Others
  <1>6. down' \in Seq(Wire)
    <2>0. PICK x \in {"ForceDetach", "ResumeAttach"} :
            \E bytes \in Writes(x), f \in {<<>>, <<FdByte>>} : down' = (down \o bytes) \o f
      BY DEF Takeover, Resume, Sends
    <2>1. PICK bytes \in Writes(x), f \in {<<>>, <<FdByte>>} : down' = (down \o bytes) \o f
      BY <2>0
    <2>2. x \in Messages
      BY DEF Messages, Pushes
    <2>3. bytes \in Seq(Byte)
      BY <1>1, <2>2, WritesIs
    <2>4. bytes \in Seq(Wire) /\ f \in Seq(Wire) /\ down \in Seq(Wire)
      <3>1. \A y \in Byte : y \in Wire
        BY DEF Byte, Wire, FdByte
      <3>2. f \in Seq(Wire)
        <4>1. <<>> \in Seq(Wire) /\ <<FdByte>> \in Seq(Wire)
          BY DEF Wire, FdByte
        <4> QED BY <4>1, Zenon
      <3>3. bytes \in Seq(Wire)
        BY <2>3, <3>1
      <3> QED BY <1>1, <3>2, <3>3 DEF Others
    <2>5. down \o bytes \in Seq(Wire)
      BY <2>4, Cat
    <2> QED BY <2>1, <2>4, <2>5, Cat
  <1>7. owner' \in BOOLEAN /\ prev' \in BOOLEAN /\ dropped' \in BOOLEAN /\ timed' \in BOOLEAN
    BY <1>1, <1>3, Zenon DEF Others
  <1>8. Others'
    BY <1>1, <1>3, <1>4, <1>5, <1>6, <1>7 DEF Others, clientVars
  <1> QED BY <1>2, <1>s, <1>8 DEF Keeps


\* The daemon reads in its loop.
LEMMA DaemonReadsKeep ==
  ASSUME IInv, NEW k \in 1 .. Len(up), DaemonReads(k)
  PROVE  Keeps
  <1>1. /\ up' = Drop(k, up) /\ readBuf' = readBuf \o Take(k, up) /\ daemon' = "serve"
        /\ UNCHANGED <<down, eterm, client, buf, answer, sent, owner, prev, timed, pushes, got,
                       cut, dropped>>
    BY DEF DaemonReads, clientVars
  <1>2. Moved
    BY <1>1 DEF Moved
  <1> QED BY <1>1, <1>2, CalmKeeps

\* The daemon reads in a takeover wait.
LEMMA AwaitReadsKeep ==
  ASSUME IInv, NEW k \in 1 .. Len(up), AwaitReads(k)
  PROVE  Keeps
  <1> DEFINE b == readBuf \o Take(k, up)
             f == TryDecode(b, Acks)
  <1>1. TypeOK /\ Follows /\ UpStream /\ Others
    BY Parts
  <1>2. /\ daemon = "await" /\ up' = Drop(k, up)
        /\ UNCHANGED <<down, eterm, client, buf, answer, sent, timed, pushes, cut, dropped>>
        /\ \/ /\ f.msg = "None" /\ readBuf' = b /\ UNCHANGED <<daemon, owner, prev, got>>
           \/ /\ f.msg # "None" /\ readBuf' = Drop(f.used, b)
              /\ got' = Append(got, TryDecode(b, Upstream).msg)
              /\ daemon' = "loop" /\ owner' = FALSE /\ prev' = TRUE
    BY DEF AwaitReads, Drained, Released, clientVars
  <1>3. k \in 0 .. Len(up)
    BY <1>1, Types
  <1>4. Found(b) /\ b \in Seq(Byte)
    BY <1>1, <1>3, ReadJoins
  <1> HIDE DEF b
  <1>5. CASE f.msg = "None"
    <2>1. Moved
      BY <1>2, <1>5 DEF Moved, b
    <2>2. owner' = owner /\ prev' = prev /\ daemon' = daemon
      BY <1>2, <1>5
    <2> QED BY <1>2, <2>1, <2>2, CalmKeeps
  <1>6. CASE f.msg # "None"
    <2>1. /\ Served < Asked /\ Len(b) >= 6 /\ f.used = 6
          /\ TryDecode(b, Upstream).msg = sent[Served + 1]
      BY <1>4, <1>6 DEF Found, NoFrame
    <2>2. readBuf' = Drop(6, b) /\ got' = Append(got, sent[Served + 1])
      BY <1>2, <1>6, <2>1
    <2>3. Popped
      BY <1>2, <1>3, <2>1, <2>2 DEF Popped, b
    <2>4. Asked' = Asked /\ Served' = Served + 1
      BY <1>1, <2>3, CountStep
    <2>5. Side'
      <3>1. CASE eterm
        BY <1>2, <3>1, EtermSide
      <3>2. CASE ~eterm
        <4>1. Exchange'
          BY <1>1, <1>2, <2>1, <2>4, <3>2, Parts, AwaitPops DEF clientVars
        <4> QED BY <1>2, <2>3, <3>2, <4>1, CliSide
      <3> QED BY <3>1, <3>2, Parts
    <2>6. Others'
      BY <1>1, <1>2, <1>6 DEF Others
    <2> QED BY <2>3, <2>5, <2>6 DEF Keeps
  <1> QED BY <1>5, <1>6

\* What is served is the message that is due.
LEMMA ServePops ==
  ASSUME IInv, Serve
  PROVE  /\ Popped /\ Served < Asked /\ Asked' = Asked /\ Served' = Served + 1
         /\ TryDecode(readBuf, Requests).msg = Parse(Payload(sent[Served + 1]), Requests)
  <1> DEFINE f == TryDecode(readBuf, Requests)
             u == TryDecode(readBuf, Upstream)
  <1>1. TypeOK /\ Follows /\ UpStream
    BY Parts
  <1>2. /\ f.msg # "None" /\ readBuf' = Drop(f.used, readBuf) /\ got' = Append(got, u.msg)
        /\ up' = up /\ sent' = sent
    BY DEF Serve, Drained, clientVars
  <1>3. readBuf \o Take(0, up) = readBuf /\ Drop(0, up) = up /\ 0 \in 0 .. Len(up)
    BY <1>1, Types, ReadNone
  <1>4. Found(readBuf)
    <2>1. Found(readBuf \o Take(0, up))
      BY <1>1, <1>3, ReadJoins
    <2> QED BY <1>3, <2>1
  <1>5. /\ Served < Asked /\ Len(readBuf) >= 6 /\ f.used = 6 /\ u.msg = sent[Served + 1]
        /\ f.msg = Parse(Payload(sent[Served + 1]), Requests)
    BY <1>2, <1>4 DEF Found, NoFrame
  <1> HIDE DEF f, u
  <1>6. \E k \in 0 .. Len(up) : /\ up' = Drop(k, up)
                                /\ Len(readBuf \o Take(k, up)) >= 6
                                /\ readBuf' = Drop(6, readBuf \o Take(k, up))
    <2>1. /\ up' = Drop(0, up) /\ Len(readBuf \o Take(0, up)) >= 6
          /\ readBuf' = Drop(6, readBuf \o Take(0, up))
      BY <1>2, <1>3, <1>5
    <2> QED BY <1>3, <2>1
  <1>7. Popped
    BY <1>2, <1>5, <1>6 DEF Popped
  <1>8. Asked' = Asked /\ Served' = Served + 1
    BY <1>1, <1>7, CountStep
  <1> QED BY <1>5, <1>7, <1>8 DEF f

\* What a round of the loop puts on the wire.
Wrote(req, m, bytes) ==
  /\ cut' = (cut \/ Broken(bytes, m))
  /\ \/ /\ m = "AttachReady" /\ down' = (down \o bytes) \o <<FdByte>>
        /\ owner' = TRUE /\ dropped' = dropped
     \/ /\ m = "AttachReady" /\ down' = (down \o bytes) \o <<>>
        /\ owner' = FALSE /\ dropped' = TRUE
     \/ /\ m # "AttachReady" /\ down' = (down \o bytes) \o <<>>
        /\ owner' = (owner /\ req # "Detach") /\ dropped' = dropped

\* The wire to the command-line client, after its request was served.
LEMMA ServeExchange ==
  ASSUME TypeOK, Order, Exchange, Served < Asked, Asked' = Asked, Served' = Served + 1,
         UNCHANGED <<clientVars, daemon, prev, timed, pushes>>,
         NEW m \in Answer(Nth(Served)), NEW bytes \in Writes(m), Wrote(Nth(Served), m, bytes)
  PROVE  Exchange'
  <1>3. timed' = timed /\ down \in Seq(Wire)
    BY Types
  <1>6. /\ Served \in {0, 1}
        /\ Served = 0 => m \in {"AttachReady", "Error"}
        /\ Served = 1 => m \in {"Detached", "Error"}
        /\ m \in Messages
    <2>1. Served \in {0, 1}
      BY DueIs
    <2>2. CASE Served = 0
      <3>1. Nth(Served) = "Attach" /\ m \in {"AttachReady", "Error"}
        BY <2>2 DEF Nth, Answer
      <3> QED BY <2>2, <3>1 DEF Messages, Responses
    <2>3. CASE Served = 1
      <3>1. Nth(Served) = "Detach" /\ m \in {"Detached", "Error"}
        BY <2>3 DEF Nth, Answer
      <3> QED BY <2>3, <3>1 DEF Messages, Responses
    <2> QED BY <2>1, <2>2, <2>3
  <1>7. bytes \in Seq(Byte) /\ (~timed => bytes = Encode(m))
    <2>1. bytes \in Seq(Byte) /\ (~timed' => bytes = Encode(m))
      BY <1>6, WritesIs
    <2> QED BY <1>3, <2>1
  <1>8. /\ bytes \in Seq(Wire) /\ (down \o bytes) \o <<>> = down \o bytes
        /\ (down \o bytes) \o <<FdByte>> = down \o (bytes \o <<FdByte>>)
        /\ bytes \o <<FdByte>> \in Seq(Wire)
    <2>1. Tagged(bytes, 2)
      BY <1>6, WritesTagged
    <2> QED BY <1>3, <1>7, <2>1, FdBehind
  <1>1. CASE Served = 0
    <2>1. down = <<>> /\ ~timed
      BY <1>1 DEF Exchange, Causes
    <2>2. bytes = Encode(m) /\ <<>> \o bytes = bytes
      BY <1>7, <2>1, ConcatEmptySeq
    <2>3. down \o bytes = Encode(m)
      BY <2>1, <2>2
    <2>4. \/ /\ m = "AttachReady" /\ down' = Encode(m) \o <<FdByte>> /\ dropped' = dropped
          \/ /\ m = "AttachReady" /\ down' = Encode(m) /\ dropped' = TRUE
          \/ /\ m # "AttachReady" /\ down' = Encode(m) /\ dropped' = dropped
      BY <1>8, <2>3, Zenon DEF Wrote
    <2>5. Served' = 1 /\ m \in {"AttachReady", "Error"}
      BY <1>1, <1>6
    <2> QED BY <1>1, <2>4, <2>5, ServesAttach
  <1>2. CASE Served = 1
    <2>1. m \in {"Detached", "Error"} /\ m # "AttachReady"
      BY <1>2, <1>6
    <2>2. down' = down \o bytes /\ dropped' = dropped
      BY <1>8, <2>1, Zenon DEF Wrote
    <2>3. Served' = 2
      BY <1>2
    <2> QED BY <1>2, <2>1, <2>2, <2>3, ServesDetach
  <1> QED BY <1>6, <1>1, <1>2

\* The daemon answers.
LEMMA ServeKeeps ==
  ASSUME IInv, Serve
  PROVE  Keeps
  <1>1. TypeOK /\ Follows /\ UpStream /\ Others
    BY Parts
  <1> DEFINE req == TryDecode(readBuf, Requests).msg
  <1>2. /\ Popped /\ Served < Asked /\ Asked' = Asked /\ Served' = Served + 1
        /\ req = Parse(Payload(sent[Served + 1]), Requests)
    BY ServePops
  <1>3. /\ UNCHANGED <<eterm, client, buf, answer, sent, daemon, prev, timed, pushes>>
        /\ UNCHANGED clientVars
    BY DEF Serve, clientVars
  <1>4. PICK m \in Answer(req) : \E bytes \in Writes(m) : Wrote(req, m, bytes)
    BY DEF Serve, Sends, Wrote
  <1>5. PICK bytes \in Writes(m) : Wrote(req, m, bytes)
    BY <1>4
  <1>6. m \in Messages
    <2>1. Answer(req) \subseteq Responses
      BY <1>1 DEF Answer, Responses, Others
    <2> QED BY <2>1 DEF Messages
  <1>7. bytes \in Seq(Byte) /\ down \in Seq(Wire)
    BY <1>1, <1>5, <1>6, WritesIs DEF Others
  <1>8. /\ bytes \in Seq(Wire) /\ (down \o bytes) \o <<>> = down \o bytes
        /\ (down \o bytes) \o <<FdByte>> = down \o (bytes \o <<FdByte>>)
        /\ bytes \o <<FdByte>> \in Seq(Wire)
    <2>1. Tagged(bytes, 2)
      BY <1>1, <1>5, <1>6, WritesTagged
    <2> QED BY <1>7, <2>1, FdBehind
  <1> HIDE DEF req
  <1>9. Side'
    <2>1. CASE eterm
      BY <1>3, <2>1, EtermSide
    <2>2. CASE ~eterm
      <3>1. Order /\ Exchange
        BY <2>2, Parts
      <3>2. sent[Served + 1] = Nth(Served) /\ Served \in {0, 1}
        BY <1>2, <3>1, DueIs
      <3>3. req = Nth(Served)
        <4>1. Nth(Served) \in Messages /\ Nth(Served) \in Requests
          BY DEF Nth, Messages, Upstream, Requests
        <4> QED BY <1>2, <3>2, <4>1, ParseIs
      <3>4. Exchange'
        BY <1>1, <1>2, <1>3, <1>4, <1>5, <3>1, <3>3, ServeExchange
      <3> QED BY <1>2, <1>3, <2>2, <3>4, CliSide
    <2> QED BY <2>1, <2>2, Parts
  <1>10. Others'
    <2>1. cut' \in BOOLEAN /\ owner' \in BOOLEAN
      <3>1. cut' \in BOOLEAN
        BY <1>5 DEF Wrote
      <3>2. owner' = TRUE \/ owner' = FALSE \/ owner' = (owner /\ req # "Detach")
        BY <1>5, Zenon DEF Wrote
      <3> QED BY <3>1, <3>2
    <2>2. dropped' \in BOOLEAN
      <3>1. dropped' = dropped \/ dropped' = TRUE
        BY <1>5, Zenon DEF Wrote
      <3> QED BY <1>1, <3>1, Zenon DEF Others
    <2>3. down' \in Seq(Wire)
      <3>1. down' = down \o bytes \/ down' = down \o (bytes \o <<FdByte>>)
        BY <1>5, <1>8, Zenon DEF Wrote
      <3> QED BY <1>7, <1>8, <3>1, Cat
    <2> QED BY <1>1, <1>3, <2>1, <2>2, <2>3 DEF Others
  <1> QED BY <1>2, <1>9, <1>10 DEF Keeps

\* The steps that touch neither stream.
LEMMA QuietKeeps ==
  ASSUME IInv, \/ Exits \/ ServeDone \/ AwaitEnds \/ Disconnect \/ Terminated \/ UNCHANGED vars
  PROVE  Keeps
  <1>1. /\ Idle /\ UNCHANGED <<down, eterm, buf, answer, timed, pushes, dropped, cut>>
        /\ client' \in {client, "done"}
    BY DEF Exits, ServeDone, AwaitEnds, Disconnect, Terminated, vars, Idle, clientVars, daemonVars
  <1>2. ~eterm /\ daemon = "await" => pushes # 0
    BY Parts DEF Exchange, Causes
  <1>3. /\ owner' = owner \/ owner' = FALSE
        /\ prev' = prev \/ prev' = FALSE \/ (prev' = TRUE /\ daemon = "await")
        /\ daemon' \in {"loop", "serve"} \/ daemon' = daemon
    BY DEF Exits, ServeDone, AwaitEnds, Released, Disconnect, Terminated, vars, daemonVars
  <1>4. ~eterm /\ prev' => prev \/ pushes # 0
    BY <1>2, <1>3
  <1> QED BY <1>1, <1>3, <1>4, CalmKeeps

-----------------------------------------------------------------------------
(* The theorems *)

\* Nothing is on the wire, and nothing is claimed, at first.
LEMMA Initially == Init => IInv
  <1> SUFFICES ASSUME Init PROVE IInv
    OBVIOUS
  <1>1. Asked = 0 /\ Served = 0 /\ sent = <<>> /\ got = <<>>
    BY DEF Init, Asked, Served
  <1>2. Order /\ Follows
    BY <1>1 DEF Order, Follows
  <1>3. Others
    <2>1. pushes \in 0 .. MaxPush
      BY FramingAssumption DEF Init
    <2>2. down \in Seq(Wire) /\ buf \in Seq(Byte)
      BY DEF Init
    <2>3. client \in {"start", "eterm"}
      BY DEF Init
    <2> QED BY <2>1, <2>2, <2>3 DEF Init, Others
  <1>4. TypeOK
    BY <1>2, <1>3, TypeParts DEF Init
  <1>5. UpStream
    BY <1>1 DEF Init, UpStream, OnStream
  <1>6. CASE eterm
    <2>1. Side
      BY <1>6 DEF Init, Side
    <2> QED BY <1>2, <1>4, <1>5, <2>1 DEF IInv
  <1>7. CASE ~eterm
    <2>1. client = "start"
      BY <1>7 DEF Init
    <2>2. Where /\ Causes /\ Seen
      BY <1>1, <2>1 DEF Init, Where, Causes, Seen, Tagged
    <2>3. Attaching /\ Receiving /\ Attached /\ Detaching /\ Answers
      BY <2>1 DEF Init, Attaching, Receiving, Attached, Detaching, Answers
    <2> QED BY <1>2, <1>4, <1>5, <1>7, <2>2, <2>3 DEF IInv, Side, Exchange
  <1>8. eterm \in BOOLEAN
    BY DEF Init
  <1> QED BY <1>6, <1>7, <1>8

\* Every step keeps the invariant.
LEMMA StepKeeps == IInv /\ [Next]_vars => IInv'
  <1> SUFFICES ASSUME IInv, [Next]_vars PROVE IInv'
    OBVIOUS
  <1>1. Keeps
    <2>1. CASE AsksAttach \/ AsksDetach
      BY <2>1, AsksKeep
    <2>2. CASE RecvFd \/ \E k \in 1 .. Len(down) : ClientReads(k)
      BY <2>2, ReadsKeep
    <2>3. CASE Takeover \/ Resume
      BY <2>3, PushesKeep
    <2>4. CASE Serve
      BY <2>4, ServeKeeps
    <2>5. CASE \E k \in 1 .. Len(up) : DaemonReads(k) \/ AwaitReads(k)
      BY <2>5, DaemonReadsKeep, AwaitReadsKeep
    <2>6. CASE \/ Exits \/ ServeDone \/ AwaitEnds \/ Disconnect \/ Terminated \/ UNCHANGED vars
      BY <2>6, QuietKeeps
    <2>7. CASE EtermReads \/ \E m \in Upstream : EtermSends(m)
      BY <2>7, EtermKeeps
    <2> QED BY <2>1, <2>2, <2>3, <2>4, <2>5, <2>6, <2>7 DEF Next, Client, Daemon
  <1>2. TypeOK /\ Follows /\ UpStream
    BY DEF IInv
  <1>3. Follows' /\ UpStream' /\ up' \in Seq(Byte) /\ readBuf' \in Seq(Byte)
    BY <1>1, <1>2, StreamStep DEF Keeps
  <1>4. Side' /\ Others'
    BY <1>1 DEF Keeps
  <1>5. TypeOK'
    <2>1. (Others /\ Follows /\ up \in Seq(Byte) /\ readBuf \in Seq(Byte) => TypeOK)'
      BY TypeParts, PTL
    <2> QED BY <1>3, <1>4, <2>1
  <1> QED BY <1>3, <1>4, <1>5 DEF IInv

\* The inductive invariant holds: the requests and acks, as many as there are, are in
\* order and on one stream of bytes, and the wire to a command-line client is as the
\* answers and pushes so far make it.
THEOREM Invariance == Spec => []IInv
  BY Initially, StepKeeps, PTL DEF Spec

\* Every byte is a byte, every request a request, and every history what it records.
THEOREM TypeCorrect == Spec => []TypeOK
  <1>1. IInv => TypeOK
    BY DEF IInv
  <1> QED BY <1>1, Invariance, PTL

\* However many requests and acks are on the way at once, and however reads split and
\* join their bytes, in handle_client_data and in wait_for_detach_ack, the frames the
\* daemon takes out are the messages that were sent, in order.
THEOREM RequestsIntactHolds == Spec => []RequestsIntact
  <1>1. IInv => RequestsIntact
    <2> SUFFICES ASSUME IInv PROVE RequestsIntact
      OBVIOUS
    <2>1. /\ sent \in Seq(Upstream) /\ got \in Seq(Upstream) /\ Len(got) <= Len(sent)
          /\ \A i \in 1 .. Len(got) : got[i] = sent[i]
      BY DEF IInv, Follows, Asked, Served
    <2> DEFINE t == SubSeq(sent, 1, Len(got))
    <2>2. t \in Seq(Upstream) /\ Len(t) = Len(got) /\ \A i \in 1 .. Len(got) : t[i] = sent[i]
      <3>1. /\ Len(got) \in 0 .. Len(sent) /\ Len(got) \in Nat
            /\ \A i \in 1 .. Len(got) : sent[i] \in Upstream
        BY <2>1
      <3> QED BY <2>1, <3>1, TakeDrop DEF Take
    <2> HIDE DEF t
    <2>3. got = t
      BY <2>1, <2>2, SeqEqual
    <2> QED BY <2>1, <2>3 DEF RequestsIntact, IsPrefix, t
  <1> QED BY <1>1, Invariance, PTL

\* The response send_request returns is the one to its request, whatever was pushed or
\* cut in between; without a push it can always be parsed.
THEOREM AnswerFitsHolds == Spec => []AnswerFits
  <1>1. IInv => AnswerFits
    <2> SUFFICES ASSUME IInv PROVE AnswerFits
      OBVIOUS
    <2>0. eterm => answer = "None"
      BY Parts
    <2>1. CASE ~eterm
      <3>0. TypeOK /\ Order /\ Where /\ Answers
        BY <2>1, Parts DEF Exchange
      <3>1. ASSUME answer = "AttachReady" PROVE got = <<"Attach">> \/ client = "done"
        <4>1. client \in {"recv_fd", "attached", "stray", "done"}
          BY <3>0, <3>1 DEF TypeOK, Answers, Where
        <4>2. client # "done" => Asked = 1 /\ Served >= 1
          BY <3>0, <4>1 DEF Where
        <4> QED BY <3>0, <4>2, Counts
      <3>2. answer = "Detached" => got = <<"Attach", "Detach">>
        BY <3>0, Counts DEF Answers
      <3>3. answer = "ParseError" => pushes > 0
        BY <3>0 DEF Answers
      <3> QED BY <3>1, <3>2, <3>3 DEF AnswerFits
    <2>2. CASE eterm
      BY <2>0, <2>2 DEF AnswerFits
    <2> QED BY <2>1, <2>2, Parts
  <1> QED BY <1>1, Invariance, PTL

\* recv_fd takes a byte of a message for the descriptor's only when the descriptor is
\* gone and a push follows the response.
THEOREM DescriptorFoundHolds == Spec => []DescriptorFound
  <1>1. IInv => DescriptorFound
    BY Parts DEF Exchange, Answers, DescriptorFound
  <1> QED BY <1>1, Invariance, PTL
=============================================================================
