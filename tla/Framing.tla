------------------------------ MODULE Framing ------------------------------
(***************************************************************************)
(* One connection of the control protocol as bytes: encode_message and     *)
(* try_decode_message (pty-daemon/src/protocol.rs), send_fd and recv_fd    *)
(* (fd_passing.rs), the read loops of handle_client_data and               *)
(* wait_for_detach_ack (server.rs).  At the other end is the command-line  *)
(* client that attaches, is pushed to, and detaches (main.rs), or ETerm,   *)
(* which sends requests and acks without waiting for answers and of which  *)
(* only the bytes are known.  PtyServer takes whole frames for granted;    *)
(* here a read returns any number of the bytes that are there, of several  *)
(* frames or of a part of one, and a write with a timeout may stop         *)
(* anywhere in a frame.                                                    *)
(*                                                                         *)
(* A payload is its tag, twice: JSON that parses as one message type, and  *)
(* whose bytes make a huge length when they are taken for a header.  A     *)
(* read that is not recvmsg drops the descriptors that came with the       *)
(* bytes it returns.  Who may attach and when is PtyServer's business.     *)
(***************************************************************************)
EXTENDS Naturals, SequencesExt

CONSTANTS SockBuf,     \* bytes the socket holds for a client that does not read
          MaxPush,     \* bound on the pushes to the client
          MaxSent      \* bound on the messages ETerm sends

ASSUME FramingAssumption == SockBuf \in Nat /\ MaxPush \in Nat /\ MaxSent \in Nat

VARIABLES
  up, down,            \* the bytes in the socket, towards the daemon and the client
  eterm,               \* the client is ETerm, not the command-line client
  client,              \* where the client stands
  buf,                 \* its buf in send_request
  daemon,              \* where the event loop stands
  readBuf,             \* read_buf of the connection
  owner, prev,         \* the client is owner_fd, previous_owner_fd of the session
  timed,               \* a push has set SO_SNDTIMEO
  pushes,              \* pushes so far
  sent, got,           \* history: messages sent, frames the daemon has taken out
  answer,              \* history: what the last send_request returned
  cut,                 \* history: a write has stopped inside a frame
  dropped              \* history: a descriptor was dropped, or could not be sent

clientVars == <<eterm, client, buf, answer, sent>>
daemonVars == <<daemon, readBuf, owner, prev, timed, pushes, got>>
vars == <<up, down, clientVars, daemonVars, cut, dropped>>

-----------------------------------------------------------------------------
(* protocol.rs *)

Requests  == {"Attach", "Detach"}
Responses == {"AttachReady", "Detached", "Error"}
Pushes    == {"ForceDetach", "ResumeAttach"}
Acks      == {"DetachAck", "ResumeAck"}
Upstream  == Requests \cup Acks
Messages  == Upstream \cup Responses \cup Pushes

Tag == [Attach |-> 101, Detach |-> 102, AttachReady |-> 103, Detached |-> 104,
        Error |-> 105, ForceDetach |-> 106, ResumeAttach |-> 107, DetachAck |-> 108,
        ResumeAck |-> 109]

Payload(m) == <<Tag[m], Tag[m]>>

\* u32::to_be_bytes, of the length of a payload.
HeaderLen == 4
Length(n) == <<(n \div 16777216) % 256, (n \div 65536) % 256, (n \div 256) % 256, n % 256>>

\* Mutant: a newline that the length does not count.
Encode_Newline(m) == Length(Len(Payload(m))) \o Payload(m) \o <<10>>

\* encode_message: the length, big-endian, and the payload.
Encode(m) == Length(Len(Payload(m))) \o Payload(m)

\* u32::from_be_bytes, of the first bytes of the buffer.
Number(b) == 256 * (256 * (256 * b[1] + b[2]) + b[3]) + b[4]

\* Mutant: the tag alone decides, whatever type is asked for.
Parse_Loose(payload, types) ==
  IF \E m \in Messages : Payload(m) = payload
  THEN CHOOSE m \in Messages : Payload(m) = payload ELSE "ParseError"

\* serde_json::from_slice for one of the message types.
Parse(payload, types) ==
  IF \E m \in types \cap Messages : Payload(m) = payload
  THEN CHOOSE m \in types : Payload(m) = payload ELSE "ParseError"

NoFrame == [msg |-> "None", used |-> 0]

Decoded(b, n, types) ==
  [msg |-> Parse(SubSeq(b, HeaderLen + 1, HeaderLen + n), types), used |-> HeaderLen + n]

\* Mutant: off by one.
Complete_OffByOne(b, n) == Len(b) > HeaderLen + n

Complete(b, n) == Len(b) >= HeaderLen + n

\* try_decode_message
TryDecode(b, types) ==
  LET n == Number(b)
  IN  IF Len(b) < HeaderLen \/ ~Complete(b, n) THEN NoFrame ELSE Decoded(b, n, types)

\* The byte send_fd sends: a zero that carries a descriptor.
FdByte == 256
Value(bytes) == [i \in DOMAIN bytes |-> bytes[i] % 256]
HasFd(bytes) == FdByte \in ToSet(bytes)

Take(k, s) == SubSeq(s, 1, k)
Drop(k, s) == SubSeq(s, k + 1, Len(s))

Init ==
  /\ up = <<>> /\ down = <<>>
  /\ eterm \in BOOLEAN /\ client = IF eterm THEN "eterm" ELSE "start"
  /\ buf = <<>> /\ answer = "None" /\ sent = <<>>
  /\ daemon = "loop" /\ readBuf = <<>> /\ owner = FALSE /\ prev = FALSE
  /\ timed = FALSE /\ pushes = 0 /\ got = <<>>
  /\ cut = FALSE /\ dropped = FALSE

-----------------------------------------------------------------------------
(* main.rs *)

\* send_request, first half.  buf is a local of the call.
Asks(m, from, to) == /\ client = from
                     /\ client' = to /\ buf' = <<>> /\ answer' = "None"
                     /\ up' = up \o Encode(m) /\ sent' = Append(sent, m)
                     /\ UNCHANGED <<down, eterm, daemonVars, cut, dropped>>

\* cmd_attach, and Ctrl-] in run_interactive.
AsksAttach == Asks("Attach", "start", "attach")
AsksDetach == Asks("Detach", "attached", "detach")

\* What the client does with the result of send_request.
After(m) == IF client = "attach" /\ m = "AttachReady" THEN "recv_fd" ELSE "done"

\* The loop of send_request: read, then try to decode.  What is behind the first
\* frame, a descriptor included, goes with buf.
ClientReads(k) ==
  /\ client \in {"attach", "detach"}
  /\ k \in 1 .. Len(down)
  /\ down' = Drop(k, down)
  /\ dropped' = (dropped \/ HasFd(Take(k, down)))
  /\ LET all == buf \o Value(Take(k, down))
         m   == TryDecode(all, Responses).msg
     IN  IF m = "None" THEN buf' = all /\ UNCHANGED <<client, answer>>
         ELSE buf' = <<>> /\ answer' = m /\ client' = After(m)
  /\ UNCHANGED <<up, eterm, sent, daemonVars, cut>>

\* recv_fd: one byte, with a descriptor or "no ancillary data".
RecvFd ==
  /\ client = "recv_fd" /\ down # <<>>
  /\ down' = Tail(down)
  /\ client' = IF Head(down) = FdByte THEN "attached" ELSE "stray"
  /\ UNCHANGED <<up, eterm, buf, answer, sent, daemonVars, cut, dropped>>

\* End of input or of the terminal, an error, or death.
Exits == /\ client \notin {"start", "done"}
         /\ client' = "done"
         /\ UNCHANGED <<up, down, eterm, buf, answer, sent, daemonVars, cut, dropped>>

-----------------------------------------------------------------------------
(* ETerm: any request or ack at any time; what it reads is all that has come. *)

EtermSends(m) == /\ client = "eterm" /\ Len(sent) < MaxSent
                 /\ up' = up \o Encode(m) /\ sent' = Append(sent, m)
                 /\ UNCHANGED <<down, eterm, client, buf, answer, daemonVars, cut, dropped>>

EtermReads == /\ client = "eterm" /\ down # <<>>
              /\ down' = <<>>
              /\ UNCHANGED <<up, clientVars, daemonVars, cut, dropped>>

-----------------------------------------------------------------------------
(* server.rs *)

Room == IF Len(down) < SockBuf THEN SockBuf - Len(down) ELSE 0

\* write_all of one frame: all of it or, with a timeout, what there was room for and
\* what the client made room for in time.
Writes(m) == {Encode(m)} \cup {Take(k, Encode(m)) : k \in {i \in Room .. Len(Encode(m)) : timed'}}

Broken(bytes, m) == bytes \notin {<<>>, Encode(m)}

\* Mutant: the descriptor goes first, and its byte before the response.
Sends_FdFirst(bytes, fd) == down' = down \o fd \o bytes

Sends(bytes, fd) == down' = down \o bytes \o fd

\* Mutant: the frame is left in the buffer.
Drained_Not(b, f) == b

\* read_buf.drain(..consumed)
Drained(b, f) == Drop(f.used, b)

DaemonReads(k) ==
  /\ daemon = "loop" /\ client # "done"
  /\ k \in 1 .. Len(up)
  /\ up' = Drop(k, up) /\ readBuf' = readBuf \o Take(k, up)
  /\ daemon' = "serve"
  /\ UNCHANGED <<down, clientVars, owner, prev, timed, pushes, got, cut, dropped>>

\* handle_request, as far as the connection sees it.  The session to detach from may be
\* gone; a frame that is no request is answered too.
Answer(m) == CASE m = "Attach" /\ ~owner -> {"AttachReady", "Error"}
               [] m = "Attach" /\ owner  -> {"Error"}
               [] m = "Detach"           -> {"Detached", "Error"}
               [] OTHER                  -> {"Error"}

\* One round of the loop in handle_client_data: the response, then the descriptor,
\* or the attach undone.  After a Detach the client owns nothing: it is detached or the
\* session is no more.
Serve ==
  /\ daemon = "serve"
  /\ LET f == TryDecode(readBuf, Requests)
     IN  /\ f.msg # "None"
         /\ readBuf' = Drained(readBuf, f)
         /\ got' = Append(got, TryDecode(readBuf, Upstream).msg)
         /\ UNCHANGED timed
         /\ \E m \in Answer(f.msg) : \E bytes \in Writes(m) :
              /\ cut' = (cut \/ Broken(bytes, m))
              /\ \/ /\ m = "AttachReady"
                    /\ Sends(bytes, <<FdByte>>) /\ owner' = TRUE
                    /\ UNCHANGED dropped
                 \/ /\ m = "AttachReady"
                    /\ Sends(bytes, <<>>) /\ owner' = FALSE
                    /\ dropped' = TRUE
                 \/ /\ m # "AttachReady"
                    /\ Sends(bytes, <<>>) /\ owner' = (owner /\ f.msg # "Detach")
                    /\ UNCHANGED dropped
  /\ UNCHANGED <<up, clientVars, daemon, prev, pushes>>

ServeDone == /\ daemon = "serve"
             /\ TryDecode(readBuf, Requests).msg = "None"
             /\ daemon' = "loop"
             /\ UNCHANGED <<up, down, clientVars, readBuf, owner, prev, timed, pushes, got,
                            cut, dropped>>

\* A push sets the write timeout and may be cut short by it.
Pushed(m) == /\ daemon = "loop" /\ client # "done" /\ pushes < MaxPush
             /\ pushes' = pushes + 1 /\ timed' = TRUE
             /\ UNCHANGED <<up, clientVars, readBuf, got>>

\* handle_baton_takeover: wait for the ack if the push went out.
Takeover ==
  /\ owner /\ Pushed("ForceDetach")
  /\ \E bytes \in Writes("ForceDetach") :
       /\ Sends(bytes, <<>>)
       /\ cut' = (cut \/ Broken(bytes, "ForceDetach"))
       /\ IF bytes = Encode("ForceDetach")
          THEN daemon' = "await" /\ UNCHANGED <<owner, prev>>
          ELSE owner' = FALSE /\ prev' = TRUE /\ UNCHANGED daemon
  /\ UNCHANGED dropped

Released == daemon' = "loop" /\ owner' = FALSE /\ prev' = TRUE

\* wait_for_detach_ack: any whole frame ends the wait and is taken out.
AwaitReads(k) ==
  /\ daemon = "await" /\ client # "done"
  /\ k \in 1 .. Len(up)
  /\ up' = Drop(k, up)
  /\ LET all == readBuf \o Take(k, up)
         f   == TryDecode(all, Acks)
     IN  IF f.msg = "None"
         THEN readBuf' = all /\ UNCHANGED <<daemon, owner, prev, got>>
         ELSE /\ readBuf' = Drained(all, f)
              /\ got' = Append(got, TryDecode(all, Upstream).msg)
              /\ Released
  /\ UNCHANGED <<down, clientVars, timed, pushes, cut, dropped>>

\* The timeout, or end of file.
AwaitEnds == /\ daemon = "await" /\ Released
             /\ UNCHANGED <<up, down, clientVars, readBuf, timed, pushes, got, cut, dropped>>

\* handle_baton_release: the push, and the descriptor if it went out.
Resume ==
  /\ prev /\ ~owner /\ Pushed("ResumeAttach")
  /\ \E bytes \in Writes("ResumeAttach") :
       /\ cut' = (cut \/ Broken(bytes, "ResumeAttach"))
       /\ prev' = FALSE
       /\ \/ /\ bytes = Encode("ResumeAttach")
             /\ Sends(bytes, <<FdByte>>) /\ owner' = TRUE
             /\ UNCHANGED dropped
          \/ /\ Sends(bytes, <<>>)
             /\ dropped' = TRUE
             /\ UNCHANGED owner
  /\ UNCHANGED daemon

\* handle_client_disconnect
Disconnect == /\ client = "done" /\ daemon = "loop" /\ (owner \/ prev)
              /\ owner' = FALSE /\ prev' = FALSE
              /\ UNCHANGED <<up, down, clientVars, daemon, readBuf, timed, pushes, got, cut,
                             dropped>>

Terminated == /\ client = "done" /\ daemon = "loop" /\ ~owner /\ ~prev
              /\ UNCHANGED vars
-----------------------------------------------------------------------------
Client == \/ AsksAttach \/ AsksDetach \/ RecvFd \/ Exits \/ EtermReads
          \/ \E k \in 1 .. Len(down) : ClientReads(k)
          \/ \E m \in Upstream : EtermSends(m)

Daemon == \/ Serve \/ ServeDone \/ Takeover \/ AwaitEnds \/ Resume \/ Disconnect
          \/ \E k \in 1 .. Len(up) : DaemonReads(k) \/ AwaitReads(k)

Next == Client \/ Daemon \/ Terminated

Spec == Init /\ [][Next]_vars

\* The loop reads what there is and serves what it has read, a wait ends, and a
\* client in a blocking call takes what comes.
FairSpec == /\ Spec
            /\ WF_vars(\E k \in 1 .. Len(up) : DaemonReads(k))
            /\ WF_vars(Serve \/ ServeDone) /\ WF_vars(AwaitEnds)
            /\ WF_vars(RecvFd \/ \E k \in 1 .. Len(down) : ClientReads(k))

-----------------------------------------------------------------------------
TypeOK ==
  /\ up \in Seq(0 .. 255) /\ down \in Seq(0 .. FdByte)
  /\ client \in {"start", "attach", "recv_fd", "attached", "detach", "stray", "eterm", "done"}
  /\ buf \in Seq(0 .. 255) /\ readBuf \in Seq(0 .. 255)
  /\ daemon \in {"loop", "serve", "await"}
  /\ {eterm, owner, prev, timed, cut, dropped} \subseteq BOOLEAN
  /\ pushes \in 0 .. MaxPush
  /\ sent \in Seq(Upstream) /\ got \in Seq(Upstream)
  /\ answer \in Responses \cup {"None", "ParseError"}

\* However reads split and join the bytes, in the loop and in a takeover wait that takes
\* one frame out of several and leaves the rest, the frames the daemon takes out are the
\* requests and acks that were sent, in order, each once, and nothing else.
RequestsIntact == IsPrefix(got, sent)

\* A response the command-line client accepts is the one to its request, whatever was
\* pushed or cut in between, and one it cannot parse takes a push: with the descriptor's
\* byte and a cut response alone it never happens.
AnswerFits == /\ answer = "AttachReady" => got = <<"Attach">> \/ client = "done"
              /\ answer = "Detached" => got = <<"Attach", "Detach">>
              /\ answer = "ParseError" => pushes > 0

\* recv_fd finds the descriptor or waits: it takes a byte of a message only when the
\* descriptor is gone and a push follows, however writes were cut short.
DescriptorFound == client = "stray" => dropped /\ pushes > 0

\* A call of send_request or recv_fd returns, with the answer or with a push that came
\* first, unless a write was cut inside a frame, or the descriptor is gone: it could not
\* be sent, or the read that took AttachReady also took its byte; the client then waits
\* in recv_fd for ever.  (A Detach that ends a takeover wait is never answered, but then
\* the call returns with the push.)
CallReturns ==
  \A c \in {"attach", "recv_fd", "detach"} : client = c ~> (client # c \/ cut \/ dropped)
=============================================================================
