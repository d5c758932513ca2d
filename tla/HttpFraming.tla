---------------------------- MODULE HttpFraming -----------------------------
(***************************************************************************)
(* How one worker cuts the byte stream of a connection into requests:      *)
(* read_request, the buffer it fills, http_parse_request and               *)
(* consume_message (src/server/server_http.c, server_serve.c,              *)
(* src/core/dynbuf.c, src/http/http.c), over several connections that use  *)
(* the same buffer one after the other.                                    *)
(*                                                                         *)
(* A byte is the place it was sent from: connection, message, offset.  The *)
(* parser sees what a parser can see of it: where a head begins and ends   *)
(* and which headers the head holds.  The wording of a head is abstracted  *)
(* to the facts that the checks of http.c are about.                       *)
(***************************************************************************)
EXTENDS Integers, SequencesExt

CONSTANTS Messages,   \* what a client may send, see Message
          MaxStream,  \* messages on a connection
          MaxConns,   \* connections, one after the other
          HeadMax,    \* HTTP_MAX_HEADER_BYTES
          BodyMax,    \* SERVER_BODY_MAX
          ReqMax,     \* SERVER_REQ_MAX, the buffer's limit
          Chunk,      \* DYNBUF_MIN_CHUNK
          ReadSteps   \* SERVER_READ_STEPS

(* head is the number of bytes up to and with the empty line; lengths the  *)
(* values of the Content-Length headers; body what the client sends after  *)
(* the head, one of these lengths, or anything when it says chunked.       *)
Message == [head : Nat \ {0}, syntax : BOOLEAN, minor : {0, 1}, hosts : Nat,
            lengths : Seq(Nat), chunked : BOOLEAN,
            expect : {"none", "continue", "other"}, body : Nat]

Honest(m) ==
    \/ m.chunked
    \/ m.lengths = <<>> /\ m.body = 0
    \/ \E i \in DOMAIN m.lengths : m.body = m.lengths[i]

ASSUME FramingAssumption ==
    /\ Messages \subseteq Message /\ \A m \in Messages : Honest(m)
    /\ MaxStream \in Nat /\ MaxConns \in Nat /\ ReadSteps \in Nat
    /\ HeadMax \in Nat \ {0} /\ BodyMax \in Nat \ {0}
    /\ Chunk \in Nat \ {0} /\ ReqMax \in Nat /\ ReqMax > Chunk

VARIABLES
    conn,     \* which connection this is
    stream,   \* the messages its client sends
    wire,     \* the bytes that are still to be received
    buf,      \* w->req.data, its first w->req.len bytes
    cap,      \* w->req.cap
    pc,       \* where the worker is
    steps,    \* guard of read_request
    already,  \* sent_continue
    interims, \* how often 100 Continue was sent for this request
    rc,       \* the result of read_request, 2 while there is none
    calm,     \* this read met no timeout, end of stream or lack of memory
    served    \* requests of this connection that were consumed

vars == <<conn, stream, wire, buf, cap, pc, steps, already, interims, rc,
          calm, served>>

Byte == [conn : 1..MaxConns, nth : 1..MaxStream, at : Nat \ {0}, of : Messages]

(* The bytes of a message, and those of a connection from its k-th         *)
(* message on.                                                             *)
BytesOf(c, k, m) ==
    [i \in 1..(m.head + m.body) |-> [conn |-> c, nth |-> k, at |-> i, of |-> m]]

BytesFrom(c, s, k) ==
    LET from[i \in 1..(Len(s) + 1)] ==
            IF i > Len(s) THEN <<>> ELSE BytesOf(c, i, s[i]) \o from[i + 1]
    IN  from[k]

TypeOK ==
    /\ conn \in 0..MaxConns
    /\ stream \in Seq(Messages)
    /\ wire \in Seq(Byte) /\ buf \in Seq(Byte)
    /\ cap \in 0..ReqMax
    /\ pc \in {"idle", "read", "recv", "serve", "close"}
    /\ steps \in 0..ReadSteps
    /\ already \in BOOLEAN /\ interims \in Nat
    /\ rc \in {-3, -2, -1, 0, 1, 2}
    /\ calm \in BOOLEAN
    /\ served \in 0..MaxStream

(* dynbuf_init.                                                            *)
Init ==
    /\ conn = 0 /\ stream = <<>> /\ wire = <<>> /\ buf = <<>> /\ cap = 0
    /\ pc = "idle" /\ steps = 0 /\ already = FALSE /\ interims = 0
    /\ rc = 2 /\ calm = TRUE /\ served = 0

-----------------------------------------------------------------------------
(* http_parse_request.                                                     *)

(* header_end: the first place behind an empty line, 0 when there is none. *)
HeaderEnd ==
    LET ends == {i \in DOMAIN buf : buf[i].at = buf[i].of.head}
    IN IF ends = {} THEN 0 ELSE Min(ends)

(* Variant: of several Content-Length headers the last one counts.         *)
HeadOKLastLength(m) ==
    /\ buf[1].at = 1
    /\ m.syntax
    /\ m.minor = 1 => m.hosts = 1
    /\ m.hosts <= 1
    /\ ~m.chunked

(* The head begins at the first byte of a message and passes               *)
(* parse_request_line, parse_headers and count_known_header.               *)
HeadOK(m) ==
    /\ buf[1].at = 1
    /\ m.syntax
    /\ m.minor = 1 => m.hosts = 1
    /\ m.hosts <= 1
    /\ Len(m.lengths) <= 1
    /\ ~m.chunked

(* req->body_len.                                                          *)
BodyLen(m) == IF m.lengths = <<>> THEN 0 ELSE m.lengths[Len(m.lengths)]

(* "more" before the head is complete, "body" when only the body is not.   *)
Parsed ==
    IF buf = <<>> THEN "more"
    ELSE IF HeaderEnd = 0 THEN IF Len(buf) > HeadMax THEN "error" ELSE "more"
    ELSE IF HeaderEnd > HeadMax \/ ~HeadOK(buf[1].of) THEN "error"
    ELSE IF BodyLen(buf[1].of) > Len(buf) - HeaderEnd THEN "body"
    ELSE "ok"

-----------------------------------------------------------------------------
(* read_request.                                                           *)

(* handle_connection begins a read; its buffer may hold bytes already.     *)
StartRead ==
    /\ pc' = "read" /\ steps' = 0 /\ already' = FALSE /\ interims' = 0
    /\ rc' = 2 /\ calm' = TRUE

(* A worker takes the next connection.                                     *)
Connect(s) ==
    /\ pc = "idle" /\ conn < MaxConns
    /\ conn' = conn + 1 /\ stream' = s /\ wire' = BytesFrom(conn + 1, s, 1)
    /\ served' = 0
    /\ StartRead
    /\ UNCHANGED <<buf, cap>>

Done(result) ==
    /\ rc' = result
    /\ pc' = IF result = 1 THEN "serve" ELSE "close"

(* The end of handle_expect_continue.                                      *)
Continue(sent) == interims' = interims + sent /\ already' = TRUE

(* Only "Expect: 100-continue" of an HTTP/1.1 client is understood.        *)
Unmet(m) == m.expect = "other" \/ (m.expect = "continue" /\ m.minor # 1)

(* The first half of a round: parse what there is.                         *)
ParseRound ==
    /\ pc = "read" /\ steps < ReadSteps
    /\ steps' = steps + 1
    /\ LET m == buf[1].of
           known == Parsed \in {"body", "ok"}
       IN
       IF Parsed = "error"
       THEN Done(-1) /\ UNCHANGED <<already, interims>>
       ELSE IF known /\ BodyLen(m) > BodyMax
       THEN Done(-2) /\ UNCHANGED <<already, interims>>
       ELSE IF known /\ ~already /\ Unmet(m)
       THEN Done(-3) /\ UNCHANGED <<already, interims>>
       ELSE /\ IF known /\ ~already /\ m.expect = "continue"
               THEN Continue(IF Parsed = "ok" THEN 0 ELSE 1)
               ELSE UNCHANGED <<already, interims>>
            /\ IF Parsed = "ok" THEN Done(1) ELSE pc' = "recv" /\ UNCHANGED rc
    /\ UNCHANGED <<conn, stream, wire, buf, cap, calm, served>>

(* The interim response cannot be sent.                                    *)
InterimFails ==
    /\ pc = "read" /\ steps < ReadSteps
    /\ Parsed = "body" /\ BodyLen(buf[1].of) <= BodyMax
    /\ ~already /\ buf[1].of.expect = "continue" /\ ~Unmet(buf[1].of)
    /\ steps' = steps + 1
    /\ Done(-1)
    /\ calm' = FALSE
    /\ UNCHANGED <<conn, stream, wire, buf, cap, already, interims, served>>

(* The rounds are used up.                                                 *)
StepsOver ==
    /\ pc = "read" /\ steps >= ReadSteps
    /\ Done(-1)
    /\ UNCHANGED <<conn, stream, wire, buf, cap, steps, already, interims,
                   calm, served>>

(* What read_request reserves.                                             *)
Need == Len(buf) + Chunk + 1

(* dynbuf_reserve: the buffer doubles until it is enough, or takes all it  *)
(* may have.                                                               *)
Grown ==
    LET start == IF cap # 0 THEN cap ELSE Chunk
        sizes == {c \in Need..ReqMax : c = ReqMax \/ \E k \in 0..c : c = start * 2^k}
    IN  IF Need <= cap THEN cap ELSE Min(sizes)

ReserveFails ==
    /\ pc = "recv" /\ Need > ReqMax
    /\ Done(-2)
    /\ UNCHANGED <<conn, stream, wire, buf, cap, steps, already, interims,
                   calm, served>>

(* Variant: no byte is left for the terminating zero.                      *)
RoomWhole == Grown - Len(buf)

(* What recv is asked for.                                                 *)
Room == Grown - Len(buf) - 1

(* n bytes arrive.                                                         *)
Receive(n) ==
    /\ pc = "recv" /\ Need <= ReqMax
    /\ n <= Room /\ n <= Len(wire)
    /\ cap' = Grown
    /\ buf' = buf \o SubSeq(wire, 1, n)
    /\ wire' = SubSeq(wire, n + 1, Len(wire))
    /\ pc' = "read"
    /\ UNCHANGED <<conn, stream, steps, already, interims, rc, calm, served>>

(* Variant: a round that was interrupted is not counted.                   *)
InterruptedFree ==
    /\ pc = "recv" /\ Need <= ReqMax
    /\ cap' = Grown /\ steps' = steps - 1
    /\ pc' = "read"
    /\ UNCHANGED <<conn, stream, wire, buf, already, interims, rc, calm, served>>

(* recv is interrupted: another round.                                     *)
Interrupted ==
    /\ pc = "recv" /\ Need <= ReqMax
    /\ cap' = Grown
    /\ pc' = "read"
    /\ UNCHANGED <<conn, stream, wire, buf, steps, already, interims, rc,
                   calm, served>>

(* The client closes (0 when nothing had come), or the deadline of five    *)
(* seconds, the socket or the memory is gone (-1).                         *)
RecvFails ==
    /\ pc = "recv" /\ Need <= ReqMax
    /\ \/ Done(-1)
       \/ buf = <<>> /\ Done(0)
    /\ cap' \in {cap, Grown}
    /\ calm' = FALSE
    /\ UNCHANGED <<conn, stream, wire, buf, steps, already, interims, served>>

-----------------------------------------------------------------------------
(* After the response.                                                     *)

(* req->message_len of the request just served.                            *)
MessageLen == HeaderEnd + BodyLen(buf[1].of)

(* Variant: everything received so far is dropped.                         *)
ConsumeAll ==
    /\ pc = "serve" /\ served < MaxStream
    /\ buf' = <<>> /\ served' = served + 1
    /\ StartRead
    /\ UNCHANGED <<conn, stream, wire, cap>>

(* The connection is kept: consume_message and the next read.              *)
Consume ==
    /\ pc = "serve" /\ served < MaxStream
    /\ buf' = SubSeq(buf, MessageLen + 1, Len(buf))
    /\ served' = served + 1
    /\ StartRead
    /\ UNCHANGED <<conn, stream, wire, cap>>

(* The connection is not kept.                                             *)
Hangup ==
    /\ pc = "serve"
    /\ pc' = "close"
    /\ UNCHANGED <<conn, stream, wire, buf, cap, steps, already, interims, rc,
                   calm, served>>

(* worker_main closes the connection and releases the buffer.              *)
Close ==
    /\ pc = "close"
    /\ pc' = "idle"
    /\ stream' = <<>> /\ wire' = <<>>
    /\ buf' = <<>> /\ cap' = 0
    /\ UNCHANGED <<conn, steps, already, interims, rc, calm, served>>

Streams == UNION {[1..n -> Messages] : n \in 0..MaxStream}

Worker ==
    \/ ParseRound \/ InterimFails \/ StepsOver \/ ReserveFails
    \/ (\E n \in 1..ReqMax : Receive(n)) \/ Interrupted \/ RecvFails
    \/ Consume \/ Hangup \/ Close

Over == pc = "idle" /\ conn = MaxConns /\ UNCHANGED vars

Next == (\E s \in Streams : Connect(s)) \/ Worker \/ Over

Spec == Init /\ [][Next]_vars

(* recv returns at the latest at the deadline, so the worker always has a  *)
(* next step.                                                              *)
FairSpec == Spec /\ WF_vars(Worker)

-----------------------------------------------------------------------------
(* Properties.                                                             *)

(* Client and server stay in step: a request that is served is the next    *)
(* one its client sent, from its first byte to its last, however the bytes *)
(* were cut on the way, whatever came behind it and whoever used the       *)
(* buffer before; buffer and wire are together what the client sent and    *)
(* was not yet consumed; 100 Continue is sent once, to one who asked.      *)
Framed ==
    /\ pc = "serve" =>
          LET m == stream[served + 1] IN
          /\ MessageLen = m.head + m.body
          /\ SubSeq(buf, 1, MessageLen) = BytesOf(conn, served + 1, m)
    /\ pc \in {"read", "recv", "serve"} =>
          buf \o wire = BytesFrom(conn, stream, served + 1)
    /\ interims <= 1
    /\ interims = 1 /\ pc # "idle" => buf[1].of.expect = "continue"

(* The zero that read_request and consume_message write behind the bytes   *)
(* is inside the buffer, and the buffer inside its limit.                  *)
ZeroFits == buf # <<>> => Len(buf) < cap /\ cap <= ReqMax

(* 413 is for a body above BodyMax or a request that does not leave a      *)
(* chunk of the buffer free, 417 for an expectation other than             *)
(* 100-continue or one of an HTTP/1.0 client; a correct request within     *)
(* these limits is refused only when the socket, the client or the number  *)
(* of rounds is to blame.                                                  *)
RefusedForCause ==
    pc = "close" /\ served < Len(stream) =>
        LET m == stream[served + 1] IN
        /\ rc = -2 => BodyLen(m) > BodyMax \/ m.head + m.body > ReqMax - Chunk
        /\ rc = -3 => m.expect # "none" /\ (m.minor = 1 => m.expect = "other")
        /\ (rc = -1 /\ calm /\ steps < ReadSteps) =>
               m.head > HeadMax \/ ~m.syntax \/ m.chunked
               \/ Len(m.lengths) > 1 \/ m.hosts > 1 \/ m.hosts < m.minor

(* Every read ends, whatever the client does.                              *)
ReadEnds == pc \in {"read", "recv"} ~> pc \in {"serve", "close"}
=============================================================================
