------------------------------- MODULE Fetch --------------------------------
(***************************************************************************)
(* The outbound HTTP client: perform and what it calls                     *)
(* (src/runtime/fetch_api.c, fetch.c, fetch_reply.c).                      *)
(*                                                                         *)
(* One call of $fetch or $send, against a peer and a network that may      *)
(* answer in any pieces, stay silent, close early or break the connection. *)
(* The wire is a sequence of items: a line of the head, a chunk-size line, *)
(* the end of a chunk, or one byte of the body.  A cut inside a line reads *)
(* as a cut before it: there is no line feed, and the reply is refused.    *)
(* Requests and replies are abstracted to the facts the code tests; the    *)
(* resolver, the sockets and OpenSSL are external.                         *)
(***************************************************************************)
EXTENDS Integers, SequencesExt

CONSTANTS Replies,   \* what the peer may send, see Reply
          Hosts,     \* what getaddrinfo may return: sequences of AddressKinds
          Requests,  \* the calls, see Request
          Allows,    \* the values of fetch.allow, sets of host names
          Budget,    \* the deadline, in ticks
          MaxAddrs,  \* addresses connect_target tries (8)
          TlsRounds, SendSteps, ReadSteps,  \* the guards of the three loops
          MaxWire,   \* sizeof g_wire, in items
          MaxBody,   \* FETCH_MAX_BODY
          MaxLines,  \* lines parse_reply reads after the first (128)
          MaxChunks, \* size lines decode_chunked reads (4096)
          None

AddressKinds == {"open", "linkLocal"}

(* url is the verdict of parse_url, type that of header_value_safe; head   *)
(* and body are the units to send.                                         *)
Request == [url : BOOLEAN, host : STRING, secure : BOOLEAN,
            type : {"none", "safe", "unsafe"}, head : Nat \ {0}, body : Nat]

HeaderKinds == {"length", "badLength", "chunked", "badEncoding", "other"}

(* ends is where the chunks of a chunked body end, counted in bytes of the *)
(* body; the last of them is the length of the body.                       *)
Reply == [status : BOOLEAN, chunked : BOOLEAN, ends : Seq(Nat \ {0}),
          headers : Seq([k : HeaderKinds, v : Nat])]

Increasing(s) == \A i, j \in DOMAIN s : i < j => s[i] < s[j]

(* The codes of a Response.                                                *)
Codes == {"OK", "BAD_URL", "BLOCKED", "NO_TLS", "BAD_HEADER", "TOO_LARGE",
          "TIMEOUT", "NO_HOST", "NO_CONNECT", "TLS_FAILED", "BAD_REPLY"}

Has(r, kind) == \E i \in DOMAIN r.headers : r.headers[i].k = kind

ASSUME FetchAssumption ==
    /\ Replies \subseteq Reply /\ Requests \subseteq Request
    /\ \A r \in Replies : Increasing(r.ends) /\ (r.chunked <=> Has(r, "chunked"))
    /\ Hosts \subseteq Seq(AddressKinds)
    /\ {MaxAddrs, Budget, TlsRounds, SendSteps, ReadSteps, MaxBody, MaxLines,
        MaxChunks} \subseteq Nat
    /\ MaxWire \in Nat \ {0}
    /\ None \notin Codes

VARIABLES
    pc,       \* where perform is
    req,      \* the call
    allow,    \* fetch.allow
    denyLocal,\* fetch.link_local is not "allow"
    tls,      \* built without TLS, without a context, or ready
    reply,    \* the message the peer sends
    addrs,    \* the addresses not tried yet
    tried,    \* guard of connect_target
    blocked,
    fds,      \* the descriptors this call has open
    ssl,      \* channel.ssl # NULL
    ended,    \* how the peer's stream ended
    left,     \* ticks to the deadline
    steps,    \* the guard of the current loop
    sent,     \* what fetch_send_all has sent
    wire,     \* g_wire up to len
    at, put,  \* the read and write positions in it
    base,     \* body_out
    declared, chunked,  \* locals of parse_reply
    result,   \* the Response, a code and a body
    calm      \* neither the network nor the memory failed in this call

inputs  == <<req, allow, denyLocal, tls, reply>>
chanVars  == <<addrs, tried, blocked, fds, ssl>>
parseVars == <<at, put, base, declared, chunked>>
vars == <<pc, inputs, chanVars, ended, left, steps, sent, wire, parseVars,
          result, calm>>

Item(k, v) == [k |-> k, v |-> v]

(* The bytes of the body are numbered.                                     *)
Bytes(from, n) == [i \in 1..n |-> Item("data", from + i)]

(* The length of the body, the bytes of it in the first i chunks, and the  *)
(* items that carry these: each chunk has a size line and an end besides.  *)
(* Behind the chunks with bytes comes one without.                         *)
Total(r) == IF r.ends = <<>> THEN 0 ELSE Last(r.ends)
End(r, i) ==
    IF i \in DOMAIN r.ends THEN r.ends[i] ELSE IF i = 0 THEN 0 ELSE Total(r)
Behind(r, i) == End(r, i) + 2 * i

ChunkNumbers(r) == 1..(Len(r.ends) + 1)

(* The p-th item of a chunked body, in chunk i.                            *)
ChunkItem(r, i, p) ==
    IF p = Behind(r, i - 1) + 1 THEN Item("size", End(r, i) - End(r, i - 1))
    ELSE IF p = Behind(r, i) THEN Item("eol", 0)
    ELSE Item("data", p - 2 * i + 1)

ChunkOf(r, p) ==
    CHOOSE i \in ChunkNumbers(r) : p \in (Behind(r, i - 1) + 1)..Behind(r, i)

Payload(r) ==
    IF r.chunked
    THEN [p \in 1..Behind(r, Len(r.ends) + 1) |-> ChunkItem(r, ChunkOf(r, p), p)]
    ELSE Bytes(0, Total(r))

Encoded(r) ==
    <<Item("status", IF r.status THEN 1 ELSE 0)>> \o r.headers
        \o <<Item("blank", 0)>> \o Payload(r)

Items == [k : HeaderKinds \cup {"status", "blank", "size", "eol", "data"},
          v : Nat]

TypeOK ==
    /\ pc \in {"start", "resolve", "address", "connecting", "tls", "send",
               "read", "status", "lines", "chunks", "take", "done"}
    /\ req \in Requests /\ allow \in Allows /\ denyLocal \in BOOLEAN
    /\ tls \in {"absent", "none", "ready"} /\ reply \in Replies
    /\ addrs \in Seq(AddressKinds) /\ tried \in 0..MaxAddrs
    /\ blocked \in BOOLEAN /\ fds \subseteq 1..MaxAddrs /\ ssl \in BOOLEAN
    /\ ended \in {"open", "closed", "cut"}
    /\ left \in 0..Budget /\ steps \in Nat
    /\ sent \in 0..(req.head + req.body)
    /\ wire \in Seq(Items) /\ Len(wire) < MaxWire
    /\ at \in 0..Len(wire) /\ base \in 0..Len(wire) /\ put \in 0..MaxBody
    /\ declared \in {-1} \cup Nat /\ chunked \in BOOLEAN
    /\ result \in [code : Codes \cup {None}, body : Seq(Items)]
    /\ calm \in BOOLEAN

Init ==
    /\ req \in Requests /\ allow \in Allows /\ denyLocal \in BOOLEAN
    /\ tls \in {"absent", "none", "ready"} /\ reply \in Replies
    /\ addrs = <<>> /\ tried = 0 /\ blocked = FALSE
    /\ fds = {} /\ ssl = FALSE /\ ended = "open"
    /\ left = Budget /\ steps = 0 /\ sent = 0 /\ wire = <<>>
    /\ at = 0 /\ put = 0 /\ base = 0 /\ declared = -1 /\ chunked = FALSE
    /\ pc = "start" /\ result = [code |-> None, body |-> <<>>] /\ calm = TRUE

-----------------------------------------------------------------------------
(* failure: the call answers with a code and no body.                      *)
Fail(code) == pc' = "done" /\ result' = [code |-> code, body |-> <<>>]

(* channel_close.                                                          *)
Close == fds' = {} /\ ssl' = FALSE /\ UNCHANGED <<addrs, tried, blocked>>

(* host_allowed: an empty list lets every host through.                    *)
HostAllowed(h) == allow = {} \/ h \in allow

(* address_allowed.                                                        *)
AddressAllowed(kind) == kind # "linkLocal" \/ ~denyLocal

(* resolve_request and the checks of perform before the connection, in     *)
(* their order; None when the call goes on.                                *)
Rejection ==
    CASE ~req.url -> "BAD_URL"
      [] req.url /\ ~HostAllowed(req.host) -> "BLOCKED"
      [] req.url /\ HostAllowed(req.host) /\ req.secure /\ tls = "absent" -> "NO_TLS"
      [] OTHER -> IF req.type = "unsafe" THEN "BAD_HEADER"
                  ELSE IF req.body > MaxBody THEN "TOO_LARGE" ELSE None

Reject ==
    /\ pc = "start" /\ Rejection # None
    /\ Fail(Rejection)
    /\ UNCHANGED <<inputs, chanVars, ended, left, steps, sent, wire,
                   parseVars, calm>>

(* make_deadline.                                                          *)
Start ==
    /\ pc = "start" /\ Rejection = None
    /\ pc' = "resolve"
    /\ UNCHANGED <<inputs, chanVars, ended, left, steps, sent, wire,
                   parseVars, result, calm>>

(* make_deadline cannot read the clock.                                    *)
ClockFails ==
    /\ pc = "start" /\ Rejection = None
    /\ Fail("TIMEOUT") /\ calm' = FALSE
    /\ UNCHANGED <<inputs, chanVars, ended, left, steps, sent, wire, parseVars>>

(* The monotonic clock runs while the call waits.                          *)
Tick ==
    /\ pc \in {"connecting", "tls", "send", "read"} /\ left > 0
    /\ left' = left - 1
    /\ UNCHANGED <<pc, inputs, chanVars, ended, steps, sent, wire, parseVars,
                   result, calm>>

(* Variant: poll waits for ever.                                           *)
NeverOver == FALSE

(* deadline_left: wait_ready gives up.                                     *)
TimeOver == left = 0

-----------------------------------------------------------------------------
(* connect_target and channel_open.                                        *)

NoHost ==
    /\ pc = "resolve"
    /\ Fail("NO_HOST") /\ calm' = FALSE
    /\ UNCHANGED <<inputs, chanVars, ended, left, steps, sent, wire, parseVars>>

Resolve ==
    /\ pc = "resolve"
    /\ addrs' \in Hosts
    /\ pc' = "address"
    /\ UNCHANGED <<inputs, tried, blocked, fds, ssl, ended, left, steps, sent,
                   wire, parseVars, result, calm>>

MoreAddresses == addrs # <<>> /\ tried < MaxAddrs

NextAddress == addrs' = Tail(addrs) /\ tried' = tried + 1

(* A blocked address, or one for which socket fails.                       *)
SkipAddress ==
    /\ pc = "address" /\ MoreAddresses
    /\ NextAddress
    /\ \/ ~AddressAllowed(Head(addrs)) /\ blocked' = TRUE /\ UNCHANGED calm
       \/ AddressAllowed(Head(addrs)) /\ calm' = FALSE /\ UNCHANGED blocked
    /\ UNCHANGED <<pc, inputs, fds, ssl, ended, left, steps, sent, wire,
                   parseVars, result>>

(* A non-blocking socket; connect is under way.  (One that fcntl or        *)
(* connect refuses at once is closed like one that fails later.)           *)
OpenSocket ==
    /\ pc = "address" /\ MoreAddresses /\ AddressAllowed(Head(addrs))
    /\ NextAddress
    /\ fds' = fds \cup {tried + 1}
    /\ pc' = "connecting"
    /\ UNCHANGED <<inputs, blocked, ssl, ended, left, steps, sent, wire,
                   parseVars, result, calm>>

Connected ==
    /\ pc = "connecting" /\ left > 0
    /\ pc' = IF req.secure THEN "tls" ELSE "send"
    /\ steps' = 0
    /\ UNCHANGED <<inputs, chanVars, ended, left, sent, wire, parseVars,
                   result, calm>>

(* Variant: the socket of a failed connection stays open.                  *)
ConnectFailsOpen ==
    /\ pc = "connecting"
    /\ calm' = FALSE
    /\ pc' = "address"
    /\ UNCHANGED <<inputs, chanVars, ended, left, steps, sent, wire, parseVars,
                   result>>

(* The connection is refused or the wait for it is over: the next address. *)
ConnectFails ==
    /\ pc = "connecting"
    /\ fds' = fds \ {tried}
    /\ calm' = FALSE
    /\ pc' = "address"
    /\ UNCHANGED <<inputs, addrs, tried, blocked, ssl, ended, left, steps,
                   sent, wire, parseVars, result>>

NoAddress ==
    /\ pc = "address" /\ ~MoreAddresses
    /\ Fail(IF blocked THEN "BLOCKED" ELSE "NO_CONNECT")
    /\ calm' = FALSE
    /\ UNCHANGED <<inputs, chanVars, ended, left, steps, sent, wire, parseVars>>

(* tls_open: the context, SSL_new, and a round of SSL_connect that has to  *)
(* wait for the peer.                                                      *)
TlsRound ==
    /\ pc = "tls" /\ tls = "ready" /\ left > 0 /\ steps < TlsRounds
    /\ ssl' = TRUE /\ steps' = steps + 1
    /\ UNCHANGED <<pc, inputs, addrs, tried, blocked, fds, ended, left, sent,
                   wire, parseVars, result, calm>>

TlsDone ==
    /\ pc = "tls" /\ tls = "ready" /\ steps < TlsRounds
    /\ ssl' = TRUE /\ steps' = 0 /\ pc' = "send"
    /\ UNCHANGED <<inputs, addrs, tried, blocked, fds, ended, left, sent, wire,
                   parseVars, result, calm>>

(* tls_open fails and channel_open closes the channel.                     *)
TlsFails ==
    /\ pc = "tls"
    /\ \/ tls = "none" /\ Fail("NO_TLS")
       \/ tls = "ready" /\ Fail("TLS_FAILED")
       \/ tls = "ready" /\ TimeOver /\ Fail("TIMEOUT")
    /\ Close
    /\ calm' = FALSE
    /\ UNCHANGED <<inputs, ended, left, steps, sent, wire, parseVars>>

-----------------------------------------------------------------------------
(* fetch_send_all, for the head and then for the body.                     *)

SendEnd == IF sent < req.head THEN req.head ELSE req.head + req.body

(* channel_write takes n units; none when a signal or TLS interrupts it.   *)
Send(n) ==
    /\ pc = "send" /\ steps < SendSteps
    /\ left > 0 \/ ssl
    /\ sent + n <= SendEnd
    /\ sent' = sent + n
    /\ steps' = IF sent' = SendEnd THEN 0 ELSE steps + 1
    /\ pc' = IF sent' = req.head + req.body THEN "read" ELSE "send"
    /\ UNCHANGED <<inputs, chanVars, ended, left, wire, parseVars, result, calm>>

(* The connection breaks, the time is over or the guard is used up.        *)
SendFails ==
    /\ pc = "send"
    /\ Close
    /\ Fail("TIMEOUT") /\ calm' = FALSE
    /\ UNCHANGED <<inputs, ended, left, steps, sent, wire, parseVars>>

-----------------------------------------------------------------------------
(* read_reply: until the peer closes the connection.                       *)

Stream == Encoded(reply)

CanRead == pc = "read" /\ steps < ReadSteps /\ Len(wire) + 1 < MaxWire

ReadSome(n) ==
    /\ CanRead
    /\ left > 0 \/ ssl
    /\ n <= MaxWire - Len(wire) - 1 /\ Len(wire) + n <= Len(Stream)
    /\ wire' = SubSeq(Stream, 1, Len(wire) + n)
    /\ steps' = steps + 1
    /\ UNCHANGED <<pc, inputs, chanVars, ended, left, sent, parseVars, result,
                   calm>>

(* recv is interrupted, or TLS wants another record.                       *)
ReadAgain ==
    /\ CanRead /\ left > 0
    /\ steps' = steps + 1
    /\ UNCHANGED <<pc, inputs, chanVars, ended, left, sent, wire, parseVars,
                   result, calm>>

(* The peer closes, early or not; with TLS a broken connection reads like  *)
(* a closed one.  The channel is closed before the reply is parsed.        *)
ReadEnd ==
    /\ CanRead
    /\ left > 0 \/ ssl
    /\ ended' \in IF ssl THEN {"closed", "cut"} ELSE {"closed"}
    /\ calm' = (calm /\ Len(wire) = Len(Stream) /\ ended' = "closed")
    /\ Close
    /\ pc' = "status"
    /\ UNCHANGED <<inputs, left, steps, sent, wire, parseVars, result>>

ReadTooLarge ==
    /\ pc = "read" /\ steps < ReadSteps /\ Len(wire) + 1 >= MaxWire
    /\ Close
    /\ Fail("TOO_LARGE")
    /\ UNCHANGED <<inputs, ended, left, steps, sent, wire, parseVars, calm>>

(* The time is over, the guard is used up or the connection breaks.        *)
ReadFails ==
    /\ pc = "read"
    /\ CanRead \/ steps >= ReadSteps
    /\ ended' \in {"open", "cut"}
    /\ Close
    /\ Fail("TIMEOUT") /\ calm' = FALSE
    /\ UNCHANGED <<inputs, left, steps, sent, wire, parseVars>>

-----------------------------------------------------------------------------
(* parse_reply, decode_chunked and take_reply.                             *)

idleVars == <<inputs, chanVars, ended, left, sent>>

BadReply == Fail("BAD_REPLY") /\ UNCHANGED <<idleVars, steps, wire, parseVars, calm>>

(* parse_status_line.                                                      *)
StatusLine ==
    /\ pc = "status"
    /\ IF wire # <<>> /\ wire[1].v = 1
       THEN /\ pc' = "lines" /\ at' = 1 /\ steps' = 0
            /\ UNCHANGED <<idleVars, wire, put, base, declared, chunked,
                           result, calm>>
       ELSE BadReply

HasLine == steps < MaxLines /\ at < Len(wire)
Line == wire[at + 1]

(* Variant: the last Content-Length counts.                                *)
AnyLengthFits(h) == h.k \notin {"badLength", "badEncoding"}

(* take_header accepts the line.  header_int reads the digits at the start *)
(* of the value and not what follows them: "2, 3" is a length of 2.        *)
HeaderFits(h) ==
    /\ h.k \notin {"badLength", "badEncoding"}
    /\ h.k = "length" => declared = -1

HeaderLine ==
    /\ pc = "lines"
    /\ HasLine /\ Line.k # "blank" /\ HeaderFits(Line)
    /\ declared' = IF Line.k = "length" THEN Line.v ELSE declared
    /\ chunked' = (chunked \/ Line.k = "chunked")
    /\ at' = at + 1 /\ steps' = steps + 1
    /\ UNCHANGED <<pc, idleVars, wire, put, base, result, calm>>

BadLine ==
    /\ pc = "lines"
    /\ HasLine => Line.k # "blank" /\ ~HeaderFits(Line)
    /\ BadReply

Available == Len(wire) - at

(* take_body for a body that is not chunked.                               *)
PlainBody(length) ==
    IF length > Available - 1 THEN "BAD_REPLY"
    ELSE IF length > MaxBody THEN "TOO_LARGE" ELSE None

(* The empty line: take_body.                                              *)
Blank ==
    /\ pc = "lines" /\ HasLine /\ Line.k = "blank"
    /\ LET length == IF declared >= 0 THEN declared ELSE Available - 1
           refused == IF chunked
                      THEN IF declared >= 0 THEN "BAD_REPLY" ELSE None
                      ELSE PlainBody(length)
       IN  IF refused # None
           THEN Fail(refused) /\ UNCHANGED <<idleVars, steps, wire, parseVars, calm>>
           ELSE /\ at' = at + 1 /\ base' = at + 1 /\ steps' = 0
                /\ pc' = IF chunked THEN "chunks" ELSE "take"
                /\ put' = IF chunked THEN 0 ELSE length
                /\ UNCHANGED <<idleVars, wire, declared, chunked, result, calm>>

(* memmove(body + to, body + from, size), the positions 0-based.           *)
Moved(from, to, size) ==
    [i \in DOMAIN wire |->
        IF i \in (to + 1)..(to + size) THEN wire[i - to + from] ELSE wire[i]]

HasSize == steps < MaxChunks /\ at < Len(wire) /\ Line.k = "size"
Size == Line.v

(* Variant: a body of exactly the limit is refused.                        *)
ChunkFitsTight == Size <= Available - 1 /\ put + Size < MaxBody

ChunkFits == Size <= Available - 1 /\ put + Size <= MaxBody

ChunkEnds == at + Size + 2 <= Len(wire) /\ wire[at + Size + 2].k = "eol"

(* One round of decode_chunked, in place; the chunk may overlap the place  *)
(* it moves to.                                                            *)
Chunk ==
    /\ pc = "chunks" /\ HasSize /\ Size # 0 /\ ChunkFits /\ ChunkEnds
    /\ wire' = Moved(at + 1, base + put, Size)
    /\ put' = put + Size
    /\ at' = at + Size + 2
    /\ steps' = steps + 1
    /\ UNCHANGED <<pc, idleVars, base, declared, chunked, result, calm>>

LastChunk ==
    /\ pc = "chunks" /\ HasSize /\ Size = 0
    /\ pc' = "take"
    /\ UNCHANGED <<idleVars, steps, wire, parseVars, result, calm>>

BadChunk ==
    /\ pc = "chunks"
    /\ HasSize => Size # 0 /\ ~(ChunkFits /\ ChunkEnds)
    /\ Fail(IF HasSize /\ put + Size > MaxBody THEN "TOO_LARGE" ELSE "BAD_REPLY")
    /\ UNCHANGED <<idleVars, steps, wire, parseVars, calm>>

(* take_reply: the body is copied to the request's arena, if it has room.  *)
Take ==
    /\ pc = "take"
    /\ pc' = "done"
    /\ result' = [code |-> "OK", body |-> SubSeq(wire, base + 1, base + put)]
    /\ UNCHANGED <<idleVars, steps, wire, parseVars, calm>>

TakeFails ==
    /\ pc = "take"
    /\ Fail("TOO_LARGE") /\ calm' = FALSE
    /\ UNCHANGED <<idleVars, steps, wire, parseVars>>

-----------------------------------------------------------------------------
(* What the process does by itself, and what waits for the peer.           *)
Own ==
    \/ Reject \/ Start \/ ClockFails \/ NoHost \/ Resolve
    \/ SkipAddress \/ OpenSocket \/ NoAddress
    \/ (TimeOver /\ (ConnectFails \/ SendFails))
    \/ ((TimeOver \/ steps = TlsRounds \/ tls = "none") /\ TlsFails)
    \/ ((TimeOver \/ steps = ReadSteps) /\ ReadFails) \/ ReadTooLarge
    \/ StatusLine \/ HeaderLine \/ BadLine \/ Blank
    \/ Chunk \/ LastChunk \/ BadChunk \/ Take \/ TakeFails

Peer ==
    \/ Connected \/ ConnectFails \/ TlsRound \/ TlsDone \/ TlsFails
    \/ \E n \in 0..(req.head + req.body) : Send(n)
    \/ SendFails
    \/ \E n \in 1..Len(Stream) : ReadSome(n)
    \/ ReadAgain \/ ReadEnd \/ ReadFails

Next == Own \/ Peer \/ Tick

Spec == Init /\ [][Next]_vars

(* Time passes and the thread runs; the peer owes nothing.  getaddrinfo    *)
(* has no deadline in the code: that it returns is assumed.                *)
FetchSpec == Spec /\ WF_vars(Own) /\ WF_vars(Tick)

-----------------------------------------------------------------------------
(* Properties.                                                             *)

(* What the head of a reply says, read as a whole.                         *)
Lengths(r) == {i \in DOMAIN r.headers : r.headers[i].k = "length"}

WellFormed(r) ==
    /\ r.status /\ ~Has(r, "badLength") /\ ~Has(r, "badEncoding")
    /\ \A i, j \in Lengths(r) : i = j
    /\ r.chunked => Lengths(r) = {}

IsFramed(r) == r.chunked \/ Lengths(r) # {}

Meant(r) ==
    Bytes(0, IF Lengths(r) # {} THEN r.headers[CHOOSE i \in Lengths(r) : TRUE].v
             ELSE Total(r))

(* A framed reply is accepted whole or not at all, whatever pieces it came *)
(* in and wherever it was cut: the body is what the peer framed.  One      *)
(* without framing ends where the connection ended, which over a plain     *)
(* connection the peer did in order.                                       *)
Intact ==
    result.code = "OK" =>
        /\ WellFormed(reply)
        /\ IF IsFramed(reply) THEN result.body = Meant(reply)
           ELSE /\ IsPrefix(result.body, Meant(reply))
                /\ ended = "closed" \/ req.secure

WithinLimits(r) ==
    /\ Len(Encoded(r)) < MaxWire - 1 /\ Len(r.headers) < MaxLines
    /\ Len(Meant(r)) <= MaxBody /\ (r.chunked => Len(r.ends) < MaxChunks)

(* A good reply within the limits, sent whole and in time to a call that   *)
(* nothing else disturbed, is returned.                                    *)
RefusedForCause ==
    pc = "done" /\ result.code # "OK" =>
        \/ ~calm \/ Rejection # None
        \/ ~WellFormed(reply) \/ ~WithinLimits(reply)
        \/ Len(Meant(reply)) > Total(reply)

(* No way out of the call leaves a socket or a TLS session behind, and the *)
(* call has at most one connection at a time.                              *)
ChannelClosed ==
    /\ pc \in {"status", "lines", "chunks", "take", "done", "address"} =>
           fds = {} /\ ~ssl
    /\ \A a, b \in fds : a = b

(* The deadline ends the call, also when the peer is silent or sends one   *)
(* byte at a time.                                                         *)
FetchEnds == <>(pc = "done")
=============================================================================
