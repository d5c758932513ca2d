--------------------------- MODULE ServingProofs ----------------------------
(***************************************************************************)
(* What one worker guarantees for any set of requests, any bounds and any  *)
(* number of requests and connections.                                     *)
(*                                                                         *)
(* First the invariant ServingInv: what is bound while a request is served *)
(* and what is left of it.  On top of it the invariant Isolation: at every *)
(* place of the worker, what its thread-local variables hold of the        *)
(* request.  For that, lemmas on the rule that a request falls under, on   *)
(* the answers before the handler, on what the calls of a handler leave    *)
(* (Progress), and on the script that a wrapper and its handler run.       *)
(***************************************************************************)
EXTENDS Serving, TLAPS, SequenceTheorems, FiniteSetTheorems

-----------------------------------------------------------------------------
(* The functions of the thread-local state.                                *)

(* What a request has bound in the worker.                                 *)
SameBindings(s, u) ==
    /\ s.request = u.request /\ s.arena = u.arena
    /\ s.body = u.body /\ s.escape = u.escape

Unbound(s) == s.request = 0 /\ ~s.arena /\ s.body = 0 /\ ~s.escape

LEMMA Bounds ==
    /\ 0 \in 0..MaxFields /\ 0 \in 0..MaxRequests /\ 0 \in Statuses
    /\ "none" \in Codes /\ "none" \in Reasons
BY ServingAssumption DEF Statuses, Codes, Reasons

LEMMA ZeroLocals == Zero \in Locals /\ Unbound(Zero)
<1>1. Zero \in Locals
    BY Bounds DEF Zero, Locals
<1> QED BY <1>1 DEF Zero, Unbound

LEMMA FailResets ==
    ASSUME NEW s \in Locals
    PROVE  /\ FailReset(s) \in Locals
           /\ FailReset(s).body = 0 /\ FailReset(s).failed = 0
           /\ FailReset(s).request = s.request /\ FailReset(s).arena = s.arena
           /\ FailReset(s).escape = s.escape /\ FailReset(s).user = s.user
BY Bounds DEF Locals, FailReset, BodyReset

LEMMA FlagsReset ==
    ASSUME NEW s \in Locals
    PROVE  [s EXCEPT !.head = FALSE, !.cors = FALSE, !.preflight = FALSE,
                     !.allow = FALSE, !.origin = FALSE, !.requested = FALSE] \in Locals
<1>1. FALSE \in BOOLEAN
    OBVIOUS
<1> QED BY <1>1, Zenon DEF Locals

(* The resets of one request's end and of the next one's beginning leave   *)
(* nothing in any variable.                                                *)
LEMMA ResetsToZero ==
    ASSUME NEW s \in Locals, s.request = 0, ~s.arena, ~s.escape
    PROVE  ResetResponseState(s) = Zero
<1> DEFINE u == ResetResponseState(s)
<1>1. u \in Locals
    <2> DEFINE f == FailReset(AuthReset(s))
    <2>1. f \in Locals
        <3>1. AuthReset(s) \in Locals
            BY DEF Locals, AuthReset
        <3> QED BY <3>1, FailResets
    <2> HIDE DEF f
    <2> DEFINE g == ResponseReset(f)
    <2>2. g \in Locals
        BY <2>1, Bounds DEF Locals, ResponseReset
    <2> HIDE DEF g
    <2>3. [g EXCEPT !.head = FALSE, !.cors = FALSE, !.preflight = FALSE,
                    !.allow = FALSE, !.origin = FALSE, !.requested = FALSE] \in Locals
        BY <2>2, FlagsReset
    <2> QED BY <2>3 DEF ResetResponseState, f, g
<1>2. /\ u.user = "none" /\ u.failed = 0 /\ u.code = "none" /\ u.why = "none" /\ u.errors = 0
      /\ u.body = 0 /\ u.headers = {} /\ u.override = 0 /\ u.request = 0
    BY DEF Locals, ResetResponseState, ResponseReset, FailReset, BodyReset, AuthReset
<1>3. /\ ~u.truncated /\ ~u.head /\ ~u.cors /\ ~u.preflight /\ ~u.allow
      /\ ~u.origin /\ ~u.requested /\ ~u.arena /\ ~u.escape
    BY DEF Locals, ResetResponseState, ResponseReset, FailReset, BodyReset, AuthReset
<1> HIDE DEF u
<1>4. /\ u.truncated = FALSE /\ u.head = FALSE /\ u.cors = FALSE
      /\ u.preflight = FALSE /\ u.allow = FALSE /\ u.origin = FALSE
      /\ u.requested = FALSE /\ u.arena = FALSE /\ u.escape = FALSE
    BY <1>1, <1>3 DEF Locals
<1>5. u = [user |-> u.user, failed |-> u.failed, code |-> u.code, why |-> u.why,
           errors |-> u.errors, truncated |-> u.truncated, body |-> u.body,
           headers |-> u.headers, override |-> u.override, head |-> u.head,
           cors |-> u.cors, preflight |-> u.preflight, allow |-> u.allow,
           origin |-> u.origin, requested |-> u.requested, request |-> u.request,
           arena |-> u.arena, escape |-> u.escape]
    BY <1>1 DEF Locals
<1>6. u = Zero
    BY <1>2, <1>4, <1>5 DEF Zero
<1> QED BY <1>6 DEF u

LEMMA Finishes ==
    ASSUME NEW s \in Locals
    PROVE  /\ FinishRequest(s) \in Locals
           /\ ~s.escape => Unbound(FinishRequest(s))
BY Bounds
   DEF Locals, FinishRequest, FailReset, BodyReset, AuthReset, Unbound

LEMMA Fails ==
    ASSUME NEW s \in Locals, NEW status \in Statuses, NEW code \in Codes,
           NEW why \in Reasons
    PROVE  /\ Fail(s, status, code, why) \in Locals
           /\ SameBindings(Fail(s, status, code, why), s)
           /\ Fail(s, status, code, why).user = s.user
           /\ status # 0 => Fail(s, status, code, why).failed # 0
<1>1. CASE s.failed # 0
    BY <1>1 DEF Fail, SameBindings
<1>2. CASE s.failed = 0
    <2> DEFINE u == [s EXCEPT !.failed = status, !.code = code, !.why = why]
    <2>1. u \in Locals
        BY DEF Locals
    <2>2. SameBindings(u, s) /\ u.user = s.user /\ u.failed = status
        BY DEF Locals, SameBindings
    <2> QED BY <1>2, <2>1, <2>2 DEF Fail
<1> QED BY <1>1, <1>2

LEMMA HeaderSets ==
    ASSUME NEW s \in Locals, NEW h \in Headers
    PROVE  /\ Header(s, h) \in Locals /\ SameBindings(Header(s, h), s)
           /\ Header(s, h).user = s.user /\ Header(s, h).failed = s.failed
BY DEF Locals, Header, SameBindings

(* The credentials, headers and failures of a request bind nothing.        *)
LEMMA FieldErrorAdds ==
    ASSUME NEW s \in Locals
    PROVE  FieldErrorAdd(s) \in Locals /\ SameBindings(FieldErrorAdd(s), s)
<1> DEFINE f == Fail(s, 400, "validation_failed", "validation")
<1>1. 400 \in Statuses /\ "validation_failed" \in Codes /\ "validation" \in Reasons
    BY DEF Statuses, Codes, Reasons
<1>2. f \in Locals /\ SameBindings(f, s)
    BY <1>1, Fails
<1>3. s \in Locals /\ SameBindings(s, s)
    BY DEF SameBindings
<1> HIDE DEF f
<1>4. CASE f.errors >= MaxFields
    <2> DEFINE u == [f EXCEPT !.truncated = TRUE]
    <2>1. u \in Locals
        BY <1>2 DEF Locals
    <2>2. SameBindings(u, s)
        BY <1>2 DEF Locals, SameBindings
    <2> QED BY <1>3, <1>4, <2>1, <2>2 DEF FieldErrorAdd, f
<1>5. CASE ~(f.errors >= MaxFields)
    <2> DEFINE u == [f EXCEPT !.errors = @ + 1]
    <2>1. f.errors + 1 \in 0..MaxFields
        <3>1. f.errors \in 0..MaxFields
            BY <1>2 DEF Locals
        <3> QED BY <1>5, <3>1, ServingAssumption
    <2>2. u \in Locals
        BY <1>2, <2>1 DEF Locals
    <2>3. SameBindings(u, s)
        BY <1>2 DEF Locals, SameBindings
    <2> QED BY <1>3, <1>5, <2>2, <2>3 DEF FieldErrorAdd, f
<1> QED BY <1>4, <1>5

(* auth_gate lets a request pass only with sufficient credentials.         *)
LEMMA Gates ==
    ASSUME NEW s \in Locals, NEW needs \in {"public", "any", "user", "admin"}
    PROVE  /\ AuthGate(s, needs) \in Locals
           /\ SameBindings(AuthGate(s, needs), s)
           /\ AuthGate(s, needs).failed = 0 => Meets(s.user, needs)
<1> DEFINE h == Header(s, "WWW-Authenticate")
           u == Fail(h, 401, "none", "authentication")
           v == Fail(s, 403, "none", "permission")
<1>1. /\ 401 \in Statuses /\ 403 \in Statuses /\ "none" \in Codes
      /\ "authentication" \in Reasons /\ "permission" \in Reasons
      /\ "WWW-Authenticate" \in Headers
    BY DEF Statuses, Codes, Reasons, Headers
<1>2. h \in Locals /\ SameBindings(h, s)
    BY <1>1, HeaderSets
<1> HIDE DEF h
<1>3. u \in Locals /\ SameBindings(u, h) /\ u.failed # 0
    BY <1>1, <1>2, Fails
<1>4. v \in Locals /\ SameBindings(v, s) /\ v.failed # 0
    BY <1>1, Fails
<1>5. SameBindings(u, s) /\ SameBindings(s, s)
    BY <1>2, <1>3 DEF SameBindings
<1>6. s.user \in {"none", "user", "admin"}
    BY DEF Locals
<1> HIDE DEF u, v
<1>7. AuthGate(s, needs) =
        IF needs = "public" THEN s
        ELSE IF s.user = "none" THEN u
        ELSE IF needs # "any" /\ s.user # needs THEN v ELSE s
    BY DEF AuthGate, u, v, h
<1> QED BY <1>3, <1>4, <1>5, <1>6, <1>7 DEF Meets

(* A call of the handler binds at most the body of its own request.        *)
LEMMA Does ==
    ASSUME NEW s \in Locals, n \in 0..MaxRequests, s.body \in {0, n},
           NEW a \in (Acts \cup {"invalid", "bind"}) \ {"raise"}
    PROVE  /\ Do(s, a) \in Locals /\ Do(s, a).body \in {0, n}
           /\ Do(s, a).request = s.request /\ Do(s, a).escape = s.escape
<1>1. /\ "X" \in Headers /\ "Location" \in Headers /\ "Key" \in Headers
      /\ "Own" \in Headers /\ "Foreign" \in Headers
      /\ 201 \in Statuses /\ 409 \in Statuses /\ 400 \in Statuses
      /\ "none" \in Codes /\ "invalid_json" \in Codes
      /\ "fail" \in Reasons /\ "json" \in Reasons
    BY DEF Headers, Statuses, Codes, Reasons
<1>2. ASSUME NEW h \in Headers
      PROVE  Header(s, h) \in Locals /\ SameBindings(Header(s, h), s)
    BY <1>2, HeaderSets
<1>3. SameBindings(s, s)
    BY DEF SameBindings
<1>4. ASSUME NEW u \in Locals, SameBindings(u, s), Do(s, a) = u
      PROVE  /\ Do(s, a) \in Locals /\ Do(s, a).body \in {0, n}
             /\ Do(s, a).request = s.request /\ Do(s, a).escape = s.escape
    BY <1>4 DEF SameBindings
<1>5. CASE a = "header"
    BY <1>1, <1>2, <1>4, <1>5 DEF Do
<1>6. CASE a = "location"
    BY <1>1, <1>2, <1>4, <1>6 DEF Do
<1>7. CASE a = "status"
    <2> DEFINE u == [s EXCEPT !.override = 201]
    <2>1. u \in Locals
        BY <1>1 DEF Locals
    <2>2. SameBindings(u, s)
        BY DEF Locals, SameBindings
    <2>3. Do(s, a) = u
        BY <1>7 DEF Do
    <2> QED BY <1>4, <2>1, <2>2, <2>3
<1>8. CASE a = "fail"
    BY <1>1, <1>4, <1>8, Fails DEF Do
<1>9. CASE a = "field"
    BY <1>4, <1>9, FieldErrorAdds DEF Do
<1>10. CASE a = "invalid"
    BY <1>1, <1>4, <1>10, Fails DEF Do
<1>11. CASE a = "bind"
    <2> DEFINE u == [s EXCEPT !.body = n]
    <2>1. u \in Locals
        BY DEF Locals
    <2>2. u.body = n /\ u.request = s.request /\ u.escape = s.escape
        BY DEF Locals
    <2>3. Do(s, a) = u
        BY <1>11 DEF Do
    <2> QED BY <2>1, <2>2, <2>3
<1>12. CASE a = "key"
    BY <1>1, <1>2, <1>3, <1>4, <1>12 DEF Do
<1>13. CASE a = "request"
    BY <1>1, <1>2, <1>3, <1>4, <1>13 DEF Do
<1> QED BY <1>5, <1>6, <1>7, <1>8, <1>9, <1>10, <1>11, <1>12, <1>13 DEF Acts

(* What cors_prepare and auth_bind make of the fresh state.                *)
LEMMA ReadLocals ==
    ASSUME NEW r \in Request
    PROVE  LET u == AuthBind(CorsPrepare([Zero EXCEPT !.head = r.method = "HEAD"], r), r)
           IN  u \in Locals /\ Unbound(u) /\ u.user = r.token
<1> DEFINE h == [Zero EXCEPT !.head = r.method = "HEAD"]
           c == CorsPrepare(h, r)
           u == AuthBind(c, r)
<1>1. h \in Locals /\ Unbound(h)
    <2>1. (r.method = "HEAD") \in BOOLEAN
        OBVIOUS
    <2>2. h \in Locals
        BY <2>1, ZeroLocals, Zenon DEF Locals
    <2>3. Unbound(h)
        BY ZeroLocals DEF Zero, Unbound
    <2> QED BY <2>2, <2>3
<1> HIDE DEF h
<1>2. c \in Locals /\ Unbound(c)
    <2>1. h.origin \in BOOLEAN /\ Cors \in BOOLEAN
        BY <1>1, ServingAssumption DEF Locals
    <2>2. (IF Cors /\ r.origin = "listed" THEN TRUE ELSE h.origin) \in BOOLEAN
        BY <2>1
    <2>3. c \in Locals
        BY <1>1, <2>1, <2>2, Zenon DEF Locals, CorsPrepare
    <2>4. Unbound(c)
        BY <1>1 DEF Locals, Unbound, CorsPrepare
    <2> QED BY <2>3, <2>4
<1> HIDE DEF c
<1>3. r.token \in {"none", "user", "admin"}
    BY DEF Request
<1>4. u \in Locals
    BY <1>2, <1>3 DEF Locals, AuthBind, AuthReset
<1>5. Unbound(u) /\ u.user = r.token
    BY <1>2 DEF Locals, Unbound, AuthBind, AuthReset
<1> QED BY <1>4, <1>5 DEF u, c, h

(* What read_request leaves when it fails.                                 *)
LEMMA HeadLocals ==
    ASSUME NEW r
    PROVE  LET u == [Zero EXCEPT !.head = r.method = "HEAD"]
           IN  u \in Locals /\ Unbound(u)
<1>1. (r.method = "HEAD") \in BOOLEAN
    OBVIOUS
<1>2. [Zero EXCEPT !.head = r.method = "HEAD"] \in Locals
    BY <1>1, ZeroLocals, Zenon DEF Locals
<1> QED BY <1>2, ZeroLocals DEF Zero, Unbound

(* Routing binds nothing.                                                  *)
LEMMA AllowSets ==
    ASSUME NEW s \in Locals, NEW b \in BOOLEAN
    PROVE  LET u == [s EXCEPT !.allow = b]
           IN  u \in Locals /\ SameBindings(u, s) /\ u.user = s.user
<1>1. [s EXCEPT !.allow = b] \in Locals
    BY Zenon DEF Locals
<1> QED BY <1>1 DEF Locals, SameBindings

LEMMA Resolves ==
    ASSUME NEW s \in Locals, NEW r
    PROVE  /\ Resolve(s, r) \in Locals /\ SameBindings(Resolve(s, r), s)
           /\ Resolve(s, r).user = s.user
<1>1. (HasRoute(r) \/ r.path = "other") \in BOOLEAN
    OBVIOUS
<1>2. SameBindings(s, s)
    BY DEF SameBindings
<1> QED BY <1>1, <1>2, AllowSets DEF Resolve

LEMMA Preflights ==
    ASSUME NEW s \in Locals, NEW r
    PROVE  /\ Preflight(s, r).locals \in Locals
           /\ SameBindings(Preflight(s, r).locals, s)
<1> DEFINE status == IF r.ask = "bad" THEN 400
                     ELSE IF ~s.origin \/ ~s.allow \/ r.ask = "denied" THEN 403
                     ELSE 204
           a == s.origin /\ status = 204
           b == status = 204 /\ r.ask = "headers"
           u == [s EXCEPT !.preflight = TRUE, !.origin = a, !.requested = b]
<1>1. Preflight(s, r).locals = u
    BY DEF Preflight
<1>2. a \in BOOLEAN /\ b \in BOOLEAN /\ TRUE \in BOOLEAN
    OBVIOUS
<1> HIDE DEF a, b, status
<1>3. u \in Locals
    BY <1>2, Zenon DEF Locals
<1>4. SameBindings(u, s)
    BY DEF Locals, SameBindings
<1> QED BY <1>1, <1>3, <1>4

(* request_bind and arena_bind bind the request that is served.            *)
LEMMA RoutedLocals ==
    ASSUME t \in Locals, Unbound(t), n \in 0..MaxRequests
    PROVE  /\ Routed \in Locals /\ Unbound(Routed) /\ Routed.user = t.user
           /\ Prepared \in Locals /\ Prepared.user = t.user
           /\ Prepared.request = n /\ Prepared.body = 0 /\ ~Prepared.escape
<1>1. Resolve(t, req) \in Locals /\ Unbound(Resolve(t, req))
      /\ Resolve(t, req).user = t.user
    BY Resolves DEF Unbound, SameBindings
<1> DEFINE s == Resolve(t, req)
           q == Routed
<1> HIDE DEF s
<1>2. s \in Locals /\ Unbound(s) /\ s.user = t.user
    BY <1>1 DEF s
<1>3. FALSE \in BOOLEAN /\ TRUE \in BOOLEAN
    OBVIOUS
<1>4. q = IF req.method = "OPTIONS" THEN s ELSE [s EXCEPT !.allow = FALSE]
    BY DEF Routed, s
<1>5. q \in Locals /\ Unbound(q) /\ q.user = t.user
    BY <1>2, <1>3, <1>4, AllowSets DEF Unbound, SameBindings
<1> HIDE DEF q
<1>6. [q EXCEPT !.request = n, !.arena = TRUE] \in Locals
    BY <1>3, <1>5, Zenon DEF Locals
<1>7. LET u == [q EXCEPT !.request = n, !.arena = TRUE]
      IN  u.user = t.user /\ u.request = n /\ u.body = 0 /\ ~u.escape
    BY <1>5 DEF Locals, Unbound
<1> QED BY <1>5, <1>6, <1>7 DEF Prepared, q

-----------------------------------------------------------------------------
(* The inductive invariant.                                                *)

(* The state of the thread: nothing at the head of the loop, the bindings  *)
(* of the current request while it is served.                              *)
Bound ==
    /\ NothingDangles
    /\ pc = "read" => t = Zero
    /\ pc \in {"limit", "serve", "handler", "landed", "log"} => n > 0 /\ req \in Requests

(* auth_bind has run for the request that is served.                       *)
Credentials ==
    /\ pc \in {"limit", "serve"} => t.user = req.token
    /\ Authorised

(* keep_alive_wanted has counted the request that is served, so the loop   *)
(* never ends by its count after it promised to go on.                     *)
Counted ==
    /\ pc \in {"top", "read", "limit"} => served < KeepMax
    /\ pc \in {"limit", "serve", "handler", "landed"} => answers = 0
    /\ pc \in {"serve", "handler", "landed", "log"} /\ keep => served < KeepMax - 1
    /\ pc = "log" /\ told = "keep" => keep /\ answers = 1
    /\ KeepsItsWord

ServingInv == TypeOK /\ Bound /\ Credentials /\ Counted

(* An answer ends what the handler was bound to, and nothing else.         *)
LEMMA AnswerStep ==
    ASSUME ServingInv, pc \in {"serve", "landed"}, NEW s \in Locals,
           s.request \in {0, n}, s.body \in {0, n}, ~s.escape,
           NEW status, NEW why, Answer(s, status, why),
           UNCHANGED <<Rest, todo, rc>>, memory' \in {memory, memory \cup {n}}
    PROVE  ServingInv'
<1>1. /\ t' = s /\ pc' = "log"
      /\ UNCHANGED <<n, req, conn, served, stop, drain, keep, todo, rc>>
    BY DEF Answer, Rest
<1>2. /\ told' \in {"keep", "close", "cut"} /\ answers' \in {answers, answers + 1}
      /\ told' = "keep" => keep /\ answers' = answers + 1
    BY DEF Answer, Send
<1>3. answers = 0 /\ n > 0 /\ req \in Requests
    BY DEF ServingInv, Bound, Counted
<1>4. TypeOK'
    <2>1. memory' \subseteq 1..MaxRequests
        BY <1>3 DEF ServingInv, TypeOK
    <2>2. answers' \in 0..1
        BY <1>2, <1>3
    <2> QED BY <1>1, <1>2, <2>1, <2>2 DEF ServingInv, TypeOK
<1>5. NothingDangles'
    BY <1>1 DEF ServingInv, Bound, NothingDangles
<1>6. Bound'
    BY <1>1, <1>3, <1>5 DEF Bound
<1>7. Credentials'
    BY <1>1 DEF Credentials, Authorised
<1>8. Counted'
    BY <1>1, <1>2, <1>3 DEF ServingInv, Counted, KeepsItsWord
<1> QED BY <1>4, <1>6, <1>7, <1>8 DEF ServingInv

(* The end of the handler takes the escape away.                           *)
LEMMA LandStep ==
    ASSUME ServingInv, pc = "handler", NEW s \in Locals,
           s.request \in {0, n}, s.body \in {0, n},
           NEW result \in {-2, -1, 0}, Land(s, result)
    PROVE  ServingInv'
<1> DEFINE u == [s EXCEPT !.escape = FALSE]
<1>1. u \in Locals
    <2>1. FALSE \in BOOLEAN
        OBVIOUS
    <2> QED BY <2>1, Zenon DEF Locals
<1>2. u.request \in {0, n} /\ u.body \in {0, n} /\ ~u.escape
    BY DEF Locals
<1>3. /\ t' = u /\ pc' = "landed" /\ rc' = result /\ todo' = <<>>
      /\ UNCHANGED <<n, req, conn, served, stop, drain, keep, memory, last, answers, told>>
    BY DEF Land, Rest
<1> HIDE DEF u
<1>4. TypeOK'
    <2>1. <<>> \in Seq(Acts \cup {"invalid", "bind", "refuse"})
        BY EmptySeq
    <2> QED BY <1>1, <1>3, <2>1 DEF ServingInv, TypeOK
<1>5. NothingDangles'
    BY <1>2, <1>3 DEF ServingInv, Bound, NothingDangles
<1>6. Bound'
    BY <1>3, <1>5 DEF ServingInv, Bound
<1>7. Credentials'
    BY <1>3 DEF Credentials, Authorised
<1>8. Counted'
    BY <1>3 DEF ServingInv, Counted, KeepsItsWord
<1> QED BY <1>4, <1>6, <1>7, <1>8 DEF ServingInv

(* The loop of handle_connection around a request.                         *)
LEMMA LoopStep ==
    ASSUME ServingInv, Take \/ Top \/ TopEnds \/ Finish \/ Close
    PROVE  ServingInv'
<1>1. CASE Take
    <2>1. TypeOK'
        BY <1>1, ServingAssumption DEF Take, ServingInv, TypeOK
    <2>2. Bound'
        BY <1>1 DEF Take, ServingInv, Bound, NothingDangles
    <2>3. Credentials'
        BY <1>1 DEF Take, Credentials, Authorised
    <2>4. Counted'
        BY <1>1, ServingAssumption DEF Take, Counted, KeepsItsWord
    <2> QED BY <2>1, <2>2, <2>3, <2>4 DEF ServingInv
<1>2. CASE Top
    <2>1. t.request = 0 /\ ~t.arena /\ ~t.escape /\ memory = {} /\ t \in Locals
        BY <1>2 DEF Top, ServingInv, TypeOK, Bound, NothingDangles
    <2>2. t' = Zero
        BY <1>2, <2>1, ResetsToZero DEF Top
    <2>3. TypeOK'
        BY <1>2, <2>2, ZeroLocals DEF Top, ServingInv, TypeOK
    <2>4. Unbound(t')
        BY <2>2, ZeroLocals
    <2>5. NothingDangles'
        BY <1>2, <2>1, <2>4 DEF Top, NothingDangles, Unbound
    <2>6. Bound'
        BY <1>2, <2>2, <2>5 DEF Top, Bound
    <2>7. Credentials'
        BY <1>2 DEF Top, Credentials, Authorised
    <2>8. Counted'
        BY <1>2 DEF Top, ServingInv, Counted, KeepsItsWord
    <2> QED BY <2>3, <2>6, <2>7, <2>8 DEF ServingInv
<1>3. CASE TopEnds
    <2>1. drain
        BY <1>3, ServingAssumption DEF TopEnds, ServingInv, TypeOK, Counted
    <2>2. TypeOK'
        BY <1>3 DEF TopEnds, ServingInv, TypeOK
    <2>3. Bound'
        BY <1>3 DEF TopEnds, ServingInv, Bound, NothingDangles
    <2>4. Credentials'
        BY <1>3 DEF TopEnds, Credentials, Authorised
    <2>5. Counted'
        BY <1>3, <2>1 DEF TopEnds, Counted, KeepsItsWord
    <2> QED BY <2>2, <2>3, <2>4, <2>5 DEF ServingInv
<1>4. CASE Finish
    <2>1. t' = FinishRequest(t) /\ memory' = {} /\ t \in Locals /\ ~t.escape
          /\ UNCHANGED <<n, req, todo, rc, conn, stop, drain, last, answers, keep, told>>
        BY <1>4 DEF Finish, ServingInv, TypeOK, Bound, NothingDangles
    <2>2. t' \in Locals /\ Unbound(t')
        BY <2>1, Finishes
    <2>3. \/ pc' = "close" /\ served' = served /\ (told # "keep" \/ drain)
          \/ pc' = "top" /\ served' = served + 1 /\ told = "keep" /\ answers = 1
             /\ served < KeepMax - 1
        BY <1>4 DEF Finish, ServingInv, Counted
    <2>4. pc' \in {"close", "top"} /\ served' \in 0..KeepMax
          /\ (pc' = "top" => served' < KeepMax)
        BY <2>3, ServingAssumption DEF ServingInv, TypeOK
    <2>5. TypeOK'
        BY <2>1, <2>2, <2>4 DEF ServingInv, TypeOK
    <2>6. NothingDangles'
        BY <2>1, <2>2, <2>4 DEF NothingDangles, Unbound
    <2>7. Bound'
        BY <2>4, <2>6 DEF Bound
    <2>8. Credentials'
        BY <2>4 DEF Credentials, Authorised
    <2>9. Counted'
        BY <2>1, <2>3, <2>4 DEF Counted, KeepsItsWord
    <2> QED BY <2>5, <2>7, <2>8, <2>9 DEF ServingInv
<1>5. CASE Close
    <2>1. TypeOK'
        BY <1>5 DEF Close, ServingInv, TypeOK
    <2>2. Bound'
        BY <1>5 DEF Close, ServingInv, Bound, NothingDangles
    <2>3. Credentials'
        BY <1>5 DEF Close, Credentials, Authorised
    <2>4. Counted'
        BY <1>5 DEF Close, Counted, KeepsItsWord
    <2> QED BY <2>1, <2>2, <2>3, <2>4 DEF ServingInv
<1> QED BY <1>1, <1>2, <1>3, <1>4, <1>5

(* A request is read, refused or accepted.                                 *)
LEMMA ReadStep ==
    ASSUME ServingInv, NEW r \in Requests,
           Read(r) \/ ReadFails(r) \/ Limited \/ BadUrl \/ Accepted
    PROVE  ServingInv'
<1>1. CASE Read(r)
    <2>1. pc = "read" /\ t = Zero /\ memory = {} /\ n < MaxRequests
        BY <1>1 DEF Read, ServingInv, Bound, NothingDangles
    <2>2. t' = AuthBind(CorsPrepare([Zero EXCEPT !.head = r.method = "HEAD"], r), r)
        BY <1>1, <2>1 DEF Read
    <2>3. t' \in Locals /\ Unbound(t') /\ t'.user = r.token
        BY <2>2, ReadLocals, ServingAssumption
    <2>4. /\ n' = n + 1 /\ req' = r /\ answers' = 0 /\ pc' = "limit"
          /\ UNCHANGED <<todo, rc, memory, conn, served, stop, drain, last, keep, told>>
        BY <1>1 DEF Read
    <2>5. n' \in 0..MaxRequests /\ n' > 0
        BY <2>1, <2>4, ServingAssumption DEF ServingInv, TypeOK
    <2>6. TypeOK'
        BY <2>3, <2>4, <2>5 DEF ServingInv, TypeOK
    <2>7. NothingDangles'
        BY <2>1, <2>3, <2>4 DEF NothingDangles, Unbound
    <2>8. Bound'
        BY <2>4, <2>5, <2>7 DEF Bound
    <2>9. Credentials'
        BY <2>3, <2>4 DEF Credentials, Authorised
    <2>10. Counted'
        BY <2>1, <2>4 DEF ServingInv, Counted, KeepsItsWord
    <2> QED BY <2>6, <2>8, <2>9, <2>10 DEF ServingInv
<1>2. CASE ReadFails(r)
    <2>1. pc = "read" /\ t = Zero /\ memory = {} /\ n < MaxRequests
        BY <1>2 DEF ReadFails, ServingInv, Bound, NothingDangles
    <2>2. t' = [Zero EXCEPT !.head = r.method = "HEAD"]
        BY <1>2, <2>1 DEF ReadFails
    <2>3. t' \in Locals /\ Unbound(t')
        BY <2>2, HeadLocals
    <2>4. /\ n' = n + 1 /\ req' = r /\ answers' \in {0, 1} /\ pc' = "close"
          /\ told' \in {"close", "cut"}
          /\ UNCHANGED <<todo, rc, memory, conn, served, stop, drain, keep>>
        BY <1>2 DEF ReadFails
    <2>5. n' \in 0..MaxRequests
        BY <2>1, <2>4, ServingAssumption DEF ServingInv, TypeOK
    <2>6. TypeOK'
        BY <2>3, <2>4, <2>5 DEF ServingInv, TypeOK
    <2>7. NothingDangles'
        BY <2>1, <2>3, <2>4 DEF NothingDangles, Unbound
    <2>8. Bound'
        BY <2>4, <2>7 DEF Bound
    <2>9. Credentials'
        BY <2>4 DEF Credentials, Authorised
    <2>10. Counted'
        BY <2>4 DEF Counted, KeepsItsWord
    <2> QED BY <2>6, <2>8, <2>9, <2>10 DEF ServingInv
<1>3. CASE Limited \/ BadUrl
    <2>0. pc = "limit"
        BY <1>3 DEF Limited, BadUrl
    <2>1. pc = "limit" /\ answers = 0 /\ t \in Locals
        BY <2>0 DEF ServingInv, Counted, TypeOK
    <2>2. "Retry-After" \in Headers
        BY DEF Headers
    <2>3. t' \in Locals /\ SameBindings(t', t)
        <3>1. t' = Header(t, "Retry-After") \/ t' = t
            BY <1>3 DEF Limited, BadUrl
        <3>2. SameBindings(t, t)
            BY DEF SameBindings
        <3> QED BY <2>1, <2>2, <3>1, <3>2, HeaderSets
    <2>4. /\ pc' = "close" /\ told' \in {"close", "cut"}
          /\ answers' \in {answers, answers + 1}
          /\ UNCHANGED <<n, req, todo, rc, memory, conn, served, stop, drain, keep>>
        BY <1>3 DEF Limited, BadUrl, Send
    <2>5. answers' \in 0..1
        BY <2>1, <2>4
    <2>6. TypeOK'
        BY <2>3, <2>4, <2>5 DEF ServingInv, TypeOK
    <2>7. NothingDangles'
        BY <2>1, <2>3, <2>4 DEF ServingInv, Bound, NothingDangles, SameBindings
    <2>8. Bound'
        BY <2>4, <2>7 DEF Bound
    <2>9. Credentials'
        BY <2>4 DEF Credentials, Authorised
    <2>10. Counted'
        BY <2>4 DEF Counted, KeepsItsWord
    <2> QED BY <2>6, <2>8, <2>9, <2>10 DEF ServingInv
<1>4. CASE Accepted
    <2>1. /\ pc = "limit" /\ pc' = "serve" /\ keep' = KeepAliveWanted
          /\ UNCHANGED <<t, n, req, todo, rc, memory, conn, served, stop, drain,
                         last, answers, told>>
        BY <1>4 DEF Accepted
    <2>2. keep' \in BOOLEAN /\ (keep' => served # KeepMax - 1)
        <3>1. KeepAliveWanted \in BOOLEAN
            BY DEF KeepAliveWanted
        <3>2. KeepAliveWanted => served # KeepMax - 1
            BY DEF KeepAliveWanted
        <3> QED BY <2>1, <3>1, <3>2
    <2>3. keep' => served < KeepMax - 1
        BY <2>1, <2>2, ServingAssumption DEF ServingInv, TypeOK, Counted
    <2>4. TypeOK'
        BY <2>1, <2>2 DEF ServingInv, TypeOK
    <2>5. Bound'
        BY <2>1 DEF ServingInv, Bound, NothingDangles
    <2>6. Credentials'
        BY <2>1 DEF ServingInv, Credentials, Authorised
    <2>7. Counted'
        BY <2>1, <2>3 DEF ServingInv, Counted, KeepsItsWord
    <2> QED BY <2>4, <2>5, <2>6, <2>7 DEF ServingInv
<1> QED BY <1>1, <1>2, <1>3, <1>4

(* serve_request up to an answer or to the handler.                        *)
LEMMA ServeStep ==
    ASSUME ServingInv, Serve
    PROVE  ServingInv'
<1>1. /\ pc = "serve" /\ t \in Locals /\ Unbound(t) /\ n \in 0..MaxRequests /\ n > 0
      /\ req \in Requests /\ req \in Request /\ t.user = req.token
    <2>1. pc = "serve"
        BY DEF Serve, ServeHealth, ServePreflight, ServeUnrouted, BadQuery, NoMemory,
               OpenapiRefused, Dispatch, OnRoute
    <2> QED BY <2>1, ServingAssumption
            DEF ServingInv, TypeOK, Bound, NothingDangles, Credentials, Unbound
<1>2. ASSUME NEW s \in Locals, Unbound(s) \/ (s.request = n /\ s.body = 0 /\ ~s.escape),
             NEW status, NEW why, Answer(s, status, why),
             UNCHANGED <<Rest, todo, rc>>, memory' \in {memory, memory \cup {n}}
      PROVE  ServingInv'
    <2>1. s.request \in {0, n} /\ s.body \in {0, n} /\ ~s.escape
        BY <1>2 DEF Unbound
    <2> QED BY <1>1, <1>2, <2>1, AnswerStep
<1>3. /\ Resolve(t, req) \in Locals /\ Unbound(Resolve(t, req))
      /\ Routed \in Locals /\ Unbound(Routed)
      /\ Prepared \in Locals /\ Prepared.user = t.user
      /\ Prepared.request = n /\ Prepared.body = 0 /\ ~Prepared.escape
    BY <1>1, Resolves, RoutedLocals DEF Unbound, SameBindings
<1>4. TRUE \in BOOLEAN /\ FALSE \in BOOLEAN
    OBVIOUS
<1>5. CASE ServeHealth
    <2>1. [t EXCEPT !.allow = TRUE] \in Locals /\ Unbound([t EXCEPT !.allow = TRUE])
        BY <1>1, <1>4, AllowSets DEF Unbound, SameBindings
    <2> QED BY <1>1, <1>2, <1>5, <2>1 DEF ServeHealth
<1>6. CASE ServePreflight
    <2> DEFINE p == Preflight(Resolve(t, req), req)
    <2>1. p.locals \in Locals /\ Unbound(p.locals)
        BY <1>3, Preflights DEF Unbound, SameBindings
    <2>2. /\ Answer(p.locals, p.status, "preflight")
          /\ UNCHANGED <<Rest, todo, rc>> /\ memory' = memory
        BY <1>6 DEF ServePreflight
    <2> HIDE DEF p
    <2> QED BY <1>2, <2>1, <2>2
<1>7. CASE ServeUnrouted
    <2> DEFINE s == Resolve(t, req)
    <2>1. s \in Locals /\ Unbound(s)
        BY <1>3
    <2>2. [s EXCEPT !.allow = FALSE] \in Locals /\ Unbound([s EXCEPT !.allow = FALSE])
        BY <1>3, <1>4, AllowSets DEF Unbound, SameBindings
    <2>3. /\ \/ Answer([s EXCEPT !.allow = FALSE], 200, "file")
             \/ Answer(s, IF req.path = "invalid" THEN 400
                          ELSE IF req.path = "none" THEN 404
                          ELSE IF req.method = "OPTIONS" THEN 204 ELSE 405, "route")
          /\ UNCHANGED <<Rest, todo, rc>> /\ memory' \in {memory, memory \cup {n}}
        BY <1>7 DEF ServeUnrouted
    <2> HIDE DEF s
    <2> QED BY <1>2, <2>1, <2>2, <2>3
<1>8. CASE BadQuery
    BY <1>2, <1>3, <1>8 DEF BadQuery
<1>9. CASE NoMemory
    BY <1>2, <1>3, <1>9 DEF NoMemory
<1> DEFINE p == FailReset(Prepared)
<1>10. /\ p \in Locals /\ p.user = req.token /\ p.failed = 0
       /\ p.request = n /\ p.body = 0 /\ ~p.escape
    BY <1>1, <1>3, FailResets
<1>11. OpenapiNeeds(req) \in {"public", "any", "user", "admin"}
       /\ req.needs \in {"public", "any", "user", "admin"}
    BY <1>1 DEF OpenapiNeeds, Request
<1>12. CASE OpenapiRefused
    <2> DEFINE s == AuthGate(p, OpenapiNeeds(req))
    <2>1. s \in Locals /\ SameBindings(s, p)
        BY <1>10, <1>11, Gates
    <2>2. s.request = n /\ s.body = 0 /\ ~s.escape
        BY <1>10, <2>1 DEF SameBindings
    <2>3. /\ Answer(s, 401, "openapi")
          /\ UNCHANGED <<Rest, todo, rc>> /\ memory' = memory \cup {n}
        BY <1>12 DEF OpenapiRefused
    <2> HIDE DEF s
    <2> QED BY <1>2, <2>1, <2>2, <2>3
<1>13. CASE Dispatch
    <2> DEFINE need == IF req.path = "openapi" THEN "public" ELSE req.needs
               e == [p EXCEPT !.escape = TRUE]
               s == AuthGate(e, need)
               gated == AuthGate(p, OpenapiNeeds(req))
               z == [s EXCEPT !.escape = FALSE]
    <2> HIDE DEF p
    <2>1. e \in Locals
        BY <1>4, <1>10, Zenon DEF Locals
    <2>2. e.user = req.token /\ e.request = n /\ e.body = 0 /\ e.escape
        BY <1>10 DEF Locals
    <2> HIDE DEF e
    <2>3. need \in {"public", "any", "user", "admin"}
        BY <1>11
    <2> HIDE DEF need
    <2>4. /\ s \in Locals /\ s.request = n /\ s.body = 0
          /\ s.failed = 0 => Meets(req.token, need)
        BY <2>1, <2>2, <2>3, Gates DEF SameBindings
    <2>5. gated.failed = 0 => Meets(req.token, OpenapiNeeds(req))
        BY <1>10, <1>11, Gates
    <2> HIDE DEF s, gated
    <2>6. z \in Locals
        BY <1>4, <2>4, Zenon DEF Locals
    <2>7. z.request = n /\ z.body = 0 /\ ~z.escape
        BY <2>4 DEF Locals
    <2> HIDE DEF z
    <2>8. /\ UNCHANGED <<n, req, conn, served, stop, drain, keep, last, answers, told>>
          /\ memory' = memory \cup {n}
          /\ req.path = "openapi" => gated.failed = 0
        BY <1>13 DEF Dispatch, Rest, gated, p
    <2>9. \/ /\ t' = z /\ pc' = "landed" /\ rc' = 0 /\ todo' = todo
          \/ /\ t' = s /\ pc' = "handler" /\ rc' = rc /\ s.failed = 0
             /\ todo' = BodyActs(req) \o req.acts
        BY <1>10, <1>13 DEF Dispatch, s, e, z, need, p
    <2>10. t' \in Locals /\ t'.request = n /\ t'.body = 0
           /\ pc' \in {"landed", "handler"} /\ (t'.escape => pc' = "handler")
           /\ rc' \in {-2, -1, 0}
        BY <2>4, <2>6, <2>7, <2>9 DEF ServingInv, TypeOK
    <2>11. todo' \in Seq(Acts \cup {"invalid", "bind", "refuse"})
        <3> DEFINE A == Acts \cup {"invalid", "bind", "refuse"}
        <3>1. req.acts \in Seq(Acts) /\ req.bad \in Nat
            BY <1>1 DEF Request
        <3>2. req.acts \in Seq(A)
            <4>1. \A i \in 1..Len(req.acts) : req.acts[i] \in A
                BY <3>1, ElementOfSeq
            <4>2. DOMAIN req.acts = 1..Len(req.acts) /\ Len(req.acts) \in Nat
                BY <3>1, LenProperties
            <4> QED BY <3>1, <4>1, <4>2
        <3>3. BodyActs(req) \in Seq(A)
            <4>1. [i \in 1..req.bad |-> "field"] \in Seq(A)
                BY <3>1 DEF Acts
            <4>2. <<"refuse">> \in Seq(A) /\ <<"invalid", "refuse">> \in Seq(A)
                  /\ <<"bind">> \in Seq(A) /\ <<>> \in Seq(A)
                OBVIOUS
            <4>3. [i \in 1..req.bad |-> "field"] \o <<"refuse">> \in Seq(A)
                BY <4>1, <4>2, ConcatProperties
            <4> QED BY <4>2, <4>3 DEF BodyActs
        <3>4. BodyActs(req) \o req.acts \in Seq(A)
            BY <3>2, <3>3, ConcatProperties
        <3>5. todo \in Seq(A)
            BY DEF ServingInv, TypeOK
        <3> QED BY <2>9, <3>4, <3>5
    <2>12. TypeOK'
        <3>1. memory' \subseteq 1..MaxRequests
            BY <1>1, <2>8 DEF ServingInv, TypeOK
        <3> QED BY <2>8, <2>10, <2>11, <3>1 DEF ServingInv, TypeOK
    <2>13. NothingDangles'
        BY <2>8, <2>10 DEF ServingInv, Bound, NothingDangles
    <2>14. Bound'
        BY <1>1, <2>8, <2>10, <2>13 DEF Bound
    <2>15. pc' = "handler" => Authorised'
        <3> SUFFICES ASSUME pc' = "handler" PROVE Authorised'
            OBVIOUS
        <3>1. s.failed = 0
            BY <2>9
        <3>2. CASE req.path = "openapi"
            BY <2>5, <2>8, <3>2 DEF Authorised
        <3>3. CASE req.path # "openapi"
            BY <2>4, <2>8, <3>1, <3>3 DEF Authorised, need
        <3> QED BY <3>2, <3>3
    <2>16. Credentials'
        BY <2>10, <2>15 DEF Credentials, Authorised
    <2>17. Counted'
        BY <1>1, <2>8, <2>10 DEF ServingInv, Counted, KeepsItsWord
    <2> QED BY <2>12, <2>14, <2>16, <2>17 DEF ServingInv
<1> QED BY <1>5, <1>6, <1>7, <1>8, <1>9, <1>12, <1>13 DEF Serve

(* The handler, its end and its answer.                                    *)
LEMMA HandlerStep ==
    ASSUME ServingInv, Handler
    PROVE  ServingInv'
<1>1. /\ t \in Locals /\ t.request \in {0, n} /\ t.body \in {0, n}
      /\ n \in 0..MaxRequests
    BY DEF ServingInv, TypeOK, Bound, NothingDangles
<1>2. CASE Act
    <2>1. /\ pc = "handler" /\ todo # <<>> /\ Head(todo) \notin {"raise", "refuse"}
          /\ t' = Do(t, Head(todo)) /\ todo' = Tail(todo)
          /\ UNCHANGED <<n, req, conn, served, stop, drain, keep, pc, rc, memory,
                         last, answers, told>>
        BY <1>2 DEF Act, Rest
    <2>2. todo \in Seq(Acts \cup {"invalid", "bind", "refuse"})
        BY DEF ServingInv, TypeOK
    <2>3. Head(todo) \in Acts \cup {"invalid", "bind", "refuse"}
          /\ Tail(todo) \in Seq(Acts \cup {"invalid", "bind", "refuse"})
        BY <2>1, <2>2, HeadTailProperties
    <2>4. Head(todo) \in (Acts \cup {"invalid", "bind"}) \ {"raise"}
        BY <2>1, <2>3
    <2>5. /\ t' \in Locals /\ t'.body \in {0, n} /\ t'.request = t.request
          /\ t'.escape = t.escape
        BY <1>1, <2>1, <2>4, Does
    <2>6. TypeOK'
        BY <2>1, <2>3, <2>5 DEF ServingInv, TypeOK
    <2>7. NothingDangles'
        BY <1>1, <2>1, <2>5 DEF ServingInv, Bound, NothingDangles
    <2>8. Bound'
        BY <2>1, <2>7 DEF ServingInv, Bound
    <2>9. Credentials'
        BY <2>1 DEF ServingInv, Credentials, Authorised
    <2>10. Counted'
        BY <2>1 DEF ServingInv, Counted, KeepsItsWord
    <2> QED BY <2>6, <2>8, <2>9, <2>10 DEF ServingInv
<1>3. CASE Raise
    <2>1. 404 \in Statuses /\ "none" \in Codes /\ "raise" \in Reasons
        BY DEF Statuses, Codes, Reasons
    <2>2. Fail(t, 404, "none", "raise") \in Locals
          /\ SameBindings(Fail(t, 404, "none", "raise"), t)
        BY <1>1, <2>1, Fails
    <2>3. Fail(t, 404, "none", "raise").request \in {0, n}
          /\ Fail(t, 404, "none", "raise").body \in {0, n}
        BY <1>1, <2>2 DEF SameBindings
    <2>4. 0 \in {-2, -1, 0}
        OBVIOUS
    <2> QED BY <1>3, <2>2, <2>3, <2>4, LandStep DEF Raise
<1>4. CASE Refuse
    <2>1. -2 \in {-2, -1, 0}
        OBVIOUS
    <2> QED BY <1>1, <1>4, <2>1, LandStep DEF Refuse
<1>5. CASE Return
    <2>1. (IF t.failed # 0 \/ req.fits THEN 0 ELSE -1) \in {-2, -1, 0}
        OBVIOUS
    <2> QED BY <1>1, <1>5, <2>1, LandStep DEF Return
<1>6. CASE HandlerError \/ HandlerOK
    <2>1. pc = "landed" /\ ~t.escape
        BY <1>6 DEF HandlerError, HandlerOK, ServingInv, Bound, NothingDangles
    <2>2. PICK status, why : Answer(t, status, why)
        BY <1>6 DEF HandlerError, HandlerOK
    <2>3. UNCHANGED <<Rest, todo, rc>> /\ memory' = memory
        BY <1>6 DEF HandlerError, HandlerOK
    <2> QED BY <1>1, <2>1, <2>2, <2>3, AnswerStep
<1> QED BY <1>2, <1>3, <1>4, <1>5, <1>6 DEF Handler

-----------------------------------------------------------------------------
LEMMA ServingInitInv == Init => ServingInv
<1> SUFFICES ASSUME Init PROVE ServingInv
    OBVIOUS
<1>1. TypeOK
    <2>1. 0 \in 0..MaxRequests /\ 0 \in 0..MaxConns /\ 0 \in 0..KeepMax
        BY ServingAssumption
    <2>2. <<>> \in Seq(Acts \cup {"invalid", "bind", "refuse"})
        BY EmptySeq
    <2>3. FALSE \in BOOLEAN /\ 0 \in 0..1 /\ 0 \in {-2, -1, 0}
        OBVIOUS
    <2>4. memory \subseteq 1..MaxRequests
        BY DEF Init
    <2> QED BY <2>1, <2>2, <2>3, <2>4, ZeroLocals, Zenon DEF Init, TypeOK
<1>2. Bound
    BY ZeroLocals DEF Init, Bound, NothingDangles, Unbound
<1>3. Credentials /\ Counted
    BY DEF Init, Credentials, Authorised, Counted, KeepsItsWord
<1> QED BY <1>1, <1>2, <1>3 DEF ServingInv

LEMMA ServingStep ==
    ASSUME ServingInv, [Next]_vars
    PROVE  ServingInv'
<1>1. CASE Stop \/ DrainOver \/ UNCHANGED vars
    <2>1. /\ UNCHANGED <<pc, t, n, req, todo, rc, memory, conn, served, last,
                         answers, keep, told>>
          /\ stop' \in BOOLEAN /\ drain' \in BOOLEAN /\ (drain => drain')
        BY <1>1 DEF Stop, DrainOver, vars, ServingInv, TypeOK
    <2>2. TypeOK'
        BY <2>1 DEF ServingInv, TypeOK
    <2>3. Bound'
        BY <2>1 DEF ServingInv, Bound, NothingDangles
    <2>4. Credentials'
        BY <2>1 DEF ServingInv, Credentials, Authorised
    <2>5. Counted'
        BY <2>1 DEF ServingInv, Counted, KeepsItsWord
    <2> QED BY <2>2, <2>3, <2>4, <2>5 DEF ServingInv
<1>2. CASE Limited \/ BadUrl \/ Accepted
    <2>1. req \in Requests
        BY <1>2 DEF Limited, BadUrl, Accepted, ServingInv, Bound
    <2> QED BY <1>2, <2>1, ReadStep
<1>3. ASSUME NEW r \in Requests, Read(r) \/ ReadFails(r) PROVE ServingInv'
    BY <1>3, ReadStep
<1> QED BY <1>1, <1>2, <1>3, LoopStep, ServeStep, HandlerStep DEF Next, Over

LEMMA ServingInvariance == Spec => []ServingInv
<1>1. ServingInv /\ [Next]_vars => ServingInv'
    BY ServingStep
<1> QED BY <1>1, ServingInitInv, PTL DEF Spec

-----------------------------------------------------------------------------
(* The rule that a request falls under.                                    *)

LEMMA MinIs ==
    ASSUME NEW S, S \subseteq Int, NEW i \in S, \A j \in S : i <= j
    PROVE  Min(S) = i
<1> DEFINE P(x) == x \in S /\ \A y \in S : x <= y
<1>1. Min(S) = CHOOSE x \in S : \A y \in S : x <= y
    BY DEF Min
<1>2. Min(S) \in S /\ \A y \in S : Min(S) <= y
    BY <1>1
<1>3. Min(S) <= i /\ i <= Min(S) /\ i \in Int /\ Min(S) \in Int
    BY <1>2
<1> QED BY <1>3

(* None of the first k rules holds.                                        *)
Passed(r, k) == \A j \in 1..k : ~Rules(r)[j].when

LEMMA FirstRule ==
    ASSUME NEW r, NEW i \in 1..27, Passed(r, i - 1), Rules(r)[i].when
    PROVE  RuleOf(r) = Rules(r)[i]
<1>1. Len(Rules(r)) = 27
    BY DEF Rules
<1> DEFINE I == {j \in 1..Len(Rules(r)) : Rules(r)[j].when}
<1>2. i \in I /\ \A j \in I : i <= j
    BY <1>1 DEF Passed
<1>3. Min(I) = i
    <2> HIDE DEF I
    <2>1. I \subseteq Int
        BY DEF I
    <2> QED BY <1>2, <2>1, MinIs
<1> QED BY <1>2, <1>3 DEF RuleOf, SelectInSeq

LEMMA PassesRead ==
    ASSUME NEW r, r.read = 1
    PROVE  Passed(r, 2)
<1>1. r.read # -2 /\ r.read # -3
    OBVIOUS
<1>2. ~Rules(r)[1].when
    BY <1>1 DEF Rules
<1>3. ~Rules(r)[2].when
    BY <1>1 DEF Rules
<1> QED BY <1>2, <1>3 DEF Passed

LEMMA PassesLimit ==
    ASSUME NEW r, r.read = 1, ~r.limited
    PROVE  Passed(r, 3)
<1>1. ~Rules(r)[3].when
    BY DEF Rules
<1>2. \A j \in 1..3 : j \in 1..2 \/ j = 3
    OBVIOUS
<1> QED BY <1>1, <1>2, PassesRead DEF Passed

LEMMA PassesUrl ==
    ASSUME NEW r, r.read = 1, ~r.limited, r.path # "bad"
    PROVE  Passed(r, 4)
<1>1. ~Rules(r)[4].when
    BY DEF Rules
<1>2. \A j \in 1..4 : j \in 1..3 \/ j = 4
    OBVIOUS
<1> QED BY <1>1, <1>2, PassesLimit DEF Passed

LEMMA PassesHealth ==
    ASSUME NEW r, Passed(r, 4), r.path # "health"
    PROVE  Passed(r, 7)
<1>1. ~Rules(r)[5].when
    BY DEF Rules
<1>2. ~Rules(r)[6].when
    BY DEF Rules
<1>3. ~Rules(r)[7].when
    BY DEF Rules
<1>4. \A j \in 1..7 : j \in 1..4 \/ j = 5 \/ j = 6 \/ j = 7
    OBVIOUS
<1> QED BY <1>1, <1>2, <1>3, <1>4 DEF Passed

-----------------------------------------------------------------------------
(* An answer and the one that the request deserves.                        *)

Parts(x) ==
    [status |-> x.status, code |-> x.code, why |-> x.why, errors |-> x.errors,
     truncated |-> x.truncated, headers |-> x.headers, allow |-> x.allow,
     vary |-> x.vary, origin |-> x.origin, methods |-> x.methods,
     requested |-> x.requested, body |-> x.body]

LEMMA ResponseParts ==
    ASSUME NEW s, NEW status, NEW why
    PROVE  Response(s, status, why) = Parts(Response(s, status, why))
BY Zenon DEF Response, Parts

LEMMA ExpectedParts ==
    ASSUME NEW r
    PROVE  Expected(r) = Parts(Expected(r))
BY SMT DEF Expected, Parts

(* The flags that the headers are written from.                            *)
Preflighted(r) == RuleOf(r).why = "preflight"

Named(r) ==
    /\ Cors /\ r.origin = "listed" /\ r.read = 1
    /\ Preflighted(r) => RuleOf(r).status = 204

Allowed(r) ==
    \/ RuleOf(r).why = "health"
    \/ RuleOf(r).why \in {"preflight", "route"} /\ r.path = "other"
    \/ /\ HasRoute(r) /\ r.method = "OPTIONS"
       /\ RuleOf(r).why \notin {"read", "limit"}

Flags(s, r) ==
    /\ s.head <=> r.method = "HEAD"
    /\ s.cors <=> Cors /\ r.read = 1
    /\ s.cors /\ s.preflight <=> Preflighted(r)
    /\ s.origin <=> Named(r)
    /\ s.allow <=> Allowed(r)
    /\ s.origin /\ s.preflight /\ RuleOf(r).status = 204
           <=> Preflighted(r) /\ RuleOf(r).status = 204
    /\ s.requested /\ s.preflight /\ s.origin /\ RuleOf(r).status = 204
           <=> Preflighted(r) /\ RuleOf(r).status = 204 /\ r.ask = "headers"

LEMMA FlagsMatch ==
    ASSUME NEW r, NEW s \in Locals, NEW why, Flags(s, r), Cors \in BOOLEAN
    PROVE  LET x == Response(s, RuleOf(r).status, why) IN
           /\ x.status = Expected(r).status /\ x.allow = Expected(r).allow
           /\ x.vary = Expected(r).vary /\ x.origin = Expected(r).origin
           /\ x.methods = Expected(r).methods /\ x.requested = Expected(r).requested
           /\ x.body = Expected(r).body
<1> DEFINE x == Response(s, RuleOf(r).status, why)
           e == Expected(r)
<1>0. /\ s.allow \in BOOLEAN /\ s.cors \in BOOLEAN /\ s.origin \in BOOLEAN
    BY DEF Locals
<1>1. x.status = e.status
    BY DEF Response, Expected
<1>2. x.allow = e.allow
    <2>1. x.allow = s.allow
        BY DEF Response
    <2>2. e.allow = Allowed(r)
        BY DEF Expected, Allowed
    <2>3. s.allow = Allowed(r)
        BY <1>0 DEF Flags, Allowed
    <2> QED BY <2>1, <2>2, <2>3
<1>3. x.vary = e.vary
    <2>1. x.vary = <<s.cors, s.cors /\ s.preflight>>
        BY DEF Response
    <2>2. e.vary = <<Cors /\ r.read = 1, Preflighted(r)>>
        BY DEF Expected, Preflighted
    <2>3. s.cors = (Cors /\ r.read = 1)
        BY <1>0 DEF Flags
    <2>4. (s.cors /\ s.preflight) = Preflighted(r)
        BY <1>0 DEF Flags, Preflighted
    <2> QED BY <2>1, <2>2, <2>3, <2>4, Zenon
<1>4. x.origin = e.origin
    <2>1. x.origin = s.origin
        BY DEF Response
    <2>2. e.origin = Named(r)
        BY DEF Expected, Named, Preflighted
    <2>3. s.origin = Named(r)
        BY <1>0 DEF Flags, Named
    <2> QED BY <2>1, <2>2, <2>3
<1>5. x.methods = e.methods
    <2>1. x.methods = (s.origin /\ s.preflight /\ RuleOf(r).status = 204)
        BY DEF Response
    <2>2. e.methods = (Preflighted(r) /\ RuleOf(r).status = 204)
        BY DEF Expected, Preflighted
    <2> QED BY <2>1, <2>2 DEF Flags
<1>6. x.requested = e.requested
    <2>1. x.requested = (s.origin /\ s.preflight /\ RuleOf(r).status = 204 /\ s.requested)
        BY DEF Response
    <2>2. e.requested = (Preflighted(r) /\ RuleOf(r).status = 204 /\ r.ask = "headers")
        BY DEF Expected, Preflighted
    <2> QED BY <2>1, <2>2 DEF Flags
<1>7. x.body = e.body
    <2>1. x.body = (~s.head /\ RuleOf(r).status # 204)
        BY DEF Response
    <2>2. e.body = (r.method # "HEAD" /\ RuleOf(r).status # 204)
        BY DEF Expected
    <2> QED BY <2>1, <2>2 DEF Flags
<1> QED BY <1>1, <1>2, <1>3, <1>4, <1>5, <1>6, <1>7

LEMMA Matches ==
    ASSUME NEW r, NEW s \in Locals, NEW why, Flags(s, r), NEW status, RuleOf(r).status = status,
           LET x == Response(s, status, why) IN
           /\ x.code = Expected(r).code /\ x.why = Expected(r).why
           /\ x.errors = Expected(r).errors /\ x.truncated = Expected(r).truncated
           /\ x.headers = Expected(r).headers
    PROVE  Response(s, status, why) = Expected(r)
<1> DEFINE x == Response(s, status, why)
           e == Expected(r)
<1>1. /\ x.status = e.status /\ x.allow = e.allow /\ x.vary = e.vary
      /\ x.origin = e.origin /\ x.methods = e.methods /\ x.requested = e.requested
      /\ x.body = e.body
    BY FlagsMatch, ServingAssumption
<1>2. Parts(x) = Parts(e)
    <2> HIDE DEF x, e
    <2> QED BY <1>1, Zenon DEF Parts, x, e
<1> QED BY <1>2, ResponseParts, ExpectedParts

(* The answers that no failure of the request writes.                      *)
Plainly ==
    {"read", "limit", "url", "up", "health", "preflight", "file", "route",
     "query", "memory", "parameter"}

LEMMA PlainAnswer ==
    ASSUME NEW r, NEW s \in Locals, Flags(s, r), s.failed = 0,
           NEW status \in Nat, status # 0, status # 401, NEW why \in Plainly,
           RuleOf(r).status = status, RuleOf(r).why = why,
           s.headers = (IF status = 429 THEN {"Retry-After"} ELSE {})
    PROVE  Response(s, status, why) = Expected(r)
<1> DEFINE x == Response(s, status, why)
           e == Expected(r)
<1>1. ~(status >= 400 /\ s.failed = status)
    OBVIOUS
<1>2. /\ x.code = "none" /\ x.why = why /\ x.errors = 0 /\ x.truncated = FALSE
      /\ x.headers = (IF status >= 400 THEN s.headers \ {"Location"} ELSE s.headers)
    <2>1. x.code = "none" /\ x.why = why /\ x.errors = 0
        BY <1>1 DEF Response
    <2>2. x.truncated = FALSE
        BY <1>1 DEF Response
    <2>3. x.headers = (IF status >= 400 THEN s.headers \ {"Location"} ELSE s.headers)
        BY DEF Response
    <2> QED BY <2>1, <2>2, <2>3
<1>3. /\ why # "validation" /\ why # "json"
      /\ why \notin {"validation", "fail", "raise", "large", "result"}
    BY DEF Plainly
<1>4. /\ e.code = "none" /\ e.why = why /\ e.errors = 0 /\ e.truncated = FALSE
      /\ e.headers = (IF status = 429 THEN {"Retry-After"} ELSE {})
    <2>1. e.code = "none" /\ e.why = why /\ e.errors = 0
        BY <1>3 DEF Expected
    <2>2. e.truncated = FALSE
        BY <1>3 DEF Expected
    <2>3. e.headers = (IF status = 429 THEN {"Retry-After"} ELSE {})
        BY <1>3 DEF Expected
    <2> QED BY <2>1, <2>2, <2>3
<1>5. x.headers = e.headers
    <2>1. s.headers \ {"Location"} = s.headers
        OBVIOUS
    <2> HIDE DEF x, e
    <2>2. x.headers = s.headers
        BY <1>2, <2>1
    <2>3. e.headers = s.headers
        BY <1>4
    <2> QED BY <2>2, <2>3
<1> HIDE DEF x, e
<1>6. x.code = e.code /\ x.why = e.why /\ x.errors = e.errors
    BY <1>2, <1>4
<1>7. x.truncated = e.truncated
    BY <1>2, <1>4
<1> QED BY <1>5, <1>6, <1>7, Matches DEF x, e

-----------------------------------------------------------------------------
(* The answers before the handler.                                         *)

(* read_request, cors_prepare and auth_bind have run, and nothing else.    *)
Clean(s, r) ==
    /\ s.failed = 0 /\ s.code = "none" /\ s.why = "none" /\ s.errors = 0
    /\ ~s.truncated /\ s.headers = {} /\ s.override = 0 /\ s.body = 0
    /\ s.head <=> r.method = "HEAD"
    /\ s.cors <=> Cors
    /\ s.origin <=> Cors /\ r.origin = "listed"
    /\ ~s.preflight /\ ~s.requested

(* The answers of read_request.                                            *)
LEMMA ReadAnswers ==
    ASSUME NEW r \in Request, r.read \in {-3, -2}, NEW s \in Locals,
           s.failed = 0, s.headers = {}, s.head <=> r.method = "HEAD",
           ~s.cors, ~s.origin, ~s.preflight, ~s.allow, ~s.requested
    PROVE  Response(s, IF r.read = -2 THEN 413 ELSE 417, "read") = Expected(r)
<1> DEFINE status == IF r.read = -2 THEN 413 ELSE 417
<1>1. RuleOf(r).status = status /\ RuleOf(r).why = "read"
    <2>1. CASE r.read = -2
        <3>1. Rules(r)[1].when /\ Rules(r)[1].status = 413 /\ Rules(r)[1].why = "read"
            BY <2>1 DEF Rules
        <3>2. Passed(r, 1 - 1)
            BY DEF Passed
        <3> QED BY <2>1, <3>1, <3>2, FirstRule
    <2>2. CASE r.read = -3
        <3>1. r.read # -2
            BY <2>2
        <3>2. ~Rules(r)[1].when
            BY <3>1 DEF Rules
        <3>3. Rules(r)[2].when /\ Rules(r)[2].status = 417 /\ Rules(r)[2].why = "read"
            BY <2>2 DEF Rules
        <3>4. Passed(r, 2 - 1)
            BY <3>2 DEF Passed
        <3> QED BY <3>1, <3>3, <3>4, FirstRule
    <2> QED BY <2>1, <2>2
<1>2. r.read # 1 /\ status \in Nat /\ status # 0 /\ status # 401 /\ status # 429 /\ status # 204
    OBVIOUS
<1>3. Flags(s, r)
    BY <1>1, <1>2 DEF Flags, Named, Preflighted, Allowed
<1> HIDE DEF status
<1>4. s.headers = (IF status = 429 THEN {"Retry-After"} ELSE {})
    BY <1>2
<1>5. "read" \in Plainly
    BY DEF Plainly
<1> QED BY <1>1, <1>2, <1>3, <1>4, <1>5, PlainAnswer DEF status

(* The flags of a request that is not a preflight.                         *)
LEMMA FlagsOf ==
    ASSUME NEW r, r.read = 1, NEW s, ~s.preflight, ~Preflighted(r),
           s.head <=> r.method = "HEAD", s.cors <=> Cors,
           s.origin <=> Cors /\ r.origin = "listed", s.allow <=> Allowed(r)
    PROVE  Flags(s, r)
BY DEF Flags, Named

LEMMA LimitedAnswer ==
    ASSUME NEW r \in Request, r.read = 1, r.limited, NEW s \in Locals, Clean(s, r), ~s.allow
    PROVE  Response(Header(s, "Retry-After"), 429, "limit") = Expected(r)
<1> DEFINE u == Header(s, "Retry-After")
<1>1. u \in Locals /\ u.headers = {"Retry-After"} /\ u.failed = 0
    BY HeaderSets DEF Clean, Header, Locals, Headers
<1>2. RuleOf(r).status = 429 /\ RuleOf(r).why = "limit"
    <2>1. Rules(r)[3].when /\ Rules(r)[3].status = 429 /\ Rules(r)[3].why = "limit"
        BY DEF Rules
    <2>2. Passed(r, 3 - 1)
        BY PassesRead
    <2> QED BY <2>1, <2>2, FirstRule
<1>3. Flags(u, r)
    <2>1. ~Preflighted(r) /\ ~Allowed(r)
        BY <1>2 DEF Preflighted, Allowed
    <2>2. /\ ~u.preflight /\ (u.head <=> r.method = "HEAD") /\ (u.cors <=> Cors)
          /\ u.origin <=> Cors /\ r.origin = "listed"
          /\ ~u.allow
        BY DEF Header, Clean, Locals
    <2> HIDE DEF u
    <2> QED BY <2>1, <2>2, FlagsOf
<1>4. "limit" \in Plainly
    BY DEF Plainly
<1> HIDE DEF u
<1> QED BY <1>1, <1>2, <1>3, <1>4, PlainAnswer DEF u

LEMMA BadUrlAnswer ==
    ASSUME NEW r \in Request, r.read = 1, ~r.limited, r.path = "bad",
           NEW s \in Locals, Clean(s, r), ~s.allow
    PROVE  Response(s, 400, "url") = Expected(r)
<1>1. RuleOf(r).status = 400 /\ RuleOf(r).why = "url"
    <2>1. Rules(r)[4].when /\ Rules(r)[4].status = 400 /\ Rules(r)[4].why = "url"
        BY DEF Rules
    <2>2. Passed(r, 4 - 1)
        BY PassesLimit
    <2> QED BY <2>1, <2>2, FirstRule
<1>2. ~Preflighted(r) /\ ~Allowed(r)
    BY <1>1 DEF Preflighted, Allowed, HasRoute
<1>3. Flags(s, r)
    BY <1>2, FlagsOf DEF Clean
<1>4. "url" \in Plainly
    BY DEF Plainly
<1> QED BY <1>1, <1>3, <1>4, PlainAnswer DEF Clean

(* The request has reached serve_request.                                  *)
Received(r) == r \in Request /\ r.read = 1 /\ ~r.limited /\ r.path # "bad"

LEMMA AllowOf ==
    ASSUME NEW r, NEW s \in Locals, Clean(s, r), NEW b \in BOOLEAN
    PROVE  LET u == [s EXCEPT !.allow = b] IN u \in Locals /\ Clean(u, r) /\ (u.allow <=> b)
<1>1. [s EXCEPT !.allow = b] \in Locals
    BY Zenon DEF Locals
<1> QED BY <1>1 DEF Clean, Locals

LEMMA CleanAnswer ==
    ASSUME NEW r, r.read = 1, NEW s \in Locals, Clean(s, r), ~Preflighted(r),
           s.allow <=> Allowed(r),
           NEW status \in Nat \ {0, 401, 429}, NEW why \in Plainly,
           RuleOf(r).status = status, RuleOf(r).why = why
    PROVE  Response(s, status, why) = Expected(r)
<1>1. Flags(s, r)
    BY FlagsOf DEF Clean
<1>2. s.headers = (IF status = 429 THEN {"Retry-After"} ELSE {})
    BY DEF Clean
<1>3. s.failed = 0 /\ status # 0 /\ status # 401 /\ status \in Nat
    BY DEF Clean
<1> QED BY <1>1, <1>2, <1>3, PlainAnswer

LEMMA HealthAnswers ==
    ASSUME NEW r, Received(r), r.path = "health", NEW s \in Locals, Clean(s, r), ~s.allow
    PROVE  /\ Reads(r) => Response(s, 200, "up") = Expected(r)
           /\ ~Reads(r) => Response([s EXCEPT !.allow = TRUE],
                                    IF r.method = "OPTIONS" THEN 204 ELSE 405, "health")
                               = Expected(r)
<1>1. Passed(r, 4) /\ r.read = 1
    BY PassesUrl DEF Received
<1>2. ASSUME Reads(r) PROVE Response(s, 200, "up") = Expected(r)
    <2>1. Rules(r)[5].when /\ Rules(r)[5].status = 200 /\ Rules(r)[5].why = "up"
        BY <1>2 DEF Rules
    <2>2. Passed(r, 5 - 1)
        BY <1>1
    <2>3. RuleOf(r).status = 200 /\ RuleOf(r).why = "up"
        BY <2>1, <2>2, FirstRule
    <2>4. ~Preflighted(r) /\ ~Allowed(r) /\ "up" \in Plainly
        BY <2>3 DEF Preflighted, Allowed, HasRoute, Plainly
    <2> QED BY <1>1, <2>3, <2>4, CleanAnswer
<1>3. ASSUME ~Reads(r)
      PROVE  Response([s EXCEPT !.allow = TRUE],
                      IF r.method = "OPTIONS" THEN 204 ELSE 405, "health") = Expected(r)
    <2> DEFINE status == IF r.method = "OPTIONS" THEN 204 ELSE 405
               u == [s EXCEPT !.allow = TRUE]
    <2>1. ~Rules(r)[5].when
        BY <1>3 DEF Rules
    <2>2. RuleOf(r).status = status /\ RuleOf(r).why = "health"
        <3>1. CASE r.method = "OPTIONS"
            <4>1. Rules(r)[6].when /\ Rules(r)[6].status = 204 /\ Rules(r)[6].why = "health"
                BY <3>1 DEF Rules
            <4>2. \A j \in 1..(6 - 1) : j \in 1..4 \/ j = 5
                OBVIOUS
            <4>3. Passed(r, 6 - 1)
                BY <1>1, <2>1, <4>2 DEF Passed
            <4> QED BY <3>1, <4>1, <4>3, FirstRule
        <3>2. CASE r.method # "OPTIONS"
            <4>1. ~Rules(r)[6].when
                BY <3>2 DEF Rules
            <4>2. Rules(r)[7].when /\ Rules(r)[7].status = 405 /\ Rules(r)[7].why = "health"
                BY DEF Rules
            <4>3. \A j \in 1..(7 - 1) : j \in 1..4 \/ j = 5 \/ j = 6
                OBVIOUS
            <4>4. Passed(r, 7 - 1)
                BY <1>1, <2>1, <4>1, <4>3 DEF Passed
            <4> QED BY <3>2, <4>2, <4>4, FirstRule
        <3> QED BY <3>1, <3>2
    <2>3. ~Preflighted(r) /\ Allowed(r) /\ "health" \in Plainly
        BY <2>2 DEF Preflighted, Allowed, Plainly
    <2>4. u \in Locals /\ Clean(u, r) /\ u.allow
        BY AllowOf
    <2>5. status \in Nat \ {0, 401, 429}
        OBVIOUS
    <2> HIDE DEF u, status
    <2>6. Response(u, status, "health") = Expected(r)
        BY <1>1, <2>2, <2>3, <2>4, <2>5, CleanAnswer
    <2> QED BY <2>6 DEF u, status
<1> QED BY <1>2, <1>3

LEMMA ResolveOf ==
    ASSUME NEW r, NEW s \in Locals, Clean(s, r), ~s.allow
    PROVE  LET u == Resolve(s, r) IN
           /\ u \in Locals /\ Clean(u, r)
           /\ u.allow <=> /\ HasRoute(r) \/ r.path = "other"
                          /\ ~HasRoute(r) \/ r.method = "OPTIONS"
<1>1. CASE HasRoute(r) /\ r.method # "OPTIONS"
    BY <1>1 DEF Resolve
<1>2. CASE ~(HasRoute(r) /\ r.method # "OPTIONS")
    <2> DEFINE b == HasRoute(r) \/ r.path = "other"
    <2>1. b \in BOOLEAN
        OBVIOUS
    <2>2. Resolve(s, r) = [s EXCEPT !.allow = b]
        BY <1>2 DEF Resolve
    <2>3. LET u == [s EXCEPT !.allow = b] IN u \in Locals /\ Clean(u, r) /\ (u.allow <=> b)
        <3> HIDE DEF b
        <3> QED BY <2>1, AllowOf
    <2> QED BY <1>2, <2>2, <2>3
<1> QED BY <1>1, <1>2

LEMMA PreflightAnswer ==
    ASSUME NEW r, Received(r), r.path # "health", NEW s \in Locals, Clean(s, r), ~s.allow,
           IsPreflight(Resolve(s, r), r)
    PROVE  LET p == Preflight(Resolve(s, r), r)
           IN  Response(p.locals, p.status, "preflight") = Expected(r)
<1> DEFINE q == Resolve(s, r)
<1>1. /\ q \in Locals /\ Clean(q, r)
      /\ q.allow <=> /\ HasRoute(r) \/ r.path = "other"
                     /\ ~HasRoute(r) \/ r.method = "OPTIONS"
    BY ResolveOf
<1>2. IsPreflight(q, r)
    OBVIOUS
<1> HIDE DEF q
<1>3. /\ Cors /\ r.method = "OPTIONS" /\ r.ask # "none" /\ r.read = 1
      /\ q.allow <=> r.path \notin {"none", "invalid"}
    BY <1>1, <1>2 DEF IsPreflight, Clean, Received, Request, HasRoute
<1> DEFINE status == IF r.ask = "bad" THEN 400
                     ELSE IF ~q.origin \/ ~q.allow \/ r.ask = "denied" THEN 403
                     ELSE 204
           u == [q EXCEPT !.preflight = TRUE, !.origin = @ /\ status = 204,
                          !.requested = status = 204 /\ r.ask = "headers"]
<1>4. q.origin <=> r.origin = "listed"
    BY <1>1, <1>3 DEF Clean
<1>5. RuleOf(r).status = status /\ RuleOf(r).why = "preflight"
    <2>1. Passed(r, 7)
        BY PassesUrl, PassesHealth DEF Received
    <2>2. CASE r.ask = "bad"
        <3>1. Rules(r)[8].when /\ Rules(r)[8].status = 400 /\ Rules(r)[8].why = "preflight"
            BY <1>3, <2>2 DEF Rules
        <3>2. Passed(r, 8 - 1)
            BY <2>1
        <3> QED BY <2>2, <3>1, <3>2, FirstRule
    <2>3. CASE r.ask # "bad" /\ (~q.origin \/ ~q.allow \/ r.ask = "denied")
        <3>1. ~Rules(r)[8].when
            BY <2>3 DEF Rules
        <3>2. Rules(r)[9].when /\ Rules(r)[9].status = 403 /\ Rules(r)[9].why = "preflight"
            <4>1. r.origin # "listed" \/ r.ask = "denied" \/ r.path \in {"none", "invalid"}
                BY <1>3, <1>4, <2>3
            <4> QED BY <1>3, <4>1 DEF Rules
        <3>3. \A j \in 1..(9 - 1) : j \in 1..7 \/ j = 8
            OBVIOUS
        <3>4. Passed(r, 9 - 1)
            BY <2>1, <3>1, <3>3 DEF Passed
        <3> QED BY <2>3, <3>2, <3>4, FirstRule
    <2>4. CASE r.ask # "bad" /\ ~(~q.origin \/ ~q.allow \/ r.ask = "denied")
        <3>1. ~Rules(r)[8].when
            BY <2>4 DEF Rules
        <3>2. ~Rules(r)[9].when
            <4>1. ~(r.origin # "listed" \/ r.ask = "denied" \/ r.path \in {"none", "invalid"})
                BY <1>3, <1>4, <2>4
            <4> QED BY <1>3, <4>1 DEF Rules
        <3>3. Rules(r)[10].when /\ Rules(r)[10].status = 204 /\ Rules(r)[10].why = "preflight"
            BY <1>3 DEF Rules
        <3>4. \A j \in 1..(10 - 1) : j \in 1..7 \/ j = 8 \/ j = 9
            OBVIOUS
        <3>5. Passed(r, 10 - 1)
            BY <2>1, <3>1, <3>2, <3>4 DEF Passed
        <3> QED BY <2>4, <3>3, <3>5, FirstRule
    <2> QED BY <2>2, <2>3, <2>4
<1>6. status \in Nat /\ status # 0 /\ status # 401 /\ status # 429
    OBVIOUS
<1>7. Preflight(q, r).locals = u /\ Preflight(q, r).status = status
    BY DEF Preflight
<1>8. u \in Locals
    BY <1>1, <1>7, Preflights
<1>9. /\ u.failed = 0 /\ u.headers = {}
      /\ (u.head <=> r.method = "HEAD") /\ u.cors /\ (u.allow <=> q.allow)
      /\ u.preflight /\ (u.origin <=> r.origin = "listed" /\ status = 204)
      /\ u.requested <=> status = 204 /\ r.ask = "headers"
    BY <1>1, <1>3, <1>4 DEF Clean, Locals
<1>10. status = 204 => r.origin = "listed"
    BY <1>4
<1> HIDE DEF u, status
<1>11. Allowed(r) <=> q.allow
    BY <1>1, <1>3, <1>5 DEF Allowed, HasRoute
<1>12. Flags(u, r)
    BY <1>3, <1>5, <1>9, <1>10, <1>11 DEF Flags, Named, Preflighted
<1>13. "preflight" \in Plainly
    BY DEF Plainly
<1>14. u.headers = (IF status = 429 THEN {"Retry-After"} ELSE {})
    BY <1>6, <1>9
<1>15. Response(u, status, "preflight") = Expected(r)
    BY <1>5, <1>6, <1>8, <1>9, <1>12, <1>13, <1>14, PlainAnswer
<1> QED BY <1>7, <1>15 DEF q

(* The request is not a preflight.                                         *)
Asks(r) == Cors /\ r.method = "OPTIONS" /\ r.ask # "none"

LEMMA PassesPreflight ==
    ASSUME NEW r, Received(r), r.path # "health", ~Asks(r)
    PROVE  Passed(r, 10)
<1>1. Passed(r, 7)
    BY PassesUrl, PassesHealth DEF Received
<1>2. ~Rules(r)[8].when
    BY DEF Rules, Asks
<1>3. ~Rules(r)[9].when
    BY DEF Rules, Asks
<1>4. ~Rules(r)[10].when
    BY DEF Rules, Asks
<1>5. \A j \in 1..10 : j \in 1..7 \/ j = 8 \/ j = 9 \/ j = 10
    OBVIOUS
<1> QED BY <1>1, <1>2, <1>3, <1>4, <1>5 DEF Passed

LEMMA UnroutedAnswers ==
    ASSUME NEW r, Received(r), r.path # "health", ~HasRoute(r), NEW s \in Locals,
           Clean(s, r), ~s.allow, ~IsPreflight(Resolve(s, r), r)
    PROVE  LET u == Resolve(s, r) IN
           /\ Reads(r) /\ r.memory /\ r.file
                  => Response([u EXCEPT !.allow = FALSE], 200, "file") = Expected(r)
           /\ ~(Reads(r) /\ r.memory /\ r.file)
                  => Response(u, IF r.path = "invalid" THEN 400
                                 ELSE IF r.path = "none" THEN 404
                                 ELSE IF r.method = "OPTIONS" THEN 204 ELSE 405, "route")
                         = Expected(r)
<1> DEFINE u == Resolve(s, r)
<1>1. u \in Locals /\ Clean(u, r) /\ (u.allow <=> r.path = "other")
    BY ResolveOf
<1>2. ~Asks(r)
    BY <1>1 DEF IsPreflight, Asks, Clean
<1>3. Passed(r, 10) /\ r.read = 1
    BY <1>2, PassesPreflight DEF Received
<1> HIDE DEF u
<1>4. ASSUME Reads(r), r.memory, r.file
      PROVE  Response([u EXCEPT !.allow = FALSE], 200, "file") = Expected(r)
    <2> DEFINE v == [u EXCEPT !.allow = FALSE]
    <2>1. Rules(r)[11].when /\ Rules(r)[11].status = 200 /\ Rules(r)[11].why = "file"
        BY <1>4 DEF Rules
    <2>2. Passed(r, 11 - 1)
        BY <1>3
    <2>3. RuleOf(r).status = 200 /\ RuleOf(r).why = "file"
        BY <2>1, <2>2, FirstRule
    <2>4. ~Preflighted(r) /\ ~Allowed(r) /\ "file" \in Plainly
        BY <2>3 DEF Preflighted, Allowed, Plainly
    <2>5. v \in Locals /\ Clean(v, r) /\ ~v.allow
        BY <1>1, AllowOf
    <2> HIDE DEF v
    <2>6. Response(v, 200, "file") = Expected(r)
        BY <1>3, <2>3, <2>4, <2>5, CleanAnswer
    <2> QED BY <2>6 DEF v
<1>5. ASSUME ~(Reads(r) /\ r.memory /\ r.file)
      PROVE  Response(u, IF r.path = "invalid" THEN 400
                         ELSE IF r.path = "none" THEN 404
                         ELSE IF r.method = "OPTIONS" THEN 204 ELSE 405, "route")
                 = Expected(r)
    <2> DEFINE status == IF r.path = "invalid" THEN 400
                         ELSE IF r.path = "none" THEN 404
                         ELSE IF r.method = "OPTIONS" THEN 204 ELSE 405
    <2>1. Passed(r, 11)
        <3>1. ~Rules(r)[11].when
            BY <1>5 DEF Rules
        <3>2. \A j \in 1..11 : j \in 1..10 \/ j = 11
            OBVIOUS
        <3> QED BY <1>3, <3>1, <3>2 DEF Passed
    <2>2. r.path \in {"invalid", "none", "other"}
        BY DEF Received, Request, HasRoute
    <2>3. RuleOf(r).status = status /\ RuleOf(r).why = "route"
        <3>1. CASE r.path = "invalid"
            <4>1. Rules(r)[12].when /\ Rules(r)[12].status = 400 /\ Rules(r)[12].why = "route"
                BY <3>1, Zenon DEF Rules
            <4>2. Passed(r, 12 - 1)
                BY <2>1
            <4> QED BY <3>1, <4>1, <4>2, FirstRule
        <3>2. CASE r.path = "none"
            <4>1. ~Rules(r)[12].when
                BY <3>2 DEF Rules
            <4>2. Rules(r)[13].when /\ Rules(r)[13].status = 404 /\ Rules(r)[13].why = "route"
                BY <3>2 DEF Rules
            <4>3. \A j \in 1..(13 - 1) : j \in 1..11 \/ j = 12
                OBVIOUS
            <4>4. Passed(r, 13 - 1)
                BY <2>1, <4>1, <4>3 DEF Passed
            <4> QED BY <3>2, <4>2, <4>4, FirstRule
        <3>3. CASE r.path = "other"
            <4>1. ~Rules(r)[12].when
                BY <3>3 DEF Rules
            <4>2. ~Rules(r)[13].when
                BY <3>3 DEF Rules
            <4>3. \A j \in 1..13 : j \in 1..11 \/ j = 12 \/ j = 13
                OBVIOUS
            <4>4. Passed(r, 13)
                BY <2>1, <4>1, <4>2, <4>3 DEF Passed
            <4>5. CASE r.method = "OPTIONS"
                <5>1. Rules(r)[14].when /\ Rules(r)[14].status = 204 /\ Rules(r)[14].why = "route"
                    BY <3>3, <4>5, Zenon DEF Rules
                <5>2. Passed(r, 14 - 1)
                    BY <4>4
                <5> QED BY <3>3, <4>5, <5>1, <5>2, FirstRule
            <4>6. CASE r.method # "OPTIONS"
                <5>1. ~Rules(r)[14].when
                    BY <4>6 DEF Rules
                <5>2. Rules(r)[15].when /\ Rules(r)[15].status = 405 /\ Rules(r)[15].why = "route"
                    BY <3>3, Zenon DEF Rules
                <5>3. \A j \in 1..(15 - 1) : j \in 1..13 \/ j = 14
                    OBVIOUS
                <5>4. Passed(r, 15 - 1)
                    BY <4>4, <5>1, <5>3 DEF Passed
                <5> QED BY <3>3, <4>6, <5>2, <5>4, FirstRule
            <4> QED BY <4>5, <4>6
        <3> QED BY <2>2, <3>1, <3>2, <3>3
    <2>4. ~Preflighted(r) /\ (Allowed(r) <=> r.path = "other") /\ "route" \in Plainly
        BY <2>3 DEF Preflighted, Allowed, Plainly
    <2>5. status \in Nat \ {0, 401, 429}
        OBVIOUS
    <2> HIDE DEF status
    <2>6. Response(u, status, "route") = Expected(r)
        BY <1>1, <1>3, <2>3, <2>4, <2>5, CleanAnswer
    <2> QED BY <2>6 DEF status
<1> QED BY <1>4, <1>5 DEF u

(* A request on its route, up to the wrapper.                              *)
Settled(s, r) == s \in Locals /\ Clean(s, r) /\ (s.allow <=> r.method = "OPTIONS")

OnItsRoute(r) == Received(r) /\ HasRoute(r) /\ ~Asks(r)

LEMMA RoutedIs ==
    ASSUME t \in Locals, Unbound(t), n \in 0..MaxRequests, Clean(t, req), ~t.allow,
           OnRoute, Received(req)
    PROVE  /\ Settled(Routed, req) /\ Settled(Prepared, req)
           /\ Settled(FailReset(Prepared), req) /\ OnItsRoute(req)
<1>1. HasRoute(req) /\ ~IsPreflight(Resolve(t, req), req)
    BY DEF OnRoute
<1> DEFINE s == Resolve(t, req)
<1>2. s \in Locals /\ Clean(s, req) /\ (s.allow <=> req.method = "OPTIONS")
    BY <1>1, ResolveOf
<1>3. ~Asks(req)
    BY <1>1, <1>2 DEF IsPreflight, Asks, Clean
<1> HIDE DEF s
<1>4. Settled(Routed, req)
    <2>1. CASE req.method = "OPTIONS"
        <3>1. Routed = s
            BY <2>1 DEF Routed, s
        <3> QED BY <1>2, <3>1 DEF Settled
    <2>2. CASE req.method # "OPTIONS"
        <3> DEFINE u == [s EXCEPT !.allow = FALSE]
        <3>1. Routed = u
            BY <2>2 DEF Routed, s
        <3>2. u \in Locals /\ Clean(u, req) /\ ~u.allow
            BY <1>2, AllowOf
        <3> HIDE DEF u
        <3> QED BY <2>2, <3>1, <3>2 DEF Settled
    <2> QED BY <2>1, <2>2
<1> DEFINE q == Routed
           p == [q EXCEPT !.request = n, !.arena = TRUE]
<1>5. Prepared = p /\ p \in Locals
    BY RoutedLocals DEF Prepared
<1> HIDE DEF q
<1>6. q \in Locals /\ Clean(q, req) /\ (q.allow <=> req.method = "OPTIONS")
    BY <1>4 DEF Settled, q
<1>7. Clean(p, req) /\ (p.allow <=> req.method = "OPTIONS")
    BY <1>6 DEF Clean, Locals
<1> HIDE DEF p
<1>8. FailReset(p) \in Locals
    BY <1>5, FailResets
<1>9. Clean(FailReset(p), req) /\ (FailReset(p).allow <=> req.method = "OPTIONS")
    BY <1>5, <1>7 DEF FailReset, BodyReset, Clean, Locals
<1> QED BY <1>1, <1>3, <1>4, <1>5, <1>7, <1>8, <1>9 DEF Settled, OnItsRoute

LEMMA PassesRoute ==
    ASSUME NEW r, OnItsRoute(r)
    PROVE  Passed(r, 15)
<1>1. Passed(r, 10) /\ HasRoute(r)
    BY PassesPreflight DEF OnItsRoute, HasRoute
<1>2. ~Rules(r)[11].when
    BY <1>1 DEF Rules
<1>3. r.path # "invalid" /\ r.path # "none" /\ r.path # "other"
    BY <1>1 DEF HasRoute
<1>4. ~Rules(r)[12].when
    BY <1>3 DEF Rules
<1>5. ~Rules(r)[13].when
    BY <1>3 DEF Rules
<1>6. ~Rules(r)[14].when
    BY <1>3 DEF Rules
<1>7. ~Rules(r)[15].when
    BY <1>3 DEF Rules
<1>8. \A j \in 1..15 : j \in 1..10 \/ j \in {11, 12, 13, 14, 15}
    OBVIOUS
<1> QED BY <1>1, <1>2, <1>4, <1>5, <1>6, <1>7, <1>8 DEF Passed

LEMMA RouteAllows ==
    ASSUME NEW r, OnItsRoute(r), RuleOf(r).why \notin {"read", "limit", "health", "preflight"}
    PROVE  ~Preflighted(r) /\ (Allowed(r) <=> r.method = "OPTIONS") /\ r.read = 1
BY DEF OnItsRoute, Received, Preflighted, Allowed, HasRoute

LEMMA QueryAnswer ==
    ASSUME NEW r, OnItsRoute(r), ~r.query, NEW s, Settled(s, r)
    PROVE  Response(s, 400, "query") = Expected(r)
<1>1. Rules(r)[16].when /\ Rules(r)[16].status = 400 /\ Rules(r)[16].why = "query"
    BY DEF Rules
<1>2. Passed(r, 16 - 1)
    BY PassesRoute
<1>3. RuleOf(r).status = 400 /\ RuleOf(r).why = "query"
    BY <1>1, <1>2, FirstRule
<1>4. "query" \in Plainly
    BY DEF Plainly
<1> QED BY <1>3, <1>4, RouteAllows, CleanAnswer DEF Settled

LEMMA MemoryAnswer ==
    ASSUME NEW r, OnItsRoute(r), r.query, ~r.memory, NEW s, Settled(s, r)
    PROVE  Response(s, 503, "memory") = Expected(r)
<1>1. Rules(r)[17].when /\ Rules(r)[17].status = 503 /\ Rules(r)[17].why = "memory"
    BY DEF Rules
<1>2. ~Rules(r)[16].when
    BY DEF Rules
<1>3. \A j \in 1..(17 - 1) : j \in 1..15 \/ j = 16
    OBVIOUS
<1>4. Passed(r, 17 - 1)
    BY <1>2, <1>3, PassesRoute DEF Passed
<1>5. RuleOf(r).status = 503 /\ RuleOf(r).why = "memory"
    BY <1>1, <1>4, FirstRule
<1>6. "memory" \in Plainly
    BY DEF Plainly
<1> QED BY <1>5, <1>6, RouteAllows, CleanAnswer DEF Settled

LEMMA PassesMemory ==
    ASSUME NEW r, OnItsRoute(r), r.query, r.memory
    PROVE  Passed(r, 17)
<1>1. ~Rules(r)[16].when
    BY DEF Rules
<1>2. ~Rules(r)[17].when
    BY DEF Rules
<1>3. \A j \in 1..17 : j \in 1..15 \/ j = 16 \/ j = 17
    OBVIOUS
<1> QED BY <1>1, <1>2, <1>3, PassesRoute DEF Passed

(* An answer that a failure of the request writes.                         *)
LEMMA FailedAnswer ==
    ASSUME NEW r, NEW s \in Locals, Flags(s, r), NEW why, NEW status \in Nat, status >= 400,
           s.failed = status, RuleOf(r).status = status, RuleOf(r).why = s.why,
           s.code = Expected(r).code, s.errors = Expected(r).errors,
           s.truncated = Expected(r).truncated,
           s.headers \ {"Location"} = Expected(r).headers
    PROVE  Response(s, status, why) = Expected(r)
<1> DEFINE x == Response(s, status, why)
<1>1. status >= 400 /\ s.failed = status
    OBVIOUS
<1>2. /\ x.code = s.code /\ x.why = s.why /\ x.errors = s.errors
      /\ x.headers = s.headers \ {"Location"}
    BY <1>1 DEF Response
<1>3. x.truncated = s.truncated
    <2>1. x.truncated = ((status >= 400 /\ s.failed = status) /\ s.truncated)
        BY DEF Response
    <2>2. s.truncated \in BOOLEAN
        BY DEF Locals
    <2> HIDE DEF x
    <2> QED BY <1>1, <2>1, <2>2
<1>4. Expected(r).why = s.why
    BY DEF Expected
<1> HIDE DEF x
<1> QED BY <1>2, <1>3, <1>4, Matches DEF x

Need(r) == IF r.path = "openapi" THEN OpenapiNeeds(r) ELSE r.needs

(* auth_gate refuses.                                                      *)
LEMMA GateAnswers ==
    ASSUME NEW r, OnItsRoute(r), r.query, r.memory, NEW s, Settled(s, r), s.user = r.token,
           AuthGate(s, Need(r)).failed # 0, NEW why
    PROVE  LET g == AuthGate(s, Need(r)) IN
           /\ Response(g, g.failed, why) = Expected(r)
           /\ r.path = "openapi" => g.failed = 401
<1> DEFINE g == AuthGate(s, Need(r))
<1>1. s \in Locals /\ Clean(s, r) /\ (s.allow <=> r.method = "OPTIONS") /\ r \in Request
    BY DEF Settled, OnItsRoute, Received
<1>2. Need(r) \in {"public", "any", "user", "admin"} /\ (r.path = "openapi" => Need(r) \in {"public", "any"})
    BY <1>1 DEF Need, OpenapiNeeds, Request
<1>3. g \in Locals
    BY <1>1, <1>2, Gates
<1>4. Need(r) # "public"
    BY <1>1 DEF AuthGate, Clean
<1>5. CASE s.user = "none"
    <2> DEFINE h == Header(s, "WWW-Authenticate")
    <2>0. h \in Locals /\ h.failed = 0 /\ h.headers = {"WWW-Authenticate"}
        <3>1. "WWW-Authenticate" \in Headers
            BY DEF Headers
        <3>2. h \in Locals /\ h.failed = 0
            BY <1>1, <3>1, HeaderSets DEF Clean
        <3>3. h.headers = {"WWW-Authenticate"}
            BY <1>1 DEF Header, Clean, Locals
        <3> QED BY <3>2, <3>3
    <2>1. g = [h EXCEPT !.failed = 401, !.code = "none", !.why = "authentication"]
        BY <1>4, <1>5, <2>0 DEF AuthGate, Fail
    <2>2. /\ ~h.truncated /\ h.errors = 0 /\ ~h.preflight
          /\ (h.head <=> r.method = "HEAD") /\ (h.cors <=> Cors)
          /\ (h.origin <=> Cors /\ r.origin = "listed") /\ (h.allow <=> r.method = "OPTIONS")
        BY <1>1 DEF Header, Clean, Locals
    <2> HIDE DEF h
    <2>3. /\ g.failed = 401 /\ g.code = "none" /\ g.why = "authentication"
          /\ g.headers = {"WWW-Authenticate"} /\ g.errors = 0 /\ ~g.truncated /\ ~g.preflight
          /\ (g.head <=> r.method = "HEAD") /\ (g.cors <=> Cors)
          /\ (g.origin <=> Cors /\ r.origin = "listed") /\ (g.allow <=> r.method = "OPTIONS")
        BY <2>0, <2>1, <2>2 DEF Locals
    <2>4. Rules(r)[18].when /\ Rules(r)[18].status = 401 /\ Rules(r)[18].why = "authentication"
        BY <1>4, <1>5 DEF Rules, Need
    <2>5. Passed(r, 18 - 1)
        BY PassesMemory
    <2>6. RuleOf(r).status = 401 /\ RuleOf(r).why = "authentication"
        BY <2>4, <2>5, FirstRule
    <2> HIDE DEF g
    <2>7. ~Preflighted(r) /\ (Allowed(r) <=> r.method = "OPTIONS") /\ r.read = 1
        BY <2>6, RouteAllows
    <2>8. Flags(g, r)
        BY <2>3, <2>7, FlagsOf
    <2>9. /\ Expected(r).code = "none" /\ Expected(r).errors = 0
          /\ Expected(r).truncated = FALSE
          /\ Expected(r).headers = {"WWW-Authenticate"}
        <3>1. Expected(r).code = "none" /\ Expected(r).errors = 0
            BY <2>6 DEF Expected
        <3>2. Expected(r).truncated = FALSE
            BY <2>6 DEF Expected
        <3>3. Expected(r).headers = {"WWW-Authenticate"}
            BY <2>6 DEF Expected
        <3> QED BY <3>1, <3>2, <3>3
    <2>10. g.truncated = Expected(r).truncated
        <3>1. g.truncated \in BOOLEAN
            BY <1>3 DEF Locals
        <3> QED BY <2>3, <2>9, <3>1
    <2>11. g.headers \ {"Location"} = Expected(r).headers
        BY <2>3, <2>9
    <2>12. 401 \in Nat /\ 401 >= 400 /\ g.code = Expected(r).code /\ g.errors = Expected(r).errors
        BY <2>3, <2>9
    <2>13. Response(g, 401, why) = Expected(r)
        BY <1>3, <2>3, <2>6, <2>8, <2>10, <2>11, <2>12, FailedAnswer
    <2> QED BY <2>3, <2>13 DEF g
<1>6. CASE s.user # "none"
    <2>1. Need(r) # "any" /\ s.user # Need(r)
        BY <1>1, <1>4, <1>6 DEF AuthGate, Clean
    <2>2. g = [s EXCEPT !.failed = 403, !.code = "none", !.why = "permission"]
        BY <1>1, <1>6, <2>1 DEF AuthGate, Fail, Clean
    <2>3. /\ g.failed = 403 /\ g.code = "none" /\ g.why = "permission"
          /\ g.headers = {} /\ g.errors = 0 /\ ~g.truncated /\ ~g.preflight
          /\ (g.head <=> r.method = "HEAD") /\ (g.cors <=> Cors)
          /\ (g.origin <=> Cors /\ r.origin = "listed") /\ (g.allow <=> r.method = "OPTIONS")
        BY <1>1, <2>2 DEF Locals, Clean
    <2>4. Rules(r)[19].when /\ Rules(r)[19].status = 403 /\ Rules(r)[19].why = "permission"
        BY <1>4, <2>1 DEF Rules, Need, Meets
    <2>5. ~Rules(r)[18].when
        BY <1>6 DEF Rules
    <2>6. \A j \in 1..(19 - 1) : j \in 1..17 \/ j = 18
        OBVIOUS
    <2>7. Passed(r, 19 - 1)
        BY <2>5, <2>6, PassesMemory DEF Passed
    <2>8. RuleOf(r).status = 403 /\ RuleOf(r).why = "permission"
        BY <2>4, <2>7, FirstRule
    <2> HIDE DEF g
    <2>9. ~Preflighted(r) /\ (Allowed(r) <=> r.method = "OPTIONS") /\ r.read = 1
        BY <2>8, RouteAllows
    <2>10. Flags(g, r)
        BY <2>3, <2>9, FlagsOf
    <2>11. Expected(r).code = "none" /\ Expected(r).errors = 0
        BY <2>8 DEF Expected
    <2>12. g.truncated = Expected(r).truncated
        <3>1. Expected(r).truncated = FALSE
            BY <2>8 DEF Expected
        <3>2. g.truncated \in BOOLEAN
            BY <1>3 DEF Locals
        <3> QED BY <2>3, <3>1, <3>2
    <2>13. g.headers \ {"Location"} = Expected(r).headers
        <3>1. Expected(r).headers = {}
            BY <2>8 DEF Expected
        <3> QED BY <2>3, <3>1
    <2>14. 403 \in Nat /\ 403 >= 400 /\ g.code = Expected(r).code /\ g.errors = Expected(r).errors
        BY <2>3, <2>11
    <2>15. Response(g, 403, why) = Expected(r)
        BY <1>3, <2>3, <2>8, <2>10, <2>12, <2>13, <2>14, FailedAnswer
    <2>16. r.path # "openapi"
        BY <1>2, <1>4, <2>1
    <2> QED BY <2>3, <2>15, <2>16 DEF g
<1> QED BY <1>5, <1>6

-----------------------------------------------------------------------------
(* The calls of a handler, the first k of the sequence q.                  *)

Did(q, k, a) == \E j \in 1..k : q[j] = a

Harmless(q, k) == \A j \in 1..k : q[j] \notin {"fail", "field", "invalid"}

FirstIs(q, k, a) == \E j \in 1..k : q[j] = a /\ Harmless(q, j - 1)

FieldsOf(q, k) == Cardinality({j \in 1..k : q[j] = "field"})

LEMMA DidNext ==
    ASSUME NEW q, NEW k \in Nat, NEW a
    PROVE  Did(q, k + 1, a) <=> Did(q, k, a) \/ q[k + 1] = a
<1>1. 1..(k + 1) = (1..k) \cup {k + 1}
    OBVIOUS
<1> QED BY <1>1 DEF Did

LEMMA HarmlessNext ==
    ASSUME NEW q, NEW k \in Nat
    PROVE  Harmless(q, k + 1) <=> Harmless(q, k) /\ q[k + 1] \notin {"fail", "field", "invalid"}
<1>1. 1..(k + 1) = (1..k) \cup {k + 1}
    OBVIOUS
<1> QED BY <1>1 DEF Harmless

LEMMA FirstStays ==
    ASSUME NEW q, NEW k \in Nat, NEW a, FirstIs(q, k, a)
    PROVE  FirstIs(q, k + 1, a)
<1>1. 1..k \subseteq 1..(k + 1)
    OBVIOUS
<1> QED BY <1>1 DEF FirstIs

LEMMA FirstNow ==
    ASSUME NEW q, NEW k \in Nat, NEW a, q[k + 1] = a, Harmless(q, k)
    PROVE  FirstIs(q, k + 1, a)
<1>1. k + 1 \in 1..(k + 1) /\ (k + 1) - 1 = k
    OBVIOUS
<1> QED BY <1>1 DEF FirstIs

LEMMA FieldsNext ==
    ASSUME NEW q, NEW k \in Nat
    PROVE  /\ FieldsOf(q, k) \in Nat
           /\ q[k + 1] = "field" => FieldsOf(q, k + 1) = FieldsOf(q, k) + 1
           /\ q[k + 1] # "field" => FieldsOf(q, k + 1) = FieldsOf(q, k)
           /\ Harmless(q, k) => FieldsOf(q, k) = 0
<1> DEFINE F == {j \in 1..k : q[j] = "field"}
           G == {j \in 1..(k + 1) : q[j] = "field"}
<1>1. IsFiniteSet(F) /\ Cardinality(F) \in Nat
    <2>1. IsFiniteSet(1..k)
        BY FS_Interval
    <2>2. F \subseteq 1..k
        OBVIOUS
    <2>3. IsFiniteSet(F)
        BY <2>1, <2>2, FS_Subset
    <2> QED BY <2>3, FS_CardinalityType
<1>2. 1..(k + 1) = (1..k) \cup {k + 1} /\ k + 1 \notin 1..k
    OBVIOUS
<1>3. CASE q[k + 1] = "field"
    <2>1. G = F \cup {k + 1} /\ k + 1 \notin F
        BY <1>2, <1>3
    <2> HIDE DEF F, G
    <2>2. Cardinality(G) = Cardinality(F) + 1
        BY <1>1, <2>1, FS_AddElement
    <2>3. ~Harmless(q, k) \/ F = {}
        BY DEF Harmless, F
    <2> QED BY <1>1, <1>3, <2>2, <2>3, FS_EmptySet DEF FieldsOf, F, G
<1>4. CASE q[k + 1] # "field"
    <2>1. G = F
        BY <1>2, <1>4
    <2>2. ~Harmless(q, k) \/ F = {}
        BY DEF Harmless
    <2> HIDE DEF F, G
    <2> QED BY <1>1, <1>4, <2>1, <2>2, FS_EmptySet DEF FieldsOf, F, G
<1> QED BY <1>3, <1>4

(* What the calls have left in the thread-local variables.                 *)
Wrote(s, q, k) ==
    /\ s.headers \subseteq {"X", "Location", "Key", "Own"}
    /\ "X" \in s.headers <=> Did(q, k, "header")
    /\ "Location" \in s.headers <=> Did(q, k, "location")
    /\ "Key" \in s.headers <=> Did(q, k, "key") /\ Did(q, k, "bind")
    /\ "Own" \in s.headers <=> Did(q, k, "request")

Chose(s, q, k) == s.override = IF Did(q, k, "status") THEN 201 ELSE 0

Reports(s, failed, code, why) == s.failed = failed /\ s.code = code /\ s.why = why

NoFields(s) == s.errors = 0 /\ ~s.truncated

Fields(s, c) ==
    /\ s.errors = (IF c > MaxFields THEN MaxFields ELSE c)
    /\ s.truncated <=> c > MaxFields

Verdict(s, q, k) ==
    \/ Harmless(q, k) /\ Reports(s, 0, "none", "none") /\ NoFields(s)
    \/ FirstIs(q, k, "fail") /\ Reports(s, 409, "none", "fail") /\ NoFields(s)
    \/ FirstIs(q, k, "invalid") /\ Reports(s, 400, "invalid_json", "json") /\ NoFields(s)
    \/ /\ FirstIs(q, k, "field") /\ Reports(s, 400, "validation_failed", "validation")
       /\ Fields(s, FieldsOf(q, k))

Holds(s, q, k) == s.body # 0 <=> Did(q, k, "bind")

Marked(s, r) ==
    /\ s.head <=> r.method = "HEAD"
    /\ s.cors <=> Cors
    /\ s.origin <=> Cors /\ r.origin = "listed"
    /\ s.allow <=> r.method = "OPTIONS"
    /\ ~s.preflight

Progress(s, q, k, r) ==
    /\ s \in Locals /\ Marked(s, r) /\ s.request # 0
    /\ Wrote(s, q, k) /\ Chose(s, q, k) /\ Verdict(s, q, k) /\ Holds(s, q, k)

SameMarks(u, s) ==
    /\ u.head = s.head /\ u.cors = s.cors /\ u.origin = s.origin /\ u.allow = s.allow
    /\ u.preflight = s.preflight /\ u.request = s.request

SameReport(u, s) ==
    /\ u.failed = s.failed /\ u.code = s.code /\ u.why = s.why
    /\ u.errors = s.errors /\ u.truncated = s.truncated

LEMMA VerdictStays ==
    ASSUME NEW q, NEW k \in Nat, NEW s, NEW u, Verdict(s, q, k), SameReport(u, s),
           q[k + 1] \notin {"fail", "field", "invalid"}
    PROVE  Verdict(u, q, k + 1)
<1>1. Harmless(q, k) => Harmless(q, k + 1)
    BY HarmlessNext
<1>2. \A a : FirstIs(q, k, a) => FirstIs(q, k + 1, a)
    BY FirstStays
<1>3. FieldsOf(q, k + 1) = FieldsOf(q, k)
    BY FieldsNext
<1>4. \A f, c, w : Reports(s, f, c, w) => Reports(u, f, c, w)
    BY DEF Reports, SameReport
<1>5. NoFields(s) => NoFields(u)
    BY DEF NoFields, SameReport
<1>6. \A c : Fields(s, c) => Fields(u, c)
    BY DEF Fields, SameReport
<1> QED BY <1>1, <1>2, <1>3, <1>4, <1>5, <1>6 DEF Verdict

(* request_fail: the first failure stays.                                  *)
LEMMA VerdictFails ==
    ASSUME NEW q, NEW k \in Nat, NEW s \in Locals, Verdict(s, q, k),
           NEW status, NEW code, NEW why, NEW a,
           \/ a = "fail" /\ status = 409 /\ code = "none" /\ why = "fail"
           \/ a = "invalid" /\ status = 400 /\ code = "invalid_json" /\ why = "json",
           q[k + 1] = a
    PROVE  Verdict(Fail(s, status, code, why), q, k + 1)
<1> DEFINE u == Fail(s, status, code, why)
<1>1. CASE s.failed = 0
    <2>1. Harmless(q, k) /\ NoFields(s)
        BY <1>1 DEF Verdict, Reports
    <2>2. FirstIs(q, k + 1, a)
        BY <2>1, FirstNow
    <2>3. u = [s EXCEPT !.failed = status, !.code = code, !.why = why]
        BY <1>1 DEF Fail
    <2>4. Reports(u, status, code, why)
        BY <2>3 DEF Reports, Locals
    <2>5. NoFields(u)
        BY <2>1, <2>3 DEF NoFields, Locals
    <2> HIDE DEF u
    <2>6. Verdict(u, q, k + 1)
        BY <2>2, <2>4, <2>5 DEF Verdict
    <2> QED BY <2>6 DEF u
<1>2. CASE s.failed # 0
    <2>1. u = s
        BY <1>2 DEF Fail
    <2>2. \A x : FirstIs(q, k, x) => FirstIs(q, k + 1, x)
        BY FirstStays
    <2>3. FieldsOf(q, k + 1) = FieldsOf(q, k)
        BY FieldsNext
    <2>4. ~Reports(s, 0, "none", "none")
        BY <1>2 DEF Reports
    <2>5. Verdict(s, q, k + 1)
        BY <2>2, <2>3, <2>4 DEF Verdict
    <2> QED BY <2>1, <2>5
<1> QED BY <1>1, <1>2

(* field_error_add counts the fields of a request whose first failure is a *)
(* field, up to ERROR_FIELDS_MAX.                                          *)
LEMMA VerdictField ==
    ASSUME NEW q, NEW k \in Nat, NEW s \in Locals, Verdict(s, q, k), q[k + 1] = "field"
    PROVE  Verdict(FieldErrorAdd(s), q, k + 1)
<1> DEFINE c == FieldsOf(q, k)
           f == Fail(s, 400, "validation_failed", "validation")
           u == FieldErrorAdd(s)
<1>1. c \in Nat /\ FieldsOf(q, k + 1) = c + 1 /\ (Harmless(q, k) => c = 0)
    BY FieldsNext
<1>2. MaxFields \in Nat /\ MaxFields # 0
    BY ServingAssumption
<1>3. CASE FirstIs(q, k, "fail") /\ Reports(s, 409, "none", "fail") /\ NoFields(s)
    <2>1. u = s
        BY <1>3 DEF Reports, FieldErrorAdd
    <2>2. FirstIs(q, k + 1, "fail")
        BY <1>3, FirstStays
    <2> QED BY <1>3, <2>1, <2>2 DEF Verdict
<1>4. CASE FirstIs(q, k, "invalid") /\ Reports(s, 400, "invalid_json", "json") /\ NoFields(s)
    <2>1. u = s
        BY <1>4 DEF Reports, FieldErrorAdd
    <2>2. FirstIs(q, k + 1, "invalid")
        BY <1>4, FirstStays
    <2> QED BY <1>4, <2>1, <2>2 DEF Verdict
<1>5. ASSUME FirstIs(q, k + 1, "field"), Reports(f, 400, "validation_failed", "validation"),
             Fields(f, c), f \in Locals, s.failed = 0 \/ s.code = "validation_failed"
      PROVE  Verdict(u, q, k + 1)
    <2> HIDE DEF c
    <2>1. u = IF f.errors >= MaxFields THEN [f EXCEPT !.truncated = TRUE]
              ELSE [f EXCEPT !.errors = @ + 1]
        BY <1>5 DEF FieldErrorAdd
    <2> HIDE DEF f
    <2>2. f.errors \in Nat
        BY <1>5 DEF Locals
    <2>3. CASE f.errors >= MaxFields
        <3>1. u = [f EXCEPT !.truncated = TRUE]
            BY <2>1, <2>3
        <3>2. Reports(u, 400, "validation_failed", "validation")
            BY <1>5, <3>1 DEF Reports, Locals
        <3>3. u.errors = f.errors /\ u.truncated
            BY <1>5, <3>1 DEF Locals
        <3>4. f.errors = MaxFields /\ c + 1 > MaxFields
            BY <1>1, <1>2, <1>5, <2>2, <2>3 DEF Fields
        <3>5. Fields(u, c + 1)
            BY <3>3, <3>4 DEF Fields
        <3> HIDE DEF u
        <3> QED BY <1>1, <1>5, <3>2, <3>5 DEF Verdict, c
    <2>4. CASE ~(f.errors >= MaxFields)
        <3>1. u = [f EXCEPT !.errors = f.errors + 1]
            BY <2>1, <2>4
        <3>2. Reports(u, 400, "validation_failed", "validation")
            BY <1>5, <3>1 DEF Reports, Locals
        <3>3. u.errors = f.errors + 1 /\ u.truncated = f.truncated
            BY <1>5, <3>1 DEF Locals
        <3>4. f.errors = c /\ c < MaxFields /\ ~f.truncated
            BY <1>1, <1>2, <1>5, <2>2, <2>4 DEF Fields
        <3>5. ~(c + 1 > MaxFields)
            BY <1>1, <1>2, <3>4
        <3>6. Fields(u, c + 1)
            BY <3>3, <3>4, <3>5 DEF Fields
        <3> HIDE DEF u
        <3> QED BY <1>1, <1>5, <3>2, <3>6 DEF Verdict, c
    <2> QED BY <2>3, <2>4
<1>6. CASE Harmless(q, k) /\ Reports(s, 0, "none", "none") /\ NoFields(s)
    <2>1. FirstIs(q, k + 1, "field")
        BY <1>6, FirstNow
    <2>2. f = [s EXCEPT !.failed = 400, !.code = "validation_failed", !.why = "validation"]
        BY <1>6 DEF Reports, Fail
    <2> HIDE DEF f, c
    <2>3. Reports(f, 400, "validation_failed", "validation")
        BY <2>2 DEF Reports, Locals
    <2>4. f.errors = 0 /\ ~f.truncated
        BY <1>6, <2>2 DEF NoFields, Locals
    <2>5. Fields(f, c)
        <3>1. c = 0 /\ ~(c > MaxFields)
            BY <1>1, <1>2, <1>6
        <3> QED BY <2>4, <3>1 DEF Fields
    <2>6. f \in Locals
        <3>1. 400 \in Statuses /\ "validation_failed" \in Codes /\ "validation" \in Reasons
            BY DEF Statuses, Codes, Reasons
        <3> QED BY <3>1, Fails DEF f
    <2>7. s.failed = 0
        BY <1>6 DEF Reports
    <2> QED BY <1>5, <2>1, <2>3, <2>5, <2>6, <2>7
<1>7. CASE /\ FirstIs(q, k, "field") /\ Reports(s, 400, "validation_failed", "validation")
           /\ Fields(s, c)
    <2>1. FirstIs(q, k + 1, "field")
        BY <1>7, FirstStays
    <2>2. f = s
        BY <1>7 DEF Reports, Fail
    <2>3. s.code = "validation_failed"
        BY <1>7 DEF Reports
    <2> HIDE DEF f, c
    <2> QED BY <1>5, <1>7, <2>1, <2>2, <2>3
<1> QED BY <1>3, <1>4, <1>6, <1>7 DEF Verdict

LEMMA MarksStay ==
    ASSUME NEW r, NEW s, NEW u, Marked(s, r), s.request # 0, SameMarks(u, s)
    PROVE  Marked(u, r) /\ u.request # 0
BY DEF Marked, SameMarks

LEMMA HeaderStep ==
    ASSUME NEW s \in Locals, NEW h \in Headers
    PROVE  LET u == Header(s, h) IN
           /\ u \in Locals /\ SameMarks(u, s) /\ SameReport(u, s)
           /\ u.headers = s.headers \cup {h} /\ u.override = s.override /\ u.body = s.body
<1>1. Header(s, h) \in Locals
    BY HeaderSets
<1> QED BY <1>1 DEF Header, Locals, SameMarks, SameReport

LEMMA FailStep ==
    ASSUME NEW s \in Locals, NEW status, NEW code, NEW why
    PROVE  LET u == Fail(s, status, code, why) IN
           /\ SameMarks(u, s)
           /\ u.headers = s.headers /\ u.override = s.override /\ u.body = s.body
<1>1. CASE s.failed # 0
    BY <1>1 DEF Fail, SameMarks
<1>2. CASE s.failed = 0
    <2> DEFINE u == [s EXCEPT !.failed = status, !.code = code, !.why = why]
    <2>1. /\ SameMarks(u, s)
          /\ u.headers = s.headers /\ u.override = s.override /\ u.body = s.body
        BY DEF SameMarks, Locals
    <2> QED BY <1>2, <2>1 DEF Fail
<1> QED BY <1>1, <1>2

LEMMA FieldStep ==
    ASSUME NEW s \in Locals
    PROVE  LET u == FieldErrorAdd(s) IN
           /\ SameMarks(u, s)
           /\ u.headers = s.headers /\ u.override = s.override /\ u.body = s.body
<1> DEFINE f == Fail(s, 400, "validation_failed", "validation")
           u == FieldErrorAdd(s)
<1>1. f \in Locals
    <2>1. 400 \in Statuses /\ "validation_failed" \in Codes /\ "validation" \in Reasons
        BY DEF Statuses, Codes, Reasons
    <2> QED BY <2>1, Fails
<1>2. /\ SameMarks(f, s)
      /\ f.headers = s.headers /\ f.override = s.override /\ f.body = s.body
    BY FailStep
<1>3. u = s \/ u = [f EXCEPT !.truncated = TRUE] \/ u = [f EXCEPT !.errors = f.errors + 1]
    BY DEF FieldErrorAdd
<1> HIDE DEF f
<1>4. CASE u = s
    BY <1>4 DEF SameMarks
<1>5. CASE u = [f EXCEPT !.truncated = TRUE]
    <2> HIDE DEF u
    <2>1. /\ SameMarks(u, f)
          /\ u.headers = f.headers /\ u.override = f.override /\ u.body = f.body
        BY <1>1, <1>5 DEF SameMarks, Locals
    <2>2. /\ SameMarks(u, s)
          /\ u.headers = s.headers /\ u.override = s.override /\ u.body = s.body
        BY <1>2, <2>1 DEF SameMarks
    <2> QED BY <2>2 DEF u
<1>6. CASE u = [f EXCEPT !.errors = f.errors + 1]
    <2> HIDE DEF u
    <2>1. /\ SameMarks(u, f)
          /\ u.headers = f.headers /\ u.override = f.override /\ u.body = f.body
        BY <1>1, <1>6 DEF SameMarks, Locals
    <2>2. /\ SameMarks(u, s)
          /\ u.headers = s.headers /\ u.override = s.override /\ u.body = s.body
        BY <1>2, <2>1 DEF SameMarks
    <2> QED BY <2>2 DEF u
<1> QED BY <1>3, <1>4, <1>5, <1>6

(* One call of the handler.                                                *)
LEMMA DoStep ==
    ASSUME n \in 0..MaxRequests, n # 0, NEW q, NEW k \in Nat, NEW s, NEW r,
           Progress(s, q, k, r), s.request = n, s.body \in {0, n},
           q[k + 1] \in (Acts \cup {"invalid", "bind"}) \ {"raise"},
           q[k + 1] = "bind" => k = 0
    PROVE  Progress(Do(s, q[k + 1]), q, k + 1, r)
<1> DEFINE a == q[k + 1]
           u == Do(s, a)
<1>1. /\ s \in Locals /\ Marked(s, r) /\ s.request # 0
      /\ Wrote(s, q, k) /\ Chose(s, q, k) /\ Verdict(s, q, k) /\ Holds(s, q, k)
    BY DEF Progress
<1>2. u \in Locals
    BY <1>1, Does
<1>3. \A x : Did(q, k + 1, x) <=> Did(q, k, x) \/ a = x
    BY DidNext
<1>4. k = 0 => \A x : ~Did(q, k, x)
    BY DEF Did
<1>5. a = "bind" => k = 0
    OBVIOUS
<1>6. a \notin {"fail", "field", "invalid"} /\ SameReport(u, s) => Verdict(u, q, k + 1)
    BY <1>1, VerdictStays
<1>7. SameMarks(u, s) => Marked(u, r) /\ u.request # 0
    BY <1>1, MarksStay
<1>8. ASSUME SameMarks(u, s), Verdict(u, q, k + 1),
             a \notin {"header", "location", "key", "request", "status", "bind"},
             u.headers = s.headers, u.override = s.override, u.body = s.body
      PROVE  Progress(u, q, k + 1, r)
    <2> HIDE DEF u, a
    <2>1. Wrote(u, q, k + 1)
        BY <1>1, <1>3, <1>8 DEF Wrote
    <2>2. Chose(u, q, k + 1)
        BY <1>1, <1>3, <1>8 DEF Chose
    <2>3. Holds(u, q, k + 1)
        BY <1>1, <1>3, <1>8 DEF Holds
    <2> QED BY <1>2, <1>7, <1>8, <2>1, <2>2, <2>3 DEF Progress
<1>9. ASSUME NEW h \in {"X", "Location", "Key", "Own"}, u = Header(s, h),
             h = "X" => a = "header", h = "Location" => a = "location",
             h = "Key" => a = "key" /\ Did(q, k, "bind"), h = "Own" => a = "request"
      PROVE  Progress(u, q, k + 1, r)
    <2>1. h \in Headers
        BY DEF Headers
    <2>2. /\ SameMarks(u, s) /\ SameReport(u, s)
          /\ u.headers = s.headers \cup {h} /\ u.override = s.override /\ u.body = s.body
        BY <1>1, <1>9, <2>1, HeaderStep
    <2>3. /\ a \notin {"fail", "field", "invalid", "status", "bind"}
        BY <1>9
    <2> HIDE DEF u, a
    <2>4. Wrote(u, q, k + 1)
        BY <1>1, <1>3, <1>9, <2>2, <2>3 DEF Wrote
    <2>5. Chose(u, q, k + 1)
        BY <1>1, <1>3, <2>2, <2>3 DEF Chose
    <2>6. Holds(u, q, k + 1)
        BY <1>1, <1>3, <2>2, <2>3 DEF Holds
    <2> QED BY <1>2, <1>6, <1>7, <2>2, <2>3, <2>4, <2>5, <2>6 DEF Progress
<1>10. CASE a = "header"
    <2>1. u = Header(s, "X")
        BY <1>10 DEF Do
    <2> QED BY <1>9, <1>10, <2>1
<1>11. CASE a = "location"
    <2>1. u = Header(s, "Location")
        BY <1>11 DEF Do
    <2> QED BY <1>9, <1>11, <2>1
<1>12. CASE a = "request"
    <2>1. u = Header(s, "Own")
        BY <1>12 DEF Do
    <2> QED BY <1>9, <1>12, <2>1
<1>13. CASE a = "key" /\ s.body # 0
    <2>1. u = Header(s, "Key")
        BY <1>13 DEF Do
    <2>2. Did(q, k, "bind")
        BY <1>1, <1>13 DEF Holds
    <2> QED BY <1>9, <1>13, <2>1, <2>2
<1>14. CASE a = "key" /\ s.body = 0
    <2>1. u = s
        BY <1>14 DEF Do
    <2>2. ~Did(q, k, "bind")
        BY <1>1, <1>14 DEF Holds
    <2>3. SameMarks(u, s) /\ SameReport(u, s)
        BY <2>1 DEF SameMarks, SameReport
    <2> HIDE DEF u, a
    <2>4. Wrote(s, q, k + 1)
        BY <1>1, <1>3, <1>14, <2>2 DEF Wrote
    <2>5. Chose(s, q, k + 1)
        BY <1>1, <1>3, <1>14 DEF Chose
    <2>6. Holds(s, q, k + 1)
        BY <1>1, <1>3, <1>14 DEF Holds
    <2>7. Verdict(u, q, k + 1)
        BY <1>6, <1>14, <2>3
    <2>8. Progress(u, q, k + 1, r)
        BY <1>1, <2>1, <2>4, <2>5, <2>6, <2>7 DEF Progress
    <2> QED BY <2>8 DEF u, a
<1>15. CASE a = "status"
    <2>1. u = [s EXCEPT !.override = 201]
        BY <1>15 DEF Do
    <2> HIDE DEF u, a
    <2>2. SameMarks(u, s) /\ SameReport(u, s)
        BY <1>1, <2>1 DEF SameMarks, SameReport, Locals
    <2>3. u.headers = s.headers /\ u.override = 201 /\ u.body = s.body
        BY <1>1, <2>1 DEF Locals
    <2>4. Wrote(u, q, k + 1)
        BY <1>1, <1>3, <1>15, <2>3 DEF Wrote
    <2>5. Chose(u, q, k + 1)
        BY <1>3, <1>15, <2>3 DEF Chose
    <2>6. Holds(u, q, k + 1)
        BY <1>1, <1>3, <1>15, <2>3 DEF Holds
    <2>7. Verdict(u, q, k + 1)
        BY <1>6, <1>15, <2>2
    <2>8. Progress(u, q, k + 1, r)
        BY <1>2, <1>7, <2>2, <2>4, <2>5, <2>6, <2>7 DEF Progress
    <2> QED BY <2>8 DEF u, a
<1>16. CASE a = "bind"
    <2>1. u = [s EXCEPT !.body = n]
        BY <1>16 DEF Do
    <2> HIDE DEF u, a
    <2>2. SameMarks(u, s) /\ SameReport(u, s)
        BY <1>1, <2>1 DEF SameMarks, SameReport, Locals
    <2>3. u.headers = s.headers /\ u.override = s.override /\ u.body = n
        BY <1>1, <2>1 DEF Locals
    <2>4. \A x : Did(q, k + 1, x) <=> x = "bind"
        BY <1>3, <1>4, <1>5, <1>16
    <2>5. \A x : ~Did(q, k, x)
        BY <1>4, <1>5, <1>16
    <2>6. Wrote(u, q, k + 1)
        BY <1>1, <2>3, <2>4, <2>5 DEF Wrote
    <2>7. Chose(u, q, k + 1)
        BY <1>1, <2>3, <2>4, <2>5 DEF Chose
    <2>8. Holds(u, q, k + 1)
        BY <2>3, <2>4 DEF Holds
    <2>9. Verdict(u, q, k + 1)
        BY <1>6, <1>16, <2>2
    <2>10. Progress(u, q, k + 1, r)
        BY <1>2, <1>7, <2>2, <2>6, <2>7, <2>8, <2>9 DEF Progress
    <2> QED BY <2>10 DEF u, a
<1>17. CASE a = "fail"
    <2>1. u = Fail(s, 409, "none", "fail")
        BY <1>17 DEF Do
    <2>2. Verdict(u, q, k + 1)
        BY <1>1, <1>17, <2>1, VerdictFails
    <2>3. /\ SameMarks(u, s)
          /\ u.headers = s.headers /\ u.override = s.override /\ u.body = s.body
        BY <1>1, <2>1, FailStep
    <2> QED BY <1>8, <1>17, <2>2, <2>3
<1>18. CASE a = "invalid"
    <2>1. u = Fail(s, 400, "invalid_json", "json")
        BY <1>18 DEF Do
    <2>2. Verdict(u, q, k + 1)
        BY <1>1, <1>18, <2>1, VerdictFails
    <2>3. /\ SameMarks(u, s)
          /\ u.headers = s.headers /\ u.override = s.override /\ u.body = s.body
        BY <1>1, <2>1, FailStep
    <2> QED BY <1>8, <1>18, <2>2, <2>3
<1>19. CASE a = "field"
    <2>1. u = FieldErrorAdd(s)
        BY <1>19 DEF Do
    <2>2. Verdict(u, q, k + 1)
        BY <1>1, <1>19, <2>1, VerdictField
    <2>3. /\ SameMarks(u, s)
          /\ u.headers = s.headers /\ u.override = s.override /\ u.body = s.body
        BY <1>1, <2>1, FieldStep
    <2> QED BY <1>8, <1>19, <2>2, <2>3
<1>20. a \in {"header", "location", "request", "key", "status", "bind", "fail", "invalid", "field"}
    BY DEF Acts
<1> QED BY <1>10, <1>11, <1>12, <1>13, <1>14, <1>15, <1>16, <1>17, <1>18, <1>19, <1>20

-----------------------------------------------------------------------------
(* The calls of the wrapper and of its handler.                            *)

Steps == Acts \cup {"invalid", "bind", "refuse"}

Script(r) == BodyActs(r) \o r.acts

(* The wrapper calls the handler.                                          *)
Entered(r) == r.body = "none" \/ (r.body = "json" /\ r.bad = 0)

LEMMA BodyOfNone ==
    ASSUME NEW r, r.body = "none"
    PROVE  BodyActs(r) \in Seq(Steps) /\ Len(BodyActs(r)) = 0
<1>1. BodyActs(r) = <<>>
    BY DEF BodyActs
<1> QED BY <1>1

LEMMA BodyOfJson ==
    ASSUME NEW r, r.body = "json", r.bad = 0
    PROVE  BodyActs(r) \in Seq(Steps) /\ Len(BodyActs(r)) = 1 /\ BodyActs(r)[1] = "bind"
<1>1. BodyActs(r) = <<"bind">> /\ "bind" \in Steps
    BY DEF BodyActs, Steps
<1> QED BY <1>1

LEMMA BodyOfBroken ==
    ASSUME NEW r, r.body = "broken"
    PROVE  /\ BodyActs(r) \in Seq(Steps) /\ Len(BodyActs(r)) = 2
           /\ BodyActs(r)[1] = "invalid" /\ BodyActs(r)[2] = "refuse"
<1>1. BodyActs(r) = <<"invalid", "refuse">> /\ "invalid" \in Steps /\ "refuse" \in Steps
    BY DEF BodyActs, Steps
<1> QED BY <1>1

LEMMA BodyOfParam ==
    ASSUME NEW r, r.body = "param"
    PROVE  BodyActs(r) \in Seq(Steps) /\ Len(BodyActs(r)) = 1 /\ BodyActs(r)[1] = "refuse"
<1>1. BodyActs(r) = <<"refuse">> /\ "refuse" \in Steps
    BY DEF BodyActs, Steps
<1> QED BY <1>1

LEMMA BodyOfFields ==
    ASSUME NEW r, r.body = "json", r.bad \in Nat, r.bad # 0
    PROVE  /\ BodyActs(r) \in Seq(Steps) /\ Len(BodyActs(r)) = r.bad + 1
           /\ \A j \in 1..r.bad : BodyActs(r)[j] = "field"
           /\ BodyActs(r)[r.bad + 1] = "refuse"
<1> DEFINE f == [i \in 1..r.bad |-> "field"]
           g == <<"refuse">>
<1>1. BodyActs(r) = f \o g
    BY DEF BodyActs
<1>2. f \in Seq(Steps) /\ Len(f) = r.bad /\ \A j \in 1..r.bad : f[j] = "field"
    <2>1. "field" \in Steps
        BY DEF Steps, Acts
    <2>2. f \in Seq(Steps) /\ Len(f) = r.bad
        BY <2>1, IsASeq
    <2>3. \A j \in 1..r.bad : f[j] = "field"
        BY Zenon
    <2> HIDE DEF f
    <2> QED BY <2>2, <2>3
<1>3. g \in Seq(Steps) /\ Len(g) = 1 /\ g[1] = "refuse"
    BY DEF Steps
<1> HIDE DEF f, g
<1>4. /\ f \o g \in Seq(Steps) /\ Len(f \o g) = r.bad + 1
      /\ \A i \in 1..(r.bad + 1) : (f \o g)[i] = IF i <= r.bad THEN f[i] ELSE g[i - r.bad]
    <2>1. f \in Seq(Steps) /\ g \in Seq(Steps)
        BY <1>2, <1>3
    <2>2. /\ f \o g \in Seq(Steps) /\ Len(f \o g) = Len(f) + Len(g)
          /\ \A i \in 1..(Len(f) + Len(g)) :
                 (f \o g)[i] = IF i <= Len(f) THEN f[i] ELSE g[i - Len(f)]
        BY <2>1, ConcatProperties, Zenon
    <2>3. Len(f) = r.bad /\ Len(g) = 1
        BY <1>2, <1>3
    <2> QED BY <2>2, <2>3, Zenon
<1>5. (f \o g)[r.bad + 1] = "refuse"
    <2>1. r.bad + 1 \in 1..(r.bad + 1) /\ ~(r.bad + 1 <= r.bad) /\ (r.bad + 1) - r.bad = 1
        OBVIOUS
    <2> QED BY <1>3, <1>4, <2>1
<1>6. \A j \in 1..r.bad : (f \o g)[j] = "field"
    <2>1. \A j \in 1..r.bad : j \in 1..(r.bad + 1) /\ j <= r.bad
        OBVIOUS
    <2> QED BY <1>2, <1>4, <2>1
<1> QED BY <1>1, <1>4, <1>5, <1>6

LEMMA ScriptIs ==
    ASSUME NEW r \in Request
    PROVE  LET b == Len(BodyActs(r)) IN
           /\ Script(r) \in Seq(Steps) /\ b \in Nat /\ r.acts \in Seq(Acts) /\ Len(r.acts) \in Nat
           /\ Len(Script(r)) = b + Len(r.acts)
           /\ \A j \in 1..b : Script(r)[j] = BodyActs(r)[j]
           /\ \A j \in 1..Len(r.acts) : Script(r)[b + j] = r.acts[j]
<1> DEFINE b == Len(BodyActs(r))
           c == Len(r.acts)
<1>1. r.acts \in Seq(Acts) /\ r.bad \in Nat /\ r.body \in {"none", "json", "broken", "param"}
    BY DEF Request
<1>2. BodyActs(r) \in Seq(Steps)
    BY <1>1, BodyOfNone, BodyOfJson, BodyOfBroken, BodyOfParam, BodyOfFields
<1>3. r.acts \in Seq(Steps)
    <2>1. Acts \subseteq Steps
        BY DEF Steps
    <2> QED BY <1>1, <2>1
<1>4. b \in Nat /\ c \in Nat
    BY <1>2, <1>3, LenProperties
<1>5. /\ Script(r) \in Seq(Steps) /\ Len(Script(r)) = b + c
      /\ \A i \in 1..(b + c) : Script(r)[i] = IF i <= b THEN BodyActs(r)[i] ELSE r.acts[i - b]
    BY <1>2, <1>3, ConcatProperties DEF Script
<1> HIDE DEF b, c
<1>6. \A j \in 1..b : j \in 1..(b + c) /\ j <= b
    BY <1>4
<1>7. \A j \in 1..c : b + j \in 1..(b + c) /\ ~(b + j <= b) /\ (b + j) - b = j
    BY <1>4
<1>8. \A j \in 1..b : Script(r)[j] = BodyActs(r)[j]
    BY <1>5, <1>6
<1>9. \A j \in 1..c : Script(r)[b + j] = r.acts[j]
    BY <1>5, <1>7
<1> QED BY <1>1, <1>4, <1>5, <1>8, <1>9 DEF b, c

-----------------------------------------------------------------------------
(* The end of the handler.                                                 *)

(* What serve_request answers when dispatch_route has returned.            *)
Landing(s, result, r) ==
    /\ s.failed # 0 => Response(s, s.failed, "none") = Expected(r)
    /\ s.failed = 0 /\ result = -2 => Response(s, 400, "parameter") = Expected(r)
    /\ s.failed = 0 /\ result = -1 => Response(s, 500, "large") = Expected(r)
    /\ s.failed = 0 /\ result = 0 =>
           Response(s, IF s.override # 0 THEN s.override ELSE 200, "result") = Expected(r)

LEMMA EscapeOff ==
    ASSUME NEW s \in Locals, NEW result, NEW r, Landing(s, result, r)
    PROVE  Landing([s EXCEPT !.escape = FALSE], result, r)
<1> DEFINE u == [s EXCEPT !.escape = FALSE]
<1>1. /\ u.failed = s.failed /\ u.override = s.override /\ u.code = s.code /\ u.why = s.why
      /\ u.errors = s.errors /\ u.truncated = s.truncated /\ u.headers = s.headers
      /\ u.allow = s.allow /\ u.cors = s.cors /\ u.preflight = s.preflight
      /\ u.origin = s.origin /\ u.requested = s.requested /\ u.head = s.head
    BY DEF Locals
<1> HIDE DEF u
<1>2. ASSUME NEW status, NEW why PROVE Response(u, status, why) = Response(s, status, why)
    BY <1>1, SMT DEF Response
<1>3. Landing(u, result, r)
    BY <1>1, <1>2 DEF Landing
<1> QED BY <1>3 DEF u

(* The request has passed auth_gate.                                       *)
Admitted(r) ==
    OnItsRoute(r) /\ r.query /\ r.memory /\ Meets(r.token, Need(r))

LEMMA PassesGate ==
    ASSUME NEW r, Admitted(r)
    PROVE  Passed(r, 19)
<1>1. Passed(r, 17) /\ Meets(r.token, Need(r))
    BY PassesMemory DEF Admitted
<1>0. Need(r) \in {"public", "any", "user", "admin"}
    BY DEF Admitted, OnItsRoute, Received, Need, OpenapiNeeds, Request
<1>2. ~(Need(r) # "public" /\ r.token = "none")
    BY <1>0, <1>1 DEF Meets
<1>3. ~Rules(r)[18].when
    BY <1>2 DEF Rules, Need
<1>4. ~Rules(r)[19].when
    BY <1>1 DEF Rules, Need
<1>5. \A j \in 1..19 : j \in 1..17 \/ j = 18 \/ j = 19
    OBVIOUS
<1> QED BY <1>1, <1>3, <1>4, <1>5 DEF Passed

LEMMA HandlerFlags ==
    ASSUME NEW r, OnItsRoute(r), NEW s, Marked(s, r),
           RuleOf(r).why \notin {"read", "limit", "health", "preflight"}
    PROVE  Flags(s, r)
<1>1. ~Preflighted(r) /\ (Allowed(r) <=> r.method = "OPTIONS") /\ r.read = 1
    BY RouteAllows
<1> QED BY <1>1, FlagsOf DEF Marked

(* The wrapper refuses a body that is no JSON.                             *)
LEMMA BrokenLands ==
    ASSUME NEW r, Admitted(r), r.body = "broken", NEW s, NEW q, q[1] = "invalid",
           Progress(s, q, 1, r), NEW result
    PROVE  Landing(s, result, r)
<1>1. s \in Locals /\ Marked(s, r) /\ Wrote(s, q, 1) /\ Verdict(s, q, 1)
    BY DEF Progress
<1>2. RuleOf(r).status = 400 /\ RuleOf(r).why = "json"
    <2>1. Rules(r)[20].when /\ Rules(r)[20].status = 400 /\ Rules(r)[20].why = "json"
        BY DEF Rules
    <2>2. Passed(r, 20 - 1)
        BY PassesGate
    <2> QED BY <2>1, <2>2, FirstRule
<1>3. \A x : Did(q, 1, x) => x = "invalid"
    BY DEF Did
<1>4. ~Harmless(q, 1) /\ \A x : FirstIs(q, 1, x) => x = "invalid"
    BY DEF Harmless, FirstIs
<1>5. /\ s.failed = 400 /\ s.code = "invalid_json" /\ s.why = "json" /\ s.errors = 0
      /\ ~s.truncated /\ s.headers = {}
    <2>1. Reports(s, 400, "invalid_json", "json") /\ NoFields(s)
        BY <1>1, <1>4 DEF Verdict
    <2>2. s.headers = {}
        BY <1>1, <1>3 DEF Wrote
    <2> QED BY <2>1, <2>2 DEF Reports, NoFields
<1>6. Flags(s, r)
    BY <1>1, <1>2, HandlerFlags DEF Admitted
<1>7. Expected(r).code = "invalid_json" /\ Expected(r).errors = 0
    BY <1>2 DEF Expected
<1>8. s.truncated = Expected(r).truncated
    <2>1. Expected(r).truncated = FALSE
        BY <1>2 DEF Expected
    <2>2. s.truncated \in BOOLEAN
        BY <1>1 DEF Locals
    <2> QED BY <1>5, <2>1, <2>2
<1>9. s.headers \ {"Location"} = Expected(r).headers
    <2>1. Expected(r).headers = {}
        BY <1>2 DEF Expected
    <2> QED BY <1>5, <2>1
<1>10. 400 \in Nat /\ 400 >= 400 /\ s.code = Expected(r).code /\ s.errors = Expected(r).errors
    BY <1>5, <1>7
<1>11. Response(s, 400, "none") = Expected(r)
    BY <1>1, <1>2, <1>5, <1>6, <1>8, <1>9, <1>10, FailedAnswer
<1>12. s.failed # 0 /\ s.failed = 400
    BY <1>5
<1> QED BY <1>11, <1>12 DEF Landing

(* The wrapper refuses a parameter.                                        *)
LEMMA ParamLands ==
    ASSUME NEW r, Admitted(r), r.body = "param", NEW s, NEW q, Progress(s, q, 0, r)
    PROVE  Landing(s, -2, r)
<1>1. s \in Locals /\ Marked(s, r) /\ Wrote(s, q, 0) /\ Verdict(s, q, 0)
    BY DEF Progress
<1>2. RuleOf(r).status = 400 /\ RuleOf(r).why = "parameter"
    <2>1. Rules(r)[21].when /\ Rules(r)[21].status = 400 /\ Rules(r)[21].why = "parameter"
        BY Zenon DEF Rules
    <2>2. ~Rules(r)[20].when
        BY DEF Rules
    <2>3. \A j \in 1..(21 - 1) : j \in 1..19 \/ j = 20
        OBVIOUS
    <2>4. Passed(r, 21 - 1)
        BY <2>2, <2>3, PassesGate DEF Passed
    <2> QED BY <2>1, <2>4, FirstRule
<1>3. \A x : ~Did(q, 0, x) /\ ~FirstIs(q, 0, x)
    BY DEF Did, FirstIs
<1>4. s.failed = 0
    BY <1>1, <1>3 DEF Verdict, Reports
<1>5. s.headers = {}
    BY <1>1, <1>3 DEF Wrote
<1>6. Flags(s, r)
    BY <1>1, <1>2, HandlerFlags DEF Admitted
<1>7. "parameter" \in Plainly
    BY DEF Plainly
<1>8. 400 \in Nat /\ 400 # 0 /\ 400 # 401 /\ 400 # 429
    OBVIOUS
<1>9. s.headers = (IF 400 = 429 THEN {"Retry-After"} ELSE {})
    BY <1>5, <1>8
<1>10. Response(s, 400, "parameter") = Expected(r)
    BY <1>1, <1>2, <1>4, <1>6, <1>7, <1>8, <1>9, PlainAnswer
<1>11. -2 # -1 /\ -2 # 0
    OBVIOUS
<1> QED BY <1>4, <1>10, <1>11 DEF Landing

(* The wrapper refuses the fields of a body.                               *)
LEMMA FieldsLand ==
    ASSUME NEW r, Admitted(r), r.body = "json", r.bad \in Nat, r.bad # 0, NEW s, NEW q,
           \A j \in 1..r.bad : q[j] = "field", Progress(s, q, r.bad, r), NEW result
    PROVE  Landing(s, result, r)
<1> DEFINE c == r.bad
<1>0. c \in Nat /\ c # 0 /\ (\A j \in 1..c : q[j] = "field") /\ Progress(s, q, c, r)
    OBVIOUS
<1>1. s \in Locals /\ Marked(s, r) /\ Wrote(s, q, c) /\ Verdict(s, q, c)
    BY DEF Progress
<1>2. BadFields(r) = c /\ c > 0
    BY DEF BadFields
<1>3. RuleOf(r).status = 400 /\ RuleOf(r).why = "validation"
    <2>1. Rules(r)[22].when /\ Rules(r)[22].status = 400 /\ Rules(r)[22].why = "validation"
        BY <1>2 DEF Rules
    <2>2. ~Rules(r)[20].when
        BY DEF Rules
    <2>3. ~Rules(r)[21].when
        BY DEF Rules
    <2>4. \A j \in 1..(22 - 1) : j \in 1..19 \/ j = 20 \/ j = 21
        OBVIOUS
    <2>5. Passed(r, 22 - 1)
        BY <2>2, <2>3, <2>4, PassesGate DEF Passed
    <2> QED BY <2>1, <2>5, FirstRule
<1>4. FieldErrors(r) = c
    BY <1>2 DEF FieldErrors
<1>5. FieldsOf(q, c) = c
    <2>1. {j \in 1..c : q[j] = "field"} = 1..c
        BY <1>0
    <2>2. Cardinality(1..c) = c
        BY <1>0, FS_Interval
    <2> QED BY <2>1, <2>2 DEF FieldsOf
<1> HIDE DEF c
<1>6. \A x : Did(q, c, x) => x = "field"
    BY <1>0 DEF Did
<1>7. ~Harmless(q, c) /\ \A x : FirstIs(q, c, x) => x = "field"
    BY <1>0 DEF Harmless, FirstIs
<1>8. Reports(s, 400, "validation_failed", "validation") /\ Fields(s, c)
    BY <1>1, <1>5, <1>7 DEF Verdict
<1>9. s.headers = {}
    BY <1>1, <1>6 DEF Wrote
<1>10. /\ s.failed = 400 /\ s.code = "validation_failed" /\ s.why = "validation"
       /\ s.errors = (IF c > MaxFields THEN MaxFields ELSE c) /\ (s.truncated <=> c > MaxFields)
    BY <1>8 DEF Reports, Fields
<1>11. Flags(s, r)
    BY <1>1, <1>3, HandlerFlags DEF Admitted
<1>12. /\ Expected(r).code = "validation_failed"
       /\ Expected(r).errors = (IF c > MaxFields THEN MaxFields ELSE c)
    BY <1>3, <1>4 DEF Expected
<1>13. s.truncated = Expected(r).truncated
    <2>1. Expected(r).truncated = (c > MaxFields)
        BY <1>3, <1>4 DEF Expected
    <2>2. s.truncated \in BOOLEAN
        BY <1>1 DEF Locals
    <2> QED BY <1>10, <2>1, <2>2
<1>14. s.headers \ {"Location"} = Expected(r).headers
    <2>1. Expected(r).headers = {}
        BY <1>0, <1>2, <1>3 DEF Expected
    <2> QED BY <1>9, <2>1
<1>15. 400 \in Nat /\ 400 >= 400 /\ s.code = Expected(r).code /\ s.errors = Expected(r).errors
    BY <1>10, <1>12
<1>16. Response(s, 400, "none") = Expected(r)
    BY <1>1, <1>3, <1>10, <1>11, <1>13, <1>14, <1>15, FailedAnswer
<1>17. s.failed # 0 /\ s.failed = 400
    BY <1>10
<1> QED BY <1>16, <1>17 DEF Landing

(* The first i calls of a handler are the ones that it makes before it     *)
(* throws or returns.                                                      *)
Covered(r, i) ==
    /\ i \in 0..Len(r.acts) /\ \A j \in 1..i : r.acts[j] # "raise"
    /\ i = Len(r.acts) \/ r.acts[i + 1] = "raise"

Among(e, i, a) == \E j \in 1..i : e[j] = a

Sound(e, i) == \A j \in 1..i : e[j] \notin {"fail", "field", "raise"}

FirstAmong(e, i, a) == \E j \in 1..i : e[j] = a /\ Sound(e, j - 1)

LEMMA CoveredIs ==
    ASSUME NEW r \in Request, NEW i, Covered(r, i)
    PROVE  /\ \A a : a # "raise" => (Calls(r, a) <=> Among(r.acts, i, a))
           /\ \A a : a # "raise" => (FailsBy(r, a) <=> FirstAmong(r.acts, i, a))
           /\ FailsBy(r, "raise") <=> i # Len(r.acts) /\ Sound(r.acts, i)
           /\ {j \in Ran(r) : r.acts[j] = "field"} = {j \in 1..i : r.acts[j] = "field"}
<1> DEFINE e == r.acts
           c == Len(r.acts)
<1>1. DOMAIN e = 1..c /\ c \in Nat
    <2>1. e \in Seq(Acts)
        BY DEF Request
    <2> QED BY <2>1, LenProperties
<1>2. /\ i \in 0..c /\ i \in Nat /\ (\A j \in 1..i : e[j] # "raise")
      /\ i = c \/ e[i + 1] = "raise"
    BY <1>1 DEF Covered
<1> HIDE DEF e, c
<1>3. ASSUME NEW j \in 1..c
      PROVE  j \in 1..i \/ (j = i + 1 /\ e[j] = "raise") \/ (i + 1 \in 1..(j - 1) /\ e[i + 1] = "raise")
    BY <1>1, <1>2
<1>4. Ran(r) = {j \in 1..c : \A m \in 1..(j - 1) : e[m] # "raise"}
    BY <1>1 DEF Ran, e
<1>5. ASSUME NEW j \in Ran(r), e[j] # "raise" PROVE j \in 1..i
    BY <1>3, <1>4, <1>5
<1>6. ASSUME NEW j \in 1..i PROVE j \in Ran(r)
    <2>1. j \in 1..c /\ \A m \in 1..(j - 1) : m \in 1..i
        BY <1>1, <1>2
    <2> QED BY <1>2, <1>4, <2>1
<1>7. \A a : a # "raise" => (Calls(r, a) <=> Among(e, i, a))
    BY <1>5, <1>6 DEF Calls, Among, e
<1>8. ASSUME NEW a
      PROVE  FailsBy(r, a) <=> \E j \in 1..c : e[j] = a /\ Sound(e, j - 1)
    BY <1>1 DEF FailsBy, Sound, e
<1>9. ASSUME NEW j \in 1..c, Sound(e, j - 1) PROVE j \in 1..i \/ (j = i + 1 /\ e[j] = "raise")
    BY <1>3, <1>9 DEF Sound
<1>10. \A j \in 1..i : j \in 1..c
    BY <1>1, <1>2
<1>11. \A a : a # "raise" => (FailsBy(r, a) <=> FirstAmong(e, i, a))
    BY <1>8, <1>9, <1>10 DEF FirstAmong
<1>12. FailsBy(r, "raise") <=> i # c /\ Sound(e, i)
    <2>1. ASSUME FailsBy(r, "raise") PROVE i # c /\ Sound(e, i)
        <3>1. PICK j \in 1..c : e[j] = "raise" /\ Sound(e, j - 1)
            BY <1>8, <2>1
        <3>2. j = i + 1
            BY <1>2, <1>9, <3>1
        <3>3. j - 1 = i /\ i # c
            BY <1>1, <1>2, <3>2
        <3> QED BY <3>1, <3>3
    <2>2. ASSUME i # c, Sound(e, i) PROVE FailsBy(r, "raise")
        <3>1. i + 1 \in 1..c /\ (i + 1) - 1 = i /\ e[i + 1] = "raise"
            BY <1>1, <1>2, <2>2
        <3> QED BY <1>8, <2>2, <3>1
    <2> QED BY <2>1, <2>2
<1>13. {j \in Ran(r) : e[j] = "field"} = {j \in 1..i : e[j] = "field"}
    BY <1>5, <1>6
<1> QED BY <1>7, <1>11, <1>12, <1>13 DEF e, c

(* The calls of the handler behind the first b of the script.              *)
Behind(q, b, e, i) ==
    /\ b \in Nat /\ i \in Nat /\ (\A j \in 1..b : q[j] = "bind")
    /\ \A j \in 1..i : q[b + j] = e[j] /\ e[j] \in Acts \ {"raise"}

LEMMA Shifted ==
    ASSUME NEW q, NEW b, NEW e, NEW i, Behind(q, b, e, i)
    PROVE  /\ \A a : a # "bind" => (Did(q, b + i, a) <=> Among(e, i, a))
           /\ Did(q, b + i, "bind") <=> b # 0
           /\ Harmless(q, b + i) <=> Sound(e, i)
           /\ \A a : a # "bind" => (FirstIs(q, b + i, a) <=> FirstAmong(e, i, a))
           /\ FieldsOf(q, b + i) = Cardinality({j \in 1..i : e[j] = "field"})
<1>1. /\ b \in Nat /\ i \in Nat /\ (\A j \in 1..b : q[j] = "bind")
      /\ \A j \in 1..i : q[b + j] = e[j] /\ e[j] \in Acts \ {"raise"}
    BY DEF Behind
<1>2. ASSUME NEW j \in 1..(b + i) PROVE j \in 1..b \/ (j - b \in 1..i /\ b + (j - b) = j)
    BY <1>1
<1>3. ASSUME NEW j \in 1..i PROVE b + j \in 1..(b + i)
    BY <1>1
<1>4. ASSUME NEW a, a # "bind" PROVE Did(q, b + i, a) <=> Among(e, i, a)
    BY <1>1, <1>2, <1>3, <1>4 DEF Did, Among
<1>5. Did(q, b + i, "bind") <=> b # 0
    <2>1. ASSUME b # 0 PROVE Did(q, b + i, "bind")
        <3>1. 1 \in 1..(b + i) /\ 1 \in 1..b
            BY <1>1, <2>1
        <3> QED BY <1>1, <3>1 DEF Did
    <2>2. ASSUME Did(q, b + i, "bind") PROVE b # 0
        <3>1. PICK j \in 1..(b + i) : q[j] = "bind"
            BY <2>2 DEF Did
        <3>2. CASE j - b \in 1..i /\ b + (j - b) = j
            <4>1. e[j - b] = "bind" /\ e[j - b] \in Acts
                BY <1>1, <3>1, <3>2
            <4> QED BY <4>1 DEF Acts
        <3>3. CASE j \in 1..b
            BY <1>1, <3>3
        <3> QED BY <1>2, <3>2, <3>3
    <2> QED BY <2>1, <2>2
<1>6. ASSUME NEW m \in 0..i PROVE Harmless(q, b + m) <=> Sound(e, m)
    <2>1. ASSUME NEW j \in 1..(b + m) PROVE j \in 1..b \/ (j - b \in 1..m /\ b + (j - b) = j)
        BY <1>1
    <2>2. ASSUME NEW j \in 1..m
          PROVE  b + j \in 1..(b + m) /\ q[b + j] = e[j] /\ e[j] \in Acts \ {"raise"}
        BY <1>1
    <2>3. ASSUME Harmless(q, b + m) PROVE Sound(e, m)
        BY <2>2, <2>3 DEF Harmless, Sound
    <2>4. ASSUME Sound(e, m) PROVE Harmless(q, b + m)
        <3> SUFFICES ASSUME NEW j \in 1..(b + m) PROVE q[j] \notin {"fail", "field", "invalid"}
            BY DEF Harmless
        <3>1. CASE j \in 1..b
            BY <1>1, <3>1
        <3>2. CASE j - b \in 1..m /\ b + (j - b) = j
            <4>1. q[j] = e[j - b] /\ e[j - b] \in Acts
                BY <2>2, <3>2
            <4>2. e[j - b] \notin {"fail", "field", "raise"}
                BY <2>4, <3>2 DEF Sound
            <4> QED BY <4>1, <4>2 DEF Acts
        <3> QED BY <2>1, <3>1, <3>2
    <2> QED BY <2>3, <2>4
<1>7. i \in 0..i
    BY <1>1
<1>8. ASSUME NEW a, a # "bind" PROVE FirstIs(q, b + i, a) <=> FirstAmong(e, i, a)
    <2>1. ASSUME FirstIs(q, b + i, a) PROVE FirstAmong(e, i, a)
        <3>1. PICK j \in 1..(b + i) : q[j] = a /\ Harmless(q, j - 1)
            BY <2>1 DEF FirstIs
        <3>2. j - b \in 1..i /\ b + (j - b) = j
            BY <1>1, <1>2, <1>8, <3>1
        <3>3. (j - b) - 1 \in 0..i /\ b + ((j - b) - 1) = j - 1
            BY <1>1, <3>2
        <3>4. Sound(e, (j - b) - 1)
            BY <1>6, <3>1, <3>3
        <3>5. e[j - b] = a
            BY <1>1, <3>1, <3>2
        <3> QED BY <3>2, <3>4, <3>5 DEF FirstAmong
    <2>2. ASSUME FirstAmong(e, i, a) PROVE FirstIs(q, b + i, a)
        <3>1. PICK j \in 1..i : e[j] = a /\ Sound(e, j - 1)
            BY <2>2 DEF FirstAmong
        <3>2. b + j \in 1..(b + i) /\ j - 1 \in 0..i /\ b + (j - 1) = (b + j) - 1
            BY <1>1
        <3>3. Harmless(q, b + (j - 1))
            BY <1>6, <3>1, <3>2
        <3>4. q[b + j] = a
            BY <1>1, <3>1
        <3>5. Harmless(q, (b + j) - 1)
            BY <3>2, <3>3
        <3> QED BY <3>2, <3>4, <3>5 DEF FirstIs
    <2> QED BY <2>1, <2>2
<1>9. FieldsOf(q, b + i) = Cardinality({j \in 1..i : e[j] = "field"})
    <2> DEFINE S == {j \in 1..i : e[j] = "field"}
               T == {j \in 1..(b + i) : q[j] = "field"}
               f == [j \in S |-> b + j]
    <2>1. f \in [S -> T]
        <3>1. ASSUME NEW j \in S PROVE b + j \in T
            BY <1>1, <1>3
        <3> QED BY <3>1
    <2>2. \A x, y \in S : f[x] = f[y] => x = y
        BY <1>1
    <2>3. ASSUME NEW y \in T PROVE \E x \in S : f[x] = y
        <3>1. y - b \in 1..i /\ b + (y - b) = y
            BY <1>1, <1>2
        <3>2. e[y - b] = "field"
            BY <1>1, <3>1
        <3>3. y - b \in S /\ f[y - b] = y
            BY <3>1, <3>2
        <3> QED BY <3>3
    <2>4. IsFiniteSet(S)
        <3>1. IsFiniteSet(1..i) /\ S \subseteq 1..i
            BY <1>1, FS_Interval
        <3> QED BY <3>1, FS_Subset
    <2> HIDE DEF S, T, f
    <2>5. f \in Bijection(S, T)
        BY <2>1, <2>2, <2>3 DEF Bijection, Injection, Surjection, IsInjective
    <2>6. Cardinality(T) = Cardinality(S)
        BY <2>4, <2>5, FS_Bijection DEF ExistsBijection
    <2> QED BY <2>6 DEF FieldsOf, S, T
<1> QED BY <1>4, <1>5, <1>6, <1>7, <1>8, <1>9

LEMMA FirstIsOne ==
    ASSUME NEW q, NEW k \in Nat, NEW a \in {"fail", "field", "invalid"}, FirstIs(q, k, a)
    PROVE  /\ ~Harmless(q, k)
           /\ \A b \in {"fail", "field", "invalid"} : FirstIs(q, k, b) => b = a
<1>1. PICK j \in 1..k : q[j] = a /\ Harmless(q, j - 1)
    BY DEF FirstIs
<1>2. ~Harmless(q, k)
    BY <1>1 DEF Harmless
<1>3. ASSUME NEW b \in {"fail", "field", "invalid"}, FirstIs(q, k, b) PROVE b = a
    <2>1. PICK m \in 1..k : q[m] = b /\ Harmless(q, m - 1)
        BY <1>3 DEF FirstIs
    <2>2. j \in 1..(m - 1) \/ m \in 1..(j - 1) \/ j = m
        OBVIOUS
    <2> QED BY <1>1, <2>1, <2>2 DEF Harmless
<1> QED BY <1>2, <1>3

LEMMA PassesBody ==
    ASSUME NEW r, Admitted(r), Entered(r)
    PROVE  Passed(r, 22) /\ BadFields(r) = 0
<1>1. BadFields(r) = 0 /\ ~(BadFields(r) > 0) /\ r.body # "broken" /\ r.body # "param"
    BY DEF BadFields, Entered
<1>2. ~Rules(r)[20].when
    BY <1>1 DEF Rules
<1>3. ~Rules(r)[21].when
    BY <1>1 DEF Rules
<1>4. ~Rules(r)[22].when
    BY <1>1 DEF Rules
<1>5. \A j \in 1..22 : j \in 1..19 \/ j = 20 \/ j = 21 \/ j = 22
    OBVIOUS
<1> QED BY <1>1, <1>2, <1>3, <1>4, <1>5, PassesGate DEF Passed

(* The calls that a handler has made are all that it makes.                *)
Complete(r, q, k) ==
    /\ \A a \in {"header", "location", "status", "key", "request"} :
           Calls(r, a) <=> Did(q, k, a)
    /\ Did(q, k, "bind") <=> r.body = "json"
    /\ FailsBy(r, "field") <=> FirstIs(q, k, "field")
    /\ FailsBy(r, "fail") <=> FirstIs(q, k, "fail")
    /\ ~FirstIs(q, k, "invalid")
    /\ FirstIs(q, k, "field") => FieldErrors(r) = FieldsOf(q, k)

LEMMA Completes ==
    ASSUME NEW r \in Request, Entered(r), BadFields(r) = 0, NEW q, NEW b, NEW i,
           Covered(r, i), Behind(q, b, r.acts, i), b # 0 <=> r.body = "json"
    PROVE  /\ Complete(r, q, b + i)
           /\ FailsBy(r, "raise") <=> i # Len(r.acts) /\ Harmless(q, b + i)
<1> DEFINE k == b + i
           e == r.acts
<1>1. /\ \A a : a # "raise" => (Calls(r, a) <=> Among(e, i, a))
      /\ \A a : a # "raise" => (FailsBy(r, a) <=> FirstAmong(e, i, a))
      /\ FailsBy(r, "raise") <=> i # Len(e) /\ Sound(e, i)
      /\ {j \in Ran(r) : e[j] = "field"} = {j \in 1..i : e[j] = "field"}
    BY CoveredIs
<1>2. /\ \A a : a # "bind" => (Did(q, k, a) <=> Among(e, i, a))
      /\ Did(q, k, "bind") <=> b # 0
      /\ Harmless(q, k) <=> Sound(e, i)
      /\ \A a : a # "bind" => (FirstIs(q, k, a) <=> FirstAmong(e, i, a))
      /\ FieldsOf(q, k) = Cardinality({j \in 1..i : e[j] = "field"})
    <2> HIDE DEF e
    <2>1. Behind(q, b, e, i)
        BY DEF e
    <2>2. \A a : a # "bind" => (Did(q, k, a) <=> Among(e, i, a))
        BY <2>1, Shifted
    <2>3. Did(q, k, "bind") <=> b # 0
        BY <2>1, Shifted
    <2>4. Harmless(q, k) <=> Sound(e, i)
        BY <2>1, Shifted
    <2>5. \A a : a # "bind" => (FirstIs(q, k, a) <=> FirstAmong(e, i, a))
        BY <2>1, Shifted
    <2>6. FieldsOf(q, k) = Cardinality({j \in 1..i : e[j] = "field"})
        BY <2>1, Shifted
    <2> QED BY <2>2, <2>3, <2>4, <2>5, <2>6
<1>3. ~FirstAmong(e, i, "invalid")
    BY DEF FirstAmong, Behind, Acts
<1>4. FailsBy(r, "field") => FieldErrors(r) = Cardinality({j \in Ran(r) : e[j] = "field"})
    <2>1. ~(BadFields(r) > 0)
        OBVIOUS
    <2> QED BY <2>1 DEF FieldErrors
<1> HIDE DEF k, e
<1>5. Complete(r, q, k)
    BY <1>1, <1>2, <1>3, <1>4 DEF Complete
<1>6. FailsBy(r, "raise") <=> i # Len(e) /\ Harmless(q, k)
    BY <1>1, <1>2
<1> QED BY <1>5, <1>6 DEF k, e

(* The headers that an answer keeps.                                       *)
Kept(s, status) == IF status >= 400 THEN s.headers \ {"Location"} ELSE s.headers

HandlerReasons == {"validation", "fail", "raise", "large", "result"}

LEMMA HandledHeaders ==
    ASSUME NEW r, NEW s, NEW q, NEW k, Wrote(s, q, k), Complete(r, q, k), BadFields(r) = 0,
           NEW status \in Nat \ {401, 429}, RuleOf(r).status = status,
           RuleOf(r).why \in HandlerReasons
    PROVE  Expected(r).headers = Kept(s, status)
<1> DEFINE x == IF Calls(r, "header") THEN {"X"} ELSE {}
           l == IF Calls(r, "location") /\ status < 400 THEN {"Location"} ELSE {}
           y == IF Calls(r, "key") /\ r.body = "json" THEN {"Key"} ELSE {}
           o == IF Calls(r, "request") THEN {"Own"} ELSE {}
<1>1. Expected(r).headers = x \cup l \cup y \cup o
    BY DEF Expected, HandlerReasons
<1>2. /\ s.headers \subseteq {"X", "Location", "Key", "Own"}
      /\ "X" \in s.headers <=> Calls(r, "header")
      /\ "Location" \in s.headers <=> Calls(r, "location")
      /\ "Key" \in s.headers <=> Calls(r, "key") /\ r.body = "json"
      /\ "Own" \in s.headers <=> Calls(r, "request")
    BY DEF Wrote, Complete
<1>3. CASE status >= 400
    <2>1. ~(status < 400)
        BY <1>3
    <2>2. x \cup l \cup y \cup o = s.headers \ {"Location"}
        BY <1>2, <2>1
    <2> QED BY <1>1, <1>3, <2>2 DEF Kept
<1>4. CASE ~(status >= 400)
    <2>1. status < 400
        BY <1>4
    <2>2. x \cup l \cup y \cup o = s.headers
        BY <1>2, <2>1
    <2> QED BY <1>1, <1>4, <2>2 DEF Kept
<1> QED BY <1>3, <1>4

(* The result of a handler that did not fail.                              *)
LEMMA ResultAnswer ==
    ASSUME NEW r, NEW s \in Locals, Flags(s, r), s.failed = 0,
           NEW status \in Nat, status # 0, NEW why \in {"large", "result"},
           RuleOf(r).status = status, RuleOf(r).why = why,
           Expected(r).headers = Kept(s, status)
    PROVE  Response(s, status, why) = Expected(r)
<1> DEFINE x == Response(s, status, why)
           e == Expected(r)
<1>1. ~(status >= 400 /\ s.failed = status)
    OBVIOUS
<1>2. /\ x.code = "none" /\ x.why = why /\ x.errors = 0 /\ x.truncated = FALSE
      /\ x.headers = (IF status >= 400 THEN s.headers \ {"Location"} ELSE s.headers)
    BY <1>1 DEF Response
<1>3. e.code = "none" /\ e.why = why /\ e.errors = 0
    BY DEF Expected
<1>4. e.truncated = FALSE
    BY DEF Expected
<1>5. e.headers = IF status >= 400 THEN s.headers \ {"Location"} ELSE s.headers
    BY DEF Kept
<1> HIDE DEF x, e
<1>6. x.headers = e.headers
    BY <1>2, <1>5
<1>7. x.code = e.code /\ x.why = e.why /\ x.errors = e.errors
    BY <1>2, <1>3
<1>8. x.truncated = e.truncated
    BY <1>2, <1>4
<1> QED BY <1>6, <1>7, <1>8, Matches DEF x, e

(* The handler has thrown, or returned.                                    *)
LEMMA HandledLands ==
    ASSUME NEW r, Admitted(r), Entered(r), NEW q, NEW k \in Nat, NEW s,
           Progress(s, q, k, r), Complete(r, q, k), NEW thrown \in BOOLEAN,
           FailsBy(r, "raise") <=> thrown /\ Harmless(q, k)
    PROVE  /\ thrown => Landing(Fail(s, 404, "none", "raise"), 0, r)
           /\ ~thrown => Landing(s, IF s.failed # 0 \/ r.fits THEN 0 ELSE -1, r)
<1>1. /\ s \in Locals /\ Marked(s, r) /\ Wrote(s, q, k) /\ Chose(s, q, k) /\ Verdict(s, q, k)
    BY DEF Progress
<1>2. Passed(r, 22) /\ BadFields(r) = 0 /\ OnItsRoute(r)
    BY PassesBody DEF Admitted
<1>3. /\ FailsBy(r, "field") <=> FirstIs(q, k, "field")
      /\ FailsBy(r, "fail") <=> FirstIs(q, k, "fail")
      /\ ~FirstIs(q, k, "invalid")
    BY DEF Complete
<1>4. CASE FirstIs(q, k, "field")
    <2>1. ~Harmless(q, k) /\ ~FirstIs(q, k, "fail")
        BY <1>4, FirstIsOne
    <2> DEFINE c == FieldsOf(q, k)
    <2>2. /\ s.failed = 400 /\ s.code = "validation_failed" /\ s.why = "validation"
          /\ s.errors = (IF c > MaxFields THEN MaxFields ELSE c) /\ (s.truncated <=> c > MaxFields)
        BY <1>1, <1>3, <2>1 DEF Verdict, Reports, Fields
    <2>3. RuleOf(r).status = 400 /\ RuleOf(r).why = "validation"
        <3>1. FailsBy(r, "field")
            BY <1>3, <1>4
        <3>2. Rules(r)[23].when /\ Rules(r)[23].status = 400 /\ Rules(r)[23].why = "validation"
            BY <3>1 DEF Rules
        <3>3. Passed(r, 23 - 1)
            BY <1>2
        <3> QED BY <3>2, <3>3, FirstRule
    <2>4. FieldErrors(r) = c
        BY <1>4 DEF Complete
    <2> HIDE DEF c
    <2>5. /\ Expected(r).code = "validation_failed"
          /\ Expected(r).errors = (IF c > MaxFields THEN MaxFields ELSE c)
        BY <2>3, <2>4 DEF Expected
    <2>6. s.truncated = Expected(r).truncated
        <3>1. Expected(r).truncated = (c > MaxFields)
            BY <2>3, <2>4 DEF Expected
        <3>2. s.truncated \in BOOLEAN
            BY <1>1 DEF Locals
        <3> QED BY <2>2, <3>1, <3>2
    <2>7. 400 \in Nat \ {401, 429} /\ 400 >= 400 /\ 400 \in Nat
        OBVIOUS
    <2>8. s.headers \ {"Location"} = Expected(r).headers
        <3>1. Expected(r).headers = Kept(s, 400)
            <4>1. RuleOf(r).why \in HandlerReasons
                BY <1>1, <1>2, <2>3, <2>7 DEF HandlerReasons
            <4> QED BY <1>1, <1>2, <2>3, <2>7, <4>1, HandledHeaders
        <3> QED BY <2>7, <3>1 DEF Kept
    <2>9. Flags(s, r)
        BY <1>1, <1>2, <2>3, HandlerFlags
    <2>10. s.code = Expected(r).code /\ s.errors = Expected(r).errors
        BY <2>2, <2>5
    <2>11. Response(s, 400, "none") = Expected(r)
        BY <1>1, <2>2, <2>3, <2>6, <2>7, <2>8, <2>9, <2>10, FailedAnswer
    <2>12. s.failed # 0 /\ s.failed = 400
        BY <2>2
    <2>13. Fail(s, 404, "none", "raise") = s
        BY <2>12 DEF Fail
    <2>14. \A x : Landing(s, x, r)
        BY <2>11, <2>12 DEF Landing
    <2> QED BY <2>13, <2>14
<1>5. CASE FirstIs(q, k, "fail")
    <2>1. ~Harmless(q, k) /\ ~FirstIs(q, k, "field")
        BY <1>5, FirstIsOne
    <2>2. /\ s.failed = 409 /\ s.code = "none" /\ s.why = "fail"
          /\ s.errors = 0 /\ ~s.truncated
        BY <1>1, <1>3, <2>1 DEF Verdict, Reports, NoFields
    <2>3. RuleOf(r).status = 409 /\ RuleOf(r).why = "fail"
        <3>1. FailsBy(r, "fail") /\ ~FailsBy(r, "field")
            BY <1>3, <1>5, <2>1
        <3>2. Rules(r)[24].when /\ Rules(r)[24].status = 409 /\ Rules(r)[24].why = "fail"
            BY <3>1 DEF Rules
        <3>3. ~Rules(r)[23].when
            BY <3>1 DEF Rules
        <3>4. \A j \in 1..(24 - 1) : j \in 1..22 \/ j = 23
            OBVIOUS
        <3>5. Passed(r, 24 - 1)
            BY <1>2, <3>3, <3>4 DEF Passed
        <3> QED BY <3>2, <3>5, FirstRule
    <2>4. Expected(r).code = "none" /\ Expected(r).errors = 0
        BY <2>3 DEF Expected
    <2>5. s.truncated = Expected(r).truncated
        <3>1. Expected(r).truncated = FALSE
            BY <2>3 DEF Expected
        <3>2. s.truncated \in BOOLEAN
            BY <1>1 DEF Locals
        <3> QED BY <2>2, <3>1, <3>2
    <2>6. 409 \in Nat \ {401, 429} /\ 409 >= 400 /\ 409 \in Nat
        OBVIOUS
    <2>7. s.headers \ {"Location"} = Expected(r).headers
        <3>1. Expected(r).headers = Kept(s, 409)
            <4>1. RuleOf(r).why \in HandlerReasons
                BY <1>1, <1>2, <2>3, <2>6 DEF HandlerReasons
            <4> QED BY <1>1, <1>2, <2>3, <2>6, <4>1, HandledHeaders
        <3> QED BY <2>6, <3>1 DEF Kept
    <2>8. Flags(s, r)
        BY <1>1, <1>2, <2>3, HandlerFlags
    <2>9. s.code = Expected(r).code /\ s.errors = Expected(r).errors
        BY <2>2, <2>4
    <2>10. Response(s, 409, "none") = Expected(r)
        BY <1>1, <2>2, <2>3, <2>5, <2>6, <2>7, <2>8, <2>9, FailedAnswer
    <2>11. s.failed # 0 /\ s.failed = 409
        BY <2>2
    <2>12. Fail(s, 404, "none", "raise") = s
        BY <2>11 DEF Fail
    <2>13. \A x : Landing(s, x, r)
        BY <2>10, <2>11 DEF Landing
    <2> QED BY <2>12, <2>13
<1>6. CASE ~FirstIs(q, k, "field") /\ ~FirstIs(q, k, "fail")
    <2>1. Harmless(q, k) /\ Reports(s, 0, "none", "none") /\ NoFields(s)
        BY <1>1, <1>3, <1>6 DEF Verdict
    <2>2. s.failed = 0 /\ s.errors = 0 /\ ~s.truncated
        BY <2>1 DEF Reports, NoFields
    <2>3. Passed(r, 24) /\ (FailsBy(r, "raise") <=> thrown)
        <3>1. ~Rules(r)[23].when
            BY <1>3, <1>6 DEF Rules
        <3>2. ~Rules(r)[24].when
            BY <1>3, <1>6 DEF Rules
        <3>3. \A j \in 1..24 : j \in 1..22 \/ j = 23 \/ j = 24
            OBVIOUS
        <3> QED BY <1>2, <2>1, <3>1, <3>2, <3>3 DEF Passed
    <2>4. CASE thrown
        <3> DEFINE u == Fail(s, 404, "none", "raise")
        <3>1. u = [s EXCEPT !.failed = 404, !.code = "none", !.why = "raise"]
            BY <2>2 DEF Fail
        <3>2. u \in Locals
            <4>1. 404 \in Statuses /\ "none" \in Codes /\ "raise" \in Reasons
                BY DEF Statuses, Codes, Reasons
            <4> QED BY <1>1, <4>1, Fails
        <3> HIDE DEF u
        <3>3. /\ u.failed = 404 /\ u.code = "none" /\ u.why = "raise" /\ u.headers = s.headers
              /\ u.errors = 0 /\ ~u.truncated
              /\ u.head = s.head /\ u.cors = s.cors /\ u.origin = s.origin
              /\ u.allow = s.allow /\ u.preflight = s.preflight
            BY <1>1, <2>2, <3>1 DEF Locals
        <3>4. RuleOf(r).status = 404 /\ RuleOf(r).why = "raise"
            <4>1. Rules(r)[25].when /\ Rules(r)[25].status = 404 /\ Rules(r)[25].why = "raise"
                BY <2>3, <2>4 DEF Rules
            <4>2. Passed(r, 25 - 1)
                BY <2>3
            <4> QED BY <4>1, <4>2, FirstRule
        <3>5. Expected(r).code = "none" /\ Expected(r).errors = 0
            BY <3>4 DEF Expected
        <3>6. u.truncated = Expected(r).truncated
            <4>1. Expected(r).truncated = FALSE
                BY <3>4 DEF Expected
            <4>2. u.truncated \in BOOLEAN
                BY <3>2 DEF Locals
            <4> QED BY <3>3, <4>1, <4>2
        <3>7. 404 \in Nat \ {401, 429} /\ 404 >= 400 /\ 404 \in Nat
            OBVIOUS
        <3>8. u.headers \ {"Location"} = Expected(r).headers
            <4>1. Expected(r).headers = Kept(s, 404)
                <5>1. RuleOf(r).why \in HandlerReasons
                    BY <1>1, <1>2, <3>4, <3>7 DEF HandlerReasons
                <5> QED BY <1>1, <1>2, <3>4, <3>7, <5>1, HandledHeaders
            <4> QED BY <3>3, <3>7, <4>1 DEF Kept
        <3>9. Flags(u, r)
            <4>1. Marked(u, r)
                BY <1>1, <3>3 DEF Marked
            <4> QED BY <1>2, <3>4, <4>1, HandlerFlags
        <3>10. u.code = Expected(r).code /\ u.errors = Expected(r).errors
            BY <3>3, <3>5
        <3>11. Response(u, 404, "none") = Expected(r)
            BY <3>2, <3>3, <3>4, <3>6, <3>7, <3>8, <3>9, <3>10, FailedAnswer
        <3>12. u.failed # 0 /\ u.failed = 404
            BY <3>3
        <3>13. Landing(u, 0, r)
            BY <3>11, <3>12 DEF Landing
        <3> QED BY <2>4, <3>13 DEF u
    <2>5. CASE ~thrown /\ ~r.fits
        <3>1. RuleOf(r).status = 500 /\ RuleOf(r).why = "large"
            <4>1. Rules(r)[26].when /\ Rules(r)[26].status = 500 /\ Rules(r)[26].why = "large"
                BY <2>5 DEF Rules
            <4>2. ~Rules(r)[25].when
                BY <2>3, <2>5 DEF Rules
            <4>3. \A j \in 1..(26 - 1) : j \in 1..24 \/ j = 25
                OBVIOUS
            <4>4. Passed(r, 26 - 1)
                BY <2>3, <4>2, <4>3 DEF Passed
            <4> QED BY <4>1, <4>4, FirstRule
        <3>2. 500 \in Nat \ {401, 429} /\ 500 \in Nat /\ 500 # 0
            OBVIOUS
        <3>3. Expected(r).headers = Kept(s, 500)
            <4>1. RuleOf(r).why \in HandlerReasons
                BY <1>1, <1>2, <3>1, <3>2 DEF HandlerReasons
            <4> QED BY <1>1, <1>2, <3>1, <3>2, <4>1, HandledHeaders
        <3>4. Flags(s, r)
            BY <1>1, <1>2, <3>1, HandlerFlags
        <3>5. Response(s, 500, "large") = Expected(r)
            BY <1>1, <2>2, <3>1, <3>2, <3>3, <3>4, ResultAnswer
        <3>6. -1 # 0 /\ -1 # -2
            OBVIOUS
        <3>7. Landing(s, -1, r)
            BY <2>2, <3>5, <3>6 DEF Landing
        <3> QED BY <2>2, <2>5, <3>7
    <2>6. CASE ~thrown /\ r.fits
        <3> DEFINE status == IF s.override # 0 THEN s.override ELSE 200
        <3>1. status = IF Calls(r, "status") THEN 201 ELSE 200
            BY <1>1 DEF Chose, Complete
        <3>2. RuleOf(r).status = status /\ RuleOf(r).why = "result"
            <4>1. /\ Rules(r)[27].when /\ Rules(r)[27].why = "result"
                  /\ Rules(r)[27].status = IF Calls(r, "status") THEN 201 ELSE 200
                BY DEF Rules
            <4>2. ~Rules(r)[25].when
                BY <2>3, <2>6 DEF Rules
            <4>3. ~Rules(r)[26].when
                BY <2>6 DEF Rules
            <4>4. \A j \in 1..(27 - 1) : j \in 1..24 \/ j = 25 \/ j = 26
                OBVIOUS
            <4>5. Passed(r, 27 - 1)
                BY <2>3, <4>2, <4>3, <4>4 DEF Passed
            <4> HIDE DEF status
            <4> QED BY <3>1, <4>1, <4>5, FirstRule
        <3> HIDE DEF status
        <3>3. status \in Nat \ {401, 429} /\ status \in Nat /\ status # 0
            BY <3>1
        <3>4. Expected(r).headers = Kept(s, status)
            <4>1. RuleOf(r).why \in HandlerReasons
                BY <1>1, <1>2, <3>2, <3>3 DEF HandlerReasons
            <4> QED BY <1>1, <1>2, <3>2, <3>3, <4>1, HandledHeaders
        <3>5. Flags(s, r)
            BY <1>1, <1>2, <3>2, HandlerFlags
        <3>6. Response(s, status, "result") = Expected(r)
            BY <1>1, <2>2, <3>2, <3>3, <3>4, <3>5, ResultAnswer
        <3>7. 0 # -1 /\ 0 # -2
            OBVIOUS
        <3>8. Landing(s, 0, r)
            BY <2>2, <3>6, <3>7 DEF Landing, status
        <3> QED BY <2>6, <3>8
    <2> QED BY <2>4, <2>5, <2>6
<1> QED BY <1>4, <1>5, <1>6

-----------------------------------------------------------------------------
(* The worker, step by step.                                               *)

(* k calls of the wrapper and the handler are done, and rest is to come.   *)
Runs(s, rest, r, k) ==
    /\ k \in Nat /\ Progress(s, Script(r), k, r)
    /\ \A j \in 1..k : Script(r)[j] \notin {"raise", "refuse"}
    /\ Len(Script(r)) = k + Len(rest)
    /\ \A j \in 1..Len(rest) : rest[j] = Script(r)[k + j]

Running(s, rest, r) == Admitted(r) /\ \E k \in 0..Len(Script(r)) : Runs(s, rest, r, k)

(* What the thread-local variables hold of the request, wherever it is:    *)
(* the answer can be read off them.                                        *)
Isolation ==
    /\ pc \notin {"limit", "serve", "handler", "landed"} /\ answers = 1
           => last = Expected(req)
    /\ pc \in {"limit", "serve"} => req.read = 1 /\ Clean(t, req) /\ ~t.allow
    /\ pc = "serve" => Received(req)
    /\ pc = "handler" => Running(t, todo, req)
    /\ pc = "landed" => Landing(t, rc, req)

(* An answer that the request deserves is one that Isolated allows.        *)
LEMMA IsolatedAnswer ==
    ASSUME ServingInv, pc \in {"serve", "landed"}, NEW s, NEW status, NEW why,
           Answer(s, status, why), UNCHANGED req,
           Response(s, status, why) = Expected(req)
    PROVE  Isolation'
<1>1. answers = 0
    BY DEF ServingInv, Counted
<1>2. pc' = "log" /\ req' = req
    BY DEF Answer
<1>3. last' = Expected(req) \/ answers' = 0
    BY <1>1 DEF Answer, Send
<1> QED BY <1>2, <1>3 DEF Isolation

(* The thread begins every request as it began.                            *)
LEMMA ReadCleans ==
    ASSUME NEW r \in Request
    PROVE  LET u == AuthBind(CorsPrepare([Zero EXCEPT !.head = r.method = "HEAD"], r), r)
           IN  Clean(u, r) /\ ~u.allow
<1> DEFINE h == [Zero EXCEPT !.head = r.method = "HEAD"]
           c == CorsPrepare(h, r)
           u == AuthBind(c, r)
<1>1. h.origin = FALSE /\ h.failed = 0 /\ h.code = "none" /\ h.why = "none" /\ h.errors = 0
      /\ h.truncated = FALSE /\ h.headers = {} /\ h.override = 0 /\ h.body = 0
      /\ h.head = (r.method = "HEAD") /\ h.preflight = FALSE /\ h.requested = FALSE
      /\ h.allow = FALSE
    BY DEF Zero
<1>2. h \in Locals
    BY HeadLocals
<1> HIDE DEF h
<1>3. c.failed = 0 /\ c.code = "none" /\ c.why = "none" /\ c.errors = 0
      /\ c.truncated = FALSE /\ c.headers = {} /\ c.override = 0 /\ c.body = 0
      /\ c.head = (r.method = "HEAD") /\ c.preflight = FALSE /\ c.requested = FALSE
      /\ c.allow = FALSE /\ c.cors = Cors
    BY <1>1, <1>2 DEF Locals, CorsPrepare
<1>4. c.origin <=> Cors /\ r.origin = "listed"
    BY <1>1, <1>2 DEF Locals, CorsPrepare
<1>5. c \in Locals
    <2>1. Cors \in BOOLEAN /\ (IF Cors /\ r.origin = "listed" THEN TRUE ELSE h.origin) \in BOOLEAN
        BY <1>1, ServingAssumption
    <2> QED BY <1>2, <2>1, Zenon DEF Locals, CorsPrepare
<1> HIDE DEF c
<1>6. /\ u.failed = c.failed /\ u.code = c.code /\ u.why = c.why /\ u.errors = c.errors
      /\ u.truncated = c.truncated /\ u.headers = c.headers /\ u.override = c.override
      /\ u.body = c.body /\ u.head = c.head /\ u.preflight = c.preflight
      /\ u.requested = c.requested /\ u.allow = c.allow /\ u.cors = c.cors
      /\ u.origin = c.origin
    BY <1>5 DEF AuthBind, AuthReset, Locals
<1> HIDE DEF u
<1>7. Clean(u, r) /\ ~u.allow
    BY <1>3, <1>4, <1>6 DEF Clean
<1> QED BY <1>7 DEF u, c, h

LEMMA IsolatedLoop ==
    ASSUME Isolation, Take \/ Top \/ TopEnds \/ Finish \/ Close
    PROVE  Isolation'
<1>1. /\ pc \in {"idle", "top", "read", "log", "close"}
      /\ pc' \in {"idle", "top", "read", "log", "close"}
      /\ UNCHANGED <<req, last, answers>>
    BY DEF Take, Top, TopEnds, Finish, Close
<1>2. pc \notin {"limit", "serve", "handler", "landed"}
      /\ pc' \notin {"limit", "serve", "handler", "landed"}
    BY <1>1
<1>3. answers = 1 => last = Expected(req)
    BY <1>2 DEF Isolation
<1> QED BY <1>1, <1>2, <1>3 DEF Isolation

LEMMA IsolatedRest ==
    ASSUME Isolation, UNCHANGED <<pc, t, req, todo, rc, last, answers>>
    PROVE  Isolation'
BY DEF Isolation

(* read_request and the answers of serve_connection before serve_request.  *)
LEMMA IsolatedRead ==
    ASSUME ServingInv, Isolation, NEW r \in Requests, Read(r) \/ ReadFails(r)
    PROVE  Isolation'
<1>1. r \in Request /\ t = Zero
    BY ServingAssumption DEF Read, ReadFails, ServingInv, Bound
<1>2. CASE Read(r)
    <2>1. Clean(t', r) /\ ~t'.allow
        BY <1>1, <1>2, ReadCleans DEF Read
    <2>2. pc' = "limit" /\ req' = r /\ r.read = 1
        BY <1>2 DEF Read
    <2> QED BY <2>1, <2>2 DEF Isolation
<1>3. CASE ReadFails(r)
    <2> DEFINE s == [t EXCEPT !.head = r.method = "HEAD"]
               status == IF r.read = -2 THEN 413 ELSE 417
    <2>1. pc' = "close" /\ req' = r
        BY <1>3 DEF ReadFails
    <2>2. answers' = 0 \/ (r.read \in {-3, -2} /\ last' = Response(s, status, "read"))
        BY <1>3 DEF ReadFails
    <2>3. ASSUME r.read \in {-3, -2} PROVE Response(s, status, "read") = Expected(r)
        <3>1. s \in Locals
            BY <1>1, HeadLocals
        <3>2. /\ s.failed = 0 /\ s.headers = {} /\ (s.head <=> r.method = "HEAD")
              /\ ~s.cors /\ ~s.origin /\ ~s.preflight /\ ~s.allow /\ ~s.requested
            BY <1>1 DEF Zero
        <3> HIDE DEF s
        <3> QED BY <1>1, <2>3, <3>1, <3>2, ReadAnswers
    <2> HIDE DEF s, status
    <2>4. answers' = 1 => last' = Expected(req')
        BY <2>1, <2>2, <2>3
    <2> QED BY <2>1, <2>4 DEF Isolation
<1> QED BY <1>2, <1>3

LEMMA IsolatedLimit ==
    ASSUME ServingInv, Isolation, Limited \/ BadUrl \/ Accepted
    PROVE  Isolation'
<1>1. /\ pc = "limit" /\ req \in Request /\ t \in Locals /\ answers = 0
      /\ req.read = 1 /\ Clean(t, req) /\ ~t.allow /\ req' = req
    <2>1. pc = "limit" /\ req' = req
        BY DEF Limited, BadUrl, Accepted
    <2>2. req \in Requests /\ t \in Locals /\ answers = 0
        BY <2>1 DEF ServingInv, TypeOK, Bound, Counted
    <2> QED BY <2>1, <2>2, ServingAssumption DEF Isolation
<1>2. ASSUME NEW s, NEW status, NEW why, NEW kept, pc' = "close",
             Send(s, status, why, kept), Response(s, status, why) = Expected(req)
      PROVE  Isolation'
    <2>1. last' = Expected(req) \/ answers' = 0
        BY <1>1, <1>2 DEF Send
    <2> QED BY <1>1, <1>2, <2>1 DEF Isolation
<1>3. CASE Limited
    <2>1. Response(Header(t, "Retry-After"), 429, "limit") = Expected(req)
        BY <1>1, <1>3, LimitedAnswer DEF Limited
    <2>2. pc' = "close" /\ Send(Header(t, "Retry-After"), 429, "limit", FALSE)
        BY <1>3 DEF Limited
    <2> QED BY <1>2, <2>1, <2>2
<1>4. CASE BadUrl
    <2>1. Response(t, 400, "url") = Expected(req)
        BY <1>1, <1>4, BadUrlAnswer DEF BadUrl
    <2>2. pc' = "close" /\ Send(t, 400, "url", FALSE)
        BY <1>4 DEF BadUrl
    <2> QED BY <1>2, <2>1, <2>2
<1>5. CASE Accepted
    <2>1. /\ pc' = "serve" /\ ~req.limited /\ req.path # "bad"
          /\ UNCHANGED <<t, last, answers>>
        BY <1>5 DEF Accepted
    <2>2. Received(req)
        BY <1>1, <2>1 DEF Received
    <2> QED BY <1>1, <2>1, <2>2 DEF Isolation
<1> QED BY <1>3, <1>4, <1>5

(* auth_gate leaves a request alone that it lets pass.                     *)
LEMMA GatePasses ==
    ASSUME NEW s \in Locals, s.failed = 0, NEW needs, AuthGate(s, needs).failed = 0
    PROVE  AuthGate(s, needs) = s
<1> DEFINE h == Header(s, "WWW-Authenticate")
           u == Fail(h, 401, "none", "authentication")
           v == Fail(s, 403, "none", "permission")
<1>1. "WWW-Authenticate" \in Headers /\ 401 \in Statuses /\ 403 \in Statuses /\ "none" \in Codes
      /\ "authentication" \in Reasons /\ "permission" \in Reasons
    BY DEF Headers, Statuses, Codes, Reasons
<1>2. h \in Locals
    BY <1>1, HeaderSets
<1> HIDE DEF h
<1>3. u.failed # 0 /\ v.failed # 0
    BY <1>1, <1>2, Fails
<1> HIDE DEF u, v
<1>4. AuthGate(s, needs) =
        IF needs = "public" THEN s
        ELSE IF s.user = "none" THEN u
        ELSE IF needs # "any" /\ s.user # needs THEN v ELSE s
    BY DEF AuthGate, u, v, h
<1> QED BY <1>3, <1>4

(* The wrapper begins with nothing done.                                   *)
LEMMA Started ==
    ASSUME NEW r \in Request, Admitted(r), NEW s, Settled(s, r), s.request # 0
    PROVE  Running(s, Script(r), r)
<1> DEFINE q == Script(r)
<1>1. Len(q) \in Nat
    BY ScriptIs, LenProperties
<1> HIDE DEF q
<1>2. \A a : ~Did(q, 0, a)
    BY DEF Did
<1>3. Wrote(s, q, 0) /\ Holds(s, q, 0)
    BY <1>2 DEF Settled, Clean, Wrote, Holds
<1>4. Chose(s, q, 0)
    BY <1>2 DEF Settled, Clean, Chose
<1>5. Harmless(q, 0)
    BY DEF Harmless
<1>6. Verdict(s, q, 0)
    BY <1>5 DEF Settled, Clean, Verdict, Reports, NoFields
<1>7. Marked(s, r)
    BY DEF Settled, Clean, Marked
<1>8. Progress(s, q, 0, r)
    BY <1>3, <1>4, <1>6, <1>7 DEF Progress, Settled
<1>9. \A j \in 1..0 : q[j] \notin {"raise", "refuse"}
    OBVIOUS
<1>10. 0 \in 0..Len(q) /\ Len(q) = 0 + Len(q) /\ \A j \in 1..Len(q) : q[j] = q[0 + j]
    BY <1>1
<1>11. Runs(s, q, r, 0)
    BY <1>8, <1>9, <1>10 DEF Runs, q
<1>12. \E k \in 0..Len(q) : Runs(s, q, r, k)
    BY <1>10, <1>11
<1> QED BY <1>12 DEF Running, q

LEMMA EscapeSettles ==
    ASSUME NEW r, NEW s, Settled(s, r), NEW b \in BOOLEAN
    PROVE  LET u == [s EXCEPT !.escape = b] IN
           /\ Settled(u, r) /\ u.user = s.user /\ u.request = s.request /\ u.failed = 0
<1>1. s \in Locals
    BY DEF Settled
<1>2. [s EXCEPT !.escape = b] \in Locals
    BY <1>1, Zenon DEF Locals
<1> QED BY <1>1, <1>2 DEF Settled, Clean, Locals

(* dispatch_route up to the handler.                                       *)
LEMMA IsolatedDispatch ==
    ASSUME ServingInv, Isolation, Dispatch, OnItsRoute(req), req \in Request,
           NEW p, p = FailReset(Prepared), Settled(p, req), p.user = req.token,
           p.request = n, n # 0, ~p.escape
    PROVE  Isolation'
<1> DEFINE need == IF req.path = "openapi" THEN "public" ELSE req.needs
           e == [p EXCEPT !.escape = TRUE]
           s == AuthGate(e, need)
           gated == AuthGate(p, OpenapiNeeds(req))
           z == [s EXCEPT !.escape = FALSE]
<1>1. p \in Locals /\ Clean(p, req) /\ p.failed = 0
    BY DEF Settled, Clean
<1>2. Settled(e, req) /\ e.user = req.token /\ e.request = n /\ e.failed = 0
    <2>1. TRUE \in BOOLEAN
        OBVIOUS
    <2> QED BY <2>1, EscapeSettles
<1> HIDE DEF e
<1>3. e \in Locals
    BY <1>2 DEF Settled
<1>4. OpenapiNeeds(req) \in {"public", "any", "user", "admin"}
      /\ req.needs \in {"public", "any", "user", "admin"}
    BY DEF OpenapiNeeds, Request
<1>5. gated.failed = 0 => Meets(req.token, OpenapiNeeds(req))
    BY <1>1, <1>4, Gates
<1>6. need \in {"public", "any", "user", "admin"}
    BY <1>4
<1> HIDE DEF need
<1>7. s \in Locals /\ (s.failed = 0 => Meets(req.token, need))
    BY <1>2, <1>3, <1>6, Gates
<1>8. s.failed = 0 => s = e
    BY <1>2, <1>3, GatePasses
<1> HIDE DEF gated, s
<1>9. req.query /\ req.memory /\ (req.path = "openapi" => gated.failed = 0) /\ req' = req
    BY DEF Dispatch, Rest, gated
<1>10. \/ /\ t' = z /\ pc' = "landed" /\ rc' = 0 /\ s.failed # 0
       \/ /\ t' = s /\ pc' = "handler" /\ s.failed = 0
          /\ todo' = BodyActs(req) \o req.acts
    BY DEF Dispatch, s, e, z, need
<1> HIDE DEF z
<1>11. CASE s.failed = 0
    <2>1. Meets(req.token, Need(req))
        <3>1. CASE req.path = "openapi"
            BY <1>5, <1>9, <3>1 DEF Need
        <3>2. CASE req.path # "openapi"
            BY <1>7, <1>11, <3>2 DEF Need, need
        <3> QED BY <3>1, <3>2
    <2>2. Admitted(req)
        BY <1>9, <2>1 DEF Admitted
    <2>3. Running(e, Script(req), req)
        BY <1>2, <2>2, Started
    <2>4. pc' = "handler" /\ t' = e /\ todo' = Script(req)
        BY <1>8, <1>10, <1>11 DEF Script
    <2> QED BY <1>9, <2>3, <2>4 DEF Isolation
<1>12. CASE s.failed # 0
    <2>1. req.path # "openapi" /\ need = Need(req)
        <3>1. need = "public" => s = e
            BY DEF AuthGate, s
        <3>2. need # "public"
            BY <1>2, <1>12, <3>1
        <3> QED BY <3>2 DEF need, Need
    <2>2. Response(s, s.failed, "none") = Expected(req)
        <3>1. AuthGate(e, Need(req)) = s
            BY <2>1 DEF s
        <3> QED BY <1>2, <1>9, <1>12, <3>1, GateAnswers
    <2>3. Landing(s, 0, req)
        BY <1>12, <2>2 DEF Landing
    <2>4. Landing(z, 0, req)
        BY <1>7, <2>3, EscapeOff DEF z
    <2>5. t' = z /\ pc' = "landed" /\ rc' = 0
        BY <1>10, <1>12
    <2> QED BY <1>9, <2>4, <2>5 DEF Isolation
<1> QED BY <1>11, <1>12

(* serve_request up to an answer or to the handler.                        *)
LEMMA IsolatedServe ==
    ASSUME ServingInv, Isolation, Serve
    PROVE  Isolation'
<1>1. /\ pc = "serve" /\ t \in Locals /\ Unbound(t) /\ n \in 0..MaxRequests /\ n # 0
      /\ req \in Request /\ t.user = req.token
      /\ Clean(t, req) /\ ~t.allow /\ Received(req)
    <2>1. pc = "serve"
        BY DEF Serve, ServeHealth, ServePreflight, ServeUnrouted, BadQuery, NoMemory,
               OpenapiRefused, Dispatch, OnRoute
    <2>2. t \in Locals /\ Unbound(t) /\ n \in 0..MaxRequests /\ n > 0 /\ req \in Requests
          /\ t.user = req.token
        BY <2>1 DEF ServingInv, TypeOK, Bound, NothingDangles, Credentials, Unbound
    <2> QED BY <2>1, <2>2, ServingAssumption DEF Isolation
<1>2. ASSUME NEW s, NEW status, NEW why, Answer(s, status, why), UNCHANGED Rest,
             Response(s, status, why) = Expected(req)
      PROVE  Isolation'
    <2>1. req' = req
        BY <1>2 DEF Rest
    <2> QED BY <1>1, <1>2, <2>1, IsolatedAnswer
<1>3. CASE ServeHealth
    <2>1. req.path = "health" /\ UNCHANGED Rest
        BY <1>3 DEF ServeHealth
    <2>2. /\ Reads(req) => Response(t, 200, "up") = Expected(req)
          /\ ~Reads(req) => Response([t EXCEPT !.allow = TRUE],
                                     IF req.method = "OPTIONS" THEN 204 ELSE 405, "health")
                                = Expected(req)
        BY <1>1, <2>1, HealthAnswers
    <2>3. CASE Reads(req)
        BY <1>2, <1>3, <2>1, <2>2, <2>3 DEF ServeHealth
    <2>4. CASE ~Reads(req)
        BY <1>2, <1>3, <2>1, <2>2, <2>4 DEF ServeHealth
    <2> QED BY <2>3, <2>4
<1>4. CASE ServePreflight
    <2> DEFINE p == Preflight(Resolve(t, req), req)
    <2>1. /\ req.path # "health" /\ IsPreflight(Resolve(t, req), req)
          /\ Answer(p.locals, p.status, "preflight") /\ UNCHANGED Rest
        BY <1>4 DEF ServePreflight
    <2>2. Response(p.locals, p.status, "preflight") = Expected(req)
        BY <1>1, <2>1, PreflightAnswer
    <2> HIDE DEF p
    <2> QED BY <1>2, <2>1, <2>2
<1>5. CASE ServeUnrouted
    <2> DEFINE s == Resolve(t, req)
               found == Reads(req) /\ req.memory /\ req.file
               status == IF req.path = "invalid" THEN 400
                         ELSE IF req.path = "none" THEN 404
                         ELSE IF req.method = "OPTIONS" THEN 204 ELSE 405
    <2>1. /\ req.path # "health" /\ ~HasRoute(req) /\ ~IsPreflight(s, req) /\ UNCHANGED Rest
          /\ found => Answer([s EXCEPT !.allow = FALSE], 200, "file")
          /\ ~found => Answer(s, status, "route")
        BY <1>5 DEF ServeUnrouted
    <2>2. /\ found => Response([s EXCEPT !.allow = FALSE], 200, "file") = Expected(req)
          /\ ~found => Response(s, status, "route") = Expected(req)
        BY <1>1, <2>1, UnroutedAnswers
    <2> HIDE DEF s, found, status
    <2>3. CASE found
        BY <1>2, <2>1, <2>2, <2>3
    <2>4. CASE ~found
        BY <1>2, <2>1, <2>2, <2>4
    <2> QED BY <2>3, <2>4
<1> DEFINE p == FailReset(Prepared)
<1>6. ASSUME OnRoute
      PROVE  /\ Settled(Routed, req) /\ Settled(Prepared, req) /\ Settled(p, req)
             /\ OnItsRoute(req)
             /\ p.user = req.token /\ p.request = n /\ ~p.escape
    <2>1. /\ Settled(Routed, req) /\ Settled(Prepared, req) /\ Settled(p, req)
          /\ OnItsRoute(req)
        BY <1>1, <1>6, RoutedIs
    <2>2. Prepared \in Locals /\ Prepared.user = t.user /\ Prepared.request = n
          /\ ~Prepared.escape
        BY <1>1, RoutedLocals
    <2> QED BY <1>1, <2>1, <2>2, FailResets
<1>7. CASE BadQuery
    <2>1. OnRoute /\ ~req.query /\ Answer(Routed, 400, "query") /\ UNCHANGED Rest
        BY <1>7 DEF BadQuery
    <2>2. Response(Routed, 400, "query") = Expected(req)
        BY <1>6, <2>1, QueryAnswer
    <2> QED BY <1>2, <2>1, <2>2
<1>8. CASE NoMemory
    <2>1. /\ OnRoute /\ req.query /\ ~req.memory /\ Answer(Prepared, 503, "memory")
          /\ UNCHANGED Rest
        BY <1>8 DEF NoMemory
    <2>2. Response(Prepared, 503, "memory") = Expected(req)
        BY <1>6, <2>1, MemoryAnswer
    <2> QED BY <1>2, <2>1, <2>2
<1>9. CASE OpenapiRefused
    <2> DEFINE g == AuthGate(p, OpenapiNeeds(req))
    <2>1. /\ OnRoute /\ req.query /\ req.memory /\ req.path = "openapi" /\ g.failed # 0
          /\ Answer(g, 401, "openapi") /\ UNCHANGED Rest
        BY <1>9 DEF OpenapiRefused
    <2>2. Need(req) = OpenapiNeeds(req)
        BY <2>1 DEF Need
    <2> HIDE DEF p
    <2>3. Response(g, g.failed, "openapi") = Expected(req) /\ g.failed = 401
        BY <1>6, <2>1, <2>2, GateAnswers
    <2> HIDE DEF g
    <2> QED BY <1>2, <2>1, <2>3
<1>10. CASE Dispatch
    <2>1. OnRoute
        BY <1>10 DEF Dispatch
    <2>2. /\ Settled(p, req) /\ OnItsRoute(req)
          /\ p.user = req.token /\ p.request = n /\ ~p.escape
        BY <1>6, <2>1
    <2>3. p = FailReset(Prepared)
        OBVIOUS
    <2> HIDE DEF p
    <2> QED BY <1>1, <1>10, <2>2, <2>3, IsolatedDispatch
<1> QED BY <1>3, <1>4, <1>5, <1>7, <1>8, <1>9, <1>10 DEF Serve

(* What the wrapper does for each kind of body: it lets the handler run    *)
(* after nothing or after binding the body, or it refuses in the end.      *)
LEMMA BodyKinds ==
    ASSUME NEW r \in Request
    PROVE  LET b == Len(BodyActs(r)) IN
           /\ Entered(r) => /\ \A j \in 1..b : BodyActs(r)[j] = "bind"
                            /\ b # 0 <=> r.body = "json"
                            /\ b \in {0, 1}
           /\ ~Entered(r) => /\ b # 0 /\ BodyActs(r)[b] = "refuse"
                             /\ \A j \in 1..(b - 1) :
                                    BodyActs(r)[j] \notin {"raise", "refuse", "bind"}
                             /\ r.body = "broken" => b = 2 /\ BodyActs(r)[1] = "invalid"
                             /\ r.body = "param" => b = 1
                             /\ r.body = "json" => /\ r.bad # 0 /\ b = r.bad + 1
                                                   /\ \A j \in 1..r.bad :
                                                          BodyActs(r)[j] = "field"
<1>1. r.body \in {"none", "json", "broken", "param"} /\ r.bad \in Nat
    BY DEF Request
<1>2. CASE r.body = "none"
    BY <1>2, BodyOfNone DEF Entered
<1>3. CASE r.body = "json" /\ r.bad = 0
    BY <1>3, BodyOfJson DEF Entered
<1>4. CASE r.body = "broken"
    <2>1. /\ Len(BodyActs(r)) = 2 /\ BodyActs(r)[1] = "invalid" /\ BodyActs(r)[2] = "refuse"
        BY <1>4, BodyOfBroken
    <2>2. \A j \in 1..(2 - 1) : j = 1
        OBVIOUS
    <2> QED BY <1>4, <2>1, <2>2 DEF Entered
<1>5. CASE r.body = "param"
    <2>1. Len(BodyActs(r)) = 1 /\ BodyActs(r)[1] = "refuse"
        BY <1>5, BodyOfParam
    <2> QED BY <1>5, <2>1 DEF Entered
<1>6. CASE r.body = "json" /\ r.bad # 0
    <2>1. /\ Len(BodyActs(r)) = r.bad + 1 /\ BodyActs(r)[r.bad + 1] = "refuse"
          /\ \A j \in 1..r.bad : BodyActs(r)[j] = "field"
        BY <1>1, <1>6, BodyOfFields
    <2>2. (r.bad + 1) - 1 = r.bad /\ r.bad + 1 # 0
        BY <1>1
    <2> QED BY <1>6, <2>1, <2>2 DEF Entered
<1> QED BY <1>1, <1>2, <1>3, <1>4, <1>5, <1>6

(* A step of the script is one of the wrapper's or one of the handler's.   *)
LEMMA ScriptStep ==
    ASSUME NEW r \in Request, NEW j \in 1..Len(Script(r))
    PROVE  LET b == Len(BodyActs(r)) IN
           \/ j <= b /\ Script(r)[j] = BodyActs(r)[j]
           \/ j > b /\ j - b \in 1..Len(r.acts) /\ Script(r)[j] = r.acts[j - b]
                    /\ Script(r)[j] \in Acts
<1> DEFINE b == Len(BodyActs(r))
           q == Script(r)
<1>1. /\ b \in Nat /\ Len(r.acts) \in Nat /\ Len(q) = b + Len(r.acts)
      /\ \A i \in 1..b : q[i] = BodyActs(r)[i]
      /\ \A i \in 1..Len(r.acts) : q[b + i] = r.acts[i]
      /\ r.acts \in Seq(Acts)
    BY ScriptIs
<1>2. \A i \in 1..Len(r.acts) : r.acts[i] \in Acts
    BY <1>1, ElementOfSeq
<1>3. j \in 1..(b + Len(r.acts))
    BY <1>1
<1> HIDE DEF b, q
<1>4. CASE j <= b
    <2>1. j \in 1..b
        BY <1>1, <1>3, <1>4
    <2> QED BY <1>1, <1>4, <2>1 DEF b, q
<1>5. CASE j > b
    <2>1. j - b \in 1..Len(r.acts) /\ b + (j - b) = j
        BY <1>1, <1>3, <1>5
    <2>2. q[j] = r.acts[j - b] /\ r.acts[j - b] \in Acts
        BY <1>1, <1>2, <2>1
    <2> QED BY <1>5, <2>1, <2>2 DEF b, q
<1> QED BY <1>1, <1>3, <1>4, <1>5

(* The body is bound first, if at all.                                     *)
LEMMA BindsFirst ==
    ASSUME NEW r \in Request, NEW j \in 1..Len(Script(r)), Script(r)[j] = "bind"
    PROVE  j = 1
<1> DEFINE b == Len(BodyActs(r))
<1>1. b \in Nat
    BY ScriptIs
<1>2. "bind" \notin Acts
    BY DEF Acts
<1>3. j <= b /\ BodyActs(r)[j] = "bind"
    BY <1>2, ScriptStep
<1>4. CASE Entered(r)
    <2>1. b \in {0, 1}
        BY <1>4, BodyKinds
    <2> QED BY <1>3, <2>1
<1>5. CASE ~Entered(r)
    <2>1. /\ BodyActs(r)[b] = "refuse"
          /\ \A i \in 1..(b - 1) : BodyActs(r)[i] # "bind"
        BY <1>5, BodyKinds
    <2>2. j = b \/ j \in 1..(b - 1)
        BY <1>1, <1>3
    <2> QED BY <1>3, <2>1, <2>2
<1> QED BY <1>4, <1>5

(* A wrapper that refuses does it before any call of the handler.          *)
LEMMA RefusesEarly ==
    ASSUME NEW r \in Request, ~Entered(r), NEW k \in 0..Len(Script(r)),
           \A j \in 1..k : Script(r)[j] \notin {"raise", "refuse"}
    PROVE  LET b == Len(BodyActs(r)) IN
           /\ k + 1 \in 1..Len(Script(r)) /\ k < b
           /\ Script(r)[k + 1] # "raise"
           /\ Script(r)[k + 1] = "refuse" => k + 1 = b
<1> DEFINE b == Len(BodyActs(r))
           q == Script(r)
<1>1. /\ b \in Nat /\ Len(r.acts) \in Nat /\ Len(q) = b + Len(r.acts)
      /\ \A i \in 1..b : q[i] = BodyActs(r)[i]
    BY ScriptIs
<1>2. /\ b # 0 /\ BodyActs(r)[b] = "refuse"
      /\ \A j \in 1..(b - 1) : BodyActs(r)[j] \notin {"raise", "refuse"}
    BY BodyKinds
<1> HIDE DEF b, q
<1>3. k \in Nat /\ ~(b \in 1..k)
    <2>1. b \in 1..b
        BY <1>1, <1>2
    <2>2. q[b] = "refuse"
        BY <1>1, <1>2, <2>1
    <2> QED BY <2>2 DEF q
<1>4. k < b
    BY <1>1, <1>2, <1>3
<1>5. k + 1 \in 1..b /\ k + 1 \in 1..(b + Len(r.acts))
    BY <1>1, <1>3, <1>4
<1>6. q[k + 1] = BodyActs(r)[k + 1]
    BY <1>1, <1>5
<1>7. k + 1 = b \/ k + 1 \in 1..(b - 1)
    BY <1>1, <1>3, <1>5
<1>8. q[k + 1] # "raise" /\ (q[k + 1] = "refuse" => k + 1 = b)
    BY <1>2, <1>6, <1>7
<1> QED BY <1>1, <1>4, <1>5, <1>8 DEF b, q

(* The handler ends, with every call up to its end or its throw done.      *)
LEMMA EnteredLands ==
    ASSUME NEW r \in Request, Admitted(r), Entered(r), NEW s, NEW rest, NEW k,
           Runs(s, rest, r, k), Len(rest) \in Nat, NEW thrown \in BOOLEAN,
           ~thrown => Len(rest) = 0,
           thrown => Len(rest) # 0 /\ rest[1] = "raise"
    PROVE  /\ thrown => Landing(Fail(s, 404, "none", "raise"), 0, r)
           /\ ~thrown => Landing(s, IF s.failed # 0 \/ r.fits THEN 0 ELSE -1, r)
<1> DEFINE b == Len(BodyActs(r))
           q == Script(r)
           i == k - b
<1>1. /\ b \in Nat /\ Len(r.acts) \in Nat /\ Len(q) = b + Len(r.acts)
      /\ \A j \in 1..Len(r.acts) : q[b + j] = r.acts[j]
      /\ \A j \in 1..b : q[j] = BodyActs(r)[j]
      /\ r.acts \in Seq(Acts)
    BY ScriptIs
<1>2. /\ k \in Nat /\ Progress(s, q, k, r) /\ Len(q) = k + Len(rest)
      /\ \A j \in 1..k : q[j] \notin {"raise", "refuse"}
      /\ \A j \in 1..Len(rest) : rest[j] = q[k + j]
    BY DEF Runs
<1>3. (\A j \in 1..b : q[j] = "bind") /\ (b # 0 <=> r.body = "json")
    BY <1>1, BodyKinds
<1>4. \A j \in 1..Len(r.acts) : r.acts[j] \in Acts
    BY <1>1, ElementOfSeq
<1> HIDE DEF b, q
<1>5. thrown => k + 1 \in 1..(b + Len(r.acts)) /\ q[k + 1] = "raise"
    <2> SUFFICES ASSUME thrown PROVE k + 1 \in 1..(b + Len(r.acts)) /\ q[k + 1] = "raise"
        OBVIOUS
    <2>1. 1 \in 1..Len(rest)
        OBVIOUS
    <2> QED BY <1>1, <1>2, <2>1
<1>6. b <= k
    <2>1. CASE thrown
        <3>1. ~(k + 1 \in 1..b)
            BY <1>3, <1>5, <2>1
        <3> QED BY <1>1, <1>2, <3>1
    <2>2. CASE ~thrown
        BY <1>1, <1>2, <2>2
    <2> QED BY <2>1, <2>2
<1>7. i \in 0..Len(r.acts) /\ b + i = k
    BY <1>1, <1>2, <1>6
<1>8. (thrown <=> i # Len(r.acts)) /\ (thrown => r.acts[i + 1] = "raise")
    <2>1. CASE thrown
        <3>0. k \in Nat /\ b \in Nat /\ Len(r.acts) \in Nat /\ k + 1 \in 1..(b + Len(r.acts))
            BY <1>1, <1>2, <1>5, <2>1
        <3>1. i # Len(r.acts) /\ i + 1 \in 1..Len(r.acts) /\ b + (i + 1) = k + 1
            BY <1>6, <3>0
        <3>2. r.acts[i + 1] = q[k + 1]
            BY <1>1, <3>1
        <3> QED BY <1>5, <2>1, <3>1, <3>2
    <2>2. CASE ~thrown
        BY <1>1, <1>2, <1>7, <2>2
    <2> QED BY <2>1, <2>2
<1> HIDE DEF i
<1>9. \A j \in 1..i : q[b + j] = r.acts[j] /\ r.acts[j] \in Acts \ {"raise"}
    <2> SUFFICES ASSUME NEW j \in 1..i
                 PROVE  q[b + j] = r.acts[j] /\ r.acts[j] \in Acts \ {"raise"}
        OBVIOUS
    <2>0. i \in 0..Len(r.acts) /\ b + i = k /\ b \in Nat /\ Len(r.acts) \in Nat
        BY <1>1, <1>7
    <2>1. j \in 1..Len(r.acts) /\ b + j \in 1..k
        BY <2>0
    <2> QED BY <1>1, <1>2, <1>4, <2>1
<1>10. Covered(r, i)
    BY <1>7, <1>8, <1>9 DEF Covered
<1>11. Behind(q, b, r.acts, i)
    <2>1. b \in Nat /\ i \in Nat /\ \A j \in 1..b : q[j] = "bind"
        BY <1>1, <1>3, <1>7
    <2> QED BY <1>9, <2>1 DEF Behind
<1>12. BadFields(r) = 0
    BY PassesBody
<1>13. Complete(r, q, k) /\ (FailsBy(r, "raise") <=> i # Len(r.acts) /\ Harmless(q, k))
    <2>1. /\ Complete(r, q, b + i)
          /\ FailsBy(r, "raise") <=> i # Len(r.acts) /\ Harmless(q, b + i)
        BY <1>3, <1>10, <1>11, <1>12, Completes, Zenon
    <2>2. b + i = k
        BY <1>7
    <2> QED BY <2>1, <2>2, Zenon
<1>14. FailsBy(r, "raise") <=> thrown /\ Harmless(q, k)
    BY <1>8, <1>13
<1> QED BY <1>2, <1>13, <1>14, HandledLands

(* The wrapper refuses, with what it found of the parameters and the body. *)
LEMMA RefusedLands ==
    ASSUME NEW r \in Request, Admitted(r), NEW s, NEW rest, NEW k,
           Runs(s, rest, r, k), Len(rest) \in Nat, Len(rest) # 0, rest[1] = "refuse"
    PROVE  Landing(s, -2, r)
<1> DEFINE b == Len(BodyActs(r))
           q == Script(r)
<1>1. /\ k \in Nat /\ Progress(s, q, k, r) /\ Len(q) = k + Len(rest)
      /\ \A j \in 1..k : q[j] \notin {"raise", "refuse"}
      /\ q[k + 1] = "refuse"
    BY DEF Runs
<1>2. k \in 0..Len(q) /\ k + 1 \in 1..Len(q)
    BY <1>1
<1>3. b \in Nat /\ \A j \in 1..b : q[j] = BodyActs(r)[j]
    BY ScriptIs
<1>4. ~Entered(r)
    <2> SUFFICES ASSUME Entered(r) PROVE FALSE
        OBVIOUS
    <2>1. \A j \in 1..b : BodyActs(r)[j] = "bind"
        BY BodyKinds
    <2>2. "refuse" \notin Acts
        BY DEF Acts
    <2>3. k + 1 <= b /\ q[k + 1] = BodyActs(r)[k + 1]
        BY <1>1, <1>2, <2>2, ScriptStep
    <2>4. k + 1 \in 1..b
        BY <1>1, <1>3, <2>3
    <2> QED BY <1>1, <2>1, <2>3, <2>4
<1>5. k + 1 = b
    BY <1>1, <1>2, <1>4, RefusesEarly
<1>6. r.body \in {"none", "json", "broken", "param"} /\ r.bad \in Nat
    BY DEF Request
<1>7. CASE r.body = "broken"
    <2>1. b = 2 /\ BodyActs(r)[1] = "invalid"
        BY <1>4, <1>7, BodyKinds
    <2>2. k = 1 /\ q[1] = "invalid"
        BY <1>1, <1>3, <1>5, <2>1
    <2> QED BY <1>1, <1>7, <2>2, BrokenLands
<1>8. CASE r.body = "param"
    <2>1. b = 1
        BY <1>4, <1>8, BodyKinds
    <2>2. k = 0
        BY <1>1, <1>5, <2>1
    <2> QED BY <1>1, <1>8, <2>2, ParamLands
<1>9. CASE r.body = "json"
    <2>1. r.bad # 0 /\ b = r.bad + 1 /\ \A j \in 1..r.bad : BodyActs(r)[j] = "field"
        BY <1>4, <1>9, BodyKinds
    <2>2. k = r.bad /\ \A j \in 1..r.bad : q[j] = "field"
        BY <1>1, <1>3, <1>5, <1>6, <2>1
    <2>3. Progress(s, q, r.bad, r)
        BY <1>1, <2>2
    <2> HIDE DEF q, b
    <2> QED BY <1>6, <1>9, <2>1, <2>2, <2>3, FieldsLand
<1> QED BY <1>4, <1>6, <1>7, <1>8, <1>9 DEF Entered

(* The handler, its end and its answer.                                    *)
LEMMA IsolatedHandler ==
    ASSUME ServingInv, Isolation, Handler
    PROVE  Isolation'
<1>1. ASSUME pc = "handler"
      PROVE  /\ req \in Request /\ Running(t, todo, req) /\ todo \in Seq(Steps)
             /\ t \in Locals /\ t.request \in {0, n} /\ t.body \in {0, n}
             /\ n \in 0..MaxRequests /\ n # 0
    <2>1. req \in Requests /\ Running(t, todo, req) /\ todo \in Seq(Steps)
          /\ t \in Locals /\ t.request \in {0, n} /\ t.body \in {0, n}
          /\ n \in 0..MaxRequests /\ n > 0
        BY <1>1 DEF ServingInv, TypeOK, Bound, NothingDangles, Isolation, Steps
    <2> QED BY <2>1, ServingAssumption
<1>2. CASE Act
    <2>1. /\ pc = "handler" /\ todo # <<>> /\ Head(todo) \notin {"raise", "refuse"}
          /\ t' = Do(t, Head(todo)) /\ todo' = Tail(todo)
          /\ pc' = pc /\ req' = req
        BY <1>2 DEF Act, Rest
    <2>2. /\ req \in Request /\ Running(t, todo, req) /\ todo \in Seq(Steps)
          /\ t.request \in {0, n} /\ t.body \in {0, n}
          /\ n \in 0..MaxRequests /\ n # 0
        BY <1>1, <2>1
    <2> DEFINE q == Script(req)
    <2>3. PICK k \in 0..Len(q) : Runs(t, todo, req, k)
        BY <2>2 DEF Running
    <2>4. /\ Head(todo) = todo[1] /\ Len(todo) \in Nat \ {0} /\ todo[1] \in Steps
          /\ Len(Tail(todo)) = Len(todo) - 1
          /\ \A j \in 1..(Len(todo) - 1) : Tail(todo)[j] = todo[j + 1]
        BY <2>1, <2>2, HeadTailProperties, ElementOfSeq
    <2>5. /\ k \in Nat /\ Progress(t, q, k, req) /\ Len(q) = k + Len(todo)
          /\ \A j \in 1..k : q[j] \notin {"raise", "refuse"}
          /\ \A j \in 1..Len(todo) : todo[j] = q[k + j]
        BY <2>3 DEF Runs
    <2>6. q[k + 1] = Head(todo) /\ k + 1 \in 1..Len(q)
        BY <2>4, <2>5
    <2>7. q[k + 1] \in (Acts \cup {"invalid", "bind"}) \ {"raise"}
        BY <2>1, <2>4, <2>6 DEF Steps
    <2>8. q[k + 1] = "bind" => k = 0
        BY <2>2, <2>5, <2>6, BindsFirst
    <2> HIDE DEF q
    <2>9. t.request = n
        BY <2>2, <2>5 DEF Progress
    <2>10. Progress(t', q, k + 1, req)
        BY <2>1, <2>2, <2>5, <2>6, <2>7, <2>8, <2>9, DoStep
    <2>11. \A j \in 1..(k + 1) : q[j] \notin {"raise", "refuse"}
        BY <2>1, <2>5, <2>6
    <2>12. /\ k + 1 \in Nat /\ Len(q) = (k + 1) + Len(todo')
           /\ \A j \in 1..Len(todo') : todo'[j] = q[(k + 1) + j]
        BY <2>1, <2>4, <2>5
    <2>13. Runs(t', todo', req, k + 1)
        BY <2>10, <2>11, <2>12 DEF Runs, q
    <2>14. Running(t', todo', req)
        BY <2>2, <2>6, <2>13 DEF Running, q
    <2> QED BY <2>1, <2>14 DEF Isolation
<1>3. ASSUME NEW s \in Locals, NEW result, Land(s, result), Landing(s, result, req)
      PROVE  Isolation'
    <2>1. Landing([s EXCEPT !.escape = FALSE], result, req)
        BY <1>3, EscapeOff
    <2> QED BY <1>3, <2>1 DEF Land, Rest, Isolation
<1>4. CASE Raise
    <2>1. /\ pc = "handler" /\ todo # <<>> /\ Head(todo) = "raise"
          /\ Land(Fail(t, 404, "none", "raise"), 0)
        BY <1>4 DEF Raise
    <2>2. PICK k \in 0..Len(Script(req)) : Runs(t, todo, req, k)
        BY <1>1, <2>1 DEF Running
    <2>3. Len(todo) \in Nat /\ Len(todo) # 0 /\ todo[1] = "raise"
        BY <1>1, <2>1, HeadTailProperties
    <2>4. req \in Request /\ Admitted(req) /\ t \in Locals
        BY <1>1, <2>1 DEF Running
    <2>5. Entered(req)
        <3>1. ~Entered(req) => Script(req)[k + 1] # "raise"
            BY <2>2, <2>4, RefusesEarly DEF Runs
        <3>2. Script(req)[k + 1] = "raise"
            BY <2>2, <2>3 DEF Runs
        <3> QED BY <3>1, <3>2
    <2>6. TRUE \in BOOLEAN
        OBVIOUS
    <2>7. Landing(Fail(t, 404, "none", "raise"), 0, req)
        BY <2>2, <2>3, <2>4, <2>5, <2>6, EnteredLands
    <2>8. Fail(t, 404, "none", "raise") \in Locals
        <3>1. 404 \in Statuses /\ "none" \in Codes /\ "raise" \in Reasons
            BY DEF Statuses, Codes, Reasons
        <3> QED BY <2>4, <3>1, Fails
    <2> QED BY <1>3, <2>1, <2>7, <2>8
<1>5. CASE Refuse
    <2>1. pc = "handler" /\ todo # <<>> /\ Head(todo) = "refuse" /\ Land(t, -2)
        BY <1>5 DEF Refuse
    <2>2. PICK k \in 0..Len(Script(req)) : Runs(t, todo, req, k)
        BY <1>1, <2>1 DEF Running
    <2>3. Len(todo) \in Nat /\ Len(todo) # 0 /\ todo[1] = "refuse"
        BY <1>1, <2>1, HeadTailProperties
    <2>4. req \in Request /\ Admitted(req) /\ t \in Locals
        BY <1>1, <2>1 DEF Running
    <2>5. Landing(t, -2, req)
        BY <2>2, <2>3, <2>4, RefusedLands
    <2> QED BY <1>3, <2>1, <2>4, <2>5
<1>6. CASE Return
    <2> DEFINE result == IF t.failed # 0 \/ req.fits THEN 0 ELSE -1
    <2>1. pc = "handler" /\ todo = <<>> /\ Land(t, result)
        BY <1>6 DEF Return
    <2>2. PICK k \in 0..Len(Script(req)) : Runs(t, todo, req, k)
        BY <1>1, <2>1 DEF Running
    <2>3. Len(todo) = 0
        BY <2>1
    <2>4. req \in Request /\ Admitted(req) /\ t \in Locals
        BY <1>1, <2>1 DEF Running
    <2>5. Entered(req)
        <3>1. ~Entered(req) => k + 1 \in 1..Len(Script(req))
            BY <2>2, <2>4, RefusesEarly DEF Runs
        <3>2. k = Len(Script(req)) /\ k \in Nat
            BY <2>2, <2>3 DEF Runs
        <3> QED BY <3>1, <3>2
    <2>6. FALSE \in BOOLEAN /\ Len(todo) \in Nat
        BY <2>3
    <2>7. Landing(t, result, req)
        BY <2>2, <2>3, <2>4, <2>5, <2>6, EnteredLands
    <2> HIDE DEF result
    <2> QED BY <1>3, <2>1, <2>4, <2>7
<1>7. CASE HandlerError \/ HandlerOK
    <2>1. pc = "landed" /\ Landing(t, rc, req) /\ rc \in {-2, -1, 0} /\ req' = req
        BY <1>7 DEF HandlerError, HandlerOK, Rest, Isolation, ServingInv, TypeOK
    <2>2. ASSUME NEW status, NEW why, Answer(t, status, why),
                 Response(t, status, why) = Expected(req)
          PROVE  Isolation'
        BY <2>1, <2>2, IsolatedAnswer
    <2>3. CASE t.failed # 0
        <3>1. Answer(t, t.failed, "none")
            BY <1>7, <2>3 DEF HandlerError, HandlerOK
        <3>2. Response(t, t.failed, "none") = Expected(req)
            BY <2>1, <2>3 DEF Landing
        <3> QED BY <2>2, <3>1, <3>2
    <2>4. CASE t.failed = 0 /\ rc = -2
        <3>1. Answer(t, 400, "parameter")
            BY <1>7, <2>4 DEF HandlerError, HandlerOK
        <3>2. Response(t, 400, "parameter") = Expected(req)
            BY <2>1, <2>4 DEF Landing
        <3> QED BY <2>2, <3>1, <3>2
    <2>5. CASE t.failed = 0 /\ rc = -1
        <3>1. Answer(t, 500, "large")
            BY <1>7, <2>5 DEF HandlerError, HandlerOK
        <3>2. Response(t, 500, "large") = Expected(req)
            BY <2>1, <2>5 DEF Landing
        <3> QED BY <2>2, <3>1, <3>2
    <2>6. CASE t.failed = 0 /\ rc = 0
        <3> DEFINE status == IF t.override # 0 THEN t.override ELSE 200
        <3>1. Answer(t, status, "result")
            BY <1>7, <2>6 DEF HandlerError, HandlerOK
        <3>2. Response(t, status, "result") = Expected(req)
            BY <2>1, <2>6 DEF Landing
        <3> HIDE DEF status
        <3> QED BY <2>2, <3>1, <3>2
    <2> QED BY <2>1, <2>3, <2>4, <2>5, <2>6
<1> QED BY <1>2, <1>4, <1>5, <1>6, <1>7 DEF Handler

LEMMA IsolationStep ==
    ASSUME ServingInv, Isolation, [Next]_vars
    PROVE  Isolation'
<1>1. CASE Stop \/ DrainOver \/ UNCHANGED vars
    <2>1. UNCHANGED <<pc, t, req, todo, rc, last, answers>>
        BY <1>1 DEF Stop, DrainOver, vars
    <2> QED BY <2>1, IsolatedRest
<1>2. ASSUME NEW r \in Requests, Read(r) \/ ReadFails(r) PROVE Isolation'
    BY <1>2, IsolatedRead
<1> QED BY <1>1, <1>2, IsolatedLoop, IsolatedLimit, IsolatedServe, IsolatedHandler
        DEF Next, Over

-----------------------------------------------------------------------------
(* The theorems.                                                           *)

(* The types of the worker's variables.                                    *)
THEOREM ServingTypeCorrect == Spec => []TypeOK
<1>1. ServingInv => TypeOK
    BY DEF ServingInv
<1> QED BY <1>1, ServingInvariance, PTL

(* No request sees the bound request, the arena, the parsed body or the    *)
(* memory of another, however the one before it ended.                     *)
THEOREM NothingIsLeftBound == Spec => []NothingDangles
<1>1. ServingInv => NothingDangles
    BY DEF ServingInv, Bound
<1> QED BY <1>1, ServingInvariance, PTL

(* The resets of finish_request and of reset_response_state leave none of  *)
(* the thread-local variables out: every request is read in the state in   *)
(* which the thread began.                                                 *)
THEOREM EveryRequestStartsAfresh == Spec => [](pc = "read" => t = Zero /\ memory = {})
<1>1. ServingInv => (pc = "read" => t = Zero /\ memory = {})
    BY DEF ServingInv, Bound, NothingDangles
<1> QED BY <1>1, ServingInvariance, PTL

(* A handler runs only for a request whose own credentials suffice, never  *)
(* with those of the request before it.                                    *)
THEOREM HandlersAreAuthorised == Spec => []Authorised
<1>1. ServingInv => Authorised
    BY DEF ServingInv, Credentials
<1> QED BY <1>1, ServingInvariance, PTL

(* The Connection header is true, for every limit of requests.             *)
THEOREM ConnectionHeaderIsTrue == Spec => []KeepsItsWord
<1>1. ServingInv => KeepsItsWord
    BY DEF ServingInv, Counted
<1> QED BY <1>1, ServingInvariance, PTL

(* An answer depends on its own request only.  Whatever requests the       *)
(* worker served before, on this connection or on another, in whatever     *)
(* order and however they ended (answered, refused, thrown, cut off), and  *)
(* whatever the handler calls, the status, the error, its fields, the      *)
(* headers and the body of an answer are those that the rules give for its *)
(* own request alone.                                                      *)
THEOREM AnswersAreIsolated == Spec => []Isolated
<1>1. Init => Isolation
    BY DEF Init, Isolation
<1>2. ServingInv /\ Isolation /\ [Next]_vars => Isolation'
    BY IsolationStep
<1>3. ServingInv /\ Isolation => Isolated
    BY DEF Isolation, Isolated
<1> QED BY <1>1, <1>2, <1>3, ServingInvariance, PTL DEF Spec
=============================================================================
