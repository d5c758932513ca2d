------------------------------ MODULE Serving -------------------------------
(***************************************************************************)
(* One worker serving requests one after the other: handle_connection and  *)
(* serve_request (src/server/server_worker.c, server_serve.c,              *)
(* server_http.c) with the thread-local state that every layer keeps for   *)
(* the current request: credentials (runtime/auth.c), failure and field    *)
(* errors (runtime/runtime_error.c), parsed body (runtime/runtime_body.c), *)
(* bound request and arena, escape (runtime/runtime_api.c), response       *)
(* headers and status (http/response.c), and what send_bytes puts into a   *)
(* response (server.c).                                                    *)
(*                                                                         *)
(* The thread-local variables are the fields of t.  A request is a record  *)
(* of the facts the code asks about it, see Request.  Transactions and the *)
(* bytes of a connection have modules of their own.                        *)
(***************************************************************************)
EXTENDS Integers, SequencesExt

CONSTANTS Requests,     \* what may be sent, see Request
          MaxRequests,  \* requests over all connections
          MaxConns,     \* connections
          KeepMax,      \* SERVER_KEEPALIVE_MAX
          MaxFields,    \* ERROR_FIELDS_MAX
          Cors          \* cors.origins is set

(* What a route wrapper and its handler do, in their order: set a header,  *)
(* the Location or the status, fail, add a field error, throw, look for a  *)
(* key of the body or for a header of the request.                         *)
Acts == {"header", "location", "status", "fail", "field", "raise", "key", "request"}

(* read     the result of read_request                                     *)
(* limited  client_limit refuses it                                        *)
(* path     what split_path, is_health_path and the route table make of it;*)
(*          "other" is a path that only other methods have                 *)
(* file     a static file of that name exists                              *)
(* origin   the Origin header against cors.origins                         *)
(* ask      the preflight headers                                          *)
(* token    what secret_equals says of the Authorization header            *)
(* needs    the credentials its route is declared with: "any" of           *)
(*          $authenticated or security.enabled, or those of one role       *)
(* query    query_parse accepts it                                         *)
(* memory   arena_alloc has room for the response                          *)
(* body     the JSON body the route asks for, bad its number of bad fields;*)
(*          "param" when a parameter is not the number it should be        *)
(* fits     the result can be written                                      *)
Request ==
    [read : {-3, -2, -1, 0, 1}, limited : BOOLEAN,
     method : {"GET", "HEAD", "POST", "OPTIONS"},
     path : {"bad", "health", "none", "other", "invalid", "route", "openapi"},
     file : BOOLEAN, origin : {"none", "listed", "other"},
     ask : {"none", "bad", "denied", "plain", "headers"},
     token : {"none", "user", "admin"}, needs : {"public", "any", "user", "admin"},
     query : BOOLEAN, memory : BOOLEAN, body : {"none", "json", "broken", "param"},
     bad : Nat, acts : Seq(Acts), fits : BOOLEAN,
     minor : {0, 1}, connection : {"none", "close", "keep-alive"}]

ASSUME ServingAssumption ==
    /\ Requests \subseteq Request
    /\ MaxRequests \in Nat /\ MaxConns \in Nat
    /\ KeepMax \in Nat \ {0} /\ MaxFields \in Nat \ {0}
    /\ Cors \in BOOLEAN

VARIABLES
    pc,       \* where the worker is
    t,        \* its thread-local variables
    n,        \* number of the current request
    req,      \* the current request
    todo,     \* what its handler has still to do
    rc,       \* what the handler returned
    memory,   \* requests with memory in the worker's arena
    conn,     \* number of the connection
    served,   \* the counter of handle_connection
    stop,     \* g_stop
    drain,    \* g_drain_over
    last,     \* the latest answer
    answers,  \* answers to the current request
    keep,     \* keep_alive of serve_request
    told      \* "keep", "close" or "cut": how the latest answer ended

vars == <<pc, t, n, req, todo, rc, memory, conn, served, stop, drain, last,
          answers, keep, told>>

Statuses == {0, 200, 201, 204, 400, 401, 403, 404, 405, 409, 413, 417, 429, 500, 503}

Headers == {"Retry-After", "WWW-Authenticate", "X", "Location", "Key", "Own", "Foreign"}

Codes == {"none", "validation_failed", "invalid_json"}

Reasons ==
    {"none", "authentication", "permission", "validation", "json", "fail", "raise"}

Locals ==
    [user : {"none", "user", "admin"}, failed : Statuses, code : Codes,
     why : Reasons, errors : 0..MaxFields, truncated : BOOLEAN,
     body : 0..MaxRequests, headers : SUBSET Headers, override : Statuses,
     head : BOOLEAN, cors : BOOLEAN, preflight : BOOLEAN,
     allow : BOOLEAN, origin : BOOLEAN, requested : BOOLEAN,
     request : 0..MaxRequests, arena : BOOLEAN, escape : BOOLEAN]

(* Thread-local variables begin as zeros.                                  *)
Zero ==
    [user |-> "none", failed |-> 0, code |-> "none", why |-> "none", errors |-> 0,
     truncated |-> FALSE, body |-> 0, headers |-> {}, override |-> 0,
     head |-> FALSE, cors |-> FALSE, preflight |-> FALSE,
     allow |-> FALSE, origin |-> FALSE, requested |-> FALSE,
     request |-> 0, arena |-> FALSE, escape |-> FALSE]

Nothing == [status |-> 0]

TypeOK ==
    /\ pc \in {"idle", "top", "read", "limit", "serve", "handler", "landed",
               "log", "close"}
    /\ t \in Locals
    /\ n \in 0..MaxRequests
    /\ req \in Requests \cup {Nothing}
    /\ todo \in Seq(Acts \cup {"invalid", "bind", "refuse"})
    /\ rc \in {-2, -1, 0}
    /\ memory \subseteq 1..MaxRequests
    /\ conn \in 0..MaxConns /\ served \in 0..KeepMax
    /\ stop \in BOOLEAN /\ drain \in BOOLEAN
    /\ answers \in 0..1
    /\ keep \in BOOLEAN
    /\ told \in {"keep", "close", "cut"}

Init ==
    /\ pc = "idle" /\ t = Zero /\ n = 0 /\ req = Nothing /\ todo = <<>> /\ rc = 0
    /\ memory = {} /\ conn = 0 /\ served = 0 /\ stop = FALSE /\ drain = FALSE
    /\ last = Nothing /\ answers = 0 /\ keep = FALSE
    /\ told = "keep"

-----------------------------------------------------------------------------
(* The functions of the thread-local state, from a state to the next one.  *)

(* auth_reset.                                                             *)
AuthReset(s) == [s EXCEPT !.user = "none"]

(* auth_bind.                                                              *)
AuthBind(s, r) == [AuthReset(s) EXCEPT !.user = r.token]

(* body_reset.                                                             *)
BodyReset(s) == [s EXCEPT !.body = 0]

(* request_fail_reset.                                                     *)
FailReset(s) ==
    [BodyReset(s) EXCEPT !.failed = 0, !.why = "none", !.code = "none",
                         !.errors = 0, !.truncated = FALSE]

(* response_reset.                                                         *)
ResponseReset(s) == [s EXCEPT !.headers = {}, !.override = 0]

(* Variant: response_allow is forgotten.                                   *)
ResetKeepsAllow(s) ==
    [ResponseReset(FailReset(AuthReset(s)))
     EXCEPT !.head = FALSE, !.cors = FALSE, !.preflight = FALSE,
            !.origin = FALSE, !.requested = FALSE]

(* reset_response_state.                                                   *)
ResetResponseState(s) ==
    [ResponseReset(FailReset(AuthReset(s)))
     EXCEPT !.head = FALSE, !.cors = FALSE, !.preflight = FALSE,
            !.allow = FALSE, !.origin = FALSE, !.requested = FALSE]

(* cors_prepare: an origin of the list is answered to.                     *)
CorsPrepare(s, r) ==
    [s EXCEPT !.cors = Cors,
              !.origin = IF Cors /\ r.origin = "listed" THEN TRUE ELSE @]

(* request_fail_code, and request_fail with no code: the first one.        *)
Fail(s, status, code, why) ==
    IF s.failed # 0 THEN s
    ELSE [s EXCEPT !.failed = status, !.code = code, !.why = why]

(* field_error_add.                                                        *)
FieldErrorAdd(s) ==
    IF s.failed # 0 /\ s.code # "validation_failed" THEN s
    ELSE LET f == Fail(s, 400, "validation_failed", "validation")
         IN IF f.errors >= MaxFields THEN [f EXCEPT !.truncated = TRUE]
            ELSE [f EXCEPT !.errors = @ + 1]

(* response_header.                                                        *)
Header(s, h) == [s EXCEPT !.headers = @ \cup {h}]

(* Variant: any credentials will do.                                       *)
GateAnyRole(s, needs) ==
    IF needs = "public" THEN s
    ELSE IF s.user = "none"
         THEN Fail(Header(s, "WWW-Authenticate"), 401, "none", "authentication")
    ELSE s

(* auth_gate: a failure when the credentials do not suffice.  A role is    *)
(* compared as it is: an admin has not the role user.                      *)
AuthGate(s, needs) ==
    IF needs = "public" THEN s
    ELSE IF s.user = "none"
         THEN Fail(Header(s, "WWW-Authenticate"), 401, "none", "authentication")
    ELSE IF needs # "any" /\ s.user # needs THEN Fail(s, 403, "none", "permission")
    ELSE s

-----------------------------------------------------------------------------
(* Sending.                                                                *)

(* send_response, send_bytes, error_json_write, response_write and         *)
(* write_cors_headers: what a response holds.                              *)
Response(s, status, why) ==
    LET error == status >= 400
        active == error /\ s.failed = status
    IN [status |-> status,
        code |-> IF active THEN s.code ELSE "none",
        why |-> IF active THEN s.why ELSE why,
        errors |-> IF active THEN s.errors ELSE 0,
        truncated |-> active /\ s.truncated,
        headers |-> IF error THEN s.headers \ {"Location"} ELSE s.headers,
        allow |-> s.allow,
        vary |-> <<s.cors, s.cors /\ s.preflight>>,
        origin |-> s.origin,
        methods |-> s.origin /\ s.preflight /\ status = 204,
        requested |-> s.origin /\ s.preflight /\ status = 204 /\ s.requested,
        body |-> ~s.head /\ status # 204]

(* The response is sent whole, or the socket fails.                        *)
Send(s, status, why, kept) ==
    \/ /\ last' = Response(s, status, why)
       /\ answers' = answers + 1
       /\ told' = IF kept THEN "keep" ELSE "close"
    \/ told' = "cut" /\ UNCHANGED <<last, answers>>

(* Variant: the last request that the loop allows is answered with         *)
(* keep-alive.                                                             *)
KeepAlivePastMax ==
    /\ \/ req.minor = 1 /\ req.connection # "close"
       \/ req.minor = 0 /\ req.connection = "keep-alive"
    /\ ~stop
    /\ served # KeepMax

(* keep_alive_wanted.                                                      *)
KeepAliveWanted ==
    /\ \/ req.minor = 1 /\ req.connection # "close"
       \/ req.minor = 0 /\ req.connection = "keep-alive"
    /\ ~stop
    /\ served # KeepMax - 1

Answer(s, status, why) ==
    /\ t' = s
    /\ Send(s, status, why, keep)
    /\ pc' = "log"

-----------------------------------------------------------------------------
(* handle_connection.                                                      *)

(* worker_main takes a connection.                                         *)
Take ==
    /\ pc = "idle" /\ conn < MaxConns /\ n < MaxRequests
    /\ conn' = conn + 1 /\ served' = 0 /\ told' = "keep"
    /\ pc' = "top"
    /\ UNCHANGED <<t, n, req, todo, rc, memory, stop, drain, last, answers, keep>>

(* The head of the loop.                                                   *)
Top ==
    /\ pc = "top" /\ served < KeepMax /\ ~drain
    /\ t' = ResetResponseState(t)
    /\ pc' = "read"
    /\ UNCHANGED <<n, req, todo, rc, memory, conn, served, stop, drain, last,
                   answers, keep, told>>

TopEnds ==
    /\ pc = "top" /\ (served = KeepMax \/ drain)
    /\ pc' = "close"
    /\ UNCHANGED <<t, n, req, todo, rc, memory, conn, served, stop, drain,
                   last, answers, keep, told>>

(* read_request succeeds; then cors_prepare and auth_bind.                 *)
Read(r) ==
    /\ pc = "read" /\ r.read = 1 /\ n < MaxRequests
    /\ n' = n + 1 /\ req' = r /\ answers' = 0
    /\ t' = AuthBind(CorsPrepare([t EXCEPT !.head = r.method = "HEAD"], r), r)
    /\ pc' = "limit"
    /\ UNCHANGED <<todo, rc, memory, conn, served, stop, drain, last, keep, told>>

(* read_request fails; send_read_error answers 413 and 417.                *)
ReadFails(r) ==
    LET s == [t EXCEPT !.head = r.method = "HEAD"] IN
    /\ pc = "read" /\ r.read # 1 /\ n < MaxRequests
    /\ n' = n + 1 /\ req' = r
    /\ t' = s
    /\ \/ /\ r.read \in {-3, -2}
          /\ \/ /\ last' = Response(s, IF r.read = -2 THEN 413 ELSE 417, "read")
                /\ answers' = 1 /\ told' = "close"
             \/ UNCHANGED last /\ answers' = 0 /\ told' = "cut"
       \/ /\ r.read \in {-1, 0}
          /\ answers' = 0 /\ told' = "cut"
          /\ UNCHANGED last
    /\ pc' = "close"
    /\ UNCHANGED <<todo, rc, memory, conn, served, stop, drain, keep>>

(* client_limit refuses the request.                                       *)
Limited ==
    /\ pc = "limit" /\ req.limited
    /\ t' = Header(t, "Retry-After")
    /\ Send(t', 429, "limit", FALSE)
    /\ pc' = "close"
    /\ UNCHANGED <<n, req, todo, rc, memory, conn, served, stop, drain, keep>>

(* split_path refuses the path.                                            *)
BadUrl ==
    /\ pc = "limit" /\ ~req.limited /\ req.path = "bad"
    /\ Send(t, 400, "url", FALSE)
    /\ pc' = "close"
    /\ UNCHANGED <<t, n, req, todo, rc, memory, conn, served, stop, drain, keep>>

Accepted ==
    /\ pc = "limit" /\ ~req.limited /\ req.path # "bad"
    /\ pc' = "serve" /\ keep' = KeepAliveWanted
    /\ UNCHANGED <<t, n, req, todo, rc, memory, conn, served, stop, drain,
                   last, answers, told>>

-----------------------------------------------------------------------------
(* serve_request.                                                          *)

Rest == <<n, req, conn, served, stop, drain, keep>>

HasRoute(r) == r.path \in {"route", "openapi"}

Reads(r) == r.method \in {"GET", "HEAD"}

(* serve_health for /health/live.                                          *)
ServeHealth ==
    /\ pc = "serve" /\ req.path = "health"
    /\ IF Reads(req) THEN Answer(t, 200, "up")
       ELSE Answer([t EXCEPT !.allow = TRUE],
                   IF req.method = "OPTIONS" THEN 204 ELSE 405, "health")
    /\ UNCHANGED <<Rest, todo, rc, memory>>

(* resolve_route: route_allow writes response_allow.                       *)
Resolve(s, r) ==
    IF HasRoute(r) /\ r.method # "OPTIONS" THEN s
    ELSE [s EXCEPT !.allow = HasRoute(r) \/ r.path = "other"]

IsPreflight(s, r) == s.cors /\ r.method = "OPTIONS" /\ r.ask # "none"

(* cors_preflight and the end of serve_preflight.                          *)
Preflight(s, r) ==
    LET status == IF r.ask = "bad" THEN 400
                  ELSE IF ~s.origin \/ ~s.allow \/ r.ask = "denied" THEN 403
                  ELSE 204
    IN [status |-> status,
        locals |-> [s EXCEPT !.preflight = TRUE,
                             !.origin = @ /\ status = 204,
                             !.requested = status = 204 /\ r.ask = "headers"]]

ServePreflight ==
    LET s == Resolve(t, req)
        p == Preflight(s, req)
    IN
    /\ pc = "serve" /\ req.path # "health" /\ IsPreflight(s, req)
    /\ Answer(p.locals, p.status, "preflight")
    /\ UNCHANGED <<Rest, todo, rc, memory>>

(* No route: serve_static, else serve_missing_route.  The room for the     *)
(* file is taken before it is known to exist.                              *)
ServeUnrouted ==
    LET s == Resolve(t, req)
        tried == Reads(req) /\ req.memory
    IN
    /\ pc = "serve" /\ req.path # "health" /\ ~HasRoute(req)
    /\ ~IsPreflight(s, req)
    /\ memory' = IF tried THEN memory \cup {n} ELSE memory
    /\ IF tried /\ req.file THEN Answer([s EXCEPT !.allow = FALSE], 200, "file")
       ELSE Answer(s, IF req.path = "invalid" THEN 400
                      ELSE IF req.path = "none" THEN 404
                      ELSE IF req.method = "OPTIONS" THEN 204 ELSE 405, "route")
    /\ UNCHANGED <<Rest, todo, rc>>

(* The state in which a routed request goes on.                            *)
Routed ==
    LET s == Resolve(t, req)
    IN IF req.method = "OPTIONS" THEN s ELSE [s EXCEPT !.allow = FALSE]

OnRoute == pc = "serve" /\ HasRoute(req) /\ ~IsPreflight(Resolve(t, req), req)

BadQuery ==
    /\ OnRoute /\ ~req.query
    /\ Answer(Routed, 400, "query")
    /\ UNCHANGED <<Rest, todo, rc, memory>>

(* prepare_handler up to its allocation: request_bind and arena_bind.      *)
Prepared == [Routed EXCEPT !.request = n, !.arena = TRUE]

NoMemory ==
    /\ OnRoute /\ req.query /\ ~req.memory
    /\ Answer(Prepared, 503, "memory")
    /\ UNCHANGED <<Rest, todo, rc, memory>>

(* openapi_needs_auth asks for any user, the wrapper for its route's.      *)
OpenapiNeeds(r) == IF r.needs = "public" THEN "public" ELSE "any"

OpenapiRefused ==
    LET s == AuthGate(FailReset(Prepared), OpenapiNeeds(req)) IN
    /\ OnRoute /\ req.query /\ req.memory /\ req.path = "openapi" /\ s.failed # 0
    /\ memory' = memory \cup {n}
    /\ Answer(s, 401, "openapi")
    /\ UNCHANGED <<Rest, todo, rc>>

(* What the wrapper does with parameters and body before it calls the      *)
(* handler: json_read_mode reports every bad field, the wrapper returns -2.*)
BodyActs(r) ==
    IF r.body = "none" THEN <<>>
    ELSE IF r.body = "broken" THEN <<"invalid", "refuse">>
    ELSE IF r.body = "param" THEN <<"refuse">>
    ELSE IF r.bad = 0 THEN <<"bind">>
    ELSE [i \in 1..r.bad |-> "field"] \o <<"refuse">>

(* dispatch_route and the first line of the wrapper.  An escape that is    *)
(* still set makes dispatch_route return at once.                          *)
Dispatch ==
    LET p == FailReset(Prepared)
        s == AuthGate([p EXCEPT !.escape = TRUE],
                      IF req.path = "openapi" THEN "public" ELSE req.needs)
        gated == AuthGate(p, OpenapiNeeds(req))
    IN
    /\ OnRoute /\ req.query /\ req.memory
    /\ req.path = "openapi" => gated.failed = 0
    /\ memory' = memory \cup {n}
    /\ IF p.escape THEN t' = p /\ pc' = "landed" /\ rc' = -1 /\ UNCHANGED todo
       ELSE IF s.failed # 0
       THEN /\ t' = [s EXCEPT !.escape = FALSE]
            /\ pc' = "landed" /\ rc' = 0 /\ UNCHANGED todo
       ELSE /\ t' = s /\ pc' = "handler" /\ todo' = BodyActs(req) \o req.acts
            /\ UNCHANGED rc
    /\ UNCHANGED <<Rest, last, answers, told>>

(* A call of the handler that returns to it.                               *)
Do(s, a) ==
    CASE a = "header" -> Header(s, "X")
      [] a = "location" -> Header(s, "Location")
      [] a = "status" -> [s EXCEPT !.override = 201]
      [] a = "fail" -> Fail(s, 409, "none", "fail")
      [] a = "field" -> FieldErrorAdd(s)
      [] a = "invalid" -> Fail(s, 400, "invalid_json", "json")
      [] a = "bind" -> [s EXCEPT !.body = n]
      [] a = "key" -> IF s.body # 0 THEN Header(s, "Key") ELSE s
      [] a = "request" -> IF s.request = 0 THEN s
                          ELSE Header(s, IF s.request = n THEN "Own" ELSE "Foreign")

Act ==
    /\ pc = "handler" /\ todo # <<>> /\ Head(todo) \notin {"raise", "refuse"}
    /\ t' = Do(t, Head(todo)) /\ todo' = Tail(todo)
    /\ UNCHANGED <<Rest, pc, rc, memory, last, answers, told>>

(* The end of dispatch_route.                                              *)
Land(s, result) ==
    /\ t' = [s EXCEPT !.escape = FALSE]
    /\ rc' = result /\ todo' = <<>> /\ pc' = "landed"
    /\ UNCHANGED <<Rest, memory, last, answers, told>>

(* request_raise jumps over the rest of the handler and of the wrapper.    *)
Raise ==
    /\ pc = "handler" /\ todo # <<>> /\ Head(todo) = "raise"
    /\ Land(Fail(t, 404, "none", "raise"), 0)

Refuse ==
    /\ pc = "handler" /\ todo # <<>> /\ Head(todo) = "refuse"
    /\ Land(t, -2)

(* The handler returns, and the wrapper writes the result.                 *)
Return ==
    /\ pc = "handler" /\ todo = <<>>
    /\ Land(t, IF t.failed # 0 \/ req.fits THEN 0 ELSE -1)

(* serve_handler_error.                                                    *)
HandlerError ==
    /\ pc = "landed" /\ (t.failed # 0 \/ rc # 0)
    /\ IF t.failed # 0 THEN Answer(t, t.failed, "none")
       ELSE IF rc = -2 THEN Answer(t, 400, "parameter")
       ELSE Answer(t, 500, "large")
    /\ UNCHANGED <<Rest, todo, rc, memory>>

(* The status of the route unless response_status chose another.           *)
HandlerOK ==
    /\ pc = "landed" /\ t.failed = 0 /\ rc = 0
    /\ Answer(t, IF t.override # 0 THEN t.override ELSE 200, "result")
    /\ UNCHANGED <<Rest, todo, rc, memory>>

(* Variant: finish_request leaves the request bound.                       *)
FinishKeepsRequest(s) == [FailReset(AuthReset(s)) EXCEPT !.arena = FALSE]

(* finish_request.                                                         *)
FinishRequest(s) ==
    [FailReset(AuthReset(s)) EXCEPT !.request = 0, !.arena = FALSE]

(* The end of the loop, with consume_message and served++.                 *)
Finish ==
    /\ pc = "log"
    /\ t' = FinishRequest(t) /\ memory' = {}
    /\ IF told # "keep" \/ drain THEN pc' = "close" /\ UNCHANGED served
       ELSE pc' = "top" /\ served' = served + 1
    /\ UNCHANGED <<n, req, todo, rc, conn, stop, drain, last, answers, keep, told>>

(* worker_main closes the connection.                                      *)
Close ==
    /\ pc = "close"
    /\ pc' = "idle" /\ memory' = {}
    /\ UNCHANGED <<t, n, req, todo, rc, conn, served, stop, drain, last,
                   answers, keep, told>>

(* g_stop is set by a signal, g_drain_over by the main thread.             *)
Stop ==
    /\ ~stop /\ stop' = TRUE
    /\ UNCHANGED <<pc, t, n, req, todo, rc, memory, conn, served, drain, last,
                   answers, keep, told>>

DrainOver ==
    /\ ~drain /\ drain' = TRUE
    /\ UNCHANGED <<pc, t, n, req, todo, rc, memory, conn, served, stop, last,
                   answers, keep, told>>

Serve ==
    \/ ServeHealth \/ ServePreflight \/ ServeUnrouted \/ BadQuery \/ NoMemory
    \/ OpenapiRefused \/ Dispatch

Handler == Act \/ Raise \/ Refuse \/ Return \/ HandlerError \/ HandlerOK

(* The bounds are reached.                                                 *)
Over ==
    /\ \/ pc = "read" /\ n = MaxRequests
       \/ pc = "idle" /\ (n = MaxRequests \/ conn = MaxConns)
    /\ UNCHANGED vars

Next ==
    \/ Take \/ Top \/ TopEnds \/ Limited \/ BadUrl \/ Accepted
    \/ (\E r \in Requests : Read(r) \/ ReadFails(r))
    \/ Serve \/ Handler \/ Finish \/ Close \/ Stop \/ DrainOver \/ Over

Spec == Init /\ [][Next]_vars

-----------------------------------------------------------------------------
(* The answer that a request deserves, without any state.                  *)

Meets(token, needs) ==
    needs = "public" \/ token = needs \/ (needs = "any" /\ token # "none")

(* The calls that the handler makes, up to its first throw.                *)
Ran(r) == {i \in DOMAIN r.acts : \A j \in 1..(i - 1) : r.acts[j] # "raise"}

Calls(r, a) == \E i \in Ran(r) : r.acts[i] = a

(* The first of them that fails is an a.                                   *)
FailsBy(r, a) ==
    \E i \in DOMAIN r.acts :
        /\ r.acts[i] = a
        /\ \A j \in 1..(i - 1) : r.acts[j] \notin {"fail", "field", "raise"}

(* The bad fields of its body, or those that the handler finds.            *)
BadFields(r) == IF r.body = "json" THEN r.bad ELSE 0

FieldErrors(r) ==
    IF BadFields(r) > 0 THEN BadFields(r)
    ELSE IF FailsBy(r, "field") THEN Cardinality({i \in Ran(r) : r.acts[i] = "field"})
    ELSE 0

(* The rules in the order of their precedence.                             *)
Rules(r) ==
    LET rule(when, status, why) == [when |-> when, status |-> status, why |-> why]
        asks == Cors /\ r.method = "OPTIONS" /\ r.ask # "none"
        need == IF r.path = "openapi" THEN OpenapiNeeds(r) ELSE r.needs
    IN << rule(r.read = -2, 413, "read"),
          rule(r.read = -3, 417, "read"),
          rule(r.limited, 429, "limit"),
          rule(r.path = "bad", 400, "url"),
          rule(r.path = "health" /\ Reads(r), 200, "up"),
          rule(r.path = "health" /\ r.method = "OPTIONS", 204, "health"),
          rule(r.path = "health", 405, "health"),
          rule(asks /\ r.ask = "bad", 400, "preflight"),
          rule(asks /\ (r.origin # "listed" \/ r.ask = "denied"
                        \/ r.path \in {"none", "invalid"}), 403, "preflight"),
          rule(asks, 204, "preflight"),
          rule(~HasRoute(r) /\ Reads(r) /\ r.file /\ r.memory, 200, "file"),
          rule(r.path = "invalid", 400, "route"),
          rule(r.path = "none", 404, "route"),
          rule(r.path = "other" /\ r.method = "OPTIONS", 204, "route"),
          rule(r.path = "other", 405, "route"),
          rule(~r.query, 400, "query"),
          rule(~r.memory, 503, "memory"),
          rule(need # "public" /\ r.token = "none", 401, "authentication"),
          rule(~Meets(r.token, need), 403, "permission"),
          rule(r.body = "broken", 400, "json"),
          rule(r.body = "param", 400, "parameter"),
          rule(BadFields(r) > 0, 400, "validation"),
          rule(FailsBy(r, "field"), 400, "validation"),
          rule(FailsBy(r, "fail"), 409, "fail"),
          rule(FailsBy(r, "raise"), 404, "raise"),
          rule(~r.fits, 500, "large"),
          rule(TRUE, IF Calls(r, "status") THEN 201 ELSE 200, "result") >>

RuleOf(r) == Rules(r)[SelectInSeq(Rules(r), LAMBDA x : x.when)]

Expected(r) ==
    LET rule == RuleOf(r)
        handled == rule.why \in {"validation", "fail", "raise", "large", "result"}
                   /\ BadFields(r) = 0
        asked == rule.why = "preflight"
        named == Cors /\ r.origin = "listed" /\ r.read = 1
                 /\ (asked => rule.status = 204)
    IN [status |-> rule.status,
        code |-> IF rule.why = "validation" THEN "validation_failed"
                 ELSE IF rule.why = "json" THEN "invalid_json" ELSE "none",
        why |-> rule.why,
        errors |-> IF rule.why # "validation" THEN 0
                   ELSE IF FieldErrors(r) > MaxFields THEN MaxFields ELSE FieldErrors(r),
        truncated |-> rule.why = "validation" /\ FieldErrors(r) > MaxFields,
        headers |-> (IF rule.status = 429 THEN {"Retry-After"} ELSE {})
               \cup (IF rule.status = 401 THEN {"WWW-Authenticate"} ELSE {})
               \cup (IF handled /\ Calls(r, "header") THEN {"X"} ELSE {})
               \cup (IF handled /\ Calls(r, "location") /\ rule.status < 400
                     THEN {"Location"} ELSE {})
               \cup (IF handled /\ Calls(r, "key") /\ r.body = "json"
                     THEN {"Key"} ELSE {})
               \cup (IF handled /\ Calls(r, "request") THEN {"Own"} ELSE {}),
        allow |-> \/ rule.why = "health"
                  \/ rule.why \in {"preflight", "route"} /\ r.path = "other"
                  \/ /\ HasRoute(r) /\ r.method = "OPTIONS"
                     /\ rule.why \notin {"read", "limit"},
        vary |-> <<Cors /\ r.read = 1, asked>>,
        origin |-> named,
        methods |-> asked /\ rule.status = 204,
        requested |-> asked /\ rule.status = 204 /\ r.ask = "headers",
        body |-> r.method # "HEAD" /\ rule.status # 204]

-----------------------------------------------------------------------------
(* Properties.                                                             *)

(* An answer depends on its own request only: whatever requests the worker *)
(* served before, on this connection or on another, and however they       *)
(* ended, the answer is the one that the request deserves.                 *)
Isolated == pc \in {"log", "close"} /\ answers = 1 => last = Expected(req)

(* The bound request, the bound arena, the parsed body and the memory of a *)
(* request are never seen by another: they exist only while their own      *)
(* request is being served and answered.                                   *)
NothingDangles ==
    /\ t.request \in {0, n} /\ t.body \in {0, n} /\ memory \subseteq {n}
    /\ pc \notin {"handler", "landed", "log"} =>
           t.request = 0 /\ ~t.arena /\ t.body = 0
    /\ t.escape => pc = "handler"
    /\ pc \in {"top", "read", "idle"} => memory = {}

(* A handler runs only for a request whose own credentials suffice.        *)
Authorised ==
    pc = "handler" =>
        Meets(req.token, IF req.path = "openapi" THEN OpenapiNeeds(req) ELSE req.needs)

(* The Connection header is true.  After "close", or an answer that was    *)
(* cut off, nothing more is read; the next request is read only after the  *)
(* one before it was answered; and a worker that has told a client         *)
(* keep-alive closes its connection only when the drain is over, or when   *)
(* reading finds no next request: the client has left or said nothing in   *)
(* time (ReadFails), or what it sent is no request, which it is told.      *)
KeepsItsWord ==
    /\ pc \in {"top", "read"} => told = "keep" /\ (served > 0 => answers = 1)
    /\ pc = "close" /\ told = "keep" => drain
=============================================================================
