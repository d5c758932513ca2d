----------------------------- MODULE MCServing ------------------------------
(* Instances of Serving for TLC.                                           *)
EXTENDS Serving

Plain == [read |-> 1, limited |-> FALSE, method |-> "GET", path |-> "route",
          file |-> FALSE, origin |-> "none", ask |-> "none", token |-> "none",
          needs |-> "public", query |-> TRUE, memory |-> TRUE, body |-> "none",
          bad |-> 0, acts |-> <<>>, fits |-> TRUE, minor |-> 1,
          connection |-> "none"]

Acting(a) == [Plain EXCEPT !.acts = a]

(* Requests that end in the handler, each leaving something behind.        *)
Handled ==
    {Acting(<<"request", "key">>), Acting(<<"header", "location", "status">>),
     Acting(<<"location", "field", "fail", "field", "field">>),
     Acting(<<"fail", "field", "raise">>), Acting(<<"header", "raise", "status">>),
     [Acting(<<"key">>) EXCEPT !.body = "json", !.method = "POST"],
     [Plain EXCEPT !.fits = FALSE],
     [Acting(<<"header">>) EXCEPT !.method = "OPTIONS", !.origin = "listed"],
     [Plain EXCEPT !.method = "HEAD", !.minor = 0, !.connection = "keep-alive"],
     [Plain EXCEPT !.needs = "admin", !.token = "admin"]}

(* Requests that end before it.                                            *)
Early ==
    {[Plain EXCEPT !.read = -2, !.method = "HEAD"], [Plain EXCEPT !.read = -3],
     [Plain EXCEPT !.read = 0], [Plain EXCEPT !.limited = TRUE],
     [Plain EXCEPT !.path = "bad"], [Plain EXCEPT !.query = FALSE],
     [Plain EXCEPT !.memory = FALSE], [Plain EXCEPT !.needs = "any"],
     [Plain EXCEPT !.needs = "admin", !.token = "user"],
     [Plain EXCEPT !.needs = "user", !.token = "admin"],
     [Plain EXCEPT !.path = "openapi", !.needs = "user"],
     [Plain EXCEPT !.body = "broken", !.acts = <<"key">>],
     [Plain EXCEPT !.body = "param", !.acts = <<"header">>],
     [Plain EXCEPT !.body = "json", !.bad = 3]}

(* Requests without a route, and preflights.                               *)
Unrouted ==
    {[Plain EXCEPT !.path = "health", !.method = "HEAD"],
     [Plain EXCEPT !.path = "health", !.method = "POST"],
     [Plain EXCEPT !.path = "other", !.file = TRUE],
     [Plain EXCEPT !.path = "other", !.method = "POST", !.origin = "listed"],
     [Plain EXCEPT !.path = "none"],
     [Plain EXCEPT !.path = "invalid", !.connection = "close"]}
    \cup {[Plain EXCEPT !.path = "other", !.method = "OPTIONS", !.origin = o, !.ask = a] :
             o \in {"listed", "other"}, a \in {"none", "bad", "denied", "headers"}}

AllRequests == Handled \cup Early \cup Unrouted
=============================================================================
