------------------------------ MODULE Routing -------------------------------
(***************************************************************************)
(* Routes, from the annotation to the answer: the generator accepts or     *)
(* refuses the table of an application (generator_route.c,                 *)
(* generator_validate.c), and the server looks a request up in it          *)
(* (src/http/route.c, resolve_route and serve_missing_route of             *)
(* server_serve.c).                                                        *)
(*                                                                         *)
(* A path is the sequence of the segments between its slashes: "/" is      *)
(* <<"">> and "/a/" is <<"a", "">>.  A segment of a pattern is a literal   *)
(* or a placeholder.  Long are the segments of PARAM_VALUE_LEN or more     *)
(* characters.                                                             *)
(***************************************************************************)
EXTENDS Integers, SequencesExt

CONSTANTS RouteMethods,   \* the methods an annotation may name
          AskMethods,     \* the methods a request may name
          Patterns,       \* the paths of annotations, sequences of Segment
          Reserved,       \* the paths the generator keeps for itself
          Paths,          \* the paths of requests
          LongValues,     \* segments too long for a parameter
          MaxRoutes,      \* routes of an application
          MaxSegments,    \* GENERATOR_MAX_ROUTE_SEGMENTS
          MaxParams       \* GENERATOR_MAX_PARAMS and PATH_PARAM_MAX

(* The empty string.                                                       *)
EmptyText == ""

Segment == [dynamic : BOOLEAN, name : STRING]

(* route_allow's own list, in its order; a request may use others.         *)
AllowOrder == <<"GET", "HEAD", "POST", "PUT", "PATCH", "DELETE", "OPTIONS">>

ASSUME RoutingAssumption ==
    /\ Patterns \subseteq Seq(Segment)
    /\ RouteMethods \subseteq {"GET", "POST", "PUT", "PATCH", "DELETE"}
    /\ Paths \subseteq Seq(STRING)
    /\ {MaxRoutes, MaxSegments, MaxParams} \subseteq Nat

VARIABLES routes,   \* the table, in the order of the source
          phase,    \* "source", "serving" or "refused"
          ask,      \* the request: a method and a path
          answer    \* what the server makes of it

routeVars == <<routes, phase, ask, answer>>

NoAnswer == [status |-> 0, route |-> 0, values |-> <<>>, allow |-> <<>>]

RoutingInit ==
    /\ routes = <<>> /\ phase = "source"
    /\ ask = [method |-> EmptyText, path |-> <<>>] /\ answer = NoAnswer

-----------------------------------------------------------------------------
(* The generator.                                                          *)

(* count_url_params and dynamic_segment_count.                             *)
Dynamics(pattern) == Cardinality({i \in DOMAIN pattern : pattern[i].dynamic})

(* validate_route_url: whole clean segments, no placeholder twice.         *)
UrlValid(pattern) ==
    /\ Len(pattern) <= MaxSegments /\ Dynamics(pattern) <= MaxParams
    /\ \A i \in DOMAIN pattern :
          ~pattern[i].dynamic => pattern[i].name \notin {EmptyText, ".", ".."}
    /\ \A i, j \in DOMAIN pattern :
          pattern[i].dynamic /\ pattern[j].dynamic
              /\ pattern[i].name = pattern[j].name => i = j

(* parse_route, as far as the table is concerned.                          *)
Declare(method, pattern) ==
    /\ phase = "source" /\ Len(routes) < MaxRoutes
    /\ IF UrlValid(pattern)
       THEN /\ routes' = Append(routes, [method |-> method, pattern |-> pattern])
            /\ UNCHANGED phase
       ELSE phase' = "refused" /\ UNCHANGED routes
    /\ UNCHANGED <<ask, answer>>

(* route_patterns_overlap: some path matches both.                         *)
Overlap(p, q) ==
    /\ Len(p) = Len(q)
    /\ \A i \in DOMAIN p : p[i].dynamic \/ q[i].dynamic \/ p[i].name = q[i].name

(* Variant: only identical paths clash.                                    *)
ClashIdentical(r, s) == r.method = s.method /\ r.pattern = s.pattern

(* validate_route_clashes.                                                 *)
Clash(r, s) ==
    /\ r.method = s.method /\ Dynamics(r.pattern) = Dynamics(s.pattern)
    /\ Overlap(r.pattern, s.pattern)

(* validate_routes, at the end of the sources.                             *)
Generate ==
    /\ phase = "source"
    /\ phase' = IF \/ \E i \in DOMAIN routes : routes[i].pattern \in Reserved
                   \/ \E i, j \in DOMAIN routes : i < j /\ Clash(routes[j], routes[i])
                THEN "refused" ELSE "serving"
    /\ UNCHANGED <<routes, ask, answer>>

-----------------------------------------------------------------------------
(* The server.                                                             *)

(* What the loop of path_matches sees of a path: it stops at the end of    *)
(* the string, so a last, empty segment is not there.                      *)
SeenOf(path) == IF path # <<>> /\ Last(path) = EmptyText THEN Front(path) ELSE path

(* The first segment at which pattern and path part, or at which a value   *)
(* is too long; path_matches does not look further.                        *)
PartWays(pattern, path, i) ==
    IF pattern[i].dynamic THEN path[i] = EmptyText \/ path[i] \in LongValues
    ELSE path[i] # pattern[i].name

(* path_matches: 1, 0 or -1.                                               *)
PathMatches(pattern, url) ==
    LET path  == SeenOf(url)
        both  == 1..(IF Len(pattern) < Len(path) THEN Len(pattern) ELSE Len(path))
        parts == {i \in both : PartWays(pattern, path, i)}
    IN  IF parts = {} THEN IF Len(pattern) = Len(path) THEN 1 ELSE 0
        ELSE LET i == CHOOSE i \in parts : \A j \in parts : i <= j
             IN  IF pattern[i].dynamic /\ path[i] \in LongValues THEN -1 ELSE 0

(* The state of the loop of route_find_exact; best = 0 is NULL.            *)
Scanned0 == [best |-> 0, least |-> MaxParams + 1, tie |-> FALSE, bad |-> FALSE]

(* One round of it.                                                        *)
ScanRoute(method, url, acc, k) ==
    LET r == routes[k]
        m == PathMatches(r.pattern, url)
        d == Dynamics(r.pattern)
    IN  IF r.method # method \/ m = 0 THEN acc
        ELSE IF m = -1 THEN [acc EXCEPT !.bad = TRUE]
        ELSE IF d < acc.least
             THEN [acc EXCEPT !.best = k, !.least = d, !.tie = FALSE]
        ELSE IF d = acc.least THEN [acc EXCEPT !.tie = TRUE] ELSE acc

RouteFindExact(method, url) ==
    LET scan[k \in 0..Len(routes)] ==
            IF k = 0 THEN Scanned0 ELSE ScanRoute(method, url, scan[k - 1], k)
        end == scan[Len(routes)]
    IN  IF end.best # 0 /\ ~end.tie
        THEN [route |-> end.best, invalid |-> FALSE]
        ELSE [route |-> 0, invalid |-> end.bad \/ end.tie]

(* route_find: HEAD is answered by GET.                                    *)
RouteFind(method, url) ==
    LET found == RouteFindExact(method, url)
    IN  IF found.route = 0 /\ ~found.invalid /\ method = "HEAD"
        THEN RouteFindExact("GET", url) ELSE found

(* Those of route_allow's methods with a route of their own.               *)
KnownMethods(url) ==
    LET known[k \in 0..Len(AllowOrder)] ==
            IF k = 0 THEN <<>>
            ELSE IF RouteFind(AllowOrder[k], url).route # 0
                 THEN Append(known[k - 1], AllowOrder[k]) ELSE known[k - 1]
    IN  known[Len(AllowOrder)]

(* Variant: only the methods of the table.                                 *)
AllowTable(url) == KnownMethods(url)

(* route_allow: the methods it lists; OPTIONS comes with any other.        *)
AllowList(url) ==
    LET known == KnownMethods(url)
    IN  IF known = <<>> \/ Last(known) = "OPTIONS" THEN known
        ELSE Append(known, "OPTIONS")

Allowed(url) ==
    IF AllowList(url) # <<>> THEN 1
    ELSE IF \E i \in DOMAIN AllowOrder : RouteFind(AllowOrder[i], url).invalid
         THEN -1 ELSE 0

(* The parameters path_matches copied, in the order of the path.           *)
Captured(pattern, url) ==
    LET at == SelectSeq([i \in DOMAIN pattern |-> i], LAMBDA i : pattern[i].dynamic)
    IN  [k \in DOMAIN at |-> SeenOf(url)[at[k]]]

(* resolve_route, and serve_missing_route when it finds none.              *)
Ask(method, url) ==
    /\ phase = "serving" /\ answer = NoAnswer
    /\ ask' = [method |-> method, path |-> url]
    /\ \E found \in {RouteFind(method, url)}, allowed \in {Allowed(url)} :
         answer' =
           [route  |-> found.route,
            status |-> IF found.route # 0 THEN 200
                       ELSE IF found.invalid \/ allowed < 0 THEN 400
                       ELSE IF allowed = 0 THEN 404
                       ELSE IF method = "OPTIONS" THEN 204 ELSE 405,
            values |-> IF found.route = 0 THEN <<>>
                       ELSE Captured(routes[found.route].pattern, url),
            allow  |-> IF found.route = 0 \/ method = "OPTIONS"
                       THEN AllowList(url) ELSE <<>>]
    /\ UNCHANGED <<routes, phase>>

RoutingNext ==
    \/ \E m \in RouteMethods, p \in Patterns : Declare(m, p)
    \/ Generate
    \/ \E m \in AskMethods, u \in Paths : Ask(m, u)

RoutingSpec == RoutingInit /\ [][RoutingNext]_routeVars

-----------------------------------------------------------------------------
(* Properties.                                                             *)

(* What it means for a path to belong to a route: the same segments, up to *)
(* one slash at the end, with a value for each placeholder.                *)
Belongs(url, pattern) ==
    \E path \in {url, SubSeq(url, 1, Len(url) - 1)} :
        /\ url \in {path, Append(path, EmptyText)}
        /\ Len(path) = Len(pattern)
        /\ \A i \in DOMAIN pattern :
              IF pattern[i].dynamic THEN path[i] # EmptyText /\ path[i] \notin LongValues
              ELSE path[i] = pattern[i].name

Serves(k, method, url) ==
    routes[k].method = method /\ Belongs(url, routes[k].pattern)

ServedAs(method) == IF method = "HEAD" THEN "GET" ELSE method

(* The most specific of the routes a request belongs to is called, and     *)
(* whatever the order of the source there is exactly one such route: a     *)
(* table that the generator accepts is never ambiguous.  A request that    *)
(* belongs to a route is never answered 400, 404 or 405.                   *)
MostSpecific ==
    answer # NoAnswer =>
        LET mine == {k \in DOMAIN routes : Serves(k, ServedAs(ask.method), ask.path)}
            best == {k \in mine : \A j \in mine :
                        Dynamics(routes[k].pattern) <= Dynamics(routes[j].pattern)}
        IN  IF mine = {} THEN answer.route = 0 ELSE best = {answer.route}

(* The methods some route serves at the path.                              *)
MethodsAt(url) ==
    {routes[k].method : k \in {k \in DOMAIN routes : Belongs(url, routes[k].pattern)}}

(* Without a route the status says why: 404 when no method has the path,   *)
(* 405 or 204 when others do, with exactly those in Allow, and 400 only    *)
(* for a value that is too long.                                           *)
StatusExplains ==
    answer # NoAnswer /\ answer.route = 0 =>
        LET there == MethodsAt(ask.path)
        IN  /\ answer.status = 404 => there = {}
            /\ answer.status \in {204, 405} =>
                 /\ there # {}
                 /\ ToSet(answer.allow) = there \cup {"OPTIONS"} \cup
                                 (IF "GET" \in there THEN {"HEAD"} ELSE {})
            /\ answer.status = 400 =>
                 \E i \in DOMAIN ask.path : ask.path[i] \in LongValues
=============================================================================
