----------------------------- MODULE MCLibrary ------------------------------
(***************************************************************************)
(* The parts of the runtime library that share no state with each other:   *)
(* the client limits, the router, the arena, the store, the pages and the  *)
(* JSON reader.  A behaviour is one of one part, the others at rest, so    *)
(* that the run has the behaviours of each part and not their product.     *)
(***************************************************************************)
EXTENDS ClientLimits, Routing, Arena, Store, Paging, Json, TLC

CONSTANT Parts

VARIABLE part

AtRest == [tokens |-> 5, members |-> 2]

libraryVars == <<part, vars, routeVars, arenaVars, storeVars, pagingVars,
                 jsonVars>>

LibraryInit ==
    /\ part \in Parts
    /\ Init /\ RoutingInit /\ ArenaInit
    /\ StoreInit /\ (part # "store" => capacity = 1)
    /\ PagingInit /\ (part # "paging" => sortOf = <<>> /\ size = 0 /\ ~descending)
    /\ JsonInit /\ (part # "json" => limits = AtRest)

(* No address but the one that is watched is in the table or calls.        *)
Alone ==
    /\ \A i \in Slots : table[i].ip \in {watched, NoAddress}
    /\ \A c \in Callers : calls[c].ip \in {watched, NoAddress}

(* Bound: the last second is of one address alone.                         *)
LimitsStep ==
    /\ part = "limits" /\ Next
    /\ clock' < MaxClock \/ Alone'
    /\ UNCHANGED <<part, routeVars, arenaVars, storeVars, pagingVars, jsonVars>>

RoutingStep ==
    /\ part = "routing" /\ RoutingNext
    /\ UNCHANGED <<part, vars, arenaVars, storeVars, pagingVars, jsonVars>>

ArenaStep ==
    /\ part = "arena" /\ ArenaNext
    /\ UNCHANGED <<part, vars, routeVars, storeVars, pagingVars, jsonVars>>

StoreStep ==
    /\ part = "store" /\ StoreNext
    /\ UNCHANGED <<part, vars, routeVars, arenaVars, pagingVars, jsonVars>>

PagingStep ==
    /\ part = "paging" /\ PagingNext
    /\ UNCHANGED <<part, vars, routeVars, arenaVars, storeVars, jsonVars>>

JsonStep ==
    /\ part = "json" /\ JsonNext
    /\ UNCHANGED <<part, vars, routeVars, arenaVars, storeVars, pagingVars>>

LibraryNext ==
    LimitsStep \/ RoutingStep \/ ArenaStep \/ StoreStep \/ PagingStep
    \/ JsonStep

LibrarySpec == LibraryInit /\ [][LibraryNext]_libraryVars

-----------------------------------------------------------------------------
(* The addresses are used in no order.                                     *)
Alike == Permutations(Addresses)

-----------------------------------------------------------------------------
(* Literals and placeholders of the paths.                                 *)
L(name) == [dynamic |-> FALSE, name |-> name]
P(name) == [dynamic |-> TRUE, name |-> name]

MCPatterns == {
    <<>>, <<L("a")>>, <<P("x")>>, <<L("a"), P("x")>>, <<P("x"), L("b")>>,
    <<L("a"), L("b")>>, <<P("x"), P("y")>>, <<P("x"), P("x")>>,
    <<L("a"), L("..")>>, <<L("health")>> }

MCReserved == {<<L("health")>>}

MCPaths == {
    <<"">>, <<"a">>, <<"a", "">>, <<"b">>, <<"", "b">>, <<"a", "b">>,
    <<"a", "b", "">>, <<"b", "b">>, <<"a", "c">>, <<"long">>, <<"long", "b">>,
    <<"a", "long">>, <<"a", "", "">> }

-----------------------------------------------------------------------------
(* Two spellings of one key, another key, a string too long for a key.     *)
MCDecode == "a" :> "a" @@ "u0061" :> "a" @@ "b" :> "b" @@ "long" :> "long"

(* One limit of tokens and one of members that a text of ten lexemes can   *)
(* pass, and limits within which an object has two members.                *)
MCLimits == {[tokens |-> 4, members |-> 2], [tokens |-> 5, members |-> 1], AtRest}

MCNumber == "0" :> 0 @@ "1" :> 1
=============================================================================
