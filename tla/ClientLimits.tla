---------------------------- MODULE ClientLimits ----------------------------
(***************************************************************************)
(* client_limit (src/server/server.c): a fixed table of slots, one per     *)
(* peer address, that counts its open connections and the requests of its  *)
(* current window.  The slot of an address without connections is given    *)
(* away once its window is over.                                           *)
(*                                                                         *)
(* A call is two steps.  It reads the clock first and takes g_limit_lock   *)
(* then, and a thread that is preempted in between uses a time that is     *)
(* past by however much: now - window may even be negative.  What it does  *)
(* under the lock is one step.  (That the clock cannot be read is left     *)
(* out: CLOCK_MONOTONIC always can.)  The thread that accepts is the only one to *)
(* ask for a connection; it gives one back as well, when the queue is full *)
(* or cleared.  live and granted record what callers were told: the open   *)
(* connections of each address, and the requests of one of them, any one,  *)
(* with the time each was asked and granted at and the window it was       *)
(* counted in.                                                             *)
(***************************************************************************)
EXTENDS Integers, Sequences, FiniteSets

CONSTANTS Addresses,
          Workers,       \* the threads of g_workers
          Acceptor,      \* the thread of server_run
          NSlots,        \* 256
          Window,        \* 60 seconds
          ConnLimit,     \* g_connections_per_ip
          RequestLimit,  \* g_requests_per_minute
          MaxClock,      \* bound: the second at which the clock stops
          NoAddress

ASSUME LimitsAssumption ==
    /\ IsFiniteSet(Workers) /\ Acceptor \notin Workers
    /\ {NSlots, Window, ConnLimit, RequestLimit} \subseteq Nat \ {0}
    /\ MaxClock \in Nat
    /\ NoAddress \notin Addresses

VARIABLES table,    \* g_clients
          calls,    \* the calls under way: what was asked, and now
          clock,    \* CLOCK_MONOTONIC, in seconds
          live,     \* connections granted and not given back, per address
          watched,  \* one of the addresses
          granted   \* its requests that were granted, in the order of the lock

vars == <<table, calls, clock, live, watched, granted>>

Slots == 1..NSlots

Callers == Workers \cup {Acceptor}

Slot == [used : BOOLEAN, ip : Addresses \cup {NoAddress},
         connections : Nat, requests : Nat, window : Nat]

Call == [action : {"none", "connect", "request", "release"},
         ip : Addresses \cup {NoAddress}, now : Nat]

Grant == [by : Workers, now : Nat, at : Nat, window : Nat]

Empty == [used |-> FALSE, ip |-> NoAddress,
          connections |-> 0, requests |-> 0, window |-> 0]

NoCall == [action |-> "none", ip |-> NoAddress, now |-> 0]

TypeOK ==
    /\ table \in [Slots -> Slot]
    /\ calls \in [Callers -> Call]
    /\ clock \in Nat
    /\ live \in [Addresses -> Nat]
    /\ watched \in Addresses
    /\ granted \in Seq(Grant)

Init ==
    /\ table = [i \in Slots |-> Empty]
    /\ calls = [c \in Callers |-> NoCall]
    /\ clock = 0
    /\ live = [a \in Addresses |-> 0]
    /\ watched \in Addresses
    /\ granted = <<>>

-----------------------------------------------------------------------------
(* The scan of the table.                                                  *)

Owns(i, a) == table[i].used /\ table[i].ip = a

Known(a) == \E i \in Slots : Owns(i, a)

(* The first slot of the address.                                          *)
Its(i, a) == Owns(i, a) /\ \A j \in Slots : j < i => ~Owns(j, a)

(* Variant: a slot with open connections is given away.                    *)
ReusableBusy(i, now) == ~table[i].used \/ now - table[i].window >= Window

Reusable(i, now) ==
    \/ ~table[i].used
    \/ table[i].connections = 0 /\ now - table[i].window >= Window

(* The slot for a new address: the last one that is free.                  *)
Vacant(i, now) == Reusable(i, now) /\ \A j \in Slots : j > i => ~Reusable(j, now)

NewSlot(a, now) == [used |-> TRUE, ip |-> a,
                    connections |-> 0, requests |-> 0, window |-> now]

(* Variant: the start of the new window is not stored.                     *)
RenewedForgets(s, now) ==
    IF now - s.window >= Window THEN [s EXCEPT !.requests = 0] ELSE s

(* A window that is over starts again.                                     *)
Renewed(s, now) ==
    IF now - s.window >= Window
    THEN [s EXCEPT !.requests = 0, !.window = now] ELSE s

-----------------------------------------------------------------------------
(* The calls for connections of a that are open: one at most for each.     *)
Under(a) == {c \in Callers : calls[c].ip = a /\ calls[c].action # "connect"}

(* The first lines of client_limit: the clock is read.                     *)
Enter(c, a, action) ==
    /\ calls[c] = NoCall
    /\ action = "connect" => c = Acceptor
    /\ action = "request" => c \in Workers
    /\ action # "connect" => Cardinality(Under(a)) < live[a]
    /\ calls' = [calls EXCEPT ![c] = [action |-> action, ip |-> a, now |-> clock]]
    /\ UNCHANGED <<table, clock, live, watched, granted>>

(* The call of c is answered.                                              *)
Answered(c, action) ==
    /\ calls[c].action = action
    /\ calls' = [calls EXCEPT ![c] = NoCall]
    /\ UNCHANGED <<clock, watched>>

(* client_limit(ip, 1) on the slot s it found or took, at i.               *)
TakeConnection(a, i, s) ==
    IF s.connections < ConnLimit
    THEN /\ table' = [table EXCEPT ![i] = [s EXCEPT !.connections = @ + 1]]
         /\ live' = [live EXCEPT ![a] = @ + 1]
    ELSE /\ table' = [table EXCEPT ![i] = s]
         /\ UNCHANGED live

ConnectKnown(c) ==
    LET a == calls[c].ip  now == calls[c].now IN
    /\ Answered(c, "connect")
    /\ \E i \in Slots : Its(i, a) /\ TakeConnection(a, i, Renewed(table[i], now))
    /\ UNCHANGED granted

ConnectNew(c) ==
    LET a == calls[c].ip  now == calls[c].now IN
    /\ Answered(c, "connect")
    /\ ~Known(a)
    /\ \E i \in Slots : Vacant(i, now) /\ TakeConnection(a, i, NewSlot(a, now))
    /\ UNCHANGED granted

(* No slot is vacant: the connection is refused.                           *)
TableFull(c) ==
    /\ Answered(c, "connect")
    /\ ~Known(calls[c].ip) /\ \A i \in Slots : ~Reusable(i, calls[c].now)
    /\ UNCHANGED <<table, live, granted>>

(* client_limit(ip, 0), for a request on an open connection.               *)
Request(c) ==
    LET a == calls[c].ip  now == calls[c].now IN
    /\ Answered(c, "request")
    /\ \E i \in Slots :
          /\ Its(i, a)
          /\ LET s == Renewed(table[i], now) IN
             IF s.requests < RequestLimit
             THEN /\ table' = [table EXCEPT ![i] = [s EXCEPT !.requests = @ + 1]]
                  /\ granted' = IF a = watched
                                THEN Append(granted, [by |-> c, now |-> now,
                                        at |-> clock, window |-> s.window])
                                ELSE granted
             ELSE /\ table' = [table EXCEPT ![i] = s]
                  /\ UNCHANGED granted
    /\ UNCHANGED live

(* client_limit(ip, -1), for a connection that was granted.                *)
Release(c) ==
    LET a == calls[c].ip  now == calls[c].now IN
    /\ Answered(c, "release")
    /\ \E i \in Slots :
          /\ Its(i, a)
          /\ LET s == Renewed(table[i], now) IN
             table' = [table EXCEPT ![i] =
                         [s EXCEPT !.connections = IF @ > 0 THEN @ - 1 ELSE 0]]
    /\ live' = [live EXCEPT ![a] = @ - 1]
    /\ UNCHANGED granted

(* A second passes.                                                        *)
Tick ==
    /\ clock < MaxClock
    /\ clock' = clock + 1
    /\ UNCHANGED <<table, calls, live, watched, granted>>

Next ==
    \/ \E c \in Callers :
          \/ \E a \in Addresses, action \in {"connect", "request", "release"} :
                Enter(c, a, action)
          \/ ConnectKnown(c) \/ ConnectNew(c) \/ TableFull(c)
          \/ Request(c) \/ Release(c)
    \/ Tick

Spec == Init /\ [][Next]_vars

-----------------------------------------------------------------------------
(* Properties.                                                             *)

(* An address has one slot at most, which counts exactly its open          *)
(* connections and is not given away while there are any: this is the      *)
(* counter that ServerPool relies on (conns).                              *)
CountsLive ==
    \A a \in Addresses :
        /\ live[a] <= ConnLimit
        /\ live[a] > 0 => Known(a)
        /\ \A i \in Slots : Owns(i, a) => table[i].connections = live[a]
        /\ \A i, j \in Slots : Owns(i, a) /\ Owns(j, a) => i = j

(* The requests granted in the last Window seconds, and those of them that *)
(* were also asked in that time.                                           *)
Recent == {k \in DOMAIN granted : granted[k].at > clock - Window}

Prompt == {k \in Recent : granted[k].now > clock - Window}

(* The windows are fixed, not sliding, and one may start with a time that  *)
(* is past.  Of the calls that an address makes within the time of one     *)
(* window, two windows' worth are granted at most, although its slot may   *)
(* be given away and taken again in between; with the calls that were      *)
(* already under way when that time began, one of each worker, there is    *)
(* one more for each worker, however long a worker was preempted.          *)
RateBound ==
    /\ Cardinality(Prompt) <= 2 * RequestLimit
    /\ Cardinality(Recent) <= 2 * RequestLimit + Cardinality(Workers)
=============================================================================
