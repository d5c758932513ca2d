---------------------------- MODULE AtomicCommit ----------------------------
(***************************************************************************)
(* What the transaction layer promises, whatever its nesting, its failures *)
(* and the way a handler is left: the database changes by whole            *)
(* transactions, one writer at a time, it never loses a committed write,   *)
(* and the transaction of a request that has failed is never published.    *)
(***************************************************************************)
CONSTANTS Threads, Writes

VARIABLES committed,  \* the writes every reader sees
          pending,    \* what each thread's open transaction has written
          broken      \* the threads whose request has failed

absVars == <<committed, pending, broken>>

Quiet(t) == \A u \in Threads \ {t} : pending[u] = {}

(* The request of t may fail as a part of the step.                        *)
MayBreak(t) == broken' = broken \/ broken' = broken \cup {t}

AbsInit == committed = {} /\ pending = [t \in Threads |-> {}] /\ broken = {}

(* A statement inside a transaction.  No other thread has one open.        *)
Stage(t, w) ==
    /\ Quiet(t)
    /\ pending' = [pending EXCEPT ![t] = @ \cup {w}]
    /\ MayBreak(t)
    /\ UNCHANGED committed

(* A savepoint or the whole transaction is undone, or nothing is.          *)
Undo(t) ==
    /\ \E kept \in SUBSET pending[t] : pending' = [pending EXCEPT ![t] = kept]
    /\ MayBreak(t)
    /\ UNCHANGED committed

(* The outermost transaction commits, as one step.                         *)
Publish(t) ==
    /\ t \notin broken
    /\ committed' = committed \cup pending[t]
    /\ pending' = [pending EXCEPT ![t] = {}]
    /\ UNCHANGED broken

(* A statement outside any transaction is a transaction of its own.        *)
Plain(t, w) ==
    /\ Quiet(t) /\ pending[t] = {}
    /\ committed' = committed \cup {w}
    /\ MayBreak(t)
    /\ UNCHANGED pending

(* The request is over: it has left no transaction behind.                 *)
Finish(t) ==
    /\ pending[t] = {}
    /\ broken' = broken \ {t}
    /\ UNCHANGED <<committed, pending>>

AbsNext ==
    \E t \in Threads :
        \/ \E w \in Writes : Stage(t, w) \/ Plain(t, w)
        \/ Undo(t) \/ Publish(t) \/ Finish(t)

AbsSpec == AbsInit /\ [][AbsNext]_absVars
=============================================================================
