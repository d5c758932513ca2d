---------------------------- MODULE Transactions ----------------------------
(***************************************************************************)
(* Transactions: the one SQLite connection shared by every thread, its     *)
(* lock, the depth each thread keeps (src/db/db_sqlite.c), the transaction *)
(* scopes of $transactional and $transaction, and the jump by which a      *)
(* failing handler is left (src/runtime/runtime_api.c).                    *)
(*                                                                         *)
(* A thread runs one request (or task) after another.  A request is any    *)
(* sequence of statements, scopes and throws.  A step is one call: at      *)
(* depth 0 a statement runs wholly under g_db_lock, and at depth > 0 the   *)
(* thread holds that lock between calls, so no other order is visible.     *)
(*                                                                         *)
(* SQLite is external: cur is what the connection sees and saved the       *)
(* snapshots of BEGIN and of each open SAVEPOINT, so saved = <<>> is what  *)
(* sqlite3_get_autocommit reports.                                         *)
(***************************************************************************)
EXTENDS Naturals, Sequences

CONSTANTS Threads,   \* workers and task threads
          Writes,    \* rows a statement may write
          MaxDepth,  \* the 16 of db_begin
          FaultSets, \* what may go wrong, the alternatives
          None

AllFaults == {"fail",      \* a statement fails, the request with it
              "silent",    \* a statement fails, the request does not
              "late",      \* db_insert_id fails after the row is written
              "abort",     \* a statement fails and SQLite rolls back
              "begin", "commit", "rollback",  \* a control statement fails
              "break"}     \* a scope is left without transaction_end

ASSUME TxAssumption ==
    /\ MaxDepth \in Nat \ {0}
    /\ FaultSets \subseteq SUBSET AllFaults
    /\ None \notin Threads

VARIABLES
    faults,       \* what may go wrong in this behaviour
    lock,         \* holder of g_db_lock between two calls
    open,         \* g_db # NULL
    cur,          \* the rows the connection sees
    saved,        \* the snapshots of the open transaction and savepoints
    pc,           \* where each thread is in serve_request
    depth,        \* t_depth
    failedLevel,  \* t_failed_level
    failed,       \* request_failed()
    scopes,       \* the levels of the active Transaction objects, outermost first
    group,        \* rows the outermost scope wrote inside its transaction
    stray,        \* rows it wrote when its transaction was gone
    bad,          \* a statement of the outermost scope failed
    clean         \* nothing has gone wrong in this request

dbVars    == <<lock, open, cur, saved, depth, failedLevel>>
ghostVars == <<group, stray, bad, clean>>
vars      == <<faults, dbVars, pc, failed, scopes, ghostVars>>

(* What survives if the connection is lost now.                            *)
Committed == IF saved = <<>> THEN cur ELSE saved[1]

InScope(t) == scopes[t] # <<>>

TypeOK ==
    /\ faults \in SUBSET AllFaults
    /\ lock \in Threads \cup {None}
    /\ open \in BOOLEAN
    /\ cur \in SUBSET Writes
    /\ saved \in Seq(SUBSET Writes)
    /\ pc \in [Threads -> {"idle", "run", "landed", "respond"}]
    /\ depth \in [Threads -> 0..MaxDepth]
    /\ failedLevel \in [Threads -> 0..MaxDepth]
    /\ failed \in [Threads -> BOOLEAN]
    /\ scopes \in [Threads -> Seq(1..MaxDepth)]
    /\ group \in [Threads -> SUBSET Writes]
    /\ stray \in [Threads -> SUBSET Writes]
    /\ bad \in [Threads -> BOOLEAN]
    /\ clean \in [Threads -> BOOLEAN]

Init ==
    /\ faults \in FaultSets
    /\ lock = None /\ open = TRUE /\ cur = {} /\ saved = <<>>
    /\ pc = [t \in Threads |-> "idle"]
    /\ depth = [t \in Threads |-> 0]
    /\ failedLevel = [t \in Threads |-> 0]
    /\ failed = [t \in Threads |-> FALSE]
    /\ scopes = [t \in Threads |-> <<>>]
    /\ group = [t \in Threads |-> {}] /\ stray = [t \in Threads |-> {}]
    /\ bad = [t \in Threads |-> FALSE] /\ clean = [t \in Threads |-> TRUE]

-----------------------------------------------------------------------------
(* Pieces of the code that several operations share.                       *)

(* db_lock: a thread in a transaction has the lock already.                *)
CanLock(t) == depth[t] > 0 \/ lock = None

(* if (t_depth && !t_failed_level) t_failed_level = t_depth.               *)
NoteFailure(t) ==
    failedLevel' = [failedLevel EXCEPT
                      ![t] = IF depth[t] > 0 /\ @ = 0 THEN depth[t] ELSE @]

(* db_abort_all; ok is the result of its ROLLBACK, which fails when there  *)
(* is no transaction any more.  One that fails and leaves the transaction  *)
(* open closes the connection, which drops the transaction as well.        *)
AbortAll(t, ok) ==
    IF depth[t] = 0
    THEN ok /\ UNCHANGED dbVars
    ELSE /\ IF saved = <<>> THEN ~ok ELSE ok \/ "rollback" \in faults
         /\ cur' = Committed
         /\ saved' = <<>>
         /\ open' \in IF ok \/ saved = <<>> THEN {open} ELSE BOOLEAN
         /\ depth' = [depth EXCEPT ![t] = 0]
         /\ failedLevel' = [failedLevel EXCEPT ![t] = 0]
         /\ lock' = None

(* Variant: the lock is kept.                                              *)
LeaveLocked(t) ==
    /\ depth' = [depth EXCEPT ![t] = IF saved' = <<>> THEN 0 ELSE @ - 1]
    /\ UNCHANGED lock

(* The innermost savepoint, or the transaction, is gone: t_depth is one    *)
(* less, or 0 when SQLite has no transaction any more, and db_unlock.      *)
Leave(t) ==
    /\ depth' = [depth EXCEPT ![t] = IF saved' = <<>> THEN 0 ELSE @ - 1]
    /\ lock' = IF saved' = <<>> THEN None ELSE lock

(* request_raise: the first failure stands, and siglongjmp goes straight   *)
(* back to dispatch_route: no transaction_cleanup runs on the way.         *)
Jump(t) ==
    /\ failed' = [failed EXCEPT ![t] = TRUE]
    /\ pc' = [pc EXCEPT ![t] = "landed"]
    /\ scopes' = [scopes EXCEPT ![t] = <<>>]

Trouble(t) == clean' = [clean EXCEPT ![t] = FALSE]

-----------------------------------------------------------------------------
(* A request.                                                              *)

(* reset_response_state, then dispatch_route calls the handler.            *)
BeginRequest(t) ==
    /\ pc[t] = "idle"
    /\ pc' = [pc EXCEPT ![t] = "run"]
    /\ group' = [group EXCEPT ![t] = {}]
    /\ stray' = [stray EXCEPT ![t] = {}]
    /\ bad' = [bad EXCEPT ![t] = FALSE]
    /\ clean' = [clean EXCEPT ![t] = TRUE]
    /\ UNCHANGED <<dbVars, failed, scopes>>

(* transaction_begin and db_begin.  (When the request has failed already   *)
(* the scope is inactive and its body skipped.)                            *)
OpenScope(t) ==
    /\ pc[t] = "run" /\ ~failed[t]
    /\ depth[t] < MaxDepth /\ CanLock(t)
    /\ open /\ ~(depth[t] > 0 /\ saved = <<>>)
    /\ saved' = Append(saved, cur)
    /\ depth' = [depth EXCEPT ![t] = @ + 1]
    /\ lock' = t
    /\ scopes' = [scopes EXCEPT ![t] = Append(@, depth[t] + 1)]
    /\ group' = [group EXCEPT ![t] = IF InScope(t) THEN @ ELSE {}]
    /\ stray' = [stray EXCEPT ![t] = IF InScope(t) THEN @ ELSE {}]
    /\ bad' = [bad EXCEPT ![t] = @ /\ InScope(t)]
    /\ UNCHANGED <<open, cur, failedLevel, pc, failed, clean>>

(* db_begin refuses, times out on the lock, or its statement fails.        *)
BeginFails(t) ==
    /\ pc[t] = "run" /\ ~failed[t]
    /\ \/ depth[t] >= MaxDepth \/ ~CanLock(t) \/ ~open
       \/ depth[t] > 0 /\ saved = <<>>
       \/ "begin" \in faults
    /\ Jump(t)
    /\ Trouble(t)
    /\ UNCHANGED <<dbVars, group, stray, bad>>

(* A row that nothing refers to: each successful write is a new one.       *)
Fresh(w) ==
    /\ w \notin cur /\ \A i \in DOMAIN saved : w \notin saved[i]
    /\ \A t \in Threads : w \notin group[t] /\ w \notin stray[t]

(* Which set the row belongs to; rows written outside any scope to none.   *)
Record(t, w) ==
    /\ group' = [group EXCEPT ![t] =
                   IF InScope(t) /\ depth[t] > 0 THEN @ \cup {w} ELSE @]
    /\ stray' = [stray EXCEPT ![t] =
                   IF InScope(t) /\ depth[t] = 0 THEN @ \cup {w} ELSE @]

(* prepare_statement lets a statement through.                             *)
Prepared(t) == open /\ ~(depth[t] > 0 /\ saved = <<>>)

(* db_execute or db_insert_id writes a row.                                *)
Write(t, w) ==
    /\ pc[t] = "run" /\ CanLock(t) /\ Prepared(t) /\ Fresh(w)
    /\ cur' = cur \cup {w}
    /\ Record(t, w)
    /\ UNCHANGED <<lock, open, saved, depth, failedLevel, pc, failed, scopes,
                   bad, clean>>

(* The row is written, its id is out of range: db_insert_id fails.         *)
WriteLate(t, w) ==
    /\ "late" \in faults
    /\ pc[t] = "run" /\ CanLock(t) /\ Prepared(t) /\ Fresh(w)
    /\ cur' = cur \cup {w}
    /\ Record(t, w)
    /\ failed' = [failed EXCEPT ![t] = TRUE]
    /\ bad' = [bad EXCEPT ![t] = @ \/ InScope(t)]
    /\ NoteFailure(t)
    /\ Trouble(t)
    /\ UNCHANGED <<lock, open, saved, depth, pc, scopes>>

(* A statement fails and leaves no row.  db_failure makes the request      *)
(* fail; a statement refused by prepare_statement, or a row that does not  *)
(* fit its struct, does not.  SQLite may end the transaction (interrupt,   *)
(* full, I/O error).  A call refused for its arguments never gets here: it *)
(* returns -1 before db_lock and changes nothing, the failure level        *)
(* included.                                                               *)
StatementFails(t, kind) ==
    /\ pc[t] = "run" /\ CanLock(t)
    /\ kind \in faults \/ (kind = "silent" /\ ~Prepared(t))
    /\ kind # "silent" => Prepared(t)
    /\ IF kind = "abort"
       THEN cur' = Committed /\ saved' = <<>>
       ELSE UNCHANGED <<cur, saved>>
    /\ failed' = [failed EXCEPT ![t] = @ \/ kind # "silent"]
    /\ bad' = [bad EXCEPT ![t] = @ \/ InScope(t)]
    /\ NoteFailure(t)
    /\ Trouble(t)
    /\ UNCHANGED <<lock, open, depth, pc, scopes, group, stray>>

(* db_lock times out: another thread is in a transaction.  The request     *)
(* does not fail when the clock fails or signals cut the pauses short.     *)
LockTimeout(t) ==
    /\ pc[t] = "run" /\ ~CanLock(t)
    /\ \E told \in BOOLEAN : failed' = [failed EXCEPT ![t] = @ \/ told]
    /\ bad' = [bad EXCEPT ![t] = @ \/ InScope(t)]
    /\ Trouble(t)
    /\ UNCHANGED <<dbVars, pc, scopes, group, stray>>

-----------------------------------------------------------------------------
(* The end of a scope.                                                     *)

Inner(t)   == scopes[t][Len(scopes[t])]
Outward(t) == SubSeq(scopes[t], 1, Len(scopes[t]) - 1)
Matched(t) == InScope(t) /\ pc[t] = "run" /\ Inner(t) = depth[t]

(* transaction_end: the depth is not the scope's, its transaction is gone. *)
EndMismatch(t) ==
    /\ pc[t] = "run" /\ InScope(t) /\ Inner(t) # depth[t]
    /\ \E ok \in BOOLEAN : AbortAll(t, ok)
    /\ Jump(t)
    /\ UNCHANGED ghostVars

(* Variants: only a failed statement undoes the writes, a throw does not;  *)
(* t_failed_level is not reset.                                            *)
RollbackKeeps(t) ==
    /\ Matched(t) /\ failed[t] /\ saved # <<>>
    /\ saved' = SubSeq(saved, 1, depth[t] - 1)
    /\ cur' = IF failedLevel[t] = 0 THEN cur ELSE saved[depth[t]]
    /\ failedLevel' = [failedLevel EXCEPT ![t] = IF @ >= depth[t] THEN 0 ELSE @]
    /\ Leave(t)
    /\ scopes' = [scopes EXCEPT ![t] = Outward(t)]
    /\ UNCHANGED <<open, pc, failed, ghostVars>>

RollbackStale(t) ==
    /\ Matched(t) /\ failed[t] /\ saved # <<>>
    /\ cur' = saved[depth[t]] /\ saved' = SubSeq(saved, 1, depth[t] - 1)
    /\ Leave(t)
    /\ scopes' = [scopes EXCEPT ![t] = Outward(t)]
    /\ UNCHANGED <<open, failedLevel, pc, failed, ghostVars>>

(* transaction_end of a failed request: db_rollback.                       *)
EndRollback(t) ==
    /\ Matched(t) /\ failed[t]
    /\ IF saved = <<>>
       THEN UNCHANGED <<cur, saved>>
       ELSE cur' = saved[depth[t]] /\ saved' = SubSeq(saved, 1, depth[t] - 1)
    /\ failedLevel' = [failedLevel EXCEPT ![t] = IF @ >= depth[t] THEN 0 ELSE @]
    /\ Leave(t)
    /\ scopes' = [scopes EXCEPT ![t] = Outward(t)]
    /\ UNCHANGED <<open, pc, failed, ghostVars>>

(* db_rollback fails: db_abort_all, and the code after the scope goes on.  *)
EndRollbackFails(t) ==
    /\ "rollback" \in faults
    /\ Matched(t) /\ failed[t] /\ saved # <<>>
    /\ \E ok \in BOOLEAN : AbortAll(t, ok)
    /\ scopes' = [scopes EXCEPT ![t] = Outward(t)]
    /\ UNCHANGED <<pc, failed, ghostVars>>

(* The tests of db_commit.                                                 *)
MayCommit(t) == failedLevel[t] = 0 /\ saved # <<>>

(* transaction_end of a request that has not failed: db_commit.            *)
EndCommit(t) ==
    /\ Matched(t) /\ ~failed[t] /\ MayCommit(t)
    /\ saved' = SubSeq(saved, 1, depth[t] - 1)
    /\ Leave(t)
    /\ scopes' = [scopes EXCEPT ![t] = Outward(t)]
    /\ UNCHANGED <<open, cur, failedLevel, pc, failed, ghostVars>>

(* Variant: nobody is told that the commit failed.                         *)
CommitFailsQuietly(t) ==
    /\ Matched(t) /\ ~failed[t]
    /\ ~MayCommit(t) \/ "commit" \in faults
    /\ \E ok \in BOOLEAN : AbortAll(t, ok)
    /\ scopes' = [scopes EXCEPT ![t] = Outward(t)]
    /\ UNCHANGED <<pc, failed, ghostVars>>

(* db_commit refuses or fails: everything is rolled back.                  *)
EndCommitFails(t) ==
    /\ Matched(t) /\ ~failed[t]
    /\ ~MayCommit(t) \/ "commit" \in faults
    /\ clean' = [clean EXCEPT ![t] = @ /\ ~MayCommit(t)]
    /\ \E ok \in BOOLEAN : AbortAll(t, ok)
    /\ Jump(t)
    /\ UNCHANGED <<group, stray, bad>>

(* transaction_cleanup: the scope is left by break or goto.  A request     *)
(* that has failed, or fails as the ROLLBACK does, is not raised: it goes  *)
(* on after the scope.                                                     *)
BreakScope(t) ==
    /\ "break" \in faults
    /\ pc[t] = "run" /\ InScope(t)
    /\ \E ok \in BOOLEAN :
          /\ AbortAll(t, ok)
          /\ IF ok /\ ~failed[t]
             THEN Jump(t)
             ELSE /\ failed' = [failed EXCEPT ![t] = TRUE]
                  /\ scopes' = [scopes EXCEPT ![t] = Outward(t)]
                  /\ UNCHANGED pc
    /\ Trouble(t)
    /\ UNCHANGED <<group, stray, bad>>

-----------------------------------------------------------------------------
(* The end of a request.                                                   *)

(* $throw.                                                                 *)
Throw(t) ==
    /\ pc[t] = "run"
    /\ Jump(t)
    /\ Trouble(t)
    /\ UNCHANGED <<dbVars, group, stray, bad>>

Return(t) ==
    /\ pc[t] = "run" /\ ~InScope(t)
    /\ pc' = [pc EXCEPT ![t] = "landed"]
    /\ UNCHANGED <<dbVars, failed, scopes, ghostVars>>

(* dispatch_route after the handler: an open transaction is rolled back.   *)
Land(t) ==
    /\ pc[t] = "landed"
    /\ \E ok \in BOOLEAN : AbortAll(t, ok)
    /\ failed' = [failed EXCEPT ![t] = @ \/ depth[t] > 0]
    /\ pc' = [pc EXCEPT ![t] = "respond"]
    /\ UNCHANGED <<scopes, ghostVars>>

(* The response is sent; finish_request.                                   *)
Respond(t) ==
    /\ pc[t] = "respond"
    /\ \E ok \in BOOLEAN : AbortAll(t, ok)
    /\ failed' = [failed EXCEPT ![t] = FALSE]
    /\ pc' = [pc EXCEPT ![t] = "idle"]
    /\ UNCHANGED <<scopes, ghostVars>>

Statement(t) ==
    \/ \E w \in Writes : Write(t, w) \/ WriteLate(t, w)
    \/ \E kind \in {"fail", "silent", "abort"} : StatementFails(t, kind)
    \/ LockTimeout(t)

EndScope(t) ==
    \/ EndMismatch(t) \/ EndRollback(t) \/ EndRollbackFails(t)
    \/ EndCommit(t) \/ EndCommitFails(t) \/ BreakScope(t)

Step(t) ==
    \/ BeginRequest(t) \/ OpenScope(t) \/ BeginFails(t)
    \/ Statement(t) \/ EndScope(t)
    \/ Throw(t) \/ Return(t) \/ Land(t) \/ Respond(t)

Next == (\E t \in Threads : Step(t)) /\ UNCHANGED faults

Spec == Init /\ [][Next]_vars

-----------------------------------------------------------------------------
(* Properties.                                                             *)

(* The lock, the depths and SQLite agree: a thread has the lock exactly    *)
(* while it is in a transaction, SQLite's transaction has as many levels   *)
(* as that thread counts (none when SQLite gave it up), and the connection *)
(* is not closed under it.  No transaction outlives its thread's depth, so *)
(* none is inherited by the next request and none blocks the others.       *)
OneTransaction ==
    /\ \A t \in Threads : depth[t] > 0 <=> lock = t
    /\ saved # <<>> => lock # None /\ Len(saved) = depth[lock]
    /\ lock # None => open

(* A request answered with success has committed every row it wrote in a   *)
(* scope, and no statement of its last scope that came as far as db_lock   *)
(* failed, not even one that did not make the request fail.                *)
SuccessIsComplete ==
    \A t \in Threads : pc[t] = "respond" /\ ~failed[t] =>
        group[t] \cup stray[t] \subseteq Committed /\ ~bad[t]

(* README.md:234, "Runs a service function in one transaction": all the    *)
(* rows a scope wrote are kept or none, also those written after an inner  *)
(* scope failed.                                                           *)
ScopeAtomic ==
    \A t \in Threads : ~InScope(t) =>
        \/ group[t] \cup stray[t] \subseteq Committed
        \/ (group[t] \cup stray[t]) \cap Committed = {}

(* README.md:234, "a `$throw` rolls it back": a request in which no        *)
(* statement failed, nothing was thrown and no lock timed out succeeds.    *)
CommitsOwnWork ==
    \A t \in Threads : pc[t] = "respond" /\ clean[t] => ~failed[t]

(* Both hold as long as SQLite never ends a transaction of its own accord, *)
(* no ROLLBACK fails and no scope is left by break or goto, whatever       *)
(* statements, locks and commits fail, and however scopes nest.            *)
ScopesKeepTheirPromise ==
    faults \cap {"abort", "rollback", "break"} = {} =>
        ScopeAtomic /\ CommitsOwnWork

(* The layer implements whole transactions, one at a time.                 *)
Abstract == INSTANCE AtomicCommit WITH
    committed <- Committed,
    pending   <- [t \in Threads |-> IF lock = t THEN cur \ Committed ELSE {}],
    broken    <- {t \in Threads : failed[t]}

ImplementsAtomicCommit == Abstract!AbsSpec
=============================================================================
