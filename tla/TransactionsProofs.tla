------------------------- MODULE TransactionsProofs -------------------------
(* What the transaction layer guarantees for any number of threads, any    *)
(* rows, any nesting limit and any set of faults.                          *)
EXTENDS Transactions, TLAPS, SequenceTheorems

-----------------------------------------------------------------------------
(* The inductive invariant.                                                *)

(* Snapshots only grow, and the connection sees at least the last one.     *)
Nested ==
    \A i \in 1..Len(saved) :
        saved[i] \subseteq cur /\ \A j \in 1..i : saved[j] \subseteq saved[i]

(* The levels of a thread's scopes are 1, 2, 3, ..., and its depth is the  *)
(* level of the innermost one unless the transaction was dropped in a      *)
(* request that has failed.  Outside the handler no scope is active, and   *)
(* only a jump leaves the handler inside a transaction.                    *)
Level(t) ==
    /\ \A i \in 1..Len(scopes[t]) : scopes[t][i] = i
    /\ pc[t] # "run" => scopes[t] = <<>>
    /\ pc[t] = "run" => depth[t] = Len(scopes[t]) \/ (depth[t] = 0 /\ failed[t])
    /\ pc[t] \in {"idle", "respond"} => depth[t] = 0
    /\ pc[t] = "landed" /\ depth[t] > 0 => failed[t]
    /\ pc[t] = "idle" => ~failed[t]

Levels == \A t \in Threads : Level(t)

(* While the request has not failed, its transaction is SQLite's, every    *)
(* row of its scope is still there, and a failed statement is remembered   *)
(* by t_failed_level until the scope is over.                              *)
Complete(t) ==
    pc[t] # "idle" /\ ~failed[t] =>
        /\ stray[t] = {}
        /\ depth[t] > 0 => saved # <<>>
        /\ InScope(t) => group[t] \subseteq cur /\ (bad[t] => failedLevel[t] > 0)
        /\ ~InScope(t) => group[t] \subseteq Committed /\ ~bad[t]

AllComplete == \A t \in Threads : Complete(t)

(* What more holds when SQLite never ends a transaction, no ROLLBACK fails *)
(* and no scope is left by break.                                          *)
Faultless == faults \cap {"abort", "rollback", "break"} = {}

Calm(t) ==
    /\ stray[t] = {}
    /\ pc[t] = "run" => depth[t] = Len(scopes[t])
    /\ depth[t] > 0 => saved # <<>> /\ group[t] \cap Committed = {}
    /\ failedLevel[t] <= depth[t]
    /\ pc[t] # "idle" /\ clean[t] => ~failed[t] /\ failedLevel[t] = 0
    /\ lock # t => group[t] \cap cur \subseteq Committed
    /\ depth[t] = 0 => \/ group[t] \subseteq Committed
                       \/ group[t] \cap Committed = {}

AllCalm == Faultless => \A t \in Threads : Calm(t)

IInv == TypeOK /\ OneTransaction /\ Nested /\ Levels /\ AllComplete /\ AllCalm

-----------------------------------------------------------------------------
(* Sequences.                                                              *)

(* What is left of a stack when its top is gone: the snapshots after a     *)
(* RELEASE, a ROLLBACK TO or a COMMIT, the scopes after the innermost one. *)
LEMMA Shorter ==
    ASSUME NEW S, NEW s \in Seq(S), s # <<>>
    PROVE  /\ SubSeq(s, 1, Len(s) - 1) \in Seq(S)
           /\ Len(SubSeq(s, 1, Len(s) - 1)) = Len(s) - 1
           /\ \A i \in 1..(Len(s) - 1) : SubSeq(s, 1, Len(s) - 1)[i] = s[i]
           /\ SubSeq(s, 1, Len(s) - 1) = <<>> <=> Len(s) = 1
           /\ Len(s) \in Nat \ {0}
<1>1. Len(s) \in Nat /\ Len(s) > 0
    BY EmptySeq, LenProperties
<1>2. SubSeq(s, 1, Len(s) - 1) \in Seq(S)
      /\ Len(SubSeq(s, 1, Len(s) - 1)) = Len(s) - 1
      /\ \A i \in 1..(Len(s) - 1) : SubSeq(s, 1, Len(s) - 1)[i] = s[i]
    <2> DEFINE n == Len(s) - 1
    <2>1. n \in Int /\ n >= 0 /\ \A i \in 1..n : s[i] \in S
        BY <1>1, ElementOfSeq
    <2> HIDE DEF n
    <2>2. SubSeq(s, 1, n) \in Seq(S) /\ Len(SubSeq(s, 1, n)) = n
          /\ \A i \in 1..n : SubSeq(s, 1, n)[i] = s[i]
        BY <2>1, SubSeqProperties
    <2> QED BY <2>2 DEF n
<1>3. SubSeq(s, 1, Len(s) - 1) = <<>> <=> Len(SubSeq(s, 1, Len(s) - 1)) = 0
    BY <1>2, EmptySeq
<1> QED BY <1>1, <1>2, <1>3

(* A stack with one more entry: the snapshots after BEGIN or SAVEPOINT.    *)
LEMMA Longer ==
    ASSUME NEW S, NEW s \in Seq(S), NEW e \in S
    PROVE  /\ Append(s, e) \in Seq(S)
           /\ Append(s, e) # <<>>
           /\ Len(Append(s, e)) = Len(s) + 1
           /\ Len(s) \in Nat
           /\ \A i \in 1..Len(s) : Append(s, e)[i] = s[i]
           /\ Append(s, e)[Len(s) + 1] = e
BY AppendProperties, LenProperties

-----------------------------------------------------------------------------
(* Types.                                                                  *)

(* The initial state.                                                      *)
LEMMA InitType == Init => TypeOK
BY TxAssumption, EmptySeq DEF Init, TypeOK

(* What survives is a set of rows.                                         *)
LEMMA CommittedType == TypeOK => Committed \in SUBSET Writes
<1> SUFFICES ASSUME TypeOK PROVE Committed \in SUBSET Writes
    OBVIOUS
<1>1. CASE saved = <<>>  BY <1>1 DEF Committed, TypeOK
<1>2. CASE saved # <<>>
    <2>1. saved \in Seq(SUBSET Writes)
        BY DEF TypeOK
    <2>2. saved[1] \in SUBSET Writes
        BY <1>2, <2>1, EmptySeq, ElementOfSeq
    <2> QED BY <1>2, <2>2 DEF Committed
<1> QED BY <1>1, <1>2

(* db_abort_all leaves the database variables in their types.              *)
LEMMA AbortAllType ==
    ASSUME TypeOK, NEW t \in Threads, NEW ok \in BOOLEAN, AbortAll(t, ok)
    PROVE  /\ lock' \in Threads \cup {None}
           /\ open' \in BOOLEAN
           /\ cur' \in SUBSET Writes
           /\ saved' \in Seq(SUBSET Writes)
           /\ depth' \in [Threads -> 0..MaxDepth]
           /\ failedLevel' \in [Threads -> 0..MaxDepth]
<1>1. CASE depth[t] = 0
    BY <1>1 DEF AbortAll, dbVars, TypeOK
<1>2. CASE depth[t] # 0
    <2>1. cur' \in SUBSET Writes
        BY <1>2, CommittedType DEF AbortAll
    <2>2. 0 \in 0..MaxDepth
        BY TxAssumption
    <2> QED BY <1>2, <2>1, <2>2, EmptySeq DEF AbortAll, TypeOK
<1> QED BY <1>1, <1>2

(* Leaving a scope leaves a stack of scopes.                               *)
LEMMA OutwardType ==
    ASSUME TypeOK, NEW t \in Threads, InScope(t)
    PROVE  /\ Outward(t) \in Seq(1..MaxDepth)
           /\ Len(Outward(t)) = Len(scopes[t]) - 1
           /\ \A i \in 1..(Len(scopes[t]) - 1) : Outward(t)[i] = scopes[t][i]
           /\ Outward(t) = <<>> <=> Len(scopes[t]) = 1
           /\ Len(scopes[t]) \in Nat \ {0}
BY Shorter DEF TypeOK, InScope, Outward

-----------------------------------------------------------------------------
(* The lock and the thread that has it.                                    *)

(* A thread that db_lock lets through is alone: no other is in a           *)
(* transaction, and outside one there is none at all.                      *)
LEMMA Alone ==
    ASSUME TypeOK, OneTransaction, NEW t \in Threads, CanLock(t)
    PROVE  /\ \A u \in Threads \ {t} : depth[u] = 0 /\ lock # u
           /\ depth[t] > 0 <=> lock = t
           /\ depth[t] = 0 => lock = None /\ saved = <<>>
           /\ saved # <<>> => depth[t] > 0 /\ Len(saved) = depth[t]
BY TxAssumption DEF TypeOK, OneTransaction, CanLock

(* A scope that ends at its own depth has the lock, and SQLite's           *)
(* transaction, if there is one, has that many levels.                     *)
LEMMA MatchedHolds ==
    ASSUME TypeOK, OneTransaction, Levels, NEW t \in Threads, Matched(t)
    PROVE  /\ pc[t] = "run" /\ InScope(t) /\ CanLock(t)
           /\ Len(scopes[t]) \in Nat \ {0}
           /\ depth[t] = Len(scopes[t]) /\ lock = t /\ open
           /\ saved # <<>> => Len(saved) = depth[t]
<1>1. scopes[t] \in Seq(1..MaxDepth) /\ scopes[t] # <<>>
    BY DEF TypeOK, Matched, InScope
<1>2. Len(scopes[t]) \in Nat \ {0} /\ Inner(t) = Len(scopes[t])
    BY <1>1, EmptySeq DEF Levels, Level, Inner
<1>3. depth[t] = Len(scopes[t]) /\ depth[t] > 0
    BY <1>2 DEF Matched
<1>4. lock = t /\ lock # None
    BY <1>3, TxAssumption DEF OneTransaction
<1> QED BY <1>2, <1>3, <1>4 DEF OneTransaction, Matched, CanLock

(* COMMIT, RELEASE, ROLLBACK and ROLLBACK TO take the last snapshot off.   *)
LEMMA Popped ==
    ASSUME TypeOK, OneTransaction, Levels, Nested,
           NEW t \in Threads, Matched(t), saved # <<>>
    PROVE  /\ SubSeq(saved, 1, depth[t] - 1) \in Seq(SUBSET Writes)
           /\ Len(SubSeq(saved, 1, depth[t] - 1)) = depth[t] - 1
           /\ \A i \in 1..(depth[t] - 1) :
                 SubSeq(saved, 1, depth[t] - 1)[i] = saved[i]
           /\ SubSeq(saved, 1, depth[t] - 1) = <<>> <=> depth[t] = 1
           /\ saved[depth[t]] \in SUBSET Writes
           /\ saved[depth[t]] \subseteq cur
           /\ \A i \in 1..depth[t] : saved[i] \subseteq saved[depth[t]]
<1>1. saved \in Seq(SUBSET Writes) /\ Len(saved) = depth[t]
      /\ depth[t] \in Nat /\ depth[t] > 0
    BY MatchedHolds DEF TypeOK
<1>2. saved[depth[t]] \in SUBSET Writes
    BY <1>1, ElementOfSeq
<1>3. /\ saved[depth[t]] \subseteq cur
      /\ \A i \in 1..depth[t] : saved[i] \subseteq saved[depth[t]]
    BY <1>1 DEF Nested
<1> QED BY <1>1, <1>2, <1>3, Shorter

-----------------------------------------------------------------------------
(* Every step keeps the types.                                             *)
LEMMA TypeStep ==
    ASSUME TypeOK, OneTransaction, Levels, Nested,
           NEW t \in Threads, Step(t), UNCHANGED faults
    PROVE  TypeOK'
<1> DEFINE DbType == /\ lock' \in Threads \cup {None}
                     /\ open' \in BOOLEAN
                     /\ cur' \in SUBSET Writes
                     /\ saved' \in Seq(SUBSET Writes)
                     /\ depth' \in [Threads -> 0..MaxDepth]
                     /\ failedLevel' \in [Threads -> 0..MaxDepth]
           RunType == /\ pc' \in [Threads -> {"idle", "run", "landed", "respond"}]
                      /\ failed' \in [Threads -> BOOLEAN]
                      /\ scopes' \in [Threads -> Seq(1..MaxDepth)]
           GhostType == /\ group' \in [Threads -> SUBSET Writes]
                        /\ stray' \in [Threads -> SUBSET Writes]
                        /\ bad' \in [Threads -> BOOLEAN]
                        /\ clean' \in [Threads -> BOOLEAN]
<1>a. DbType /\ RunType /\ GhostType => TypeOK'
    BY DEF TypeOK
<1>b. UNCHANGED dbVars => DbType
    BY DEF dbVars, TypeOK
<1>c. (\E ok \in BOOLEAN : AbortAll(t, ok)) => DbType
    BY AbortAllType
<1>d. UNCHANGED ghostVars => GhostType
    BY DEF ghostVars, TypeOK
<1>e. Jump(t) => RunType
    BY EmptySeq DEF Jump, TypeOK
<1>f. UNCHANGED <<pc, failed, scopes>> => RunType
    BY DEF TypeOK
<1>g. NoteFailure(t) => failedLevel' \in [Threads -> 0..MaxDepth]
    BY DEF NoteFailure, TypeOK
<1>h. Trouble(t) /\ UNCHANGED <<group, stray, bad>> => GhostType
    BY DEF Trouble, TypeOK
<1>i. ASSUME InScope(t), scopes' = [scopes EXCEPT ![t] = Outward(t)]
      PROVE  scopes' \in [Threads -> Seq(1..MaxDepth)]
    BY <1>i, OutwardType DEF TypeOK
<1>j. ASSUME Leave(t), saved' \in Seq(SUBSET Writes), depth[t] > 0
      PROVE  lock' \in Threads \cup {None} /\ depth' \in [Threads -> 0..MaxDepth]
    BY <1>j, TxAssumption DEF Leave, TypeOK
<1>1. CASE BeginRequest(t)
    <2>1. DbType  BY <1>1, <1>b DEF BeginRequest
    <2>2. RunType  BY <1>1 DEF BeginRequest, TypeOK
    <2>3. GhostType  BY <1>1 DEF BeginRequest, TypeOK
    <2> QED BY <2>1, <2>2, <2>3, <1>a
<1>2. CASE OpenScope(t)
    <2>1. saved' \in Seq(SUBSET Writes)
        BY <1>2, Longer DEF OpenScope, TypeOK
    <2>2. depth[t] + 1 \in 1..MaxDepth
        BY <1>2, TxAssumption DEF OpenScope, TypeOK
    <2>3. Append(scopes[t], depth[t] + 1) \in Seq(1..MaxDepth)
        BY <2>2, Longer DEF TypeOK
    <2>4. DbType
        BY <1>2, <2>1, <2>2 DEF OpenScope, TypeOK
    <2>5. RunType
        BY <1>2, <2>3 DEF OpenScope, TypeOK
    <2>6. GhostType
        BY <1>2 DEF OpenScope, TypeOK
    <2> QED BY <2>4, <2>5, <2>6, <1>a
<1>3. CASE BeginFails(t)
    BY <1>3, <1>a, <1>b, <1>e, <1>h DEF BeginFails
<1>4. CASE \E w \in Writes : Write(t, w)
    BY <1>4 DEF Write, Record, TypeOK
<1>5. CASE \E w \in Writes : WriteLate(t, w)
    <2> PICK w \in Writes : WriteLate(t, w)
        BY <1>5
    <2>1. DbType  BY <1>g DEF WriteLate, TypeOK
    <2>2. RunType  BY DEF WriteLate, TypeOK
    <2>3. GhostType  BY DEF WriteLate, Record, Trouble, TypeOK
    <2> QED BY <2>1, <2>2, <2>3, <1>a
<1>6. CASE \E kind \in {"fail", "silent", "abort"} : StatementFails(t, kind)
    <2> PICK kind \in {"fail", "silent", "abort"} : StatementFails(t, kind)
        BY <1>6
    <2>1. cur' \in SUBSET Writes /\ saved' \in Seq(SUBSET Writes)
        BY CommittedType, EmptySeq DEF StatementFails, TypeOK
    <2> QED BY <2>1, <1>g DEF StatementFails, Trouble, TypeOK
<1>7. CASE LockTimeout(t)
    <2>1. DbType  BY <1>7, <1>b DEF LockTimeout
    <2>2. RunType /\ GhostType
        BY <1>7 DEF LockTimeout, Trouble, TypeOK
    <2> QED BY <2>1, <2>2, <1>a
<1>8. CASE EndMismatch(t)
    BY <1>8, <1>a, <1>c, <1>d, <1>e DEF EndMismatch
<1>9. CASE EndRollback(t)
    <2>1. cur' \in SUBSET Writes /\ saved' \in Seq(SUBSET Writes)
        <3>1. CASE saved = <<>>  BY <1>9, <3>1 DEF EndRollback, TypeOK
        <3>2. CASE saved # <<>>  BY <1>9, <3>2, Popped DEF EndRollback
        <3> QED BY <3>1, <3>2
    <2>2. failedLevel' \in [Threads -> 0..MaxDepth]
        BY <1>9, TxAssumption DEF EndRollback, TypeOK
    <2>3. DbType
        BY <1>9, <2>1, <2>2, <1>j, MatchedHolds DEF EndRollback, TypeOK
    <2>4. RunType
        BY <1>9, <1>i, MatchedHolds DEF EndRollback, TypeOK
    <2>5. GhostType  BY <1>9, <1>d DEF EndRollback
    <2> QED BY <2>3, <2>4, <2>5, <1>a
<1>10. CASE EndRollbackFails(t)
    <2>1. RunType
        BY <1>10, <1>i, MatchedHolds DEF EndRollbackFails, TypeOK
    <2> QED BY <1>10, <2>1, <1>a, <1>c, <1>d DEF EndRollbackFails
<1>11. CASE EndCommit(t)
    <2>1. saved' \in Seq(SUBSET Writes)
        BY <1>11, Popped DEF EndCommit, MayCommit
    <2>2. DbType
        BY <1>11, <2>1, <1>j, MatchedHolds DEF EndCommit, TypeOK
    <2>3. RunType
        BY <1>11, <1>i, MatchedHolds DEF EndCommit, TypeOK
    <2>4. GhostType  BY <1>11, <1>d DEF EndCommit
    <2> QED BY <2>2, <2>3, <2>4, <1>a
<1>12. CASE EndCommitFails(t)
    <2>1. GhostType
        BY <1>12 DEF EndCommitFails, TypeOK
    <2> QED BY <1>12, <2>1, <1>a, <1>c, <1>e DEF EndCommitFails
<1>13. CASE BreakScope(t)
    <2>1. RunType
        <3>1. CASE Jump(t)  BY <3>1, <1>e
        <3>2. CASE /\ failed' = [failed EXCEPT ![t] = TRUE]
                   /\ scopes' = [scopes EXCEPT ![t] = Outward(t)]
                   /\ UNCHANGED pc
            BY <1>13, <3>2, <1>i DEF BreakScope, TypeOK
        <3> QED BY <1>13, <3>1, <3>2 DEF BreakScope
    <2>2. \E ok \in BOOLEAN : AbortAll(t, ok)
        BY <1>13 DEF BreakScope
    <2> QED BY <1>13, <2>1, <2>2, <1>a, <1>c, <1>h DEF BreakScope
<1>14. CASE Throw(t)
    BY <1>14, <1>a, <1>b, <1>e, <1>h DEF Throw
<1>15. CASE Return(t)
    <2>1. RunType  BY <1>15 DEF Return, TypeOK
    <2> QED BY <1>15, <2>1, <1>a, <1>b, <1>d DEF Return
<1>16. CASE Land(t)
    <2>1. RunType  BY <1>16 DEF Land, TypeOK
    <2> QED BY <1>16, <2>1, <1>a, <1>c, <1>d DEF Land
<1>17. CASE Respond(t)
    <2>1. RunType  BY <1>17 DEF Respond, TypeOK
    <2> QED BY <1>17, <2>1, <1>a, <1>c, <1>d DEF Respond
<1> QED BY <1>1, <1>2, <1>3, <1>4, <1>5, <1>6, <1>7, <1>8, <1>9, <1>10, <1>11,
           <1>12, <1>13, <1>14, <1>15, <1>16, <1>17
        DEF Step, Statement, EndScope

-----------------------------------------------------------------------------
(* The lock, the depths and SQLite's transaction.                          *)

(* db_abort_all ends the caller's transaction and no other.                *)
LEMMA AbortAllEnds ==
    ASSUME TypeOK, OneTransaction, Nested,
           NEW t \in Threads, NEW ok \in BOOLEAN, AbortAll(t, ok)
    PROVE  OneTransaction' /\ Nested' /\ Committed' = Committed
<1>1. CASE depth[t] = 0
    <2>1. UNCHANGED <<lock, open, cur, saved, depth>>
        BY <1>1 DEF AbortAll, dbVars
    <2> QED BY <2>1 DEF OneTransaction, Nested, Committed
<1>2. CASE depth[t] # 0
    <2>1. depth[t] > 0 /\ CanLock(t)
        BY <1>2 DEF TypeOK, CanLock
    <2>2. lock' = None /\ saved' = <<>> /\ cur' = Committed
          /\ depth' = [depth EXCEPT ![t] = 0]
        BY <1>2 DEF AbortAll
    <2>3. \A u \in Threads : depth'[u] = 0 /\ u # None
        BY <2>1, <2>2, Alone, TxAssumption DEF TypeOK
    <2>4. OneTransaction'
        BY <2>2, <2>3 DEF OneTransaction
    <2>5. Nested'
        BY <2>2, EmptySeq DEF Nested
    <2>6. Committed' = Committed
        BY <2>2 DEF Committed
    <2> QED BY <2>4, <2>5, <2>6
<1> QED BY <1>1, <1>2

(* What db_commit and db_rollback have in common: one snapshot less, and   *)
(* one level less.                                                         *)
LEMMA LeaveEnds ==
    ASSUME TypeOK, OneTransaction, Nested, Levels,
           NEW t \in Threads, Matched(t), Leave(t), UNCHANGED open,
           IF saved = <<>> THEN saved' = <<>>
                           ELSE saved' = SubSeq(saved, 1, depth[t] - 1)
    PROVE  /\ OneTransaction'
           /\ depth'[t] = IF saved' = <<>> THEN 0 ELSE depth[t] - 1
           /\ saved # <<>> => depth'[t] = depth[t] - 1
           /\ \A u \in Threads \ {t} : depth'[u] = depth[u]
<1>1. /\ depth[t] \in Nat /\ depth[t] > 0 /\ lock = t /\ open
      /\ \A u \in Threads \ {t} : depth[u] = 0
      /\ saved # <<>> => Len(saved) = depth[t]
    BY MatchedHolds, Alone DEF TypeOK
<1>2. /\ depth'[t] = IF saved' = <<>> THEN 0 ELSE depth[t] - 1
      /\ \A u \in Threads \ {t} : depth'[u] = depth[u]
      /\ lock' = IF saved' = <<>> THEN None ELSE t
    BY <1>1 DEF Leave, TypeOK
<1>3. CASE saved' = <<>>
    <2>1. saved # <<>> => depth[t] = 1
        BY <1>3, Popped
    <2>2. OneTransaction'
        BY <1>1, <1>2, <1>3, TxAssumption DEF OneTransaction
    <2> QED BY <1>2, <1>3, <2>1, <2>2
<1>4. CASE saved' # <<>>
    <2>1. saved # <<>> /\ Len(saved') = depth[t] - 1 /\ depth[t] # 1
        BY <1>4, Popped
    <2>2. OneTransaction'
        BY <1>1, <1>2, <1>4, <2>1, TxAssumption DEF OneTransaction
    <2> QED BY <1>2, <1>4, <2>1, <2>2
<1> QED BY <1>3, <1>4

(* The snapshots that are left still grow.                                 *)
LEMMA NestedPrefix ==
    ASSUME Nested, NEW n \in Nat, Len(saved) = n, Len(saved') = n - 1,
           \A i \in 1..(n - 1) : saved'[i] = saved[i],
           \A i \in 1..n : saved[i] \subseteq cur'
    PROVE  Nested'
<1> SUFFICES ASSUME NEW i \in 1..(n - 1)
             PROVE  /\ saved'[i] \subseteq cur'
                    /\ \A j \in 1..i : saved'[j] \subseteq saved'[i]
    BY DEF Nested
<1>1. i \in 1..n /\ 1..i \subseteq 1..(n - 1)
    OBVIOUS
<1>2. \A j \in 1..i : saved[j] \subseteq saved[i]
    BY <1>1 DEF Nested
<1> QED BY <1>1, <1>2

(* Every step keeps the lock, the depths and the snapshots in agreement.   *)
LEMMA TransactionStep ==
    ASSUME TypeOK, OneTransaction, Nested, Levels,
           NEW t \in Threads, Step(t)
    PROVE  OneTransaction' /\ Nested'
<1>a. UNCHANGED <<lock, open, saved, depth>> => OneTransaction'
    BY DEF OneTransaction
<1>b. UNCHANGED <<cur, saved>> => Nested'
    BY DEF Nested
<1>c. UNCHANGED dbVars => OneTransaction' /\ Nested'
    BY <1>a, <1>b DEF dbVars
<1>d. (\E ok \in BOOLEAN : AbortAll(t, ok)) => OneTransaction' /\ Nested'
    BY AbortAllEnds
<1>e. ASSUME NEW w, cur' = cur \cup {w}, UNCHANGED saved
      PROVE  Nested'
    BY <1>e DEF Nested
<1>1. CASE BeginRequest(t)  BY <1>1, <1>c DEF BeginRequest
<1>2. CASE OpenScope(t)
    <2>1. /\ saved \in Seq(SUBSET Writes) /\ cur \in SUBSET Writes
          /\ depth[t] \in Nat
        BY DEF TypeOK
    <2>2. /\ saved' = Append(saved, cur) /\ cur' = cur /\ lock' = t /\ open'
          /\ depth'[t] = depth[t] + 1
          /\ \A u \in Threads \ {t} : depth'[u] = depth[u]
        BY <1>2 DEF OpenScope, TypeOK
    <2>3. /\ saved' # <<>> /\ Len(saved') = Len(saved) + 1
          /\ Len(saved) \in Nat
          /\ \A i \in 1..Len(saved) : saved'[i] = saved[i]
          /\ saved'[Len(saved) + 1] = cur
        BY <2>1, <2>2, Longer
    <2>4. \A u \in Threads \ {t} : depth[u] = 0
        BY <1>2, Alone DEF OpenScope
    <2>5. Len(saved) = depth[t]
        <3>1. CASE saved = <<>>
            BY <1>2, <2>1, <3>1, EmptySeq DEF OpenScope
        <3>2. CASE saved # <<>>
            BY <1>2, <3>2, Alone DEF OpenScope
        <3> QED BY <3>1, <3>2
    <2>6. OneTransaction'
        BY <2>1, <2>2, <2>3, <2>4, <2>5, TxAssumption DEF OneTransaction
    <2>7. Nested'
        BY <2>2, <2>3 DEF Nested
    <2> QED BY <2>6, <2>7
<1>3. CASE BeginFails(t)  BY <1>3, <1>c DEF BeginFails
<1>4. CASE \E w \in Writes : Write(t, w)
    BY <1>4, <1>a, <1>e DEF Write
<1>5. CASE \E w \in Writes : WriteLate(t, w)
    BY <1>5, <1>a, <1>e DEF WriteLate
<1>6. CASE \E kind \in {"fail", "silent", "abort"} : StatementFails(t, kind)
    <2> PICK kind \in {"fail", "silent", "abort"} : StatementFails(t, kind)
        BY <1>6
    <2>1. CASE kind = "abort"
        <3>1. saved' = <<>> /\ UNCHANGED <<lock, open, depth>>
            BY <2>1 DEF StatementFails
        <3> QED BY <3>1, EmptySeq DEF OneTransaction, Nested
    <2>2. CASE kind # "abort"
        BY <2>2, <1>a, <1>b DEF StatementFails
    <2> QED BY <2>1, <2>2
<1>7. CASE LockTimeout(t)  BY <1>7, <1>c DEF LockTimeout
<1>8. CASE EndMismatch(t)  BY <1>8, <1>d DEF EndMismatch
<1>9. CASE EndRollback(t)
    <2>1. OneTransaction'
        <3>1. Matched(t) /\ Leave(t) /\ UNCHANGED open
            BY <1>9 DEF EndRollback
        <3>2. IF saved = <<>> THEN saved' = <<>>
                              ELSE saved' = SubSeq(saved, 1, depth[t] - 1)
            BY <1>9 DEF EndRollback
        <3> QED BY <3>1, <3>2, LeaveEnds
    <2>2. CASE saved = <<>>
        BY <1>9, <2>1, <2>2, <1>b DEF EndRollback
    <2>3. CASE saved # <<>>
        <3>1. saved' = SubSeq(saved, 1, depth[t] - 1) /\ cur' = saved[depth[t]]
              /\ Matched(t)
            BY <1>9, <2>3 DEF EndRollback
        <3>2. /\ Len(saved') = depth[t] - 1 /\ depth[t] \in Nat
              /\ \A i \in 1..(depth[t] - 1) : saved'[i] = saved[i]
              /\ \A i \in 1..depth[t] : saved[i] \subseteq cur'
              /\ Len(saved) = depth[t]
            BY <2>3, <3>1, Popped, MatchedHolds DEF TypeOK
        <3> QED BY <2>1, <3>2, NestedPrefix
    <2> QED BY <2>2, <2>3
<1>10. CASE EndRollbackFails(t)  BY <1>10, <1>d DEF EndRollbackFails
<1>11. CASE EndCommit(t)
    <2>1. Matched(t) /\ Leave(t) /\ UNCHANGED <<open, cur>> /\ saved # <<>>
          /\ saved' = SubSeq(saved, 1, depth[t] - 1)
        BY <1>11 DEF EndCommit, MayCommit
    <2>2. OneTransaction'
        BY <2>1, LeaveEnds
    <2>3. /\ Len(saved') = depth[t] - 1 /\ depth[t] \in Nat
          /\ \A i \in 1..(depth[t] - 1) : saved'[i] = saved[i]
          /\ Len(saved) = depth[t] /\ cur' = cur
        BY <2>1, Popped, MatchedHolds DEF TypeOK
    <2>4. \A i \in 1..depth[t] : saved[i] \subseteq cur'
        BY <2>3 DEF Nested
    <2> QED BY <2>2, <2>3, <2>4, NestedPrefix
<1>12. CASE EndCommitFails(t)  BY <1>12, <1>d DEF EndCommitFails
<1>13. CASE BreakScope(t)  BY <1>13, <1>d DEF BreakScope
<1>14. CASE Throw(t)  BY <1>14, <1>c DEF Throw
<1>15. CASE Return(t)  BY <1>15, <1>c DEF Return
<1>16. CASE Land(t)  BY <1>16, <1>d DEF Land
<1>17. CASE Respond(t)  BY <1>17, <1>d DEF Respond
<1> QED BY <1>1, <1>2, <1>3, <1>4, <1>5, <1>6, <1>7, <1>8, <1>9, <1>10, <1>11,
           <1>12, <1>13, <1>14, <1>15, <1>16, <1>17
        DEF Step, Statement, EndScope

-----------------------------------------------------------------------------
(* The scopes of a thread.                                                 *)

(* A step of one thread leaves what belongs to the others alone.           *)
LEMMA OthersKeep ==
    ASSUME TypeOK, NEW t \in Threads, Step(t), NEW u \in Threads \ {t}
    PROVE  /\ pc'[u] = pc[u] /\ depth'[u] = depth[u]
           /\ failed'[u] = failed[u] /\ scopes'[u] = scopes[u]
           /\ failedLevel'[u] = failedLevel[u]
           /\ group'[u] = group[u] /\ stray'[u] = stray[u]
           /\ bad'[u] = bad[u] /\ clean'[u] = clean[u]
<1> DEFINE Db   == depth'[u] = depth[u] /\ failedLevel'[u] = failedLevel[u]
           Run  == pc'[u] = pc[u] /\ failed'[u] = failed[u] /\ scopes'[u] = scopes[u]
           Gh   == /\ group'[u] = group[u] /\ stray'[u] = stray[u]
                   /\ bad'[u] = bad[u] /\ clean'[u] = clean[u]
<1>a. UNCHANGED dbVars => Db
    BY DEF dbVars
<1>b. (\E ok \in BOOLEAN : AbortAll(t, ok)) => Db
    BY <1>a DEF AbortAll, TypeOK
<1>c. UNCHANGED ghostVars => Gh
    BY DEF ghostVars
<1>d. Jump(t) => Run
    BY DEF Jump, TypeOK
<1>e. Trouble(t) /\ UNCHANGED <<group, stray, bad>> => Gh
    BY DEF Trouble, TypeOK
<1>f. NoteFailure(t) => failedLevel'[u] = failedLevel[u]
    BY DEF NoteFailure, TypeOK
<1>1. CASE BeginRequest(t)
    BY <1>1, <1>a DEF BeginRequest, TypeOK
<1>2. CASE OpenScope(t)
    BY <1>2 DEF OpenScope, TypeOK
<1>3. CASE BeginFails(t)
    BY <1>3, <1>a, <1>d, <1>e DEF BeginFails
<1>4. CASE \E w \in Writes : Write(t, w)
    BY <1>4 DEF Write, Record, TypeOK
<1>5. CASE \E w \in Writes : WriteLate(t, w)
    BY <1>5, <1>f DEF WriteLate, Record, Trouble, TypeOK
<1>6. CASE \E kind \in {"fail", "silent", "abort"} : StatementFails(t, kind)
    BY <1>6, <1>f DEF StatementFails, Trouble, TypeOK
<1>7. CASE LockTimeout(t)
    BY <1>7, <1>a DEF LockTimeout, Trouble, TypeOK
<1>8. CASE EndMismatch(t)
    BY <1>8, <1>b, <1>c, <1>d DEF EndMismatch
<1>9. CASE EndRollback(t)
    BY <1>9, <1>c DEF EndRollback, Leave, TypeOK
<1>10. CASE EndRollbackFails(t)
    BY <1>10, <1>b, <1>c DEF EndRollbackFails, TypeOK
<1>11. CASE EndCommit(t)
    BY <1>11, <1>c DEF EndCommit, Leave, TypeOK
<1>12. CASE EndCommitFails(t)
    BY <1>12, <1>b, <1>d DEF EndCommitFails, TypeOK
<1>13. CASE BreakScope(t)
    BY <1>13, <1>b, <1>d, <1>e DEF BreakScope, TypeOK
<1>14. CASE Throw(t)
    BY <1>14, <1>a, <1>d, <1>e DEF Throw
<1>15. CASE Return(t)
    BY <1>15, <1>a, <1>c DEF Return, TypeOK
<1>16. CASE Land(t)
    BY <1>16, <1>b, <1>c DEF Land, TypeOK
<1>17. CASE Respond(t)
    BY <1>17, <1>b, <1>c DEF Respond, TypeOK
<1> QED BY <1>1, <1>2, <1>3, <1>4, <1>5, <1>6, <1>7, <1>8, <1>9, <1>10, <1>11,
           <1>12, <1>13, <1>14, <1>15, <1>16, <1>17
        DEF Step, Statement, EndScope

(* Every step keeps the depth and the scopes of its thread in agreement.   *)
LEMMA LevelsStep ==
    ASSUME TypeOK, OneTransaction, Nested, Levels, AllComplete,
           NEW t \in Threads, Step(t)
    PROVE  Levels'
<1> SUFFICES Level(t)'
    BY OthersKeep DEF Levels, Level
<1>l. /\ depth[t] \in Nat
      /\ scopes[t] \in Seq(1..MaxDepth)
      /\ Len(scopes[t]) \in Nat
      /\ Level(t)
    BY LenProperties DEF TypeOK, Levels
<1>a. UNCHANGED <<pc, depth, scopes>> /\ (failed[t] => failed'[t])
      /\ (pc[t] = "idle" => ~failed'[t]) => Level(t)'
    BY <1>l DEF Level
<1>b. Jump(t) => Level(t)'
    BY EmptySeq DEF Jump, TypeOK, Level
<1>c. ASSUME NEW ok \in BOOLEAN, AbortAll(t, ok) PROVE depth'[t] = 0
    BY <1>c DEF AbortAll, dbVars, TypeOK
<1>d. ASSUME InScope(t), pc[t] = "run", UNCHANGED pc, depth'[t] = 0, failed'[t],
             scopes' = [scopes EXCEPT ![t] = Outward(t)]
      PROVE  Level(t)'
    <2>1. scopes'[t] = Outward(t)  BY <1>d DEF TypeOK
    <2> QED BY <1>d, <1>l, <2>1, OutwardType DEF Level
<1>e. ASSUME Matched(t), Leave(t), scopes' = [scopes EXCEPT ![t] = Outward(t)],
             UNCHANGED <<pc, failed, open>>, saved = <<>> => failed[t],
             IF saved = <<>> THEN saved' = <<>>
                             ELSE saved' = SubSeq(saved, 1, depth[t] - 1)
      PROVE  Level(t)'
    <2>1. scopes'[t] = Outward(t)  BY <1>e DEF TypeOK
    <2>2. Len(scopes'[t]) = depth[t] - 1 /\ \A i \in 1..Len(scopes'[t]) : scopes'[t][i] = i
        BY <1>e, <1>l, <2>1, OutwardType, MatchedHolds DEF Level
    <2>3. saved # <<>> => depth'[t] = depth[t] - 1
        BY <1>e, LeaveEnds
    <2>4. saved = <<>> => depth'[t] = 0
        BY <1>e, LeaveEnds
    <2> QED BY <1>e, <2>2, <2>3, <2>4, MatchedHolds DEF Level
<1>1. CASE BeginRequest(t)
    <2>1. UNCHANGED <<depth, failed, scopes>> /\ pc'[t] = "run"
          /\ pc[t] = "idle"
        BY <1>1 DEF BeginRequest, dbVars, TypeOK
    <2> QED BY <1>l, <2>1, EmptySeq DEF Level
<1>2. CASE OpenScope(t)
    <2>1. /\ pc[t] = "run" /\ ~failed[t] /\ UNCHANGED <<pc, failed>>
          /\ depth'[t] = depth[t] + 1
          /\ scopes'[t] = Append(scopes[t], depth[t] + 1)
        BY <1>2 DEF OpenScope, TypeOK
    <2>2. depth[t] + 1 \in 1..MaxDepth
        BY <1>2, TxAssumption DEF OpenScope, TypeOK
    <2>3. /\ Len(scopes'[t]) = Len(scopes[t]) + 1
          /\ \A i \in 1..Len(scopes[t]) : scopes'[t][i] = scopes[t][i]
          /\ scopes'[t][Len(scopes[t]) + 1] = depth[t] + 1
        BY <1>l, <2>1, <2>2, Longer
    <2>4. depth[t] = Len(scopes[t])
        BY <1>l, <2>1 DEF Level
    <2> QED BY <1>l, <2>1, <2>3, <2>4 DEF Level
<1>3. CASE BeginFails(t)  BY <1>3, <1>b DEF BeginFails
<1>4. CASE \E w \in Writes : Write(t, w)
    BY <1>4, <1>l, <1>a DEF Write, Level
<1>5. CASE \E w \in Writes : WriteLate(t, w)
    BY <1>5, <1>a DEF WriteLate, TypeOK
<1>6. CASE \E kind \in {"fail", "silent", "abort"} : StatementFails(t, kind)
    <2> PICK kind \in {"fail", "silent", "abort"} : StatementFails(t, kind)
        BY <1>6
    <2>1. pc[t] = "run" /\ UNCHANGED <<pc, depth, scopes>>
          /\ failed' = [failed EXCEPT ![t] = @ \/ kind # "silent"]
        BY DEF StatementFails
    <2>2. failed[t] => failed'[t]
        BY <2>1 DEF TypeOK
    <2> QED BY <2>1, <2>2, <1>a
<1>7. CASE LockTimeout(t)
    <2>1. failed[t] => failed'[t]
        BY <1>7 DEF LockTimeout, TypeOK
    <2> QED BY <1>7, <2>1, <1>a DEF LockTimeout, dbVars
<1>8. CASE EndMismatch(t)  BY <1>8, <1>b DEF EndMismatch
<1>9. CASE EndRollback(t)
    <2>1. IF saved = <<>> THEN saved' = <<>>
                          ELSE saved' = SubSeq(saved, 1, depth[t] - 1)
        BY <1>9 DEF EndRollback
    <2> QED BY <1>9, <2>1, <1>e DEF EndRollback
<1>10. CASE EndRollbackFails(t)
    <2>1. depth'[t] = 0  BY <1>10, <1>c DEF EndRollbackFails
    <2> QED BY <1>10, <2>1, <1>d, MatchedHolds DEF EndRollbackFails
<1>11. CASE EndCommit(t)
    BY <1>11, <1>e DEF EndCommit, MayCommit
<1>12. CASE EndCommitFails(t)  BY <1>12, <1>b DEF EndCommitFails
<1>13. CASE BreakScope(t)
    <2>1. CASE Jump(t)  BY <2>1, <1>b
    <2>2. CASE /\ failed' = [failed EXCEPT ![t] = TRUE]
               /\ scopes' = [scopes EXCEPT ![t] = Outward(t)]
               /\ UNCHANGED pc
        <3>1. depth'[t] = 0  BY <1>13, <1>c DEF BreakScope
        <3>2. failed'[t]  BY <2>2 DEF TypeOK
        <3> QED BY <1>13, <2>2, <3>1, <3>2, <1>d DEF BreakScope
    <2> QED BY <1>13, <2>1, <2>2 DEF BreakScope
<1>14. CASE Throw(t)  BY <1>14, <1>b DEF Throw
<1>15. CASE Return(t)
    <2>1. /\ pc[t] = "run" /\ scopes[t] = <<>> /\ pc'[t] = "landed"
          /\ UNCHANGED <<depth, failed, scopes>>
        BY <1>15 DEF Return, InScope, dbVars, TypeOK
    <2>2. depth[t] = 0
        BY <1>l, <2>1, EmptySeq DEF Level
    <2> QED BY <1>l, <2>1, <2>2, EmptySeq DEF Level
<1>16. CASE Land(t)
    <2>1. depth'[t] = 0  BY <1>16, <1>c DEF Land
    <2>2. pc'[t] = "respond" /\ scopes' = scopes /\ pc[t] = "landed"
        BY <1>16 DEF Land, TypeOK
    <2> QED BY <1>l, <2>1, <2>2 DEF Level
<1>17. CASE Respond(t)
    <2>1. depth'[t] = 0  BY <1>17, <1>c DEF Respond
    <2>2. pc'[t] = "idle" /\ scopes' = scopes /\ ~failed'[t] /\ pc[t] = "respond"
        BY <1>17 DEF Respond, TypeOK
    <2> QED BY <1>l, <2>1, <2>2 DEF Level
<1> QED BY <1>1, <1>2, <1>3, <1>4, <1>5, <1>6, <1>7, <1>8, <1>9, <1>10, <1>11,
           <1>12, <1>13, <1>14, <1>15, <1>16, <1>17
        DEF Step, Statement, EndScope

-----------------------------------------------------------------------------
(* What survives.                                                          *)

(* The connection sees what survives, and nothing else outside a           *)
(* transaction.                                                            *)
LEMMA CommittedSeen ==
    ASSUME TypeOK, Nested
    PROVE  Committed \subseteq cur /\ (saved = <<>> => Committed = cur)
<1>1. saved # <<>> => Len(saved) \in Nat \ {0}
    BY EmptySeq DEF TypeOK
<1> QED BY <1>1 DEF Committed, Nested

(* The same after a step.                                                  *)
LEMMA CommittedSeenNext ==
    ASSUME TypeOK', Nested'
    PROVE  Committed' \subseteq cur' /\ (saved' = <<>> => Committed' = cur')
<1>1. saved' # <<>> => Len(saved') \in Nat \ {0}
    BY EmptySeq DEF TypeOK
<1> QED BY <1>1 DEF Committed, Nested

(* BEGIN and SAVEPOINT publish nothing.                                    *)
LEMMA OpenKeeps ==
    ASSUME TypeOK, NEW t \in Threads, OpenScope(t)
    PROVE  Committed' = Committed /\ cur' = cur /\ saved' # <<>>
<1>1. saved' = Append(saved, cur) /\ cur' = cur
      /\ saved \in Seq(SUBSET Writes) /\ cur \in SUBSET Writes
    BY DEF OpenScope, TypeOK
<1>2. /\ saved' # <<>>
      /\ \A i \in 1..Len(saved) : saved'[i] = saved[i]
      /\ saved'[Len(saved) + 1] = cur
    BY <1>1, Longer
<1>3. CASE saved = <<>>
    <2>1. saved'[1] = cur  BY <1>2, <1>3, EmptySeq
    <2> QED BY <1>1, <1>2, <1>3, <2>1 DEF Committed
<1>4. CASE saved # <<>>
    <2>1. 1 \in 1..Len(saved)  BY <1>1, <1>4, EmptySeq
    <2> QED BY <1>1, <1>2, <1>4, <2>1 DEF Committed
<1> QED BY <1>3, <1>4

(* A rollback publishes nothing and brings no row back.                    *)
LEMMA RollbackUndoes ==
    ASSUME TypeOK, OneTransaction, Nested, Levels, NEW t \in Threads, EndRollback(t)
    PROVE  Committed' = Committed /\ cur' \subseteq cur
<1>1. CASE saved = <<>>
    BY <1>1 DEF EndRollback, Committed
<1>2. CASE saved # <<>>
    <2>1. /\ Matched(t) /\ cur' = saved[depth[t]]
          /\ saved' = SubSeq(saved, 1, depth[t] - 1)
        BY <1>2 DEF EndRollback
    <2>2. depth[t] \in Nat \ {0}  BY <2>1, MatchedHolds
    <2>3. CASE depth[t] = 1
        <3>1. saved' = <<>> /\ cur' \subseteq cur  BY <1>2, <2>1, <2>3, Popped
        <3> QED BY <1>2, <2>1, <2>3, <3>1 DEF Committed
    <2>4. CASE depth[t] # 1
        <3>1. saved' # <<>> /\ cur' \subseteq cur /\ saved'[1] = saved[1]
            BY <1>2, <2>1, <2>2, <2>4, Popped
        <3> QED BY <1>2, <3>1 DEF Committed
    <2> QED BY <2>3, <2>4
<1> QED BY <1>1, <1>2

(* A commit publishes everything at the outermost level and nothing inside.*)
LEMMA CommitPublishes ==
    ASSUME TypeOK, OneTransaction, Nested, Levels, NEW t \in Threads, EndCommit(t)
    PROVE  /\ cur' = cur
           /\ depth[t] = 1 => Committed' = cur /\ saved' = <<>> /\ lock' = None
           /\ depth[t] # 1 => Committed' = Committed /\ saved' # <<>> /\ lock' = t
<1>1. /\ Matched(t) /\ cur' = cur /\ saved # <<>> /\ Leave(t)
      /\ saved' = SubSeq(saved, 1, depth[t] - 1)
    BY DEF EndCommit, MayCommit
<1>2. depth[t] \in Nat \ {0} /\ lock = t
    BY <1>1, MatchedHolds
<1>3. CASE depth[t] = 1
    BY <1>1, <1>3, Popped DEF Committed, Leave
<1>4. CASE depth[t] # 1
    <2>1. saved' # <<>> /\ saved'[1] = saved[1]
        BY <1>1, <1>2, <1>4, Popped
    <2> QED BY <1>1, <1>2, <1>4, <2>1 DEF Committed, Leave
<1> QED BY <1>3, <1>4

(* A row is written: inside a transaction it is pending, outside it is     *)
(* committed at once.                                                      *)
LEMMA WriteEffect ==
    ASSUME TypeOK, OneTransaction, NEW t \in Threads, NEW w \in Writes,
           Write(t, w) \/ WriteLate(t, w)
    PROVE  /\ cur' = cur \cup {w} /\ UNCHANGED <<lock, saved, depth, pc, scopes>>
           /\ CanLock(t) /\ Fresh(w) /\ Record(t, w)
           /\ depth[t] > 0 => saved # <<>> /\ Committed' = Committed
           /\ depth[t] = 0 => lock = None /\ saved = <<>>
                              /\ Committed' = Committed \cup {w}
<1>1. /\ cur' = cur \cup {w} /\ UNCHANGED <<lock, saved, depth, pc, scopes>>
      /\ CanLock(t) /\ Fresh(w) /\ Record(t, w) /\ Prepared(t)
    BY DEF Write, WriteLate
<1>2. depth[t] > 0 => saved # <<>>
    BY <1>1 DEF Prepared
<1>3. depth[t] = 0 => lock = None /\ saved = <<>>
    BY <1>1, Alone
<1> QED BY <1>1, <1>2, <1>3 DEF Committed

(* Nothing committed is ever lost.                                         *)
LEMMA CommittedGrows ==
    ASSUME TypeOK, OneTransaction, Nested, Levels, NEW t \in Threads, Step(t)
    PROVE  Committed \subseteq Committed'
<1>a. UNCHANGED dbVars => Committed' = Committed
    BY DEF dbVars, Committed
<1>b. (\E ok \in BOOLEAN : AbortAll(t, ok)) => Committed' = Committed
    BY AbortAllEnds
<1>1. CASE BeginRequest(t)  BY <1>1, <1>a DEF BeginRequest
<1>2. CASE OpenScope(t)  BY <1>2, OpenKeeps
<1>3. CASE BeginFails(t)  BY <1>3, <1>a DEF BeginFails
<1>4. CASE \E w \in Writes : Write(t, w) \/ WriteLate(t, w)
    <2> PICK w \in Writes : Write(t, w) \/ WriteLate(t, w)
        BY <1>4
    <2>1. depth[t] > 0 \/ depth[t] = 0  BY DEF TypeOK
    <2> QED BY <2>1, WriteEffect
<1>5. CASE \E kind \in {"fail", "silent", "abort"} : StatementFails(t, kind)
    BY <1>5 DEF StatementFails, Committed
<1>6. CASE LockTimeout(t)  BY <1>6, <1>a DEF LockTimeout
<1>7. CASE EndMismatch(t)  BY <1>7, <1>b DEF EndMismatch
<1>8. CASE EndRollback(t)  BY <1>8, RollbackUndoes
<1>9. CASE EndRollbackFails(t)  BY <1>9, <1>b DEF EndRollbackFails
<1>10. CASE EndCommit(t)  BY <1>10, CommitPublishes, CommittedSeen
<1>11. CASE EndCommitFails(t)  BY <1>11, <1>b DEF EndCommitFails
<1>12. CASE BreakScope(t)  BY <1>12, <1>b DEF BreakScope
<1>13. CASE Throw(t)  BY <1>13, <1>a DEF Throw
<1>14. CASE Return(t)  BY <1>14, <1>a DEF Return
<1>15. CASE Land(t)  BY <1>15, <1>b DEF Land
<1>16. CASE Respond(t)  BY <1>16, <1>b DEF Respond
<1> QED BY <1>1, <1>2, <1>3, <1>4, <1>5, <1>6, <1>7, <1>8, <1>9, <1>10, <1>11,
           <1>12, <1>13, <1>14, <1>15, <1>16
        DEF Step, Statement, EndScope

(* While a thread is in a transaction the steps of the others leave the    *)
(* database alone.                                                         *)
LEMMA LockedOut ==
    ASSUME TypeOK, OneTransaction, Nested, Levels, NEW t \in Threads, Step(t),
           NEW u \in Threads \ {t}, depth[u] > 0
    PROVE  UNCHANGED <<cur, saved, lock>>
<1>1. lock = u /\ lock # None /\ depth[t] = 0 /\ ~CanLock(t)
    BY TxAssumption DEF OneTransaction, CanLock, TypeOK
<1>2. ~Matched(t)
    BY <1>1, MatchedHolds
<1>a. UNCHANGED dbVars => UNCHANGED <<cur, saved, lock>>
    BY DEF dbVars
<1>b. (\E ok \in BOOLEAN : AbortAll(t, ok)) => UNCHANGED <<cur, saved, lock>>
    BY <1>1, <1>a DEF AbortAll
<1>3. (~OpenScope(t) /\ ~Statement(t)) \/ LockTimeout(t)
    BY <1>1 DEF OpenScope, Statement, Write, WriteLate, StatementFails
<1>4. ~EndRollback(t) /\ ~EndRollbackFails(t) /\ ~EndCommit(t) /\ ~EndCommitFails(t)
    BY <1>2 DEF EndRollback, EndRollbackFails, EndCommit, EndCommitFails
<1>5. CASE BeginRequest(t)  BY <1>5, <1>a DEF BeginRequest
<1>6. CASE BeginFails(t)  BY <1>6, <1>a DEF BeginFails
<1>7. CASE LockTimeout(t)  BY <1>7, <1>a DEF LockTimeout
<1>8. CASE EndMismatch(t)  BY <1>8, <1>b DEF EndMismatch
<1>9. CASE BreakScope(t)  BY <1>9, <1>b DEF BreakScope
<1>10. CASE Throw(t)  BY <1>10, <1>a DEF Throw
<1>11. CASE Return(t)  BY <1>11, <1>a DEF Return
<1>12. CASE Land(t)  BY <1>12, <1>b DEF Land
<1>13. CASE Respond(t)  BY <1>13, <1>b DEF Respond
<1> QED BY <1>3, <1>4, <1>5, <1>6, <1>7, <1>8, <1>9, <1>10, <1>11, <1>12, <1>13
        DEF Step, EndScope

-----------------------------------------------------------------------------
(* The rows of a request that has not failed.                              *)

(* Inside the handler, a request that has not failed is in a scope exactly *)
(* when it is in a transaction.                                            *)
LEMMA InScopeDepth ==
    ASSUME TypeOK, Levels, NEW t \in Threads, pc[t] = "run", ~failed[t]
    PROVE  /\ depth[t] = Len(scopes[t]) /\ depth[t] \in Nat
           /\ InScope(t) <=> depth[t] > 0
<1>1. scopes[t] \in Seq(1..MaxDepth) /\ depth[t] \in Nat
    BY DEF TypeOK
<1>2. depth[t] = Len(scopes[t])
    BY DEF Levels, Level
<1> QED BY <1>1, <1>2, EmptySeq DEF InScope

(* Every step keeps the rows of the requests that have not failed.         *)
LEMMA CompleteStep ==
    ASSUME TypeOK, OneTransaction, Nested, Levels, AllComplete,
           NEW t \in Threads, Step(t)
    PROVE  AllComplete'
<1>o. ASSUME NEW u \in Threads \ {t} PROVE Complete(u)'
    <2>1. Complete(u) /\ Level(u) /\ depth[u] \in Nat
        BY DEF AllComplete, Levels, TypeOK
    <2>2. depth[u] > 0 => UNCHANGED <<cur, saved>>
        BY LockedOut
    <2>3. Committed \subseteq Committed'
        BY CommittedGrows
    <2>4. InScope(u) /\ ~failed[u] => depth[u] > 0
        BY <2>1, InScopeDepth DEF Level, InScope
    <2> QED BY <2>1, <2>2, <2>3, <2>4, OthersKeep DEF Complete, InScope
<1> SUFFICES Complete(t)'
    BY <1>o DEF AllComplete
<1>l. Complete(t) /\ Level(t) /\ depth[t] \in Nat
    BY DEF AllComplete, Levels, TypeOK
<1>a. failed'[t] => Complete(t)'
    BY DEF Complete
<1>b. Jump(t) => Complete(t)'
    BY <1>a DEF Jump, TypeOK
<1>1. CASE BeginRequest(t)
    <2>1. /\ pc'[t] = "run" /\ group'[t] = {} /\ stray'[t] = {} /\ ~bad'[t]
          /\ scopes'[t] = <<>> /\ depth'[t] = 0
        BY <1>1, <1>l DEF BeginRequest, Level, dbVars, TypeOK
    <2> QED BY <2>1 DEF Complete, InScope
<1>2. CASE OpenScope(t)
    <2>1. cur' = cur /\ saved' # <<>>
        BY <1>2, OpenKeeps
    <2>2. /\ pc[t] = "run" /\ ~failed[t]
          /\ scopes'[t] = Append(scopes[t], depth[t] + 1)
          /\ failedLevel' = failedLevel
          /\ group'[t] = IF InScope(t) THEN group[t] ELSE {}
          /\ stray'[t] = IF InScope(t) THEN stray[t] ELSE {}
          /\ bad'[t] = (bad[t] /\ InScope(t))
        BY <1>2 DEF OpenScope, TypeOK
    <2>3. depth[t] + 1 \in 1..MaxDepth
        BY <1>2, TxAssumption DEF OpenScope, TypeOK
    <2>4. scopes'[t] # <<>>
        <3>1. scopes[t] \in Seq(1..MaxDepth)  BY DEF TypeOK
        <3> QED BY <2>2, <2>3, <3>1, Longer
    <2> QED BY <1>l, <2>1, <2>2, <2>4 DEF Complete, InScope
<1>3. CASE BeginFails(t)  BY <1>3, <1>b DEF BeginFails
<1>4. CASE \E w \in Writes : Write(t, w)
    <2> PICK w \in Writes : Write(t, w)
        BY <1>4
    <2>1. /\ pc[t] = "run"
          /\ UNCHANGED <<saved, depth, failedLevel, pc, failed, scopes, bad>>
        BY DEF Write
    <2>2. /\ cur' = cur \cup {w}
          /\ group'[t] = IF InScope(t) /\ depth[t] > 0 THEN group[t] \cup {w}
                                                       ELSE group[t]
          /\ stray'[t] = IF InScope(t) /\ depth[t] = 0 THEN stray[t] \cup {w}
                                                       ELSE stray[t]
        BY DEF Write, Record, TypeOK
    <2>3. Committed \subseteq Committed'
        BY CommittedGrows
    <2>4. ~failed[t] => (InScope(t) <=> depth[t] > 0)
        BY <2>1, InScopeDepth
    <2>5. InScope(t)' = InScope(t)
        BY <2>1 DEF InScope
    <2> QED BY <1>l, <2>1, <2>2, <2>3, <2>4, <2>5 DEF Complete
<1>5. CASE \E w \in Writes : WriteLate(t, w)
    BY <1>5, <1>a DEF WriteLate, TypeOK
<1>6. CASE \E kind \in {"fail", "silent", "abort"} : StatementFails(t, kind)
    <2> PICK kind \in {"fail", "silent", "abort"} : StatementFails(t, kind)
        BY <1>6
    <2>1. CASE kind # "silent"
        BY <2>1, <1>a DEF StatementFails, TypeOK
    <2>2. CASE kind = "silent"
        <3>1. /\ pc[t] = "run"
              /\ UNCHANGED <<cur, saved, depth, pc, scopes, group, stray>>
              /\ failed'[t] = failed[t] /\ bad'[t] = (bad[t] \/ InScope(t))
            BY <2>2 DEF StatementFails, TypeOK
        <3>2. depth[t] > 0 => failedLevel'[t] > 0
            BY DEF StatementFails, NoteFailure, TypeOK
        <3>3. Committed' = Committed /\ InScope(t)' = InScope(t)
            BY <3>1 DEF Committed, InScope
        <3>4. ~failed[t] => (InScope(t) <=> depth[t] > 0)
            BY <3>1, InScopeDepth
        <3> QED BY <1>l, <3>1, <3>2, <3>3, <3>4 DEF Complete
    <2> QED BY <2>1, <2>2
<1>7. CASE LockTimeout(t)
    <2>1. /\ pc[t] = "run" /\ depth[t] = 0
          /\ UNCHANGED <<cur, saved, depth, failedLevel, pc, scopes, group, stray>>
          /\ failed[t] => failed'[t]
          /\ bad'[t] = (bad[t] \/ InScope(t))
        BY <1>7, <1>l DEF LockTimeout, CanLock, dbVars, TypeOK
    <2>2. Committed' = Committed /\ InScope(t)' = InScope(t)
        BY <2>1 DEF Committed, InScope
    <2>3. ~failed[t] => ~InScope(t)
        BY <2>1, InScopeDepth
    <2> QED BY <1>l, <2>1, <2>2, <2>3 DEF Complete
<1>8. CASE EndMismatch(t)  BY <1>8, <1>b DEF EndMismatch
<1>9. CASE EndRollback(t)  BY <1>9, <1>a DEF EndRollback
<1>10. CASE EndRollbackFails(t)  BY <1>10, <1>a DEF EndRollbackFails
<1>11. CASE EndCommit(t)
    <2>1. /\ Matched(t) /\ ~failed[t] /\ failedLevel[t] = 0 /\ saved # <<>>
          /\ UNCHANGED <<pc, failed, failedLevel, group, stray, bad>>
          /\ scopes'[t] = Outward(t)
        BY <1>11 DEF EndCommit, MayCommit, ghostVars, TypeOK
    <2>2. pc[t] = "run" /\ InScope(t) /\ depth[t] = Len(scopes[t])
        BY <2>1, MatchedHolds
    <2>3. InScope(t)' <=> depth[t] # 1
        BY <2>1, <2>2, OutwardType DEF InScope
    <2>4. ~bad[t] /\ group[t] \subseteq cur /\ stray[t] = {}
        BY <1>l, <2>1, <2>2 DEF Complete
    <2>5. depth[t] = 1 => depth'[t] = 0
        BY <1>11, <2>1, LeaveEnds DEF EndCommit
    <2> QED BY <1>11, <2>1, <2>3, <2>4, <2>5, CommitPublishes DEF Complete
<1>12. CASE EndCommitFails(t)  BY <1>12, <1>b DEF EndCommitFails
<1>13. CASE BreakScope(t)
    <2>1. failed'[t]  BY <1>13 DEF BreakScope, Jump, TypeOK
    <2> QED BY <2>1, <1>a
<1>14. CASE Throw(t)  BY <1>14, <1>b DEF Throw
<1>15. CASE Return(t)
    <2>1. /\ pc[t] = "run" /\ ~InScope(t) /\ UNCHANGED <<failed, scopes>>
          /\ UNCHANGED <<cur, saved, depth, group, stray, bad>>
        BY <1>15 DEF Return, dbVars, ghostVars
    <2>2. Committed' = Committed /\ InScope(t)' = InScope(t)
        BY <2>1 DEF Committed, InScope
    <2> QED BY <1>l, <2>1, <2>2 DEF Complete
<1>16. CASE Land(t)
    <2>1. /\ pc[t] = "landed" /\ UNCHANGED <<scopes, group, stray, bad>>
          /\ failed[t] => failed'[t]
          /\ depth[t] > 0 => failed'[t]
        BY <1>16 DEF Land, ghostVars, TypeOK
    <2>2. depth[t] = 0 => UNCHANGED <<cur, saved, depth>>
        BY <1>16 DEF Land, AbortAll, dbVars
    <2>3. depth[t] = 0 => Committed' = Committed
        BY <2>2 DEF Committed
    <2>4. scopes[t] = <<>>
        BY <1>l, <2>1 DEF Level
    <2>5. CASE failed'[t]  BY <2>5, <1>a
    <2>6. CASE ~failed'[t]
        <3>1. ~failed[t] /\ depth[t] = 0 /\ depth'[t] = 0
            BY <1>l, <2>1, <2>2, <2>6
        <3>2. stray[t] = {} /\ group[t] \subseteq Committed /\ ~bad[t]
            BY <1>l, <2>1, <2>4, <3>1 DEF Complete, InScope
        <3> QED BY <2>1, <2>3, <2>4, <3>1, <3>2 DEF Complete, InScope
    <2> QED BY <2>5, <2>6
<1>17. CASE Respond(t)
    BY <1>17 DEF Respond, Complete, TypeOK
<1> QED BY <1>1, <1>2, <1>3, <1>4, <1>5, <1>6, <1>7, <1>8, <1>9, <1>10, <1>11,
           <1>12, <1>13, <1>14, <1>15, <1>16, <1>17
        DEF Step, Statement, EndScope

-----------------------------------------------------------------------------
(* Behaviours in which SQLite never ends a transaction of its own accord,  *)
(* no ROLLBACK fails and no scope is left by break.                        *)

(* A row that appears is one that nobody had.                              *)
LEMMA RowsAreNew ==
    ASSUME TypeOK, OneTransaction, Nested, Levels, NEW t \in Threads, Step(t),
           NEW u \in Threads, NEW x \in cur' \ cur
    PROVE  x \notin group[u] /\ CanLock(t)
<1>a. UNCHANGED dbVars => FALSE
    BY DEF dbVars
<1>b. (\E ok \in BOOLEAN : AbortAll(t, ok)) => FALSE
    BY <1>a, CommittedSeen DEF AbortAll
<1>1. CASE BeginRequest(t)  BY <1>1, <1>a DEF BeginRequest
<1>2. CASE OpenScope(t)  BY <1>2 DEF OpenScope
<1>3. CASE BeginFails(t)  BY <1>3, <1>a DEF BeginFails
<1>4. CASE \E w \in Writes : Write(t, w) \/ WriteLate(t, w)
    BY <1>4 DEF Write, WriteLate, Fresh
<1>5. CASE \E kind \in {"fail", "silent", "abort"} : StatementFails(t, kind)
    BY <1>5, CommittedSeen DEF StatementFails
<1>6. CASE LockTimeout(t)  BY <1>6, <1>a DEF LockTimeout
<1>7. CASE EndMismatch(t)  BY <1>7, <1>b DEF EndMismatch
<1>8. CASE EndRollback(t)  BY <1>8, RollbackUndoes
<1>9. CASE EndRollbackFails(t)  BY <1>9, <1>b DEF EndRollbackFails
<1>10. CASE EndCommit(t)  BY <1>10, CommitPublishes
<1>11. CASE EndCommitFails(t)  BY <1>11, <1>b DEF EndCommitFails
<1>12. CASE BreakScope(t)  BY <1>12, <1>b DEF BreakScope
<1>13. CASE Throw(t)  BY <1>13, <1>a DEF Throw
<1>14. CASE Return(t)  BY <1>14, <1>a DEF Return
<1>15. CASE Land(t)  BY <1>15, <1>b DEF Land
<1>16. CASE Respond(t)  BY <1>16, <1>b DEF Respond
<1> QED BY <1>1, <1>2, <1>3, <1>4, <1>5, <1>6, <1>7, <1>8, <1>9, <1>10, <1>11,
           <1>12, <1>13, <1>14, <1>15, <1>16
        DEF Step, Statement, EndScope

(* The steps of the other threads do not touch a thread's scope, whether   *)
(* its transaction is open or over.                                        *)
LEMMA CalmOthers ==
    ASSUME TypeOK, OneTransaction, Nested, Levels, NEW t \in Threads, Step(t),
           TypeOK', Nested', NEW u \in Threads \ {t}, Calm(u)
    PROVE  Calm(u)'
<1>1. /\ pc'[u] = pc[u] /\ depth'[u] = depth[u] /\ failed'[u] = failed[u]
      /\ scopes'[u] = scopes[u] /\ failedLevel'[u] = failedLevel[u]
      /\ group'[u] = group[u] /\ stray'[u] = stray[u] /\ clean'[u] = clean[u]
    BY OthersKeep
<1>2. depth[u] \in Nat /\ (depth[u] > 0 <=> lock = u)
    BY DEF TypeOK, OneTransaction
<1>3. CASE depth[u] > 0
    <2>1. UNCHANGED <<cur, saved, lock>>
        BY <1>3, LockedOut
    <2>2. Committed' = Committed
        BY <2>1 DEF Committed
    <2> QED BY <1>1, <2>1, <2>2 DEF Calm
<1>4. CASE depth[u] = 0
    <2>1. group[u] \cap cur \subseteq Committed
        BY <1>2, <1>4 DEF Calm
    <2>2. Committed \subseteq Committed' /\ Committed' \subseteq cur'
        BY CommittedGrows, CommittedSeenNext
    <2>3. group[u] \cap cur' \subseteq Committed
        BY <2>1, RowsAreNew
    <2>4. \/ group[u] \subseteq Committed'
          \/ group[u] \cap Committed' = {}
        BY <1>4, <2>2, <2>3 DEF Calm
    <2> QED BY <1>1, <1>4, <2>2, <2>3, <2>4 DEF Calm
<1> QED BY <1>2, <1>3, <1>4

(* A thread's own step.  Rows it wrote and cannot see any more are gone    *)
(* for good; what it can see outside a transaction is committed.           *)
LEMMA CalmOwn ==
    ASSUME TypeOK, OneTransaction, Nested, Levels, AllComplete,
           NEW t \in Threads, Step(t), UNCHANGED faults,
           TypeOK', OneTransaction', Nested', Levels', Faultless, Calm(t)
    PROVE  Calm(t)'
<1>f. /\ "abort" \notin faults /\ "rollback" \notin faults
      /\ "break" \notin faults
    BY DEF Faultless
<1>l. /\ Complete(t) /\ Level(t) /\ depth[t] \in Nat /\ depth'[t] \in Nat
      /\ failedLevel[t] \in Nat /\ failedLevel'[t] \in Nat
    BY DEF AllComplete, Levels, TypeOK
<1>r. ASSUME pc[t] = "run"
      PROVE  InScope(t) <=> depth[t] > 0
    <2>1. depth[t] = Len(scopes[t]) /\ scopes[t] \in Seq(1..MaxDepth)
        BY <1>r DEF Calm, TypeOK
    <2> QED BY <2>1, EmptySeq DEF InScope
<1>s. ASSUME group'[t] \subseteq group[t] \/ CanLock(t)
      PROVE  lock' # t => group'[t] \cap cur' \subseteq Committed'
    <2> SUFFICES ASSUME lock' # t PROVE group'[t] \cap cur' \subseteq Committed'
        OBVIOUS
    <2>1. CASE lock' = None
        <3>1. saved' = <<>>  BY <2>1 DEF OneTransaction
        <3> QED BY <3>1, CommittedSeenNext
    <2>2. CASE lock' # None
        <3>1. PICK u \in Threads \ {t} : lock' = u
            BY <2>2 DEF TypeOK
        <3>2. depth'[u] > 0
            BY <3>1 DEF OneTransaction
        <3>3. depth[u] > 0
            BY <3>2, OthersKeep
        <3>4. UNCHANGED <<cur, saved, lock>>
            BY <3>3, LockedOut
        <3>5. ~CanLock(t) /\ lock # t
            BY <3>1, <3>3, <3>4, Alone
        <3>6. Committed' = Committed
            BY <3>4 DEF Committed
        <3>7. group[t] \cap cur \subseteq Committed
            BY <3>5 DEF Calm
        <3> QED BY <1>s, <3>4, <3>5, <3>6, <3>7
    <2> QED BY <2>1, <2>2
<1>a. UNCHANGED dbVars =>
          UNCHANGED <<lock, open, cur, saved, depth, failedLevel>>
          /\ Committed' = Committed
    BY DEF dbVars, Committed
(* db_abort_all, with the request's failure known.                         *)
<1>b. ASSUME NEW ok \in BOOLEAN, AbortAll(t, ok)
      PROVE  /\ depth'[t] = 0 /\ failedLevel'[t] = 0 /\ Committed' = Committed
             /\ group[t] \subseteq Committed \/ group[t] \cap Committed = {}
             /\ depth[t] = 0 => UNCHANGED <<lock, open, cur, saved, depth, failedLevel>>
    <2>1. Committed' = Committed  BY <1>b, AbortAllEnds
    <2>2. CASE depth[t] = 0
        BY <1>b, <1>l, <2>1, <2>2 DEF AbortAll, dbVars, Calm
    <2>3. CASE depth[t] # 0
        BY <1>b, <1>l, <2>1, <2>3 DEF AbortAll, Calm, TypeOK
    <2> QED BY <2>2, <2>3
<1>c. ASSUME \E ok \in BOOLEAN : AbortAll(t, ok), pc'[t] # "run",
             UNCHANGED <<group, stray>>,
             pc'[t] # "idle" /\ clean'[t] => ~failed'[t]
      PROVE  Calm(t)'
    <2>1. /\ depth'[t] = 0 /\ failedLevel'[t] = 0 /\ Committed' = Committed
          /\ group[t] \subseteq Committed \/ group[t] \cap Committed = {}
        BY <1>b, <1>c
    <2> QED BY <1>c, <1>s, <2>1 DEF Calm
<1>d. ASSUME Jump(t), UNCHANGED <<group, stray>>, UNCHANGED dbVars, ~clean'[t]
      PROVE  Calm(t)'
    <2>1. pc'[t] = "landed"  BY <1>d DEF Jump, TypeOK
    <2> QED BY <1>d, <1>a, <2>1 DEF Calm
(* db_commit and db_rollback of the scope's own level.                     *)
<1>e. ASSUME Matched(t), Leave(t), saved # <<>>, UNCHANGED <<open, pc, failed>>,
             saved' = SubSeq(saved, 1, depth[t] - 1),
             scopes' = [scopes EXCEPT ![t] = Outward(t)]
      PROVE  /\ pc'[t] = "run" => depth'[t] = Len(scopes'[t])
             /\ depth'[t] = depth[t] - 1
             /\ depth'[t] > 0 => saved' # <<>>
             /\ depth[t] > 0
    <2>1. depth[t] = Len(scopes[t]) /\ InScope(t) /\ depth[t] > 0
        BY <1>e, <1>l, MatchedHolds
    <2>2. depth'[t] = depth[t] - 1 /\ depth'[t] = IF saved' = <<>> THEN 0 ELSE depth[t] - 1
        BY <1>e, LeaveEnds
    <2>3. Len(scopes'[t]) = Len(scopes[t]) - 1
        <3>1. scopes'[t] = Outward(t)  BY <1>e DEF TypeOK
        <3> QED BY <2>1, <3>1, OutwardType
    <2> QED BY <1>l, <2>1, <2>2, <2>3
<1>1. CASE BeginRequest(t)
    <2>1. /\ pc[t] = "idle" /\ pc'[t] = "run" /\ group'[t] = {} /\ stray'[t] = {}
          /\ UNCHANGED <<failed, scopes>> /\ UNCHANGED dbVars
        BY <1>1 DEF BeginRequest, TypeOK
    <2>2. depth[t] = 0 /\ scopes[t] = <<>> /\ ~failed[t] /\ failedLevel[t] = 0
        BY <2>1, <1>l DEF Level, Calm
    <2> QED BY <2>1, <2>2, <1>a, EmptySeq DEF Calm
<1>2. CASE OpenScope(t)
    <2>1. /\ pc[t] = "run" /\ ~failed[t] /\ CanLock(t)
          /\ UNCHANGED <<failedLevel, pc, failed, clean>>
          /\ depth'[t] = depth[t] + 1
          /\ group'[t] = IF InScope(t) THEN group[t] ELSE {}
          /\ stray'[t] = IF InScope(t) THEN stray[t] ELSE {}
          /\ scopes'[t] = Append(scopes[t], depth[t] + 1)
        BY <1>2 DEF OpenScope, TypeOK
    <2>2. Committed' = Committed /\ saved' # <<>>
        BY <1>2, OpenKeeps
    <2>3. group'[t] \cap Committed = {}
        BY <2>1, <1>r DEF Calm
    <2>4. depth'[t] = Len(scopes'[t])
        <3>1. scopes[t] \in Seq(1..MaxDepth) /\ depth[t] + 1 \in 1..MaxDepth
            BY <1>2, TxAssumption DEF OpenScope, TypeOK
        <3>2. Len(scopes'[t]) = Len(scopes[t]) + 1
            BY <2>1, <3>1, Longer
        <3> QED BY <2>1, <3>2 DEF Calm
    <2> QED BY <2>1, <2>2, <2>3, <2>4, <1>l, <1>s DEF Calm
<1>3. CASE BeginFails(t)
    BY <1>3, <1>d DEF BeginFails, Trouble, TypeOK
<1>4. CASE \E w \in Writes : Write(t, w) \/ WriteLate(t, w)
    <2> PICK w \in Writes : Write(t, w) \/ WriteLate(t, w)
        BY <1>4
    <2>1. /\ cur' = cur \cup {w} /\ UNCHANGED <<lock, saved, depth, pc, scopes>>
          /\ CanLock(t) /\ Fresh(w) /\ Record(t, w)
          /\ depth[t] > 0 => saved # <<>> /\ Committed' = Committed
          /\ depth[t] = 0 => lock = None /\ saved = <<>>
                             /\ Committed' = Committed \cup {w}
        BY WriteEffect
    <2>2. /\ pc[t] = "run" /\ w \notin cur /\ w \notin group[t]
          /\ w \notin Committed
        BY <2>1, CommittedSeen DEF Write, WriteLate, Fresh
    <2>3. /\ group'[t] = IF depth[t] > 0 THEN group[t] \cup {w} ELSE group[t]
          /\ stray'[t] = stray[t]
        BY <2>1, <2>2, <1>r, <1>l DEF Record, TypeOK
    <2>4. failedLevel'[t] <= depth[t]
        BY <1>l DEF Write, WriteLate, NoteFailure, Calm, TypeOK
    <2>5. clean'[t] => clean[t] /\ failed' = failed /\ failedLevel' = failedLevel
        BY DEF Write, WriteLate, Trouble, TypeOK
    <2>6. depth[t] > 0 => group'[t] \cap Committed' = {}
        BY <2>1, <2>2, <2>3 DEF Calm
    <2>7. depth[t] = 0 => \/ group'[t] \subseteq Committed'
                          \/ group'[t] \cap Committed' = {}
        BY <2>1, <2>2, <2>3 DEF Calm
    <2> QED BY <1>s, <2>1, <2>2, <2>3, <2>4, <2>5, <2>6, <2>7 DEF Calm
<1>5. CASE \E kind \in {"fail", "silent", "abort"} : StatementFails(t, kind)
    <2> PICK kind \in {"fail", "silent", "abort"} : StatementFails(t, kind)
        BY <1>5
    <2>1. /\ UNCHANGED <<lock, cur, saved, depth, pc, scopes, group, stray>>
          /\ ~clean'[t]
        BY <1>f DEF StatementFails, Trouble, TypeOK
    <2>2. failedLevel'[t] <= depth[t]
        BY <1>l DEF StatementFails, NoteFailure, Calm, TypeOK
    <2>3. Committed' = Committed
        BY <2>1 DEF Committed
    <2> QED BY <2>1, <2>2, <2>3 DEF Calm
<1>6. CASE LockTimeout(t)
    <2>1. UNCHANGED dbVars /\ UNCHANGED <<pc, scopes, group, stray>> /\ ~clean'[t]
        BY <1>6 DEF LockTimeout, Trouble, TypeOK
    <2> QED BY <2>1, <1>a DEF Calm
<1>7. CASE EndMismatch(t)
    <2>1. depth[t] = Len(scopes[t]) /\ InScope(t) /\ pc[t] = "run"
        BY <1>7 DEF EndMismatch, Calm
    <2>2. Len(scopes[t]) \in Nat \ {0}
        BY <2>1, OutwardType
    <2>3. Inner(t) = Len(scopes[t])
        BY <2>2, <1>l DEF Inner, Level
    <2> QED BY <1>7, <2>1, <2>3 DEF EndMismatch
<1>8. CASE EndRollback(t)
    <2>1. /\ Matched(t) /\ failed[t] /\ Leave(t)
          /\ UNCHANGED <<open, pc, failed, group, stray, clean>>
          /\ scopes' = [scopes EXCEPT ![t] = Outward(t)]
        BY <1>8 DEF EndRollback, ghostVars
    <2>2. depth[t] > 0 /\ pc[t] = "run"
        BY <2>1, <1>l, MatchedHolds
    <2>3. saved # <<>>
        BY <2>2 DEF Calm
    <2>4. saved' = SubSeq(saved, 1, depth[t] - 1)
        BY <1>8, <2>3 DEF EndRollback
    <2>5. Committed' = Committed
        BY <1>8, RollbackUndoes
    <2>6. failedLevel'[t] <= depth[t] - 1
        BY <1>8, <1>l, <2>2 DEF EndRollback, Calm, TypeOK
    <2>7. group'[t] \cap Committed' = {}
        BY <2>1, <2>2, <2>5 DEF Calm
    <2> QED BY <2>1, <2>2, <2>3, <2>4, <2>6, <2>7, <1>e, <1>s DEF Calm
<1>9. CASE EndRollbackFails(t)
    BY <1>9, <1>f DEF EndRollbackFails
<1>10. CASE EndCommit(t)
    <2>1. /\ Matched(t) /\ ~failed[t] /\ Leave(t) /\ saved # <<>>
          /\ UNCHANGED <<open, pc, failed, failedLevel, group, stray, clean>>
          /\ scopes' = [scopes EXCEPT ![t] = Outward(t)]
          /\ saved' = SubSeq(saved, 1, depth[t] - 1) /\ failedLevel[t] = 0
        BY <1>10 DEF EndCommit, MayCommit, ghostVars
    <2>2. pc[t] = "run" /\ InScope(t) /\ depth[t] > 0
        BY <2>1, <1>l, MatchedHolds
    <2>3. group[t] \subseteq cur
        BY <2>1, <2>2, <1>l DEF Complete
    <2>4. /\ depth[t] = 1 => Committed' = cur
          /\ depth[t] # 1 => Committed' = Committed
        BY <1>10, CommitPublishes
    <2>5. depth'[t] = depth[t] - 1 /\ depth'[t] = Len(scopes'[t])
          /\ (depth'[t] > 0 => saved' # <<>>)
        BY <2>1, <2>2, <1>e
    <2>6. depth'[t] > 0 => group'[t] \cap Committed' = {}
        <3>1. group[t] \cap Committed = {}
            BY <2>2 DEF Calm
        <3>2. depth'[t] > 0 => depth[t] # 1
            BY <1>l, <2>5
        <3> QED BY <2>1, <2>4, <3>1, <3>2
    <2>7. depth'[t] = 0 => group'[t] \subseteq Committed'
        <3>1. depth'[t] = 0 => depth[t] = 1
            BY <1>l, <2>5
        <3> QED BY <2>1, <2>3, <2>4, <3>1
    <2> QED BY <1>l, <2>1, <2>2, <2>5, <2>6, <2>7, <1>s DEF Calm
<1>11. CASE EndCommitFails(t)
    <2>1. /\ Matched(t) /\ ~failed[t] /\ Jump(t)
          /\ UNCHANGED <<group, stray>>
          /\ \E ok \in BOOLEAN : AbortAll(t, ok)
          /\ clean'[t] => clean[t] /\ ~MayCommit(t)
        BY <1>11 DEF EndCommitFails, TypeOK
    <2>2. pc[t] = "run" /\ depth[t] > 0 /\ saved # <<>>
        BY <2>1, <1>l, MatchedHolds DEF Calm
    <2>3. ~clean'[t]
        BY <2>1, <2>2 DEF Calm, MayCommit
    <2>4. pc'[t] = "landed"
        BY <2>1 DEF Jump, TypeOK
    <2> QED BY <2>1, <2>3, <2>4, <1>c
<1>12. CASE BreakScope(t)
    BY <1>12, <1>f DEF BreakScope
<1>13. CASE Throw(t)
    BY <1>13, <1>d DEF Throw, Trouble, TypeOK
<1>14. CASE Return(t)
    <2>1. /\ pc[t] = "run" /\ pc'[t] = "landed" /\ UNCHANGED dbVars
          /\ UNCHANGED <<failed, scopes, group, stray, clean>>
        BY <1>14 DEF Return, ghostVars, TypeOK
    <2> QED BY <2>1, <1>a DEF Calm
<1>15. CASE Land(t)
    <2>1. /\ pc[t] = "landed" /\ pc'[t] = "respond"
          /\ UNCHANGED <<scopes, group, stray, clean>>
          /\ \E ok \in BOOLEAN : AbortAll(t, ok)
          /\ ~failed[t] /\ depth[t] = 0 => ~failed'[t]
        BY <1>15, <1>l DEF Land, ghostVars, TypeOK
    <2>2. clean[t] => ~failed[t]
        BY <2>1 DEF Calm
    <2>3. ~failed[t] => depth[t] = 0
        BY <2>1, <1>l DEF Level
    <2>4. clean'[t] => ~failed'[t]
        BY <2>1, <2>2, <2>3
    <2> QED BY <2>1, <2>4, <1>c
<1>16. CASE Respond(t)
    <2>1. pc'[t] = "idle" /\ UNCHANGED <<group, stray>>
          /\ \E ok \in BOOLEAN : AbortAll(t, ok)
        BY <1>16 DEF Respond, ghostVars, TypeOK
    <2> QED BY <2>1, <1>c
<1> QED BY <1>1, <1>2, <1>3, <1>4, <1>5, <1>6, <1>7, <1>8, <1>9, <1>10, <1>11,
           <1>12, <1>13, <1>14, <1>15, <1>16
        DEF Step, Statement, EndScope

-----------------------------------------------------------------------------
(* The invariant and what it gives.                                        *)

(* It holds when the program starts.                                       *)
LEMMA InitInv == Init => IInv
<1> SUFFICES ASSUME Init PROVE IInv
    OBVIOUS
<1>1. TypeOK  BY InitType
<1>2. lock = None /\ open /\ saved = <<>>
    BY DEF Init
<1>3. ASSUME NEW t \in Threads
      PROVE  /\ pc[t] = "idle" /\ depth[t] = 0 /\ failedLevel[t] = 0
             /\ ~failed[t] /\ scopes[t] = <<>> /\ group[t] = {} /\ stray[t] = {}
    BY DEF Init
<1>4. OneTransaction
    BY <1>2, <1>3, TxAssumption DEF OneTransaction
<1>5. Nested  BY <1>2, EmptySeq DEF Nested
<1>6. Levels
    <2> SUFFICES ASSUME NEW t \in Threads PROVE Level(t)
        BY DEF Levels
    <2> QED BY <1>3, EmptySeq DEF Level
<1>7. AllComplete  BY <1>3 DEF AllComplete, Complete
<1>8. AllCalm
    <2> SUFFICES ASSUME NEW t \in Threads PROVE Calm(t)
        BY DEF AllCalm
    <2> QED BY <1>3 DEF Calm
<1> QED BY <1>1, <1>4, <1>5, <1>6, <1>7, <1>8 DEF IInv

(* Every step keeps it.                                                    *)
LEMMA NextInv == IInv /\ [Next]_vars => IInv'
<1> SUFFICES ASSUME IInv, [Next]_vars PROVE IInv'
    OBVIOUS
<1>1. CASE UNCHANGED vars
    <2>1. /\ UNCHANGED <<faults, lock, open, cur, saved, depth, failedLevel>>
          /\ UNCHANGED <<pc, failed, scopes, group, stray, bad, clean>>
        BY <1>1 DEF vars, dbVars, ghostVars
    <2>2. TypeOK'  BY <2>1 DEF IInv, TypeOK
    <2>3. OneTransaction'  BY <2>1 DEF IInv, OneTransaction
    <2>4. Nested'  BY <2>1 DEF IInv, Nested
    <2>5. Levels'  BY <2>1 DEF IInv, Levels, Level
    <2>6. AllComplete'
        BY <2>1 DEF IInv, AllComplete, Complete, Committed, InScope
    <2>7. AllCalm'  BY <2>1 DEF IInv, AllCalm, Faultless, Calm, Committed
    <2> QED BY <2>2, <2>3, <2>4, <2>5, <2>6, <2>7 DEF IInv
<1>2. CASE Next
    <2> PICK t \in Threads : Step(t)
        BY <1>2 DEF Next
    <2> UNCHANGED faults
        BY <1>2 DEF Next
    <2> USE DEF IInv
    <2>1. TypeOK'  BY TypeStep
    <2>2. OneTransaction' /\ Nested'  BY TransactionStep
    <2>3. Levels'  BY LevelsStep
    <2>4. AllComplete'  BY CompleteStep
    <2>5. AllCalm'
        <3> SUFFICES ASSUME Faultless', NEW u \in Threads PROVE Calm(u)'
            BY DEF AllCalm
        <3>1. Faultless
            BY DEF Faultless
        <3>2. \A v \in Threads : Calm(v)
            BY <3>1 DEF AllCalm
        <3>3. CASE u = t  BY <3>1, <3>2, <3>3, <2>1, <2>2, <2>3, CalmOwn
        <3>4. CASE u # t  BY <3>2, <3>4, <2>1, <2>2, CalmOthers
        <3> QED BY <3>3, <3>4
    <2> QED BY <2>1, <2>2, <2>3, <2>4, <2>5
<1> QED BY <1>1, <1>2

(* In every behaviour.                                                     *)
LEMMA Invariance == Spec => []IInv
BY InitInv, NextInv, PTL DEF Spec

(* The variables of db_sqlite.c and of serve_request keep their types.     *)
THEOREM TypeCorrect == Spec => []TypeOK
<1>1. IInv => TypeOK  BY DEF IInv
<1> QED BY Invariance, <1>1, PTL

(* g_db_lock is held exactly by the thread whose t_depth is positive, and  *)
(* SQLite's transaction has that many levels or has been given up: no      *)
(* transaction outlives its request, whatever fails and however the        *)
(* handler is left.                                                        *)
THEOREM OneTransactionAtATime == Spec => []OneTransaction
<1>1. IInv => OneTransaction  BY DEF IInv
<1> QED BY Invariance, <1>1, PTL

(* A request that is answered with success has lost no row of a scope and  *)
(* no statement of its last scope failed.                                  *)
THEOREM SuccessMeansComplete == Spec => []SuccessIsComplete
<1>1. ASSUME IInv PROVE SuccessIsComplete
    <2> SUFFICES ASSUME NEW t \in Threads, pc[t] = "respond", ~failed[t]
                 PROVE  group[t] \cup stray[t] \subseteq Committed /\ ~bad[t]
        BY DEF SuccessIsComplete
    <2>1. Complete(t) /\ Level(t)
        BY <1>1 DEF IInv, AllComplete, Levels
    <2>2. ~InScope(t)
        BY <2>1 DEF Level, InScope
    <2> QED BY <2>1, <2>2 DEF Complete
<1> QED BY Invariance, <1>1, PTL

(* Without SQLite's own rollbacks, failing ROLLBACKs and jumps out of a    *)
(* scope, a scope keeps all of its rows or none, and a request in which    *)
(* nothing went wrong succeeds.                                            *)
THEOREM ScopesAreAtomic == Spec => []ScopesKeepTheirPromise
<1>1. ASSUME IInv PROVE ScopesKeepTheirPromise
    <2> SUFFICES ASSUME Faultless PROVE ScopeAtomic /\ CommitsOwnWork
        BY DEF ScopesKeepTheirPromise, Faultless
    <2>1. \A t \in Threads : Calm(t) /\ depth[t] \in Nat
        <3>1. \A t \in Threads : Calm(t)
            BY <1>1, Zenon DEF IInv, AllCalm
        <3>2. \A t \in Threads : depth[t] \in Nat
            BY <1>1 DEF IInv, TypeOK
        <3> QED BY <3>1, <3>2
    <2>2. ScopeAtomic
        <3> SUFFICES ASSUME NEW t \in Threads
                     PROVE  \/ group[t] \cup stray[t] \subseteq Committed
                            \/ (group[t] \cup stray[t]) \cap Committed = {}
            BY DEF ScopeAtomic
        <3>1. stray[t] = {}
            BY <2>1 DEF Calm
        <3>2. group[t] \subseteq Committed \/ group[t] \cap Committed = {}
            BY <2>1 DEF Calm
        <3> QED BY <3>1, <3>2
    <2>3. CommitsOwnWork
        BY <2>1 DEF CommitsOwnWork, Calm
    <2> QED BY <2>2, <2>3
<1> QED BY Invariance, <1>1, PTL

-----------------------------------------------------------------------------
(* The layer implements AtomicCommit.                                      *)

(* The abstract state: what each thread's transaction has written, and the *)
(* requests that have failed.                                              *)
Staged(t) == IF lock = t THEN cur \ Committed ELSE {}
Pending   == [t \in Threads |-> Staged(t)]
Broken    == {t \in Threads : failed[t]}

(* An empty database, nobody in a transaction, nobody failed.              *)
LEMMA InitMaps == Init => Abstract!AbsInit
<1> SUFFICES ASSUME Init PROVE Abstract!AbsInit
    OBVIOUS
<1>1. lock = None /\ saved = <<>> /\ cur = {} /\ Committed = {}
    BY DEF Init, Committed
<1>2. \A t \in Threads : ~failed[t] /\ lock # t
    BY <1>1, TxAssumption DEF Init
<1> QED BY <1>1, <1>2 DEF Abstract!AbsInit

(* Only the staged rows of the thread that takes the step change.          *)
LEMMA PendingStep ==
    ASSUME TypeOK, OneTransaction, Nested, Levels, NEW t \in Threads, Step(t),
           TypeOK', OneTransaction'
    PROVE  Pending' = [Pending EXCEPT ![t] = Staged(t)'] /\ Pending[t] = Staged(t)
<1>1. ASSUME NEW u \in Threads \ {t} PROVE Staged(u)' = Staged(u)
    <2>1. CASE depth[u] > 0
        <3>1. UNCHANGED <<cur, saved, lock>>  BY <2>1, LockedOut
        <3> QED BY <3>1 DEF Staged, Committed
    <2>2. CASE ~(depth[u] > 0)
        <3>1. lock # u /\ lock' # u
            BY <2>2, OthersKeep DEF OneTransaction
        <3> QED BY <3>1 DEF Staged
    <2> QED BY <2>1, <2>2
<1> HIDE DEF Staged
<1> QED BY <1>1 DEF Pending

(* A failure of the request is the only change to the failed requests.     *)
LEMMA BrokenStep ==
    ASSUME TypeOK, NEW t \in Threads, Step(t)
    PROVE  /\ (failed'[t] <=> failed[t]) => Broken' = Broken
           /\ failed'[t] => Broken' = Broken \cup {t}
           /\ ~failed'[t] => Broken' = Broken \ {t}
BY OthersKeep DEF Broken

(* Every step is a step of AtomicCommit or invisible there.                *)
LEMMA StepMaps ==
    ASSUME IInv, NEW t \in Threads, Step(t), TypeOK', OneTransaction', Nested'
    PROVE  Abstract!AbsNext
<1> USE DEF IInv
<1>p. Pending' = [Pending EXCEPT ![t] = Staged(t)'] /\ Pending[t] = Staged(t)
    BY PendingStep
<1>l. Level(t) /\ depth[t] \in Nat
    BY DEF Levels, TypeOK
<1>s. Staged(t) \subseteq Writes
    BY DEF Staged, TypeOK
<1>q. ASSUME CanLock(t) PROVE \A u \in Threads \ {t} : Pending[u] = {}
    BY <1>q, Alone DEF Pending, Staged
<1>u. ASSUME Committed' = Committed, Staged(t)' \subseteq Staged(t),
             failed[t] => failed'[t]
      PROVE  Abstract!AbsNext
    <2>1. Broken' = Broken \/ Broken' = Broken \cup {t}
        BY <1>u, BrokenStep
    <2>2. Staged(t)' \in SUBSET Pending[t]
        BY <1>u, <1>p
    <2>3. Abstract!Undo(t)
        BY <1>u, <1>p, <2>1, <2>2
           DEF Abstract!Undo, Abstract!MayBreak, Pending, Staged, Broken
    <2> QED BY <2>3 DEF Abstract!AbsNext
<1>a. UNCHANGED dbVars => Committed' = Committed /\ Staged(t)' = Staged(t)
    BY DEF dbVars, Committed, Staged
<1>b. (\E ok \in BOOLEAN : AbortAll(t, ok)) =>
          Committed' = Committed /\ Staged(t)' \subseteq Staged(t)
    <2> SUFFICES ASSUME NEW ok \in BOOLEAN, AbortAll(t, ok)
                 PROVE  Committed' = Committed /\ Staged(t)' \subseteq Staged(t)
        OBVIOUS
    <2>1. Committed' = Committed  BY AbortAllEnds
    <2>2. depth[t] = 0 => Staged(t)' = Staged(t)
        BY <1>a DEF AbortAll
    <2>3. depth[t] # 0 => Staged(t)' = {}
        BY <2>1 DEF AbortAll, Staged
    <2> QED BY <2>1, <2>2, <2>3
<1>j. Jump(t) => failed'[t]
    BY DEF Jump, TypeOK
<1>1. CASE BeginRequest(t)  BY <1>1, <1>a, <1>u DEF BeginRequest
<1>2. CASE OpenScope(t)
    <2>1. Committed' = Committed /\ cur' = cur /\ failed' = failed /\ lock' = t
        BY <1>2, OpenKeeps DEF OpenScope
    <2>2. CanLock(t)  BY <1>2 DEF OpenScope
    <2>3. lock # t => Committed = cur
        BY <2>2, Alone, CommittedSeen, <1>l
    <2>4. Staged(t)' \subseteq Staged(t)
        BY <2>1, <2>3 DEF Staged
    <2> QED BY <2>1, <2>4, <1>u
<1>3. CASE BeginFails(t)  BY <1>3, <1>a, <1>j, <1>u DEF BeginFails
<1>4. CASE \E w \in Writes : Write(t, w) \/ WriteLate(t, w)
    <2> PICK w \in Writes : Write(t, w) \/ WriteLate(t, w)
        BY <1>4
    <2>1. /\ cur' = cur \cup {w} /\ UNCHANGED <<lock, saved, depth>>
          /\ CanLock(t) /\ Fresh(w)
          /\ depth[t] > 0 => Committed' = Committed
          /\ depth[t] = 0 => lock = None /\ Committed' = Committed \cup {w}
        BY WriteEffect
    <2>2. Broken' = Broken \/ Broken' = Broken \cup {t}
        <3>1. failed[t] => failed'[t]
            BY DEF Write, WriteLate, TypeOK
        <3> QED BY <3>1, BrokenStep
    <2>3. w \notin Committed
        BY <2>1, CommittedSeen DEF Fresh
    <2>4. CASE depth[t] > 0
        <3>1. lock = t  BY <2>4 DEF OneTransaction
        <3>2. Staged(t)' = Staged(t) \cup {w}
            BY <2>1, <2>3, <2>4, <3>1 DEF Staged
        <3>3. Abstract!Stage(t, w)
            BY <1>p, <1>q, <2>1, <2>2, <2>4, <3>2
               DEF Abstract!Stage, Abstract!Quiet, Abstract!MayBreak,
                   Pending, Staged, Broken
        <3> QED BY <3>3 DEF Abstract!AbsNext
    <2>5. CASE depth[t] = 0
        <3>1. lock # t /\ lock' # t
            BY <2>1, <2>5, TxAssumption
        <3>2. Pending' = Pending /\ Pending[t] = {}
            BY <1>p, <3>1 DEF Staged, Pending
        <3>3. Abstract!Plain(t, w)
            BY <1>q, <2>1, <2>2, <2>5, <3>2
               DEF Abstract!Plain, Abstract!Quiet, Abstract!MayBreak,
                   Pending, Staged, Broken
        <3> QED BY <3>3 DEF Abstract!AbsNext
    <2> QED BY <1>l, <2>4, <2>5
<1>5. CASE \E kind \in {"fail", "silent", "abort"} : StatementFails(t, kind)
    <2> PICK kind \in {"fail", "silent", "abort"} : StatementFails(t, kind)
        BY <1>5
    <2>1. failed[t] => failed'[t]
        BY DEF StatementFails, TypeOK
    <2>2. Committed' = Committed
        BY DEF StatementFails, Committed
    <2>3. cur' \subseteq cur /\ lock' = lock
        BY CommittedSeen DEF StatementFails
    <2>4. Staged(t)' \subseteq Staged(t)
        BY <2>2, <2>3 DEF Staged
    <2> QED BY <2>1, <2>2, <2>4, <1>u
<1>6. CASE LockTimeout(t)
    <2>1. failed[t] => failed'[t]
        BY <1>6 DEF LockTimeout, TypeOK
    <2> QED BY <1>6, <2>1, <1>a, <1>u DEF LockTimeout
<1>7. CASE EndMismatch(t)  BY <1>7, <1>b, <1>j, <1>u DEF EndMismatch
<1>8. CASE EndRollback(t)
    <2>1. Committed' = Committed /\ cur' \subseteq cur
        BY <1>8, RollbackUndoes
    <2>2. lock = t  BY <1>8, MatchedHolds DEF EndRollback
    <2>3. Staged(t)' \subseteq Staged(t)
        BY <2>1, <2>2 DEF Staged
    <2> QED BY <1>8, <2>1, <2>3, <1>u DEF EndRollback
<1>9. CASE EndRollbackFails(t)  BY <1>9, <1>b, <1>u DEF EndRollbackFails
<1>10. CASE EndCommit(t)
    <2>1. lock = t /\ ~failed[t] /\ failed' = failed
        BY <1>10, MatchedHolds DEF EndCommit
    <2>2. CASE depth[t] = 1
        <3>1. Committed' = cur /\ cur' = cur /\ Committed \subseteq cur
            BY <1>10, <2>2, CommitPublishes, CommittedSeen
        <3>2. Committed' = Committed \cup Pending[t] /\ Staged(t)' = {}
            BY <1>p, <2>1, <3>1 DEF Staged
        <3>3. Broken' = Broken /\ t \notin Broken
            BY <2>1 DEF Broken
        <3>4. Abstract!Publish(t)
            BY <1>p, <3>2, <3>3 DEF Abstract!Publish, Pending, Staged, Broken
        <3> QED BY <3>4 DEF Abstract!AbsNext
    <2>3. CASE depth[t] # 1
        <3>1. Committed' = Committed /\ cur' = cur /\ lock' = t
            BY <1>10, <2>3, CommitPublishes
        <3>2. Staged(t)' = Staged(t)
            BY <2>1, <3>1 DEF Staged
        <3> QED BY <2>1, <3>1, <3>2, <1>u
    <2> QED BY <2>2, <2>3
<1>11. CASE EndCommitFails(t)  BY <1>11, <1>b, <1>j, <1>u DEF EndCommitFails
<1>12. CASE BreakScope(t)
    <2>1. failed'[t]  BY <1>12 DEF BreakScope, Jump, TypeOK
    <2> QED BY <1>12, <2>1, <1>b, <1>u DEF BreakScope
<1>13. CASE Throw(t)  BY <1>13, <1>a, <1>j, <1>u DEF Throw
<1>14. CASE Return(t)  BY <1>14, <1>a, <1>u DEF Return
<1>15. CASE Land(t)
    <2>1. failed[t] => failed'[t]  BY <1>15 DEF Land, TypeOK
    <2> QED BY <1>15, <2>1, <1>b, <1>u DEF Land
<1>16. CASE Respond(t)
    <2>1. depth[t] = 0 /\ ~failed'[t]
        BY <1>16, <1>l DEF Respond, Level, TypeOK
    <2>2. Committed' = Committed /\ Staged(t)' = Staged(t)
        BY <1>16, <1>a, <2>1 DEF Respond, AbortAll
    <2>3. Pending' = Pending /\ Pending[t] = {}
        <3>1. lock # t  BY <2>1 DEF OneTransaction
        <3>2. Staged(t) = {}  BY <3>1 DEF Staged
        <3> QED BY <1>p, <2>2, <3>2 DEF Pending
    <2>4. Broken' = Broken \ {t}
        BY <2>1, BrokenStep
    <2>5. Abstract!Finish(t)
        BY <2>2, <2>3, <2>4 DEF Abstract!Finish, Pending, Staged, Broken
    <2> QED BY <2>5 DEF Abstract!AbsNext
<1> QED BY <1>1, <1>2, <1>3, <1>4, <1>5, <1>6, <1>7, <1>8, <1>9, <1>10, <1>11,
           <1>12, <1>13, <1>14, <1>15, <1>16
        DEF Step, Statement, EndScope

(* The transaction layer implements whole transactions, one at a time,     *)
(* that never lose a committed row and never publish a failed request's.   *)
THEOREM Refinement == Spec => ImplementsAtomicCommit
<1>1. ASSUME IInv, IInv', [Next]_vars
      PROVE  [Abstract!AbsNext]_(Abstract!absVars)
    <2>1. CASE UNCHANGED vars
        <3>1. UNCHANGED <<lock, cur, saved, failed>>
            BY <2>1 DEF vars, dbVars
        <3> QED BY <3>1 DEF Abstract!absVars, Committed
    <2>2. CASE Next
        <3> PICK t \in Threads : Step(t)
            BY <2>2 DEF Next
        <3> QED BY <1>1, StepMaps DEF IInv
    <2> QED BY <1>1, <2>1, <2>2
<1> QED BY InitMaps, Invariance, <1>1, PTL DEF Spec, ImplementsAtomicCommit, Abstract!AbsSpec
=============================================================================
