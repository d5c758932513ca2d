--------------------------- MODULE MCTransactions ---------------------------
(* Instances of Transactions for TLC.                                      *)
EXTENDS Transactions, TLC

(* Everything may go wrong, or everything but SQLite's own rollback, a     *)
(* failing ROLLBACK and a jump out of a scope.                             *)
AnyFault     == {AllFaults, AllFaults \ {"abort", "rollback", "break"}}
EngineAborts == {{"fail", "abort"}}
EngineSilent == {{"silent", "abort"}}

(* Rows and threads are interchangeable.                                   *)
TxSymmetry == Permutations(Writes) \cup Permutations(Threads)
=============================================================================
