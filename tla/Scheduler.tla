----------------------------- MODULE Scheduler ------------------------------
(***************************************************************************)
(* The task scheduler (src/runtime/scheduler.c) and the main function      *)
(* that the generator writes (src/generator/generator_emit_main.c): the    *)
(* $on_start tasks run one after the other in the main thread, then every  *)
(* $repeat task has a thread of its own, and all of it is stopped before   *)
(* the database is closed.                                                 *)
(*                                                                         *)
(* scheduler_wait sleeps in pieces of at most 100 ms and tests             *)
(* scheduler_stopping between them; the pieces are not counted.  Every     *)
(* access to scheduler_stopping is a step of its own.                      *)
(***************************************************************************)
EXTENDS Naturals

CONSTANTS Repeats,   \* the $repeat tasks
          OnStart    \* how many $on_start tasks there are

ASSUME SchedulerAssumption == OnStart \in Nat

VARIABLES
    main,      \* where the main thread is
    ran,       \* how many $on_start tasks have succeeded
    stopping,  \* scheduler_stopping
    arena,     \* the arena of each $repeat task
    database,  \* the database is open
    task       \* where the thread of each $repeat task is

schedulerVars == <<main, ran, stopping, arena, database, task>>

(* The threads that pthread_create has made and that have not returned.    *)
Alive == {r \in Repeats : task[r] \in {"test", "run", "wait"}}

SchedulerTypeOK ==
    /\ main \in {"prepare", "startup", "validate", "start", "serve",
                 "stop", "join", "close", "exit"}
    /\ ran \in 0..OnStart
    /\ stopping \in BOOLEAN
    /\ arena \in [Repeats -> {"none", "ready", "freed"}]
    /\ database \in BOOLEAN
    /\ task \in [Repeats -> {"unborn", "test", "run", "wait", "ended"}]

(* The database is open and migrated.                                      *)
SchedulerInit ==
    /\ main = "prepare" /\ ran = 0 /\ stopping = FALSE
    /\ arena = [r \in Repeats |-> "none"]
    /\ database = TRUE
    /\ task = [r \in Repeats |-> "unborn"]

-----------------------------------------------------------------------------
(* The main thread.                                                        *)

(* scheduler_prepare.                                                      *)
Prepare ==
    /\ main = "prepare"
    /\ \/ main' = "startup" /\ arena' = [r \in Repeats |-> "ready"]
       \/ /\ main' = "close"
          /\ \E some \in SUBSET Repeats :
                arena' = [r \in Repeats |-> IF r \in some THEN "ready" ELSE "none"]
    /\ UNCHANGED <<ran, stopping, database, task>>

(* scheduler_startup: one $on_start task; the first that fails ends it.    *)
RunOnStart ==
    /\ main = "startup" /\ ran < OnStart
    /\ \/ ran' = ran + 1 /\ UNCHANGED <<main, stopping>>
       \/ main' = "stop" /\ UNCHANGED <<ran, stopping>>
       \/ main' = "stop" /\ stopping' = TRUE /\ UNCHANGED ran
    /\ UNCHANGED <<arena, database, task>>

(* scheduler_startup returns 0.                                            *)
StartupDone ==
    /\ main = "startup" /\ ran = OnStart
    /\ main' = "validate"
    /\ UNCHANGED <<ran, stopping, arena, database, task>>

(* wrap_validate_schema.                                                   *)
Validate ==
    /\ main = "validate"
    /\ main' \in {"start", "stop"}
    /\ UNCHANGED <<ran, stopping, arena, database, task>>

(* scheduler_start: one pthread_create.                                    *)
StartThread(r) ==
    /\ main = "start" /\ task[r] = "unborn"
    /\ task' = [task EXCEPT ![r] = "test"]
    /\ UNCHANGED <<main, ran, stopping, arena, database>>

StartFails ==
    /\ main = "start" /\ \E r \in Repeats : task[r] = "unborn"
    /\ main' = "stop"
    /\ UNCHANGED <<ran, stopping, arena, database, task>>

StartDone ==
    /\ main = "start" /\ \A r \in Repeats : task[r] # "unborn"
    /\ main' = "serve"
    /\ UNCHANGED <<ran, stopping, arena, database, task>>

(* server_run returns.                                                     *)
ServerReturns ==
    /\ main = "serve"
    /\ main' = "stop"
    /\ UNCHANGED <<ran, stopping, arena, database, task>>

(* scheduler_stop: the flag and the broadcast.                             *)
SetStopping ==
    /\ main = "stop"
    /\ stopping' = TRUE
    /\ main' = "join"
    /\ UNCHANGED <<ran, arena, database, task>>

(* Variant: the arenas are freed before the threads have ended.            *)
FreeEarly ==
    /\ main = "join"
    /\ arena' = [r \in Repeats |-> "freed"]
    /\ main' = "close"
    /\ UNCHANGED <<ran, stopping, database, task>>

(* The threads are joined, then the arenas are freed.                      *)
JoinAndFree ==
    /\ main = "join" /\ Alive = {}
    /\ arena' = [r \in Repeats |-> "freed"]
    /\ main' = "close"
    /\ UNCHANGED <<ran, stopping, database, task>>

(* db_close.                                                               *)
CloseDatabase ==
    /\ main = "close"
    /\ database' = FALSE
    /\ main' = "exit"
    /\ UNCHANGED <<ran, stopping, arena, task>>

-----------------------------------------------------------------------------
(* The thread of a $repeat task: scheduler_run_repeatedly.                 *)

(* The head of the loop; the body begins when the flag is still clear.     *)
Test(r) ==
    /\ task[r] = "test"
    /\ task' = [task EXCEPT ![r] = IF stopping THEN "ended" ELSE "run"]
    /\ UNCHANGED <<main, ran, stopping, arena, database>>

(* scheduler_run_task: the body has run, well or not.  A damaged arena     *)
(* stops every task, without a broadcast.                                  *)
RunTask(r) ==
    /\ task[r] = "run"
    /\ task' = [task EXCEPT ![r] = "wait"]
    /\ stopping' \in {stopping, TRUE}
    /\ UNCHANGED <<main, ran, arena, database>>

(* Variant: nothing wakes a thread that sleeps when the flag is set.       *)
WaitBlindly(r) ==
    /\ task[r] = "wait" /\ ~stopping
    /\ task' = [task EXCEPT ![r] = "test"]
    /\ UNCHANGED <<main, ran, stopping, arena, database>>

(* scheduler_wait: the interval is over, or the flag was seen first.       *)
Wait(r) ==
    /\ task[r] = "wait"
    /\ task' = [task EXCEPT ![r] = IF stopping THEN "ended" ELSE "test"]
    /\ UNCHANGED <<main, ran, stopping, arena, database>>

(* A clock or a condition variable fails in scheduler_wait: this thread    *)
(* ends, the others go on.                                                 *)
WaitFails(r) ==
    /\ task[r] = "wait"
    /\ task' = [task EXCEPT ![r] = "ended"]
    /\ UNCHANGED <<main, ran, stopping, arena, database>>

TaskStep(r) == Test(r) \/ RunTask(r) \/ Wait(r)

MainStep ==
    \/ Prepare \/ RunOnStart \/ StartupDone \/ Validate
    \/ (\E r \in Repeats : StartThread(r)) \/ StartFails \/ StartDone
    \/ SetStopping \/ JoinAndFree \/ CloseDatabase

SchedulerNext ==
    \/ MainStep \/ ServerReturns
    \/ \E r \in Repeats : TaskStep(r) \/ WaitFails(r)

SchedulerSpec == SchedulerInit /\ [][SchedulerNext]_schedulerVars

-----------------------------------------------------------------------------
(* Properties.                                                             *)

(* A body runs only with its arena in place and the database open, on      *)
(* every path by which the process ends.                                   *)
RunsInItsWorld ==
    \A r \in Alive : arena[r] = "ready" /\ database
=============================================================================
