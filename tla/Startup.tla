------------------------------ MODULE Startup -------------------------------
(***************************************************************************)
(* The main function that the generator writes (emit_main of               *)
(* src/generator/generator_emit_main.c) in the process Self: the database  *)
(* is opened, migrate_run brings it up to date, the $on_start tasks run    *)
(* against it, the schema is compared, the $repeat threads start, and the  *)
(* server runs until it is stopped.  Other processes migrate the same      *)
(* database meanwhile, and any process may crash at any moment.            *)
(***************************************************************************)
EXTENDS Migrations, Scheduler

CONSTANT Self

ASSUME StartupAssumption == Self \in Processes

startupVars == <<migrationVars, schedulerVars>>

StartupInit == MigrationsInit /\ SchedulerInit

(* A process that is not running has no threads: they go with it, and the  *)
(* next one begins as the first did, with the database opened again.       *)
Anew ==
    /\ main' = "prepare" /\ ran' = 0 /\ stopping' = FALSE
    /\ arena' = [r \in Repeats |-> "none"]
    /\ database' = TRUE
    /\ task' = [r \in Repeats |-> "unborn"]

Started == pc[Self] = "started"

(* Files change, another process runs, or Self is in migrate_run.          *)
Migrating ==
    /\ ChangeFiles \/ \E p \in Processes : MigrationStep(p)
    /\ UNCHANGED schedulerVars

(* A process returns from main, has failed to start, or crashes.           *)
ProcessEnds(p) ==
    /\ End(p)
    /\ IF p = Self THEN Anew ELSE UNCHANGED schedulerVars

(* main of Self goes on once migrate_run has returned 0.                   *)
MainRuns == Started /\ MainStep      /\ UNCHANGED migrationVars
ServerEnds == Started /\ ServerReturns /\ UNCHANGED migrationVars
TaskRuns(r) == Started /\ TaskStep(r)   /\ UNCHANGED migrationVars
TaskFails(r) == Started /\ WaitFails(r) /\ UNCHANGED migrationVars

StartupNext ==
    \/ Migrating \/ MainRuns \/ ServerEnds
    \/ \E p \in Processes : ProcessEnds(p)
    \/ \E r \in Repeats : TaskRuns(r) \/ TaskFails(r)

(* Every thread of a living process runs; a task body is assumed to return *)
(* and an interval passes.  Nothing has to fail, server_run need not       *)
(* return, and nobody has to change files, start or crash.                 *)
StartupSpec ==
    /\ StartupInit /\ [][StartupNext]_startupVars
    /\ WF_startupVars(MainRuns)
    /\ \A r \in Repeats : WF_startupVars(TaskRuns(r))

-----------------------------------------------------------------------------
(* Properties.                                                             *)

(* A task runs only with its arena in place, the database open and every   *)
(* migration of its own directory applied, on every path by which main     *)
(* ends and whatever other processes apply meanwhile.                      *)
TasksRunInTheirWorld ==
    /\ RunsInItsWorld
    /\ Alive # {} \/ ran > 0 => Started /\ IsPrefix(files[Self], applied)

(* scheduler_stop returns: no sleeping task is waited for in vain, unless  *)
(* the process is killed first.                                            *)
StopReturns == main = "stop" ~> (main = "exit" \/ pc[Self] = "off")
=============================================================================
