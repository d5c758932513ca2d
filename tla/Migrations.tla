----------------------------- MODULE Migrations -----------------------------
(***************************************************************************)
(* Migrations at startup (src/db/migrate.c, and db_migration of            *)
(* src/db/db_sqlite.c).  Several processes may start against one database  *)
(* (a restart while the old one still starts, a rolling deployment), each  *)
(* with the directory as it was when it was read, and each may crash       *)
(* between any two steps; people add, edit and delete files meanwhile.     *)
(*                                                                         *)
(* SQLite is external: BEGIN IMMEDIATE admits one writer, a crash rolls    *)
(* its transaction back.  A script's effect is the fact that it ran.       *)
(***************************************************************************)
EXTENDS Naturals, SequencesExt

CONSTANTS Processes,
          Versions,   \* the numbers before "__" in the file names, 1, 2, ...
          Contents,   \* name and SQL text of a file, compared byte by byte
          Candidates, \* the files people ever put into the directory
          MaxFiles,   \* MIGRATE_MAX
          None

File == [version : Versions, content : Contents]

ASSUME MigrationsAssumption ==
    /\ Versions \subseteq Nat \ {0}
    /\ Candidates \subseteq File
    /\ MaxFiles \in Nat
    /\ None \notin Processes

VARIABLES
    dir,      \* the files in the directory
    applied,  \* the scripts that ran and were committed, in the order they ran
    writer,   \* the process in a write transaction
    work,     \* applied, as that transaction sees it
    pc,       \* where each process is in migrate_run
    files,    \* files of migrate_run, by version
    at        \* i of the loops of apply_migrations

migrationVars == <<dir, applied, writer, work, pc, files, at>>

MigrationsTypeOK ==
    /\ dir \in SUBSET File
    /\ applied \in Seq(File) /\ work \in Seq(File)
    /\ writer \in Processes \cup {None}
    /\ pc \in [Processes -> {"off", "begin", "check", "apply", "commit",
                             "started", "refused"}]
    /\ files \in [Processes -> Seq(File)]
    /\ \A p \in Processes : Len(files[p]) <= MaxFiles
    /\ at \in [Processes -> Nat]

MigrationsInit ==
    /\ dir = {} /\ applied = <<>> /\ writer = None /\ work = <<>>
    /\ pc = [p \in Processes |-> "off"]
    /\ files = [p \in Processes |-> <<>>]
    /\ at = [p \in Processes |-> 0]

-----------------------------------------------------------------------------
(* People change the directory.                                            *)
ChangeFiles ==
    /\ \E f \in Candidates :
          \/ dir' = dir \cup {f}
          \/ dir' = dir \ {f}
    /\ UNCHANGED <<applied, writer, work, pc, files, at>>

(* Two files of one version, or too many, are refused.                     *)
Readable(fs) ==
    /\ Cardinality(fs) <= MaxFiles
    /\ \A f, g \in fs : f.version = g.version => f = g

(* The insertion sort of migrate_run.                                      *)
ByVersion(fs) ==
    CHOOSE s \in [1..Cardinality(fs) -> fs] :
        \A i, j \in DOMAIN s : i < j => s[i].version < s[j].version

(* migrate_run reads the directory.                                        *)
ReadFiles(p) ==
    /\ pc[p] = "off"
    /\ IF Readable(dir)
       THEN /\ files' = [files EXCEPT ![p] = ByVersion(dir)]
            /\ pc' = [pc EXCEPT ![p] = "begin"]
       ELSE pc' = [pc EXCEPT ![p] = "refused"] /\ UNCHANGED files
    /\ UNCHANGED <<dir, applied, writer, work, at>>

(* Variant: the recorded files are not counted.                            *)
BeginUncounted(p) ==
    /\ pc[p] = "begin" /\ writer = None
    /\ writer' = p
    /\ work' = applied
    /\ at' = [at EXCEPT ![p] = 1]
    /\ pc' = [pc EXCEPT ![p] = "check"]
    /\ UNCHANGED <<dir, applied, files>>

(* db_begin and db_migration_count.  (BEGIN IMMEDIATE fails after          *)
(* database.busy_ms while another process writes: MigrationFails.)         *)
Begin(p) ==
    /\ pc[p] = "begin" /\ writer = None
    /\ Len(applied) <= Len(files[p])
    /\ writer' = p
    /\ work' = applied
    /\ at' = [at EXCEPT ![p] = 1]
    /\ pc' = [pc EXCEPT ![p] = "check"]
    /\ UNCHANGED <<dir, applied, files>>

(* What db_migration finds for a file: recorded as it is (1), not recorded *)
(* (0), recorded with another name or text (-1).                           *)
Recorded(f) == \E i \in DOMAIN work : work[i] = f
Unknown(f)  == \A i \in DOMAIN work : work[i].version # f.version

(* Variants: a recorded file may be anywhere; a file that is recorded      *)
(* under its version is not compared.                                      *)
ExpectedAnywhere(p) == Recorded(files[p][at[p]]) \/ Unknown(files[p][at[p]])

ExpectedByVersion(p) == (at[p] <= Len(work)) = ~Unknown(files[p][at[p]])

(* The result apply_migrations requires of db_migration(..., 0).           *)
Expected(p) == IF at[p] <= Len(work) THEN Recorded(files[p][at[p]])
                                     ELSE Unknown(files[p][at[p]])

(* One round of the first loop: the recorded files come first, unchanged,  *)
(* and the others are new.                                                 *)
Check(p) ==
    /\ pc[p] = "check" /\ at[p] <= Len(files[p])
    /\ Expected(p)
    /\ at' = [at EXCEPT ![p] = @ + 1]
    /\ UNCHANGED <<dir, applied, writer, work, pc, files>>

CheckDone(p) ==
    /\ pc[p] = "check" /\ at[p] > Len(files[p])
    /\ at' = [at EXCEPT ![p] = Len(work) + 1]
    /\ pc' = [pc EXCEPT ![p] = "apply"]
    /\ UNCHANGED <<dir, applied, writer, work, files>>

(* Variant: every script is a transaction of its own.                      *)
ApplyAndCommit(p) ==
    /\ pc[p] = "apply" /\ at[p] <= Len(files[p])
    /\ work' = Append(work, files[p][at[p]])
    /\ applied' = work'
    /\ at' = [at EXCEPT ![p] = @ + 1]
    /\ UNCHANGED <<dir, writer, pc, files>>

(* db_migration(..., 1): the script, then its record.                      *)
Apply(p) ==
    /\ pc[p] = "apply" /\ at[p] <= Len(files[p])
    /\ work' = Append(work, files[p][at[p]])
    /\ at' = [at EXCEPT ![p] = @ + 1]
    /\ UNCHANGED <<dir, applied, writer, pc, files>>

ApplyDone(p) ==
    /\ pc[p] = "apply" /\ at[p] > Len(files[p])
    /\ pc' = [pc EXCEPT ![p] = "commit"]
    /\ UNCHANGED <<dir, applied, writer, work, files, at>>

(* db_commit.                                                              *)
Commit(p) ==
    /\ pc[p] = "commit"
    /\ applied' = work
    /\ writer' = None /\ work' = <<>>
    /\ pc' = [pc EXCEPT ![p] = "started"]
    /\ at' = [at EXCEPT ![p] = 0]
    /\ UNCHANGED <<dir, files>>

(* The transaction of p, if it has one, is rolled back.                    *)
Abandon(p) ==
    /\ writer' = IF writer = p THEN None ELSE writer
    /\ work' = IF writer = p THEN <<>> ELSE work
    /\ at' = [at EXCEPT ![p] = 0]

(* A count or a file that does not match, a lock that times out, a script  *)
(* or a commit that fails: db_abort_all, and the server does not start.    *)
MigrationFails(p) ==
    /\ pc[p] \in {"begin", "check", "apply", "commit"}
    /\ pc' = [pc EXCEPT ![p] = "refused"]
    /\ files' = [files EXCEPT ![p] = <<>>]
    /\ Abandon(p)
    /\ UNCHANGED <<dir, applied>>

(* The process ends, by a crash or otherwise, and may start again.         *)
End(p) ==
    /\ pc[p] # "off"
    /\ pc' = [pc EXCEPT ![p] = "off"]
    /\ files' = [files EXCEPT ![p] = <<>>]
    /\ Abandon(p)
    /\ UNCHANGED <<dir, applied>>

MigrationStep(p) ==
    \/ ReadFiles(p) \/ Begin(p) \/ Check(p) \/ CheckDone(p)
    \/ Apply(p) \/ ApplyDone(p) \/ Commit(p) \/ MigrationFails(p)

MigrationsNext ==
    ChangeFiles \/ \E p \in Processes : MigrationStep(p) \/ End(p)

MigrationsSpec == MigrationsInit /\ [][MigrationsNext]_migrationVars

-----------------------------------------------------------------------------
(* Properties.                                                             *)

(* Scripts take effect in the order of their versions and each once,       *)
(* whoever started, crashed or changed the directory in between.           *)
InOrderOnce ==
    \A i, j \in DOMAIN applied : i < j => applied[i].version < applied[j].version

(* README.md:302: "Editing or deleting an applied migration stops the      *)
(* server at startup."  What was applied when a process starts begins the  *)
(* list of its files, so that none of it was edited or deleted, the last   *)
(* one included, and from then on all of its files are applied; what       *)
(* another process applies later only comes after.                         *)
StartedIsCurrent ==
    [][\A p \in Processes : pc'[p] = "started" =>
           /\ pc[p] # "started" => IsPrefix(applied, files[p]) /\ applied' = files[p]
           /\ IsPrefix(files'[p], applied')]_migrationVars

(* A set of new files takes effect as a whole: what is committed is at     *)
(* every moment exactly the list of files some process has read.           *)
WholeDirectory ==
    [][applied' # applied => \E p \in Processes : applied' = files[p]]_migrationVars
=============================================================================
