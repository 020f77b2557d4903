------------------------------- MODULE Backups -------------------------------
(***************************************************************************)
(* Backups of one installed app: backup.Service.Create with the retention  *)
(* it enforces before and after, over the tables backup_jobs and           *)
(* backup_archives and the archive files below the backup root.  Create    *)
(* runs in the goroutine of its request, without any lock, so requests     *)
(* interleave; the request's context dies with its client, the process can *)
(* die at any point, and an uninstall can delete the app underneath.       *)
(*                                                                         *)
(* A request, its job and its archive share one name: the code draws a     *)
(* random ID for each, and the file's path contains the job's.             *)
(***************************************************************************)
EXTENDS Naturals, FiniteSets

CONSTANTS
    Jobs,       \* backup requests
    Counts,     \* values of retentionCount clients send; 0 is "no limit"
    Ages,       \* values of retentionDays, in clock ticks; 0 is "no limit"
    Keep,       \* a lower bound on the positive retention counts
    MaxClock    \* bound on the clock, for TLC

ASSUME BackupsAssumption ==
    /\ IsFiniteSet(Jobs)
    /\ Counts \subseteq Nat /\ Ages \subseteq Nat
    /\ Keep \in Nat \ {0} /\ MaxClock \in Nat
    /\ \A c \in Counts \ {0} : Keep <= c

VARIABLES
    clock,      \* wall clock; created_at has its resolution
    app,        \* the app_instances row exists
    pc,         \* where a request stands
    sweep,      \* which of its two EnforceRetention calls a request is in
    gone,       \* the request's client has disconnected: ctx is cancelled
    policy,     \* the request's RetentionCount and RetentionDays
    created,    \* now, read once at the start of Create
    doomed,     \* archives the running EnforceRetention has still to remove
    job,        \* backup_jobs.status, or "none"
    rows,       \* the archives with a row in backup_archives
    seq,        \* insertion order of the archive rows; 0 before the insert
    file        \* the archive file: "absent", "partial" or "complete"

vars == <<clock, app, pc, sweep, gone, policy, created, doomed, job, rows, seq, file>>

Ended == {"idle", "refused", "failed", "created", "unswept", "dead"}
Busy  == {"list", "unlink", "delete", "stage", "pack", "packing", "hash",
          "insert", "complete", "fail"}

TypeOK ==
    /\ clock \in Nat /\ app \in BOOLEAN
    /\ pc \in [Jobs -> Ended \cup Busy]
    /\ sweep \in [Jobs -> {1, 2}]
    /\ gone \in [Jobs -> BOOLEAN]
    /\ policy \in [Jobs -> [count : Counts \cup {0}, days : Ages \cup {0}]]
    /\ created \in [Jobs -> Nat]
    /\ doomed \in [Jobs -> SUBSET Jobs]
    /\ job \in [Jobs -> {"none", "running", "completed", "failed"}]
    /\ rows \subseteq Jobs
    /\ seq \in [Jobs -> Nat]
    /\ file \in [Jobs -> {"absent", "partial", "complete"}]
    /\ \A j \in Jobs : pc[j] \in {"unlink", "delete"} => doomed[j] # {}

Init ==
    /\ clock = 0 /\ app = TRUE
    /\ pc = [j \in Jobs |-> "idle"]
    /\ sweep = [j \in Jobs |-> 1]
    /\ gone = [j \in Jobs |-> FALSE]
    /\ policy = [j \in Jobs |-> [count |-> 0, days |-> 0]]
    /\ created = [j \in Jobs |-> 0]
    /\ doomed = [j \in Jobs |-> {}]
    /\ job = [j \in Jobs |-> "none"]
    /\ rows = {}
    /\ seq = [j \in Jobs |-> 0]
    /\ file = [j \in Jobs |-> "absent"]

\* Mutant: the list is in ascending order.
OldestFirst(a, b) ==
    \/ created[a] < created[b]
    \/ created[a] = created[b] /\ seq[a] < seq[b]

(***************************************************************************)
(* ListBackupArchives: ORDER BY created_at DESC.  SQLite reads the rows    *)
(* from the index on (app_id, created_at DESC), which lists archives of    *)
(* the same second in the order of their insertion.                        *)
(***************************************************************************)
Newer(a, b) ==
    \/ created[a] > created[b]
    \/ created[a] = created[b] /\ seq[a] < seq[b]

Position(a, S) == Cardinality({b \in S : Newer(b, a)})

\* Mutant: the boundary of the count is off by one.
RemovableOneEarlier(j, a) ==
    \/ policy[j].count > 0 /\ Position(a, rows) + 1 >= policy[j].count
    \/ policy[j].days > 0 /\ created[a] + policy[j].days <= clock

\* The condition under which EnforceRetention removes an archive it listed.
\* created_at is cut to whole seconds and the limit is not, so an archive that
\* is exactly days old has passed it.
Removable(j, a) ==
    \/ policy[j].count > 0 /\ Position(a, rows) >= policy[j].count
    \/ policy[j].days > 0 /\ created[a] + policy[j].days <= clock

\* The archives of the list the loop has still to remove come newest first.
IsNext(j, a) == a \in doomed[j] /\ \A b \in doomed[j] : ~Newer(b, a)

-----------------------------------------------------------------------------
(***************************************************************************)
(* Create up to CreateBackupJob.  A missing app or revision, a manifest    *)
(* without backup volumes or with an unsafe name, or a failed insert is an *)
(* error answer that leaves nothing behind.                                *)
(***************************************************************************)
Create(j) ==
    /\ pc[j] = "idle"
    /\ \/ /\ app
          /\ pc' = [pc EXCEPT ![j] = "list"]
          /\ \E c \in Counts, d \in Ages :
                policy' = [policy EXCEPT ![j] = [count |-> c, days |-> d]]
          /\ created' = [created EXCEPT ![j] = clock]
          /\ job' = [job EXCEPT ![j] = "running"]
       \/ /\ pc' = [pc EXCEPT ![j] = "refused"]
          /\ UNCHANGED <<policy, created, job>>
    /\ UNCHANGED <<clock, app, sweep, gone, doomed, rows, seq, file>>

\* What Create does with EnforceRetention's result: an error of the first call
\* fails the job, that of the second is dropped.
Swept(j, ok) ==
    pc' = [pc EXCEPT ![j] =
              IF sweep[j] = 1 THEN IF ok THEN "stage" ELSE "fail"
                              ELSE IF ok THEN "created" ELSE "unswept"]

SweepError(j) ==
    /\ Swept(j, FALSE)
    /\ doomed' = [doomed EXCEPT ![j] = {}]
    /\ UNCHANGED <<rows, file>>

\* Mutant: the loop is entered with an empty list.
ListUnchecked(j) ==
    /\ pc[j] = "list" /\ ~gone[j]
    /\ doomed' = [doomed EXCEPT ![j] = {a \in rows : Removable(j, a)}]
    /\ pc' = [pc EXCEPT ![j] = "unlink"]
    /\ UNCHANGED <<clock, app, sweep, gone, policy, created, job, rows, seq, file>>

\* EnforceRetention reads the list once and works from that snapshot.
ListArchives(j) ==
    /\ pc[j] = "list"
    /\ \/ /\ ~gone[j]
          /\ doomed' = [doomed EXCEPT ![j] = {a \in rows : Removable(j, a)}]
          /\ IF doomed'[j] = {} THEN Swept(j, TRUE)
                                ELSE pc' = [pc EXCEPT ![j] = "unlink"]
          /\ UNCHANGED <<rows, file>>
       \/ SweepError(j)
    /\ UNCHANGED <<clock, app, sweep, gone, policy, created, job, seq>>

\* os.Remove of the archive; a file that is already gone is no error.
RemoveFile(j) ==
    /\ pc[j] = "unlink"
    /\ \E a \in Jobs : IsNext(j, a) /\
          \/ /\ file' = [file EXCEPT ![a] = "absent"]
             /\ pc' = [pc EXCEPT ![j] = "delete"]
             /\ UNCHANGED <<doomed, rows>>
          \/ file[a] # "absent" /\ SweepError(j)
    /\ UNCHANGED <<clock, app, sweep, gone, policy, created, job, seq>>

\* DeleteBackupArchive; deleting a row that is already gone is no error.
DeleteBackupArchive(j) ==
    /\ pc[j] = "delete"
    /\ \/ \E a \in Jobs :
             /\ IsNext(j, a) /\ ~gone[j]
             /\ rows' = rows \ {a}
             /\ doomed' = [doomed EXCEPT ![j] = @ \ {a}]
             /\ IF doomed[j] = {a} THEN Swept(j, TRUE)
                                   ELSE pc' = [pc EXCEPT ![j] = "unlink"]
             /\ UNCHANGED file
       \/ SweepError(j)
    /\ UNCHANGED <<clock, app, sweep, gone, policy, created, job, seq>>

\* The staging directory, docker run for every volume, and metadata.json.  The
\* Docker command is killed when ctx is cancelled.
StageVolumes(j) ==
    /\ pc[j] = "stage"
    /\ \/ ~gone[j] /\ pc' = [pc EXCEPT ![j] = "pack"]
       \/ pc' = [pc EXCEPT ![j] = "fail"]
    /\ UNCHANGED <<clock, app, sweep, gone, policy, created, doomed, job, rows, seq, file>>

\* pack creates the file, fills it and closes it; a failure half way leaves
\* what was written.
OpenPack(j) ==
    /\ pc[j] = "pack"
    /\ \/ /\ pc' = [pc EXCEPT ![j] = "packing"]
          /\ file' = [file EXCEPT ![j] = "partial"]
       \/ pc' = [pc EXCEPT ![j] = "fail"] /\ UNCHANGED file
    /\ UNCHANGED <<clock, app, sweep, gone, policy, created, doomed, job, rows, seq>>

ClosePack(j) ==
    /\ pc[j] = "packing"
    /\ \/ /\ pc' = [pc EXCEPT ![j] = "hash"]
          /\ file' = [file EXCEPT ![j] = "complete"]
       \/ pc' = [pc EXCEPT ![j] = "fail"] /\ UNCHANGED file
    /\ UNCHANGED <<clock, app, sweep, gone, policy, created, doomed, job, rows, seq>>

\* fileHash reads the archive back; its error leaves the file.
HashFile(j) ==
    /\ pc[j] = "hash"
    /\ pc' \in {[pc EXCEPT ![j] = "insert"], [pc EXCEPT ![j] = "fail"]}
    /\ UNCHANGED <<clock, app, sweep, gone, policy, created, doomed, job, rows, seq, file>>

\* The next row id of SQLite is above every live one.
NextSeq == Cardinality({a \in Jobs : seq[a] > 0}) + 1

\* Mutant: the error of the insert is not returned.
InsertUnchecked(j) ==
    /\ pc[j] = "insert"
    /\ \/ ~gone[j] /\ app /\ rows' = rows \cup {j} /\ seq' = [seq EXCEPT ![j] = NextSeq]
       \/ UNCHANGED <<rows, seq>>
    /\ pc' = [pc EXCEPT ![j] = "complete"]
    /\ UNCHANGED <<clock, app, sweep, gone, policy, created, doomed, job, file>>

\* CreateBackupArchive; the foreign keys refuse it when the app was deleted.
\* On an error Create removes the file again, if it can.
CreateBackupArchive(j) ==
    /\ pc[j] = "insert"
    /\ \/ /\ ~gone[j] /\ app
          /\ rows' = rows \cup {j}
          /\ seq' = [seq EXCEPT ![j] = NextSeq]
          /\ pc' = [pc EXCEPT ![j] = "complete"]
          /\ UNCHANGED file
       \/ /\ pc' = [pc EXCEPT ![j] = "fail"]
          /\ file' \in {file, [file EXCEPT ![j] = "absent"]}
          /\ UNCHANGED <<rows, seq>>
    /\ UNCHANGED <<clock, app, sweep, gone, policy, created, doomed, job>>

\* UpdateBackupJob: no effect without its row; its error is dropped by both
\* callers.
UpdateBackupJob(j, s) ==
    \/ ~gone[j] /\ job' = IF job[j] = "none" THEN job ELSE [job EXCEPT ![j] = s]
    \/ UNCHANGED job

\* Mutant: retention is enforced before the backup only.
CompleteUnswept(j) ==
    /\ pc[j] = "complete"
    /\ UpdateBackupJob(j, "completed")
    /\ pc' = [pc EXCEPT ![j] = "created"]
    /\ UNCHANGED <<clock, app, sweep, gone, policy, created, doomed, rows, seq, file>>

CompleteJob(j) ==
    /\ pc[j] = "complete"
    /\ UpdateBackupJob(j, "completed")
    /\ pc' = [pc EXCEPT ![j] = "list"]
    /\ sweep' = [sweep EXCEPT ![j] = 2]
    /\ UNCHANGED <<clock, app, gone, policy, created, doomed, rows, seq, file>>

FailJob(j) ==
    /\ pc[j] = "fail"
    /\ UpdateBackupJob(j, "failed")
    /\ pc' = [pc EXCEPT ![j] = "failed"]
    /\ UNCHANGED <<clock, app, sweep, gone, policy, created, doomed, rows, seq, file>>

-----------------------------------------------------------------------------
\* The client goes away and net/http cancels the request's context.
Disconnect(j) ==
    /\ pc[j] \in Busy /\ ~gone[j]
    /\ gone' = [gone EXCEPT ![j] = TRUE]
    /\ UNCHANGED <<clock, app, pc, sweep, policy, created, doomed, job, rows, seq, file>>

\* The process dies and is started again: nothing looks at jobs left running.
Crash ==
    /\ \E j \in Jobs : pc[j] \in Busy
    /\ pc' = [j \in Jobs |-> IF pc[j] \in Busy THEN "dead" ELSE pc[j]]
    /\ doomed' = [j \in Jobs |-> {}]
    /\ UNCHANGED <<clock, app, sweep, gone, policy, created, job, rows, seq, file>>

\* Uninstall deletes the app row; jobs and archive rows cascade, files stay.
DeleteAppInstance ==
    /\ app /\ app' = FALSE
    /\ rows' = {}
    /\ job' = [j \in Jobs |-> "none"]
    /\ UNCHANGED <<clock, pc, sweep, gone, policy, created, doomed, seq, file>>

Tick ==
    /\ clock < MaxClock /\ clock' = clock + 1
    /\ UNCHANGED <<app, pc, sweep, gone, policy, created, doomed, job, rows, seq, file>>

Request(j) ==
    \/ Create(j) \/ ListArchives(j) \/ RemoveFile(j) \/ DeleteBackupArchive(j)
    \/ StageVolumes(j) \/ OpenPack(j) \/ ClosePack(j) \/ HashFile(j)
    \/ CreateBackupArchive(j) \/ CompleteJob(j) \/ FailJob(j) \/ Disconnect(j)

Next == (\E j \in Jobs : Request(j)) \/ Crash \/ DeleteAppInstance \/ Tick

Spec == Init /\ [][Next]_vars

-----------------------------------------------------------------------------
Recorded(a) == seq[a] > 0

\* Archives that are listed and whose file is whole.
Intact == {a \in rows : file[a] = "complete"}

Outranked(a) == Position(a, Intact) >= Keep

Expired(a) == \E d \in Ages \ {0} : created[a] + d <= clock

\* However many requests enforce retention at once, fail half way or die, an
\* archive that was ever recorded is still listed with its whole file unless
\* Keep newer intact archives exist or it has passed an age limit
\* (EnforceRetention, called by every Create from its own old listing).
NewestSurvive ==
    app => \A a \in Jobs : Recorded(a) => a \in Intact \/ Outranked(a) \/ Expired(a)

\* A request that got through both EnforceRetention calls left no more than
\* its count of the archives recorded up to its own, and none that was already
\* too old when it began, whatever other requests recorded or removed meanwhile.
RetentionHonoured ==
    \A j \in Jobs : pc[j] = "created" =>
        LET old == {a \in rows : seq[a] <= seq[j]} IN
        /\ policy[j].count > 0 => Cardinality(old) <= policy[j].count
        /\ policy[j].days > 0 => \A a \in old : created[a] + policy[j].days > created[j]

\* A job's status tells the truth about its archive whatever happens between
\* the three writes of Create: completed only if the archive row was inserted,
\* failed only if it never was and never will be.
JobsTruthful ==
    \A j \in Jobs :
        /\ job[j] = "completed" => Recorded(j)
        /\ job[j] = "failed" => ~Recorded(j) /\ pc[j] = "failed"

\* A user sees the archives that are listed with a whole file.
Shelf == INSTANCE ArchiveShelf WITH
    Archives <- Jobs, shelf <- Intact, born <- created, place <- seq, now <- clock, open <- app

\* The steps of all requests together are steps of a shelf: an archive appears
\* once and whole, and no single removal of a file or a row takes one away that
\* is not, at that very step, outranked by Keep archives that stay or too old
\* (backup.Service.Create and EnforceRetention, which removes from a listing
\* that other requests have made stale).
ImplementsShelf == Shelf!ShelfSpec
=============================================================================
