------------------------------- MODULE Sources -------------------------------
(***************************************************************************)
(* One GitHub manifest source and the app installed from it: preview, add, *)
(* remove, install, update preview and update.  Every handler reads the    *)
(* source row, talks to GitHub or Docker, and writes later; other requests *)
(* and GitHub itself move in between.                                      *)
(*                                                                         *)
(* A version is a commit with the checksum of the manifest fetched for it. *)
(* Only one app can come from the source at a time: a second install       *)
(* conflicts with the first.  Operations of the app exclude each other     *)
(* (AppOperations); here the holder of the app's active operation is busy. *)
(***************************************************************************)
EXTENDS Naturals, FiniteSets

CONSTANTS
    Commits, Sums,      \* commits of the repository, checksums of manifests
    Offered,            \* what GitHub may answer: commits with manifests
    RollbackSafe,       \* manifests that declare upgrade.rollbackSafe
    Adds,               \* AddSource requests; each is the ID of the row it inserts
    Removes,            \* places for concurrent RemoveSource requests
    Installs,           \* InstallApp requests; each is the ID of its app
    Updates,            \* clients that preview an update and then confirm it,
                        \* again and again
    StoreErrors,        \* whether the store may fail where its error is not returned
    MaxTied,            \* bound on the revisions that share the greatest created_at
    None

Versions == [commit : Commits, sum : Sums]

\* Resolver.Resolve asks GitHub for the commit of the ref and then for its
\* manifest.  The ref moves, and a commit may come back with other bytes, so
\* between two requests of the program any answer is possible; None is an error.
Resolve == Offered \cup {None}

Rows == [id : Adds, pin : Versions, trust : {"user-trusted", "changed"}]

\* rev: the revision recorded last, whose project compose_path names; latest: those
\* that GetLatestRevision may return.  stale: history, the source had moved on when
\* the install wrote its rows; left: history, the commits from which updates of the
\* app have moved the pin.
Apps == [id : Installs, source : Adds \cup {None}, rev : Versions,
         latest : (SUBSET Versions) \ {{}}, stale : BOOLEAN, left : SUBSET Commits]

ASSUME SourcesAssumption ==
    /\ None \notin Versions \cup Adds \cup Installs \cup Updates \cup Rows \cup Apps
    /\ Installs \cap Updates = {}
    /\ Offered \subseteq Versions /\ RollbackSafe \subseteq Sums /\ StoreErrors \in BOOLEAN
    /\ MaxTied \in Nat \ {0}

VARIABLES
    src,        \* the manifest_sources row, or None
    app,        \* the app_instances row with its revisions, or None
    running,    \* the version whose Compose project is up, or None
    busy,       \* the request whose operation is active for the app, or None
    lastOp,     \* history: how the app's last operation ended; "completed" is of
                \* an install or update
    add, remove, install, update    \* the requests

vars == <<src, app, running, busy, lastOp, add, remove, install, update>>

AddStates     == {"idle", "previewed", "checked", "insert", "over"}
InstallStates == {"idle", "loaded", "up", "over"}
UpdateStates  == {"idle", "planned", "read", "resolve", "accept", "check", "deploy", "health",
                  "rollback", "record", "succeeded", "failing"}

AddRecs     == [pc : AddStates, got : Resolve]
InstallRecs == [pc : InstallStates, row : Rows \cup {None}]
UpdateRecs  == [pc : UpdateStates, confirmed : Versions \cup {None},
                app : Installs \cup {None}, base : Rows \cup {None},
                rev : Versions \cup {None}, cur : Versions \cup {None}]

TypeOK ==
    /\ src \in Rows \cup {None} /\ app \in Apps \cup {None}
    /\ running \in Versions \cup {None}
    /\ busy \in Installs \cup Updates \cup {None}
    /\ lastOp \in {"none", "completed", "failed", "uninstalled"}
    /\ add \in [Adds -> AddRecs]
    /\ remove \in [Removes -> Adds \cup {None}]
    /\ install \in [Installs -> InstallRecs]
    /\ update \in [Updates -> UpdateRecs]
    /\ busy # None => app # None

NoUpdate == [pc |-> "idle", confirmed |-> None, app |-> None, base |-> None, rev |-> None,
             cur |-> None]

Init ==
    /\ src = None /\ app = None /\ running = None /\ busy = None /\ lastOp = "none"
    /\ add = [a \in Adds |-> [pc |-> "idle", got |-> None]]
    /\ remove = [r \in Removes |-> None]
    /\ install = [i \in Installs |-> [pc |-> "idle", row |-> None]]
    /\ update = [u \in Updates |-> NoUpdate]

-----------------------------------------------------------------------------
(* Sources.                                                                 *)

AddStep(a, rec) ==
    /\ add' = [add EXCEPT ![a] = rec]
    /\ UNCHANGED <<app, running, busy, lastOp, remove, install, update>>

\* The client looks at a preview before it confirms.  Preview stores nothing, and
\* Add does not use its answer.
Preview(a) ==
    /\ add[a].pc = "idle"
    /\ AddStep(a, [add[a] EXCEPT !.pc = "previewed"])
    /\ UNCHANGED src

\* Add refuses an unconfirmed request, a URL it cannot parse and, as far as it
\* can see, one that is already stored.
CheckAdd(a) ==
    /\ add[a].pc = "previewed"
    /\ AddStep(a, [add[a] EXCEPT !.pc = IF src = None THEN "checked" ELSE "over"])
    /\ UNCHANGED src

ResolveAdd(a) ==
    /\ add[a].pc = "checked"
    /\ \E v \in Resolve :
          AddStep(a, [add[a] EXCEPT !.got = v,
                                    !.pc = IF v = None THEN "over" ELSE "insert"])
    /\ UNCHANGED src

\* source_url is UNIQUE.
CreateManifestSource(a) ==
    /\ add[a].pc = "insert"
    /\ AddStep(a, [add[a] EXCEPT !.pc = "over", !.got = None])
    /\ \/ src = None
          /\ src' = [id |-> a, pin |-> add[a].got, trust |-> "user-trusted"]
       \/ UNCHANGED src

\* RemoveSource refuses a source some app was installed from, and goes on if it
\* cannot list the apps.  remove holds the ID between the check and the delete.
ListForRemove(r) ==
    /\ remove[r] = None /\ src # None
    /\ app # None /\ app.source = src.id => StoreErrors
    /\ remove' = [remove EXCEPT ![r] = src.id]
    /\ UNCHANGED <<src, app, running, busy, lastOp, add, install, update>>

\* app_instances.source_id is ON DELETE SET NULL.
DeleteManifestSource(r) ==
    /\ remove[r] # None
    /\ remove' = [remove EXCEPT ![r] = None]
    /\ IF src # None /\ src.id = remove[r]
       THEN /\ src' = None
            /\ app' = IF app # None /\ app.source = remove[r]
                      THEN [app EXCEPT !.source = None] ELSE app
       ELSE UNCHANGED <<src, app>>
    /\ UNCHANGED <<running, busy, lastOp, add, install, update>>

-----------------------------------------------------------------------------
(* Installing and uninstalling the source's app.                            *)

\* loadManifestByID: the handler works with this copy of the source row.
LoadManifest(i) ==
    /\ install[i].pc = "idle" /\ src # None
    /\ install' = [install EXCEPT ![i] = [pc |-> "loaded", row |-> src]]
    /\ UNCHANGED <<src, app, running, busy, lastOp, add, remove, update>>

\* The three inserts of InstallApp; an installed app is a conflict, a deleted
\* source a violated foreign key.
InsertApp(i) ==
    LET row == install[i].row IN
    /\ install[i].pc = "loaded"
    /\ \/ /\ app = None /\ src # None /\ src.id = row.id
          /\ app' = [id |-> i, source |-> row.id, rev |-> row.pin,
                     latest |-> {row.pin}, stale |-> src.pin # row.pin, left |-> {}]
          /\ busy' = i
          /\ install' = [install EXCEPT ![i].pc = "up"]
       \/ /\ install' = [install EXCEPT ![i].pc = "over"]
          /\ UNCHANGED <<app, busy>>
    /\ UNCHANGED <<src, running, lastOp, add, remove, update>>

\* docker compose up; a failure may leave anything up.
ComposeUp(i) ==
    /\ install[i].pc = "up"
    /\ install' = [install EXCEPT ![i].pc = "over"]
    /\ busy' = None
    /\ \/ running' = app.rev /\ lastOp' = "completed"
       \/ running' \in {None, app.rev} /\ lastOp' = "failed"
    /\ UNCHANGED <<src, app, add, remove, update>>

\* Mutant: uninstall does not wait for the active operation.
UninstallAnytime ==
    /\ app # None
    /\ app' = None /\ running' = None /\ lastOp' = "none"
    /\ UNCHANGED <<src, busy, add, remove, install, update>>

\* A whole uninstall operation: compose down may fail, and an error of the row's
\* deletion is only logged.
Uninstall ==
    /\ app # None /\ busy = None
    /\ \/ app' = None /\ running' = None /\ lastOp' = "none"
       \/ UNCHANGED app /\ running' \in {running, None} /\ lastOp' = "failed"
       \/ StoreErrors /\ UNCHANGED app /\ running' = None /\ lastOp' = "uninstalled"
    /\ UNCHANGED <<src, busy, add, remove, install, update>>

-----------------------------------------------------------------------------
(* Updates.                                                                 *)

Step(u, rec) == update' = [update EXCEPT ![u] = rec]

Goto(u, p) == Step(u, [update[u] EXCEPT !.pc = p])

\* The request is answered, or its worker has ended.
Over(u) == Step(u, NoUpdate)

\* AppUpdatePlan, or AppApplyUpdate with the version the plan showed: the app
\* row, no active operation if it is to be applied, and UpdatePreview's read of
\* the source row.
ReadSource(u) ==
    /\ update[u].pc \in {"idle", "planned"}
    /\ update[u].pc = "planned" => busy = None
    /\ app # None /\ src # None /\ app.source = src.id
    /\ Step(u, [update[u] EXCEPT !.pc = "read", !.app = app.id, !.base = src])
    /\ UNCHANGED <<src, app, running, busy, lastOp, add, remove, install>>

\* GetLatestRevision: what the preview compares the manifest with.  It is a read of
\* its own: the app may have been updated or deleted since, and the newest created_at
\* need not be that of the revision recorded last.
ReadRevision(u) ==
    /\ update[u].pc = "read"
    /\ IF app # None /\ app.id = update[u].app
       THEN \E v \in app.latest :
               Step(u, [update[u] EXCEPT !.pc = "resolve", !.rev = v])
       ELSE Over(u)
    /\ UNCHANGED <<src, app, running, busy, lastOp, add, remove, install>>

\* UpdatePreview: other bytes for the pinned commit are drift; it lowers the
\* trust of the row it read and blocks.  Only a new commit can be applied.
Drifted(base, v)   == v.commit = base.pin.commit /\ v.sum # base.pin.sum
CanUpdate(base, v) == ~Drifted(base, v) /\ v # base.pin

\* UPDATE ... WHERE id; its error is dropped.
UpdateManifestSourceTrust(base) ==
    \/ src # None /\ src.id = base.id /\ src' = [src EXCEPT !.trust = "changed"]
    \/ UNCHANGED src

\* The rest of UpdatePreview, from Resolve on.  A plan is shown to the client;
\* an apply request goes on if GitHub still has the confirmed version, CanUpdate
\* holds, the risks are acknowledged and the app's identity is the same.
UpdatePreview(u) ==
    LET base == update[u].base
        want == update[u].confirmed
    IN
    /\ update[u].pc = "resolve"
    /\ \/ \E v \in Offered :
             /\ IF Drifted(base, v) /\ base.trust # "changed"
                THEN UpdateManifestSourceTrust(base) ELSE UNCHANGED src
             /\ \/ /\ want = None
                   /\ Step(u, [NoUpdate EXCEPT !.pc = "planned", !.confirmed = v])
                \/ want = v /\ CanUpdate(base, v) /\ Goto(u, "accept")
                \/ Over(u)
       \/ Over(u) /\ UNCHANGED src
    /\ UNCHANGED <<app, running, busy, lastOp, add, remove, install>>

\* CreateOperation: one active operation per app, and the app must exist.
AcceptUpdate(u) ==
    /\ update[u].pc = "accept"
    /\ \/ /\ app # None /\ app.id = update[u].app /\ busy = None
          /\ busy' = u /\ Goto(u, "check")
       \/ Over(u) /\ UNCHANGED busy
    /\ UNCHANGED <<src, app, running, lastOp, add, remove, install>>

\* Mutants: the worker does not compare the source with the preview; it takes the
\* source as it finds it for the one the preview read.
CheckNothing(u) ==
    /\ update[u].pc = "check" /\ src # None /\ src.id = update[u].base.id
    /\ Step(u, [update[u] EXCEPT !.pc = "deploy", !.cur = src.pin])
    /\ UNCHANGED <<src, app, running, busy, lastOp, add, remove, install>>

CheckFresh(u) ==
    /\ update[u].pc = "check" /\ src # None /\ src.id = update[u].base.id
    /\ Step(u, [update[u] EXCEPT !.pc = "deploy", !.cur = src.pin, !.base = src])
    /\ UNCHANGED <<src, app, running, busy, lastOp, add, remove, install>>

\* runSourceUpdate's worker: the source must still be at the commit the
\* preview compared with; then the prior revision and the new project files.
CheckSource(u) ==
    /\ update[u].pc = "check"
    /\ \/ /\ src # None /\ src.id = update[u].base.id
          /\ src.pin.commit = update[u].base.pin.commit
          /\ Step(u, [update[u] EXCEPT !.pc = "deploy", !.cur = src.pin])
       \/ Goto(u, "failing")
    /\ UNCHANGED <<src, app, running, busy, lastOp, add, remove, install>>

AfterFailure(u) ==
    IF update[u].confirmed.sum \in RollbackSafe THEN "rollback" ELSE "failing"

\* runtime.Install of the new project.
Deploy(u) ==
    /\ update[u].pc = "deploy"
    /\ \/ running' = update[u].confirmed /\ Goto(u, "health")
       \/ running' \in {running, update[u].confirmed, None} /\ Goto(u, AfterFailure(u))
    /\ UNCHANGED <<src, app, busy, lastOp, add, remove, install>>

\* waitForUpdateHealth polls until healthy, the gate's timeout or the deadline.
HealthGate(u) ==
    /\ update[u].pc = "health"
    /\ Goto(u, "record") \/ Goto(u, AfterFailure(u))
    /\ UNCHANGED <<src, app, running, busy, lastOp, add, remove, install>>

\* runtime.Install of the prior revision, as GetLatestRevision gave it to the worker;
\* no other operation has recorded one since.
Rollback(u) ==
    /\ update[u].pc = "rollback"
    /\ running' \in {running, None} \cup app.latest
    /\ Goto(u, "failing")
    /\ UNCHANGED <<src, app, busy, lastOp, add, remove, install>>

\* created_at is in whole seconds of a clock that may be set back: the new revision is
\* the latest alone, or ties with those that were, or is older than them.
NewestWith(latest, v) == {{v}, latest \cup {v}, latest}

\* The app with a new revision.
Revised(v) ==
    {[app EXCEPT !.rev = v, !.latest = latest, !.stale = FALSE, !.left = @ \cup {src.pin.commit}]
        : latest \in {l \in NewestWith(app.latest, v) : Cardinality(l) <= MaxTied}}

\* Mutants: the statements run without a transaction; the error of the
\* transaction is dropped; the whole row is written back as it was read.
RecordPiecewise(u) ==
    /\ update[u].pc = "record" /\ src # None /\ src.pin = update[u].cur
    /\ src' = [src EXCEPT !.pin = update[u].confirmed]
    /\ \/ app' \in Revised(update[u].confirmed) /\ Goto(u, "succeeded")
       \/ UNCHANGED app /\ Goto(u, "failing")
    /\ UNCHANGED <<running, busy, lastOp, add, remove, install>>

RecordUnchecked(u) ==
    /\ update[u].pc = "record"
    /\ Goto(u, "succeeded")
    /\ UNCHANGED <<src, app, running, busy, lastOp, add, remove, install>>

RecordRow(u) ==
    /\ update[u].pc = "record" /\ src # None /\ src.pin = update[u].cur
    /\ src' = [update[u].base EXCEPT !.pin = update[u].confirmed]
    /\ app' \in Revised(update[u].confirmed)
    /\ Goto(u, "succeeded")
    /\ UNCHANGED <<running, busy, lastOp, add, remove, install>>

\* ApplySuccessfulUpdate: one transaction that moves the pin if it is still what
\* the worker read, appends the revision and updates the app.  It does not write
\* the trust.  When it fails, the new project stays up.
ApplySuccessfulUpdate(u) ==
    /\ update[u].pc = "record"
    /\ \/ /\ src # None /\ src.id = update[u].base.id /\ src.pin = update[u].cur
          /\ src' = [src EXCEPT !.pin = update[u].confirmed]
          /\ app' \in Revised(update[u].confirmed)
          /\ Goto(u, "succeeded")
       \/ Goto(u, "failing") /\ UNCHANGED <<src, app>>
    /\ UNCHANGED <<running, busy, lastOp, add, remove, install>>

\* runOperation settles the operation.
Settle(u) ==
    /\ update[u].pc \in {"succeeded", "failing"}
    /\ lastOp' = IF update[u].pc = "succeeded" THEN "completed" ELSE "failed"
    /\ busy' = None /\ Over(u)
    /\ UNCHANGED <<src, app, running, add, remove, install>>

\* A request that has begun ends with its process.
Cut(rec) == [rec EXCEPT !.pc = IF @ = "idle" THEN @ ELSE "over"]

\* The process dies; the next one marks the active operation failed.
Crash ==
    /\ add' = [a \in Adds |-> Cut(add[a])]
    /\ remove' = [r \in Removes |-> None]
    /\ install' = [i \in Installs |-> Cut(install[i])]
    /\ update' = [u \in Updates |-> NoUpdate]
    /\ busy' = None
    /\ lastOp' = IF busy = None THEN lastOp ELSE "failed"
    /\ UNCHANGED <<src, app, running>>

Next ==
    \/ Uninstall \/ Crash
    \/ \E a \in Adds : Preview(a) \/ CheckAdd(a) \/ ResolveAdd(a) \/ CreateManifestSource(a)
    \/ \E r \in Removes : ListForRemove(r) \/ DeleteManifestSource(r)
    \/ \E i \in Installs : LoadManifest(i) \/ InsertApp(i) \/ ComposeUp(i)
    \/ \E u \in Updates :
          \/ ReadSource(u) \/ ReadRevision(u) \/ UpdatePreview(u) \/ AcceptUpdate(u)
          \/ CheckSource(u) \/ Deploy(u) \/ HealthGate(u) \/ Rollback(u)
          \/ ApplySuccessfulUpdate(u) \/ Settle(u)

Spec == Init /\ [][Next]_vars

-----------------------------------------------------------------------------
\* The source's pin and the revision recorded last are the same version, however
\* updates, previews, reinstalls, removals and crashes interleave, unless the
\* app was installed from a row that an update had moved in the meantime
\* (ApplySuccessfulUpdate's transaction, UpdatePreview's comparison).
PinIsRevision ==
    app # None /\ src # None /\ app.source = src.id /\ ~app.stale => app.rev = src.pin

\* When no operation is active and something other than the recorded revision
\* is up, the last operation was not an install or update reported as completed
\* (runSourceUpdate: a failed transaction does not undo the deployment).
DivergenceReported ==
    app # None /\ busy = None /\ lastOp = "completed" => running = app.rev

\* The pin of a stored source only moves to a version that a client confirmed
\* after an update preview, from the commit that the preview of the apply
\* request compared with, and only while that version is up
\* (AppApplyUpdate's stale_preview check, the worker's check, the health gate).
PinMovesAsReviewed ==
    [][ src # None /\ src' # None /\ src'.id = src.id /\ src'.pin # src.pin
        => /\ running = src'.pin
           /\ \E u \in Updates :
                 /\ update[u].pc = "record" /\ update[u].confirmed = src'.pin
                 /\ update[u].base.pin.commit = src.pin.commit ]_vars

\* What an update's review compared the new manifest with is still a latest revision
\* when the update replaces it, whatever other updates did between the review's reads
\* and the worker: it is the recorded one whenever created_at tells the revisions
\* apart.  The exception is a source that has come back to a commit it had left
\* before: the worker compares nothing but the commit
\* (UpdatePreview, runSourceUpdate's check, GetLatestRevision).
ReviewedBase ==
    [][ app # None /\ app' # None /\ app'.id = app.id /\ app'.rev # app.rev
        => \/ src.pin.commit \in app.left
           \/ \E u \in Updates : update[u].pc = "record" /\ update[u].rev \in app.latest ]_vars

\* A source that was found changed is never trusted again, not even by an
\* update that read its row before the drift was noticed
\* (UpdateManifestSourceTrust, ApplySuccessfulUpdate).
ChangedForGood ==
    [][ src # None /\ src' # None /\ src'.id = src.id /\ src.trust = "changed"
        => src'.trust = "changed" ]_vars
=============================================================================
