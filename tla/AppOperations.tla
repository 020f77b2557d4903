---------------------------- MODULE AppOperations ----------------------------
(***************************************************************************)
(* The operation engine of OpenDash: HTTP handlers that accept install,    *)
(* start, stop, restart, uninstall and update requests, the background     *)
(* worker each accepted request gets (runOperation), the SQLite rows both  *)
(* write, the Compose projects the workers change, the GET handlers that   *)
(* write back what they observe, and the process that serves, shuts down,  *)
(* crashes and recovers.                                                   *)
(*                                                                         *)
(* One step is one store call or one runtime call: between two of them any *)
(* other handler, worker, observer, signal or crash may run.               *)
(*                                                                         *)
(* A request r also names the identifiers its handler mints: the operation *)
(* row is opRow[r] and the app row of an install is appRow[r].             *)
(***************************************************************************)
EXTENDS Naturals, FiniteSets

CONSTANTS
    Reqs,      \* mutating HTTP requests, over all lives of the process
    Offered,   \* the kinds of request that are made
    Catalog,   \* catalog apps; each determines one Compose project
    Observers, \* concurrent GET /apps and GET /apps/{id} handlers
    DbFaults   \* TRUE iff a SQLite statement may fail for no logical reason

VARIABLES
    \* SQLite (survives a crash)
    appRow,    \* status column of app_instances, or Absent
    opRow,     \* status column of operations, or Absent
    revRow,    \* apps that have a row in revisions
    \* Docker (survives a crash)
    project,   \* what containers each Compose project has
    \* the request's arguments
    kind, target, cat,
    \* the process's memory
    pc,        \* where the handler of a request stands
    gone,      \* requests whose client has disconnected
    worker,    \* where the worker of a request stands
    mem,       \* Status field of the instance a worker holds
    expired,   \* workers whose 15 minute deadline has passed
    cancelled, \* baseCtx is cancelled
    proc,      \* the life cycle of the process
    obsPc, obsApp, obsMem  \* the observing GET handlers

store  == <<appRow, opRow, revRow>>
req    == <<kind, target, cat>>
work   == <<worker, mem, expired>>
life   == <<cancelled, proc>>
obs    == <<obsPc, obsApp, obsMem>>
vars   == <<store, project, req, pc, gone, work, life, obs>>

Absent    == "absent"
AppStatus == {"installing", "running", "stopped", "error"}
Active    == {"pending", "running"}
Settled   == {"completed", "failed", "cancelled"}
Kinds     == {"install", "start", "stop", "restart", "uninstall", "update"}
Projects  == {"none", "up", "stopped", "mixed"}

ASSUME OfferedAssumption == Offered \subseteq Kinds
ASSUME DbFaultsAssumption == DbFaults \in BOOLEAN

\* wg.Add is the first statement of runOperation, so a goroutine that is only
\* spawned is not yet counted by Handlers.Wait.
Counted   == {"registered", "calling", "deleting", "applying", "succeeded",
              "failed", "canceled", "completed", "recorded", "observed",
              "errored"}
Live      == Counted \cup {"spawned"}
InFlight  == {"planned", "rowed", "revised", "rollback", "loaded", "clear"}

TypeOK ==
    /\ appRow \in [Reqs -> AppStatus \cup {Absent}]
    /\ opRow \in [Reqs -> Active \cup Settled \cup {Absent}]
    /\ revRow \in SUBSET Reqs
    /\ project \in [Catalog -> Projects]
    /\ kind \in [Reqs -> Kinds \cup {Absent}]
    /\ target \in [Reqs -> Reqs]
    /\ cat \in [Reqs -> Catalog \cup {Absent}]
    /\ pc \in [Reqs -> InFlight \cup {"idle", "done", "cut"}]
    /\ gone \in SUBSET Reqs
    /\ worker \in [Reqs -> Live \cup {"none", "finished", "lost"}]
    /\ mem \in [Reqs -> AppStatus]
    /\ expired \in SUBSET Reqs
    /\ cancelled \in BOOLEAN
    /\ proc \in {"serving", "stopping", "waiting", "exited", "crashed"}
    /\ obsPc \in [Observers -> {"idle", "loaded", "observed"}]
    /\ obsApp \in [Observers -> Reqs \cup {Absent}]
    /\ obsMem \in [Observers -> AppStatus]

Init ==
    /\ appRow = [r \in Reqs |-> Absent]
    /\ opRow = [r \in Reqs |-> Absent]
    /\ revRow = {}
    /\ project = [c \in Catalog |-> "none"]
    /\ kind = [r \in Reqs |-> Absent]
    /\ target = [r \in Reqs |-> r]
    /\ cat = [r \in Reqs |-> Absent]
    /\ pc = [r \in Reqs |-> "idle"]
    /\ gone = {}
    /\ worker = [r \in Reqs |-> "none"]
    /\ mem = [r \in Reqs |-> "installing"]
    /\ expired = {}
    /\ cancelled = FALSE
    /\ proc = "serving"
    /\ obsPc = [o \in Observers |-> "idle"]
    /\ obsApp = [o \in Observers |-> Absent]
    /\ obsMem = [o \in Observers |-> "installing"]

-----------------------------------------------------------------------------
(* The store.  A statement fails when its context is done, and, when       *)
(* DbFaults, for no reason; otherwise it takes effect.                      *)

Outcomes(ctxDone) ==
    {ok \in BOOLEAN : (ok => ~ctxDone) /\ (~ok => ctxDone \/ DbFaults)}

\* GetActiveOperationForApp
HasActive(a) == \E q \in Reqs : target[q] = a /\ opRow[q] \in Active

\* UNIQUE(catalog_id), UNIQUE(project_name) and UNIQUE(install_path) coincide:
\* project name and path are functions of the catalog id.
Installed(c) == \E a \in Reqs : appRow[a] # Absent /\ cat[a] = c

\* Faulty: no unique index on active operations.
CanInsertWithoutIndex(r) == appRow[target[r]] # Absent

\* CreateOperation: the foreign key on app_id and the partial unique index
\* idx_operations_one_active_per_app decide whether the INSERT is accepted.
CanInsertOperation(r) == appRow[target[r]] # Absent /\ ~HasActive(target[r])

\* Faulty: upserts.
UpsertOperation(r, ok, s) == opRow' = IF ok THEN [opRow EXCEPT ![r] = s] ELSE opRow
UpsertAppInstance(a, ok, s) == appRow' = IF ok THEN [appRow EXCEPT ![a] = s] ELSE appRow

\* UpdateOperation, UpdateAppInstanceStatus: an UPDATE of a missing row
\* changes nothing.
UpdateOperation(r, ok, s) ==
    opRow' = IF ok /\ opRow[r] # Absent THEN [opRow EXCEPT ![r] = s] ELSE opRow

UpdateAppInstanceStatus(a, ok, s) ==
    appRow' = IF ok /\ appRow[a] # Absent THEN [appRow EXCEPT ![a] = s] ELSE appRow

\* DeleteAppInstance cascades to the app's operations and revisions.
DeleteAppInstance(a, ok) ==
    IF ok
      THEN /\ appRow' = [appRow EXCEPT ![a] = Absent]
           /\ opRow' = [q \in Reqs |-> IF target[q] = a THEN Absent ELSE opRow[q]]
           /\ revRow' = revRow \ {a}
      ELSE UNCHANGED store

\* Faulty: RecoverOperations not called.
RecoverNothing(s) == s

\* RecoverOperations, on one row.
Recovered(s) == IF s \in Active THEN "failed" ELSE s

-----------------------------------------------------------------------------
(* Handlers.  r.Context() is done once the client has disconnected.         *)

Up == proc \in {"serving", "stopping", "waiting"}

Accepting == proc = "serving"

\* An instance nobody holds any more keeps no status.
Drop(r) == mem' = [mem EXCEPT ![r] = "installing"]

\* The handler returns; what its frame held is dropped.
Return(r) ==
    /\ pc' = [pc EXCEPT ![r] = "done"]
    /\ gone' = gone \ {r}

Reject(r) == Return(r) /\ Drop(r) /\ UNCHANGED <<store, worker, expired>>

\* InstallApp up to CreateAppInstance: the plan is made from the list of
\* instances read here, and a plan with a conflict is refused.
PlanInstall(r, c) ==
    /\ Accepting
    /\ pc[r] = "idle"
    /\ "install" \in Offered
    /\ ~Installed(c)
    /\ kind' = [kind EXCEPT ![r] = "install"]
    /\ cat' = [cat EXCEPT ![r] = c]
    /\ pc' = [pc EXCEPT ![r] = "planned"]
    /\ UNCHANGED <<store, project, target, gone, work, life, obs>>

CreateAppInstance(r) ==
    /\ Up
    /\ pc[r] = "planned"
    /\ \E ok \in Outcomes(r \in gone) :
         IF ok /\ ~Installed(cat[r])
           THEN /\ appRow' = [appRow EXCEPT ![r] = "installing"]
                /\ pc' = [pc EXCEPT ![r] = "rowed"]
                /\ UNCHANGED <<opRow, revRow, gone, work>>
           ELSE Reject(r)
    /\ UNCHANGED <<project, req, life, obs>>

\* Faulty: the error of CreateRevision is ignored.
IgnoreRevisionError == "revised"

\* Where the handler goes when CreateRevision fails.
AfterRevisionError == "rollback"

CreateRevision(r) ==
    /\ Up
    /\ pc[r] = "rowed"
    /\ \E ok \in Outcomes(r \in gone) :
         IF ok /\ appRow[r] # Absent
           THEN /\ revRow' = revRow \cup {r}
                /\ pc' = [pc EXCEPT ![r] = "revised"]
           ELSE /\ pc' = [pc EXCEPT ![r] = AfterRevisionError]
                /\ UNCHANGED revRow
    /\ UNCHANGED <<appRow, opRow, project, req, gone, work, life, obs>>

\* The rollback after a failed CreateRevision uses the same request context.
RollbackInstall(r) ==
    /\ Up
    /\ pc[r] = "rollback"
    /\ Return(r)
    /\ \E ok \in Outcomes(r \in gone) : DeleteAppInstance(r, ok)
    /\ UNCHANGED <<project, req, work, life, obs>>

\* getInstance: start, stop, restart, uninstall and update name an app that
\* is in the database when the handler looks it up.
LoadInstance(r, k, a) ==
    /\ Accepting
    /\ pc[r] = "idle"
    /\ appRow[a] # Absent
    /\ kind' = [kind EXCEPT ![r] = k]
    /\ target' = [target EXCEPT ![r] = a]
    /\ mem' = [mem EXCEPT ![r] = IF k = "uninstall" THEN "installing" ELSE appRow[a]]
    /\ pc' = [pc EXCEPT ![r] = "loaded"]
    /\ UNCHANGED <<store, project, cat, gone, worker, expired, life, obs>>

\* The early check for an active operation; an error of the query is ignored
\* and counts as "none active".
CheckActive(r) ==
    /\ Up
    /\ pc[r] = "loaded"
    /\ \E ok \in Outcomes(r \in gone) :
         IF ok /\ HasActive(target[r])
           THEN Reject(r)
           ELSE /\ pc' = [pc EXCEPT ![r] = "clear"]
                /\ UNCHANGED <<store, gone, work>>
    /\ UNCHANGED <<project, req, life, obs>>

\* AppApplyUpdate refuses after the check: no source, a stale or blocked
\* preview, a missing acknowledgement, another app id.
RefuseUpdate(r) ==
    /\ Up
    /\ pc[r] = "clear"
    /\ kind[r] = "update"
    /\ Reject(r)
    /\ UNCHANGED <<project, req, life, obs>>

\* CreateOperation, and `go h.runOperation(...)` if it succeeds.  An update
\* calls runOperation itself, without `go`: its worker is counted at once.
CreateOperation(r) ==
    /\ Up
    /\ pc[r] \in {"revised", "clear"}
    /\ \E ok \in Outcomes(r \in gone) :
         IF ok /\ CanInsertOperation(r)
           THEN /\ opRow' = [opRow EXCEPT ![r] = "pending"]
                /\ worker' = [worker EXCEPT ![r] =
                     IF kind[r] = "update" THEN "registered" ELSE "spawned"]
                /\ Return(r)
                /\ UNCHANGED <<appRow, revRow, mem, expired>>
           ELSE Reject(r)
    /\ UNCHANGED <<project, req, life, obs>>

Disconnect(r) ==
    /\ Up
    /\ pc[r] \in InFlight
    /\ r \notin gone
    /\ gone' = gone \cup {r}
    /\ UNCHANGED <<store, project, req, pc, work, life, obs>>

-----------------------------------------------------------------------------
(* Workers: runOperation.  Every store call of a worker uses its own        *)
(* context, which ends with baseCtx or after 15 minutes.                    *)

CtxDone(r) == cancelled \/ r \in expired

Goto(r, w) == worker' = [worker EXCEPT ![r] = w]

ProjectOf(r) == cat[target[r]]

\* runOperation's instance argument is nil for an uninstall.
HasInstance(r) == kind[r] # "uninstall"

Register(r) ==
    /\ Up
    /\ worker[r] = "spawned"
    /\ Goto(r, "registered")
    /\ UNCHANGED <<store, project, req, pc, gone, mem, expired, life, obs>>

\* update(Running), then fn is entered.
BeginOperation(r) ==
    /\ Up
    /\ worker[r] = "registered"
    /\ Goto(r, "calling")
    /\ \E ok \in Outcomes(CtxDone(r)) : UpdateOperation(r, ok, "running")
    /\ UNCHANGED <<appRow, revRow, project, req, pc, gone, mem, expired, life, obs>>

\* What a successful Compose command makes of a project.  `up -d` succeeds
\* although a container exits at once; `start` and `restart` fail without
\* containers, `stop` and `down` do not.
ComposeResult(k, s) ==
    CASE k \in {"install", "update"}                -> {"up", "mixed"}
      [] k \in {"start", "restart"} /\ s # "none"   -> {"up", "mixed"}
      [] k \in {"start", "restart"} /\ s = "none"   -> {}
      [] k = "stop"      -> {IF s = "none" THEN "none" ELSE "stopped"}
      [] OTHER           -> {"none"}

\* What a failed or killed command may leave.
ComposeWreck(k, s) ==
    CASE k \in {"install", "update"}             -> Projects
      [] s = "none"                              -> {"none"}
      [] k = "uninstall" /\ s # "none"           -> Projects
      [] OTHER                                   -> Projects \ {"none"}

\* fn's runtime call succeeds.  A command does not start on a done context.
\* An update needs the latest revision first, and passes its health gate only
\* with every container running.
RuntimeSucceeds(r) ==
    /\ Up
    /\ worker[r] = "calling"
    /\ ~CtxDone(r)
    /\ kind[r] = "update" => target[r] \in revRow
    /\ \E s \in ComposeResult(kind[r], project[ProjectOf(r)]) :
         /\ kind[r] = "update" => s = "up"
         /\ project' = [project EXCEPT ![ProjectOf(r)] = s]
    /\ Goto(r, CASE kind[r] = "uninstall" -> "deleting"
                 [] kind[r] = "update"    -> "applying"
                 [] OTHER                 -> "succeeded")
    /\ UNCHANGED <<store, req, pc, gone, mem, expired, life, obs>>

\* Faulty: a failed Uninstall does not stop the deletion of the app row.
DeleteAnyway(r) == {IF kind[r] = "uninstall" THEN "deleting" ELSE "failed"}

\* Faulty: a failed call is made again, without a limit.
RetryForever(r) == {"calling"}

\* fn returns an error: errors.Is(err, context.Canceled) is possible only when
\* baseCtx is cancelled, and then not certain, because a killed docker command
\* reports its exit status instead.
AfterError(r) == {"failed"} \cup (IF cancelled THEN {"canceled"} ELSE {})

\* fn's runtime call fails or panics.
RuntimeFails(r) ==
    /\ Up
    /\ worker[r] = "calling"
    /\ IF kind[r] = "update" /\ target[r] \notin revRow
         THEN UNCHANGED project
         ELSE \E s \in ComposeWreck(kind[r], project[ProjectOf(r)]) :
                project' = [project EXCEPT ![ProjectOf(r)] = s]
    /\ \E w \in AfterError(r) : Goto(r, w)
    /\ UNCHANGED <<store, req, pc, gone, mem, expired, life, obs>>

\* Uninstall's fn deletes the app record; an error is only logged.
DeleteAfterUninstall(r) ==
    /\ Up
    /\ worker[r] = "deleting"
    /\ Goto(r, "succeeded")
    /\ \E ok \in Outcomes(CtxDone(r)) : DeleteAppInstance(target[r], ok)
    /\ UNCHANGED <<project, req, pc, gone, mem, expired, life, obs>>

\* Update's fn ends with ApplySuccessfulUpdate, one transaction; it fails
\* also when the source row has changed.
ApplySuccessfulUpdate(r) ==
    /\ Up
    /\ worker[r] = "applying"
    /\ \/ /\ TRUE \in Outcomes(CtxDone(r))
          /\ appRow[target[r]] # Absent
          /\ appRow' = [appRow EXCEPT ![target[r]] = "running"]
          /\ revRow' = revRow \cup {target[r]}
          /\ mem' = [mem EXCEPT ![r] = "running"]
          /\ Goto(r, "succeeded")
       \/ /\ \E w \in AfterError(r) : Goto(r, w)
          /\ UNCHANGED <<appRow, revRow, mem>>
    /\ UNCHANGED <<opRow, project, req, pc, gone, expired, life, obs>>

\* update(Completed).  The status writes and the observation that follow are taken
\* not to panic: the deferred recover would then write Failed over it.
Complete(r) ==
    /\ Up
    /\ worker[r] = "succeeded"
    /\ Goto(r, IF HasInstance(r) THEN "completed" ELSE "finished")
    /\ \E ok \in Outcomes(CtxDone(r)) : UpdateOperation(r, ok, "completed")
    /\ UNCHANGED <<appRow, revRow, project, req, pc, gone, mem, expired, life, obs>>

FailureStatus(w) == IF w = "canceled" THEN "cancelled" ELSE "failed"

\* update(Failed) or update(Cancelled)
Fail(r) ==
    /\ Up
    /\ worker[r] \in {"failed", "canceled"}
    /\ Goto(r, IF HasInstance(r) THEN "errored" ELSE "finished")
    /\ \E ok \in Outcomes(CtxDone(r)) :
         UpdateOperation(r, ok, FailureStatus(worker[r]))
    /\ Drop(r)
    /\ UNCHANGED <<appRow, revRow, project, req, pc, gone, expired, life, obs>>

\* Faulty: no wg.Done on the failure path.
RecordErrorWithoutDone(r) ==
    /\ Up
    /\ worker[r] = "errored"
    /\ UpdateAppInstanceStatus(target[r], ~CtxDone(r), "error")
    /\ UNCHANGED <<opRow, revRow, project, req, pc, gone, work, life, obs>>

\* UpdateAppInstanceStatus(error), the last statement of the failure path.
RecordError(r) ==
    /\ Up
    /\ worker[r] = "errored"
    /\ Goto(r, "finished")
    /\ \E ok \in Outcomes(CtxDone(r)) : UpdateAppInstanceStatus(target[r], ok, "error")
    /\ UNCHANGED <<opRow, revRow, project, req, pc, gone, mem, expired, life, obs>>

\* Faulty: the operation's kind is written where its status belongs.
KindAsStatus(k) == k

\* The successStatus arguments of AppStart, AppStop, AppRestart, InstallApp and
\* runSourceUpdate.
SuccessStatus(k) == IF k = "stop" THEN "stopped" ELSE "running"

\* The success path writes *newStatus to the row, not to the instance.
RecordStatus(r) ==
    /\ Up
    /\ worker[r] = "completed"
    /\ Goto(r, "recorded")
    /\ \E ok \in Outcomes(CtxDone(r)) :
         UpdateAppInstanceStatus(target[r], ok, SuccessStatus(kind[r]))
    /\ UNCHANGED <<opRow, revRow, project, req, pc, gone, mem, expired, life, obs>>

\* observedToAppInstanceStatus on what `docker compose ps` lists: without
\* services the current status is kept; stopped containers may or may not be
\* listed.
ObservedStatus(current, s) ==
    CASE s = "up"      -> {"running"}
      [] s = "stopped" -> {"stopped", current}
      [] s = "mixed"   -> {"error", "running"}
      [] OTHER         -> {current}

\* observeAndUpdateInstance, first half: Observe.  It may fail.
ObserveAfter(r) ==
    /\ Up
    /\ worker[r] = "recorded"
    /\ \/ /\ ~CtxDone(r)
          /\ \E s \in ObservedStatus(mem[r], project[ProjectOf(r)]) :
               mem' = [mem EXCEPT ![r] = s]
          /\ Goto(r, "observed")
       \/ Goto(r, "finished") /\ Drop(r)
    /\ UNCHANGED <<store, project, req, pc, gone, expired, life, obs>>

\* Second half: UpdateAppInstanceStatusAndEndpoints.
StoreObserved(r) ==
    /\ Up
    /\ worker[r] = "observed"
    /\ Goto(r, "finished")
    /\ \E ok \in Outcomes(CtxDone(r)) : UpdateAppInstanceStatus(target[r], ok, mem[r])
    /\ Drop(r)
    /\ UNCHANGED <<opRow, revRow, project, req, pc, gone, expired, life, obs>>

\* Install (10m), health gate (60s) and rollback (10m) of an update together
\* can outlast the worker's 15 minutes; no other kind can.
Expire(r) ==
    /\ Up
    /\ worker[r] = "calling"
    /\ kind[r] = "update"
    /\ r \notin expired
    /\ expired' = expired \cup {r}
    /\ UNCHANGED <<store, project, req, pc, gone, worker, mem, life, obs>>

-----------------------------------------------------------------------------
(* GET handlers: read the instance, ask the runtime, write back.            *)

ObserverReturn(o) ==
    /\ obsPc' = [obsPc EXCEPT ![o] = "idle"]
    /\ obsApp' = [obsApp EXCEPT ![o] = Absent]
    /\ obsMem' = [obsMem EXCEPT ![o] = "installing"]

ObserverLoad(o, a) ==
    /\ Accepting
    /\ obsPc[o] = "idle"
    /\ appRow[a] # Absent
    /\ obsPc' = [obsPc EXCEPT ![o] = "loaded"]
    /\ obsApp' = [obsApp EXCEPT ![o] = a]
    /\ obsMem' = [obsMem EXCEPT ![o] = appRow[a]]
    /\ UNCHANGED <<store, project, req, pc, gone, work, life>>

ObserverAsk(o) ==
    /\ Up
    /\ obsPc[o] = "loaded"
    /\ obsPc' = [obsPc EXCEPT ![o] = "observed"]
    /\ \E s \in ObservedStatus(obsMem[o], project[cat[obsApp[o]]]) :
         obsMem' = [obsMem EXCEPT ![o] = s]
    /\ UNCHANGED <<store, project, req, pc, gone, work, life, obsApp>>

ObserverStore(o) ==
    /\ Up
    /\ obsPc[o] = "observed"
    /\ UpdateAppInstanceStatus(obsApp[o], TRUE, obsMem[o])
    /\ ObserverReturn(o)
    /\ UNCHANGED <<opRow, revRow, project, req, pc, gone, work, life>>

\* Observe fails, or the client disconnects: nothing is written.
ObserverGiveUp(o) ==
    /\ Up
    /\ obsPc[o] # "idle"
    /\ ObserverReturn(o)
    /\ UNCHANGED <<store, project, req, pc, gone, work, life>>

-----------------------------------------------------------------------------
(* The process.                                                             *)

\* SIGINT or SIGTERM cancels the context SetLifecycle installed.
Signal ==
    /\ proc = "serving"
    /\ ~cancelled
    /\ cancelled' = TRUE
    /\ UNCHANGED <<store, project, req, pc, gone, work, proc, obs>>

\* main wakes up and calls server.Shutdown: no new connections.
BeginShutdown ==
    /\ proc = "serving"
    /\ cancelled
    /\ proc' = "stopping"
    /\ UNCHANGED <<store, project, req, pc, gone, work, cancelled, obs>>

\* Shutdown returns when no handler is in flight, and main calls h.Wait.
ShutdownReturns ==
    /\ proc = "stopping"
    /\ \A r \in Reqs : pc[r] \notin InFlight
    /\ \A o \in Observers : obsPc[o] = "idle"
    /\ proc' = "waiting"
    /\ UNCHANGED <<store, project, req, pc, gone, work, cancelled, obs>>

WaitReturns ==
    /\ proc = "waiting"
    /\ \A r \in Reqs : worker[r] \notin Counted
    /\ proc' = "exited"
    /\ UNCHANGED <<store, project, req, pc, gone, work, cancelled, obs>>

\* The memory of a process that ends.
Forget ==
    /\ pc' = [r \in Reqs |-> IF pc[r] \in InFlight THEN "cut" ELSE pc[r]]
    /\ worker' = [r \in Reqs |-> IF worker[r] \in Live THEN "lost" ELSE worker[r]]
    /\ mem' = [r \in Reqs |-> "installing"]
    /\ gone' = {}
    /\ expired' = {}
    /\ obsPc' = [o \in Observers |-> "idle"]
    /\ obsApp' = [o \in Observers |-> Absent]
    /\ obsMem' = [o \in Observers |-> "installing"]

\* kill -9, power loss, a panic outside the worker, os.Exit(1) after the
\* shutdown timeout.  A runtime call in progress is cut anywhere.
Crash ==
    /\ Up
    /\ proc' = "crashed"
    /\ cancelled' = FALSE
    /\ \E wreck \in [Catalog -> Projects] :
         /\ \A c \in Catalog : \/ wreck[c] = project[c]
                               \/ \E r \in Reqs :
                                    /\ worker[r] = "calling"
                                    /\ ProjectOf(r) = c
                                    /\ kind[r] = "update" => target[r] \in revRow
                                    /\ wreck[c] \in ComposeWreck(kind[r], project[c])
         /\ project' = wreck
    /\ Forget
    /\ UNCHANGED <<store, req>>

\* A new process calls RecoverOperations before it serves; an error of
\* RecoverOperations is only logged.
Start ==
    /\ proc \in {"crashed", "exited"}
    /\ proc' = "serving"
    /\ cancelled' = FALSE
    /\ \E ok \in Outcomes(FALSE) :
         opRow' = [r \in Reqs |-> IF ok THEN Recovered(opRow[r]) ELSE opRow[r]]
    /\ Forget
    /\ UNCHANGED <<appRow, revRow, project, req>>

-----------------------------------------------------------------------------
HandlerStep(r) ==
    \/ CreateAppInstance(r) \/ CreateRevision(r) \/ RollbackInstall(r)
    \/ CheckActive(r) \/ RefuseUpdate(r) \/ CreateOperation(r)

WorkerStep(r) ==
    \/ Register(r) \/ BeginOperation(r)
    \/ RuntimeSucceeds(r) \/ RuntimeFails(r)
    \/ DeleteAfterUninstall(r) \/ ApplySuccessfulUpdate(r)
    \/ Complete(r) \/ Fail(r)
    \/ RecordError(r) \/ RecordStatus(r) \/ ObserveAfter(r) \/ StoreObserved(r)

ObserverStep(o) == ObserverAsk(o) \/ ObserverStore(o) \/ ObserverGiveUp(o)

Shutdown == BeginShutdown \/ ShutdownReturns \/ WaitReturns

Next ==
    \/ \E r \in Reqs :
         \/ \E c \in Catalog : PlanInstall(r, c)
         \/ \E k \in Offered \ {"install"}, a \in Reqs : LoadInstance(r, k, a)
         \/ HandlerStep(r)
         \/ WorkerStep(r)
         \/ Disconnect(r)
         \/ Expire(r)
    \/ \E o \in Observers :
         \/ \E a \in Reqs : ObserverLoad(o, a)
         \/ ObserverStep(o)
    \/ Signal \/ Shutdown \/ Crash \/ Start

Spec == Init /\ [][Next]_vars

\* Every handler, worker and observer is a goroutine that the Go scheduler
\* runs, every runtime call has a timeout, main proceeds through shutdown, and
\* the service manager restarts a process that crashed (Restart=on-failure).
\* A clean exit is not restarted.  Clients, signals and crashes are not fair.
Fairness ==
    /\ \A r \in Reqs : WF_vars(HandlerStep(r)) /\ WF_vars(WorkerStep(r))
    /\ \A o \in Observers : WF_vars(ObserverStep(o))
    /\ WF_vars(Shutdown)
    /\ WF_vars(proc = "crashed" /\ Start)

FairSpec == Spec /\ Fairness

-----------------------------------------------------------------------------
(* Properties.                                                              *)

\* Workers that may be changing, or about to change, containers.
Engaged(r) == worker[r] \in {"spawned", "registered", "calling", "deleting", "applying"}

\* Two workers never have a Compose command on the same project in progress:
\* the partial unique index serialises operations of one app, and an app's
\* row disappears only when its uninstall has finished with the project, so
\* a reinstall under a new app id cannot overlap either.
ExclusiveRuntimeCall ==
    \A r, s \in Reqs :
        Engaged(r) /\ Engaged(s) /\ ProjectOf(r) = ProjectOf(s) => r = s

\* Containers always belong to an app in the database: a failed install, a
\* rolled back install, an interrupted uninstall and a restart never leave a
\* Compose project running that no app row can reach.
NoOrphanContainers ==
    \A c \in Catalog : project[c] # "none" => Installed(c)

\* An app that has containers has a revision row, which update, rollback,
\* backup and the redaction of secrets read.
ContainersHaveRevision ==
    \A a \in Reqs :
        appRow[a] # Absent /\ project[cat[a]] # "none" => a \in revRow

\* In a process that is not shutting down, an operation that blocks its app
\* (pending or running) has a worker that will settle it; the only exception
\* is an update whose 15 minutes have passed.
ActiveHasWorker ==
    \A r \in Reqs :
        /\ proc = "serving"
        /\ ~cancelled
        /\ opRow[r] \in Active
        => worker[r] \in Live \/ r \in expired

\* Once a client has polled a final status it never polls another one: late
\* workers, duplicate writes and RecoverOperations leave settled rows alone.
\* Only deleting the app removes them.
SettledForever ==
    [][\A r \in Reqs : opRow[r] \in Settled => opRow'[r] \in {opRow[r], Absent}]_vars

\* A deleted app never reappears: the late status writes of workers and of
\* GET handlers that read the instance before it was deleted find no row.
NoResurrection ==
    [][\A a \in Reqs :
         appRow[a] = Absent /\ pc[a] # "planned" => appRow'[a] = Absent]_vars

\* Every accepted operation stops blocking its app, through any number of
\* crashes; after a signal or an expired update it may take the next start.
EventuallySettled ==
    \A r \in Reqs :
        opRow[r] \in Active
          ~> (opRow[r] \notin Active \/ cancelled \/ r \in expired)

\* A signal always ends the process: neither Shutdown nor Wait blocks forever.
SignalEndsProcess == cancelled ~> proc \in {"exited", "crashed"}

\* The rows of the operations table are an OperationLog.
LogView ==
    [r \in Reqs |-> IF opRow[r] # Absent THEN opRow[r]
                    ELSE IF worker[r] = "none" THEN "unborn" ELSE "removed"]

Log == INSTANCE OperationLog WITH Ops <- Reqs, log <- LogView, subject <- target

\* The engine implements the operation log, through every interleaving of
\* handlers and workers, every crash and every restart.
ImplementsOperationLog == Log!LogSpec
=============================================================================
