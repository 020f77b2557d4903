------------------------- MODULE AppOperationsProofs -------------------------
(***************************************************************************)
(* Proofs about AppOperations, for every set of requests, catalog apps and *)
(* observers, and (except where stated) with SQLite failing at will.       *)
(***************************************************************************)
EXTENDS AppOperations, TLAPS

-----------------------------------------------------------------------------
(* The inductive invariant.                                                 *)

\* What a request is, according to where its handler stands.
RequestInv ==
    \A r \in Reqs :
        /\ pc[r] = "idle" => kind[r] = Absent
        /\ pc[r] # "idle" => kind[r] # Absent
        /\ pc[r] \in {"planned", "rowed", "revised", "rollback"} => kind[r] = "install"
        /\ pc[r] \in {"loaded", "clear"} => kind[r] # "install"
        /\ kind[r] = "install" => target[r] = r /\ cat[r] \in Catalog
        /\ kind[r] # Absent => kind[target[r]] = "install"
        /\ appRow[r] # Absent => kind[r] = "install"
        /\ pc[r] # "done" => worker[r] = "none"
        /\ worker[r] = "none" => opRow[r] = Absent

\* Nothing refers to an app id before the row of the app is inserted.
FreshInv ==
    \A r \in Reqs :
        pc[r] \in {"idle", "planned"} =>
            /\ appRow[r] = Absent
            /\ target[r] = r
            /\ \A q \in Reqs : target[q] = r => q = r

\* The constraints the schema declares.
StoreInv ==
    /\ \A r \in Reqs : opRow[r] # Absent => appRow[target[r]] # Absent
    /\ \A r \in revRow : appRow[r] # Absent
    /\ \A r, s \in Reqs :
         appRow[r] # Absent /\ appRow[s] # Absent /\ cat[r] = cat[s] => r = s
    /\ \A r, s \in Reqs :
         opRow[r] \in Active /\ opRow[s] \in Active /\ target[r] = target[s] => r = s

\* The revision of an app that is being installed.
RevisionInv ==
    \A r \in Reqs :
        /\ pc[r] \in {"rowed", "rollback"} => r \notin revRow
        /\ pc[r] = "revised" => r \in revRow \/ appRow[r] = Absent

\* What a worker may rely on.  The row of an engaged worker is active, or the
\* app was rolled back under it, which never happens to an install.
WorkerOK(r) ==
    /\ Engaged(r) => opRow[r] \in Active \/ appRow[target[r]] = Absent
    /\ Engaged(r) /\ kind[r] = "install" => opRow[r] \in Active /\ r \in revRow
    /\ worker[r] = "deleting" =>
         /\ kind[r] = "uninstall"
         /\ project[ProjectOf(r)] = "none" \/ appRow[target[r]] = Absent
    /\ worker[r] = "applying" =>
         /\ kind[r] = "update"
         /\ target[r] \in revRow \/ appRow[target[r]] = Absent
    /\ worker[r] \in {"spawned", "registered"} => opRow[r] \in {"pending", Absent}
    /\ worker[r] \in {"succeeded", "failed", "canceled"} => opRow[r] \in Active \cup {Absent}

WorkerInv == \A r \in Reqs : WorkerOK(r)

Inv ==
    /\ TypeOK
    /\ RequestInv
    /\ FreshInv
    /\ StoreInv
    /\ RevisionInv
    /\ WorkerInv
    /\ NoOrphanContainers
    /\ ContainersHaveRevision

\* Without spurious SQLite errors no app is rolled back under a worker.
FaultFreeInv ==
    \A r \in Reqs :
        /\ Engaged(r) => opRow[r] \in Active
        /\ pc[r] = "rollback" => r \in gone \/ appRow[r] = Absent

-----------------------------------------------------------------------------
(* What the helper operators return.                                        *)

\* The status derived from an observation is an app status.
LEMMA ObservedStatusType ==
    ASSUME NEW cur \in AppStatus, NEW s PROVE ObservedStatus(cur, s) \subseteq AppStatus
<1>1. CASE s = "up"
  BY <1>1 DEF ObservedStatus, AppStatus
<1>2. CASE s = "stopped"
  BY <1>2 DEF ObservedStatus, AppStatus
<1>3. CASE s = "mixed"
  BY <1>3 DEF ObservedStatus, AppStatus
<1>4. CASE s \notin {"up", "stopped", "mixed"}
  BY <1>4 DEF ObservedStatus, AppStatus
<1> QED
  BY <1>1, <1>2, <1>3, <1>4

\* A Compose command leaves a project in one of the modelled states, and a
\* command other than `up` never gives containers to a project without any.
LEMMA ComposeResultType ==
    ASSUME NEW k, NEW s
    PROVE  /\ ComposeResult(k, s) \subseteq Projects
           /\ s = "none" /\ k \notin {"install", "update"} => ComposeResult(k, s) \subseteq {"none"}
           /\ k = "uninstall" => ComposeResult(k, s) = {"none"}
BY DEF ComposeResult, Projects

\* The same of a command that fails or is killed.
LEMMA ComposeWreckType ==
    ASSUME NEW k, NEW s
    PROVE  /\ ComposeWreck(k, s) \subseteq Projects
           /\ s = "none" /\ k \notin {"install", "update"} => ComposeWreck(k, s) \subseteq {"none"}
BY DEF ComposeWreck, Projects

\* An error leads a worker to its failure path.
LEMMA AfterErrorType ==
    ASSUME NEW r PROVE AfterError(r) \subseteq {"failed", "canceled"}
BY DEF AfterError

-----------------------------------------------------------------------------
(* Type correctness.                                                        *)

\* The initial state has the types declared.
LEMMA InitType == Init => TypeOK
<1> USE DEF TypeOK, AppStatus, Active, Settled, Kinds, Projects, Counted, Live,
            InFlight, Absent, store, req, work, life, obs
<1> SUFFICES ASSUME Init PROVE TypeOK
  OBVIOUS
<1>1. cancelled \in BOOLEAN
  BY DEF Init
<1>2. /\ appRow \in [Reqs -> AppStatus \cup {Absent}]
      /\ opRow \in [Reqs -> Active \cup Settled \cup {Absent}]
      /\ kind \in [Reqs -> Kinds \cup {Absent}]
      /\ target \in [Reqs -> Reqs]
      /\ cat \in [Reqs -> Catalog \cup {Absent}]
  BY DEF Init
<1>3. /\ pc \in [Reqs -> InFlight \cup {"idle", "done", "cut"}]
      /\ worker \in [Reqs -> Live \cup {"none", "finished", "lost"}]
      /\ mem \in [Reqs -> AppStatus]
      /\ project \in [Catalog -> Projects]
  BY DEF Init
<1> QED
  BY <1>1, <1>2, <1>3 DEF Init

\* Every handler, worker, observer, shutdown, crash and recovery step keeps
\* every variable in its type.
THEOREM TypeCorrect == Spec => []TypeOK
<1> USE DEF TypeOK, AppStatus, Active, Settled, Kinds, Projects, Counted, Live,
            InFlight, Absent, store, req, work, life, obs
<1>1. Init => TypeOK
  BY InitType
<1>2. TypeOK /\ [Next]_vars => TypeOK'
  <2> SUFFICES ASSUME TypeOK, [Next]_vars PROVE TypeOK'
    OBVIOUS
  <2>1. ASSUME NEW r \in Reqs, NEW c \in Catalog, PlanInstall(r, c) PROVE TypeOK'
    BY <2>1 DEF PlanInstall
  <2>2. ASSUME NEW r \in Reqs, NEW k \in Kinds \ {"install"}, NEW a \in Reqs,
             LoadInstance(r, k, a) PROVE TypeOK'
    BY <2>2 DEF LoadInstance
  <2>3. ASSUME NEW r \in Reqs, CreateAppInstance(r) PROVE TypeOK'
    BY <2>3 DEF CreateAppInstance, Reject, Return, Drop
  <2>4. ASSUME NEW r \in Reqs, CreateRevision(r) PROVE TypeOK'
    BY <2>4 DEF CreateRevision, AfterRevisionError
  <2>5. ASSUME NEW r \in Reqs, RollbackInstall(r) PROVE TypeOK'
    BY <2>5 DEF RollbackInstall, Return, DeleteAppInstance
  <2>6. ASSUME NEW r \in Reqs, CheckActive(r) PROVE TypeOK'
    BY <2>6 DEF CheckActive, Reject, Return, Drop
  <2>7. ASSUME NEW r \in Reqs, RefuseUpdate(r) PROVE TypeOK'
    BY <2>7 DEF RefuseUpdate, Reject, Return, Drop
  <2>8. ASSUME NEW r \in Reqs, CreateOperation(r) PROVE TypeOK'
    BY <2>8 DEF CreateOperation, Reject, Return, Drop
  <2>9. ASSUME NEW r \in Reqs, Register(r) PROVE TypeOK'
    BY <2>9 DEF Register, Goto
  <2>10. ASSUME NEW r \in Reqs, BeginOperation(r) PROVE TypeOK'
    BY <2>10 DEF BeginOperation, Goto, UpdateOperation
  <2>11. ASSUME NEW r \in Reqs, RuntimeSucceeds(r) PROVE TypeOK'
    <3>1. \E w \in Live : worker' = [worker EXCEPT ![r] = w]
      BY <2>11 DEF RuntimeSucceeds, Goto
    <3>2. project' \in [Catalog -> Projects]
      <4>1. PICK s \in ComposeResult(kind[r], project[ProjectOf(r)]) :
              project' = [project EXCEPT ![ProjectOf(r)] = s]
        BY <2>11 DEF RuntimeSucceeds
      <4>2. s \in Projects
        BY ComposeResultType
      <4> QED
        BY <4>1, <4>2
    <3> QED
      BY <2>11, <3>1, <3>2 DEF RuntimeSucceeds
  <2>12. ASSUME NEW r \in Reqs, RuntimeFails(r) PROVE TypeOK'
    BY <2>12, AfterErrorType, ComposeWreckType DEF RuntimeFails, Goto
  <2>13. ASSUME NEW r \in Reqs, DeleteAfterUninstall(r) PROVE TypeOK'
    BY <2>13 DEF DeleteAfterUninstall, Goto, DeleteAppInstance
  <2>14. ASSUME NEW r \in Reqs, ApplySuccessfulUpdate(r) PROVE TypeOK'
    <3>1. CASE /\ appRow' = [appRow EXCEPT ![target[r]] = "running"]
               /\ revRow' = revRow \cup {target[r]}
               /\ mem' = [mem EXCEPT ![r] = "running"]
               /\ worker' = [worker EXCEPT ![r] = "succeeded"]
      BY <2>14, <3>1 DEF ApplySuccessfulUpdate
    <3>2. CASE /\ \E w \in AfterError(r) : worker' = [worker EXCEPT ![r] = w]
               /\ UNCHANGED <<appRow, revRow, mem>>
      BY <2>14, <3>2, AfterErrorType DEF ApplySuccessfulUpdate
    <3> QED
      BY <2>14, <3>1, <3>2 DEF ApplySuccessfulUpdate, Goto
  <2>15. ASSUME NEW r \in Reqs, Complete(r) PROVE TypeOK'
    BY <2>15 DEF Complete, Goto, UpdateOperation
  <2>16. ASSUME NEW r \in Reqs, Fail(r) PROVE TypeOK'
    BY <2>16 DEF Fail, Goto, Drop, UpdateOperation, FailureStatus
  <2>17. ASSUME NEW r \in Reqs, RecordError(r) PROVE TypeOK'
    BY <2>17 DEF RecordError, Goto, UpdateAppInstanceStatus
  <2>18. ASSUME NEW r \in Reqs, RecordStatus(r) PROVE TypeOK'
    BY <2>18 DEF RecordStatus, Goto, UpdateAppInstanceStatus, SuccessStatus
  <2>19. ASSUME NEW r \in Reqs, ObserveAfter(r) PROVE TypeOK'
    BY <2>19, ObservedStatusType DEF ObserveAfter, Goto, Drop
  <2>20. ASSUME NEW r \in Reqs, StoreObserved(r) PROVE TypeOK'
    BY <2>20 DEF StoreObserved, Goto, Drop, UpdateAppInstanceStatus
  <2>21. ASSUME NEW r \in Reqs, Disconnect(r) PROVE TypeOK'
    BY <2>21 DEF Disconnect
  <2>22. ASSUME NEW r \in Reqs, Expire(r) PROVE TypeOK'
    BY <2>22 DEF Expire
  <2>23. ASSUME NEW o \in Observers, NEW a \in Reqs, ObserverLoad(o, a) PROVE TypeOK'
    BY <2>23 DEF ObserverLoad
  <2>24. ASSUME NEW o \in Observers, ObserverAsk(o) PROVE TypeOK'
    BY <2>24, ObservedStatusType DEF ObserverAsk
  <2>25. ASSUME NEW o \in Observers, ObserverStore(o) PROVE TypeOK'
    BY <2>25 DEF ObserverStore, ObserverReturn, UpdateAppInstanceStatus
  <2>26. ASSUME NEW o \in Observers, ObserverGiveUp(o) PROVE TypeOK'
    BY <2>26 DEF ObserverGiveUp, ObserverReturn
  <2>27. ASSUME Signal PROVE TypeOK'
    BY <2>27 DEF Signal
  <2>28. ASSUME BeginShutdown PROVE TypeOK'
    BY <2>28 DEF BeginShutdown
  <2>29. ASSUME ShutdownReturns PROVE TypeOK'
    BY <2>29 DEF ShutdownReturns
  <2>30. ASSUME WaitReturns PROVE TypeOK'
    BY <2>30 DEF WaitReturns
  <2>31. ASSUME Crash PROVE TypeOK'
    <3>1. project' \in [Catalog -> Projects]
      BY <2>31 DEF Crash
    <3>2. /\ Forget /\ proc' = "crashed" /\ cancelled' = FALSE
          /\ UNCHANGED <<appRow, opRow, revRow, kind, target, cat>>
      BY <2>31 DEF Crash
    <3> HIDE DEF Projects
    <3> QED
      BY <3>1, <3>2 DEF Forget
  <2>32. ASSUME Start PROVE TypeOK'
    <3>1. opRow' \in [Reqs -> Active \cup Settled \cup {Absent}]
      BY <2>32 DEF Start, Recovered
    <3>2. /\ pc' \in [Reqs -> InFlight \cup {"idle", "done", "cut"}]
          /\ worker' \in [Reqs -> Live \cup {"none", "finished", "lost"}]
          /\ mem' \in [Reqs -> AppStatus]
      BY <2>32 DEF Start, Forget
    <3> QED
      BY <2>32, <3>1, <3>2 DEF Start, Forget
  <2>33. ASSUME UNCHANGED vars PROVE TypeOK'
    BY <2>33 DEF vars
  <2> QED
    BY <2>1, <2>2, <2>3, <2>4, <2>5, <2>6, <2>7, <2>8, <2>9, <2>10, <2>11, <2>12, <2>13, <2>14, <2>15, <2>16, <2>17, <2>18, <2>19, <2>20, <2>21, <2>22, <2>23, <2>24, <2>25, <2>26, <2>27, <2>28, <2>29, <2>30, <2>31, <2>32, <2>33, OfferedAssumption
    DEF Next, HandlerStep, WorkerStep, ObserverStep, Shutdown
<1> QED
  BY <1>1, <1>2, PTL DEF Spec

-----------------------------------------------------------------------------
(* Runtime calls.                                                           *)

\* A project that a runtime call may leave with containers is that of an
\* installed app with a revision.
LEMMA CallHasApp ==
    ASSUME Inv, NEW r \in Reqs, worker[r] = "calling",
           kind[r] = "update" => target[r] \in revRow,
           project[ProjectOf(r)] # "none" \/ kind[r] \in {"install", "update"}
    PROVE  /\ Installed(ProjectOf(r))
           /\ \A a \in Reqs : appRow[a] # Absent /\ cat[a] = ProjectOf(r) => a \in revRow
<1>1. target[r] \in Reqs /\ ProjectOf(r) \in Catalog
  BY DEF Inv, TypeOK, RequestInv, ProjectOf
<1>2. CASE kind[r] \in {"install", "update"}
  <2>1. target[r] \in revRow
    BY <1>2 DEF Inv, RequestInv, WorkerInv, WorkerOK, Engaged
  <2> QED
    BY <1>1, <2>1 DEF Inv, StoreInv, ProjectOf, Installed
<1>3. CASE project[ProjectOf(r)] # "none"
  BY <1>1, <1>3 DEF Inv, NoOrphanContainers, ContainersHaveRevision
<1> QED
  BY <1>2, <1>3

\* No other worker can give containers back to a project that an uninstall has
\* just emptied and whose app it is about to delete.
LEMMA DeletingIsAlone ==
    ASSUME Inv, NEW r \in Reqs, worker[r] = "calling",
           kind[r] \in {"install", "update"},
           kind[r] = "update" => target[r] \in revRow,
           NEW u \in Reqs, worker[u] = "deleting", appRow[target[u]] # Absent
    PROVE  ProjectOf(u) # ProjectOf(r)
<1> SUFFICES ASSUME ProjectOf(u) = ProjectOf(r) PROVE FALSE
  OBVIOUS
<1>1. target[r] \in Reqs /\ target[u] \in Reqs
  BY DEF Inv, TypeOK
<1>2. target[r] \in revRow
  BY DEF Inv, RequestInv, WorkerInv, WorkerOK, Engaged
<1>3. target[r] = target[u]
  BY <1>1, <1>2 DEF Inv, StoreInv, ProjectOf
<1>4. opRow[r] \in Active /\ opRow[u] \in Active
  BY <1>2, <1>3 DEF Inv, StoreInv, WorkerInv, WorkerOK, Engaged
<1> QED
  BY <1>3, <1>4 DEF Inv, StoreInv

\* A runtime call that leaves its project in state s.
LEMMA CallEffect ==
    ASSUME Inv, NEW r \in Reqs, worker[r] = "calling",
           kind[r] = "update" => target[r] \in revRow,
           NEW s \in Projects,
           project[ProjectOf(r)] = "none" /\ kind[r] \notin {"install", "update"} => s = "none",
           project' = [project EXCEPT ![ProjectOf(r)] = s],
           UNCHANGED <<store, req>>
    PROVE  /\ NoOrphanContainers'
           /\ ContainersHaveRevision'
           /\ \A u \in Reqs : worker[u] = "deleting" =>
                (project[ProjectOf(u)] = "none" \/ appRow[target[u]] = Absent)'
<1>1. ASSUME NEW c \in Catalog
      PROVE  project'[c] = IF c = ProjectOf(r) THEN s ELSE project[c]
  BY DEF Inv, TypeOK
<1>2. NoOrphanContainers'
  BY <1>1, CallHasApp DEF Inv, NoOrphanContainers, Installed, store, req
<1>3. ContainersHaveRevision'
  <2> SUFFICES ASSUME NEW a \in Reqs, appRow[a] # Absent, project'[cat[a]] # "none"
               PROVE  a \in revRow
    BY DEF ContainersHaveRevision, store, req
  <2>1. cat[a] \in Catalog
    BY DEF Inv, RequestInv
  <2> QED
    BY <1>1, <2>1, CallHasApp DEF Inv, ContainersHaveRevision
<1>4. ASSUME NEW u \in Reqs, worker[u] = "deleting"
      PROVE  (project[ProjectOf(u)] = "none" \/ appRow[target[u]] = Absent)'
  <2> SUFFICES ASSUME appRow[target[u]] # Absent PROVE project'[ProjectOf(u)] = "none"
    BY DEF ProjectOf, store, req
  <2>1. project[ProjectOf(u)] = "none" /\ ProjectOf(u) \in Catalog
    BY <1>4 DEF Inv, TypeOK, WorkerInv, WorkerOK, RequestInv, ProjectOf
  <2> QED
    BY <1>1, <1>4, <2>1, DeletingIsAlone
<1> QED
  BY <1>2, <1>3, <1>4

\* A successful Compose command.
LEMMA RuntimeSucceedsInv ==
    ASSUME Inv, TypeOK', NEW r \in Reqs, RuntimeSucceeds(r)
    PROVE  Inv'
<1> USE DEF Inv, RuntimeSucceeds, store, req
<1>1. PICK s \in ComposeResult(kind[r], project[ProjectOf(r)]) :
        project' = [project EXCEPT ![ProjectOf(r)] = s]
  OBVIOUS
<1>2. /\ s \in Projects
      /\ project[ProjectOf(r)] = "none" /\ kind[r] \notin {"install", "update"} => s = "none"
      /\ kind[r] = "uninstall" => s = "none"
  BY <1>1, ComposeResultType
<1>3. /\ NoOrphanContainers'
      /\ ContainersHaveRevision'
      /\ \A u \in Reqs : worker[u] = "deleting" =>
           (project[ProjectOf(u)] = "none" \/ appRow[target[u]] = Absent)'
  BY <1>1, <1>2, CallEffect
<1>4. /\ \A u \in Reqs : u # r => worker'[u] = worker[u]
      /\ worker'[r] = CASE kind[r] = "uninstall" -> "deleting"
                        [] kind[r] = "update"    -> "applying"
                        [] OTHER                 -> "succeeded"
  BY DEF TypeOK, Goto
<1>5. RequestInv' /\ FreshInv'
  BY <1>4 DEF RequestInv, FreshInv
<1>6. StoreInv' /\ RevisionInv'
  BY DEF StoreInv, RevisionInv
<1>7. kind[r] = "uninstall" => project'[ProjectOf(r)] = "none"
  BY <1>1, <1>2 DEF TypeOK, RequestInv, ProjectOf
<1>8. WorkerInv'
  <2> SUFFICES ASSUME NEW u \in Reqs PROVE WorkerOK(u)'
    BY DEF WorkerInv
  <2>1. CASE u = r
    <3>1. opRow[r] \in Active \/ appRow[target[r]] = Absent
      BY DEF WorkerInv, WorkerOK, Engaged
    <3>2. opRow[r] \in Active \cup {Absent}
      BY <3>1 DEF StoreInv, Absent
    <3> QED
      BY <1>4, <1>7, <2>1, <3>1, <3>2 DEF WorkerInv, WorkerOK, Engaged, ProjectOf
  <2>2. CASE u # r
    BY <1>3, <1>4, <2>2 DEF WorkerInv, WorkerOK, Engaged, ProjectOf
  <2> QED
    BY <2>1, <2>2
<1> QED
  BY <1>3, <1>5, <1>6, <1>8

\* A failed, killed or panicking Compose command.
LEMMA RuntimeFailsInv ==
    ASSUME Inv, TypeOK', NEW r \in Reqs, RuntimeFails(r)
    PROVE  Inv'
<1> USE DEF Inv, RuntimeFails, store, req
<1>1. /\ NoOrphanContainers'
      /\ ContainersHaveRevision'
      /\ \A u \in Reqs : worker[u] = "deleting" =>
           (project[ProjectOf(u)] = "none" \/ appRow[target[u]] = Absent)'
  <2>1. CASE kind[r] = "update" /\ target[r] \notin revRow
    BY <2>1 DEF NoOrphanContainers, ContainersHaveRevision, Installed, WorkerInv, WorkerOK, ProjectOf
  <2>2. CASE ~(kind[r] = "update" /\ target[r] \notin revRow)
    <3>1. PICK s \in ComposeWreck(kind[r], project[ProjectOf(r)]) :
            project' = [project EXCEPT ![ProjectOf(r)] = s]
      BY <2>2
    <3>2. /\ s \in Projects
          /\ project[ProjectOf(r)] = "none" /\ kind[r] \notin {"install", "update"} => s = "none"
      BY <3>1, ComposeWreckType
    <3> QED
      BY <2>2, <3>1, <3>2, CallEffect
  <2> QED
    BY <2>1, <2>2
<1>2. /\ \A u \in Reqs : u # r => worker'[u] = worker[u]
      /\ worker'[r] \in {"failed", "canceled"}
  BY AfterErrorType DEF TypeOK, Goto
<1>3. RequestInv' /\ FreshInv'
  BY <1>2 DEF RequestInv, FreshInv
<1>4. StoreInv' /\ RevisionInv'
  BY DEF StoreInv, RevisionInv
<1>5. WorkerInv'
  <2> SUFFICES ASSUME NEW u \in Reqs PROVE WorkerOK(u)'
    BY DEF WorkerInv
  <2>1. CASE u = r
    <3>1. opRow[r] \in Active \/ appRow[target[r]] = Absent
      BY DEF WorkerInv, WorkerOK, Engaged
    <3>2. opRow[r] \in Active \cup {Absent}
      BY <3>1 DEF StoreInv, Absent
    <3> QED
      BY <1>2, <2>1, <3>2 DEF WorkerOK, Engaged
  <2>2. CASE u # r
    BY <1>1, <1>2, <2>2 DEF WorkerInv, WorkerOK, Engaged, ProjectOf
  <2> QED
    BY <2>1, <2>2
<1> QED
  BY <1>1, <1>3, <1>4, <1>5

-----------------------------------------------------------------------------
(* Handler, worker and recovery steps.  Each lemma groups the conjuncts the *)
(* action cannot disturb and proves the others one by one.                  *)

\* A request becomes an install: it has no rows yet.
LEMMA PlanInstallInv ==
    ASSUME Inv, TypeOK', NEW r \in Reqs, NEW c \in Catalog, PlanInstall(r, c)
    PROVE  Inv'
<1> USE DEF Inv, PlanInstall, store, req, work, life, obs,
            TypeOK, AppStatus, Active, Settled, Kinds, Projects, Counted, Live, InFlight, Absent
<1>1. FreshInv'
  BY DEF FreshInv
<1>2. RevisionInv'
  BY DEF RevisionInv
<1>3. RequestInv'
  BY DEF RequestInv, FreshInv
<1>4. StoreInv'
  BY DEF RequestInv, StoreInv
<1>5. WorkerInv'
  BY DEF RequestInv, WorkerInv, WorkerOK, Engaged, ProjectOf
<1>6. NoOrphanContainers'
  BY DEF RequestInv, NoOrphanContainers, Installed
<1>7. ContainersHaveRevision'
  BY DEF RequestInv, ContainersHaveRevision
<1> QED
  BY <1>1, <1>2, <1>3, <1>4, <1>5, <1>6, <1>7

\* A new app row takes a catalog id nobody else holds and whose project is empty.
LEMMA CreateAppInstanceInv ==
    ASSUME Inv, TypeOK', NEW r \in Reqs, CreateAppInstance(r)
    PROVE  Inv'
<1> USE DEF Inv, CreateAppInstance, Reject, Return, Drop, store, req, work, life, obs,
            TypeOK, AppStatus, Active, Settled, Kinds, Projects, Counted, Live, InFlight, Absent
<1>1. RequestInv' /\ FreshInv'
  BY DEF RequestInv, FreshInv
<1>2. NoOrphanContainers'
  BY DEF NoOrphanContainers, Installed
<1>3. StoreInv'
  BY DEF RequestInv, FreshInv, StoreInv, Installed
<1>4. RevisionInv'
  BY DEF RequestInv, FreshInv, StoreInv, RevisionInv
<1>5. WorkerInv'
  BY DEF RequestInv, FreshInv, WorkerInv, WorkerOK, Engaged, ProjectOf
<1>6. ContainersHaveRevision'
  BY DEF RequestInv, FreshInv, StoreInv, RevisionInv, WorkerInv, WorkerOK, Engaged, ProjectOf, NoOrphanContainers, Installed, ContainersHaveRevision
<1> QED
  BY <1>1, <1>2, <1>3, <1>4, <1>5, <1>6

\* Inserting the revision, or going to the rollback without one.
LEMMA CreateRevisionInv ==
    ASSUME Inv, TypeOK', NEW r \in Reqs, CreateRevision(r)
    PROVE  Inv'
<1> USE DEF Inv, CreateRevision, AfterRevisionError, store, req, work, life, obs,
            TypeOK, AppStatus, Active, Settled, Kinds, Projects, Counted, Live, InFlight, Absent
<1>1. RequestInv' /\ FreshInv'
  BY DEF RequestInv, FreshInv
<1>2. StoreInv' /\ RevisionInv'
  BY DEF StoreInv, RevisionInv
<1>3. WorkerInv'
  BY DEF WorkerInv, WorkerOK, Engaged, ProjectOf
<1>4. NoOrphanContainers' /\ ContainersHaveRevision'
  BY DEF NoOrphanContainers, Installed, ContainersHaveRevision
<1> QED
  BY <1>1, <1>2, <1>3, <1>4

\* The rollback deletes an app that has no revision, hence no containers.
LEMMA RollbackInstallInv ==
    ASSUME Inv, TypeOK', NEW r \in Reqs, RollbackInstall(r)
    PROVE  Inv'
<1> USE DEF Inv, RollbackInstall, Return, DeleteAppInstance, store, req, work, life, obs,
            TypeOK, AppStatus, Active, Settled, Kinds, Projects, Counted, Live, InFlight, Absent
<1>1. RequestInv' /\ FreshInv'
  BY DEF RequestInv, FreshInv
<1>2. StoreInv'
  BY DEF StoreInv
<1>3. RevisionInv'
  BY DEF RevisionInv
<1>4. ContainersHaveRevision'
  BY DEF ContainersHaveRevision
<1>5. WorkerInv'
  BY DEF RequestInv, WorkerInv, WorkerOK, Engaged, ProjectOf
<1>6. NoOrphanContainers'
  BY DEF RequestInv, FreshInv, StoreInv, RevisionInv, WorkerInv, WorkerOK, Engaged, ProjectOf, NoOrphanContainers, Installed, ContainersHaveRevision
<1> QED
  BY <1>1, <1>2, <1>3, <1>4, <1>5, <1>6

\* A request attaches itself to an app that exists.
LEMMA LoadInstanceInv ==
    ASSUME Inv, TypeOK', NEW r \in Reqs, NEW k \in Kinds \ {"install"}, NEW a \in Reqs,
           LoadInstance(r, k, a)
    PROVE  Inv'
<1> USE DEF Inv, LoadInstance, store, req, work, life, obs,
            TypeOK, AppStatus, Active, Settled, Kinds, Projects, Counted, Live, InFlight, Absent
<1>1. RequestInv' /\ FreshInv'
  BY DEF RequestInv, FreshInv
<1>2. RevisionInv'
  BY DEF RevisionInv
<1>3. NoOrphanContainers' /\ ContainersHaveRevision'
  BY DEF NoOrphanContainers, Installed, ContainersHaveRevision
<1>4. StoreInv'
  BY DEF RequestInv, StoreInv
<1>5. WorkerInv'
  BY DEF RequestInv, WorkerInv, WorkerOK, Engaged, ProjectOf
<1> QED
  BY <1>1, <1>2, <1>3, <1>4, <1>5

\* The early check changes no row.
LEMMA CheckActiveInv ==
    ASSUME Inv, TypeOK', NEW r \in Reqs, CheckActive(r)
    PROVE  Inv'
<1> USE DEF Inv, CheckActive, Reject, Return, Drop, store, req, work, life, obs,
            TypeOK, AppStatus, Active, Settled, Kinds, Projects, Counted, Live, InFlight, Absent
<1>1. RequestInv' /\ FreshInv'
  BY DEF RequestInv, FreshInv
<1>2. StoreInv' /\ RevisionInv'
  BY DEF StoreInv, RevisionInv
<1>3. WorkerInv'
  BY DEF WorkerInv, WorkerOK, Engaged, ProjectOf
<1>4. NoOrphanContainers' /\ ContainersHaveRevision'
  BY DEF NoOrphanContainers, Installed, ContainersHaveRevision
<1> QED
  BY <1>1, <1>2, <1>3, <1>4

\* A refused update changes no row.
LEMMA RefuseUpdateInv ==
    ASSUME Inv, TypeOK', NEW r \in Reqs, RefuseUpdate(r)
    PROVE  Inv'
<1> USE DEF Inv, RefuseUpdate, Reject, Return, Drop, store, req, work, life, obs,
            TypeOK, AppStatus, Active, Settled, Kinds, Projects, Counted, Live, InFlight, Absent
<1>1. RequestInv' /\ FreshInv'
  BY DEF RequestInv, FreshInv
<1>2. StoreInv' /\ RevisionInv'
  BY DEF StoreInv, RevisionInv
<1>3. WorkerInv'
  BY DEF WorkerInv, WorkerOK, Engaged, ProjectOf
<1>4. NoOrphanContainers' /\ ContainersHaveRevision'
  BY DEF NoOrphanContainers, Installed, ContainersHaveRevision
<1> QED
  BY <1>1, <1>2, <1>3, <1>4

\* An accepted operation is the only active one of its app.
LEMMA CreateOperationInv ==
    ASSUME Inv, TypeOK', NEW r \in Reqs, CreateOperation(r)
    PROVE  Inv'
<1> USE DEF Inv, CreateOperation, Reject, Return, Drop, CanInsertOperation, HasActive, store, req, work, life, obs,
            TypeOK, AppStatus, Active, Settled, Kinds, Projects, Counted, Live, InFlight, Absent
<1>1. RequestInv' /\ FreshInv'
  BY DEF RequestInv, FreshInv
<1>2. StoreInv' /\ RevisionInv'
  BY DEF StoreInv, RevisionInv
<1>3. NoOrphanContainers' /\ ContainersHaveRevision'
  BY DEF NoOrphanContainers, Installed, ContainersHaveRevision
<1>4. WorkerInv'
  BY DEF RequestInv, FreshInv, StoreInv, RevisionInv, WorkerInv, WorkerOK, Engaged, ProjectOf
<1> QED
  BY <1>1, <1>2, <1>3, <1>4

\* A worker registers with the wait group.
LEMMA RegisterInv ==
    ASSUME Inv, TypeOK', NEW r \in Reqs, Register(r)
    PROVE  Inv'
<1> USE DEF Inv, Register, Goto, store, req, work, life, obs,
            TypeOK, AppStatus, Active, Settled, Kinds, Projects, Counted, Live, InFlight, Absent
<1>1. RequestInv' /\ FreshInv'
  BY DEF RequestInv, FreshInv
<1>2. StoreInv' /\ RevisionInv'
  BY DEF StoreInv, RevisionInv
<1>3. WorkerInv'
  BY DEF WorkerInv, WorkerOK, Engaged, ProjectOf
<1>4. NoOrphanContainers' /\ ContainersHaveRevision'
  BY DEF NoOrphanContainers, Installed, ContainersHaveRevision
<1> QED
  BY <1>1, <1>2, <1>3, <1>4

\* A worker marks its operation running.
LEMMA BeginOperationInv ==
    ASSUME Inv, TypeOK', NEW r \in Reqs, BeginOperation(r)
    PROVE  Inv'
<1> USE DEF Inv, BeginOperation, Goto, UpdateOperation, store, req, work, life, obs,
            TypeOK, AppStatus, Active, Settled, Kinds, Projects, Counted, Live, InFlight, Absent
<1>1. RequestInv' /\ FreshInv'
  BY DEF RequestInv, FreshInv
<1>2. RevisionInv'
  BY DEF RevisionInv
<1>3. WorkerInv'
  BY DEF WorkerInv, WorkerOK, Engaged, ProjectOf
<1>4. NoOrphanContainers' /\ ContainersHaveRevision'
  BY DEF NoOrphanContainers, Installed, ContainersHaveRevision
<1>5. StoreInv'
  BY DEF RequestInv, FreshInv, StoreInv, RevisionInv, WorkerInv, WorkerOK, Engaged
<1> QED
  BY <1>1, <1>2, <1>3, <1>4, <1>5

\* An uninstall deletes an app whose project it has emptied.
LEMMA DeleteAfterUninstallInv ==
    ASSUME Inv, TypeOK', NEW r \in Reqs, DeleteAfterUninstall(r)
    PROVE  Inv'
<1> USE DEF Inv, DeleteAfterUninstall, Goto, DeleteAppInstance, store, req, work, life, obs,
            TypeOK, AppStatus, Active, Settled, Kinds, Projects, Counted, Live, InFlight, Absent
<1>1. RequestInv' /\ FreshInv'
  BY DEF RequestInv, FreshInv
<1>2. StoreInv'
  BY DEF StoreInv
<1>3. RevisionInv'
  BY DEF RevisionInv
<1>4. ContainersHaveRevision'
  BY DEF ContainersHaveRevision
<1>5. WorkerInv'
  BY DEF RequestInv, FreshInv, StoreInv, WorkerInv, WorkerOK, Engaged, ProjectOf
<1>6. NoOrphanContainers'
  BY DEF RequestInv, FreshInv, StoreInv, RevisionInv, WorkerInv, WorkerOK, Engaged, ProjectOf, NoOrphanContainers, Installed, ContainersHaveRevision
<1> QED
  BY <1>1, <1>2, <1>3, <1>4, <1>5, <1>6

\* A worker marks its operation completed.
LEMMA CompleteInv ==
    ASSUME Inv, TypeOK', NEW r \in Reqs, Complete(r)
    PROVE  Inv'
<1> USE DEF Inv, Complete, Goto, UpdateOperation, store, req, work, life, obs,
            TypeOK, AppStatus, Active, Settled, Kinds, Projects, Counted, Live, InFlight, Absent
<1>1. RequestInv' /\ FreshInv'
  BY DEF RequestInv, FreshInv
<1>2. StoreInv' /\ RevisionInv'
  BY DEF StoreInv, RevisionInv
<1>3. WorkerInv'
  BY DEF WorkerInv, WorkerOK, Engaged, ProjectOf
<1>4. NoOrphanContainers' /\ ContainersHaveRevision'
  BY DEF NoOrphanContainers, Installed, ContainersHaveRevision
<1> QED
  BY <1>1, <1>2, <1>3, <1>4

\* A worker marks its operation failed or cancelled.
LEMMA FailInv ==
    ASSUME Inv, TypeOK', NEW r \in Reqs, Fail(r)
    PROVE  Inv'
<1> USE DEF Inv, Fail, Goto, Drop, UpdateOperation, FailureStatus, store, req, work, life, obs,
            TypeOK, AppStatus, Active, Settled, Kinds, Projects, Counted, Live, InFlight, Absent
<1>1. RequestInv' /\ FreshInv'
  BY DEF RequestInv, FreshInv
<1>2. StoreInv' /\ RevisionInv'
  BY DEF StoreInv, RevisionInv
<1>3. WorkerInv'
  BY DEF WorkerInv, WorkerOK, Engaged, ProjectOf
<1>4. NoOrphanContainers' /\ ContainersHaveRevision'
  BY DEF NoOrphanContainers, Installed, ContainersHaveRevision
<1> QED
  BY <1>1, <1>2, <1>3, <1>4

\* Recovery settles active operations; no worker survives to rely on them.
LEMMA StartInv ==
    ASSUME Inv, TypeOK', Start
    PROVE  Inv'
<1> USE DEF Inv, Start, Forget, Recovered, store, req, work, life, obs,
            TypeOK, AppStatus, Active, Settled, Kinds, Projects, Counted, Live, InFlight, Absent
<1>1. RequestInv' /\ FreshInv'
  BY DEF RequestInv, FreshInv
<1>2. StoreInv' /\ RevisionInv'
  BY DEF StoreInv, RevisionInv
<1>3. WorkerInv'
  BY DEF WorkerInv, WorkerOK, Engaged, ProjectOf
<1>4. NoOrphanContainers' /\ ContainersHaveRevision'
  BY DEF NoOrphanContainers, Installed, ContainersHaveRevision
<1> QED
  BY <1>1, <1>2, <1>3, <1>4

\* The transaction of an update writes the rows of its own app or fails.
LEMMA ApplySuccessfulUpdateInv ==
    ASSUME Inv, TypeOK', NEW r \in Reqs, ApplySuccessfulUpdate(r)
    PROVE  Inv'
<1> USE DEF Inv, store, req, work, life, obs
<1>1. /\ UNCHANGED <<opRow, project, kind, target, cat, pc>>
      /\ worker[r] = "applying"
  BY DEF ApplySuccessfulUpdate
<1>2. \E w \in {"succeeded", "failed", "canceled"} : worker' = [worker EXCEPT ![r] = w]
  BY AfterErrorType DEF ApplySuccessfulUpdate, Goto
<1>3. /\ revRow' = revRow
      /\ \A a \in Reqs : appRow'[a] = Absent <=> appRow[a] = Absent
  <2>1. CASE /\ appRow[target[r]] # Absent
             /\ appRow' = [appRow EXCEPT ![target[r]] = "running"]
             /\ revRow' = revRow \cup {target[r]}
    BY <1>1, <2>1 DEF TypeOK, WorkerInv, WorkerOK, Absent
  <2>2. CASE UNCHANGED <<appRow, revRow>>
    BY <2>2
  <2> QED
    BY <2>1, <2>2 DEF ApplySuccessfulUpdate
<1>4. opRow[r] \in Active \cup {Absent}
  BY <1>1 DEF WorkerInv, WorkerOK, Engaged, StoreInv
<1>5. RequestInv' /\ FreshInv'
  BY <1>1, <1>2, <1>3 DEF RequestInv, FreshInv, TypeOK
<1>6. StoreInv' /\ RevisionInv'
  BY <1>1, <1>3 DEF StoreInv, RevisionInv, TypeOK
<1>7. WorkerInv'
  BY <1>1, <1>2, <1>3, <1>4 DEF WorkerInv, WorkerOK, Engaged, ProjectOf, TypeOK
<1>8. NoOrphanContainers' /\ ContainersHaveRevision'
  BY <1>1, <1>3 DEF NoOrphanContainers, ContainersHaveRevision, Installed, TypeOK
<1> QED
  BY <1>5, <1>6, <1>7, <1>8

\* A crash cuts runtime calls anywhere; each of them had an app and a revision
\* to answer for its containers.
LEMMA CrashInv ==
    ASSUME Inv, TypeOK', Crash
    PROVE  Inv'
<1> USE DEF Inv, store, req
<1>1. /\ UNCHANGED <<appRow, opRow, revRow, kind, target, cat>>
      /\ pc' = [r \in Reqs |-> IF pc[r] \in InFlight THEN "cut" ELSE pc[r]]
      /\ worker' = [r \in Reqs |-> IF worker[r] \in Live THEN "lost" ELSE worker[r]]
  BY DEF Crash, Forget
<1>2. ASSUME NEW c \in Catalog, project'[c] # "none"
      PROVE  /\ Installed(c)
             /\ \A a \in Reqs : appRow[a] # Absent /\ cat[a] = c => a \in revRow
  <2>1. CASE project'[c] = project[c]
    BY <1>2, <2>1 DEF NoOrphanContainers, ContainersHaveRevision
  <2>2. CASE project'[c] # project[c]
    <3>1. PICK r \in Reqs : /\ worker[r] = "calling"
                            /\ ProjectOf(r) = c
                            /\ kind[r] = "update" => target[r] \in revRow
                            /\ project'[c] \in ComposeWreck(kind[r], project[c])
      BY <2>2 DEF Crash
    <3>2. project[c] # "none" \/ kind[r] \in {"install", "update"}
      BY <1>2, <3>1, ComposeWreckType
    <3> QED
      BY <3>1, <3>2, CallHasApp
  <2> QED
    BY <2>1, <2>2
<1>3. RequestInv' /\ FreshInv'
  BY <1>1 DEF RequestInv, FreshInv, TypeOK, InFlight, Live, Counted
<1>4. StoreInv' /\ RevisionInv'
  BY <1>1 DEF StoreInv, RevisionInv, TypeOK, InFlight
<1>5. WorkerInv'
  BY <1>1 DEF WorkerInv, WorkerOK, Engaged, Live, Counted
<1>6. NoOrphanContainers'
  BY <1>1, <1>2 DEF NoOrphanContainers, Installed
<1>7. ContainersHaveRevision'
  BY <1>1, <1>2 DEF ContainersHaveRevision, RequestInv
<1> QED
  BY <1>3, <1>4, <1>5, <1>6, <1>7

\* Steps that only move a worker after its operation is settled, write a
\* status into an existing row, or change what the invariant does not mention.
LEMMA FrameInv ==
    ASSUME Inv, TypeOK',
           UNCHANGED <<opRow, revRow, project, kind, target, cat, pc>>,
           \A r \in Reqs : appRow'[r] = Absent <=> appRow[r] = Absent,
           \A r \in Reqs :
               \/ worker'[r] = worker[r]
               \/ /\ worker[r] \in {"completed", "recorded", "observed", "errored"}
                  /\ worker'[r] \in {"recorded", "observed", "finished"}
    PROVE  Inv'
<1> USE DEF Inv
<1>1. RequestInv' /\ FreshInv'
  BY DEF RequestInv, FreshInv
<1>2. StoreInv' /\ RevisionInv'
  BY DEF StoreInv, RevisionInv, TypeOK
<1>3. WorkerInv'
  BY DEF WorkerInv, WorkerOK, Engaged, ProjectOf, TypeOK
<1>4. NoOrphanContainers' /\ ContainersHaveRevision'
  BY DEF NoOrphanContainers, ContainersHaveRevision, Installed
<1> QED
  BY <1>1, <1>2, <1>3, <1>4

-----------------------------------------------------------------------------
(* The invariant holds.                                                     *)

\* The safety of the engine rests on this invariant: what each handler and
\* each worker may rely on between two of its store or runtime calls.
THEOREM Invariance == Spec => []Inv
<1>1. Init => Inv
  <2> SUFFICES ASSUME Init PROVE Inv
    OBVIOUS
  <2>1. RequestInv /\ FreshInv
    BY DEF Init, RequestInv, FreshInv, Absent
  <2>2. StoreInv /\ RevisionInv
    BY DEF Init, StoreInv, RevisionInv, Active, Absent
  <2>3. WorkerInv
    BY DEF Init, WorkerInv, WorkerOK, Engaged
  <2>4. NoOrphanContainers /\ ContainersHaveRevision
    BY DEF Init, NoOrphanContainers, ContainersHaveRevision
  <2> QED
    BY <2>1, <2>2, <2>3, <2>4, InitType DEF Inv
<1>2. Inv /\ TypeOK' /\ [Next]_vars => Inv'
  <2> SUFFICES ASSUME Inv, TypeOK', [Next]_vars PROVE Inv'
    OBVIOUS
  <2>1. ASSUME NEW r \in Reqs, HandlerStep(r) PROVE Inv'
    BY <2>1, CreateAppInstanceInv, CreateRevisionInv, RollbackInstallInv, CheckActiveInv,
       RefuseUpdateInv, CreateOperationInv DEF HandlerStep
  <2>2. ASSUME NEW r \in Reqs, WorkerStep(r) PROVE Inv'
    <3> USE DEF Inv, TypeOK, Goto, UpdateAppInstanceStatus, SuccessStatus, Absent, AppStatus,
                store, req, work, life, obs
    <3>1. CASE RecordError(r)
      BY <3>1, FrameInv DEF RecordError
    <3>2. CASE RecordStatus(r)
      BY <3>2, FrameInv DEF RecordStatus
    <3>3. CASE ObserveAfter(r)
      BY <3>3, FrameInv DEF ObserveAfter
    <3>4. CASE StoreObserved(r)
      BY <3>4, FrameInv DEF StoreObserved
    <3> HIDE DEF Inv, TypeOK, Goto
    <3> QED
      BY <2>2, <3>1, <3>2, <3>3, <3>4, RegisterInv, BeginOperationInv, RuntimeSucceedsInv,
         RuntimeFailsInv, DeleteAfterUninstallInv, ApplySuccessfulUpdateInv, CompleteInv, FailInv
      DEF WorkerStep
  <2>3. ASSUME NEW r \in Reqs, Disconnect(r) \/ Expire(r) PROVE Inv'
    BY <2>3, FrameInv DEF Disconnect, Expire, store, req, work, life, obs
  <2>4. ASSUME NEW o \in Observers, NEW a \in Reqs, ObserverLoad(o, a) PROVE Inv'
    BY <2>4, FrameInv DEF ObserverLoad, store, req, work
  <2>5. ASSUME NEW o \in Observers, ObserverStep(o) PROVE Inv'
    <3>1. CASE ObserverStore(o)
      <4>1. obsMem[o] # Absent
        BY DEF Inv, TypeOK, AppStatus, Absent
      <4>2. \A a \in Reqs : appRow'[a] = Absent <=> appRow[a] = Absent
        BY <3>1, <4>1 DEF ObserverStore, UpdateAppInstanceStatus, Inv, TypeOK
      <4> QED
        BY <3>1, <4>2, FrameInv DEF ObserverStore, store, req, work
    <3>2. CASE ObserverAsk(o) \/ ObserverGiveUp(o)
      BY <3>2, FrameInv DEF ObserverAsk, ObserverGiveUp, store, req, work
    <3> QED
      BY <2>5, <3>1, <3>2 DEF ObserverStep
  <2>6. ASSUME Signal \/ Shutdown PROVE Inv'
    BY <2>6, FrameInv
    DEF Signal, Shutdown, BeginShutdown, ShutdownReturns, WaitReturns, store, req, work
  <2>7. ASSUME UNCHANGED vars PROVE Inv'
    BY <2>7, FrameInv DEF vars, store, req, work
  <2> QED
    BY <2>1, <2>2, <2>3, <2>4, <2>5, <2>6, <2>7, PlanInstallInv, LoadInstanceInv, CrashInv,
       StartInv, OfferedAssumption DEF Next
<1> QED
  BY <1>1, <1>2, TypeCorrect, PTL DEF Spec

\* Containers always belong to an app the database knows.
THEOREM NoOrphans == Spec => []NoOrphanContainers
BY Invariance, PTL DEF Inv

\* An app that has containers has a revision.
THEOREM RevisionForContainers == Spec => []ContainersHaveRevision
BY Invariance, PTL DEF Inv

-----------------------------------------------------------------------------
(* The operations table implements the operation log.                       *)

\* What a client that polls operation r sees.
LEMMA LogViewOf ==
    ASSUME Inv, NEW r \in Reqs
    PROVE  /\ opRow[r] # Absent => LogView[r] = opRow[r]
           /\ worker[r] = "none" => LogView[r] = "unborn"
           /\ opRow[r] = Absent /\ worker[r] # "none" => LogView[r] = "removed"
           /\ LogView[r] \in Active \cup Settled \cup {"unborn", "removed"}
           /\ LogView[r] = "unborn" <=> worker[r] = "none"
BY DEF LogView, Inv, TypeOK, RequestInv, Absent, Active, Settled

\* A step that keeps the rows, the targets and who was accepted is invisible.
LEMMA LogUnchanged ==
    ASSUME UNCHANGED <<opRow, target>>,
           \A r \in Reqs : worker'[r] = "none" <=> worker[r] = "none"
    PROVE  UNCHANGED Log!logVars
BY DEF LogView, Log!logVars

\* An accepted operation appears in the log, alone among the open ones of its
\* app.
LEMMA CreateOperationLogs ==
    ASSUME Inv, NEW r \in Reqs, CreateOperation(r)
    PROVE  Log!LogNext \/ UNCHANGED Log!logVars
<1>1. UNCHANGED target
  BY DEF CreateOperation, req
<1>2. CASE /\ CanInsertOperation(r)
           /\ opRow' = [opRow EXCEPT ![r] = "pending"]
           /\ \E w \in {"spawned", "registered"} : worker' = [worker EXCEPT ![r] = w]
  <2>1. worker[r] = "none" /\ LogView[r] = "unborn"
    BY LogViewOf DEF CreateOperation, Inv, RequestInv
  <2>2. LogView' = [LogView EXCEPT ![r] = "pending"]
    <3>1. ASSUME NEW q \in Reqs
          PROVE  LogView'[q] = IF q = r THEN "pending" ELSE LogView[q]
      BY <1>2, <2>1 DEF LogView, Inv, TypeOK, Absent
    <3> QED
      BY <3>1 DEF LogView
  <2>3. ASSUME NEW q \in Reqs, target[q] = target[r] PROVE LogView[q] \notin Active
    <3>1. opRow[q] \notin Active
      BY <1>2, <2>3 DEF CanInsertOperation, HasActive
    <3> QED
      BY <3>1, LogViewOf DEF Active
  <2>4. Log!Accept(r)
    BY <1>1, <2>1, <2>2, <2>3 DEF Log!Accept, Log!Open, Active
  <2> QED
    BY <2>4 DEF Log!LogNext
<1>3. CASE UNCHANGED <<opRow, worker>>
  BY <1>1, <1>3, LogUnchanged
<1> QED
  BY <1>2, <1>3 DEF CreateOperation, Reject, store

\* A worker's write to its operation row.
LEMMA UpdateOperationLogs ==
    ASSUME Inv, NEW r \in Reqs, NEW ok \in BOOLEAN, NEW s,
           UpdateOperation(r, ok, s),
           \/ s = "running" /\ opRow[r] \in {"pending", Absent}
           \/ s \in Settled /\ opRow[r] \in Active \cup {Absent},
           worker[r] # "none",
           UNCHANGED target, NEW w, w # "none",
           worker' = [worker EXCEPT ![r] = w]
    PROVE  Log!LogNext \/ UNCHANGED Log!logVars
<1>1. \A q \in Reqs : worker'[q] = "none" <=> worker[q] = "none"
  BY DEF Inv, TypeOK
<1>2. CASE UNCHANGED opRow
  BY <1>1, <1>2, LogUnchanged
<1>3. CASE opRow[r] # Absent /\ opRow' = [opRow EXCEPT ![r] = s]
  <2>1. LogView[r] = opRow[r]
    BY <1>3, LogViewOf
  <2>2. LogView' = [LogView EXCEPT ![r] = s]
    <3>1. ASSUME NEW q \in Reqs
          PROVE  LogView'[q] = IF q = r THEN s ELSE LogView[q]
      BY <1>1, <1>3 DEF LogView, Inv, TypeOK, Absent, Settled
    <3> QED
      BY <3>1 DEF LogView
  <2>3. CASE s = "running" /\ opRow[r] = "pending"
    <3>1. Log!Begin(r)
      BY <2>1, <2>2, <2>3 DEF Log!Begin
    <3> QED
      BY <3>1 DEF Log!LogNext
  <2>4. CASE s \in Settled /\ opRow[r] \in Active
    <3>1. Log!Settle(r, s)
      BY <2>1, <2>2, <2>4 DEF Log!Settle, Log!Open, Active
    <3> QED
      BY <2>4, <3>1 DEF Log!LogNext, Log!Closed, Settled
  <2> QED
    BY <1>3, <2>3, <2>4 DEF Settled, Active, Absent
<1> QED
  BY <1>2, <1>3 DEF UpdateOperation

\* Deleting an app removes its operations from the log.
LEMMA DeleteLogs ==
    ASSUME Inv, NEW a \in Reqs, NEW ok, DeleteAppInstance(a, ok),
           UNCHANGED target,
           \A r \in Reqs : worker'[r] = "none" <=> worker[r] = "none"
    PROVE  Log!LogNext \/ UNCHANGED Log!logVars
<1>1. CASE opRow' = [q \in Reqs |-> IF target[q] = a THEN Absent ELSE opRow[q]]
  <2>1. LogView' = [q \in Reqs |-> IF target[q] = a /\ LogView[q] # "unborn"
                                    THEN "removed" ELSE LogView[q]]
    <3>1. ASSUME NEW q \in Reqs
          PROVE  LogView'[q] = IF target[q] = a /\ LogView[q] # "unborn"
                                 THEN "removed" ELSE LogView[q]
      BY <1>1, LogViewOf DEF LogView, Inv, RequestInv
    <3> QED
      BY <3>1 DEF LogView
  <2>2. Log!Remove(a)
    BY <2>1 DEF Log!Remove
  <2> QED
    BY <2>2 DEF Log!LogNext
<1>2. CASE UNCHANGED opRow
  BY <1>2, LogUnchanged
<1> QED
  BY <1>1, <1>2 DEF DeleteAppInstance, store

\* A restart interrupts what was open.
LEMMA StartLogs ==
    ASSUME Inv, Start
    PROVE  Log!LogNext \/ UNCHANGED Log!logVars
<1>1. /\ UNCHANGED target
      /\ \A r \in Reqs : worker'[r] = "none" <=> worker[r] = "none"
  BY DEF Start, Forget, req, Live, Counted
<1>2. CASE opRow' = [r \in Reqs |-> Recovered(opRow[r])]
  <2>1. LogView' = [q \in Reqs |-> IF LogView[q] \in Active THEN "failed" ELSE LogView[q]]
    <3>1. ASSUME NEW q \in Reqs
          PROVE  LogView'[q] = IF LogView[q] \in Active THEN "failed" ELSE LogView[q]
      BY <1>1, <1>2, LogViewOf DEF LogView, Recovered, Absent, Active
    <3> QED
      BY <3>1 DEF LogView
  <2>2. Log!Interrupt
    BY <1>1, <2>1 DEF Log!Interrupt, Log!Open, Active
  <2> QED
    BY <2>2 DEF Log!LogNext
<1>3. CASE UNCHANGED opRow
  BY <1>1, <1>3, LogUnchanged
<1> QED
  BY <1>2, <1>3 DEF Start, Inv, TypeOK

\* Every step of the engine is a step of the log, or invisible to it.
LEMMA LogStep ==
    ASSUME Inv, [Next]_vars
    PROVE  Log!LogNext \/ UNCHANGED Log!logVars
<1> USE DEF store, req, work
<1>1. ASSUME NEW r \in Reqs, NEW c \in Catalog, PlanInstall(r, c)
      PROVE  UNCHANGED Log!logVars
  BY <1>1, LogUnchanged DEF PlanInstall
<1>2. ASSUME NEW r \in Reqs, NEW k, NEW a \in Reqs, LoadInstance(r, k, a)
      PROVE  Log!LogNext
  <2>1. LogView[r] = "unborn"
    BY <1>2, LogViewOf DEF LoadInstance, Inv, RequestInv
  <2>2. Log!Address(r, a)
    BY <1>2, <2>1 DEF LoadInstance, Log!Address, LogView
  <2> QED
    BY <2>2 DEF Log!LogNext
<1>3. ASSUME NEW r \in Reqs, HandlerStep(r) PROVE Log!LogNext \/ UNCHANGED Log!logVars
  <2>1. CASE CreateAppInstance(r) \/ CreateRevision(r) \/ CheckActive(r) \/ RefuseUpdate(r)
    BY <2>1, LogUnchanged DEF CreateAppInstance, CreateRevision, CheckActive, RefuseUpdate, Reject
  <2>2. CASE RollbackInstall(r)
    BY <2>2, DeleteLogs DEF RollbackInstall
  <2> QED
    BY <1>3, <2>1, <2>2, CreateOperationLogs DEF HandlerStep
<1>4. ASSUME NEW r \in Reqs, WorkerStep(r) PROVE Log!LogNext \/ UNCHANGED Log!logVars
  <2>1. CASE BeginOperation(r)
    BY <2>1, UpdateOperationLogs DEF BeginOperation, Goto, Outcomes, Inv, WorkerInv, WorkerOK
  <2>2. CASE Complete(r)
    <3>1. PICK ok \in BOOLEAN : UpdateOperation(r, ok, "completed")
      BY <2>2 DEF Complete, Outcomes
    <3>2. PICK w \in {"completed", "finished"} : worker' = [worker EXCEPT ![r] = w]
      BY <2>2 DEF Complete, Goto
    <3> QED
      BY <2>2, <3>1, <3>2, UpdateOperationLogs DEF Complete, Settled, Inv, WorkerInv, WorkerOK
  <2>3. CASE Fail(r)
    <3>1. PICK ok \in BOOLEAN : UpdateOperation(r, ok, FailureStatus(worker[r]))
      BY <2>3 DEF Fail, Outcomes
    <3>2. PICK w \in {"errored", "finished"} : worker' = [worker EXCEPT ![r] = w]
      BY <2>3 DEF Fail, Goto
    <3>3. FailureStatus(worker[r]) \in Settled
      BY DEF FailureStatus, Settled
    <3> QED
      BY <2>3, <3>1, <3>2, <3>3, UpdateOperationLogs DEF Fail, Inv, WorkerInv, WorkerOK
  <2>4. CASE DeleteAfterUninstall(r)
    <3>1. \A q \in Reqs : worker'[q] = "none" <=> worker[q] = "none"
      BY <2>4 DEF DeleteAfterUninstall, Goto, Inv, TypeOK
    <3> QED
      BY <2>4, <3>1, DeleteLogs DEF DeleteAfterUninstall, Inv, TypeOK
  <2>5. CASE Register(r) \/ RecordError(r) \/ RecordStatus(r) \/ ObserveAfter(r) \/ StoreObserved(r)
    BY <2>5, LogUnchanged
    DEF Register, RecordError, RecordStatus, ObserveAfter, StoreObserved, Goto, Inv, TypeOK
  <2>6. CASE RuntimeSucceeds(r)
    BY <2>6, LogUnchanged DEF RuntimeSucceeds, Goto, Inv, TypeOK
  <2>7. CASE RuntimeFails(r) \/ ApplySuccessfulUpdate(r)
    <3>1. \E w \in {"failed", "canceled", "succeeded"} : worker' = [worker EXCEPT ![r] = w]
      BY <2>7, AfterErrorType DEF RuntimeFails, ApplySuccessfulUpdate, Goto
    <3>2. \A q \in Reqs : worker'[q] = "none" <=> worker[q] = "none"
      BY <2>7, <3>1 DEF RuntimeFails, ApplySuccessfulUpdate, Inv, TypeOK
    <3> QED
      BY <2>7, <3>2, LogUnchanged DEF RuntimeFails, ApplySuccessfulUpdate
  <2> QED
    BY <1>4, <2>1, <2>2, <2>3, <2>4, <2>5, <2>6, <2>7 DEF WorkerStep
<1>5. ASSUME NEW r \in Reqs, Disconnect(r) \/ Expire(r) PROVE UNCHANGED Log!logVars
  BY <1>5, LogUnchanged DEF Disconnect, Expire
<1>6. ASSUME NEW o \in Observers, ObserverStep(o) \/ \E a \in Reqs : ObserverLoad(o, a)
      PROVE  UNCHANGED Log!logVars
  BY <1>6, LogUnchanged DEF ObserverStep, ObserverLoad, ObserverAsk, ObserverStore, ObserverGiveUp
<1>7. ASSUME Signal \/ Shutdown \/ UNCHANGED vars PROVE UNCHANGED Log!logVars
  BY <1>7, LogUnchanged DEF Signal, Shutdown, BeginShutdown, ShutdownReturns, WaitReturns, vars
<1>8. ASSUME Crash PROVE UNCHANGED Log!logVars
  BY <1>8, LogUnchanged DEF Crash, Forget, Live, Counted
<1> QED
  BY <1>1, <1>2, <1>3, <1>4, <1>5, <1>6, <1>7, <1>8, StartLogs DEF Next

\* The engine implements the operation log.
THEOREM Refinement == Spec => ImplementsOperationLog
<1>1. Init => Log!LogInit
  BY DEF Init, Log!LogInit, LogView
<1>2. Inv /\ [Next]_vars => [Log!LogNext]_(Log!logVars)
  BY LogStep
<1> QED
  BY <1>1, <1>2, Invariance, PTL DEF Spec, ImplementsOperationLog, Log!LogSpec

\* A settled operation is never rewritten.
THEOREM SettledNeverChanges == Spec => SettledForever
<1>1. ASSUME Inv, Inv', [Next]_vars, NEW r \in Reqs, opRow[r] \in Settled
      PROVE  opRow'[r] \in {opRow[r], Absent}
  <2>1. LogView[r] = opRow[r]
    BY <1>1, LogViewOf DEF Settled, Absent
  <2>2. LogView'[r] \in {LogView[r], "removed"}
    <3>1. CASE UNCHANGED Log!logVars
      BY <3>1 DEF Log!logVars
    <3>2. CASE Log!LogNext
      <4>0. LogView = [q \in Reqs |-> LogView[q]]
        BY DEF LogView
      <4> USE <4>0 DEF Log!Open, Log!Closed, Settled
      <4>1. ASSUME NEW p \in Reqs, Log!Accept(p) PROVE LogView'[r] = LogView[r]
        BY <1>1, <2>1, <4>1 DEF Log!Accept
      <4>2. ASSUME NEW p \in Reqs, Log!Begin(p) PROVE LogView'[r] = LogView[r]
        BY <1>1, <2>1, <4>2 DEF Log!Begin
      <4>3. ASSUME NEW p \in Reqs, NEW s, Log!Settle(p, s) PROVE LogView'[r] = LogView[r]
        BY <1>1, <2>1, <4>3 DEF Log!Settle
      <4>4. ASSUME NEW p \in Reqs, NEW a, Log!Address(p, a) PROVE LogView'[r] = LogView[r]
        BY <4>4 DEF Log!Address
      <4>5. ASSUME NEW p \in Reqs, Log!Remove(p) PROVE LogView'[r] \in {LogView[r], "removed"}
        BY <4>5 DEF Log!Remove
      <4>6. ASSUME Log!Interrupt PROVE LogView'[r] = LogView[r]
        BY <1>1, <2>1, <4>6 DEF Log!Interrupt
      <4> HIDE DEF Log!Closed
      <4> QED
        BY <3>2, <4>1, <4>2, <4>3, <4>4, <4>5, <4>6 DEF Log!LogNext
    <3> QED
      BY <1>1, <3>1, <3>2, LogStep
  <2>3. opRow'[r] # Absent => LogView'[r] = opRow'[r]
    BY DEF LogView
  <2>4. opRow'[r] # "removed"
    BY <1>1 DEF Inv, TypeOK, Active, Settled, Absent
  <2> QED
    BY <2>1, <2>2, <2>3, <2>4
<1>2. Inv /\ Inv' /\ [Next]_vars
        => [\A r \in Reqs : opRow[r] \in Settled => opRow'[r] \in {opRow[r], Absent}]_vars
  BY <1>1
<1> QED
  BY <1>2, Invariance, PTL DEF Spec, SettledForever

-----------------------------------------------------------------------------
(* Exclusive runtime calls, when SQLite fails only for done contexts.       *)

\* Steps that disturb neither the row of an engaged worker nor a rollback.
LEMMA FaultFreeFrame ==
    ASSUME Inv, FaultFreeInv,
           UNCHANGED target,
           \A r \in Reqs : Engaged(r)' => Engaged(r) /\ opRow'[r] \in Active,
           \A r \in Reqs : pc'[r] = "rollback" =>
               /\ pc[r] = "rollback"
               /\ r \in gone => r \in gone'
               /\ appRow[r] = Absent => appRow'[r] = Absent
    PROVE  FaultFreeInv'
BY DEF FaultFreeInv

\* Every step keeps the row of every engaged worker active.
LEMMA FaultFreeStep ==
    ASSUME ~DbFaults, Inv, Inv', FaultFreeInv, [Next]_vars
    PROVE  FaultFreeInv'
<1> USE DEF FaultFreeInv, Engaged, store, req, work, life, obs
<1>1. ASSUME NEW r \in Reqs, NEW c \in Catalog, PlanInstall(r, c) PROVE FaultFreeInv'
  BY <1>1 DEF PlanInstall, Inv, TypeOK
<1>2. ASSUME NEW r \in Reqs, NEW k, NEW a \in Reqs, LoadInstance(r, k, a) PROVE FaultFreeInv'
  BY <1>2 DEF LoadInstance, Inv, TypeOK, RequestInv
<1>3. ASSUME NEW r \in Reqs, CreateAppInstance(r) PROVE FaultFreeInv'
  BY <1>3 DEF CreateAppInstance, Reject, Return, Drop, Inv, TypeOK
<1>4. ASSUME NEW r \in Reqs, CreateRevision(r) PROVE FaultFreeInv'
  <2>1. PICK ok \in Outcomes(r \in gone) :
          IF ok /\ appRow[r] # Absent
            THEN pc' = [pc EXCEPT ![r] = "revised"]
            ELSE pc' = [pc EXCEPT ![r] = "rollback"]
    BY <1>4 DEF CreateRevision, AfterRevisionError
  <2>2. ok \in BOOLEAN /\ (ok <=> r \notin gone)
    BY DEF Outcomes
  <2> QED
    BY <1>4, <2>1, <2>2 DEF CreateRevision, Inv, TypeOK
<1>5. ASSUME NEW r \in Reqs, RollbackInstall(r) PROVE FaultFreeInv'
  <2>1. PICK ok \in Outcomes(r \in gone) : DeleteAppInstance(r, ok)
    BY <1>5 DEF RollbackInstall
  <2>2. ok \in BOOLEAN /\ (ok <=> r \notin gone)
    BY DEF Outcomes
  <2>3. opRow' = opRow /\ \A a \in Reqs : appRow[a] = Absent => appRow'[a] = Absent
    <3>1. CASE ~ok
      BY <2>1, <3>1 DEF DeleteAppInstance
    <3>2. CASE ok
      <4>1. appRow[r] = Absent
        BY <1>5, <2>2, <3>2 DEF RollbackInstall
      <4>2. \A q \in Reqs : target[q] = r => opRow[q] = Absent
        BY <4>1 DEF Inv, StoreInv
      <4> QED
        BY <2>1, <3>2, <4>1, <4>2 DEF DeleteAppInstance, Inv, TypeOK
    <3> QED
      BY <2>2, <3>1, <3>2
  <2> QED
    BY <1>5, <2>3 DEF RollbackInstall, Return, Inv, TypeOK
<1>6. ASSUME NEW r \in Reqs, CheckActive(r) \/ RefuseUpdate(r) PROVE FaultFreeInv'
  BY <1>6 DEF CheckActive, RefuseUpdate, Reject, Return, Drop, Inv, TypeOK
<1>7. ASSUME NEW r \in Reqs, CreateOperation(r) PROVE FaultFreeInv'
  BY <1>7 DEF CreateOperation, Reject, Return, Drop, Inv, TypeOK, Active
<1>8. ASSUME NEW r \in Reqs, Register(r) PROVE FaultFreeInv'
  BY <1>8, FaultFreeFrame DEF Register, Goto, Inv, TypeOK
<1>9. ASSUME NEW r \in Reqs, BeginOperation(r) PROVE FaultFreeInv'
  BY <1>9, FaultFreeFrame DEF BeginOperation, Goto, UpdateOperation, Inv, TypeOK, Active
<1>10. ASSUME NEW r \in Reqs, RuntimeSucceeds(r) PROVE FaultFreeInv'
  BY <1>10, FaultFreeFrame DEF RuntimeSucceeds, Goto, Inv, TypeOK
<1>11. ASSUME NEW r \in Reqs, RuntimeFails(r) PROVE FaultFreeInv'
  BY <1>11, FaultFreeFrame, AfterErrorType DEF RuntimeFails, Goto, Inv, TypeOK
<1>12. ASSUME NEW r \in Reqs, DeleteAfterUninstall(r) PROVE FaultFreeInv'
  <2>1. \A q \in Reqs : Engaged(q) /\ q # r => target[q] # target[r]
    BY <1>12 DEF DeleteAfterUninstall, Inv, StoreInv
  <2> QED
    BY <1>12, <2>1, FaultFreeFrame
    DEF DeleteAfterUninstall, Goto, DeleteAppInstance, Inv, TypeOK
<1>13. ASSUME NEW r \in Reqs, ApplySuccessfulUpdate(r) PROVE FaultFreeInv'
  <2>1. \E w \in {"succeeded", "failed", "canceled"} : worker' = [worker EXCEPT ![r] = w]
    BY <1>13, AfterErrorType DEF ApplySuccessfulUpdate, Goto
  <2>2. \A a \in Reqs : appRow[a] = Absent => appRow'[a] = Absent
    BY <1>13 DEF ApplySuccessfulUpdate, Inv, TypeOK
  <2> QED
    BY <1>13, <2>1, <2>2, FaultFreeFrame DEF ApplySuccessfulUpdate, Inv, TypeOK
<1>14. ASSUME NEW r \in Reqs, Complete(r) \/ Fail(r) PROVE FaultFreeInv'
  BY <1>14, FaultFreeFrame DEF Complete, Fail, Goto, Drop, UpdateOperation, Inv, TypeOK
<1>15. ASSUME NEW r \in Reqs, RecordError(r) \/ RecordStatus(r) \/ StoreObserved(r)
       PROVE  FaultFreeInv'
  BY <1>15, FaultFreeFrame
  DEF RecordError, RecordStatus, StoreObserved, Goto, UpdateAppInstanceStatus, Inv, TypeOK
<1>16. ASSUME NEW r \in Reqs, ObserveAfter(r) \/ Disconnect(r) \/ Expire(r) PROVE FaultFreeInv'
  BY <1>16, FaultFreeFrame DEF ObserveAfter, Disconnect, Expire, Goto, Inv, TypeOK
<1>17. ASSUME NEW o \in Observers, ObserverStep(o) \/ \E a \in Reqs : ObserverLoad(o, a)
       PROVE  FaultFreeInv'
  BY <1>17, FaultFreeFrame
  DEF ObserverStep, ObserverLoad, ObserverAsk, ObserverStore, ObserverGiveUp,
      UpdateAppInstanceStatus, Inv, TypeOK
<1>18. ASSUME Signal \/ Shutdown \/ UNCHANGED vars PROVE FaultFreeInv'
  BY <1>18, FaultFreeFrame
  DEF Signal, Shutdown, BeginShutdown, ShutdownReturns, WaitReturns, vars
<1>19. ASSUME Crash \/ Start PROVE FaultFreeInv'
  <2>1. /\ pc' = [r \in Reqs |-> IF pc[r] \in InFlight THEN "cut" ELSE pc[r]]
        /\ worker' = [r \in Reqs |-> IF worker[r] \in Live THEN "lost" ELSE worker[r]]
    BY <1>19 DEF Crash, Start, Forget
  <2>2. ASSUME NEW r \in Reqs PROVE pc'[r] # "rollback" /\ ~Engaged(r)'
    BY <2>1 DEF InFlight, Live, Counted
  <2> QED
    BY <2>2
<1> QED
  BY <1>1, <1>2, <1>3, <1>4, <1>5, <1>6, <1>7, <1>8, <1>9, <1>10, <1>11, <1>12, <1>13, <1>14,
     <1>15, <1>16, <1>17, <1>18, <1>19 DEF Next, HandlerStep, WorkerStep

\* Unless SQLite fails spuriously, two workers never have a Compose command on
\* the same project in progress, whatever clients, crashes and restarts do.
THEOREM Exclusion == ASSUME ~DbFaults PROVE Spec => []ExclusiveRuntimeCall
<1>1. Init => FaultFreeInv
  BY DEF Init, FaultFreeInv, Engaged
<1>2. Inv /\ Inv' /\ FaultFreeInv /\ [Next]_vars => FaultFreeInv'
  BY FaultFreeStep
<1>3. Inv /\ FaultFreeInv => ExclusiveRuntimeCall
  <2> SUFFICES ASSUME Inv, FaultFreeInv, NEW r \in Reqs, NEW s \in Reqs,
                      Engaged(r), Engaged(s), ProjectOf(r) = ProjectOf(s)
               PROVE  r = s
    BY DEF ExclusiveRuntimeCall
  <2>1. opRow[r] \in Active /\ opRow[s] \in Active
    BY DEF FaultFreeInv
  <2>2. target[r] = target[s]
    BY <2>1 DEF Inv, TypeOK, StoreInv, ProjectOf, Active, Absent
  <2> QED
    BY <2>1, <2>2 DEF Inv, StoreInv
<1> QED
  BY <1>1, <1>2, <1>3, Invariance, PTL DEF Spec

-----------------------------------------------------------------------------
(* Deleted apps, and active operations.                                     *)

\* A status write to a missing row changes nothing.
LEMMA StatusWrite ==
    ASSUME TypeOK, NEW a \in Reqs, NEW b \in Reqs, NEW ok, NEW s,
           UpdateAppInstanceStatus(b, ok, s), appRow[a] = Absent
    PROVE  appRow'[a] = Absent
BY DEF UpdateAppInstanceStatus, TypeOK

\* Only the insert of an install makes a row where there was none.
LEMMA RowStep ==
    ASSUME Inv, [Next]_vars, NEW a \in Reqs, appRow[a] = Absent, pc[a] # "planned"
    PROVE  appRow'[a] = Absent
<1> USE DEF store, req, work, life, obs
<1>1. CASE appRow' = appRow
  BY <1>1
<1>2. ASSUME NEW r \in Reqs, CreateAppInstance(r) PROVE appRow'[a] = Absent
  BY <1>2 DEF CreateAppInstance, Reject, Inv, TypeOK
<1>3. ASSUME NEW b \in Reqs, NEW ok, DeleteAppInstance(b, ok) PROVE appRow'[a] = Absent
  BY <1>3 DEF DeleteAppInstance, Inv, TypeOK
<1>4. ASSUME NEW r \in Reqs, RecordError(r) \/ RecordStatus(r) \/ StoreObserved(r)
      PROVE  appRow'[a] = Absent
  BY <1>4, StatusWrite DEF RecordError, RecordStatus, StoreObserved, Inv, TypeOK
<1>5. ASSUME NEW r \in Reqs, ApplySuccessfulUpdate(r) PROVE appRow'[a] = Absent
  BY <1>5 DEF ApplySuccessfulUpdate, Inv, TypeOK
<1>6. ASSUME NEW o \in Observers, ObserverStore(o) PROVE appRow'[a] = Absent
  BY <1>6 DEF ObserverStore, UpdateAppInstanceStatus, Inv, TypeOK
<1>7. ASSUME NEW r \in Reqs, HandlerStep(r) PROVE appRow'[a] = Absent
  BY <1>1, <1>2, <1>3, <1>7
  DEF HandlerStep, CreateRevision, RollbackInstall, CheckActive, RefuseUpdate, CreateOperation,
      Reject
<1>8. ASSUME NEW r \in Reqs, WorkerStep(r) PROVE appRow'[a] = Absent
  <2>1. target[r] \in Reqs
    BY DEF Inv, TypeOK
  <2>2. CASE DeleteAfterUninstall(r)
    BY <1>3, <2>1, <2>2 DEF DeleteAfterUninstall
  <2> QED
    BY <1>1, <1>4, <1>5, <1>8, <2>2
    DEF WorkerStep, Register, BeginOperation, RuntimeSucceeds, RuntimeFails, Complete, Fail,
        ObserveAfter
<1>9. ASSUME NEW o \in Observers, ObserverStep(o) \/ \E b \in Reqs : ObserverLoad(o, b)
      PROVE  appRow'[a] = Absent
  BY <1>1, <1>6, <1>9 DEF ObserverStep, ObserverLoad, ObserverAsk, ObserverGiveUp
<1> QED
  BY <1>1, <1>7, <1>8, <1>9
  DEF Next, vars, PlanInstall, LoadInstance, Disconnect, Expire, Signal, Shutdown, BeginShutdown,
      ShutdownReturns, WaitReturns, Crash, Start

\* A deleted app never reappears, whoever still holds a copy of its row
\* (UpdateAppInstanceStatus and ApplySuccessfulUpdate change no missing row).
THEOREM DeletedStaysDeleted == Spec => NoResurrection
<1>1. Inv /\ [Next]_vars
        => [\A a \in Reqs : appRow[a] = Absent /\ pc[a] # "planned" => appRow'[a] = Absent]_vars
  BY RowStep
<1> QED
  BY <1>1, Invariance, PTL DEF Spec, NoResurrection

\* Workers that have still to settle their operation.
Unsettled == {"spawned", "registered", "calling", "deleting", "applying", "succeeded",
              "failed", "canceled"}

\* An operation that is still active in a process that is not ending has a
\* worker that has not yet tried to settle it.
AttendedInv ==
    \A r \in Reqs :
        /\ proc = "serving"
        /\ ~cancelled
        /\ opRow[r] \in Active
        => worker[r] \in Unsettled \/ r \in expired

\* Steps that make no operation active and take no worker past its settlement.
LEMMA AttendedFrame ==
    ASSUME AttendedInv,
           proc' = "serving" /\ ~cancelled' => proc = "serving" /\ ~cancelled,
           expired \subseteq expired',
           \A r \in Reqs : opRow'[r] \in Active => opRow[r] \in Active,
           \A r \in Reqs : worker[r] \in Unsettled => worker'[r] \in Unsettled
    PROVE  AttendedInv'
BY DEF AttendedInv

\* Every step keeps active operations attended.
LEMMA AttendedStep ==
    ASSUME ~DbFaults, Inv, AttendedInv, [Next]_vars
    PROVE  AttendedInv'
<1> USE DEF store, req, work, life, obs, Unsettled
<1>0. /\ opRow \in [Reqs -> Active \cup Settled \cup {Absent}]
      /\ worker \in [Reqs -> Live \cup {"none", "finished", "lost"}]
      /\ \A r \in Reqs : target[r] \in Reqs
  BY DEF Inv, TypeOK
<1>1. CASE UNCHANGED <<opRow, worker, expired, cancelled, proc>>
  BY <1>1 DEF AttendedInv
<1>2. ASSUME NEW b \in Reqs, NEW ok, DeleteAppInstance(b, ok), UNCHANGED <<worker, expired, life>>
      PROVE  AttendedInv'
  <2>1. \A q \in Reqs : opRow'[q] \in Active => opRow[q] \in Active
    BY <1>0, <1>2 DEF DeleteAppInstance, Active, Absent
  <2> QED
    BY <1>2, <2>1, AttendedFrame
<1>3. ASSUME NEW r \in Reqs, CreateOperation(r) PROVE AttendedInv'
  <2>1. CASE /\ opRow' = [opRow EXCEPT ![r] = "pending"]
             /\ \E w \in {"spawned", "registered"} : worker' = [worker EXCEPT ![r] = w]
             /\ UNCHANGED <<expired, life>>
    BY <1>0, <2>1 DEF AttendedInv
  <2> QED
    BY <1>1, <1>3, <2>1 DEF CreateOperation, Reject
<1>4. ASSUME NEW r \in Reqs, NEW w \in Unsettled, worker' = [worker EXCEPT ![r] = w],
             UNCHANGED <<opRow, expired, life>>
      PROVE  AttendedInv'
  BY <1>0, <1>4 DEF AttendedInv
<1>5. ASSUME NEW r \in Reqs, BeginOperation(r) PROVE AttendedInv'
  BY <1>0, <1>5 DEF AttendedInv, BeginOperation, Goto, UpdateOperation
<1>6. ASSUME NEW r \in Reqs, RuntimeSucceeds(r) \/ RuntimeFails(r) \/ ApplySuccessfulUpdate(r)
      PROVE  AttendedInv'
  BY <1>4, <1>6, AfterErrorType DEF RuntimeSucceeds, RuntimeFails, ApplySuccessfulUpdate, Goto
<1>7. ASSUME NEW r \in Reqs, DeleteAfterUninstall(r) PROVE AttendedInv'
  <2>1. \A q \in Reqs : opRow'[q] \in Active => opRow[q] \in Active
    BY <1>0, <1>7 DEF DeleteAfterUninstall, DeleteAppInstance, Active, Absent
  <2>2. \A q \in Reqs : worker[q] \in Unsettled => worker'[q] \in Unsettled
    BY <1>0, <1>7 DEF DeleteAfterUninstall, Goto
  <2> QED
    BY <1>7, <2>1, <2>2, AttendedFrame DEF DeleteAfterUninstall
<1>8. ASSUME NEW r \in Reqs, NEW w, NEW s \in Settled, NEW ok \in Outcomes(CtxDone(r)),
             UpdateOperation(r, ok, s), worker' = [worker EXCEPT ![r] = w],
             UNCHANGED <<expired, life>>
      PROVE  AttendedInv'
  <2>1. ok \in BOOLEAN /\ (~ok => cancelled \/ r \in expired)
    BY DEF Outcomes, CtxDone
  <2>2. ok => opRow'[r] \notin Active
    BY <1>0, <1>8 DEF UpdateOperation, Active, Settled, Absent
  <2>3. \A q \in Reqs \ {r} : opRow'[q] = opRow[q] /\ worker'[q] = worker[q]
    BY <1>0, <1>8 DEF UpdateOperation
  <2> QED
    BY <1>8, <2>1, <2>2, <2>3 DEF AttendedInv
<1>9. ASSUME NEW r \in Reqs, Complete(r) PROVE AttendedInv'
  <2>1. "completed" \in Settled
    BY DEF Settled
  <2> QED
    BY <1>8, <1>9, <2>1 DEF Complete, Goto
<1>10. ASSUME NEW r \in Reqs, Fail(r) PROVE AttendedInv'
  <2>1. FailureStatus(worker[r]) \in Settled
    BY DEF FailureStatus, Settled
  <2> QED
    BY <1>8, <1>10, <2>1 DEF Fail, Goto
<1>11. ASSUME NEW r \in Reqs, RecordError(r) \/ RecordStatus(r) \/ ObserveAfter(r) \/ StoreObserved(r)
       PROVE  AttendedInv'
  <2>1. /\ worker[r] \in {"errored", "completed", "recorded", "observed"}
        /\ \E w : worker' = [worker EXCEPT ![r] = w]
        /\ UNCHANGED <<opRow, expired, life>>
    BY <1>11 DEF RecordError, RecordStatus, ObserveAfter, StoreObserved, Goto
  <2>2. \A q \in Reqs : worker[q] \in Unsettled => worker'[q] = worker[q]
    BY <1>0, <2>1
  <2> QED
    BY <2>1, <2>2, AttendedFrame
<1>12. ASSUME NEW r \in Reqs, Register(r) PROVE AttendedInv'
  BY <1>4, <1>12 DEF Register, Goto
<1>13. ASSUME NEW r \in Reqs, Expire(r) PROVE AttendedInv'
  BY <1>13, AttendedFrame DEF Expire
<1>14. CASE Start
  <2>1. TRUE \in Outcomes(FALSE) /\ Outcomes(FALSE) = {TRUE}
    BY DEF Outcomes
  <2>2. \A q \in Reqs : opRow'[q] \notin Active
    BY <1>0, <1>14, <2>1 DEF Start, Recovered, Active
  <2> QED
    BY <2>2 DEF AttendedInv
<1>15. CASE Crash \/ Signal \/ Shutdown
  BY <1>15 DEF Crash, Signal, Shutdown, BeginShutdown, ShutdownReturns, WaitReturns, AttendedInv
<1>16. ASSUME NEW r \in Reqs, HandlerStep(r) PROVE AttendedInv'
  BY <1>1, <1>2, <1>3, <1>16
  DEF HandlerStep, CreateAppInstance, CreateRevision, RollbackInstall, CheckActive, RefuseUpdate,
      Reject
<1>17. ASSUME NEW r \in Reqs, WorkerStep(r) PROVE AttendedInv'
  BY <1>5, <1>6, <1>7, <1>9, <1>10, <1>11, <1>12, <1>17 DEF WorkerStep
<1>18. ASSUME NEW o \in Observers, ObserverStep(o) \/ \E b \in Reqs : ObserverLoad(o, b)
       PROVE  AttendedInv'
  BY <1>1, <1>18 DEF ObserverStep, ObserverLoad, ObserverAsk, ObserverStore, ObserverGiveUp
<1>19. ASSUME NEW r \in Reqs, NEW c, NEW k, NEW b,
              PlanInstall(r, c) \/ LoadInstance(r, k, b) \/ Disconnect(r)
       PROVE  AttendedInv'
  BY <1>1, <1>19 DEF PlanInstall, LoadInstance, Disconnect
<1>20. CASE UNCHANGED vars
  BY <1>1, <1>20 DEF vars
<1> QED
  BY <1>13, <1>14, <1>15, <1>16, <1>17, <1>18, <1>19, <1>20 DEF Next

\* While SQLite fails only for contexts that are done, no operation blocks its
\* app without a worker that will settle it, but for updates that have expired
\* (runOperation, RecoverOperations).
THEOREM ActiveIsAttended == ASSUME ~DbFaults PROVE Spec => []ActiveHasWorker
<1>1. Init => AttendedInv
  BY DEF Init, AttendedInv, Active, Absent
<1>2. AttendedInv => ActiveHasWorker
  BY DEF AttendedInv, ActiveHasWorker, Unsettled, Live, Counted
<1>3. Inv /\ AttendedInv /\ [Next]_vars => AttendedInv'
  BY AttendedStep
<1> QED
  BY <1>1, <1>2, <1>3, Invariance, PTL DEF Spec
=============================================================================
