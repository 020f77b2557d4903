---------------------------- MODULE SourcesProofs ----------------------------
(***************************************************************************)
(* The pin of a source, the revision of its app and what is running stay   *)
(* in step, for any number of requests, any answers of GitHub, any         *)
(* failures and any crash.                                                 *)
(*                                                                         *)
(* The argument: the worker that holds the app's operation is the only one *)
(* that deploys, so from its successful deployment to its end the version  *)
(* it was asked for is up; and the row it compared with cannot move        *)
(* unnoticed, because the transaction compares the pin again.              *)
(***************************************************************************)
EXTENDS Sources, TLAPS

Working == {"check", "deploy", "health", "rollback", "record", "succeeded", "failing"}

\* A worker holds the active operation of the app.
HolderInv ==
    /\ \A u \in Updates : update[u].pc \in Working => busy = u
    /\ \A i \in Installs : install[i].pc = "up" => busy = i

\* What a request has learned by the time it gets to each of its steps.
Learned(r) ==
    /\ r.pc \in {"read", "resolve", "accept"} \cup Working => r.base # None
    /\ r.pc \in {"planned", "accept"} \cup Working => r.confirmed # None
    /\ r.pc \in {"deploy", "health", "record"} =>
          r.cur # None /\ r.cur.commit = r.base.pin.commit

RequestInv ==
    /\ \A a \in Adds : add[a].pc = "insert" => add[a].got # None
    /\ \A i \in Installs : install[i].pc = "loaded" => install[i].row # None
    /\ \A u \in Updates : Learned(update[u])

\* From its deployment on, a worker's version is up; in the end it is recorded.
UpInv ==
    \A u \in Updates :
        /\ update[u].pc \in {"health", "record", "succeeded"} =>
              running = update[u].confirmed
        /\ update[u].pc = "succeeded" => app.rev = update[u].confirmed

\* app_instances.source_id refers to a row.
ForeignKey == app # None /\ app.source # None => src # None /\ src.id = app.source

SourceInv ==
    /\ TypeOK /\ HolderInv /\ RequestInv /\ UpInv
    /\ ForeignKey /\ PinIsRevision /\ DivergenceReported

-----------------------------------------------------------------------------
(* The parts of a step. *)

\* None is no request, row or version.
LEMMA NoneApart ==
    /\ None \notin Versions /\ None \notin Adds /\ None \notin Installs
    /\ None \notin Updates /\ None \notin Rows /\ None \notin Apps
    /\ \A i \in Installs : i \notin Updates
BY SourcesAssumption

\* GitHub answers with a version or not at all.
LEMMA Answers ==
    Offered \subseteq Versions /\ Resolve \subseteq Versions \cup {None} /\ None \in Resolve
BY SourcesAssumption DEF Resolve

\* The app after an update is the same app with the new revision and with some of
\* its revisions as the latest.
LEMMA RevisedApp ==
    ASSUME app \in Apps, src.pin.commit \in Commits, NEW v \in Versions, NEW x \in Revised(v)
    PROVE  /\ x \in Apps /\ x.id = app.id /\ x.source = app.source /\ x.rev = v
           /\ x.left = app.left \cup {src.pin.commit}
<1>1. PICK latest \in NewestWith(app.latest, v) :
         x = [app EXCEPT !.rev = v, !.latest = latest, !.stale = FALSE,
                         !.left = @ \cup {src.pin.commit}]
  BY DEF Revised
<1>2. latest \in (SUBSET Versions) \ {{}}
  BY DEF NewestWith, Apps
<1> QED  BY <1>1, <1>2 DEF Apps

\* Every step keeps the types; a busy app exists.
LEMMA TypeStep ==
    ASSUME SourceInv, [Next]_vars
    PROVE  TypeOK'
<1> USE NoneApart DEF SourceInv
<1>s. CASE UNCHANGED vars
  BY <1>s DEF vars, TypeOK
<1>1. CASE Uninstall
  BY <1>1 DEF Uninstall, TypeOK
<1>2. CASE Crash
  <2>1. add' \in [Adds -> AddRecs] /\ install' \in [Installs -> InstallRecs]
    BY <1>2 DEF Crash, Cut, TypeOK, AddRecs, AddStates, InstallRecs, InstallStates
  <2>2. update' \in [Updates -> UpdateRecs]
    BY <1>2 DEF Crash, NoUpdate, UpdateRecs, UpdateStates
  <2> QED  BY <1>2, <2>1, <2>2 DEF Crash, TypeOK
<1>3. ASSUME NEW a \in Adds, Preview(a) \/ CheckAdd(a) \/ ResolveAdd(a)
      PROVE  TypeOK'
  <2>0. \A v \in Resolve : \A p \in AddStates :
           /\ [add[a] EXCEPT !.pc = p] \in AddRecs
           /\ [add[a] EXCEPT !.got = v, !.pc = p] \in AddRecs
    BY DEF TypeOK, AddRecs
  <2>1. add' \in [Adds -> AddRecs]
    <3>1. \A p \in {"over", "insert", "checked", "previewed"} : p \in AddStates
      BY DEF AddStates
    <3>2. CASE Preview(a) \/ CheckAdd(a)
      <4>1. PICK p \in AddStates : add' = [add EXCEPT ![a] = [add[a] EXCEPT !.pc = p]]
        BY <3>1, <3>2 DEF Preview, CheckAdd, AddStep
      <4> QED  BY <2>0, <4>1, Answers DEF TypeOK
    <3>3. CASE ResolveAdd(a)
      <4>1. PICK v \in Resolve, p \in {"over", "insert"} :
               AddStep(a, [add[a] EXCEPT !.got = v, !.pc = p])
        BY <3>3 DEF ResolveAdd
      <4>2. [add[a] EXCEPT !.got = v, !.pc = p] \in AddRecs
        BY <2>0, <3>1
      <4> QED  BY <4>1, <4>2 DEF AddStep, TypeOK
    <3> QED  BY <1>3, <3>2, <3>3
  <2> QED  BY <1>3, <2>1 DEF Preview, CheckAdd, ResolveAdd, AddStep, TypeOK
<1>4. ASSUME NEW a \in Adds, CreateManifestSource(a) PROVE TypeOK'
  <2>1. add' \in [Adds -> AddRecs]
    BY <1>4 DEF CreateManifestSource, AddStep, TypeOK, AddRecs, AddStates, Resolve
  <2>2. add[a].got \in Versions
    BY <1>4, Answers DEF CreateManifestSource, RequestInv, TypeOK, AddRecs
  <2>3. src' \in Rows \cup {None}
    BY <1>4, <2>2 DEF CreateManifestSource, TypeOK, Rows
  <2> QED  BY <1>4, <2>1, <2>3 DEF CreateManifestSource, AddStep, TypeOK
<1>5. ASSUME NEW r \in Removes, ListForRemove(r) \/ DeleteManifestSource(r)
      PROVE  TypeOK'
  <2>1. remove' \in [Removes -> Adds \cup {None}]
    BY <1>5 DEF ListForRemove, DeleteManifestSource, TypeOK, Rows
  <2>2. app' \in Apps \cup {None} /\ (app # None => app' # None)
    BY <1>5 DEF ListForRemove, DeleteManifestSource, TypeOK, Apps
  <2> QED  BY <1>5, <2>1, <2>2 DEF ListForRemove, DeleteManifestSource, TypeOK
<1>6. ASSUME NEW i \in Installs, LoadManifest(i) \/ InsertApp(i) \/ ComposeUp(i)
      PROVE  TypeOK'
  <2>1. install' \in [Installs -> InstallRecs]
    BY <1>6 DEF LoadManifest, InsertApp, ComposeUp, TypeOK, InstallRecs, InstallStates
  <2>2. /\ app' \in Apps \cup {None}
        /\ busy' # None => app' # None
    <3>1. CASE LoadManifest(i) \/ ComposeUp(i)
      BY <3>1 DEF LoadManifest, ComposeUp, TypeOK
    <3>2. CASE InsertApp(i)
      <4>1. install[i].row \in Rows
        BY <3>2 DEF InsertApp, RequestInv, TypeOK, InstallRecs
      <4>2. install[i].row.id \in Adds /\ install[i].row.pin \in Versions
        BY <4>1 DEF Rows
      <4>3. CASE UNCHANGED <<app, busy>>
        BY <4>3 DEF TypeOK
      <4>4. CASE app = None /\ \E b \in BOOLEAN :
                   app' = [id |-> i, source |-> install[i].row.id,
                           rev |-> install[i].row.pin, latest |-> {install[i].row.pin},
                           stale |-> b, left |-> {}]
        BY <4>2, <4>4 DEF Apps
      <4> QED  BY <3>2, <4>3, <4>4, Zenon DEF InsertApp
    <3> QED  BY <1>6, <3>1, <3>2
  <2>3. running' \in Versions \cup {None}
    BY <1>6 DEF LoadManifest, InsertApp, ComposeUp, TypeOK, HolderInv, Apps
  <2> QED
    BY <1>6, <2>1, <2>2, <2>3 DEF LoadManifest, InsertApp, ComposeUp, TypeOK
<1>7. ASSUME NEW u \in Updates, ReadSource(u) \/ ReadRevision(u) \/ UpdatePreview(u) \/ AcceptUpdate(u)
      PROVE  TypeOK'
  <2>0. update[u] \in UpdateRecs /\ NoUpdate \in UpdateRecs
    BY DEF TypeOK, NoUpdate, UpdateRecs, UpdateStates
  <2>1. update' \in [Updates -> UpdateRecs]
    <3>1. CASE ReadSource(u)
      <4>1. app.id \in Installs /\ src \in Rows
        BY <3>1 DEF ReadSource, TypeOK, Apps
      <4>2. [update[u] EXCEPT !.pc = "read", !.app = app.id, !.base = src] \in UpdateRecs
        BY <2>0, <4>1 DEF UpdateRecs, UpdateStates
      <4> QED  BY <3>1, <4>2 DEF ReadSource, Step, TypeOK
    <3>4. CASE ReadRevision(u)
      <4>1. app \in Apps => app.latest \subseteq Versions
        BY DEF Apps
      <4>2. \A v \in Versions : [update[u] EXCEPT !.pc = "resolve", !.rev = v] \in UpdateRecs
        BY <2>0 DEF UpdateRecs, UpdateStates
      <4>3. PICK r \in UpdateRecs : Step(u, r)
        BY <2>0, <3>4, <4>1, <4>2 DEF ReadRevision, Over, TypeOK
      <4> QED  BY <4>3 DEF Step, TypeOK
    <3>2. CASE UpdatePreview(u)
      <4>1. \A v \in Versions :
               [NoUpdate EXCEPT !.pc = "planned", !.confirmed = v] \in UpdateRecs
        BY DEF UpdateRecs, UpdateStates, NoUpdate
      <4>2. [update[u] EXCEPT !.pc = "accept"] \in UpdateRecs
        BY <2>0 DEF UpdateRecs, UpdateStates
      <4>3. PICK r \in UpdateRecs : Step(u, r)
        BY <2>0, <3>2, <4>1, <4>2, Answers DEF UpdatePreview, Goto, Over
      <4> QED  BY <4>3 DEF Step, TypeOK
    <3>3. CASE AcceptUpdate(u)
      <4>1. [update[u] EXCEPT !.pc = "check"] \in UpdateRecs
        BY <2>0 DEF UpdateRecs, UpdateStates
      <4> QED  BY <2>0, <3>3, <4>1 DEF AcceptUpdate, Step, Goto, Over, TypeOK
    <3> QED  BY <1>7, <3>1, <3>2, <3>3, <3>4
  <2>2. src' \in Rows \cup {None}
    BY <1>7 DEF ReadSource, ReadRevision, UpdatePreview, AcceptUpdate, UpdateManifestSourceTrust,
       TypeOK, Rows
  <2> QED  BY <1>7, <2>1, <2>2 DEF ReadSource, ReadRevision, UpdatePreview, AcceptUpdate, TypeOK
<1>8. ASSUME NEW u \in Updates,
             CheckSource(u) \/ Deploy(u) \/ HealthGate(u) \/ Rollback(u) \/ Settle(u)
      PROVE  TypeOK'
  <2>0. update[u] \in UpdateRecs /\ NoUpdate \in UpdateRecs
    BY DEF TypeOK, NoUpdate, UpdateRecs, UpdateStates
  <2>1. update' \in [Updates -> UpdateRecs]
    <3>1. \A p \in UpdateStates : [update[u] EXCEPT !.pc = p] \in UpdateRecs
      BY <2>0 DEF UpdateRecs
    <3>2. \A p \in {"failing", "health", "record", "rollback"} : p \in UpdateStates
      BY DEF UpdateStates
    <3>3. CASE CheckSource(u)
      <4>1. \A v \in Versions :
               [update[u] EXCEPT !.pc = "deploy", !.cur = v] \in UpdateRecs
        BY <2>0 DEF UpdateRecs, UpdateStates
      <4> QED  BY <3>1, <3>2, <3>3, <4>1 DEF CheckSource, Step, Goto, TypeOK, Rows
    <3>4. CASE Deploy(u) \/ HealthGate(u) \/ Rollback(u)
      <4>1. \E p \in UpdateStates : Goto(u, p)
        BY <3>2, <3>4 DEF Deploy, HealthGate, Rollback, AfterFailure
      <4> QED  BY <3>1, <4>1 DEF Goto, Step, TypeOK
    <3>5. CASE Settle(u)
      BY <2>0, <3>5 DEF Settle, Over, Step, TypeOK
    <3> QED  BY <1>8, <3>3, <3>4, <3>5
  <2>2. running' \in Versions \cup {None}
    BY <1>8, <2>0 DEF CheckSource, Deploy, HealthGate, Rollback, Settle, TypeOK,
       UpdateRecs, HolderInv, Working, Apps
  <2> QED
    BY <1>8, <2>1, <2>2 DEF CheckSource, Deploy, HealthGate, Rollback, Settle, TypeOK
<1>9. ASSUME NEW u \in Updates, ApplySuccessfulUpdate(u) PROVE TypeOK'
  <2>0. update[u] \in UpdateRecs
    BY DEF TypeOK
  <2>1. update' \in [Updates -> UpdateRecs]
    BY <1>9, <2>0 DEF ApplySuccessfulUpdate, Step, Goto, TypeOK, UpdateRecs, UpdateStates
  <2>2. update[u].confirmed \in Versions
    BY <1>9, <2>0 DEF ApplySuccessfulUpdate, RequestInv, Learned, Working, UpdateRecs
  <2>3. src' \in Rows \cup {None}
    BY <1>9, <2>2 DEF ApplySuccessfulUpdate, TypeOK, Rows
  <2>4. app \in Apps
    BY <1>9 DEF ApplySuccessfulUpdate, TypeOK, HolderInv, Working
  <2>5. app' \in Apps
    <3>1. src # None => src.pin.commit \in Commits
      BY DEF TypeOK, Rows, Versions
    <3>2. src # None => Revised(update[u].confirmed) \subseteq Apps
      BY <2>2, <2>4, <3>1, RevisedApp
    <3>. QED  BY <1>9, <2>4, <3>2 DEF ApplySuccessfulUpdate
  <2> QED  BY <1>9, <2>1, <2>3, <2>5 DEF ApplySuccessfulUpdate, TypeOK
<1> QED
  BY <1>s, <1>1, <1>2, <1>3, <1>4, <1>5, <1>6, <1>7, <1>8, <1>9 DEF Next
\* What the steps of an update client do to the requests.
LEMMA UpdateSteps ==
    ASSUME TypeOK, NEW u \in Updates,
           \/ ReadSource(u) \/ ReadRevision(u) \/ UpdatePreview(u) \/ AcceptUpdate(u)
           \/ CheckSource(u) \/ Deploy(u) \/ HealthGate(u) \/ Rollback(u)
           \/ ApplySuccessfulUpdate(u) \/ Settle(u)
    PROVE  /\ \A w \in Updates \ {u} : update'[w] = update[w]
           /\ update' # update => \E rec : update' = [update EXCEPT ![u] = rec]
           /\ UNCHANGED <<add, install>>
BY DEF ReadSource, ReadRevision, UpdatePreview, AcceptUpdate, CheckSource, Deploy, HealthGate, Rollback,
   ApplySuccessfulUpdate, Settle, Step, Goto, Over, TypeOK

\* A worker keeps the active operation until it ends.
LEMMA HolderStep ==
    ASSUME SourceInv, [Next]_vars
    PROVE  HolderInv'
<1> USE NoneApart DEF SourceInv, HolderInv
<1>s. CASE UNCHANGED vars
  BY <1>s DEF vars
<1>1. CASE Uninstall
  BY <1>1 DEF Uninstall
<1>2. CASE Crash
  BY <1>2 DEF Crash, Cut, NoUpdate, Working, TypeOK, InstallRecs
<1>3. ASSUME NEW a \in Adds,
             Preview(a) \/ CheckAdd(a) \/ ResolveAdd(a) \/ CreateManifestSource(a)
      PROVE  HolderInv'
  BY <1>3 DEF Preview, CheckAdd, ResolveAdd, CreateManifestSource, AddStep
<1>4. ASSUME NEW r \in Removes, ListForRemove(r) \/ DeleteManifestSource(r)
      PROVE  HolderInv'
  BY <1>4 DEF ListForRemove, DeleteManifestSource
<1>5. ASSUME NEW i \in Installs, LoadManifest(i) \/ InsertApp(i) \/ ComposeUp(i)
      PROVE  HolderInv'
  <2>1. \A k \in Installs \ {i} : install'[k] = install[k]
    BY <1>5 DEF LoadManifest, InsertApp, ComposeUp, TypeOK
  <2>2. CASE LoadManifest(i)
    <3>1. install'[i].pc = "loaded"
      BY <2>2 DEF LoadManifest, TypeOK
    <3> QED  BY <2>1, <2>2, <3>1 DEF LoadManifest
  <2>3. CASE InsertApp(i)
    <3>1. \/ busy = None /\ busy' = i
          \/ UNCHANGED busy /\ install'[i].pc = "over"
      BY <2>3 DEF InsertApp, TypeOK, InstallRecs
    <3> QED  BY <2>1, <2>3, <3>1 DEF InsertApp
  <2>4. CASE ComposeUp(i)
    <3>1. busy = i /\ install'[i].pc = "over"
      BY <2>4 DEF ComposeUp, TypeOK, InstallRecs
    <3> QED  BY <2>1, <2>4, <3>1 DEF ComposeUp
  <2> QED  BY <1>5, <2>2, <2>3, <2>4
<1>6. ASSUME NEW u \in Updates, ReadSource(u) \/ ReadRevision(u) \/ UpdatePreview(u)
      PROVE  HolderInv'
  <2>1. update'[u].pc \in {"read", "resolve", "planned", "accept", "idle"}
    <3>1. CASE ReadSource(u)
      BY <3>1 DEF ReadSource, Step, TypeOK, UpdateRecs
    <3>4. CASE \E v : Step(u, [update[u] EXCEPT !.pc = "resolve", !.rev = v])
      BY <3>4 DEF Step, TypeOK, UpdateRecs
    <3>2. CASE Over(u) \/ Goto(u, "accept")
      BY <3>2 DEF Over, Goto, Step, NoUpdate, TypeOK, UpdateRecs
    <3>3. CASE \E v : Step(u, [NoUpdate EXCEPT !.pc = "planned", !.confirmed = v])
      BY <3>3 DEF Step, NoUpdate, TypeOK
    <3> QED  BY <1>6, <3>1, <3>2, <3>3, <3>4 DEF ReadRevision, UpdatePreview
  <2> QED  BY <1>6, <2>1, UpdateSteps DEF ReadSource, ReadRevision, UpdatePreview, Working
<1>7. ASSUME NEW u \in Updates, AcceptUpdate(u) PROVE HolderInv'
  <2>1. \/ busy = None /\ busy' = u
        \/ UNCHANGED busy /\ update'[u].pc = "idle"
    BY <1>7 DEF AcceptUpdate, Over, Step, NoUpdate, TypeOK
  <2>2. \A w \in Updates \ {u} : update'[w] = update[w]
    BY <1>7, UpdateSteps
  <2> QED  BY <1>7, <2>1, <2>2 DEF AcceptUpdate, Working
<1>8. ASSUME NEW u \in Updates,
             \/ CheckSource(u) \/ Deploy(u) \/ HealthGate(u) \/ Rollback(u)
             \/ ApplySuccessfulUpdate(u)
      PROVE  HolderInv'
  <2>1. busy = u /\ UNCHANGED busy
    BY <1>8 DEF CheckSource, Deploy, HealthGate, Rollback, ApplySuccessfulUpdate, Working
  <2> QED  BY <1>8, <2>1, UpdateSteps
<1>9. ASSUME NEW u \in Updates, Settle(u) PROVE HolderInv'
  <2>1. busy = u /\ update'[u].pc = "idle"
    BY <1>9 DEF Settle, Over, Step, NoUpdate, TypeOK, Working
  <2> QED  BY <1>9, <2>1, UpdateSteps DEF Working
<1> QED
  BY <1>s, <1>1, <1>2, <1>3, <1>4, <1>5, <1>6, <1>7, <1>8, <1>9 DEF Next

\* A request gets to no step without what the step needs.
LEMMA RequestStep ==
    ASSUME SourceInv, [Next]_vars
    PROVE  RequestInv'
<1> USE NoneApart DEF SourceInv
<1>q. ASSUME UNCHANGED <<add, install, update>> PROVE RequestInv'
  BY <1>q DEF RequestInv
<1>s. CASE UNCHANGED vars
  BY <1>s, <1>q DEF vars
<1>1. CASE Uninstall
  BY <1>1, <1>q DEF Uninstall
<1>2. CASE Crash
  BY <1>2 DEF Crash, Cut, NoUpdate, Working, TypeOK, AddRecs, InstallRecs, RequestInv,
     Learned
<1>3. ASSUME NEW a \in Adds,
             Preview(a) \/ CheckAdd(a) \/ ResolveAdd(a) \/ CreateManifestSource(a)
      PROVE  RequestInv'
  <2>1. add'[a].pc = "insert" => add'[a].got # None
    <3>0. add[a] \in AddRecs
      BY DEF TypeOK
    <3>1. CASE Preview(a)
      BY <3>0, <3>1 DEF Preview, AddStep, TypeOK, AddRecs
    <3>2. CASE CheckAdd(a)
      BY <3>0, <3>2 DEF CheckAdd, AddStep, TypeOK, AddRecs
    <3>3. CASE ResolveAdd(a)
      BY <3>0, <3>3 DEF ResolveAdd, AddStep, TypeOK, AddRecs
    <3>4. CASE CreateManifestSource(a)
      BY <3>0, <3>4 DEF CreateManifestSource, AddStep, TypeOK, AddRecs
    <3> QED  BY <1>3, <3>1, <3>2, <3>3, <3>4
  <2>2. \A b \in Adds \ {a} : add'[b] = add[b]
    BY <1>3 DEF Preview, CheckAdd, ResolveAdd, CreateManifestSource, AddStep, TypeOK
  <2>3. UNCHANGED <<install, update>>
    BY <1>3 DEF Preview, CheckAdd, ResolveAdd, CreateManifestSource, AddStep
  <2> QED  BY <2>1, <2>2, <2>3 DEF RequestInv
<1>4. ASSUME NEW r \in Removes, ListForRemove(r) \/ DeleteManifestSource(r)
      PROVE  RequestInv'
  BY <1>4, <1>q DEF ListForRemove, DeleteManifestSource
<1>5. ASSUME NEW i \in Installs, LoadManifest(i) \/ InsertApp(i) \/ ComposeUp(i)
      PROVE  RequestInv'
  <2>1. \A k \in Installs : install'[k].pc = "loaded" => install'[k].row # None
    BY <1>5 DEF LoadManifest, InsertApp, ComposeUp, TypeOK, InstallRecs, RequestInv
  <2> QED  BY <1>5, <2>1 DEF LoadManifest, InsertApp, ComposeUp, RequestInv
<1>6. ASSUME NEW u \in Updates,
             \/ ReadSource(u) \/ ReadRevision(u) \/ UpdatePreview(u) \/ AcceptUpdate(u)
             \/ CheckSource(u) \/ Deploy(u) \/ HealthGate(u) \/ Rollback(u)
             \/ ApplySuccessfulUpdate(u) \/ Settle(u)
      PROVE  RequestInv'
  <2>0. update[u] \in UpdateRecs /\ Learned(update[u]) /\ Learned(NoUpdate)
    BY DEF TypeOK, RequestInv, Learned, NoUpdate, Working
  <2>1. Learned(update'[u])
    <3>1. CASE ReadSource(u)
      BY <2>0, <3>1 DEF ReadSource, Step, TypeOK, UpdateRecs, Learned, Working
    <3>2. CASE UpdatePreview(u)
      <4>1. CASE Over(u)
        BY <2>0, <4>1 DEF Over, Step, TypeOK
      <4>2. CASE Goto(u, "accept") /\ \E v \in Versions : update[u].confirmed = v
        BY <2>0, <3>2, <4>2 DEF UpdatePreview, Goto, Step, TypeOK, UpdateRecs, Learned, Working
      <4>3. CASE \E v \in Versions :
                   Step(u, [NoUpdate EXCEPT !.pc = "planned", !.confirmed = v])
        BY <4>3 DEF Step, TypeOK, NoUpdate, Learned, Working
      <4> QED  BY <3>2, <4>1, <4>2, <4>3, Answers DEF UpdatePreview
    <3>3. CASE AcceptUpdate(u)
      BY <2>0, <3>3 DEF AcceptUpdate, Over, Goto, Step, TypeOK, UpdateRecs, Learned, Working
    <3>4. CASE CheckSource(u)
      <4>1. CASE Goto(u, "failing")
        BY <2>0, <3>4, <4>1 DEF CheckSource, Goto, Step, TypeOK, UpdateRecs, Learned, Working
      <4>2. CASE /\ src \in Rows /\ src.pin.commit = update[u].base.pin.commit
                 /\ Step(u, [update[u] EXCEPT !.pc = "deploy", !.cur = src.pin])
        <5>1. src.pin \in Versions
          BY <4>2 DEF Rows
        <5>2. update'[u] = [update[u] EXCEPT !.pc = "deploy", !.cur = src.pin]
          BY <4>2 DEF Step, TypeOK
        <5>3. update[u].base # None /\ update[u].confirmed # None
          BY <2>0, <3>4 DEF CheckSource, Learned, Working
        <5> QED  BY <2>0, <4>2, <5>1, <5>2, <5>3 DEF UpdateRecs, Learned, Working
      <4> QED  BY <3>4, <4>1, <4>2 DEF CheckSource, TypeOK
    <3>5. CASE Deploy(u)
      BY <2>0, <3>5 DEF Deploy, AfterFailure, Goto, Step, TypeOK, UpdateRecs, Learned, Working
    <3>6. CASE HealthGate(u) \/ Rollback(u)
      BY <2>0, <3>6 DEF HealthGate, Rollback, AfterFailure, Goto, Step, TypeOK, UpdateRecs,
         Learned, Working
    <3>7. CASE ApplySuccessfulUpdate(u)
      BY <2>0, <3>7 DEF ApplySuccessfulUpdate, Goto, Step, TypeOK, UpdateRecs, Learned, Working
    <3>8. CASE Settle(u)
      BY <2>0, <3>8 DEF Settle, Over, Step, TypeOK
    <3>9. CASE ReadRevision(u)
      <4>1. CASE Over(u)
        BY <2>0, <4>1 DEF Over, Step, TypeOK
      <4>2. ASSUME NEW v, Step(u, [update[u] EXCEPT !.pc = "resolve", !.rev = v])
            PROVE  Learned(update'[u])
        <5>1. update'[u] = [update[u] EXCEPT !.pc = "resolve", !.rev = v]
          BY <4>2 DEF Step, TypeOK
        <5>2. update[u].base # None
          BY <2>0, <3>9 DEF ReadRevision, Learned
        <5> QED  BY <2>0, <5>1, <5>2 DEF UpdateRecs, Learned, Working
      <4> QED  BY <3>9, <4>1, <4>2 DEF ReadRevision
    <3> QED  BY <1>6, <3>1, <3>2, <3>3, <3>4, <3>5, <3>6, <3>7, <3>8, <3>9
  <2> QED  BY <1>6, <2>1, UpdateSteps DEF RequestInv
<1> QED
  BY <1>s, <1>1, <1>2, <1>3, <1>4, <1>5, <1>6 DEF Next
\* Nobody but the worker takes its version down or rewrites the revision.
LEMMA UpStep ==
    ASSUME SourceInv, [Next]_vars
    PROVE  UpInv'
<1> USE NoneApart DEF SourceInv
<1>f. ASSUME \A u \in Updates : update'[u].pc \notin Working PROVE UpInv'
  BY <1>f DEF UpInv, Working
<1>i. ASSUME busy \notin Updates PROVE \A u \in Updates : update[u].pc \notin Working
  BY <1>i DEF HolderInv
<1>q. ASSUME UNCHANGED <<running, app, update>> PROVE UpInv'
  BY <1>q DEF UpInv
<1>s. CASE UNCHANGED vars
  BY <1>s, <1>q DEF vars
<1>1. CASE Uninstall
  BY <1>1, <1>f, <1>i DEF Uninstall
<1>2. CASE Crash
  <2>1. \A u \in Updates : update'[u].pc \notin Working
    BY <1>2 DEF Crash, NoUpdate, Working
  <2> QED  BY <2>1, <1>f
<1>3. ASSUME NEW a \in Adds,
             Preview(a) \/ CheckAdd(a) \/ ResolveAdd(a) \/ CreateManifestSource(a)
      PROVE  UpInv'
  BY <1>3, <1>q DEF Preview, CheckAdd, ResolveAdd, CreateManifestSource, AddStep
<1>4. ASSUME NEW r \in Removes, ListForRemove(r) PROVE UpInv'
  BY <1>4, <1>q DEF ListForRemove
<1>5. ASSUME NEW r \in Removes, DeleteManifestSource(r) PROVE UpInv'
  <2>1. app \in Apps => app'.rev = app.rev
    BY <1>5 DEF DeleteManifestSource, Apps
  <2>2. \A u \in Updates : update[u].pc = "succeeded" => app \in Apps
    BY DEF HolderInv, Working, TypeOK
  <2> QED  BY <1>5, <2>1, <2>2 DEF DeleteManifestSource, UpInv
<1>6. ASSUME NEW i \in Installs, LoadManifest(i) PROVE UpInv'
  BY <1>6, <1>q DEF LoadManifest
<1>7. ASSUME NEW i \in Installs, InsertApp(i) \/ ComposeUp(i) PROVE UpInv'
  <2>1. UNCHANGED <<running, app, update>> \/ (busy \notin Updates /\ UNCHANGED update)
    BY <1>7 DEF InsertApp, ComposeUp, HolderInv, TypeOK
  <2> QED  BY <2>1, <1>f, <1>i, <1>q
<1>8. ASSUME NEW u \in Updates,
             \/ ReadSource(u) \/ ReadRevision(u) \/ UpdatePreview(u) \/ AcceptUpdate(u)
             \/ CheckSource(u) \/ Settle(u)
      PROVE  UpInv'
  <2>1. update'[u].pc \notin {"health", "record", "succeeded"}
    <3>0. update[u] \in UpdateRecs
      BY DEF TypeOK
    <3>1. CASE ReadSource(u)
      BY <3>0, <3>1 DEF ReadSource, Step, TypeOK, UpdateRecs
    <3>2. CASE Over(u) \/ Goto(u, "accept") \/ Goto(u, "check") \/ Goto(u, "failing")
      BY <3>0, <3>2 DEF Over, Goto, Step, NoUpdate, TypeOK, UpdateRecs
    <3>3. CASE \E v : Step(u, [NoUpdate EXCEPT !.pc = "planned", !.confirmed = v])
      BY <3>3 DEF Step, NoUpdate, TypeOK
    <3>4. CASE \E v : Step(u, [update[u] EXCEPT !.pc = "deploy", !.cur = v])
      BY <3>0, <3>4 DEF Step, TypeOK, UpdateRecs
    <3>5. CASE \E v : Step(u, [update[u] EXCEPT !.pc = "resolve", !.rev = v])
      BY <3>0, <3>5 DEF Step, TypeOK, UpdateRecs
    <3> QED
      BY <1>8, <3>1, <3>2, <3>3, <3>4, <3>5
         DEF ReadRevision, UpdatePreview, AcceptUpdate, CheckSource, Settle
  <2>2. UNCHANGED <<running, app>>
    BY <1>8 DEF ReadSource, ReadRevision, UpdatePreview, AcceptUpdate, CheckSource, Settle
  <2> QED  BY <1>8, <2>1, <2>2, UpdateSteps DEF UpInv
<1>9. ASSUME NEW u \in Updates,
             Deploy(u) \/ HealthGate(u) \/ Rollback(u) \/ ApplySuccessfulUpdate(u)
      PROVE  UpInv'
  <2>0. update[u] \in UpdateRecs /\ busy = u
    BY <1>9 DEF TypeOK, HolderInv, Working, Deploy, HealthGate, Rollback,
       ApplySuccessfulUpdate
  <2>1. \A w \in Updates \ {u} : update'[w].pc \notin Working
    BY <1>9, <2>0, UpdateSteps DEF HolderInv
  <2>2. /\ update'[u].pc \in {"health", "record", "succeeded"} =>
              running' = update'[u].confirmed
        /\ update'[u].pc = "succeeded" => app'.rev = update'[u].confirmed
    <3>1. CASE Deploy(u)
      BY <2>0, <3>1 DEF Deploy, AfterFailure, Goto, Step, TypeOK, UpdateRecs
    <3>2. CASE HealthGate(u)
      BY <2>0, <3>2 DEF HealthGate, AfterFailure, Goto, Step, TypeOK, UpdateRecs, UpInv
    <3>3. CASE Rollback(u)
      BY <2>0, <3>3 DEF Rollback, Goto, Step, TypeOK, UpdateRecs
    <3>4. CASE ApplySuccessfulUpdate(u)
      <4>1. app \in Apps /\ running = update[u].confirmed
        BY <2>0, <3>4 DEF ApplySuccessfulUpdate, TypeOK, UpInv
      <4>2. CASE /\ app' \in Revised(update[u].confirmed)
                 /\ Goto(u, "succeeded")
        <5>1. update[u].confirmed \in Versions /\ update'[u].confirmed = update[u].confirmed
          BY <2>0, <3>4, <4>2 DEF ApplySuccessfulUpdate, RequestInv, Learned, Working, Goto,
             Step, TypeOK, UpdateRecs
        <5>2. app'.rev = update[u].confirmed
          BY <4>1, <4>2, <5>1 DEF Revised, Apps
        <5> QED  BY <3>4, <4>1, <5>1, <5>2 DEF ApplySuccessfulUpdate
      <4>3. CASE Goto(u, "failing")
        BY <2>0, <4>3 DEF Goto, Step, TypeOK, UpdateRecs
      <4> QED  BY <3>4, <4>2, <4>3 DEF ApplySuccessfulUpdate
    <3> QED  BY <1>9, <3>1, <3>2, <3>3, <3>4
  <2> QED  BY <2>1, <2>2 DEF UpInv, Working
<1> QED
  BY <1>s, <1>1, <1>2, <1>3, <1>4, <1>5, <1>6, <1>7, <1>8, <1>9 DEF Next

\* The rows and what is running agree after every step.
LEMMA RowStep ==
    ASSUME SourceInv, [Next]_vars
    PROVE  ForeignKey' /\ PinIsRevision' /\ DivergenceReported'
<1> USE NoneApart DEF SourceInv
<1> DEFINE Goal == ForeignKey' /\ PinIsRevision' /\ DivergenceReported'
<1>q. ASSUME UNCHANGED <<src, app, running, busy, lastOp>> PROVE Goal
  BY <1>q DEF ForeignKey, PinIsRevision, DivergenceReported
<1>s. CASE UNCHANGED vars
  BY <1>s, <1>q DEF vars
<1>1. CASE Uninstall
  BY <1>1 DEF Uninstall, ForeignKey, PinIsRevision, DivergenceReported
<1>2. CASE Crash
  BY <1>2 DEF Crash, ForeignKey, PinIsRevision, DivergenceReported
<1>3. ASSUME NEW a \in Adds, Preview(a) \/ CheckAdd(a) \/ ResolveAdd(a) PROVE Goal
  BY <1>3, <1>q DEF Preview, CheckAdd, ResolveAdd, AddStep
<1>4. ASSUME NEW a \in Adds, CreateManifestSource(a) PROVE Goal
  <2>1. CASE UNCHANGED src
    BY <1>4, <2>1, <1>q DEF CreateManifestSource, AddStep
  <2>2. CASE src = None /\ src' = [id |-> a, pin |-> add[a].got, trust |-> "user-trusted"]
    BY <1>4, <2>2 DEF CreateManifestSource, AddStep, ForeignKey, PinIsRevision,
       DivergenceReported
  <2> QED  BY <1>4, <2>1, <2>2 DEF CreateManifestSource
<1>5. ASSUME NEW r \in Removes, ListForRemove(r) PROVE Goal
  BY <1>5, <1>q DEF ListForRemove
<1>6. ASSUME NEW r \in Removes, DeleteManifestSource(r) PROVE Goal
  <2>1. CASE UNCHANGED <<src, app>>
    BY <1>6, <2>1, <1>q DEF DeleteManifestSource
  <2>2. CASE /\ src # None /\ src.id = remove[r] /\ src' = None
             /\ app' = IF app # None /\ app.source = remove[r]
                       THEN [app EXCEPT !.source = None] ELSE app
    <3>1. app \in Apps => app'.source = None /\ app'.rev = app.rev
      BY <2>2 DEF ForeignKey, Apps
    <3>2. app' # None => app \in Apps
      BY <2>2 DEF TypeOK
    <3> QED  BY <1>6, <2>2, <3>1, <3>2 DEF DeleteManifestSource, ForeignKey, PinIsRevision,
                DivergenceReported
  <2> QED  BY <1>6, <2>1, <2>2 DEF DeleteManifestSource
<1>7. ASSUME NEW i \in Installs, LoadManifest(i) PROVE Goal
  BY <1>7, <1>q DEF LoadManifest
<1>8. ASSUME NEW i \in Installs, InsertApp(i) PROVE Goal
  <2>1. CASE UNCHANGED <<app, busy>>
    BY <1>8, <2>1, <1>q DEF InsertApp
  <2>2. CASE /\ src # None /\ src.id = install[i].row.id /\ busy' = i
             /\ app' = [id |-> i, source |-> install[i].row.id, rev |-> install[i].row.pin,
                        latest |-> {install[i].row.pin},
                        stale |-> src.pin # install[i].row.pin, left |-> {}]
    <3>1. /\ app'.source = install[i].row.id /\ app'.rev = install[i].row.pin
          /\ ~app'.stale => src.pin = install[i].row.pin
      BY <2>2, Zenon
    <3> QED  BY <1>8, <2>2, <3>1 DEF InsertApp, ForeignKey, PinIsRevision, DivergenceReported
  <2> QED  BY <1>8, <2>1, <2>2, Zenon DEF InsertApp
<1>9. ASSUME NEW i \in Installs, ComposeUp(i) PROVE Goal
  BY <1>9 DEF ComposeUp, ForeignKey, PinIsRevision, DivergenceReported
<1>10. ASSUME NEW u \in Updates, ReadSource(u) \/ ReadRevision(u) \/ CheckSource(u) \/ HealthGate(u)
       PROVE  Goal
  BY <1>10, <1>q DEF ReadSource, ReadRevision, CheckSource, HealthGate
<1>11. ASSUME NEW u \in Updates, UpdatePreview(u) PROVE Goal
  <2>1. \/ UNCHANGED src
        \/ src # None /\ src' = [src EXCEPT !.trust = "changed"]
    BY <1>11 DEF UpdatePreview, UpdateManifestSourceTrust
  <2>2. src # None => src' # None /\ src'.id = src.id /\ src'.pin = src.pin
    BY <2>1 DEF TypeOK, Rows
  <2>3. src = None => src' = None
    BY <2>1
  <2> QED  BY <1>11, <2>2, <2>3 DEF UpdatePreview, ForeignKey, PinIsRevision,
              DivergenceReported
<1>12. ASSUME NEW u \in Updates, AcceptUpdate(u) PROVE Goal
  BY <1>12 DEF AcceptUpdate, ForeignKey, PinIsRevision, DivergenceReported
<1>13. ASSUME NEW u \in Updates, Deploy(u) \/ Rollback(u) PROVE Goal
  <2>1. busy = u
    BY <1>13 DEF Deploy, Rollback, HolderInv, Working
  <2> QED  BY <1>13, <2>1 DEF Deploy, Rollback, ForeignKey, PinIsRevision,
              DivergenceReported
<1>14. ASSUME NEW u \in Updates, ApplySuccessfulUpdate(u) PROVE Goal
  <2>0. busy = u /\ app \in Apps
    BY <1>14 DEF ApplySuccessfulUpdate, HolderInv, Working, TypeOK
  <2>1. CASE UNCHANGED <<src, app>>
    BY <1>14, <2>1, <1>q DEF ApplySuccessfulUpdate
  <2>2. CASE /\ src # None /\ src' = [src EXCEPT !.pin = update[u].confirmed]
             /\ app' \in Revised(update[u].confirmed)
    <3>2. update[u].confirmed \in Versions
      BY <1>14 DEF ApplySuccessfulUpdate, RequestInv, Learned, Working, TypeOK, UpdateRecs
    <3>1. /\ src'.id = src.id /\ src'.pin = update[u].confirmed
          /\ app'.source = app.source /\ app'.rev = update[u].confirmed
      <4>1. src \in Rows /\ src.pin.commit \in Commits
        BY <2>2 DEF TypeOK, Rows, Versions
      <4>2. src'.id = src.id /\ src'.pin = update[u].confirmed
        BY <2>2, <4>1 DEF Rows
      <4> QED  BY <2>0, <2>2, <3>2, <4>1, <4>2, RevisedApp
    <3>3. src' \in Rows
      BY <2>2, <3>2 DEF TypeOK, Rows
    <3> QED  BY <1>14, <2>0, <2>2, <3>1, <3>3
                DEF ApplySuccessfulUpdate, ForeignKey, PinIsRevision, DivergenceReported
  <2> QED  BY <1>14, <2>1, <2>2 DEF ApplySuccessfulUpdate
<1>15. ASSUME NEW u \in Updates, Settle(u) PROVE Goal
  BY <1>15 DEF Settle, UpInv, ForeignKey, PinIsRevision, DivergenceReported
<1> QED
  BY <1>s, <1>1, <1>2, <1>3, <1>4, <1>5, <1>6, <1>7, <1>8, <1>9, <1>10, <1>11, <1>12,
     <1>13, <1>14, <1>15 DEF Next

-----------------------------------------------------------------------------
(* Theorems. *)

\* All parts of the inductive invariant hold in every reachable state.
THEOREM Invariance == Spec => []SourceInv
<1>1. Init => SourceInv
  <2> SUFFICES ASSUME Init PROVE SourceInv
    OBVIOUS
  <2>1. TypeOK
    BY DEF Init, TypeOK, NoUpdate, AddRecs, AddStates, Resolve, InstallRecs, InstallStates,
       UpdateRecs, UpdateStates
  <2>2. HolderInv /\ RequestInv /\ UpInv
    BY DEF Init, NoUpdate, HolderInv, RequestInv, Learned, UpInv, Working
  <2>3. ForeignKey /\ PinIsRevision /\ DivergenceReported
    BY DEF Init, ForeignKey, PinIsRevision, DivergenceReported
  <2> QED  BY <2>1, <2>2, <2>3 DEF SourceInv
<1>2. SourceInv /\ [Next]_vars => SourceInv'
  BY TypeStep, HolderStep, RequestStep, UpStep, RowStep DEF SourceInv
<1> QED  BY <1>1, <1>2, PTL DEF Spec

\* The variables keep their types, and the app of an active operation exists
\* (CreateOperation's foreign key, one active operation per app).
THEOREM TypeCorrect == Spec => []TypeOK
<1>1. SourceInv => TypeOK
  BY DEF SourceInv
<1> QED  BY <1>1, Invariance, PTL

\* The pinned version and the app's revision are the same, except for an app
\* installed from a row that moved meanwhile (ApplySuccessfulUpdate).
THEOREM PinTracksRevision == Spec => []PinIsRevision
<1>1. SourceInv => PinIsRevision
  BY DEF SourceInv
<1> QED  BY <1>1, Invariance, PTL

\* After an install or update reported as completed, the recorded revision is up
\* (runSourceUpdate).
THEOREM CompletedMeansRunning == Spec => []DivergenceReported
<1>1. SourceInv => DivergenceReported
  BY DEF SourceInv
<1> QED  BY <1>1, Invariance, PTL

\* No step moves a stored source's pin but the transaction of a worker whose
\* client confirmed the new version, whose preview compared with the old commit
\* and whose deployment is up (AppApplyUpdate, runSourceUpdate), and no step
\* takes back that a source was found changed (UpdateManifestSourceTrust).
LEMMA SourceRowStep ==
    ASSUME SourceInv, Next, src # None, src' # None, src'.id = src.id
    PROVE  /\ src'.pin # src.pin =>
                 /\ running = src'.pin
                 /\ \E u \in Updates :
                       /\ update[u].pc = "record" /\ update[u].confirmed = src'.pin
                       /\ update[u].base.pin.commit = src.pin.commit
           /\ src.trust = "changed" => src'.trust = "changed"
<1> USE DEF SourceInv
<1>0. src \in Rows
  BY DEF TypeOK
<1>1. CASE UNCHANGED src
  BY <1>1
<1>2. ASSUME NEW u \in Updates, UpdatePreview(u)
      PROVE  src'.pin = src.pin /\ (src.trust = "changed" => src'.trust = "changed")
  <2>1. UNCHANGED src \/ src' = [src EXCEPT !.trust = "changed"]
    BY <1>2 DEF UpdatePreview, UpdateManifestSourceTrust
  <2> QED  BY <1>0, <2>1 DEF Rows
<1>3. ASSUME NEW u \in Updates, ApplySuccessfulUpdate(u), src' # src
      PROVE  /\ running = src'.pin /\ src'.trust = src.trust
             /\ update[u].pc = "record" /\ update[u].confirmed = src'.pin
             /\ update[u].base.pin.commit = src.pin.commit
  <2>1. /\ src' = [src EXCEPT !.pin = update[u].confirmed]
        /\ src.pin = update[u].cur /\ update[u].pc = "record"
    BY <1>3 DEF ApplySuccessfulUpdate
  <2>2. running = update[u].confirmed /\ update[u].cur.commit = update[u].base.pin.commit
    BY <2>1 DEF UpInv, RequestInv, Learned
  <2> QED  BY <1>0, <2>1, <2>2 DEF Rows
<1>4. \/ UNCHANGED src
      \/ \E u \in Updates : UpdatePreview(u) \/ ApplySuccessfulUpdate(u)
  BY DEF Next, Uninstall, Crash, Preview, CheckAdd, ResolveAdd, CreateManifestSource,
     AddStep, ListForRemove, DeleteManifestSource, LoadManifest, InsertApp, ComposeUp,
     ReadSource, ReadRevision, AcceptUpdate, CheckSource, Deploy, HealthGate, Rollback, Settle
<1> QED  BY <1>1, <1>2, <1>3, <1>4

\* A pin only moves as a client reviewed it
\* (AppApplyUpdate, runSourceUpdate, ApplySuccessfulUpdate).
THEOREM ReviewedPins == Spec => PinMovesAsReviewed
<1>1. SourceInv /\ [Next]_vars =>
        [ src # None /\ src' # None /\ src'.id = src.id /\ src'.pin # src.pin
          => /\ running = src'.pin
             /\ \E u \in Updates :
                   /\ update[u].pc = "record" /\ update[u].confirmed = src'.pin
                   /\ update[u].base.pin.commit = src.pin.commit ]_vars
  BY SourceRowStep
<1> QED  BY <1>1, Invariance, PTL DEF Spec, PinMovesAsReviewed

\* A source found changed stays changed (UpdateManifestSourceTrust).
THEOREM ChangedStays == Spec => ChangedForGood
<1>1. SourceInv /\ [Next]_vars =>
        [ src # None /\ src' # None /\ src'.id = src.id /\ src.trust = "changed"
          => src'.trust = "changed" ]_vars
  BY SourceRowStep
<1> QED  BY <1>1, Invariance, PTL DEF Spec, ChangedForGood

-----------------------------------------------------------------------------
(* The revision a review compares with.                                     *)

\* A request's ID is used for one app or source row: the apps and rows that are
\* stored or that an update has read are of requests that are past inserting.
IdsOnce ==
    /\ app # None => install[app.id].pc \in {"up", "over"}
    /\ src # None => add[src.id].pc = "over"
    /\ \A u \in Updates :
          /\ update[u].app # None => install[update[u].app].pc \in {"up", "over"}
          /\ update[u].base # None => add[update[u].base.id].pc = "over"

\* The update's app and source row are those it has read.
SameRows(r) ==
    /\ app # None /\ app.id = r.app
    /\ src # None /\ r.base # None /\ src.id = r.base.id

\* The pin has left the commit the update read unless it is still there, and if it
\* has never left it, the revision read after it may still be returned.
BaseInv ==
    \A u \in Updates :
        LET r == update[u] IN
        /\ r.pc \in Working => app.id = r.app
        /\ SameRows(r) =>
              /\ r.base.pin.commit \in app.left \cup {src.pin.commit}
              /\ /\ r.pc \in {"resolve", "accept"} \cup Working
                 /\ src.pin.commit = r.base.pin.commit /\ src.pin.commit \notin app.left
                 => r.rev \in app.latest

\* No request that is past inserting inserts again.
LEMMA IdStep ==
    ASSUME SourceInv, IdsOnce, [Next]_vars
    PROVE  IdsOnce'
<1> USE NoneApart DEF SourceInv
<1>q. ASSUME UNCHANGED <<app, src, install, add, update>> PROVE IdsOnce'
  BY <1>q DEF IdsOnce
<1>s. CASE UNCHANGED vars
  BY <1>s, <1>q DEF vars
<1>1. CASE Uninstall
  BY <1>1 DEF Uninstall, IdsOnce
<1>2. CASE Crash
  <2>1. \A i \in Installs : install[i].pc \in {"up", "over"} => install'[i].pc = "over"
    BY <1>2 DEF Crash, Cut, TypeOK, InstallRecs
  <2>2. \A a \in Adds : add[a].pc = "over" => add'[a].pc = "over"
    BY <1>2 DEF Crash, Cut, TypeOK, AddRecs
  <2>3. \A u \in Updates : update'[u].app = None /\ update'[u].base = None
    BY <1>2 DEF Crash, NoUpdate
  <2>4. /\ app # None => app.id \in Installs
        /\ src # None => src.id \in Adds
    BY DEF TypeOK, Apps, Rows
  <2> QED  BY <1>2, <2>1, <2>2, <2>3, <2>4 DEF Crash, IdsOnce
<1>3. ASSUME NEW a \in Adds,
             Preview(a) \/ CheckAdd(a) \/ ResolveAdd(a) \/ CreateManifestSource(a)
      PROVE  IdsOnce'
  <2>1. add[a].pc # "over" /\ \A b \in Adds \ {a} : add'[b] = add[b]
    BY <1>3 DEF Preview, CheckAdd, ResolveAdd, CreateManifestSource, AddStep, TypeOK
  <2>2. /\ src # None => src.id \in Adds
        /\ \A u \in Updates : update[u].base # None => update[u].base.id \in Adds
    BY DEF TypeOK, Rows, UpdateRecs
  <2>3. UNCHANGED <<app, install, update>>
    BY <1>3 DEF Preview, CheckAdd, ResolveAdd, CreateManifestSource, AddStep
  <2>4. \/ UNCHANGED src
        \/ src' = [id |-> a, pin |-> add[a].got, trust |-> "user-trusted"] /\ add'[a].pc = "over"
    <3>1. CASE Preview(a) \/ CheckAdd(a) \/ ResolveAdd(a)
      BY <3>1 DEF Preview, CheckAdd, ResolveAdd
    <3>2. CASE CreateManifestSource(a)
      <4>1. add'[a].pc = "over"
        BY <3>2 DEF CreateManifestSource, AddStep, TypeOK, AddRecs
      <4> QED  BY <3>2, <4>1 DEF CreateManifestSource
    <3> QED  BY <1>3, <3>1, <3>2
  <2> QED  BY <2>1, <2>2, <2>3, <2>4 DEF IdsOnce
<1>4. ASSUME NEW x \in Removes, ListForRemove(x) \/ DeleteManifestSource(x)
      PROVE  IdsOnce'
  <2>1. /\ app' # None => app # None /\ app'.id = app.id
        /\ src' # None => src' = src
    BY <1>4 DEF ListForRemove, DeleteManifestSource, TypeOK, Apps
  <2> QED  BY <1>4, <2>1 DEF ListForRemove, DeleteManifestSource, IdsOnce
<1>5. ASSUME NEW i \in Installs, LoadManifest(i) \/ InsertApp(i) \/ ComposeUp(i)
      PROVE  IdsOnce'
  <2>1. /\ \A k \in Installs \ {i} : install'[k] = install[k]
        /\ install[i].pc \in {"up", "over"} => install'[i].pc \in {"up", "over"}
        /\ app' # app => app'.id = i /\ install'[i].pc = "up"
    BY <1>5 DEF LoadManifest, InsertApp, ComposeUp, TypeOK, InstallRecs
  <2>2. /\ app # None => app.id \in Installs
        /\ \A u \in Updates : update[u].app # None => update[u].app \in Installs
    BY DEF TypeOK, Apps, UpdateRecs
  <2> QED
    BY <1>5, <2>1, <2>2 DEF LoadManifest, InsertApp, ComposeUp, IdsOnce
<1>6. ASSUME NEW u \in Updates, ReadSource(u) PROVE IdsOnce'
  <2>1. update'[u].app = app.id /\ update'[u].base = src /\ app # None /\ src # None
    BY <1>6 DEF ReadSource, Step, TypeOK, UpdateRecs
  <2>2. \A w \in Updates \ {u} : update'[w] = update[w]
    BY <1>6, UpdateSteps
  <2>3. UNCHANGED <<src, app, add, install>>
    BY <1>6 DEF ReadSource
  <2> QED  BY <2>1, <2>2, <2>3 DEF IdsOnce
<1>7. ASSUME NEW u \in Updates,
             \/ ReadRevision(u) \/ UpdatePreview(u) \/ AcceptUpdate(u)
             \/ CheckSource(u) \/ Deploy(u) \/ HealthGate(u) \/ Rollback(u)
             \/ ApplySuccessfulUpdate(u) \/ Settle(u)
      PROVE  IdsOnce'
  <2>0. update[u] \in UpdateRecs
    BY DEF TypeOK
  <2>1. \/ update'[u].app = None /\ update'[u].base = None
        \/ update'[u].app = update[u].app /\ update'[u].base = update[u].base
    <3>1. CASE Over(u)
      BY <3>1 DEF Over, Step, NoUpdate, TypeOK
    <3>2. CASE \E p : Goto(u, p)
      BY <2>0, <3>2 DEF Goto, Step, TypeOK, UpdateRecs
    <3>3. CASE \E v : Step(u, [NoUpdate EXCEPT !.pc = "planned", !.confirmed = v])
      BY <3>3 DEF Step, NoUpdate, TypeOK
    <3>4. CASE \E v : Step(u, [update[u] EXCEPT !.pc = "resolve", !.rev = v])
      BY <2>0, <3>4 DEF Step, TypeOK, UpdateRecs
    <3>5. CASE \E v : Step(u, [update[u] EXCEPT !.pc = "deploy", !.cur = v])
      BY <2>0, <3>5 DEF Step, TypeOK, UpdateRecs
    <3> QED
      BY <1>7, <3>1, <3>2, <3>3, <3>4, <3>5 DEF ReadRevision, UpdatePreview, AcceptUpdate,
         CheckSource, Deploy, HealthGate, Rollback, ApplySuccessfulUpdate, Settle
  <2>2. /\ app' # None => app # None /\ app'.id = app.id
        /\ src' # None => src # None /\ src'.id = src.id
    <3>1. ASSUME ApplySuccessfulUpdate(u), ~UNCHANGED <<src, app>>
          PROVE  /\ app # None /\ app'.id = app.id
                 /\ src # None /\ src'.id = src.id
      <4>1. app \in Apps /\ src \in Rows /\ update[u].confirmed \in Versions
        BY <2>0, <3>1 DEF ApplySuccessfulUpdate, HolderInv, Working, TypeOK, RequestInv,
           Learned, UpdateRecs
      <4>2. src.pin.commit \in Commits
        BY <4>1 DEF Rows, Versions
      <4> QED  BY <3>1, <4>1, <4>2, RevisedApp DEF ApplySuccessfulUpdate, Rows
    <3>2. CASE ApplySuccessfulUpdate(u) /\ UNCHANGED <<src, app>>
      BY <3>2
    <3>3. CASE ~ApplySuccessfulUpdate(u)
      BY <1>7, <3>3 DEF ReadRevision, UpdatePreview, UpdateManifestSourceTrust, AcceptUpdate,
         CheckSource, Deploy, HealthGate, Rollback, Settle, TypeOK, Rows
    <3> QED  BY <3>1, <3>2, <3>3
  <2> QED  BY <1>7, <2>1, <2>2, UpdateSteps DEF IdsOnce
<1> QED
  BY <1>s, <1>1, <1>2, <1>3, <1>4, <1>5, <1>6, <1>7 DEF Next

\* The update steps after ReadRevision keep what the update has read.
LEMMA KeepsRead ==
    ASSUME TypeOK, NEW u \in Updates,
           \/ UpdatePreview(u) \/ AcceptUpdate(u) \/ CheckSource(u) \/ Deploy(u)
           \/ HealthGate(u) \/ Rollback(u) \/ ApplySuccessfulUpdate(u) \/ Settle(u)
    PROVE  \/ update'[u].base = None /\ update'[u].pc \notin Working
           \/ /\ update'[u].app = update[u].app /\ update'[u].base = update[u].base
              /\ update'[u].rev = update[u].rev
              /\ update[u].pc \in {"resolve", "accept"} \cup Working
              /\ update'[u].pc \in Working =>
                     \/ update[u].pc \in Working
                     \/ app # None /\ app.id = update[u].app /\ UNCHANGED app
  <2>0. update[u] \in UpdateRecs
    BY DEF TypeOK
  <2>1. CASE Over(u)
    BY <2>1 DEF Over, Step, NoUpdate, TypeOK, Working
  <2>2. ASSUME NEW p, Goto(u, p)
        PROVE  /\ update'[u].app = update[u].app /\ update'[u].base = update[u].base
               /\ update'[u].rev = update[u].rev /\ update'[u].pc = p
    BY <2>0, <2>2 DEF Goto, Step, TypeOK, UpdateRecs
  <2>3. CASE \E v : Step(u, [NoUpdate EXCEPT !.pc = "planned", !.confirmed = v])
    BY <2>3 DEF Step, NoUpdate, TypeOK, Working
  <2>4. ASSUME NEW v, Step(u, [update[u] EXCEPT !.pc = "deploy", !.cur = v])
        PROVE  /\ update'[u].app = update[u].app /\ update'[u].base = update[u].base
               /\ update'[u].rev = update[u].rev
    BY <2>0, <2>4 DEF Step, TypeOK, UpdateRecs
  <2>5. CASE UpdatePreview(u)
    <3>1. \/ Over(u) \/ Goto(u, "accept")
          \/ \E v : Step(u, [NoUpdate EXCEPT !.pc = "planned", !.confirmed = v])
      BY <2>5 DEF UpdatePreview
    <3>2. update[u].pc = "resolve"
      BY <2>5 DEF UpdatePreview
    <3>3. CASE Goto(u, "accept")
      <4>1. /\ update'[u].app = update[u].app /\ update'[u].base = update[u].base
            /\ update'[u].rev = update[u].rev /\ update'[u].pc = "accept"
        BY <2>2, <3>3
      <4> QED  BY <3>2, <4>1 DEF Working
    <3> QED  BY <2>1, <2>3, <3>1, <3>3
  <2>6. CASE AcceptUpdate(u)
    BY <2>1, <2>2, <2>6 DEF AcceptUpdate, Working
  <2>7. CASE CheckSource(u)
    BY <2>2, <2>4, <2>7 DEF CheckSource, Working
  <2>8. CASE Deploy(u) \/ HealthGate(u) \/ Rollback(u) \/ ApplySuccessfulUpdate(u)
    BY <2>2, <2>8 DEF Deploy, HealthGate, Rollback, ApplySuccessfulUpdate, Working
  <2>9. CASE Settle(u)
    BY <2>1, <2>9 DEF Settle
  <2> QED  BY <2>5, <2>6, <2>7, <2>8, <2>9

\* What an update has read stays true of the rows it read, until the pin moves.
LEMMA BaseStep ==
    ASSUME SourceInv, IdsOnce, BaseInv, [Next]_vars
    PROVE  BaseInv'
<1> USE NoneApart DEF SourceInv
\* The rows are the same, or other rows.
<1> DEFINE AppKept == app' # None => /\ app # None /\ app'.id = app.id /\ app'.latest = app.latest
                                     /\ app'.left = app.left
           SrcKept == src' # None => /\ src # None /\ src'.id = src.id /\ src'.pin = src.pin
<1>k. ASSUME UNCHANGED update, AppKept, SrcKept,
             \A u \in Updates : update[u].pc \in Working => app' # None
      PROVE  BaseInv'
  BY <1>k DEF BaseInv, SameRows
<1>w. \A u \in Updates : update[u].pc \in Working => app # None
  BY DEF HolderInv, TypeOK
<1>s. CASE UNCHANGED vars
  BY <1>s, <1>k, <1>w DEF vars
<1>1. CASE Uninstall
  <2>1. \A u \in Updates : update[u].pc \notin Working
    BY <1>1 DEF Uninstall, HolderInv
  <2> QED  BY <1>1, <1>k, <2>1 DEF Uninstall
<1>2. CASE Crash
  <2>1. \A u \in Updates : update'[u].pc \notin Working /\ update'[u].base = None
    BY <1>2 DEF Crash, NoUpdate, Working
  <2> QED  BY <2>1 DEF BaseInv, SameRows
<1>3. ASSUME NEW a \in Adds, Preview(a) \/ CheckAdd(a) \/ ResolveAdd(a)
      PROVE  BaseInv'
  BY <1>3, <1>k, <1>w DEF Preview, CheckAdd, ResolveAdd, AddStep
<1>4. ASSUME NEW a \in Adds, CreateManifestSource(a) PROVE BaseInv'
  <2>1. CASE UNCHANGED src
    BY <1>4, <2>1, <1>k, <1>w DEF CreateManifestSource, AddStep
  <2>2. CASE src = None /\ src' = [id |-> a, pin |-> add[a].got, trust |-> "user-trusted"]
    <3>1. \A u \in Updates : update[u].base # None => update[u].base.id # a
      BY <1>4 DEF CreateManifestSource, IdsOnce
    <3> QED  BY <1>4, <2>2, <3>1 DEF CreateManifestSource, AddStep, BaseInv, SameRows
  <2> QED  BY <1>4, <2>1, <2>2 DEF CreateManifestSource
<1>5. ASSUME NEW x \in Removes, ListForRemove(x) \/ DeleteManifestSource(x)
      PROVE  BaseInv'
  <2>1. AppKept /\ SrcKept /\ (app # None => app' # None) /\ UNCHANGED update
    BY <1>5 DEF ListForRemove, DeleteManifestSource, TypeOK, Apps
  <2> QED  BY <2>1, <1>k, <1>w
<1>6. ASSUME NEW i \in Installs, LoadManifest(i) \/ ComposeUp(i) PROVE BaseInv'
  BY <1>6, <1>k, <1>w DEF LoadManifest, ComposeUp
<1>7. ASSUME NEW i \in Installs, InsertApp(i) PROVE BaseInv'
  <2>1. CASE UNCHANGED app
    BY <1>7, <2>1, <1>k, <1>w DEF InsertApp
  <2>2. CASE app = None /\ app'.id = i
    <3>1. \A u \in Updates : update[u].app # i
      BY <1>7 DEF InsertApp, IdsOnce
    <3>2. \A u \in Updates : update[u].pc \notin Working
      BY <2>2, <1>w
    <3> QED  BY <1>7, <2>2, <3>1, <3>2 DEF InsertApp, BaseInv, SameRows
  <2> QED  BY <1>7, <2>1, <2>2 DEF InsertApp
<1>8. ASSUME NEW u \in Updates, ReadSource(u) PROVE BaseInv'
  <2>1. update'[u].pc = "read" /\ update'[u].base = src
    BY <1>8 DEF ReadSource, Step, TypeOK, UpdateRecs
  <2>2. \A w \in Updates \ {u} : update'[w] = update[w]
    BY <1>8, UpdateSteps
  <2> QED  BY <1>8, <2>1, <2>2 DEF ReadSource, BaseInv, SameRows, Working
<1>9. ASSUME NEW u \in Updates, ReadRevision(u) PROVE BaseInv'
  <2>1. \A w \in Updates \ {u} : update'[w] = update[w]
    BY <1>9, UpdateSteps
  <2>2. \/ update'[u].base = None /\ update'[u].pc \notin Working
        \/ /\ update'[u].pc = "resolve" /\ update'[u].rev \in app.latest
           /\ update'[u].app = update[u].app /\ update'[u].base = update[u].base
    <3>1. CASE Over(u)
      BY <3>1 DEF Over, Step, NoUpdate, TypeOK, Working
    <3>2. CASE \E v \in app.latest : Step(u, [update[u] EXCEPT !.pc = "resolve", !.rev = v])
      BY <3>2 DEF Step, TypeOK, UpdateRecs
    <3> QED  BY <1>9, <3>1, <3>2 DEF ReadRevision
  <2>3. UNCHANGED <<app, src>>
    BY <1>9 DEF ReadRevision
  <2>4. update'[u].base = update[u].base /\ update'[u].app = update[u].app
        => (SameRows(update[u])' <=> SameRows(update[u]))
    BY <2>3 DEF SameRows
  <2>5. update'[u].base = None => ~SameRows(update[u])'
    BY DEF SameRows
  <2> QED  BY <2>1, <2>2, <2>3, <2>4, <2>5 DEF BaseInv, SameRows, Working
<1>10. ASSUME NEW u \in Updates,
              \/ UpdatePreview(u) \/ AcceptUpdate(u) \/ CheckSource(u) \/ Deploy(u)
              \/ HealthGate(u) \/ Rollback(u) \/ Settle(u)
       PROVE  BaseInv'
  <2>1. \A w \in Updates \ {u} : update'[w] = update[w]
    BY <1>10, UpdateSteps
  <2>2. UNCHANGED app
    BY <1>10 DEF UpdatePreview, AcceptUpdate, CheckSource, Deploy, HealthGate, Rollback, Settle
  <2>3. SrcKept
    <3>1. UNCHANGED src \/ (src # None /\ src' = [src EXCEPT !.trust = "changed"])
      BY <1>10 DEF UpdatePreview, UpdateManifestSourceTrust, AcceptUpdate, CheckSource, Deploy,
         HealthGate, Rollback, Settle
    <3>2. src # None => src \in Rows
      BY DEF TypeOK
    <3> QED  BY <3>1, <3>2 DEF Rows
  <2> QED  BY <1>10, <2>1, <2>2, <2>3, KeepsRead DEF BaseInv, SameRows
\* The pin moves: whoever read the row before sees that it has left its commit.
<1>11. ASSUME NEW u \in Updates, ApplySuccessfulUpdate(u) PROVE BaseInv'
  <2>1. \A w \in Updates \ {u} : update'[w] = update[w]
    BY <1>11, UpdateSteps
  <2>2. CASE UNCHANGED <<src, app>>
    BY <1>11, <2>1, <2>2, KeepsRead DEF BaseInv, SameRows
  <2>3. CASE /\ src # None /\ src' = [src EXCEPT !.pin = update[u].confirmed]
             /\ app' \in Revised(update[u].confirmed)
    <3>1. app \in Apps /\ src \in Rows
      BY <1>11, <1>w, <2>3 DEF ApplySuccessfulUpdate, Working, TypeOK
    <3>2. /\ app'.id = app.id /\ app'.left = app.left \cup {src.pin.commit}
          /\ src'.id = src.id /\ app' # None /\ src' # None
      <4>1. app' \in Apps /\ src' \in Rows
        <5>1. update[u].confirmed \in Versions
          BY <1>11 DEF ApplySuccessfulUpdate, RequestInv, Learned, Working, TypeOK, UpdateRecs
        <5>2. src.pin.commit \in Commits
          BY <3>1 DEF Rows, Versions
        <5>3. app' \in Apps
          BY <2>3, <3>1, <5>1, <5>2, RevisedApp
        <5> QED  BY <2>3, <3>1, <5>1, <5>3 DEF Rows
      <4>2. src.pin.commit \in Commits /\ update[u].confirmed \in Versions
        BY <1>11, <3>1 DEF ApplySuccessfulUpdate, RequestInv, Learned, Working, TypeOK,
           UpdateRecs, Rows, Versions
      <4>3. app'.id = app.id /\ app'.left = app.left \cup {src.pin.commit}
        BY <2>3, <3>1, <4>2, RevisedApp
      <4> QED  BY <2>3, <3>1, <4>1, <4>3, NoneApart DEF Rows
    <3>3. ASSUME NEW w \in Updates, SameRows(update[w])
          PROVE  update[w].base.pin.commit \in app'.left
      BY <3>2, <3>3 DEF BaseInv
    <3> QED  BY <1>11, <2>1, <3>1, <3>2, <3>3, KeepsRead DEF BaseInv, SameRows
  <2> QED  BY <1>11, <2>2, <2>3 DEF ApplySuccessfulUpdate
<1> QED
  BY <1>s, <1>1, <1>2, <1>3, <1>4, <1>5, <1>6, <1>7, <1>8, <1>9, <1>10, <1>11 DEF Next

\* Only a recording update replaces the revision of an app, and the one that update
\* has read is still a latest one unless the source has come back to the same commit.
LEMMA RevisionStep ==
    ASSUME SourceInv, BaseInv, Next, app # None, app' # None, app'.id = app.id
    PROVE  app'.rev # app.rev =>
              \/ src.pin.commit \in app.left
              \/ \E u \in Updates : update[u].pc = "record" /\ update[u].rev \in app.latest
<1> USE DEF SourceInv
<1>1. ASSUME NEW u \in Updates, ApplySuccessfulUpdate(u), app' # app
      PROVE  /\ update[u].pc = "record"
             /\ src.pin.commit \in app.left \/ update[u].rev \in app.latest
  <2>1. /\ update[u].pc = "record" /\ src # None /\ src.id = update[u].base.id
        /\ src.pin = update[u].cur
    BY <1>1 DEF ApplySuccessfulUpdate
  <2>2. update[u].base # None /\ src.pin.commit = update[u].base.pin.commit
    BY <2>1 DEF RequestInv, Learned, Working
  <2>3. SameRows(update[u])
    BY <2>1, <2>2 DEF SameRows, BaseInv, Working
  <2> QED  BY <2>1, <2>2, <2>3 DEF BaseInv, Working
<1>2. ASSUME NEW i \in Installs, InsertApp(i) PROVE app' = app
  BY <1>2 DEF InsertApp
<1>3. ASSUME NEW r \in Removes, DeleteManifestSource(r) PROVE app'.rev = app.rev
  BY <1>3 DEF DeleteManifestSource, TypeOK, Apps
<1>4. \/ UNCHANGED app
      \/ \E u \in Updates : ApplySuccessfulUpdate(u)
      \/ \E i \in Installs : InsertApp(i)
      \/ \E r \in Removes : DeleteManifestSource(r)
  BY DEF Next, Uninstall, Crash, Preview, CheckAdd, ResolveAdd, CreateManifestSource,
     AddStep, ListForRemove, LoadManifest, ComposeUp, ReadSource, ReadRevision,
     UpdatePreview, AcceptUpdate, CheckSource, Deploy, HealthGate, Rollback, Settle
<1> QED  BY <1>1, <1>2, <1>3, <1>4

\* What a review compared with may still be returned as the latest revision when its
\* update records another, as far as comparing commits can tell
\* (UpdatePreview, runSourceUpdate's check, GetLatestRevision).
THEOREM ReviewsBase == Spec => ReviewedBase
<1>1. Init => IdsOnce /\ BaseInv
  BY DEF Init, NoUpdate, IdsOnce, BaseInv, SameRows, Working
<1>2. SourceInv /\ IdsOnce /\ BaseInv /\ [Next]_vars => IdsOnce' /\ BaseInv'
  BY IdStep, BaseStep
<1>3. SourceInv /\ BaseInv /\ [Next]_vars =>
        [ app # None /\ app' # None /\ app'.id = app.id /\ app'.rev # app.rev
          => \/ src.pin.commit \in app.left
             \/ \E u \in Updates : update[u].pc = "record" /\ update[u].rev \in app.latest ]_vars
  BY RevisionStep
<1> QED  BY <1>1, <1>2, <1>3, Invariance, PTL DEF Spec, ReviewedBase
=============================================================================
