----------------------------- MODULE AppConsent -----------------------------
(***************************************************************************)
(* What the administrator has agreed to and what the installed apps are:   *)
(* installs, updates and uninstalls of apps from manifests, with the       *)
(* acknowledgements AppApplyUpdate asks for.                               *)
(*                                                                         *)
(* Requests and workers are one step each here; Sources has their          *)
(* interleavings.  What remains is that every review compares with the     *)
(* revision GetLatestRevision returns, the one with the greatest           *)
(* created_at in whole seconds of the wall clock: several revisions may    *)
(* share it, and one recorded after the clock was set back is never it.    *)
(***************************************************************************)
EXTENDS Manifests, FiniteSets

CONSTANTS
    Apps,        \* app ids: installs
    Offered,     \* the manifests that sources offer
    Overrides,   \* configurations that clients send with an install
    MaxTied      \* bound on the revisions that share the greatest created_at

ASSUME ConsentAssumption ==
    /\ MaxTied \in Nat \ {0}
    /\ \A m \in Offered :
          /\ m.permissions \in Seq([kind : Listed(m.permissions), required : BOOLEAN])
          /\ m.storage \in Seq(Names)
          /\ m.config \in Seq([key : Keys(m), default : Values, required : BOOLEAN])
    /\ \A o \in Overrides : o \in [DOMAIN o -> Values]

VARIABLES
    app,       \* app[a]: the app_instances row with its revisions, or None
    granted,   \* history: <<kind, required>> of the permissions of manifests whose
               \* install was confirmed or whose update was acknowledged
    owed,      \* history: Docker volumes of a that no acknowledged update dropped
    inOrder    \* history: every revision of a was created later than those before

vars == <<app, granted, owed, inOrder>>

Configs == UNION {[Keys(m) -> Values] : m \in Offered}

\* catalog: catalog_id, None for the id of a source; manifest: of the revision
\* recorded last, which is up; latest: those that GetLatestRevision may return.
Rows == [catalog : {m.id : m \in Offered} \cup {None}, manifest : Offered,
         latest : (SUBSET Offered) \ {{}}, config : Configs,
         project : {DefaultProjectName(m) : m \in Offered},
         path : {InstallPath(m) : m \in Offered}]

\* What a manifest's permission list says.
Asked(m) == {<<m.permissions[i].kind, m.permissions[i].required>> : i \in DOMAIN m.permissions}

\* The volumes Docker has for a manifest: Compose prefixes their names with the project.
Mounted(project, m) == {<<project, v>> : v \in Volumes(m)}

TypeOK ==
    /\ app \in [Apps -> Rows \cup {None}]
    /\ granted \in [Apps -> SUBSET UNION {Asked(m) : m \in Offered}]
    /\ owed \in [Apps -> SUBSET UNION {Mounted(DefaultProjectName(m), n) : m, n \in Offered}]
    /\ inOrder \in [Apps -> BOOLEAN]

Init ==
    /\ app = [a \in Apps |-> None]
    /\ granted = [a \in Apps |-> {}]
    /\ owed = [a \in Apps |-> {}]
    /\ inOrder = [a \in Apps |-> TRUE]

Installed == {a \in Apps : app[a] # None}

-----------------------------------------------------------------------------
\* CreateAppInstance: the row's three UNIQUE columns.
Unique(row) ==
    \A a \in Installed :
        /\ row.catalog # None => app[a].catalog # row.catalog
        /\ app[a].project # row.project /\ app[a].path # row.path

\* InstallApp, of the official catalog or from a source.
Install(a, m, fromSource, overrides) ==
    LET row == [catalog |-> IF fromSource THEN None ELSE m.id, manifest |-> m,
                latest |-> {m}, config |-> ApplyConfig(m, overrides),
                project |-> DefaultProjectName(m), path |-> InstallPath(m)] IN
    /\ app[a] = None
    /\ Plannable(m, overrides)
    /\ ~Conflicting(m, {app[b] : b \in Installed})
    /\ Unique(row)
    /\ app' = [app EXCEPT ![a] = row]
    /\ granted' = [granted EXCEPT ![a] = Asked(m)]
    /\ owed' = [owed EXCEPT ![a] = Mounted(DefaultProjectName(m), m)]
    /\ inOrder' = [inOrder EXCEPT ![a] = TRUE]

\* The handler's decision on a request to replace cur by m: both plans can be
\* built with the stored configuration, the risks are acknowledged where they
\* have to be, and the app's identity stays.
Accepts(cur, m, config, ack) ==
    /\ Plannable(cur, config) /\ Plannable(m, config)
    /\ RequiresAcknowledgement(cur, m) => ack
    /\ m.id = cur.id

\* The new row's created_at is later than, the same as or earlier than the
\* greatest one.
LatestWith(latest, m) == {{m}, latest \cup {m}, latest}

\* Faulty: the row takes the names of the new plan.
UpdatedWithPlan(row, m, latest) ==
    [row EXCEPT !.manifest = m, !.latest = latest,
                !.project = DefaultProjectName(m), !.path = InstallPath(m)]

\* runSourceUpdate deploys the new manifest under the project, path and
\* configuration of the app; ApplySuccessfulUpdate records it.
Updated(row, m, latest) == [row EXCEPT !.manifest = m, !.latest = latest]

\* AppApplyUpdate and its worker, when the update succeeds.
Update(a, m, ack) ==
    /\ app[a] # None /\ app[a].catalog = None
    /\ \E cur \in app[a].latest : Accepts(cur, m, app[a].config, ack)
    /\ \E latest \in LatestWith(app[a].latest, m) :
          /\ Cardinality(latest) <= MaxTied
          /\ app' = [app EXCEPT ![a] = Updated(app[a], m, latest)]
          /\ inOrder' = [inOrder EXCEPT ![a] = @ /\ latest = {m}]
    /\ granted' = [granted EXCEPT ![a] = IF ack THEN @ \cup Asked(m) ELSE @]
    /\ owed' = [owed EXCEPT ![a] =
                   (IF ack THEN {} ELSE @) \cup Mounted(app[a].project, m)]

\* Uninstall deletes the row and, with it, the revisions.
Uninstall(a) ==
    /\ app[a] # None
    /\ app' = [app EXCEPT ![a] = None]
    /\ granted' = [granted EXCEPT ![a] = {}]
    /\ owed' = [owed EXCEPT ![a] = {}]
    /\ inOrder' = [inOrder EXCEPT ![a] = TRUE]

Next ==
    \E a \in Apps :
        \/ \E m \in Offered, s \in BOOLEAN, o \in Overrides : Install(a, m, s, o)
        \/ \E m \in Offered, ack \in BOOLEAN : Update(a, m, ack)
        \/ Uninstall(a)

Spec == Init /\ [][Next]_vars

-----------------------------------------------------------------------------
\* Every permission of an installed app was listed, and as required if it is
\* required, by a manifest whose install was confirmed or whose update was
\* acknowledged.  It holds along any chain of updates, with kinds listed more than
\* once, and even if reviews compare with an old revision
\* (UpdatePreview's permissionDiff and RequiresAcknowledgement).
ConsentCovers ==
    \A a \in Installed : \A p \in Asked(app[a].manifest) :
        \/ p \in granted[a]
        \/ ~p[2] /\ <<p[1], TRUE>> \in granted[a]

\* No volume of an app disappears from it without an acknowledgement, unless two
\* of its revisions were created in the same second or out of order, and no other
\* app is ever given one: an update keeps the project, which is part of every name
\* Docker has, whatever names its manifest declares (diffVolumes, GetLatestRevision's ORDER BY created_at,
\* runSourceUpdate's plan, evaluateConflicts).
DataKept ==
    \A a \in Installed :
        LET mounted(b) == Mounted(app[b].project, app[b].manifest) IN
        /\ inOrder[a] => owed[a] \subseteq mounted(a)
        /\ \A b \in Installed \ {a} : owed[a] \cap mounted(b) = {}
=============================================================================
