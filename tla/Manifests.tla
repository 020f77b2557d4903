------------------------------ MODULE Manifests ------------------------------
(***************************************************************************)
(* What a manifest declares, the install plan built from it, and what an   *)
(* update preview makes of two manifests.  No state: operators on records. *)
(*                                                                         *)
(* A manifest has an id; a project, its compose.projectName or None; a     *)
(* sequence of permissions [kind, required], in which a kind may occur     *)
(* more than once; a sequence of storage names; a sequence of config       *)
(* entries [key, default, required]; its endpoints' ports; and of its      *)
(* upgrade section whether it is rollbackSafe and names a migrationRisk.   *)
(***************************************************************************)
EXTENDS Naturals, Sequences, FiniteSetsExt, Functions

CONSTANTS
    Names,     \* storage names as manifests spell them
    Lower,     \* Lower[n]: n in lower case (strings.ToLower)
    Joined(_, _),  \* an id and a name joined by a dash; two pairs may give the same
    Values,    \* values of configuration keys
    Blank,     \* the value that is empty after trimming
    None       \* no value

ASSUME NamesAssumption == Lower \in [Names -> Names] /\ Blank \in Values /\ None \notin Values

-----------------------------------------------------------------------------
(* Validation and plan.                                                     *)

\* ValidateManifest rejects duplicates of storage names, configuration keys and
\* endpoint ports.  (Identifiers, versions and images are well formed here.)
ValidateManifest(m) ==
    /\ IsInjective(m.storage)
    /\ IsInjective([i \in DOMAIN m.config |-> m.config[i].key])
    /\ IsInjective(m.ports)

Keys(m) == {m.config[i].key : i \in DOMAIN m.config}

\* The value of a declared entry: the override, else the default.
ValueOf(entry, overrides) ==
    IF entry.key \in DOMAIN overrides THEN overrides[entry.key] ELSE entry.default

\* ApplyConfig fails if a required key is left blank.
ConfigComplete(m, overrides) ==
    \A i \in DOMAIN m.config :
        m.config[i].required => ValueOf(m.config[i], overrides) # Blank

\* Faulty: whatever the client sends is kept.
KeepOverrides(m, overrides) == overrides

\* ApplyConfig: declared keys only, with their values.
ApplyConfig(m, overrides) ==
    [k \in Keys(m) |->
        ValueOf(m.config[CHOOSE i \in DOMAIN m.config : m.config[i].key = k], overrides)]

\* BuildInstallPlan returns a plan rather than an error.
Plannable(m, overrides) == ValidateManifest(m) /\ ConfigComplete(m, overrides)

\* DefaultProjectName and InstallPath; the prefixes are left out.
DefaultProjectName(m) == IF m.project # None THEN m.project ELSE m.id
InstallPath(m)        == m.id

\* volumeName; the prefix is left out.
volumeName(id, name) == Joined(id, Lower[name])
Volumes(m) == {volumeName(m.id, m.storage[i]) : i \in DOMAIN m.storage}

\* evaluateConflicts, against instances [catalog, project, path]; HostPorts has
\* the clashes of ports.
Conflicting(m, existing) ==
    \E e \in existing :
        e.catalog = m.id \/ e.project = DefaultProjectName(m) \/ e.path = InstallPath(m)

-----------------------------------------------------------------------------
(* Review of an update.                                                     *)

Listed(list) == {list[i].kind : i \in DOMAIN list}

\* The map permissionDiff builds from a list: the last entry of a kind stays.
LastOfKind(list, k) == list[Max({i \in DOMAIN list : list[i].kind = k})]

\* permissionDiff's state of an entry of the next list.
DiffState(current, p) ==
    IF p.kind \notin Listed(current) THEN "added"
    ELSE IF LastOfKind(current, p.kind).required = p.required THEN "unchanged" ELSE "changed"

\* Faulty: a permission that becomes required is no increase.
AddedOnly(current, next) ==
    \E i \in DOMAIN next : DiffState(current, next[i]) = "added"

\* UpdatePreview's permissionIncrease.
PermissionIncrease(current, next) ==
    \E i \in DOMAIN next :
        \/ DiffState(current, next[i]) = "added"
        \/ DiffState(current, next[i]) = "changed" /\ next[i].required

\* diffVolumes of the current plan against the new one.
RemovedVolumes(current, next) == Volumes(current) \ Volumes(next)

RequiresAcknowledgement(current, next) ==
    \/ PermissionIncrease(current.permissions, next.permissions)
    \/ RemovedVolumes(current, next) # {}
    \/ next.migrationRisk
    \/ ~next.rollbackSafe
=============================================================================
