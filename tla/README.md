# OpenDash in TLA+

OpenDash is a Go server that manages self-hosted applications: it renders
Docker Compose projects from catalog manifests, installs, starts, stops, updates
and uninstalls them, backs up their volumes, and serves a web dashboard. This
directory specifies what the server does, checks it with TLC on small instances
and proves the central results with TLAPS.

## 1. Inventory

| part | state it keeps | operations | interacts with |
|---|---|---|---|
| operation engine (`internal/api/catalog.go`, `handlers.go`) | one goroutine per accepted operation, a wait group, a cancellable base context | InstallApp, AppStart/Stop/Restart, AppUninstall, runOperation, observeApp | store (rows), runtime (Compose), HTTP clients (poll, disconnect), process |
| store (`internal/store`) | one database file, one connection; SQLite tables `schema_migrations`, `dashboard_data`, `app_instances`, `operations`, `revisions`, `manifest_sources`, `backup_*`, `admins`, `sessions` | open with migrations and demo seed; one statement per method, two more transactions (Login, ApplySuccessfulUpdate) | everything; constraints and cascades decide races |
| process (`cmd/opendash/main.go`) | running, shutting down | open store, RecoverOperations, serve, Shutdown, Wait | systemd restarts it on failure |
| runtime (`internal/runtime/docker`) | none of its own; Compose projects in Docker | Install, Start, Stop, Restart, Uninstall, Observe, each with a timeout | Docker |
| planning and review (`internal/catalog/catalog.go`, `internal/sources/service.go`) | none; decides from a manifest, the installed apps and a revision | ValidateManifest, BuildInstallPlan, ApplyConfig, permissionDiff, diffVolumes | installs and updates |
| updates (`internal/api/sources.go`, `internal/sources`) | pinned commit and checksum of a source, its trust | preview, apply, health gate, Compose rollback | engine, GitHub |
| ports (`internal/catalog/compose.go`) | set of reserved ports | HostPorts, ReserveHostPorts, ReleaseHostPorts | concurrent installs |
| backups (`internal/backup`) | jobs, archive rows, archive files | Create, EnforceRetention, Verify, Preview | store, file system, Docker |
| endpoint URLs (`compose.go`, `handlers.go`, `sources.go`, `docker.go`) | `endpoints_json` of an app, ports in its Compose file, published ports | endpointModels, updateEndpoints, transfer by updates | engine, updates, Docker |
| authentication (`internal/auth`, `internal/api/auth.go`) | one administrator, sessions, login limiter | Bootstrap, Login, Authenticate, Logout, allow, reset | every mutating request |
| dashboard (`internal/api/dashboard.go`, `handlers.go`) | saved preferences, demo rows | Summary, Apps, AppDetail, preferences | store, runtime |
| reports (`internal/diagnostics`, `internal/recovery`) | none | BuildBundle, Evaluate, Export, Preview | store: many queries for one answer |
| access, config, router, frontend | none that lasts | plumbing | |

What is hard here: every handler is several store calls with other handlers
between them; a worker outlives its request and holds a copy of the app it read
earlier; store calls fail when their context ends, which is also when cleanup
is needed; the process may die between any two calls; the database and Docker
can disagree. `PROJECT.json` lists each hazard at its line.

What makes each part correct: operations of one app exclude each other, always
settle and are never rewritten; containers never lose the row that manages
them; a restart leaves nothing blocked; ports are handed out once, an app keeps them
across updates and shows those of one of its revisions; an update records what was
reviewed, against the revision it replaces; an archive row and its file live and die
together; nothing runs that was not agreed to and no volume is dropped or
shared silently; the database file always opens again; a report is about a
moment of its request, or says what it could not read; there is one administrator and at most one session, and guesses are
limited.

## 2. Modules and plan

In the order in which they were written, most important first:

| module | models | extends, composed with |
|---|---|---|
| `AppOperations` | operation engine, its store, the process, observers | refines `OperationLog` |
| `OperationLog` | what a polling client may rely on | abstract |
| `AppOperationsProofs` | theorems about the engine | `AppOperations`, TLAPS |
| `HostPorts`, `HostPortsProofs` | choice, reservation and release of ports | |
| `AppEndpoints`, `AppEndpointsProofs` | the host ports and endpoint URLs of an installed app: install, observation, update, rollback | takes free ports from what `HostPorts` chooses |
| `LoginLimiter` | the limiter in front of login and bootstrap | |
| `AdminSessions`, `AdminSessionsProofs` | administrator and sessions behind the limiter | extends `LoginLimiter`, implements its specification |
| `Backups`, `BackupsProofs` | backup requests, retention, job and archive rows, files | refines `ArchiveShelf` |
| `ArchiveShelf` | what a user may rely on: archives appear whole and go only with a reason | abstract |
| `Sources`, `SourcesProofs` | a manifest source, the app installed from it, updates | uses the exclusion `AppOperations` shows |
| `Manifests` | what a manifest means: validation, configuration, volumes, the differences an update is reviewed by | pure operators |
| `AppConsent`, `AppConsentProofs` | installs, updates and uninstalls as decisions: permissions, volumes, configuration | extends `Manifests`; `Sources` has the interleavings it leaves out |
| `DashboardStore` | the database file: migrations, seed, preferences, crashes, releases of different age | |
| `Reports`, `ReportsProofs` | what the dashboard, the support bundle and the recovery inventory say, over one connection | extends `DashboardStore` |
| `MC*` | instances for TLC and claims of the repository that TLC refutes | the module they are named after |

Left to do:

1. An abstract specification for `Sources` (a pin, a revision and what is up,
   moved together by reviewed updates) with a refinement proof.
2. The restore preview of a backup while retention removes its file.

## 3. How the modules correspond to the code

`PROJECT.json` ("map") gives the lines of every definition. One action is one
store call, one runtime call or one critical section, because between two of
those every other goroutine may run; code between two calls is part of the
action that follows or precedes it.

**AppOperations.** A request `r` also names the rows its handler creates:
`opRow[r]` is its row of `operations`, `appRow[r]` the app row if it is an
install, `revRow` the apps that have a revision. `pc[r]` is where the handler
stands, `worker[r]` where the goroutine started by `go h.runOperation` stands;
`mem[r]` is the status field of the instance the worker holds since the handler
read it. `project[c]` is what Compose has for a catalog app. A statement fails
when its context is done (client disconnected, base context cancelled, update
deadline passed) and, if `DbFaults`, for no reason. The schema's constraints are
the guards: `CanInsertOperation` is the partial unique index and the foreign
key, `DeleteAppInstance` cascades. `obs*` are GET handlers that read an app, ask
Docker and write the status back. `Signal`, `BeginShutdown`, `ShutdownReturns`,
`WaitReturns`, `Crash` and `Start` (with `RecoverOperations`) are the process.

**OperationLog.** A log entry is accepted when its app has no open one, begins,
settles at most once, is closed by a restart, and disappears only with its app.
`AppOperations!LogView` maps the operations table to it.

**HostPorts.** `probe` is the port `net.Listen` returned in `FindFreePort`,
`ports` the map `HostPorts` fills in, `reserved` the set behind `portMu`. The
kernel may return any ephemeral port nobody listens on. `raced` is history: two
installs were between choosing and reserving at the same time.

**AppEndpoints.** A URL is the port in it, as the code builds and parses no
other part; a project has one service that matters, the main one. `row` is
`endpoints_json`, `compose` the mapping in the Compose file of the latest
revision, `deployed` the one the containers were created from, `published` what
`docker compose ps` reports. `req[r].eps` is the list in the memory of a handler
or worker. `CarriedPorts` is the map `runSourceUpdate` builds by label.
`past` are the earlier revisions and `newest` those `GetLatestRevision` may
return, by which an update interprets the list it carries ports over from
(`prior`). `torn` and `stale` are history: the row, or a copy in memory, has the
list of a revision before the current one. Container and host ports are numbers
of one kind, so an observation may take a host port for a container port as the
code does, and labels may repeat.

**LoginLimiter, AdminSessions.** `attempts` is the limiter's map, with
`NoEntry` for a missing key; `allow` and `reset` are atomic (they hold the
mutex). `spent` is history: the times of a client's admitted attempts, in order. A
request also names its token: `sessions[t]` is `expires_at`. `stamp[r]` is the
time the handler read before its transaction, so transactions may commit out of
the order of their times.

**Backups.** A job also names its archive. `doomed[j]` is the snapshot of
`ListBackupArchives` that a running `EnforceRetention` still has to work off;
`rows` and `file` are removed in two steps. `seq` is the order of insertion,
which decides the order of archives of the same second: `created_at` is in
seconds and SQLite reads equal keys of the index in rowid order.
`ArchiveShelf` has the archives that are listed with a whole file as its `shelf`
and knows neither requests nor files; it states the order of archives itself.

**Sources.** A version is a commit with the checksum fetched for it; GitHub may
answer anything at any time. `src` is the row with its pin and trust, `app` the
app row with its latest revision, `running` what is up, `busy` the request whose
operation is active. `update[u]` is a client: plan, confirm, apply, worker.
`base` is the row `UpdatePreview` read, `cur` the pin the worker read, which
`ApplySuccessfulUpdate` compares again in its transaction. `rev` is the revision
the preview read, in a query of its own before or after which another update may
commit: one of `app.latest`, those that share the greatest `created_at`. The
clock may not tell a new revision from the latest one or put it before it, so
what is read need not be what was recorded last. `left` and `stale` are history:
the pins an app has left, and that its source had moved on when it was installed. An uninstall is one
step because it excludes updates (`ExclusiveRuntimeCall`).

**Manifests, AppConsent.** A manifest keeps its id, project name, permissions,
storage, configuration keys, fixed ports and the two flags about migrations and
rollback; a description or a mount path is never compared. `Joined` is the
concatenation of an id and a storage name: different pairs may give the same
name, and in the instance two do. The operators are
the functions of `catalog.go` and `sources/service.go` of the same names.
`LastOfKind` is what a Go map filled from a list keeps. Requests and workers
are one step each. `latest` is the set of revisions `GetLatestRevision` may
return, because they share the greatest `created_at`; a revision recorded after
the clock stepped back is never one of them. `granted`, `owed` and `inOrder` are
history. Inline Compose is assumed: a referenced Compose file gets its
configuration and storage through the environment file only.

**DashboardStore.** `disk` is what is committed, `txn` what the open transaction
sees, `phase` where `OpenSQLite` stands. A block of the script is its set of
statements by the object each makes and whether it says IF NOT EXISTS; a plain
`CREATE TABLE` or `ADD COLUMN` fails if the object is there. `Migrations` is this
repository's script; `Script` is any. A release is the number of blocks it
embeds, and the script of an older release is taken to be a prefix. Whether a
start is in demo mode is chosen when the migrations are committed. Rejected
paths and links of the file stop a start before it touches anything and are
left out.

**Reports.** `hist` is every content the table of apps has had, the last is
current; a request remembers where it began, so `Met` are the tables that were
current during it. `conn` is the pool's only connection: a list query holds it
from its first row (`OpenRows`) to its last (`CloseRows`), single-row queries
and statements are one step. `Stages` is the order of the reads of each
handler. Every query may fail: `warned`, `lost` and `blind` say what of the
answer failed (a stage of a bundle, the lookup of one app, `hasTable`). Of
findings the rules that fire are kept, not their wording; the
demo's apps are the rules they make fire; the seeded summary counts 10 apps, 8 of
them running. Reads of rows no property is about
(attention, catalog, activity, sources, operations) are left out: each takes
and returns the connection like the others. Worker statements are
`AppOperations`' writes of `app_instances`, without their reasons.

Definitions marked "Faulty" or "Mutant" are no part of a specification: they
are plausible mistakes, used to see that each property would catch one.

## 4. Runs

| run | instance | shows |
|---|---|---|
| `ops_dbfaults` | 3 requests, statements fail at will, restart included | `NoOrphanContainers`, `ContainersHaveRevision`, `ImplementsOperationLog` |
| `ops_live` | 2 requests, 1 observer, fairness | `TypeOK`, `ExclusiveRuntimeCall`, `ActiveHasWorker`, `NoResurrection`, `EventuallySettled`, `SignalEndsProcess` |
| `ports` | 3 installs, 2 endpoints, 3 ports, one fixed | `TypeOK`, `NoReservationLeak`, `NoClashWithoutRace` |
| `endpoints` | 2 concurrent requests used again and again, 3 manifests, 2 container and 2 host ports of which one number is both, at most 1 earlier revision | `TypeOK`, `UrlsOfARevision`, `PortsKept` |
| `sessions` | 3 requests, 2 clients, limit 2, window 2, a table of 1 | `TypeOK`, `AtMostOneSession`, `TableBounded`, `AttemptsBounded`, `DenialJustified`, `AdminIsFixed`, `OnlyLoginOrLogoutEnds` |
| `backups` | 3 requests, keep 1 archive and none older than a tick | `TypeOK`, `NewestSurvive`, `RetentionHonoured`, `JobsTruthful`, `ImplementsShelf` |
| `sources` | 1 source, 1 app, 2 updating clients, 3 versions of 2 commits and 2 checksums, clock that may step back | `TypeOK`, `PinIsRevision`, `DivergenceReported`, `PinMovesAsReviewed`, `ReviewedBase`, `ChangedForGood` |
| `consent` | 2 apps, 18 manifests, 2 configurations, 2 revisions in a tie | `TypeOK`, `ConsentCovers`, `DataKept` |
| `reports` | releases with 1 and 4 blocks, a client that asks for everything and survives one failing query, one that polls the summary, 2 apps, 2 changes of the table | `TypeOK`, `DatabaseSound`, `ReportsExplained`, `Answered` |
| `claim_cancelled` | 1 request | refutes `CancelledIsRecorded` |
| `claim_changed` | 1 updating client | refutes `ChangedBlocksUpdates` |
| `claim_config` | 1 app, 9 manifests that differ in configuration | refutes `DeclaredConfigInjected` |

Why the bounds are enough. Three requests are an install and two operations
that race for its app, or an uninstall, a reinstall and a late worker of the
first app; crashes and restarts are not counted, only the requests are. One
catalog app is where conflicts happen, as requests for different apps share no
row. Three installs with two usable ports meet a full range. Of the manifests of `endpoints` one adds an endpoint, one swaps the
container ports and two fix a host port; port 8001 is a container port and a host
port; two requests are an update and the
observation, update or uninstall it races with, one after the other any number of
times. `MaxPast` = 1: one update is recorded; later ones deploy, from current and
overtaken lists, and their transaction fails. Longer chains of recorded updates are
left to the theorems. The limiter's table
of one with two clients is full; horizon 4 is two windows. Three backups are
two that trim while a third adds. Two updating clients are enough for one to
move the pin between the other's preview and its worker; each previews and
applies any number of times. One commit is offered with two contents, the other
with one. `MaxTied` = 1 there: a new revision is the latest or, after the clock
stepped back, is not; two that tie are left to the theorem and to `consent`.
`sources` reaches no reinstall (one install
request) and no second row for the same URL; the theorems cover both. The permission
lists of `consent` have no, one or both entries of a kind in either order, its
storage lists two names of one volume and another one, and two of its manifests
want the same project; any number of updates follow each other. In `reports` the
file is created and opened any number of times; release 1 stops before the
blocks that cannot be repeated and meets files of release 4; two changes of the table
during a request are three moments it can mix up. One failing query per request
(`MaxFaults`) meets every place where a failure is tolerated; the polling client
asks a subset of what the other asks and fails in no other way. Named bounds:
`Horizon`, `MaxClock`, `MaxKeys`, `MaxTied`, `MaxPast`, `MaxWrites`, `MaxFaults` and
the sets of requests.

`CHECK_DEADLOCK FALSE` is set for `backups` only: all its requests may be over,
and a crash there needs a busy one. The other instances can always crash or
restart.

Fairness. In `ops_live`: weak fairness of each handler, worker and observer,
because the Go scheduler runs every runnable goroutine and every runtime call
has a timeout; of the steps of shutdown in `main`; and of a start after a
crash, because the service unit says `Restart=on-failure`. Clients, signals,
crashes, disconnects and deadlines are not fair. `EventuallySettled` excuses a
shutdown and an update past its deadline, as the code cannot write then. In
`reports`: strong fairness of the steps of each request, because `database/sql`
hands a connection that is returned to one of the callers waiting for it, so
none of finitely many is passed over for ever; nothing else is fair.

## 5. Proofs

All theorems hold for every value of the constants that satisfies the named
assumptions, and with any number of crashes.

- **Engine.** `Inv` adds to the two container invariants what handlers
  and workers rely on between their calls: what a request is at each step
  (`RequestInv`), that nobody knows an app id before its row exists (`FreshInv`),
  the constraints of the schema (`StoreInv`), which installs have a revision
  (`RevisionInv`) and what a worker may assume of its row (`WorkerInv`). The
  weight is in `WorkerInv`: "deleting" implies that the project is down, hence
  deleting the row orphans nothing; a row of a running install cannot disappear.
  `Refinement` follows step by step, and from it `SettledNeverChanges`; no run
  checks `SettledForever` beside the refinement. `DeletedStaysDeleted` needs that only
  the handler of an install inserts its app, once. `ActiveIsAttended` rests on
  `AttendedInv`, which names the steps a worker has before it settles: after its
  attempt the row can only be active still if SQLite failed for no reason, which
  `~DbFaults` excludes, or an update's deadline ended the statement. `Exclusion` needs
  `FaultFreeInv` and `~DbFaults`: if SQLite may fail for no reason, the rollback
  of an install whose `CreateRevision` failed may delete the app after another
  request started an operation on it, and a reinstall then runs beside it.
- **Ports.** `NoLeak` needs types only. `ReservationSeparates` rests on
  `ApartInv`: without a race there is one chooser, whoever is in flight has
  reserved what it holds, and the chooser tests reservations. It assumes that
  manifests fix no port of the ephemeral range, as fixed ports are not tested.
- **Endpoints.** `IInv` joins types, `Engine` (a worker owns the active
  operation of an app that exists), `Following` (Docker publishes what the
  containers were created with), `Copies` and `Deployed` (an update that is about to
  be recorded runs what it will record). `Copies`: the row, and every copy of it in
  memory, is the list of one revision (`ListOf`), the current one unless it is marked
  as overtaken. It is inductive because `endpointModels` and `RenderComposeFiles`
  read one map (`ModelsList`), and because an observation changes no URL but one
  whose host port is the number of a container port, which `ListOf` leaves open
  (`UpdateKeepsList`). `UrlsOfOneRevision` follows with `Following`; `KeepsPorts` with
  `CarriesList`: what is carried over by label from the list of a revision are that
  revision's ports. Nothing is assumed of labels or ports. That the last match of a
  label exists is by well-founded minimality, not induction.
- **Sessions.** The limiter's table is bounded because a full table is swept
  before a new key may enter. `SessionInv` joins at most one session with "no
  session without administrator", without which the bootstrap's session could
  be a second one. `AttemptsStayBounded` accounts for the attempts of a client:
  some positions of its history start a window (`WindowsInv`), windows do not
  overlap, every run of `LoginLimit` attempts has a start, and while the client's
  entry is open the last start and the entry agree. Twice the limit in a row
  reach over two starts, hence a whole window. A sweep drops only entries that
  have ended, so it takes no window away.
  `DenialsAreJustified` compares the table after a sweep with the open windows.
  `SessionsImplementLimiter` shows that the handlers only use the limiter as its
  own specification allows.
- **Backups.** `JustifiedInv`: every recorded archive that is no longer listed
  and whole, and every archive on any request's list, is outranked by `Keep`
  intact archives or too old. The induction is that removing such an archive
  `d` takes this away from no other archive `a`: if `d` is newer than `a`,
  whatever outranks `d` outranks `a`; if `d` is too old, so is `a`; and if
  `d` is not newer than `a`, it does not count for `a`. `RetentionIsHonoured`
  follows a request through its second loop: what it will leave of the archives
  recorded up to its own (`Kept`) is within its limits from the moment it reads the
  list. Archives recorded later have higher numbers (`SeqInv`) and do not count, removals
  by others only help, and n positions of the list hold at most n archives
  (`PositionsCount`, an injection into 1..n). `Refinement` combines these: an archive
  on a request's list is justified (`JustifiedInv`) at the very step that removes
  it, however old the list is.
- **Consent.** `ConsentInv` (what the manifest of an app and each revision that
  may be "latest" asks was granted) is inductive by `NoIncreaseNoConsent`: an
  update that needs no acknowledgement asks for nothing beyond the revision it
  was compared with. `DataInv` says that, while revisions are in order, this is
  the revision that runs, and that the names Docker has for an app's volumes start
  with its project, in which installed apps differ (`evaluateConflicts`) and which
  no update changes; how ids and storage names join does not matter.
- **Reports.** `IInv` says that the objects of the file, and of the transaction,
  are those the recorded blocks make (one more between a block and its record).
  A block then applies because an unguarded statement makes an object of no
  earlier block (`FreshAssumption`, which TLC evaluates for the real script).
  `AnswersExplained` rests on `AnswerInv`, which says for each place in a handler
  what the request has read so far: rows being read are one table it met, or none
  if `hasTable` failed (`StepInv`), counts, list, findings and inventory once taken
  are of one, or marked as failed (`CountsInv`, `ListInv`, `BundleInv`, `ListedInv`,
  `WarnedInv`), and apps are missed only if some table met lacked them or their lookup
  failed (`GoneInv`). A request reads by one statement or holds
  the connection, so others move between its queries and never within one; the
  tables met only grow (`MetGrows`).
- **Sources.** `HolderInv` (a worker holds the active operation) makes
  `UpInv` inductive: from its deployment to its end the confirmed version is
  up. With `RequestInv` (the pin read by the worker has the commit of the
  preview) and the compare-and-set this gives the action properties, and with
  `ForeignKey` the agreement of pin and revision. `ReviewsBase` adds what the
  two reads of a preview saw (`BaseInv`): if the pin has not left and come back
  since, the revision reviewed is still one that `GetLatestRevision` may return when
  it is replaced, hence the recorded one if `created_at` tells them apart.

Assumptions: `OfferedAssumption`, `DbFaultsAssumption`, `PortsAssumption`,
`EndpointsAssumption`,
`LimiterAssumption`, `SessionsAssumption`, `BackupsAssumption`,
`SourcesAssumption`, `ConsentAssumption`, `ScriptAssumption`, `FreshAssumption`,
`HolderAssumption`, `ReportAssumption`. But for `FreshAssumption` they say that
constants are distinct, finite, natural or well-formed.

Every safety invariant, action property and refinement of the runs is proved.
Three theorems have a hypothesis on the constants: `Exclusion` and
`ActiveIsAttended` need `~DbFaults`, like the run that checks their properties,
and `ReservationSeparates` that manifests fix no ephemeral port.

Other exceptions are part of the properties themselves, hence of the theorems
about them. Each is a behaviour that the model has and that does happen (section 6):

| property | holds except |
|---|---|
| `NoClashWithoutRace` | after two installs were between choosing and reserving at once (`raced`) |
| `UrlsOfARevision` | a URL may be of an earlier revision after an overtaken observation (`torn`); a host port that is a container port's number may show as any port (`Shows`); that the URL leads to the app is said where the containers have the ports of the current file and the file names the host port |
| `PortsKept` | the ports may be those of an earlier revision if the update's copy of the row was overtaken (`stale`); they are found under the labels of the revision taken for the latest, which may be an older one if the clock does not tell them apart; `Shows` as above |
| `PinIsRevision` | an app installed from a copy of the source row that another update had overtaken (`stale`) until its next update |
| `ReviewedBase` | the source came back to a commit the app had left; of revisions that share the greatest `created_at` the review may have read any |
| `DataKept` | for an app two of whose revisions were created in one second or out of order (`inOrder`), a volume may disappear without acknowledgement; that no other app gets it has no exception |
| `ReportsExplained` | what a failed query was for: a bundle's stage it warns about, an app whose lookup failed, demo rows if `hasTable` failed |
| `DivergenceReported` | the last operation was not reported as completed |
| `ActiveHasWorker` | a process that shuts down; an update past its deadline |

Only model-checked: `EventuallySettled`, `SignalEndsProcess` and `Answered`, as
fairness and ENABLED are beyond the prover.

## 6. Where the code and its texts disagree

Shown by a run:

- *Cancelled operations* (`claim_cancelled`): a worker's status is written
  through the context whose cancellation it should report, so after a signal
  the row stays "running" until the next start marks it failed.
- *Changed sources* (`claim_changed`): updates are blocked only by drift in the
  same preview, never by the trust that was stored.
- *Configuration of updates* (`claim_config`): an updated app runs with the
  configuration of its install, without the keys its new manifest declares.

Part of the models, with no run of their own:

- *Port race*: "it removes the intra-process race", says `compose.go:22` of the
  reservation, but testing a port and reserving it are two critical sections:
  two installs may both find a port free and both take it.
  `NoClashWithoutRace` has the absence of this case as its premise.
- Demo rows are inserted whenever a start in demo mode misses them, also beside
  real apps (`docs/configuration.md:20` says: into an empty database); the
  protection shown as armed may be the demo's.
- An app whose containers run but fail their health checks is shown as healthy:
  only the gate of updates reads the health of containers.
- Deleting an app deletes the uninstall's own operation by cascade, so the
  frontend that polls it (`docs/user-guide.md`) gets 404 at the end.
- An endpoint's URL has the host port, but `updateEndpoints` looks that number
  up among the container ports. Published ports are therefore never followed,
  although reading an app is said to update them (`docs/user-guide.md:39`, the
  comment at `handlers.go:342`); an endpoint that an update adds keeps port 0 in its
  URL for ever; and a host port with the number of a container port of the app is
  exchanged for that port's host port, which the next update then deploys.
- An observation begun before an update writes the old list of endpoints over
  the new one (`torn`); the next update then carries ports over from it, as does an
  update whose handler read the row before another one committed (`stale`).
  Endpoints that only the newer revision has lose their host ports.
- With equal labels in a manifest, an update gives both endpoints the host port
  of the last one.
- `GetLatestRevision` orders by `created_at` in whole seconds. After two revisions
  in one second, or a step back of the clock, an update is reviewed against, and
  rolled back to, a revision that does not run.
- A query that fails is often taken for an answer: if `hasTable` fails, the summary
  and the list show the demo's rows although apps are installed; `GetApp` answers
  404 and the recovery preview "no conflict" on any error of the lookup; a bundle
  that cannot read the protection has the one finding "healthy" beside its warning.
- With no app installed, the summary counts the demo's 10 apps, 8 of them running,
  wherever the demo was seeded.
- `wg.Add` runs in the new goroutine, so `Handlers.Wait` may return before an
  accepted operation is counted.
- An operation is completed before its worker has written the app's status, so
  the tail of one worker runs beside the next operation. Runtime calls still
  exclude each other.
- After a stop, if Compose lists no container, the closing observation writes
  back the status the app had before the stop.
- A client that disconnects between an install's inserts cancels the rollback
  too; an app row in status "installing" stays and can be uninstalled.
- `reservedPorts` has no counts: of two installs that hold the same port, the
  first to finish releases it for both.
- `Sources.Add` resolves the ref again and stores what it then gets, not what
  the preview showed.
- `RemoveSource` checks and deletes in two statements; an app inserted between
  them loses its `source_id`.
- Backup jobs of a dead process stay "running": nothing recovers them.

Met while reading, outside the models:

- `urlPort` in the conflict check of an install plan returns 0 for a URL with a
  path, so a fixed port that a web endpoint uses is not reported.
- The shipped manifest of Uptime Kuma declares the endpoint port 3001 twice,
  which `ValidateManifest` rejects.

## 7. Not modelled

SQLite, Docker, the kernel and GitHub are environments that do what the code's
use of them expects or fail. A panic is either a failed call (in the runtime
call, where it is recovered) or a crash; that the status write and the observation
after a completed operation might panic is left out, so `SettledForever` does not
cover it (the worker's deferred recover would write "failed" over "completed"). The data race on `op.Status` between a
handler's response and its worker affects the response only. Containers that
change by themselves, and that `docker compose ps` may leave out stopped ones,
are not modelled beyond the choice of what an observation returns.

Left out because they are data or plumbing without lasting state
(`PROJECT.json` lists each component with its reason): passwords, tokens,
cookies and CSRF; paths, archive contents and Compose text; the parsing of URLs
and of the configuration; redaction and the wording of reports; router and
middleware, the no-op runtime, the in-memory store, the payloads of the seed and
the web frontend. Of previews, what is shown and never acted on is left out:
the list of risks, changes of descriptions and mount paths, and the conflicts
computed for the new plan, which updates ignore. `EvaluateBackupSignals` has no
caller. Backup schedules are stored and never run, and verification has no
verifier in the server, so neither has a step.
