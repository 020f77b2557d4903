------------------------------ MODULE Reports ------------------------------
(***************************************************************************)
(* What a running OpenDash tells its user: the summary, the list of apps,  *)
(* the diagnostics support bundle and the recovery inventory.  Each is put *)
(* together from several queries that share one connection (DashboardStore *)
(* holds it), while workers install, change and remove apps.  The rows of  *)
(* the apps are kept apart from "disk": only single statements touch them. *)
(* Any query may fail.                                                     *)
(***************************************************************************)
EXTENDS DashboardStore, FiniteSets

CONSTANTS
    Asks,       \* the kinds of requests each client makes
    AppIds,     \* every install gets a new id (uuid)
    MaxWrites,  \* bound: how often the table of apps may change
    MaxFaults   \* bound: the failed queries a request of each client survives

ASSUME ReportAssumption ==
    /\ MaxWrites \in Nat /\ MaxFaults \in [Clients -> Nat]
    /\ Asks \in [Clients -> SUBSET {"summary", "apps", "detail", "bundle", "export",
                                "preview"}]

VARIABLES
    hist,   \* every content the table of apps has had, the last is current
    used,   \* the ids ever given to an app (history)
    req     \* the request each client has running

vars == <<disk, txn, phase, release, conn, saved, hist, used, req>>

Row(status, health) == [status |-> status, health |-> health]
Installing == Row("installing", "unknown")
Rows == [status : {"installing", "running", "stopped", "error"},
         health : {"unknown", "healthy", "critical"}]
Tables == UNION {[ids -> Rows] : ids \in SUBSET AppIds}
NoApps == [i \in {} |-> Installing]
apps == hist[Len(hist)]

\* hasTable
HasTable == "app_instances" \in disk.objects
Installed == IF HasTable THEN apps ELSE NoApps

----------------------------------------------------------------------------
\* The answers.

\* The rows a listing is made of: apps of the table, or the seeded ones.
Listing(rows) == [demo |-> FALSE, rows |-> rows]
DemoListing == [demo |-> TRUE, rows |-> NoApps]
Total(rows) == Cardinality(DOMAIN rows)
Running(rows) == Cardinality({i \in DOMAIN rows : rows[i].status = "running"})
\* Faulty: the seeded apps are shown whenever no app is running.
NoneRunning(rows) == Running(rows) = 0
\* The seeded rows stand in only while no app is installed.
FallsBack(rows) == DOMAIN rows = {}

\* The seeded summary counts 10 apps, 8 of them running; without it there are none.
DemoCounts == IF "summary" \in disk.rows THEN <<10, 8>> ELSE <<0, 0>>
Counts(rows) == IF FallsBack(rows) THEN DemoCounts ELSE <<Total(rows), Running(rows)>>

\* The rules of diagnostics.Evaluate that fire for the installed apps.
AppRules(rows) ==
    LET status == {rows[i].status : i \in DOMAIN rows}
        health == {rows[i].health : i \in DOMAIN rows}
    IN  {r \in {"app-critical", "no-running-apps", "stopped-apps"} :
            CASE r = "app-critical" -> "error" \in status \/ "critical" \in health
              [] r = "no-running-apps" -> status # {} /\ "running" \notin status
              [] r = "stopped-apps" -> "stopped" \in status}
\* The rules the seeded apps make fire; a database without the row has none.
DemoRules(seeded) ==
    IF seeded THEN {"app-critical", "app-warning", "updates-pending", "stopped-apps"} ELSE {}
\* The seeded protection is armed; the default one is offline.
Evaluate(listing, seededApps, seededProtection) ==
    LET fired == (IF listing.demo THEN DemoRules(seededApps) ELSE AppRules(listing.rows))
                    \cup IF seededProtection THEN {} ELSE {"protection-not-armed"}
    IN  IF fired = {} THEN {"healthy"} ELSE fired

\* What the containers of a project show: none, all running, all stopped, else.
Observations == {"none", "running", "stopped", "mixed"}
\* Faulty: the state Docker names becomes the status of the app.
Verbatim(row, obs) == Row(obs, "unknown")
\* observedToAppInstanceStatus
Observed(row, obs) ==
    CASE obs = "none" -> Row(row.status, "unknown")
      [] obs = "running" -> Row("running", "healthy")
      [] obs = "stopped" -> Row("stopped", "unknown")
      [] obs = "mixed" -> Row("error", "critical")

----------------------------------------------------------------------------
\* Requests: the stages of each handler, in order.  warned: the stages a bundle
\* warns about; lost and blind are history: the apps whose lookup failed, and the
\* stages in which the query of hasTable did.
Stages == [summary |-> <<"summary">>,
           apps    |-> <<"list", "observe">>,
           detail  |-> <<"detail", "observe">>,
           bundle  |-> <<"summary", "list", "again", "findings", "each">>,
           export  |-> <<"again", "each">>,
           preview |-> <<"each">>]
Idle == [kind |-> "none", rest |-> <<>>, step |-> "idle", from |-> 1, todo |-> {},
         rows |-> NoApps, shown |-> DemoListing, counts |-> <<>>,
         asked |-> {}, base |-> NoApps, listed |-> NoApps, gone |-> {}, findings |-> {},
         warned |-> {}, lost |-> {}, blind |-> {}]
Done(c) == req[c].kind # "none" /\ req[c].rest = <<>>
At(c, stage) == req[c].rest # <<>> /\ Head(req[c].rest) = stage
Query(c, step) == phase = "serve" /\ conn = Free /\ req[c].step = step
\* The stage is over; the next one begins.
Advance(r) == [r EXCEPT !.rest = Tail(@), !.step = "begin", !.rows = NoApps]

MayFail(c) ==
    Cardinality(req[c].warned) + Cardinality(req[c].lost) + Cardinality(req[c].blind) < MaxFaults[c]
\* The listing or count of a stage failed: a bundle warns and goes on without it,
\* any other request is answered with the error, a detail with 404.
Failed(r) ==
    IF r.kind # "bundle" THEN Idle
    ELSE Advance([r EXCEPT !.warned = @ \cup {Head(r.rest)}, !.todo = {},
                           !.shown = IF Head(r.rest) = "list" THEN Listing(NoApps) ELSE @])

ReportsInit ==
    /\ StoreInit
    /\ hist = <<NoApps>>
    /\ used = {}
    /\ req = [c \in Clients |-> Idle]

\* A statement that changes the table; the bound is on how often it changes.
WriteApps(t) ==
    IF t = apps THEN UNCHANGED hist
    ELSE Len(hist) <= MaxWrites /\ hist' = Append(hist, t)

\* A detail is asked of an app that was listed once, a preview with an
\* inventory, which may name any apps.
Named(kind) ==
    CASE kind = "detail" -> {{i} : i \in used}
      [] kind = "preview" -> SUBSET AppIds
      [] OTHER -> {{}}

Begin(c, kind) ==
    /\ phase = "serve"
    /\ req[c].kind = "none"
    /\ \E ids \in Named(kind) :
        req' = [req EXCEPT ![c] = [Idle EXCEPT !.kind = kind, !.rest = Stages[kind],
                    !.step = "begin", !.from = Len(hist), !.todo = ids, !.asked = ids]]
    /\ UNCHANGED <<storeVars, hist, used>>

Lists(c) == \E stage \in {"summary", "list", "again"} : At(c, stage)

\* ListAppInstances: the rows are open, and the connection held, until all are read.
\* The others ask hasTable before.
OpenRows(c) ==
    /\ Query(c, "begin")
    /\ Lists(c)
    /\ At(c, "again") => HasTable
    /\ conn' = c
    /\ req' = [req EXCEPT ![c].rows = Installed, ![c].step = "rows"]
    /\ UNCHANGED <<disk, txn, phase, release, saved, hist, used>>

\* What is done with the rows, once they are closed.
Use(r) ==
    CASE Head(r.rest) = "summary" ->
            Advance([r EXCEPT !.counts = Counts(r.rows)])
      [] Head(r.rest) = "list" ->
            IF FallsBack(r.rows) THEN [r EXCEPT !.step = "demo"]
            ELSE [r EXCEPT !.step = "trust", !.todo = DOMAIN r.rows]
      [] Head(r.rest) = "again" ->
            Advance([r EXCEPT !.listed = r.rows, !.todo = DOMAIN r.rows])
\* Faulty: the source of an app is looked up inside the loop over the open rows.
InsideLoop(r) == IF Head(r.rest) = "list" /\ ~FallsBack(r.rows) THEN conn ELSE Free
\* The connection once the rows are read: ListAppInstances closes them first.
AfterRows(r) == Free

CloseRows(c) ==
    /\ phase = "serve"
    /\ conn = c
    /\ conn' = AfterRows(req[c])
    /\ req' = [req EXCEPT ![c] = Use(@)]
    /\ UNCHANGED <<disk, txn, phase, release, saved, hist, used>>

\* The query of a listing, of the summary row or of the seeded apps fails, or the
\* reading of its rows does.
FailRows(c) ==
    /\ \/ Query(c, "begin") /\ Lists(c)
       \/ Query(c, "demo")
       \/ phase = "serve" /\ conn = c
    /\ MayFail(c) \/ (At(c, "again") /\ ~HasTable)
    /\ conn' = Free
    /\ req' = [req EXCEPT ![c] = Failed(@)]
    /\ UNCHANGED <<disk, txn, phase, release, saved, hist, used>>

\* The query of hasTable fails: for GetSummary and ListApps there is no table.
MissTable(c) ==
    /\ Query(c, "begin")
    /\ MayFail(c)
    /\ \E stage \in {"summary", "list"} :
        /\ At(c, stage)
        /\ req' = [req EXCEPT ![c] =
                Use([req[c] EXCEPT !.rows = NoApps, !.blind = @ \cup {stage}])]
    /\ UNCHANGED <<storeVars, hist, used>>

\* ListApps reads the seeded apps instead; their ids are not in the table, so
\* nothing is observed, and the app that was asked for is not found.
ReadDemo(c) ==
    /\ Query(c, "demo")
    /\ req' = [req EXCEPT ![c] =
            Advance([@ EXCEPT !.shown = DemoListing, !.todo = {}, !.gone = req[c].asked])]
    /\ UNCHANGED <<storeVars, hist, used>>

\* All apps of a list are observed, or the one a detail is about.
Wanted(r) == IF r.kind = "detail" THEN r.asked \cap DOMAIN r.rows ELSE DOMAIN r.rows

\* instanceToInstalledApp asks for the source of each app; GetApp then looks for
\* its app in the list.
ReadTrust(c) ==
    /\ Query(c, "trust")
    /\ \E i \in req[c].todo :
        LET left == req[c].todo \ {i} IN
        req' = [req EXCEPT ![c] =
            IF left # {} THEN [@ EXCEPT !.todo = left]
            ELSE Advance([@ EXCEPT !.shown = Listing(req[c].rows), !.todo = Wanted(req[c]),
                                   !.gone = req[c].asked \ DOMAIN req[c].rows])]
    /\ UNCHANGED <<storeVars, hist, used>>

\* GetApp: the row, or the whole list: any error of hasTable or GetAppInstance is
\* taken for a missing app.
ReadApp(c) ==
    /\ Query(c, "begin")
    /\ At(c, "detail")
    /\ \E i \in req[c].asked :
        \/ /\ i \in DOMAIN apps
           /\ req' = [req EXCEPT ![c].rows = [j \in {i} |-> apps[j]], ![c].step = "trust"]
        \/ req' = [req EXCEPT ![c].todo = {}, ![c].rest = Stages["apps"]]
    /\ UNCHANGED <<storeVars, hist, used>>

\* observeApp: the row is read again and Docker asked about its project; an app
\* whose row is missing, or cannot be read, is shown as it was listed ...
ReadRow(c) ==
    /\ Query(c, "begin")
    /\ At(c, "observe")
    /\ \E i \in req[c].todo :
        \/ /\ i \in DOMAIN apps
           /\ req' = [req EXCEPT ![c].base = [j \in {i} |-> apps[i]], ![c].step = "observed"]
        \/ req' = [req EXCEPT ![c].todo = @ \ {i}]
    /\ UNCHANGED <<storeVars, hist, used>>

\* ... which fails, or the new state is written to the row if it still exists.
WriteObserved(c) ==
    /\ Query(c, "observed")
    /\ \E i \in DOMAIN req[c].base :
        LET seen == [req[c] EXCEPT !.step = "begin", !.todo = @ \ {i}, !.base = NoApps] IN
        \/ /\ req' = [req EXCEPT ![c] = seen]
           /\ UNCHANGED hist
        \/ \E obs \in Observations :
            LET row == Observed(req[c].base[i], obs) IN
            /\ i \in DOMAIN apps
            /\ WriteApps([apps EXCEPT ![i] = row])
            /\ req' = [req EXCEPT ![c] = [seen EXCEPT !.shown.rows[i] = row]]
    /\ UNCHANGED <<storeVars, used>>

\* Nothing is left to observe, or to look up for the apps of a bundle.
EndStage(c) ==
    /\ req[c].step = "begin"
    /\ At(c, "observe") \/ At(c, "each")
    /\ req[c].todo = {}
    /\ req' = [req EXCEPT ![c] = Advance(@)]
    /\ UNCHANGED <<storeVars, hist, used>>

\* BuildBundle reads the protection row and evaluates the listing it has; without
\* the row it warns and finds nothing, which a bundle calls healthy.
Diagnose(c) ==
    /\ Query(c, "begin")
    /\ At(c, "findings")
    /\ \/ req' = [req EXCEPT ![c] = Advance([req[c] EXCEPT !.shown = DemoListing,
              !.findings = Evaluate(req[c].shown, "apps" \in disk.rows, "protection" \in disk.rows)])]
       \/ /\ MayFail(c)
          /\ req' = [req EXCEPT ![c] = Advance([req[c] EXCEPT !.shown = DemoListing,
                !.findings = {"healthy"}, !.warned = @ \cup {"findings"}])]
    /\ UNCHANGED <<storeVars, hist, used>>

\* The archives of one app of an inventory, if it still has any; or the revision
\* (bundle) or the row (preview) of one app: a bundle warns of those it cannot
\* read, and a preview reports no conflict with them.
ReadEach(c) ==
    /\ Query(c, "begin")
    /\ At(c, "each")
    /\ \E i \in req[c].todo :
        LET read == [req[c] EXCEPT !.todo = @ \ {i}] IN
        \/ /\ i \in DOMAIN apps \/ req[c].kind = "export"
           /\ req' = [req EXCEPT ![c] = read]
        \/ /\ i \notin DOMAIN apps /\ req[c].kind # "export"
           /\ req' = [req EXCEPT ![c] = [read EXCEPT !.gone = @ \cup {i}]]
        \/ /\ MayFail(c)
           /\ req' = [req EXCEPT ![c] = IF req[c].kind = "export" THEN Idle
                        ELSE [read EXCEPT !.gone = @ \cup {i}, !.lost = @ \cup {i}]]
    /\ UNCHANGED <<storeVars, hist, used>>

Reply(c) ==
    /\ Done(c)
    /\ req' = [req EXCEPT ![c] = Idle]
    /\ UNCHANGED <<storeVars, hist, used>>

----------------------------------------------------------------------------
\* Workers: each writes the table of apps with one statement.
Worker == phase = "serve" /\ conn = Free /\ HasTable

CreateAppInstance(i) ==
    /\ Worker
    /\ i \notin used
    /\ used' = used \cup {i}
    /\ WriteApps([j \in DOMAIN apps \cup {i} |-> IF j = i THEN Installing ELSE apps[j]])
    /\ UNCHANGED <<storeVars, req>>

UpdateAppInstanceStatus(i, status) ==
    /\ Worker
    /\ i \in DOMAIN apps
    /\ WriteApps([apps EXCEPT ![i] = Row(status, "unknown")])
    /\ UNCHANGED <<storeVars, used, req>>

DeleteAppInstance(i) ==
    /\ Worker
    /\ i \in DOMAIN apps
    /\ WriteApps([j \in DOMAIN apps \ {i} |-> apps[j]])
    /\ UNCHANGED <<storeVars, used, req>>

\* The process dies and every request with it.
Crash ==
    /\ Die
    /\ req' = [c \in Clients |-> Idle]
    /\ UNCHANGED <<hist, used>>

Serve(c) ==
    \/ OpenRows(c) \/ CloseRows(c) \/ FailRows(c) \/ MissTable(c) \/ ReadDemo(c)
    \/ ReadTrust(c) \/ ReadApp(c) \/ ReadRow(c) \/ WriteObserved(c) \/ EndStage(c) \/ Diagnose(c) \/ ReadEach(c) \/ Reply(c)

Next ==
    \/ Open /\ UNCHANGED <<hist, used, req>>
    \/ \E p \in PrefInputs : SavePreferences(p) /\ UNCHANGED <<hist, used, req>>
    \/ \E c \in Clients : \E kind \in Asks[c] : Begin(c, kind)
    \/ \E c \in Clients : Serve(c)
    \/ \E i \in AppIds :
        \/ CreateAppInstance(i)
        \/ \E status \in {"running", "stopped", "error"} : UpdateAppInstanceStatus(i, status)
        \/ DeleteAppInstance(i)
    \/ Crash

\* Queries run to their end, and database/sql hands a connection that is
\* returned to one of those waiting for it: a waiter is not passed over for ever.
Spec == ReportsInit /\ [][Next]_vars /\ \A c \in Clients : SF_vars(Serve(c))

----------------------------------------------------------------------------
TypeOK ==
    /\ StoreTypeOK
    /\ hist \in Seq(Tables) /\ Len(hist) \in 1 .. MaxWrites + 1
    /\ used \in SUBSET AppIds
    /\ \A c \in Clients :
        /\ req[c].kind \in DOMAIN Stages \cup {"none"}
        /\ {req[c].rows, req[c].base, req[c].shown.rows, req[c].listed} \subseteq Tables
        /\ UNION {req[c].todo, req[c].gone, req[c].asked, req[c].lost} \subseteq AppIds
        /\ UNION {req[c].warned, req[c].blind} \subseteq {"summary", "list", "again", "findings"}
        /\ req[c].from \in 1 .. Len(hist)

\* Tables a request may have met; a stage whose hasTable failed met none.
Met(c) == {hist[k] : k \in req[c].from .. Len(hist)}
Seen(c, stage) == Met(c) \cup IF stage \in req[c].blind THEN {NoApps} ELSE {}

\* A summary, a list, a set of findings and an inventory are each about one
\* moment of the request (sqlite.go:204-246, bundle.go:90-111, recovery.go:45):
\* rows of the demo are never mixed with apps and stand in only if there was
\* no app at that moment.  A bundle joins two such moments.  An app looked
\* up one by one is missed, or called a conflict, only if it was.
\* Failed queries are the exception, and what is then shown is this.  A bundle
\* warns of what it could not read: it has no summary then, no inventory, the
\* findings for no apps, or "healthy" if the protection could not be read.  The
\* demo stands in, without a warning, if the query of hasTable failed.  An app
\* whose lookup failed counts as missing.
SummaryExplained(c) ==
    IF "summary" \in req[c].warned THEN req[c].counts = <<>>
    ELSE \E t \in Seen(c, "summary") :
            req[c].counts = IF DOMAIN t = {} THEN DemoCounts ELSE <<Total(t), Running(t)>>
ListExplained(c) ==
    \E t \in Seen(c, "list") :
        DOMAIN req[c].shown.rows = DOMAIN t /\ (req[c].shown.demo <=> DOMAIN t = {})
Findings(demo, t) ==
    Evaluate([demo |-> demo, rows |-> t], "apps" \in disk.rows, "protection" \in disk.rows)
FindingsExplained(c) ==
    IF "findings" \in req[c].warned THEN req[c].findings = {"healthy"}
    ELSE IF "list" \in req[c].warned THEN req[c].findings = Findings(FALSE, NoApps)
    ELSE \E t \in Seen(c, "list") : req[c].findings = Findings(DOMAIN t = {}, t)
InventoryExplained(c) ==
    IF "again" \in req[c].warned THEN req[c].listed = NoApps ELSE req[c].listed \in Met(c)
GoneExplained(c) ==
    /\ \A i \in req[c].gone \ req[c].lost : \E t \in Seen(c, "list") : i \notin DOMAIN t
    /\ \A i \in req[c].asked \ req[c].gone : \E t \in Met(c) : i \in DOMAIN t
ReportsExplained ==
    \A c \in Clients : Done(c) =>
        /\ req[c].kind \in {"summary", "bundle"} => SummaryExplained(c)
        /\ req[c].kind = "apps" => ListExplained(c)
        /\ req[c].kind = "bundle" => FindingsExplained(c)
        /\ req[c].kind \in {"bundle", "export"} => InventoryExplained(c)
        /\ GoneExplained(c)

\* No request waits for ever for the one connection (sqlite.go:61): none keeps
\* the rows of one query open while it asks another.
Answered == \A c \in Clients : (req[c].kind # "none") ~> (req[c].kind = "none")
=============================================================================
