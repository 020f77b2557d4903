---------------------------- MODULE ReportsProofs ----------------------------
(***************************************************************************)
(* For every migration script whose unguarded statements make new objects, *)
(* every set of releases and every traffic: DatabaseSound; and every       *)
(* answer of a running process is about moments of its own request.        *)
(***************************************************************************)
EXTENDS Reports, FiniteSetTheorems, TLAPS

N == Len(Script)

\* The phases in which the script is being applied.
Applied == IF phase = "record" THEN txn.version + 1 ELSE txn.version

IInv ==
    /\ disk \in Database
    /\ txn \in Database
    /\ phase \in Phases
    /\ release \in Releases
    /\ phase = "record" => txn.version < release
    /\ disk.objects = MadeBy(disk.version)
    /\ txn.objects = MadeBy(Applied)
    /\ SeedWhole
    /\ phase # "insert" => txn.rows = disk.rows
    /\ PrefsKept
    /\ txn.prefs = disk.prefs

\* The script has N blocks and no release embeds more.
LEMMA ScriptLength == N \in Nat /\ DOMAIN Script = 1 .. N /\ Releases \subseteq 0 .. N
  BY ScriptAssumption DEF N

\* One more block adds what it makes.
LEMMA MadeByNext ==
  ASSUME NEW n \in 0 .. N, n < N
  PROVE  MadeBy(n + 1) = MadeBy(n) \cup Makes(Script[n + 1])
<1>1. 1 .. n + 1 = (1 .. n) \cup {n + 1}
  BY ScriptLength
<1> QED
  BY <1>1 DEF MadeBy

\* The whole script makes what any of its beginnings makes.
LEMMA MadeByAll == \A n \in 0 .. N : MadeBy(n) \subseteq MadeBy(N)
<1> SUFFICES ASSUME NEW n \in 0 .. N PROVE MadeBy(n) \subseteq MadeBy(N)
  OBVIOUS
<1>1. 1 .. n \subseteq 1 .. N
  BY ScriptLength
<1> QED
  BY <1>1 DEF MadeBy

\* No block makes nothing.
LEMMA MadeByNothing == MadeBy(0) = {}
<1>1. 1 .. 0 = {}
  OBVIOUS
<1> QED
  BY <1>1 DEF MadeBy

\* A database that holds what the recorded blocks made can take the others.
LEMMA SchemaOpens ==
  ASSUME disk \in Database, disk.objects = MadeBy(disk.version)
  PROVE  NeverBricked
<1> DEFINE v == disk.version
           Before(b) == disk.objects \cup UNION {Makes(Script[k]) : k \in v + 1 .. b - 1}
<1>1. v \in 0 .. N
  BY DEF Database, N
<1> SUFFICES ASSUME NEW b \in v + 1 .. N, NEW s \in Script[b], s.object \in Before(b)
             PROVE  s.guarded
  BY DEF NeverBricked, Applies, N
<1>2. PICK k \in 1 .. b - 1 : s.object \in Makes(Script[k])
  <2>1. \A k \in 1 .. v : k \in 1 .. b - 1
    BY <1>1, ScriptLength
  <2>2. \A k \in v + 1 .. b - 1 : k \in 1 .. b - 1
    BY <1>1, ScriptLength
  <2>3. CASE s.object \in disk.objects
    BY <2>1, <2>3 DEF MadeBy
  <2>4. CASE s.object \in UNION {Makes(Script[k]) : k \in v + 1 .. b - 1}
    BY <2>2, <2>4
  <2> QED
    BY <2>3, <2>4
<1>3. k \in DOMAIN Script /\ b \in DOMAIN Script /\ k < b
  BY <1>1, <1>2, ScriptLength
<1>4. PICK r \in Script[k] : r.object = s.object
  BY <1>2 DEF Makes
<1>5. ~s.guarded => r.object # s.object
  BY <1>3, <1>4, FreshAssumption
<1> QED
  BY <1>4, <1>5

\* A file that does not exist yet is sound.
LEMMA Inits == ReportsInit => IInv
<1> SUFFICES ASSUME ReportsInit PROVE IInv
  OBVIOUS
<1>1. disk = NewFile /\ txn = NewFile /\ phase = "down" /\ release \in Releases /\ saved = Default
  BY DEF ReportsInit, StoreInit
<1>2. NewFile \in Database
  BY ScriptLength DEF NewFile, Database, N
<1>3. NewFile.objects = MadeBy(NewFile.version)
  BY MadeByNothing DEF NewFile
<1> QED
  BY <1>1, <1>2, <1>3 DEF IInv, Applied, SeedWhole, PrefsKept, Phases, NewFile

\* What the requests and the workers do leaves the database file alone.
LEMMA Untouched ==
  ASSUME IInv, UNCHANGED <<disk, txn, phase, release, saved>>
  PROVE  IInv'
  BY DEF IInv, Applied, SeedWhole, PrefsKept, Database, MadeBy

\* Every step of OpenSQLite, failed ones included, keeps the file sound.
LEMMA OpenStep ==
  ASSUME IInv, Open
  PROVE  IInv'
<1> USE DEF Phases
<1>0. /\ disk \in Database /\ txn \in Database
      /\ disk.version \in 0 .. N /\ txn.version \in 0 .. N
      /\ disk.rows \subseteq SeedKinds /\ txn.rows \subseteq SeedKinds
  BY DEF IInv, Database, N
<1>1. ASSUME NEW r \in Releases, Start(r) PROVE IInv'
  BY <1>0, <1>1 DEF IInv, Start, Staged, Applied, SeedWhole, PrefsKept
<1>2. CASE GiveUp
  BY <1>0, <1>2 DEF IInv, GiveUp, Staged, Applied, SeedWhole, PrefsKept
<1>3. CASE ApplyBlock
  <2>1. txn.version < release /\ release \in 0 .. N /\ txn.version < N
    BY <1>0, <1>3, ScriptLength DEF ApplyBlock, IInv
  <2>2. MadeBy(txn.version + 1) = MadeBy(txn.version) \cup Makes(Script[txn.version + 1])
    BY <1>0, <2>1, MadeByNext
  <2>3. txn.objects = MadeBy(txn.version)
    BY <1>3 DEF IInv, Applied, ApplyBlock
  <2>4. txn' = [txn EXCEPT !.objects = MadeBy(txn.version + 1)]
    BY <1>3, <2>2, <2>3 DEF ApplyBlock, Staged
  <2>5. MadeBy(txn.version + 1) \subseteq MadeBy(N)
    BY <1>0, <2>1, ScriptLength, MadeByAll
  <2>6. /\ txn' \in Database
        /\ txn'.version = txn.version /\ txn'.objects = MadeBy(txn.version + 1)
        /\ txn'.rows = txn.rows /\ txn'.prefs = txn.prefs
    BY <1>0, <2>4, <2>5 DEF Database, N
  <2>7. Applied' = txn.version + 1
    BY <1>3, <2>6 DEF Applied, ApplyBlock
  <2> QED
    BY <1>3, <2>1, <2>6, <2>7 DEF IInv, ApplyBlock, Staged, SeedWhole, PrefsKept, MadeBy
<1>4. CASE RecordVersion
  <2>1. txn.version < release /\ release \in 0 .. N /\ txn.version + 1 \in 0 .. N
    BY <1>0, <1>4, ScriptLength DEF RecordVersion, IInv
  <2>2. /\ txn' \in Database
        /\ txn'.version = txn.version + 1 /\ txn'.objects = txn.objects
        /\ txn'.rows = txn.rows /\ txn'.prefs = txn.prefs
    BY <1>0, <1>4, <2>1 DEF RecordVersion, Staged, Database, N
  <2>3. Applied' = Applied
    BY <1>4, <2>2 DEF Applied, RecordVersion
  <2> QED
    BY <1>4, <2>2, <2>3 DEF IInv, RecordVersion, Staged, SeedWhole, PrefsKept, MadeBy
<1>5. CASE CommitMigrations
  <2>1. txn.objects = MadeBy(txn.version) /\ Applied' = txn.version
    BY <1>5 DEF IInv, Applied, CommitMigrations
  <2> QED
    BY <1>0, <1>5, <2>1 DEF IInv, CommitMigrations, SeedWhole, PrefsKept, MadeBy
<1>6. CASE BeginSeed
  BY <1>0, <1>6 DEF IInv, BeginSeed, Staged, Applied, SeedWhole, PrefsKept
<1>7. ASSUME NEW k \in SeedKinds, InsertSeed(k) PROVE IInv'
  <2>1. /\ txn' \in Database
        /\ txn'.version = txn.version /\ txn'.objects = txn.objects
        /\ txn'.prefs = txn.prefs
    BY <1>0, <1>7 DEF InsertSeed, Staged, Database
  <2>2. Applied' = Applied
    BY <1>7, <2>1 DEF Applied, InsertSeed
  <2> QED
    BY <1>7, <2>1, <2>2 DEF IInv, InsertSeed, Staged, SeedWhole, PrefsKept, MadeBy
<1>8. CASE CommitSeed
  <2>1. txn.rows = SeedKinds
    BY <1>0, <1>8 DEF CommitSeed
  <2>2. txn.objects = MadeBy(txn.version) /\ Applied' = txn.version
    BY <1>8 DEF IInv, Applied, CommitSeed
  <2> QED
    BY <1>0, <1>8, <2>1, <2>2 DEF IInv, CommitSeed, SeedWhole, PrefsKept, MadeBy
<1> QED
  BY <1>1, <1>2, <1>3, <1>4, <1>5, <1>6, <1>7, <1>8 DEF Open

\* Saving preferences keeps the file sound.
LEMMA SaveStep ==
  ASSUME IInv, NEW p \in PrefInputs, SavePreferences(p)
  PROVE  IInv'
<1>1. disk' = [disk EXCEPT !.prefs = p] /\ txn' = disk' /\ saved' = p /\ phase = "serve"
      /\ UNCHANGED <<phase, release>>
  BY DEF SavePreferences, Upsert
<1>2. /\ disk' \in Database
      /\ disk'.version = disk.version /\ disk'.objects = disk.objects
      /\ disk'.rows = disk.rows /\ disk'.prefs = p
  BY <1>1 DEF IInv, Database
<1> QED
  BY <1>1, <1>2 DEF IInv, Applied, SeedWhole, PrefsKept, MadeBy

\* A process that dies loses its transaction and nothing else.
LEMMA DieStep ==
  ASSUME IInv, Die
  PROVE  IInv'
  BY DEF IInv, Die, Staged, Applied, SeedWhole, PrefsKept, Phases

\* Every step keeps the file sound.
LEMMA NextStep ==
  ASSUME IInv, [Next]_vars
  PROVE  IInv'
<1>1. CASE Open
  BY <1>1, OpenStep
<1>2. ASSUME NEW p \in PrefInputs, SavePreferences(p) PROVE IInv'
  BY <1>2, SaveStep
<1>3. CASE Crash
  BY <1>3, DieStep DEF Crash
<1>4. ASSUME NEW c \in Clients, NEW kind \in Asks[c], Begin(c, kind) PROVE IInv'
  BY <1>4, Untouched DEF Begin, storeVars
<1>5. ASSUME NEW c \in Clients, Serve(c) PROVE IInv'
  BY <1>5, Untouched DEF Serve, OpenRows, CloseRows, FailRows, MissTable, ReadDemo, ReadTrust,
     ReadApp, ReadRow, WriteObserved, EndStage, Diagnose, ReadEach, Reply, storeVars
<1>6. ASSUME NEW i \in AppIds, CreateAppInstance(i) PROVE IInv'
  BY <1>6, Untouched DEF CreateAppInstance, storeVars
<1>7. ASSUME NEW i \in AppIds, NEW s \in {"running", "stopped", "error"},
             UpdateAppInstanceStatus(i, s)
      PROVE  IInv'
  BY <1>7, Untouched DEF UpdateAppInstanceStatus, storeVars
<1>8. ASSUME NEW i \in AppIds, DeleteAppInstance(i) PROVE IInv'
  BY <1>8, Untouched DEF DeleteAppInstance, storeVars
<1>9. CASE UNCHANGED vars
  BY <1>9, Untouched DEF vars
<1> QED
  BY <1>1, <1>2, <1>3, <1>4, <1>5, <1>6, <1>7, <1>8, <1>9 DEF Next

\* Whatever is started, killed, upgraded or seeded (sqlite.go:77, 129), the file
\* can be opened by a release that is new enough, the demo rows are whole and
\* the preferences are the last ones saved.
THEOREM OpensForEver == Spec => []DatabaseSound
<1>1. ReportsInit => IInv
  BY Inits
<1>2. IInv /\ [Next]_vars => IInv'
  BY NextStep
<1>3. IInv => DatabaseSound
  BY SchemaOpens DEF IInv, DatabaseSound
<1> QED
  BY <1>1, <1>2, <1>3, PTL DEF Spec
-----------------------------------------------------------------------------
(* Answers: what a handler still has to do.                                 *)

Nothing        == <<>>
Each           == <<"each">>
Observe        == <<"observe">>
SummaryOnly    == <<"summary">>
AppsList       == <<"list", "observe">>
DetailFirst    == <<"detail", "observe">>
ExportAgain    == <<"again", "each">>
BundleFindings == <<"findings", "each">>
BundleAgain    == <<"again", "findings", "each">>
BundleList     == <<"list", "again", "findings", "each">>
BundleSummary  == <<"summary", "list", "again", "findings", "each">>

\* What a request has left to do.
PlaceInv(r) ==
    \/ r.kind = "none" /\ r.rest = Nothing
    \/ r.kind = "summary" /\ r.rest \in {SummaryOnly, Nothing}
    \/ r.kind = "apps" /\ r.rest \in {AppsList, Observe, Nothing}
    \/ r.kind = "detail" /\ r.rest \in {DetailFirst, AppsList, Observe, Nothing}
    \/ r.kind = "bundle" /\ r.rest \in {BundleSummary, BundleList, BundleAgain, BundleFindings,
                                        Each, Nothing}
    \/ r.kind = "export" /\ r.rest \in {ExportAgain, Each, Nothing}
    \/ r.kind = "preview" /\ r.rest \in {Each, Nothing}

\* The tables a stage may be about, if a request has met those of M.
Saw(r, M, stage) == M \cup IF stage \in r.blind THEN {NoApps} ELSE {}

\* Rows a request works on are a table it has met, as they were read at once, or
\* no apps, if the query of hasTable failed.
StepInv(r, M) ==
    /\ r.step = "rows" =>
         /\ r.rest # Nothing /\ Head(r.rest) \in {"summary", "list", "again"}
         /\ r.rows \in M
    /\ r.step = "demo" =>
         /\ r.rest # Nothing /\ Head(r.rest) = "list"
         /\ r.rows \in Saw(r, M, "list") /\ DOMAIN r.rows = {}
    /\ r.step = "trust" =>
         /\ r.rest # Nothing /\ Head(r.rest) \in {"list", "detail"}
         /\ Head(r.rest) = "list" => r.rows \in M /\ DOMAIN r.rows # {}
         /\ Head(r.rest) = "detail" =>
              \A i \in r.asked : i \in DOMAIN r.rows /\ \E t \in M : i \in DOMAIN t
    /\ r.step = "observed" => r.rest # Nothing /\ Head(r.rest) = "observe"

\* Only a bundle warns, and only about stages it has tried.
WarnedInv(r) ==
    /\ r.kind # "bundle" \/ r.rest = BundleSummary => r.warned = {}
    /\ r.kind = "bundle" /\ r.rest = BundleList => r.warned \subseteq {"summary"}
    /\ r.kind = "bundle" /\ r.rest = BundleAgain => r.warned \subseteq {"summary", "list"}
    /\ r.kind = "bundle" /\ r.rest = BundleFindings
         => r.warned \subseteq {"summary", "list", "again"}

\* From the summary stage on the counts are those of one table, or of the
\* seeded summary; dr are the demo rows of the database.
SeedCounts(dr) == IF "summary" \in dr THEN <<10, 8>> ELSE <<0, 0>>
CountsOf(t, dr) == IF DOMAIN t = {} THEN SeedCounts(dr) ELSE <<Total(t), Running(t)>>
CountsGood(r, M, dr) ==
    IF "summary" \in r.warned THEN r.counts = Nothing
    ELSE \E t \in Saw(r, M, "summary") : r.counts = CountsOf(t, dr)
CountsInv(r, M, dr) ==
    /\ r.rest \in {SummaryOnly, BundleSummary} => r.counts = Nothing
    /\ (\/ r.kind = "summary" /\ r.rest # SummaryOnly
        \/ r.kind = "bundle" /\ r.rest # BundleSummary) => CountsGood(r, M, dr)

\* Observing apps never adds one to a list nor takes one away.
ListInv(r, M) ==
    r.kind = "apps" /\ r.rest # AppsList
      => \E t \in Saw(r, M, "list") :
            DOMAIN r.shown.rows = DOMAIN t /\ (r.shown.demo <=> DOMAIN t = {})

\* The findings of a bundle are those of the table it listed.
FindingsOf(demo, t, dr) ==
    Evaluate([demo |-> demo, rows |-> t], "apps" \in dr, "protection" \in dr)
ShownGood(r, M) ==
    IF "list" \in r.warned THEN r.shown = Listing(NoApps)
    ELSE \E t \in Saw(r, M, "list") : r.shown = [demo |-> DOMAIN t = {}, rows |-> t]
FindingsGood(r, M, dr) ==
    IF "findings" \in r.warned THEN r.findings = {"healthy"}
    ELSE IF "list" \in r.warned THEN r.findings = FindingsOf(FALSE, NoApps, dr)
    ELSE \E t \in Saw(r, M, "list") : r.findings = FindingsOf(DOMAIN t = {}, t, dr)
BundleInv(r, M, dr) ==
    r.kind = "bundle" =>
      /\ r.rest \in {BundleAgain, BundleFindings} => ShownGood(r, M)
      /\ r.rest \in {Each, Nothing} => FindingsGood(r, M, dr)

\* The inventory is one table.
ListedInv(r, M) ==
    /\ r.kind = "bundle" /\ r.rest \in {BundleSummary, BundleList, BundleAgain}
         => r.listed = NoApps
    /\ (\/ r.kind = "bundle" /\ r.rest \in {BundleFindings, Each, Nothing}
        \/ r.kind = "export" /\ r.rest \in {Each, Nothing})
         => IF "again" \in r.warned THEN r.listed = NoApps ELSE r.listed \in M

\* Apps are missed only if they were, or their lookup failed, and all others
\* asked for were seen, but for those still to be looked up.  A detail asks for
\* one.
GoneInv(r, M) ==
    /\ \A i \in r.gone \ r.lost : \E t \in Saw(r, M, "list") : i \notin DOMAIN t
    /\ \A i \in r.asked \ r.gone :
         \/ \E t \in M : i \in DOMAIN t
         \/ r.kind = "detail" /\ r.rest \in {DetailFirst, AppsList}
         \/ r.kind = "preview" /\ r.rest = Each /\ i \in r.todo
    /\ r.kind \notin {"detail", "preview"} => r.asked = {}
    /\ r.kind = "detail" => \A i, j \in r.asked : i = j

ReqInv(r, M, dr) ==
    /\ PlaceInv(r) /\ StepInv(r, M) /\ WarnedInv(r) /\ CountsInv(r, M, dr) /\ ListInv(r, M)
    /\ BundleInv(r, M, dr) /\ ListedInv(r, M) /\ GoneInv(r, M)

\* No query failed in a step from r to q.
Unfailed(q, r) == q.warned = r.warned /\ q.lost = r.lost /\ q.blind = r.blind

Fields == {"kind", "rest", "step", "from", "todo", "rows", "shown", "counts", "asked", "base",
           "listed", "gone", "findings", "warned", "lost", "blind"}
Queries == {"summary", "list", "again", "findings"}

\* The record of a request.
ReqType(r) ==
    /\ DOMAIN r = Fields /\ DOMAIN r.shown = {"demo", "rows"}
    /\ r.rows \in Tables /\ r.base \in Tables /\ r.listed \in Tables /\ r.shown.rows \in Tables
    /\ r.todo \in SUBSET AppIds /\ r.asked \in SUBSET AppIds /\ r.gone \in SUBSET AppIds
    /\ r.lost \in SUBSET AppIds /\ r.warned \in SUBSET Queries /\ r.blind \in SUBSET Queries

HistOK == hist \in Seq(Tables) /\ Len(hist) \in 1 .. MaxWrites + 1 /\ used \in SUBSET AppIds

\* The table is never taken away, and it is empty until it is made.
TableInv == disk.objects \subseteq txn.objects /\ (HasTable \/ apps = NoApps)

\* Requests run, and hold the connection, only in a process that serves; the
\* one that holds it is reading rows.
ConnInv ==
    /\ conn \in Clients \cup {Free, Opener}
    /\ phase # "serve" => conn \notin Clients /\ \A c \in Clients : req[c] = Idle
    /\ \A c \in Clients : conn = c => req[c].step = "rows"

AnswerInv ==
    /\ HistOK /\ TableInv /\ ConnInv
    /\ DOMAIN req = Clients
    /\ \A c \in Clients : /\ ReqType(req[c]) /\ req[c].from \in 1 .. Len(hist)
                          /\ ReqInv(req[c], Met(c), disk.rows)

-----------------------------------------------------------------------------
\* The stages of the handlers, one after the other.
LEMMA StageFacts ==
  /\ Each # Nothing /\ Head(Each) = "each" /\ Tail(Each) = Nothing
  /\ Observe # Nothing /\ Head(Observe) = "observe" /\ Tail(Observe) = Nothing
  /\ SummaryOnly # Nothing /\ Head(SummaryOnly) = "summary" /\ Tail(SummaryOnly) = Nothing
  /\ AppsList # Nothing /\ Head(AppsList) = "list" /\ Tail(AppsList) = Observe
  /\ DetailFirst # Nothing /\ Head(DetailFirst) = "detail" /\ Tail(DetailFirst) = Observe
  /\ ExportAgain # Nothing /\ Head(ExportAgain) = "again" /\ Tail(ExportAgain) = Each
  /\ BundleFindings # Nothing /\ Head(BundleFindings) = "findings" /\ Tail(BundleFindings) = Each
  /\ BundleAgain # Nothing /\ Head(BundleAgain) = "again" /\ Tail(BundleAgain) = BundleFindings
  /\ BundleList # Nothing /\ Head(BundleList) = "list" /\ Tail(BundleList) = BundleAgain
  /\ BundleSummary # Nothing /\ Head(BundleSummary) = "summary" /\ Tail(BundleSummary) = BundleList
<1> USE DEF Nothing
<1>1. Each # Nothing /\ Head(Each) = "each" /\ Tail(Each) = Nothing
  BY DEF Each
<1>2. Observe # Nothing /\ Head(Observe) = "observe" /\ Tail(Observe) = Nothing
  BY DEF Observe
<1>3. SummaryOnly # Nothing /\ Head(SummaryOnly) = "summary" /\ Tail(SummaryOnly) = Nothing
  BY DEF SummaryOnly
<1>4. AppsList # Nothing /\ Head(AppsList) = "list" /\ Tail(AppsList) = Observe
  BY DEF AppsList, Observe
<1>5. DetailFirst # Nothing /\ Head(DetailFirst) = "detail" /\ Tail(DetailFirst) = Observe
  BY DEF DetailFirst, Observe
<1>7. ExportAgain # Nothing /\ Head(ExportAgain) = "again" /\ Tail(ExportAgain) = Each
  BY DEF ExportAgain, Each
<1>8. BundleFindings # Nothing /\ Head(BundleFindings) = "findings" /\ Tail(BundleFindings) = Each
  BY DEF BundleFindings, Each
<1>9. BundleAgain # Nothing /\ Head(BundleAgain) = "again" /\ Tail(BundleAgain) = BundleFindings
  BY DEF BundleAgain, BundleFindings
<1>10. BundleList # Nothing /\ Head(BundleList) = "list" /\ Tail(BundleList) = BundleAgain
  BY DEF BundleList, BundleAgain
<1>11. BundleSummary # Nothing /\ Head(BundleSummary) = "summary" /\ Tail(BundleSummary) = BundleList
  BY DEF BundleSummary, BundleList
<1> QED
  BY <1>1, <1>2, <1>3, <1>4, <1>5, <1>7, <1>8, <1>9, <1>10, <1>11

\* Where each kind of request starts.
LEMMA StagesStart ==
  /\ DOMAIN Stages = {"summary", "apps", "detail", "bundle", "export", "preview"}
  /\ Stages["summary"] = SummaryOnly /\ Stages["apps"] = AppsList
  /\ Stages["detail"] = DetailFirst /\ Stages["bundle"] = BundleSummary
  /\ Stages["export"] = ExportAgain /\ Stages["preview"] = Each
BY DEF Stages, SummaryOnly, AppsList, DetailFirst, BundleSummary, ExportAgain, Each

\* A stage that is over leaves the next ones.
LEMMA PlaceAdvances ==
  ASSUME NEW r, NEW q, PlaceInv(r), r.rest # Nothing,
         q.kind = r.kind, q.rest = Tail(r.rest)
  PROVE  PlaceInv(q)
BY StageFacts DEF PlaceInv

\* Tables of apps.
LEMMA TableType ==
  ASSUME NEW t \in Tables
  PROVE  DOMAIN t \in SUBSET AppIds /\ t \in [DOMAIN t -> Rows] /\ \A i \in DOMAIN t : t[i] \in Rows
<1>1. PICK ids \in SUBSET AppIds : t \in [ids -> Rows]
  BY DEF Tables
<1> QED
  BY <1>1

\* A table is a row for each of some apps.
LEMMA TableIntro ==
  ASSUME NEW ids \in SUBSET AppIds, NEW t \in [ids -> Rows]
  PROVE  t \in Tables
BY DEF Tables

\* The empty table is the only one without apps.
LEMMA NoAppsTable ==
  NoApps \in Tables /\ DOMAIN NoApps = {} /\ \A t \in Tables : DOMAIN t = {} => t = NoApps
<1>1. NoApps \in [{} -> Rows] /\ DOMAIN NoApps = {}
  BY DEF NoApps
<1>2. NoApps \in Tables
  BY <1>1, TableIntro
<1>3. ASSUME NEW t \in Tables, DOMAIN t = {} PROVE t = NoApps
  <2>1. t \in [{} -> Rows]
    BY <1>3, TableType
  <2> QED
    BY <2>1 DEF NoApps
<1> QED
  BY <1>1, <1>2, <1>3

\* A client that has asked for nothing satisfies the invariant of requests.
LEMMA IdleOK == ReqType(Idle) /\ \A M, dr : ReqInv(Idle, M, dr)
<1>1. ReqType(Idle)
  BY NoAppsTable DEF Idle, ReqType, Fields, DemoListing
<1>2. ASSUME NEW M, NEW dr PROVE ReqInv(Idle, M, dr)
  BY StageFacts DEF ReqInv, PlaceInv, StepInv, WarnedInv, CountsInv, ListInv, BundleInv, ListedInv,
     GoneInv, Idle, Nothing
<1> QED
  BY <1>1, <1>2

\* Answers stay explained while more tables are met and other stages fail.
LEMMA GoodKept ==
  ASSUME NEW r, NEW q, NEW M, NEW W, NEW dr, M \subseteq W, r.blind \subseteq q.blind
  PROVE  /\ q.counts = r.counts /\ ("summary" \in q.warned <=> "summary" \in r.warned)
              /\ CountsGood(r, M, dr) => CountsGood(q, W, dr)
         /\ q.shown = r.shown /\ ("list" \in q.warned <=> "list" \in r.warned)
              /\ ShownGood(r, M) => ShownGood(q, W)
         /\ q.findings = r.findings /\ ("list" \in q.warned <=> "list" \in r.warned)
              /\ ("findings" \in q.warned <=> "findings" \in r.warned)
              /\ FindingsGood(r, M, dr) => FindingsGood(q, W, dr)
<1>0. \A stage : Saw(r, M, stage) \subseteq Saw(q, W, stage)
  BY DEF Saw
<1>1. ASSUME q.counts = r.counts, "summary" \in q.warned <=> "summary" \in r.warned,
             CountsGood(r, M, dr)
      PROVE  CountsGood(q, W, dr)
  BY <1>0, <1>1 DEF CountsGood
<1>2. ASSUME q.shown = r.shown, "list" \in q.warned <=> "list" \in r.warned, ShownGood(r, M)
      PROVE  ShownGood(q, W)
  BY <1>0, <1>2 DEF ShownGood
<1>3. ASSUME q.findings = r.findings, "list" \in q.warned <=> "list" \in r.warned,
             "findings" \in q.warned <=> "findings" \in r.warned, FindingsGood(r, M, dr)
      PROVE  FindingsGood(q, W, dr)
  BY <1>0, <1>3 DEF FindingsGood
<1> QED
  BY <1>1, <1>2, <1>3

\* A request that has met more tables is as well explained.
LEMMA MetMore ==
  ASSUME NEW r, NEW M, NEW W, NEW dr, M \subseteq W, ReqInv(r, M, dr)
  PROVE  ReqInv(r, W, dr)
<1> USE DEF ReqInv
<1>0. \A stage : Saw(r, M, stage) \subseteq Saw(r, W, stage)
  BY DEF Saw
<1>1. StepInv(r, W)
  BY <1>0 DEF StepInv
<1>2. CountsInv(r, W, dr)
  BY GoodKept, <1>0 DEF CountsInv
<1>3. ListInv(r, W)
  BY <1>0 DEF ListInv
<1>4. BundleInv(r, W, dr)
  BY GoodKept, <1>0 DEF BundleInv
<1>5. ListedInv(r, W)
  BY DEF ListedInv
<1>6. GoneInv(r, W)
  BY <1>0 DEF GoneInv
<1> QED
  BY <1>1, <1>2, <1>3, <1>4, <1>5, <1>6

\* Which handlers have which stage.
LEMMA StageOf ==
  ASSUME NEW r, PlaceInv(r), r.rest # Nothing
  PROVE  /\ Head(r.rest) = "summary" => \/ r.kind = "summary" /\ r.rest = SummaryOnly
                                        \/ r.kind = "bundle" /\ r.rest = BundleSummary
         /\ Head(r.rest) = "list" => \/ r.kind = "apps" /\ r.rest = AppsList
                                     \/ r.kind = "detail" /\ r.rest = AppsList
                                     \/ r.kind = "bundle" /\ r.rest = BundleList
         /\ Head(r.rest) = "again" => \/ r.kind = "export" /\ r.rest = ExportAgain
                                      \/ r.kind = "bundle" /\ r.rest = BundleAgain
         /\ Head(r.rest) = "detail" => r.kind = "detail" /\ r.rest = DetailFirst
         /\ Head(r.rest) = "observe" => r.kind \in {"apps", "detail"} /\ r.rest = Observe
         /\ Head(r.rest) = "findings" => r.kind = "bundle" /\ r.rest = BundleFindings
         /\ Head(r.rest) = "each" => r.kind \in {"bundle", "export", "preview"} /\ r.rest = Each
BY StageFacts DEF PlaceInv

-----------------------------------------------------------------------------
(* Answers: what each step does to a request.                               *)

\* A step within a stage that puts nothing into the answer; it may be the query of
\* hasTable that fails.
LEMMA WithinStage ==
  ASSUME NEW r, NEW q, NEW M, NEW dr, ReqInv(r, M, dr), StepInv(q, M),
         q.kind = r.kind, q.rest = r.rest, q.counts = r.counts, q.shown = r.shown,
         q.listed = r.listed, q.findings = r.findings, q.gone = r.gone, q.asked = r.asked,
         q.warned = r.warned, q.lost = r.lost, r.blind \subseteq q.blind,
         q.kind = "preview" => q.todo = r.todo
  PROVE  ReqInv(q, M, dr)
<1> USE DEF ReqInv
<1>0. \A stage : Saw(r, M, stage) \subseteq Saw(q, M, stage)
  BY DEF Saw
<1>1. PlaceInv(q) /\ WarnedInv(q)
  BY DEF PlaceInv, WarnedInv
<1>2. CountsInv(q, M, dr)
  BY GoodKept, <1>0 DEF CountsInv
<1>3. ListInv(q, M)
  BY <1>0 DEF ListInv
<1>4. BundleInv(q, M, dr)
  BY GoodKept, <1>0 DEF BundleInv
<1>5. ListedInv(q, M)
  BY DEF ListedInv
<1>6. GoneInv(q, M)
  BY <1>0 DEF GoneInv
<1> QED
  BY <1>1, <1>2, <1>3, <1>4, <1>5, <1>6

\* The summary is over: its counts are those of the rows that were read, or of
\* none if hasTable failed.
LEMMA SummaryDone ==
  ASSUME NEW r, NEW q, NEW M \in SUBSET Tables, NEW dr, ReqInv(r, M, dr),
         r.rest # Nothing, Head(r.rest) = "summary",
         r.blind \subseteq q.blind, q.warned = r.warned, q.lost = r.lost,
         NEW t \in Saw(q, M, "summary"), q.counts = CountsOf(t, dr),
         q.kind = r.kind, q.rest = Tail(r.rest), q.step = "begin",
         q.shown = r.shown, q.listed = r.listed, q.findings = r.findings,
         q.gone = r.gone, q.asked = r.asked
  PROVE  ReqInv(q, M, dr)
<1> USE DEF ReqInv
<1>0. \A stage : Saw(r, M, stage) \subseteq Saw(q, M, stage)
  BY DEF Saw
<1>1. /\ PlaceInv(q)
      /\ \/ r.kind = "summary" /\ r.rest = SummaryOnly /\ q.rest = Nothing
         \/ r.kind = "bundle" /\ r.rest = BundleSummary /\ q.rest = BundleList
  BY StageOf, StageFacts DEF PlaceInv
<1>2. q.warned = {} /\ WarnedInv(q)
  BY <1>1, StageFacts DEF WarnedInv
<1>3. StepInv(q, M)
  BY DEF StepInv
<1>4. CountsInv(q, M, dr)
  BY <1>1, <1>2, StageFacts DEF CountsInv, CountsGood
<1>5. ListInv(q, M)
  BY <1>1, StageFacts DEF ListInv
<1>6. ListedInv(q, M)
  BY <1>1, StageFacts DEF ListedInv
<1>7. BundleInv(q, M, dr)
  BY GoodKept, <1>1, StageFacts DEF BundleInv
<1>8. GoneInv(q, M)
  BY <1>0, <1>1, StageFacts DEF GoneInv
<1> QED
  BY <1>1, <1>2, <1>3, <1>4, <1>5, <1>6, <1>7, <1>8

\* The list is over: it shows one table, or the demo if that was empty, and an
\* app that was asked for is missed if it is not in that table.
LEMMA ListDone ==
  ASSUME NEW r, NEW q, NEW M \in SUBSET Tables, NEW dr, ReqInv(r, M, dr),
         r.rest # Nothing, Head(r.rest) = "list", Unfailed(q, r),
         NEW t \in Saw(r, M, "list"), t \in M \/ DOMAIN t = {},
         q.kind = r.kind, q.rest = Tail(r.rest), q.step = "begin",
         q.shown = [demo |-> DOMAIN t = {}, rows |-> t], q.counts = r.counts,
         q.listed = r.listed, q.findings = r.findings, q.asked = r.asked,
         q.gone = r.asked \ DOMAIN t
  PROVE  ReqInv(q, M, dr)
<1> USE DEF ReqInv, Unfailed
<1>0. \A stage : Saw(r, M, stage) = Saw(q, M, stage)
  BY DEF Saw
<1>1. \/ r.kind = "apps" /\ r.rest = AppsList /\ q.rest = Observe
      \/ r.kind = "detail" /\ r.rest = AppsList /\ q.rest = Observe
      \/ r.kind = "bundle" /\ r.rest = BundleList /\ q.rest = BundleAgain
  BY StageOf, StageFacts
<1>p. PlaceInv(q)
  BY <1>1 DEF PlaceInv
<1>2. StepInv(q, M)
  BY DEF StepInv
<1>w. "list" \notin q.warned /\ WarnedInv(q)
  BY <1>1, StageFacts DEF WarnedInv
<1>3. CountsInv(q, M, dr)
  BY GoodKept, <1>0, <1>1, StageFacts DEF CountsInv
<1>4. q.shown.rows = t /\ (q.shown.demo <=> DOMAIN t = {})
  <2>1. q.shown.rows = t /\ q.shown.demo = (DOMAIN t = {})
    OBVIOUS
  <2> QED
    BY <2>1
<1>5. ListInv(q, M)
  BY <1>0, <1>1, <1>4, StageFacts DEF ListInv
<1>6. BundleInv(q, M, dr)
  <2>1. ShownGood(q, M)
    BY <1>0, <1>w DEF ShownGood
  <2> QED
    BY <1>1, <2>1, StageFacts DEF BundleInv
<1>7. ListedInv(q, M)
  BY <1>1, StageFacts DEF ListedInv
<1>8. GoneInv(q, M)
  <2>1. \A i \in q.gone : \E u \in Saw(q, M, "list") : i \notin DOMAIN u
    BY <1>0
  <2>2. \A i \in q.asked \ q.gone : \E u \in M : i \in DOMAIN u
    OBVIOUS
  <2> QED
    BY <2>1, <2>2 DEF GoneInv
<1> QED
  BY <1>p, <1>2, <1>w, <1>3, <1>5, <1>6, <1>7, <1>8

\* The second listing of a bundle, or that of an inventory, is over.
LEMMA AgainDone ==
  ASSUME NEW r, NEW q, NEW M \in SUBSET Tables, NEW dr, ReqInv(r, M, dr),
         r.rest # Nothing, Head(r.rest) = "again", r.rows \in M, Unfailed(q, r),
         q.kind = r.kind, q.rest = Tail(r.rest), q.step = "begin", q.listed = r.rows,
         q.shown = r.shown, q.counts = r.counts, q.findings = r.findings,
         q.gone = r.gone, q.asked = r.asked
  PROVE  ReqInv(q, M, dr)
<1> USE DEF ReqInv, Unfailed
<1>0. \A stage : Saw(r, M, stage) = Saw(q, M, stage)
  BY DEF Saw
<1>1. /\ PlaceInv(q)
      /\ \/ r.kind = "export" /\ r.rest = ExportAgain /\ q.rest = Each
         \/ r.kind = "bundle" /\ r.rest = BundleAgain /\ q.rest = BundleFindings
  BY StageOf, StageFacts DEF PlaceInv
<1>2. StepInv(q, M)
  BY DEF StepInv
<1>w. "again" \notin q.warned /\ WarnedInv(q)
  BY <1>1, StageFacts DEF WarnedInv
<1>3. CountsInv(q, M, dr)
  BY GoodKept, <1>0, <1>1, StageFacts DEF CountsInv
<1>4. ListInv(q, M)
  BY <1>1, StageFacts DEF ListInv
<1>5. ListedInv(q, M)
  BY <1>1, <1>w, StageFacts DEF ListedInv
<1>6. BundleInv(q, M, dr)
  <2>1. ShownGood(r, M) => ShownGood(q, M)
    BY GoodKept
  <2>2. q.kind = "bundle" => r.rest = BundleAgain /\ q.rest = BundleFindings
    BY <1>1
  <2> QED
    BY <2>1, <2>2, StageFacts DEF BundleInv
<1>7. GoneInv(q, M)
  BY <1>0, <1>1, StageFacts DEF GoneInv
<1> QED
  BY <1>1, <1>2, <1>w, <1>3, <1>4, <1>5, <1>6, <1>7

\* A bundle warns of a count or listing that failed, and goes on without it.
LEMMA StageFailed ==
  ASSUME NEW r, NEW q, NEW M \in SUBSET Tables, NEW dr, ReqInv(r, M, dr), NEW stage,
         r.rest # Nothing, stage = Head(r.rest), stage \in {"summary", "list", "again"},
         r.kind = "bundle", q.warned = r.warned \cup {stage}, q.lost = r.lost, q.blind = r.blind,
         q.kind = r.kind, q.rest = Tail(r.rest), q.step = "begin", q.listed = r.listed,
         q.shown = IF stage = "list" THEN Listing(NoApps) ELSE r.shown,
         q.counts = r.counts, q.findings = r.findings, q.gone = r.gone, q.asked = r.asked
  PROVE  ReqInv(q, M, dr)
<1> USE DEF ReqInv
<1>0. \A s : Saw(r, M, s) = Saw(q, M, s)
  BY DEF Saw
<1>1. /\ PlaceInv(q)
      /\ \/ stage = "summary" /\ r.rest = BundleSummary /\ q.rest = BundleList
         \/ stage = "list" /\ r.rest = BundleList /\ q.rest = BundleAgain
         \/ stage = "again" /\ r.rest = BundleAgain /\ q.rest = BundleFindings
  BY StageOf, StageFacts DEF PlaceInv
<1>2. StepInv(q, M) /\ ListInv(q, M)
  BY DEF StepInv, ListInv
<1>3. WarnedInv(q)
  BY <1>1, StageFacts DEF WarnedInv
<1>4. CountsInv(q, M, dr)
  <2>1. CASE stage = "summary"
    <3>1. q.counts = Nothing /\ "summary" \in q.warned /\ q.rest = BundleList
      BY <1>1, <2>1, StageFacts DEF CountsInv
    <3> QED
      BY <3>1, StageFacts DEF CountsInv, CountsGood
  <2>2. CASE stage # "summary"
    <3>1. /\ r.rest \notin {SummaryOnly, BundleSummary} /\ q.rest \notin {SummaryOnly, BundleSummary}
          /\ "summary" \in q.warned <=> "summary" \in r.warned
      BY <1>1, <2>2, StageFacts
    <3> QED
      BY <3>1, GoodKept DEF CountsInv
  <2> QED
    BY <2>1, <2>2
<1>5. BundleInv(q, M, dr)
  <2>1. q.rest \notin {Each, Nothing}
    BY <1>1, StageFacts
  <2>2. q.rest \in {BundleAgain, BundleFindings} => ShownGood(q, M)
    <3>1. CASE stage = "summary"
      BY <1>1, <3>1, StageFacts
    <3>2. CASE stage = "list"
      BY <3>2 DEF ShownGood
    <3>3. CASE stage = "again"
      <4>1. /\ r.rest = BundleAgain /\ q.shown = r.shown
            /\ "list" \in q.warned <=> "list" \in r.warned
        BY <1>1, <3>3
      <4> QED
        BY <4>1, GoodKept DEF BundleInv
    <3> QED
      BY <3>1, <3>2, <3>3
  <2> QED
    BY <2>1, <2>2 DEF BundleInv
<1>6. ListedInv(q, M)
  <2>1. q.listed = NoApps
    BY <1>1 DEF ListedInv
  <2>2. q.rest = BundleFindings => "again" \in q.warned
    BY <1>1, StageFacts
  <2> QED
    BY <1>1, <2>1, <2>2, StageFacts DEF ListedInv
<1>7. GoneInv(q, M)
  BY <1>0, <1>1, StageFacts DEF GoneInv
<1> QED
  BY <1>1, <1>2, <1>3, <1>4, <1>5, <1>6, <1>7

\* The findings are those of the table that was listed, or none if the
\* protection could not be read.
LEMMA FindingsDone ==
  ASSUME NEW r, NEW q, NEW M \in SUBSET Tables, NEW dr, ReqInv(r, M, dr),
         r.rest # Nothing, Head(r.rest) = "findings",
         q.kind = r.kind, q.rest = Tail(r.rest), q.step = "begin", q.lost = r.lost,
         q.blind = r.blind,
         \/ /\ q.findings = Evaluate(r.shown, "apps" \in dr, "protection" \in dr)
            /\ q.warned = r.warned
         \/ q.findings = {"healthy"} /\ q.warned = r.warned \cup {"findings"},
         q.listed = r.listed, q.counts = r.counts, q.gone = r.gone, q.asked = r.asked
  PROVE  ReqInv(q, M, dr)
<1> USE DEF ReqInv
<1>0. \A stage : Saw(r, M, stage) = Saw(q, M, stage)
  BY DEF Saw
<1>1. /\ PlaceInv(q) /\ r.kind = "bundle" /\ r.rest = BundleFindings /\ q.rest = Each
  BY StageOf, StageFacts DEF PlaceInv
<1>w. /\ \A s \in {"summary", "list", "again"} : s \in q.warned <=> s \in r.warned
      /\ "findings" \notin r.warned
  <2>1. "findings" \notin r.warned
    BY <1>1, StageFacts DEF WarnedInv
  <2> QED
    BY <2>1
<1>2. StepInv(q, M) /\ WarnedInv(q)
  BY <1>1, StageFacts DEF StepInv, WarnedInv
<1>3. CountsInv(q, M, dr)
  BY GoodKept, <1>0, <1>1, <1>w, StageFacts DEF CountsInv
<1>4. ListInv(q, M) /\ ListedInv(q, M)
  BY <1>1, <1>w, StageFacts DEF ListInv, ListedInv
<1>5. BundleInv(q, M, dr)
  <2>1. q.rest \notin {BundleAgain, BundleFindings}
    BY <1>1, StageFacts
  <2>2. FindingsGood(q, M, dr)
    <3>1. CASE q.warned = r.warned \cup {"findings"} /\ q.findings = {"healthy"}
      BY <3>1 DEF FindingsGood
    <3>2. CASE /\ q.findings = Evaluate(r.shown, "apps" \in dr, "protection" \in dr)
               /\ q.warned = r.warned
      <4>1. CASE "list" \in r.warned
        <5>1. r.shown = Listing(NoApps)
          BY <1>1, <4>1 DEF BundleInv, ShownGood
        <5> QED
          BY <1>w, <3>2, <4>1, <5>1 DEF FindingsGood, FindingsOf, Listing
      <4>2. CASE "list" \notin r.warned
        <5>1. PICK t \in Saw(r, M, "list") : r.shown = [demo |-> DOMAIN t = {}, rows |-> t]
          BY <1>1, <4>2 DEF BundleInv, ShownGood
        <5>2. q.findings = FindingsOf(DOMAIN t = {}, t, dr)
          BY <3>2, <5>1 DEF FindingsOf
        <5> QED
          BY <1>0, <1>w, <3>2, <4>2, <5>2 DEF FindingsGood
      <4> QED
        BY <4>1, <4>2
    <3> QED
      BY <3>1, <3>2
  <2> QED
    BY <2>1, <2>2 DEF BundleInv
<1>6. GoneInv(q, M)
  BY <1>0, <1>1, StageFacts DEF GoneInv
<1> QED
  BY <1>1, <1>2, <1>3, <1>4, <1>5, <1>6

\* Observing, or looking up one by one, is over: nothing is left to do.
LEMMA LastDone ==
  ASSUME NEW r, NEW q, NEW M \in SUBSET Tables, NEW dr, ReqInv(r, M, dr),
         r.rest # Nothing, Head(r.rest) \in {"observe", "each"}, r.todo = {}, Unfailed(q, r),
         q.kind = r.kind, q.rest = Tail(r.rest), q.step = "begin", q.shown = r.shown,
         q.findings = r.findings, q.listed = r.listed, q.counts = r.counts,
         q.gone = r.gone, q.asked = r.asked
  PROVE  ReqInv(q, M, dr)
<1> USE DEF ReqInv, Unfailed
<1>0. \A stage : Saw(r, M, stage) = Saw(q, M, stage)
  BY DEF Saw
<1>1. /\ PlaceInv(q) /\ q.rest = Nothing
      /\ \/ r.kind \in {"apps", "detail"} /\ r.rest = Observe
         \/ r.kind \in {"bundle", "export", "preview"} /\ r.rest = Each
  BY StageOf, StageFacts DEF PlaceInv
<1>2. StepInv(q, M) /\ WarnedInv(q)
  BY <1>1, StageFacts DEF StepInv, WarnedInv
<1>3. CountsInv(q, M, dr)
  BY GoodKept, <1>0, <1>1, StageFacts DEF CountsInv
<1>4. ListInv(q, M)
  BY <1>0, <1>1, StageFacts DEF ListInv
<1>5. ListedInv(q, M)
  BY <1>1, StageFacts DEF ListedInv
<1>6. BundleInv(q, M, dr)
  BY GoodKept, <1>0, <1>1, StageFacts DEF BundleInv
<1>7. GoneInv(q, M)
  BY <1>0, <1>1, StageFacts DEF GoneInv
<1> QED
  BY <1>1, <1>2, <1>3, <1>4, <1>5, <1>6, <1>7

\* One app is looked up and ticked off: it is in the table t, or missing from it,
\* or its lookup failed.
LEMMA LookedUp ==
  ASSUME NEW r, NEW q, NEW M \in SUBSET Tables, NEW dr, ReqInv(r, M, dr), NEW t \in M, NEW i,
         r.rest # Nothing, Head(r.rest) = "each", r.step = "begin",
         q.kind = r.kind, q.rest = r.rest, q.step = r.step, q.shown = r.shown,
         q.findings = r.findings, q.listed = r.listed, q.counts = r.counts, q.asked = r.asked,
         q.warned = r.warned, q.blind = r.blind, q.todo = r.todo \ {i},
         \/ (i \in DOMAIN t \/ r.kind = "export") /\ q.gone = r.gone /\ q.lost = r.lost
         \/ i \notin DOMAIN t /\ q.gone = r.gone \cup {i} /\ q.lost = r.lost
         \/ q.gone = r.gone \cup {i} /\ q.lost = r.lost \cup {i}
  PROVE  ReqInv(q, M, dr)
<1> USE DEF ReqInv
<1>0. \A stage : Saw(r, M, stage) = Saw(q, M, stage) /\ M \subseteq Saw(q, M, stage)
  BY DEF Saw
<1>1. PlaceInv(q) /\ r.rest = Each
  BY StageOf, StageFacts DEF PlaceInv
<1>2. StepInv(q, M) /\ WarnedInv(q)
  BY DEF StepInv, WarnedInv
<1>3. CountsInv(q, M, dr)
  BY GoodKept, <1>0 DEF CountsInv
<1>4. ListInv(q, M)
  BY <1>0 DEF ListInv
<1>5. ListedInv(q, M)
  BY DEF ListedInv
<1>6. BundleInv(q, M, dr)
  BY GoodKept, <1>0 DEF BundleInv
<1>7. GoneInv(q, M)
  <2>1. \A j \in q.gone \ q.lost : \E u \in Saw(q, M, "list") : j \notin DOMAIN u
    BY <1>0 DEF GoneInv
  <2>2. r.kind = "export" => q.asked = {}
    BY DEF GoneInv
  <2>3. \A j \in q.asked \ q.gone : \/ \E u \in M : j \in DOMAIN u
                                    \/ q.kind = "detail" /\ q.rest \in {DetailFirst, AppsList}
                                    \/ q.kind = "preview" /\ q.rest = Each /\ j \in q.todo
    <3> SUFFICES ASSUME NEW j \in q.asked \ q.gone
                 PROVE  \/ \E u \in M : j \in DOMAIN u
                        \/ q.kind = "detail" /\ q.rest \in {DetailFirst, AppsList}
                        \/ q.kind = "preview" /\ q.rest = Each /\ j \in q.todo
      OBVIOUS
    <3>1. j \in r.asked \ r.gone
      OBVIOUS
    <3>2. CASE j = i
      BY <2>2, <3>2
    <3>3. CASE j # i
      BY <3>1, <3>3 DEF GoneInv
    <3> QED
      BY <3>2, <3>3
  <2> QED
    BY <2>1, <2>3 DEF GoneInv
<1> QED
  BY <1>1, <1>2, <1>3, <1>4, <1>5, <1>6, <1>7

\* A row that is observed keeps its place in the list.
LEMMA ObservedRow ==
  ASSUME NEW r, NEW q, NEW M \in SUBSET Tables, NEW dr, ReqInv(r, M, dr), r.step = "observed",
         q.kind = r.kind, q.rest = r.rest, q.step = "begin", Unfailed(q, r),
         q.shown.demo = r.shown.demo, DOMAIN q.shown.rows = DOMAIN r.shown.rows,
         q.findings = r.findings, q.listed = r.listed, q.counts = r.counts, q.asked = r.asked,
         q.gone = r.gone
  PROVE  ReqInv(q, M, dr)
<1> USE DEF ReqInv, Unfailed
<1>0. \A stage : Saw(r, M, stage) = Saw(q, M, stage)
  BY DEF Saw
<1>1. PlaceInv(q) /\ r.rest = Observe /\ r.kind \in {"apps", "detail"}
  BY StageOf DEF PlaceInv, StepInv
<1>2. StepInv(q, M) /\ WarnedInv(q)
  BY DEF StepInv, WarnedInv
<1>3. CountsInv(q, M, dr)
  BY GoodKept, <1>0, <1>1, StageFacts DEF CountsInv
<1>4. ListInv(q, M)
  BY <1>0, <1>1 DEF ListInv
<1>5. ListedInv(q, M) /\ BundleInv(q, M, dr)
  BY GoodKept, <1>1 DEF ListedInv, BundleInv
<1>6. GoneInv(q, M)
  BY <1>0, <1>1, StageFacts DEF GoneInv
<1> QED
  BY <1>1, <1>2, <1>3, <1>4, <1>5, <1>6

\* The app a detail is about is found in the table t, or looked for in the list.
LEMMA DetailRead ==
  ASSUME NEW r, NEW q, NEW M \in SUBSET Tables, NEW dr, ReqInv(r, M, dr), NEW t \in M, NEW i,
         r.rest # Nothing, Head(r.rest) = "detail", r.asked \subseteq {i}, Unfailed(q, r),
         q.kind = r.kind, q.asked = r.asked, q.counts = r.counts, q.gone = r.gone,
         \/ /\ i \in DOMAIN t /\ i \in DOMAIN q.rows
            /\ q.step = "trust" /\ q.rest = r.rest
         \/ q.step = "begin" /\ q.rest = AppsList
  PROVE  ReqInv(q, M, dr)
<1> USE DEF ReqInv, Unfailed
<1>0. \A stage : Saw(r, M, stage) = Saw(q, M, stage)
  BY DEF Saw
<1>1. /\ r.kind = "detail" /\ r.rest = DetailFirst /\ q.rest \in {DetailFirst, AppsList}
      /\ PlaceInv(q)
  BY StageOf, StageFacts DEF PlaceInv
<1>2. StepInv(q, M)
  BY <1>1, StageFacts DEF StepInv
<1>3. WarnedInv(q)
  BY <1>1 DEF WarnedInv
<1>4. CountsInv(q, M, dr)
  BY GoodKept, <1>1, StageFacts DEF CountsInv
<1>5. ListInv(q, M) /\ ListedInv(q, M) /\ BundleInv(q, M, dr)
  BY GoodKept, <1>1 DEF ListInv, ListedInv, BundleInv
<1>6. GoneInv(q, M)
  BY <1>0, <1>1 DEF GoneInv
<1> QED
  BY <1>1, <1>2, <1>3, <1>4, <1>5, <1>6

\* The source of the one app of a detail was asked for.
LEMMA DetailDone ==
  ASSUME NEW r, NEW q, NEW M \in SUBSET Tables, NEW dr, ReqInv(r, M, dr),
         r.rest # Nothing, Head(r.rest) = "detail", r.step = "trust", Unfailed(q, r),
         q.kind = r.kind, q.rest = Tail(r.rest), q.step = "begin", q.counts = r.counts,
         q.gone = r.asked \ DOMAIN r.rows, q.asked = r.asked
  PROVE  ReqInv(q, M, dr)
<1> USE DEF ReqInv, Unfailed
<1>1. r.kind = "detail" /\ r.rest = DetailFirst /\ q.rest = Observe /\ PlaceInv(q)
  BY StageOf, StageFacts DEF PlaceInv
<1>2. StepInv(q, M) /\ WarnedInv(q)
  BY <1>1 DEF StepInv, WarnedInv
<1>3. CountsInv(q, M, dr)
  BY GoodKept, <1>1, StageFacts DEF CountsInv
<1>4. ListInv(q, M) /\ ListedInv(q, M) /\ BundleInv(q, M, dr)
  BY GoodKept, <1>1 DEF ListInv, ListedInv, BundleInv
<1>5. q.gone = {} /\ \A i \in q.asked : \E t \in M : i \in DOMAIN t
  BY DEF StepInv
<1>6. GoneInv(q, M)
  BY <1>1, <1>5 DEF GoneInv
<1> QED
  BY <1>1, <1>2, <1>3, <1>4, <1>6

\* A request begins.
LEMMA Begins ==
  ASSUME NEW kind \in DOMAIN Stages, NEW q, NEW M, NEW dr, q.kind = kind, q.rest = Stages[kind],
         q.step = "begin", q.counts = Nothing, q.gone = {}, q.asked = q.todo,
         q.warned = {}, q.listed = NoApps,
         q.kind \notin {"detail", "preview"} => q.asked = {},
         q.kind = "detail" => \A i, j \in q.asked : i = j
  PROVE  ReqInv(q, M, dr)
<1>1. PlaceInv(q)
  BY StagesStart DEF PlaceInv
<1>2. StepInv(q, M) /\ WarnedInv(q)
  BY DEF StepInv, WarnedInv
<1>3. CountsInv(q, M, dr)
  BY GoodKept, StagesStart, StageFacts DEF CountsInv
<1>4. ListInv(q, M)
  BY StagesStart, StageFacts DEF ListInv
<1>5. ListedInv(q, M)
  BY StagesStart, StageFacts DEF ListedInv
<1>6. BundleInv(q, M, dr)
  BY GoodKept, StagesStart, StageFacts DEF BundleInv
<1>7. GoneInv(q, M)
  BY StagesStart DEF GoneInv
<1> QED
  BY <1>1, <1>2, <1>3, <1>4, <1>5, <1>6, <1>7 DEF ReqInv

-----------------------------------------------------------------------------
(* Answers: every step of the system keeps the invariant.                   *)

\* The tables a request has met; the current one is among them.
LEMMA MetFacts ==
  ASSUME AnswerInv, NEW c \in Clients
  PROVE  Met(c) \in SUBSET Tables /\ apps \in Met(c) /\ apps \in Tables /\ Installed = apps
<1>1. hist \in Seq(Tables) /\ Len(hist) \in Nat \ {0} /\ req[c].from \in 1 .. Len(hist)
  BY ReportAssumption DEF AnswerInv, HistOK
<1>2. \A k \in 1 .. Len(hist) : hist[k] \in Tables
  BY <1>1
<1>3. Met(c) \in SUBSET Tables /\ apps \in Met(c) /\ apps \in Tables
  BY <1>1, <1>2 DEF Met, apps
<1>4. Installed = apps
  BY DEF AnswerInv, TableInv, Installed
<1> QED
  BY <1>3, <1>4

\* A statement that changes the table adds one to those requests may have met.
LEMMA WriteGrows ==
  ASSUME HistOK, NEW t \in Tables, WriteApps(t), used' \in SUBSET AppIds
  PROVE  /\ HistOK' /\ apps' = t /\ Len(hist) <= Len(hist')
         /\ \A k \in 1 .. Len(hist) : hist'[k] = hist[k]
<1>1. hist \in Seq(Tables) /\ Len(hist) \in 1 .. MaxWrites + 1 /\ MaxWrites \in Nat
  BY ReportAssumption DEF HistOK
<1>2. CASE t = apps /\ hist' = hist
  BY <1>1, <1>2 DEF HistOK, apps
<1>3. CASE Len(hist) <= MaxWrites /\ hist' = Append(hist, t)
  <2>1. /\ hist' \in Seq(Tables) /\ Len(hist') = Len(hist) + 1 /\ hist'[Len(hist) + 1] = t
        /\ \A k \in 1 .. Len(hist) : hist'[k] = hist[k]
    BY <1>1, <1>3
  <2>2. Len(hist') \in 1 .. MaxWrites + 1 /\ Len(hist) <= Len(hist')
    BY <1>1, <1>3, <2>1
  <2>3. apps' = t
    BY <2>1 DEF apps
  <2> QED
    BY <2>1, <2>2, <2>3 DEF HistOK
<1> QED
  BY <1>2, <1>3 DEF WriteApps

\* No table is forgotten.
LEMMA MetGrows ==
  ASSUME HistOK, HistOK', NEW c \in Clients, req[c].from \in 1 .. Len(hist),
         Len(hist) <= Len(hist'), \A k \in 1 .. Len(hist) : hist'[k] = hist[k],
         req'[c].from = req[c].from
  PROVE  Met(c) \subseteq Met(c)' /\ req'[c].from \in 1 .. Len(hist')
<1>1. Len(hist) \in Nat /\ Len(hist') \in Nat
  BY ReportAssumption DEF HistOK
<1>2. \A k \in req[c].from .. Len(hist) : k \in req'[c].from .. Len(hist') /\ hist'[k] = hist[k]
  BY <1>1
<1>3. Met(c) \subseteq Met(c)'
  BY <1>2 DEF Met
<1> QED
  BY <1>1, <1>3

\* One request takes a step, and may change the table.
LEMMA RequestWrites ==
  ASSUME AnswerInv, NEW c \in Clients, phase = "serve",
         UNCHANGED <<disk, txn, phase>>, HistOK', TableInv',
         Len(hist) <= Len(hist'), \A k \in 1 .. Len(hist) : hist'[k] = hist[k],
         DOMAIN req' = Clients, \A d \in Clients \ {c} : req'[d] = req[d],
         conn' = conn \/ conn' = Free \/ conn' = c, conn' = c => req'[c].step = "rows",
         ReqType(req'[c]), req'[c].from \in 1 .. Len(hist'), ReqInv(req'[c], Met(c)', disk.rows)
  PROVE  AnswerInv'
<1> USE DEF AnswerInv
<1>1. ConnInv'
  BY HolderAssumption DEF ConnInv
<1>2. ASSUME NEW d \in Clients, d # c
      PROVE  /\ ReqType(req'[d]) /\ req'[d].from \in 1 .. Len(hist')
             /\ ReqInv(req'[d], Met(d)', disk.rows)
  <2>1. req'[d] = req[d]
    BY <1>2
  <2>2. Met(d) \subseteq Met(d)' /\ req'[d].from \in 1 .. Len(hist')
    BY <2>1, MetGrows
  <2>3. ReqInv(req[d], Met(d)', disk.rows)
    BY <2>2, MetMore
  <2> QED
    BY <2>1, <2>2, <2>3
<1> QED
  BY <1>1, <1>2

\* One request takes a step and only reads.
LEMMA RequestReads ==
  ASSUME AnswerInv, NEW c \in Clients, phase = "serve",
         UNCHANGED <<disk, txn, phase, hist, used>>,
         DOMAIN req' = Clients, \A d \in Clients \ {c} : req'[d] = req[d],
         conn' = conn \/ conn' = Free \/ conn' = c, conn' = c => req'[c].step = "rows",
         ReqType(req'[c]), req'[c].from = req[c].from, ReqInv(req'[c], Met(c), disk.rows)
  PROVE  AnswerInv'
<1>1. HistOK' /\ TableInv'
  BY DEF AnswerInv, HistOK, TableInv, HasTable, apps
<1>2. Met(c)' = Met(c)
  BY DEF Met
<1>3. Len(hist) \in Nat
  BY ReportAssumption DEF AnswerInv, HistOK
<1>4. /\ Len(hist) <= Len(hist') /\ \A k \in 1 .. Len(hist) : hist'[k] = hist[k]
      /\ req'[c].from \in 1 .. Len(hist')
  BY <1>3 DEF AnswerInv
<1> QED
  BY <1>1, <1>2, <1>4, RequestWrites

\* A worker changes the table and no request.
LEMMA WorkerWrites ==
  ASSUME AnswerInv, Worker, NEW t \in Tables, WriteApps(t), used' \in SUBSET AppIds,
         UNCHANGED <<disk, txn, phase, conn, req>>
  PROVE  AnswerInv'
<1> USE DEF AnswerInv
<1>1. /\ HistOK' /\ Len(hist) <= Len(hist')
      /\ \A k \in 1 .. Len(hist) : hist'[k] = hist[k]
  BY WriteGrows
<1>2. TableInv' /\ ConnInv'
  BY DEF Worker, TableInv, HasTable, ConnInv
<1>3. ASSUME NEW c \in Clients
      PROVE  req'[c].from \in 1 .. Len(hist') /\ ReqInv(req'[c], Met(c)', disk'.rows)
  <2>1. Met(c) \subseteq Met(c)' /\ req'[c].from \in 1 .. Len(hist')
    BY <1>1, MetGrows
  <2> QED
    BY <2>1, MetMore
<1> QED
  BY <1>1, <1>2, <1>3

\* Requests run only in a process that serves, and one that is not reading rows
\* does not hold the connection.
LEMMA Serving ==
  ASSUME AnswerInv, NEW c \in Clients
  PROVE  /\ req[c].rest # Nothing \/ req[c].kind # "none" => phase = "serve"
         /\ req[c].step # "rows" => conn # c
         /\ req[c].rest = Nothing => req[c].step # "rows"
         /\ conn = c => phase = "serve" /\ req[c].step = "rows"
<1>1. Idle.rest = Nothing /\ Idle.kind = "none"
  BY DEF Idle, Nothing
<1> QED
  BY <1>1 DEF AnswerInv, ConnInv, ReqInv, StepInv

\* A request begins with nothing read.
LEMMA BeginStep ==
  ASSUME AnswerInv, NEW c \in Clients, NEW kind \in Asks[c], Begin(c, kind)
  PROVE  AnswerInv'
<1> DEFINE q == req'[c]
<1>0. kind \in DOMAIN Stages /\ phase = "serve" /\ UNCHANGED <<storeVars, hist, used>>
  BY ReportAssumption, StagesStart DEF Begin
<1>1. PICK ids \in Named(kind) :
        req' = [req EXCEPT ![c] = [Idle EXCEPT !.kind = kind, !.rest = Stages[kind],
                    !.step = "begin", !.from = Len(hist), !.todo = ids, !.asked = ids]]
  BY DEF Begin
<1>2. ids \in SUBSET AppIds /\ (kind \notin {"detail", "preview"} => ids = {})
      /\ (kind = "detail" => \A i, j \in ids : i = j)
  <2>1. used \in SUBSET AppIds
    BY DEF AnswerInv, HistOK
  <2> QED
    BY <2>1 DEF Named
<1>3. DOMAIN req' = Clients /\ \A d \in Clients \ {c} : req'[d] = req[d]
  BY <1>1 DEF AnswerInv
<1>4. q = [Idle EXCEPT !.kind = kind, !.rest = Stages[kind],
                    !.step = "begin", !.from = Len(hist), !.todo = ids, !.asked = ids]
  BY <1>1 DEF AnswerInv
<1>5. DOMAIN Idle = Fields
  BY DEF Idle, Fields
<1>6. /\ DOMAIN q = Fields /\ q.kind = kind /\ q.rest = Stages[kind] /\ q.step = "begin"
      /\ q.from = Len(hist) /\ q.todo = ids /\ q.asked = ids /\ q.counts = Idle.counts
      /\ q.gone = Idle.gone /\ q.rows = Idle.rows /\ q.shown = Idle.shown /\ q.base = Idle.base
      /\ q.listed = Idle.listed /\ q.warned = Idle.warned /\ q.lost = Idle.lost
      /\ q.blind = Idle.blind
  BY <1>4, <1>5 DEF Fields
<1>7. /\ Idle.counts = Nothing /\ Idle.gone = {} /\ Idle.warned = {} /\ Idle.listed = NoApps
      /\ ReqType(Idle)
  BY IdleOK DEF Idle, Nothing
<1> HIDE DEF q
<1>8. ReqType(q)
  BY <1>2, <1>6, <1>7 DEF ReqType
<1>9. ReqInv(q, Met(c)', disk.rows)
  BY <1>0, <1>2, <1>6, <1>7, Begins
<1>10. conn # c
  BY Serving DEF Begin, AnswerInv, ReqInv, PlaceInv
<1>11. HistOK' /\ TableInv'
  BY <1>0 DEF AnswerInv, HistOK, TableInv, HasTable, apps, storeVars
<1>12. Len(hist) \in Nat \ {0} /\ hist' = hist
  BY <1>0, ReportAssumption DEF AnswerInv, HistOK
<1>13. q.from \in 1 .. Len(hist') /\ Len(hist) <= Len(hist')
  BY <1>6, <1>12
<1> QED
  BY <1>0, <1>3, <1>8, <1>9, <1>10, <1>11, <1>12, <1>13, RequestWrites DEF storeVars, q

\* A request ends, with its answer or with an error, and the client may ask again.
LEMMA Ends ==
  ASSUME AnswerInv, NEW c \in Clients, UNCHANGED <<disk, txn, phase, hist, used>>,
         phase = "serve", conn' = Free \/ (conn' = conn /\ conn # c),
         req' = [req EXCEPT ![c] = Idle]
  PROVE  AnswerInv'
<1>1. DOMAIN req' = Clients /\ req'[c] = Idle /\ \A d \in Clients \ {c} : req'[d] = req[d]
  BY DEF AnswerInv
<1>2. HistOK' /\ TableInv'
  BY DEF AnswerInv, HistOK, TableInv, HasTable, apps
<1>3. Len(hist) \in Nat \ {0} /\ hist' = hist /\ Idle.from = 1
  BY ReportAssumption DEF AnswerInv, HistOK, Idle
<1>4. Idle.from \in 1 .. Len(hist') /\ Len(hist) <= Len(hist')
  BY <1>3
<1>5. conn' # c
  BY HolderAssumption
<1> QED
  BY <1>1, <1>2, <1>3, <1>4, <1>5, IdleOK, RequestWrites

\* An answer has been given.
LEMMA ReplyStep ==
  ASSUME AnswerInv, NEW c \in Clients, Reply(c)
  PROVE  AnswerInv'
<1>1. /\ UNCHANGED <<storeVars, hist, used>> /\ req' = [req EXCEPT ![c] = Idle]
      /\ req[c].kind # "none" /\ req[c].rest = Nothing
  BY DEF Reply, Done, Nothing
<1>2. phase = "serve" /\ conn # c
  BY <1>1, Serving
<1> QED
  BY <1>1, <1>2, Ends DEF storeVars

\* A list query takes the connection and sees the table of that moment.
LEMMA OpenRowsStep ==
  ASSUME AnswerInv, NEW c \in Clients, OpenRows(c)
  PROVE  AnswerInv'
<1> DEFINE r == req[c]
           q == req'[c]
<1>0. ReqType(r) /\ ReqInv(r, Met(c), disk.rows) /\ DOMAIN req = Clients /\ DOMAIN r = Fields
  BY DEF AnswerInv, ReqType
<1>1. /\ UNCHANGED <<disk, txn, phase, hist, used>> /\ phase = "serve" /\ conn' = c
      /\ r.step = "begin" /\ r.rest # Nothing /\ Head(r.rest) \in {"summary", "list", "again"}
  BY DEF OpenRows, Query, Lists, At, Nothing
<1>2. /\ q.rows = Installed /\ q.step = "rows" /\ DOMAIN q = Fields
      /\ q.kind = r.kind /\ q.rest = r.rest /\ q.counts = r.counts /\ q.shown = r.shown
      /\ q.listed = r.listed /\ q.findings = r.findings /\ q.gone = r.gone /\ q.asked = r.asked
      /\ q.todo = r.todo /\ q.base = r.base /\ q.from = r.from /\ Unfailed(q, r)
      /\ DOMAIN req' = Clients /\ \A d \in Clients \ {c} : req'[d] = req[d]
  BY <1>0 DEF OpenRows, Fields, Unfailed
<1> HIDE DEF r, q
<1>3. Installed \in Met(c) /\ Installed \in Tables
  BY MetFacts
<1>4. ReqType(q)
  BY <1>0, <1>2, <1>3 DEF ReqType, Unfailed
<1>5. StepInv(q, Met(c))
  BY <1>1, <1>2, <1>3 DEF StepInv
<1>6. ReqInv(q, Met(c), disk.rows)
  <2>1. q.kind # "preview"
    BY <1>0, <1>1, <1>2, StageOf, StageFacts DEF ReqInv
  <2> QED
    BY <1>0, <1>2, <1>5, <2>1, WithinStage DEF Unfailed
<1> QED
  BY <1>1, <1>2, <1>4, <1>6, RequestReads DEF q, r

\* What the demo's summary counts.
LEMMA CountsAre == \A t : Counts(t) = CountsOf(t, disk.rows)
  BY DEF Counts, CountsOf, FallsBack, DemoCounts, SeedCounts

\* The rows of a summary or a list are used: they are a table the request has met,
\* or none, if the query of hasTable failed.
LEMMA Used ==
  ASSUME NEW r, NEW v, NEW q, NEW M \in SUBSET Tables, ReqType(r), ReqInv(r, M, disk.rows),
         r.rest # Nothing, Head(r.rest) \in {"summary", "list"},
         q = Use(v), ReqType(v), v.rows \in M \/ (v.rows = NoApps /\ Head(r.rest) \in v.blind),
         v.kind = r.kind, v.rest = r.rest, v.counts = r.counts, v.shown = r.shown,
         v.listed = r.listed, v.findings = r.findings, v.gone = r.gone, v.asked = r.asked,
         v.warned = r.warned, v.lost = r.lost, r.blind \subseteq v.blind
  PROVE  ReqType(q) /\ ReqInv(q, M, disk.rows) /\ q.from = v.from
<1>0. DOMAIN v = Fields /\ v.rows \in Saw(v, M, Head(r.rest))
  BY DEF ReqType, Saw
<1>3. CASE Head(r.rest) = "summary"
  <2>1. q = Advance([v EXCEPT !.counts = Counts(v.rows)])
    BY <1>3 DEF Use
  <2>2. /\ q.kind = v.kind /\ q.rest = Tail(r.rest) /\ q.step = "begin" /\ q.rows = NoApps
        /\ q.counts = Counts(v.rows)
        /\ q.shown = v.shown /\ q.listed = v.listed /\ q.findings = v.findings
        /\ q.gone = v.gone /\ q.asked = v.asked /\ q.todo = v.todo /\ q.base = v.base
        /\ q.warned = v.warned /\ q.lost = v.lost /\ q.blind = v.blind
        /\ q.from = v.from /\ DOMAIN q = Fields
    BY <1>0, <2>1 DEF Advance, Fields
  <2>3. ReqType(q)
    BY <2>2, NoAppsTable DEF ReqType
  <2>4. v.rows \in Saw(q, M, "summary") /\ q.counts = CountsOf(v.rows, disk.rows)
    BY <1>0, <1>3, <2>2, CountsAre DEF Saw
  <2>5. ReqInv(q, M, disk.rows)
    BY <1>3, <2>2, <2>4, SummaryDone
  <2> QED
    BY <2>2, <2>3, <2>5
<1>5. CASE Head(r.rest) = "list"
  <2>1. q = IF FallsBack(v.rows) THEN [v EXCEPT !.step = "demo"]
            ELSE [v EXCEPT !.step = "trust", !.todo = DOMAIN v.rows]
    BY <1>5 DEF Use
  <2>2. /\ q.kind = v.kind /\ q.rest = v.rest /\ q.rows = v.rows /\ q.counts = v.counts
        /\ q.shown = v.shown /\ q.listed = v.listed /\ q.findings = v.findings
        /\ q.gone = v.gone /\ q.asked = v.asked /\ q.base = v.base
        /\ q.warned = v.warned /\ q.lost = v.lost /\ q.blind = v.blind
        /\ q.from = v.from /\ DOMAIN q = Fields
        /\ q.todo \in {v.todo, DOMAIN v.rows}
        /\ q.step = IF FallsBack(v.rows) THEN "demo" ELSE "trust"
    BY <1>0, <2>1 DEF Fields
  <2>3. v.rows \in Tables /\ DOMAIN v.rows \in SUBSET AppIds
    BY TableType DEF ReqType
  <2>4. ReqType(q)
    BY <2>2, <2>3 DEF ReqType
  <2>5. StepInv(q, M)
    <3>1. q.rows \in Saw(q, M, "list") /\ (DOMAIN q.rows # {} => q.rows \in M)
      BY <1>0, <1>5, <2>2, NoAppsTable DEF Saw
    <3> QED
      BY <1>5, <2>2, <3>1 DEF StepInv, FallsBack
  <2>6. ReqInv(q, M, disk.rows)
    <3>1. q.kind # "preview"
      BY <1>5, <2>2, StageOf, StageFacts DEF ReqInv
    <3> QED
      BY <2>2, <2>5, <3>1, WithinStage
  <2> QED
    BY <2>2, <2>4, <2>6
<1> QED
  BY <1>3, <1>5

\* The last row returns the connection: the counts, the list or the inventory are
\* those of the table that was read.
LEMMA CloseRowsStep ==
  ASSUME AnswerInv, NEW c \in Clients, CloseRows(c)
  PROVE  AnswerInv'
<1> DEFINE r == req[c]
           q == req'[c]
<1>0. ReqType(r) /\ ReqInv(r, Met(c), disk.rows) /\ DOMAIN req = Clients /\ DOMAIN r = Fields
  BY DEF AnswerInv, ReqType
<1>1. /\ UNCHANGED <<disk, txn, phase, hist, used>> /\ phase = "serve" /\ conn' = Free
      /\ conn = c /\ q = Use(r)
      /\ DOMAIN req' = Clients /\ \A d \in Clients \ {c} : req'[d] = req[d]
  BY <1>0 DEF CloseRows, AfterRows
<1>2. /\ r.step = "rows" /\ r.rest # Nothing /\ Head(r.rest) \in {"summary", "list", "again"}
      /\ r.rows \in Met(c)
  BY <1>0, <1>1, Serving DEF ReqInv, StepInv
<1> HIDE DEF r, q
<1>m. Met(c) \in SUBSET Tables
  BY MetFacts
<1>3. CASE Head(r.rest) \in {"summary", "list"}
  <2>1. ReqType(q) /\ ReqInv(q, Met(c), disk.rows) /\ q.from = r.from
    BY <1>0, <1>1, <1>2, <1>3, <1>m, Used, ZenonT(60)
  <2> QED
    BY <1>1, <2>1, RequestReads, HolderAssumption DEF q, r
<1>4. CASE Head(r.rest) = "again"
  <2>1. q = Advance([r EXCEPT !.listed = r.rows, !.todo = DOMAIN r.rows])
    BY <1>1, <1>4 DEF Use
  <2>2. /\ q.kind = r.kind /\ q.rest = Tail(r.rest) /\ q.step = "begin" /\ q.rows = NoApps
        /\ q.counts = r.counts
        /\ q.shown = r.shown /\ q.listed = r.rows /\ q.findings = r.findings
        /\ q.gone = r.gone /\ q.asked = r.asked /\ q.todo = DOMAIN r.rows /\ q.base = r.base
        /\ q.from = r.from /\ DOMAIN q = Fields /\ Unfailed(q, r)
    BY <1>0, <2>1 DEF Advance, Fields, Unfailed
  <2>3. r.rows \in Tables /\ DOMAIN r.rows \in SUBSET AppIds
    BY <1>0, TableType DEF ReqType
  <2>4. ReqType(q)
    BY <1>0, <2>2, <2>3, NoAppsTable DEF ReqType, Unfailed
  <2>5. ReqInv(q, Met(c), disk.rows)
    BY <1>0, <1>2, <1>4, <1>m, <2>2, AgainDone
  <2> QED
    BY <1>1, <2>2, <2>4, <2>5, RequestReads, HolderAssumption DEF q, r
<1> QED
  BY <1>2, <1>3, <1>4

\* A count or a listing fails: a bundle warns of it, any other request ends.
LEMMA FailRowsStep ==
  ASSUME AnswerInv, NEW c \in Clients, FailRows(c)
  PROVE  AnswerInv'
<1> DEFINE r == req[c]
           q == req'[c]
<1>0. ReqType(r) /\ ReqInv(r, Met(c), disk.rows) /\ DOMAIN req = Clients /\ DOMAIN r = Fields
  BY DEF AnswerInv, ReqType
<1>1. /\ UNCHANGED <<disk, txn, phase, hist, used>> /\ phase = "serve" /\ conn' = Free
      /\ req' = [req EXCEPT ![c] = Failed(r)]
  BY DEF FailRows, Query
<1>2. r.rest # Nothing /\ Head(r.rest) \in {"summary", "list", "again"}
  <2>1. CASE Lists(c)
    BY <2>1 DEF Lists, At, Nothing
  <2>2. CASE r.step \in {"demo", "rows"}
    BY <1>0, <2>2 DEF ReqInv, StepInv
  <2> QED
    BY <2>1, <2>2, Serving DEF FailRows, Query
<1>m. Met(c) \in SUBSET Tables
  BY MetFacts
<1>3. CASE r.kind # "bundle"
  <2>1. Failed(r) = Idle
    BY <1>3 DEF Failed
  <2>2. req' = [req EXCEPT ![c] = Idle]
    BY <1>1, <2>1
  <2> QED
    BY <1>1, <2>2, Ends
<1>4. CASE r.kind = "bundle"
  <2> DEFINE stage == Head(r.rest)
             v == [r EXCEPT !.warned = r.warned \cup {stage}, !.todo = {},
                            !.shown = IF stage = "list" THEN Listing(NoApps) ELSE r.shown]
  <2>1. q = Advance(v) /\ DOMAIN req' = Clients /\ \A d \in Clients \ {c} : req'[d] = req[d]
    BY <1>0, <1>1, <1>4 DEF Failed
  <2> HIDE DEF r, q
  <2>2. /\ v.kind = r.kind /\ v.rest = r.rest /\ v.counts = r.counts /\ v.listed = r.listed
        /\ v.findings = r.findings /\ v.gone = r.gone /\ v.asked = r.asked /\ v.base = r.base
        /\ v.from = r.from /\ v.lost = r.lost /\ v.blind = r.blind /\ v.todo = {}
        /\ v.warned = r.warned \cup {stage} /\ DOMAIN v = Fields
        /\ v.shown = IF stage = "list" THEN Listing(NoApps) ELSE r.shown
    BY <1>0 DEF Fields
  <2> HIDE DEF v, stage
  <2>3. /\ q.kind = r.kind /\ q.rest = Tail(r.rest) /\ q.step = "begin" /\ q.rows = NoApps
        /\ q.counts = r.counts /\ q.listed = r.listed /\ q.findings = r.findings
        /\ q.gone = r.gone /\ q.asked = r.asked /\ q.todo = {} /\ q.base = r.base
        /\ q.from = r.from /\ DOMAIN q = Fields /\ q.lost = r.lost /\ q.blind = r.blind
        /\ q.warned = r.warned \cup {stage}
        /\ q.shown = IF stage = "list" THEN Listing(NoApps) ELSE r.shown
    BY <2>1, <2>2 DEF Advance, Fields
  <2>4. stage = Head(r.rest) /\ stage \in {"summary", "list", "again"} /\ stage \in Queries
    BY <1>2 DEF stage, Queries
  <2>5. DOMAIN Listing(NoApps) = {"demo", "rows"} /\ Listing(NoApps).rows = NoApps
    BY DEF Listing
  <2>6. ReqType(q)
    BY <1>0, <2>3, <2>4, <2>5, NoAppsTable DEF ReqType
  <2>7. ReqInv(q, Met(c), disk.rows)
    BY <1>0, <1>2, <1>4, <1>m, <2>3, <2>4, StageFailed
  <2> QED
    BY <1>1, <2>1, <2>3, <2>6, <2>7, RequestReads, HolderAssumption DEF q, r
<1> QED
  BY <1>3, <1>4

\* The query of hasTable fails: the demo stands in.
LEMMA MissTableStep ==
  ASSUME AnswerInv, NEW c \in Clients, MissTable(c)
  PROVE  AnswerInv'
<1> DEFINE r == req[c]
           q == req'[c]
<1>0. ReqType(r) /\ ReqInv(r, Met(c), disk.rows) /\ DOMAIN req = Clients /\ DOMAIN r = Fields
  BY DEF AnswerInv, ReqType
<1>1. PICK stage \in {"summary", "list"} :
        /\ r.rest # Nothing /\ Head(r.rest) = stage
        /\ req' = [req EXCEPT ![c] = Use([r EXCEPT !.rows = NoApps, !.blind = r.blind \cup {stage}])]
  BY DEF MissTable, At, Nothing
<1>2. /\ UNCHANGED <<disk, txn, phase, conn, hist, used>> /\ phase = "serve" /\ conn = Free
  BY DEF MissTable, Query, storeVars
<1> DEFINE v == [r EXCEPT !.rows = NoApps, !.blind = r.blind \cup {stage}]
<1>3. q = Use(v) /\ DOMAIN req' = Clients /\ \A d \in Clients \ {c} : req'[d] = req[d]
  BY <1>0, <1>1
<1> HIDE DEF r, q
<1>4. /\ v.kind = r.kind /\ v.rest = r.rest /\ v.counts = r.counts /\ v.listed = r.listed
      /\ v.findings = r.findings /\ v.gone = r.gone /\ v.asked = r.asked /\ v.base = r.base
      /\ v.from = r.from /\ v.lost = r.lost /\ v.warned = r.warned /\ v.todo = r.todo
      /\ v.shown = r.shown /\ v.rows = NoApps /\ v.blind = r.blind \cup {stage}
      /\ DOMAIN v = Fields
  BY <1>0 DEF Fields
<1> HIDE DEF v
<1>5. ReqType(v)
  BY <1>0, <1>4, NoAppsTable DEF ReqType, Queries
<1>6. ReqType(q) /\ ReqInv(q, Met(c), disk.rows) /\ q.from = r.from
  BY <1>0, <1>1, <1>3, <1>4, <1>5, MetFacts, Used
<1> QED
  BY <1>2, <1>3, <1>6, RequestReads, HolderAssumption DEF q, r

\* Apps with an empty table lists the demo.
LEMMA ReadDemoStep ==
  ASSUME AnswerInv, NEW c \in Clients, ReadDemo(c)
  PROVE  AnswerInv'
<1> DEFINE r == req[c]
           q == req'[c]
<1>0. ReqType(r) /\ ReqInv(r, Met(c), disk.rows) /\ DOMAIN req = Clients /\ DOMAIN r = Fields
  BY DEF AnswerInv, ReqType
<1>1. /\ UNCHANGED <<disk, txn, phase, conn, hist, used>> /\ phase = "serve" /\ conn = Free
      /\ r.step = "demo" /\ q = Advance([r EXCEPT !.shown = DemoListing, !.todo = {}, !.gone = r.asked])
      /\ DOMAIN req' = Clients /\ \A d \in Clients \ {c} : req'[d] = req[d]
  BY <1>0 DEF ReadDemo, Query, storeVars
<1> HIDE DEF r, q
<1>2. /\ r.rest # Nothing /\ Head(r.rest) = "list" /\ r.rows \in Saw(r, Met(c), "list")
      /\ DOMAIN r.rows = {}
  BY <1>0, <1>1 DEF ReqInv, StepInv
<1>3. /\ q.kind = r.kind /\ q.rest = Tail(r.rest) /\ q.step = "begin" /\ q.rows = NoApps
      /\ q.shown = DemoListing /\ q.counts = r.counts /\ q.listed = r.listed
      /\ q.findings = r.findings /\ q.gone = r.asked /\ q.asked = r.asked /\ q.todo = {}
      /\ q.base = r.base /\ q.from = r.from /\ DOMAIN q = Fields /\ Unfailed(q, r)
  BY <1>0, <1>1 DEF Advance, Fields, Unfailed
<1>4. DOMAIN DemoListing = {"demo", "rows"} /\ DemoListing.rows = NoApps
  BY DEF DemoListing
<1>5. ReqType(q)
  BY <1>0, <1>3, <1>4, NoAppsTable DEF ReqType, Unfailed
<1>6. NoApps \in Saw(r, Met(c), "list")
  BY <1>0, <1>2, NoAppsTable DEF ReqType
<1>7. DemoListing = [demo |-> DOMAIN NoApps = {}, rows |-> NoApps]
  <2>1. (DOMAIN NoApps = {}) = TRUE
    BY NoAppsTable
  <2> QED
    BY <2>1 DEF DemoListing
<1>8. ReqInv(q, Met(c), disk.rows)
  <2>1. q.shown = [demo |-> DOMAIN NoApps = {}, rows |-> NoApps]
    BY <1>3, <1>7
  <2>2. q.gone = r.asked \ DOMAIN NoApps /\ DOMAIN NoApps = {}
    BY <1>3, NoAppsTable
  <2> QED
    BY <1>0, <1>2, <1>3, <1>6, <2>1, <2>2, MetFacts, ListDone
<1> QED
  BY <1>1, <1>3, <1>5, <1>8, RequestReads, HolderAssumption DEF q, r

\* The trust of a listed app is looked up, and after the last one the list is
\* what was read.
LEMMA ReadTrustStep ==
  ASSUME AnswerInv, NEW c \in Clients, ReadTrust(c)
  PROVE  AnswerInv'
<1> DEFINE r == req[c]
           q == req'[c]
<1>0. ReqType(r) /\ ReqInv(r, Met(c), disk.rows) /\ DOMAIN req = Clients /\ DOMAIN r = Fields
  BY DEF AnswerInv, ReqType
<1>1. /\ UNCHANGED <<disk, txn, phase, conn, hist, used>> /\ phase = "serve" /\ conn = Free
      /\ r.step = "trust"
      /\ \E i \in r.todo :
           q = IF r.todo \ {i} # {} THEN [r EXCEPT !.todo = r.todo \ {i}]
               ELSE Advance([r EXCEPT !.shown = Listing(r.rows), !.todo = Wanted(r),
                                      !.gone = r.asked \ DOMAIN r.rows])
      /\ DOMAIN req' = Clients /\ \A d \in Clients \ {c} : req'[d] = req[d]
  BY <1>0 DEF ReadTrust, Query, storeVars
<1> HIDE DEF r, q
<1>2. /\ r.rest # Nothing /\ Head(r.rest) \in {"list", "detail"}
      /\ Head(r.rest) = "list" => r.rows \in Met(c) /\ DOMAIN r.rows # {}
  BY <1>0, <1>1 DEF ReqInv, StepInv
<1>m. Met(c) \in SUBSET Tables
  BY MetFacts
<1>3. ASSUME NEW i \in r.todo, q = [r EXCEPT !.todo = r.todo \ {i}] PROVE AnswerInv'
  <2>1. /\ q.kind = r.kind /\ q.rest = r.rest /\ q.step = r.step /\ q.rows = r.rows
        /\ q.shown = r.shown /\ q.counts = r.counts /\ q.listed = r.listed
        /\ q.findings = r.findings /\ q.gone = r.gone /\ q.asked = r.asked
        /\ q.todo = r.todo \ {i}
        /\ q.base = r.base /\ q.from = r.from /\ DOMAIN q = Fields /\ Unfailed(q, r)
    BY <1>0, <1>3 DEF Fields, Unfailed
  <2>2. ReqType(q)
    BY <1>0, <2>1 DEF ReqType, Unfailed
  <2>3. StepInv(q, Met(c))
    BY <1>0, <2>1 DEF StepInv, ReqInv, Saw, Unfailed
  <2>4. q.kind # "preview"
    BY <1>0, <1>2, <2>1, StageOf DEF ReqInv
  <2>5. ReqInv(q, Met(c), disk.rows)
    BY <1>0, <2>1, <2>3, <2>4, WithinStage DEF Unfailed
  <2> QED
    BY <1>1, <2>1, <2>2, <2>5, RequestReads, HolderAssumption DEF q, r
<1>4. CASE q = Advance([r EXCEPT !.shown = Listing(r.rows), !.todo = Wanted(r),
                                     !.gone = r.asked \ DOMAIN r.rows])
  <2>1. /\ q.kind = r.kind /\ q.rest = Tail(r.rest) /\ q.step = "begin" /\ q.rows = NoApps
        /\ q.shown = Listing(r.rows) /\ q.counts = r.counts /\ q.listed = r.listed
        /\ q.findings = r.findings /\ q.gone = r.asked \ DOMAIN r.rows /\ q.asked = r.asked
        /\ q.todo = Wanted(r)
        /\ q.base = r.base /\ q.from = r.from /\ DOMAIN q = Fields /\ Unfailed(q, r)
    BY <1>0, <1>4 DEF Advance, Fields, Unfailed
  <2>2. DOMAIN Listing(r.rows) = {"demo", "rows"} /\ Listing(r.rows).rows = r.rows
    BY DEF Listing
  <2>3. Wanted(r) \in SUBSET AppIds /\ q.gone \in SUBSET AppIds
    BY <1>0, <2>1, TableType DEF ReqType, Wanted
  <2>4. ReqType(q)
    BY <1>0, <2>1, <2>2, <2>3, NoAppsTable DEF ReqType, Unfailed
  <2>5. CASE Head(r.rest) = "list"
    <3>1. q.shown = [demo |-> DOMAIN r.rows = {}, rows |-> r.rows]
      <4>1. (DOMAIN r.rows = {}) = FALSE
        BY <1>2, <2>5
      <4> QED
        BY <2>1, <4>1 DEF Listing
    <3>2. ReqInv(q, Met(c), disk.rows)
      <4>1. r.rows \in Met(c) /\ r.rows \in Saw(r, Met(c), "list")
        BY <1>2, <2>5 DEF Saw
      <4> QED
        BY <1>0, <1>2, <1>m, <2>1, <2>5, <3>1, <4>1, ListDone
    <3> QED
      BY <1>1, <2>1, <2>4, <3>2, RequestReads, HolderAssumption DEF q, r
  <2>6. CASE Head(r.rest) = "detail"
    <3>1. ReqInv(q, Met(c), disk.rows)
      BY <1>0, <1>1, <1>2, <1>m, <2>1, <2>6, DetailDone
    <3> QED
      BY <1>1, <2>1, <2>4, <3>1, RequestReads, HolderAssumption DEF q, r
  <2> QED
    BY <1>2, <2>5, <2>6
<1> QED
  BY <1>1, <1>3, <1>4

\* The part of a table that holds one of its apps.
LEMMA OneRow ==
  ASSUME NEW t \in Tables, NEW i \in DOMAIN t
  PROVE  [j \in {i} |-> t[j]] \in Tables
<1>1. i \in AppIds /\ t[i] \in Rows
  BY TableType
<1>2. {i} \in SUBSET AppIds /\ [j \in {i} |-> t[j]] \in [{i} -> Rows]
  BY <1>1
<1> QED
  BY <1>2, TableIntro

\* GetApp finds the row of the app, or looks for it in the list.
LEMMA ReadAppStep ==
  ASSUME AnswerInv, NEW c \in Clients, ReadApp(c)
  PROVE  AnswerInv'
<1> DEFINE r == req[c]
           q == req'[c]
<1>0. ReqType(r) /\ ReqInv(r, Met(c), disk.rows) /\ DOMAIN req = Clients /\ DOMAIN r = Fields
  BY DEF AnswerInv, ReqType
<1>1. /\ UNCHANGED <<disk, txn, phase, conn, hist, used>> /\ phase = "serve" /\ conn = Free
      /\ r.step = "begin" /\ r.rest # Nothing /\ Head(r.rest) = "detail"
      /\ \E i \in r.asked :
           \/ i \in DOMAIN apps /\ q = [r EXCEPT !.rows = [j \in {i} |-> apps[j]], !.step = "trust"]
           \/ q = [r EXCEPT !.todo = {}, !.rest = AppsList]
      /\ DOMAIN req' = Clients /\ \A d \in Clients \ {c} : req'[d] = req[d]
  BY <1>0, StagesStart DEF ReadApp, Query, At, Nothing, storeVars
<1> HIDE DEF r, q
<1>2. PICK i \in r.asked :
           \/ i \in DOMAIN apps /\ q = [r EXCEPT !.rows = [j \in {i} |-> apps[j]], !.step = "trust"]
           \/ q = [r EXCEPT !.todo = {}, !.rest = AppsList]
  BY <1>1
<1>3. /\ q.kind = r.kind /\ q.asked = r.asked /\ q.counts = r.counts /\ q.shown = r.shown
      /\ q.listed = r.listed /\ q.findings = r.findings /\ q.base = r.base /\ q.from = r.from
      /\ q.gone = r.gone /\ DOMAIN q = Fields /\ Unfailed(q, r)
      /\ \/ /\ i \in DOMAIN apps /\ q.rows = [j \in {i} |-> apps[j]] /\ q.step = "trust"
            /\ q.rest = r.rest /\ q.todo = r.todo
         \/ q.rows = r.rows /\ q.step = "begin" /\ q.rest = AppsList /\ q.todo = {}
  <2>1. CASE i \in DOMAIN apps /\ q = [r EXCEPT !.rows = [j \in {i} |-> apps[j]], !.step = "trust"]
    BY <1>0, <2>1 DEF Fields, Unfailed
  <2>2. CASE q = [r EXCEPT !.todo = {}, !.rest = AppsList]
    BY <1>0, <1>1, <2>2 DEF Fields, Unfailed
  <2> QED
    BY <1>2, <2>1, <2>2
<1>4. r.asked \subseteq {i}
  <2>1. r.kind = "detail"
    BY <1>0, <1>1, StageOf DEF ReqInv
  <2> QED
    BY <1>0, <2>1 DEF ReqInv, GoneInv
<1>5. ReqType(q)
  <2>1. i \in AppIds
    BY <1>0 DEF ReqType
  <2>2. i \in DOMAIN apps => [j \in {i} |-> apps[j]] \in Tables
    BY MetFacts, OneRow
  <2> QED
    BY <1>0, <1>3, <2>1, <2>2 DEF ReqType, Unfailed
<1>6. ReqInv(q, Met(c), disk.rows)
  <2>1. q.step = "trust" => i \in DOMAIN q.rows
    BY <1>3
  <2> QED
    BY <1>0, <1>1, <1>3, <1>4, <2>1, MetFacts, DetailRead
<1> QED
  BY <1>1, <1>3, <1>5, <1>6, RequestReads, HolderAssumption DEF q, r

\* The row of the next app to observe is read again.
LEMMA ReadRowStep ==
  ASSUME AnswerInv, NEW c \in Clients, ReadRow(c)
  PROVE  AnswerInv'
<1> DEFINE r == req[c]
           q == req'[c]
<1>0. ReqType(r) /\ ReqInv(r, Met(c), disk.rows) /\ DOMAIN req = Clients /\ DOMAIN r = Fields
  BY DEF AnswerInv, ReqType
<1>1. /\ UNCHANGED <<disk, txn, phase, conn, hist, used>> /\ phase = "serve" /\ conn = Free
      /\ r.step = "begin" /\ r.rest # Nothing /\ Head(r.rest) = "observe"
      /\ \E i \in r.todo :
           \/ i \in DOMAIN apps /\ q = [r EXCEPT !.base = [j \in {i} |-> apps[i]], !.step = "observed"]
           \/ q = [r EXCEPT !.todo = r.todo \ {i}]
      /\ DOMAIN req' = Clients /\ \A d \in Clients \ {c} : req'[d] = req[d]
  BY <1>0 DEF ReadRow, Query, At, Nothing, storeVars
<1> HIDE DEF r, q
<1>2. PICK i \in r.todo :
           \/ i \in DOMAIN apps /\ q = [r EXCEPT !.base = [j \in {i} |-> apps[i]], !.step = "observed"]
           \/ q = [r EXCEPT !.todo = r.todo \ {i}]
  BY <1>1
<1>3. /\ q.kind = r.kind /\ q.asked = r.asked /\ q.counts = r.counts /\ q.shown = r.shown
      /\ q.listed = r.listed /\ q.findings = r.findings /\ q.from = r.from /\ q.rest = r.rest
      /\ q.rows = r.rows /\ q.gone = r.gone /\ DOMAIN q = Fields /\ Unfailed(q, r)
      /\ \/ /\ i \in DOMAIN apps /\ q.base = [j \in {i} |-> apps[i]] /\ q.step = "observed"
            /\ q.todo = r.todo
         \/ q.base = r.base /\ q.step = r.step /\ q.todo = r.todo \ {i}
  <2>1. CASE i \in DOMAIN apps /\ q = [r EXCEPT !.base = [j \in {i} |-> apps[i]], !.step = "observed"]
    BY <1>0, <2>1 DEF Fields, Unfailed
  <2>2. CASE q = [r EXCEPT !.todo = r.todo \ {i}]
    BY <1>0, <2>2 DEF Fields, Unfailed
  <2> QED
    BY <1>2, <2>1, <2>2
<1>4. ReqType(q)
  <2>1. i \in DOMAIN apps => [j \in {i} |-> apps[i]] \in Tables
    <3>1. [j \in {i} |-> apps[i]] = [j \in {i} |-> apps[j]]
      OBVIOUS
    <3> QED
      BY <3>1, MetFacts, OneRow
  <2> QED
    BY <1>0, <1>3, <2>1 DEF ReqType, Unfailed
<1>5. StepInv(q, Met(c))
  BY <1>0, <1>1, <1>3 DEF StepInv, ReqInv
<1>6. q.kind # "preview"
  BY <1>0, <1>1, <1>3, StageOf, StageFacts DEF ReqInv
<1>7. ReqInv(q, Met(c), disk.rows)
  BY <1>0, <1>3, <1>5, <1>6, WithinStage DEF Unfailed
<1> QED
  BY <1>1, <1>3, <1>4, <1>7, RequestReads, HolderAssumption DEF q, r

\* What an observation makes of a row is a row.
LEMMA ObservedType ==
  ASSUME NEW row \in Rows, NEW obs \in Observations
  PROVE  Observed(row, obs) \in Rows
BY DEF Rows, Observations, Observed, Row

\* Replacing a row of a table.
LEMMA RowReplaced ==
  ASSUME NEW t \in Tables, NEW i, NEW row \in Rows
  PROVE  [t EXCEPT ![i] = row] \in Tables /\ DOMAIN [t EXCEPT ![i] = row] = DOMAIN t
<1>1. DOMAIN t \in SUBSET AppIds /\ t \in [DOMAIN t -> Rows]
  BY TableType
<1>2. [t EXCEPT ![i] = row] \in [DOMAIN t -> Rows]
  BY <1>1
<1> QED
  BY <1>1, <1>2, TableIntro

\* What Docker says is written to the row and to the list, which lists the same
\* apps as before.
LEMMA WriteObservedStep ==
  ASSUME AnswerInv, NEW c \in Clients, WriteObserved(c)
  PROVE  AnswerInv'
<1> DEFINE r == req[c]
           q == req'[c]
           Ticked(i) == [r EXCEPT !.step = "begin", !.todo = @ \ {i}, !.base = NoApps]
<1>0. /\ ReqType(r) /\ ReqInv(r, Met(c), disk.rows) /\ DOMAIN req = Clients /\ DOMAIN r = Fields
      /\ DOMAIN r.shown = {"demo", "rows"} /\ r.shown.rows \in Tables /\ r.base \in Tables
  BY DEF AnswerInv, ReqType
<1>1. /\ UNCHANGED <<disk, txn, phase, conn, used>> /\ phase = "serve" /\ conn = Free
      /\ r.step = "observed" /\ DOMAIN req' = Clients
      /\ \A d \in Clients \ {c} : req'[d] = req[d]
  BY <1>0 DEF WriteObserved, Query, storeVars
<1>2. PICK i \in DOMAIN r.base :
        \/ q = Ticked(i) /\ hist' = hist
        \/ \E obs \in Observations :
             /\ i \in DOMAIN apps /\ WriteApps([apps EXCEPT ![i] = Observed(r.base[i], obs)])
             /\ q = [Ticked(i) EXCEPT !.shown.rows[i] = Observed(r.base[i], obs)]
  BY <1>0 DEF WriteObserved
<1>3. LET v == Ticked(i) IN
      /\ v.kind = r.kind /\ v.asked = r.asked /\ v.counts = r.counts /\ v.shown = r.shown
      /\ v.listed = r.listed /\ v.findings = r.findings /\ v.from = r.from /\ v.rest = r.rest
      /\ v.rows = r.rows /\ v.gone = r.gone /\ DOMAIN v = Fields /\ v.base = NoApps
      /\ v.step = "begin" /\ v.todo = r.todo \ {i} /\ Unfailed(v, r)
  BY <1>0 DEF Fields, Unfailed
<1>m. Met(c) \in SUBSET Tables
  BY MetFacts
<1>4. CASE q = Ticked(i) /\ hist' = hist
  <2> HIDE DEF q, r, Ticked
  <2>1. ReqType(q)
    BY <1>0, <1>3, <1>4, NoAppsTable DEF ReqType, Unfailed
  <2>2. ReqInv(q, Met(c), disk.rows)
    BY <1>0, <1>1, <1>3, <1>4, <1>m, ObservedRow
  <2> QED
    BY <1>1, <1>3, <1>4, <2>1, <2>2, RequestReads, HolderAssumption DEF q, r
<1>5. ASSUME NEW obs \in Observations, i \in DOMAIN apps,
             WriteApps([apps EXCEPT ![i] = Observed(r.base[i], obs)]),
             q = [Ticked(i) EXCEPT !.shown.rows[i] = Observed(r.base[i], obs)]
      PROVE  AnswerInv'
  <2> DEFINE row == Observed(r.base[i], obs)
             v == Ticked(i)
  <2>1. row \in Rows
    BY <1>0, TableType, ObservedType
  <2>2. [apps EXCEPT ![i] = row] \in Tables
    BY <2>1, MetFacts, RowReplaced
  <2> HIDE DEF q, r, row, v
  <2>3. /\ q.kind = v.kind /\ q.asked = v.asked /\ q.counts = v.counts
        /\ q.listed = v.listed /\ q.findings = v.findings /\ q.from = v.from /\ q.rest = v.rest
        /\ q.rows = v.rows /\ q.gone = v.gone /\ DOMAIN q = Fields /\ q.base = v.base
        /\ q.step = v.step /\ q.todo = v.todo /\ Unfailed(q, v)
        /\ q.shown = [v.shown EXCEPT !.rows = [v.shown.rows EXCEPT ![i] = row]]
    <3>1. q = [v EXCEPT !.shown.rows[i] = row] /\ DOMAIN v = Fields
      BY <1>3, <1>5 DEF v, row
    <3> QED
      BY <3>1 DEF Fields, Unfailed
  <2>4. /\ v.shown = r.shown /\ v.kind = r.kind /\ v.asked = r.asked /\ v.counts = r.counts
        /\ v.listed = r.listed /\ v.findings = r.findings /\ v.from = r.from /\ v.rest = r.rest
        /\ v.rows = r.rows /\ v.gone = r.gone /\ v.base = NoApps
        /\ v.step = "begin" /\ v.todo = r.todo \ {i} /\ Unfailed(v, r)
    BY <1>3 DEF v
  <2>5. /\ q.shown.demo = r.shown.demo /\ q.shown.rows = [r.shown.rows EXCEPT ![i] = row]
        /\ DOMAIN q.shown = {"demo", "rows"}
    BY <1>0, <2>3, <2>4
  <2>6. q.shown.rows \in Tables /\ DOMAIN q.shown.rows = DOMAIN r.shown.rows
    <3>1. DOMAIN [r.shown.rows EXCEPT ![i] = row] = DOMAIN r.shown.rows
      OBVIOUS
    <3>2. [r.shown.rows EXCEPT ![i] = row] \in Tables
      BY <1>0, <2>1, RowReplaced
    <3> QED
      BY <2>5, <3>1, <3>2
  <2>7. ReqType(q)
    BY <1>0, <2>3, <2>4, <2>5, <2>6, NoAppsTable DEF ReqType, Unfailed
  <2>8. ReqInv(q, Met(c), disk.rows)
    BY <1>0, <1>1, <1>m, <2>3, <2>4, <2>5, <2>6, ObservedRow DEF Unfailed
  <2>9. HistOK /\ used' \in SUBSET AppIds
    BY <1>1 DEF AnswerInv, HistOK
  <2>10. /\ HistOK' /\ Len(hist) <= Len(hist') /\ \A k \in 1 .. Len(hist) : hist'[k] = hist[k]
    BY <1>5, <2>2, <2>9, WriteGrows DEF row
  <2>11. Met(c) \subseteq Met(c)' /\ req'[c].from \in 1 .. Len(hist')
    <3>1. req'[c].from = req[c].from /\ req[c].from \in 1 .. Len(hist)
      BY <2>3, <2>4 DEF AnswerInv, q, r
    <3> QED
      BY <2>9, <2>10, <3>1, MetGrows
  <2>12. ReqInv(q, Met(c)', disk.rows)
    BY <2>8, <2>11, MetMore
  <2>13. TableInv'
    <3>1. apps # NoApps
      BY <1>5, NoAppsTable
    <3> QED
      BY <1>1, <3>1 DEF AnswerInv, TableInv, HasTable
  <2> QED
    BY <1>1, <2>7, <2>10, <2>11, <2>12, <2>13, RequestWrites, HolderAssumption DEF q, r
<1> QED
  BY <1>2, <1>4, <1>5

\* A stage that has nothing left to do ends.
LEMMA EndStageStep ==
  ASSUME AnswerInv, NEW c \in Clients, EndStage(c)
  PROVE  AnswerInv'
<1> DEFINE r == req[c]
           q == req'[c]
<1>0. ReqType(r) /\ ReqInv(r, Met(c), disk.rows) /\ DOMAIN req = Clients /\ DOMAIN r = Fields
  BY DEF AnswerInv, ReqType
<1>1. /\ UNCHANGED <<disk, txn, phase, conn, hist, used>>
      /\ r.step = "begin" /\ r.rest # Nothing /\ Head(r.rest) \in {"observe", "each"}
      /\ r.todo = {} /\ q = Advance(r)
      /\ DOMAIN req' = Clients /\ \A d \in Clients \ {c} : req'[d] = req[d]
  BY <1>0 DEF EndStage, At, Nothing, storeVars
<1>2. phase = "serve" /\ conn # c
  BY <1>1, Serving
<1> HIDE DEF r, q
<1>3. /\ q.kind = r.kind /\ q.rest = Tail(r.rest) /\ q.step = "begin" /\ q.rows = NoApps
      /\ q.shown = r.shown /\ q.counts = r.counts /\ q.listed = r.listed
      /\ q.findings = r.findings /\ q.gone = r.gone /\ q.asked = r.asked /\ q.todo = r.todo
      /\ q.base = r.base /\ q.from = r.from /\ DOMAIN q = Fields /\ Unfailed(q, r)
  BY <1>0, <1>1 DEF Advance, Fields, Unfailed
<1>4. ReqType(q)
  BY <1>0, <1>3, NoAppsTable DEF ReqType, Unfailed
<1>5. ReqInv(q, Met(c), disk.rows)
  BY <1>0, <1>1, <1>3, MetFacts, LastDone
<1> QED
  BY <1>1, <1>2, <1>3, <1>4, <1>5, RequestReads DEF q, r

\* The findings of a bundle are those of the list it made.
LEMMA DiagnoseStep ==
  ASSUME AnswerInv, NEW c \in Clients, Diagnose(c)
  PROVE  AnswerInv'
<1> DEFINE r == req[c]
           q == req'[c]
           E == Evaluate(r.shown, "apps" \in disk.rows, "protection" \in disk.rows)
<1>0. ReqType(r) /\ ReqInv(r, Met(c), disk.rows) /\ DOMAIN req = Clients /\ DOMAIN r = Fields
  BY DEF AnswerInv, ReqType
<1>1. /\ UNCHANGED <<disk, txn, phase, conn, hist, used>> /\ phase = "serve" /\ conn = Free
      /\ r.step = "begin" /\ r.rest # Nothing /\ Head(r.rest) = "findings"
      /\ \/ q = Advance([r EXCEPT !.shown = DemoListing, !.findings = E])
         \/ q = Advance([r EXCEPT !.shown = DemoListing, !.findings = {"healthy"},
                                  !.warned = r.warned \cup {"findings"}])
      /\ DOMAIN req' = Clients /\ \A d \in Clients \ {c} : req'[d] = req[d]
  BY <1>0 DEF Diagnose, Query, At, Nothing, storeVars
<1> HIDE DEF r, q, E
<1>2. /\ q.kind = r.kind /\ q.rest = Tail(r.rest) /\ q.step = "begin" /\ q.rows = NoApps
      /\ q.shown = DemoListing /\ q.counts = r.counts /\ q.listed = r.listed
      /\ q.gone = r.gone /\ q.asked = r.asked /\ q.todo = r.todo
      /\ q.base = r.base /\ q.from = r.from /\ DOMAIN q = Fields
      /\ q.lost = r.lost /\ q.blind = r.blind
      /\ \/ q.findings = E /\ q.warned = r.warned
         \/ q.findings = {"healthy"} /\ q.warned = r.warned \cup {"findings"}
  BY <1>0, <1>1 DEF Advance, Fields
<1>3. DOMAIN DemoListing = {"demo", "rows"} /\ DemoListing.rows = NoApps
  BY DEF DemoListing
<1>4. ReqType(q)
  BY <1>0, <1>2, <1>3, NoAppsTable DEF ReqType, Queries
<1>5. ReqInv(q, Met(c), disk.rows)
  BY <1>0, <1>1, <1>2, MetFacts, FindingsDone DEF E
<1> QED
  BY <1>1, <1>2, <1>4, <1>5, RequestReads, HolderAssumption DEF q, r

\* An app of an inventory is looked up, and missed only if it is gone or cannot be
\* read.
LEMMA ReadEachStep ==
  ASSUME AnswerInv, NEW c \in Clients, ReadEach(c)
  PROVE  AnswerInv'
<1> DEFINE r == req[c]
           q == req'[c]
           Read(i) == [r EXCEPT !.todo = r.todo \ {i}]
<1>0. ReqType(r) /\ ReqInv(r, Met(c), disk.rows) /\ DOMAIN req = Clients /\ DOMAIN r = Fields
  BY DEF AnswerInv, ReqType
<1>1. /\ UNCHANGED <<disk, txn, phase, conn, hist, used>> /\ phase = "serve" /\ conn = Free
      /\ r.step = "begin" /\ r.rest # Nothing /\ Head(r.rest) = "each"
  BY DEF ReadEach, Query, At, Nothing, storeVars
<1>2. PICK i \in r.todo :
        \/ (i \in DOMAIN apps \/ r.kind = "export") /\ req' = [req EXCEPT ![c] = Read(i)]
        \/ /\ i \notin DOMAIN apps
           /\ req' = [req EXCEPT ![c] = [Read(i) EXCEPT !.gone = Read(i).gone \cup {i}]]
        \/ req' = [req EXCEPT ![c] = Idle]
        \/ req' = [req EXCEPT ![c] = [Read(i) EXCEPT !.gone = Read(i).gone \cup {i},
                                                     !.lost = Read(i).lost \cup {i}]]
  BY DEF ReadEach
<1>3. CASE req' = [req EXCEPT ![c] = Idle]
  BY <1>1, <1>3, Ends, HolderAssumption
<1>4. CASE req' # [req EXCEPT ![c] = Idle]
  <2>1. /\ DOMAIN req' = Clients /\ \A d \in Clients \ {c} : req'[d] = req[d]
        /\ \/ (i \in DOMAIN apps \/ r.kind = "export") /\ q = Read(i)
           \/ i \notin DOMAIN apps /\ q = [Read(i) EXCEPT !.gone = Read(i).gone \cup {i}]
           \/ q = [Read(i) EXCEPT !.gone = Read(i).gone \cup {i}, !.lost = Read(i).lost \cup {i}]
    BY <1>0, <1>2, <1>4
  <2> HIDE DEF r, q
  <2>2. LET v == Read(i) IN
        /\ v.kind = r.kind /\ v.rest = r.rest /\ v.step = r.step /\ v.rows = r.rows
        /\ v.shown = r.shown /\ v.counts = r.counts /\ v.listed = r.listed
        /\ v.findings = r.findings /\ v.asked = r.asked /\ v.gone = r.gone
        /\ v.base = r.base /\ v.from = r.from /\ DOMAIN v = Fields
        /\ v.warned = r.warned /\ v.blind = r.blind /\ v.lost = r.lost /\ v.todo = r.todo \ {i}
    BY <1>0 DEF Fields
  <2> HIDE DEF Read
  <2>3. /\ q.kind = r.kind /\ q.rest = r.rest /\ q.step = r.step /\ q.rows = r.rows
        /\ q.shown = r.shown /\ q.counts = r.counts /\ q.listed = r.listed
        /\ q.findings = r.findings /\ q.asked = r.asked
        /\ q.base = r.base /\ q.from = r.from /\ DOMAIN q = Fields
        /\ q.warned = r.warned /\ q.blind = r.blind /\ q.todo = r.todo \ {i}
        /\ \/ (i \in DOMAIN apps \/ r.kind = "export") /\ q.gone = r.gone /\ q.lost = r.lost
           \/ i \notin DOMAIN apps /\ q.gone = r.gone \cup {i} /\ q.lost = r.lost
           \/ q.gone = r.gone \cup {i} /\ q.lost = r.lost \cup {i}
    <3> DEFINE v == Read(i)
    <3>0. DOMAIN v = Fields
      BY <2>2
    <3> HIDE DEF v
    <3>1. CASE (i \in DOMAIN apps \/ r.kind = "export") /\ q = v
      BY <2>1, <2>2, <3>1 DEF v
    <3>2. CASE i \notin DOMAIN apps /\ q = [v EXCEPT !.gone = v.gone \cup {i}]
      BY <2>1, <2>2, <3>0, <3>2 DEF v, Fields
    <3>3. CASE q = [v EXCEPT !.gone = v.gone \cup {i}, !.lost = v.lost \cup {i}]
      BY <2>1, <2>2, <3>0, <3>3 DEF v, Fields
    <3> QED
      BY <2>1, <3>1, <3>2, <3>3 DEF v
  <2>4. ReqType(q)
    <3>1. i \in AppIds
      BY <1>0 DEF ReqType
    <3> QED
      BY <1>0, <2>3, <3>1 DEF ReqType
  <2>5. ReqInv(q, Met(c), disk.rows)
    BY <1>0, <1>1, <2>3, MetFacts, LookedUp
  <2> QED
    BY <1>1, <2>1, <2>3, <2>4, <2>5, RequestReads, HolderAssumption DEF q, r
<1> QED
  BY <1>3, <1>4

-----------------------------------------------------------------------------
(* Answers: workers, and the process.                                       *)

\* Workers write the table; what requests have met only grows.
LEMMA WorkerStep ==
  ASSUME AnswerInv, NEW i \in AppIds,
         \/ CreateAppInstance(i)
         \/ \E status \in {"running", "stopped", "error"} : UpdateAppInstanceStatus(i, status)
         \/ DeleteAppInstance(i)
  PROVE  AnswerInv'
<1>0. used \in SUBSET AppIds
  BY DEF AnswerInv, HistOK
<1>1. CASE CreateAppInstance(i)
  <2> DEFINE t == [j \in DOMAIN apps \cup {i} |-> IF j = i THEN Installing ELSE apps[j]]
  <2>1. apps \in Tables
    <3>1. hist \in Seq(Tables) /\ Len(hist) \in 1 .. Len(hist)
      BY ReportAssumption DEF AnswerInv, HistOK
    <3> QED
      BY <3>1 DEF apps
  <2>2. Installing \in Rows
    BY DEF Installing, Row, Rows
  <2>3. t \in Tables
    <3>1. DOMAIN apps \in SUBSET AppIds /\ \A j \in DOMAIN apps : apps[j] \in Rows
      BY <2>1, TableType
    <3>2. DOMAIN apps \cup {i} \in SUBSET AppIds /\ t \in [DOMAIN apps \cup {i} -> Rows]
      BY <2>2, <3>1
    <3> QED
      BY <3>2, TableIntro
  <2>4. Worker /\ WriteApps(t) /\ used' = used \cup {i} /\ UNCHANGED <<storeVars, req>>
    BY <1>1 DEF CreateAppInstance
  <2> HIDE DEF t
  <2> QED
    BY <1>0, <2>3, <2>4, WorkerWrites DEF storeVars
<1>2. ASSUME NEW status \in {"running", "stopped", "error"}, UpdateAppInstanceStatus(i, status)
      PROVE  AnswerInv'
  <2> DEFINE t == [apps EXCEPT ![i] = Row(status, "unknown")]
  <2>1. hist \in Seq(Tables) /\ Len(hist) \in 1 .. Len(hist)
    BY ReportAssumption DEF AnswerInv, HistOK
  <2>2. apps \in Tables /\ Row(status, "unknown") \in Rows
    BY <2>1 DEF apps, Row, Rows
  <2>3. t \in Tables
    BY <2>2, RowReplaced
  <2>4. Worker /\ WriteApps(t) /\ UNCHANGED <<storeVars, used, req>>
    BY <1>2 DEF UpdateAppInstanceStatus
  <2> HIDE DEF t
  <2> QED
    BY <1>0, <2>3, <2>4, WorkerWrites DEF storeVars
<1>3. CASE DeleteAppInstance(i)
  <2> DEFINE t == [j \in DOMAIN apps \ {i} |-> apps[j]]
  <2>1. hist \in Seq(Tables) /\ Len(hist) \in 1 .. Len(hist)
    BY ReportAssumption DEF AnswerInv, HistOK
  <2>2. apps \in Tables
    BY <2>1 DEF apps
  <2>3. t \in Tables
    <3>1. DOMAIN apps \in SUBSET AppIds /\ \A j \in DOMAIN apps : apps[j] \in Rows
      BY <2>2, TableType
    <3>2. DOMAIN apps \ {i} \in SUBSET AppIds /\ t \in [DOMAIN apps \ {i} -> Rows]
      BY <3>1
    <3> QED
      BY <3>2, TableIntro
  <2>4. Worker /\ WriteApps(t) /\ UNCHANGED <<storeVars, used, req>>
    BY <1>3 DEF DeleteAppInstance
  <2> HIDE DEF t
  <2> QED
    BY <1>0, <2>3, <2>4, WorkerWrites DEF storeVars
<1> QED
  BY <1>1, <1>2, <1>3

\* A process that starts, stops or is killed has no requests.
LEMMA NoRequests ==
  ASSUME AnswerInv, \A c \in Clients : req'[c] = Idle, DOMAIN req' = Clients,
         UNCHANGED <<hist, used>>, TableInv', conn' \in {Free, Opener}
  PROVE  AnswerInv'
<1>1. HistOK'
  BY DEF AnswerInv, HistOK
<1>2. ConnInv'
  BY HolderAssumption DEF ConnInv
<1>3. Len(hist) \in Nat \ {0} /\ Idle.from = 1
  BY ReportAssumption DEF AnswerInv, HistOK, Idle
<1>4. \A c \in Clients : req'[c].from \in 1 .. Len(hist')
  BY <1>3
<1> QED
  BY <1>1, <1>2, <1>4, IdleOK DEF AnswerInv

\* Opening the file neither has requests nor takes the table away.
LEMMA OpenKeeps ==
  ASSUME AnswerInv, IInv, Open, UNCHANGED <<hist, used, req>>
  PROVE  AnswerInv'
<1>1. phase # "serve"
  BY DEF Open, Start, GiveUp, ApplyBlock, RecordVersion, CommitMigrations, BeginSeed, InsertSeed,
     CommitSeed
<1>2. \A c \in Clients : req[c] = Idle
  BY <1>1 DEF AnswerInv, ConnInv
<1>3. conn \in {Free, Opener} /\ conn' \in {conn, Free, Opener}
  BY <1>1 DEF AnswerInv, ConnInv, Open, Start, GiveUp, ApplyBlock, RecordVersion,
     CommitMigrations, BeginSeed, InsertSeed, CommitSeed
<1>4. disk.objects \subseteq disk'.objects /\ disk'.objects \subseteq txn'.objects
  <2>1. DOMAIN txn = {"version", "objects", "rows", "prefs"} /\ disk.objects \subseteq txn.objects
    BY DEF IInv, Database, AnswerInv, TableInv
  <2>2. CASE (\E r \in Releases : Start(r)) \/ GiveUp \/ BeginSeed
    BY <2>2 DEF Start, GiveUp, BeginSeed, Staged
  <2>3. CASE CommitMigrations \/ CommitSeed
    BY <2>1, <2>3 DEF CommitMigrations, CommitSeed
  <2>4. CASE ApplyBlock
    BY <2>1, <2>4 DEF ApplyBlock, Staged
  <2>5. CASE RecordVersion
    BY <2>1, <2>5 DEF RecordVersion, Staged
  <2>6. CASE \E k \in SeedKinds : InsertSeed(k)
    BY <2>1, <2>6 DEF InsertSeed, Staged
  <2> QED
    BY <2>2, <2>3, <2>4, <2>5, <2>6 DEF Open
<1>5. TableInv'
  BY <1>4 DEF AnswerInv, TableInv, HasTable, apps
<1> QED
  BY <1>2, <1>3, <1>5, NoRequests DEF AnswerInv

\* A crash ends all requests.
LEMMA CrashKeeps ==
  ASSUME AnswerInv, IInv, Crash
  PROVE  AnswerInv'
<1>1. TableInv'
  BY DEF Crash, Die, Staged, AnswerInv, TableInv, HasTable, apps
<1>2. conn' = Free /\ DOMAIN req' = Clients /\ \A c \in Clients : req'[c] = Idle
  BY DEF Crash, Die
<1> QED
  BY <1>1, <1>2, NoRequests DEF Crash

\* Saving preferences touches no apps.
LEMMA SaveKeeps ==
  ASSUME AnswerInv, IInv, NEW p \in PrefInputs, SavePreferences(p), UNCHANGED <<hist, used, req>>
  PROVE  AnswerInv'
<1>1. /\ disk'.objects = disk.objects /\ disk'.rows = disk.rows /\ txn' = disk'
      /\ UNCHANGED <<phase, conn>>
  BY DEF SavePreferences, Upsert, IInv, Database
<1>2. TableInv'
  BY <1>1 DEF AnswerInv, TableInv, HasTable, apps
<1>3. ConnInv'
  BY <1>1 DEF AnswerInv, ConnInv
<1>4. \A c \in Clients : Met(c)' = Met(c)
  BY DEF Met
<1> QED
  BY <1>1, <1>2, <1>3, <1>4 DEF AnswerInv, HistOK

\* Every step keeps the invariant of requests.
LEMMA AnswerStep ==
  ASSUME AnswerInv, IInv, [Next]_vars
  PROVE  AnswerInv'
<1>1. CASE Open /\ UNCHANGED <<hist, used, req>>
  BY <1>1, OpenKeeps
<1>2. ASSUME NEW p \in PrefInputs, SavePreferences(p), UNCHANGED <<hist, used, req>>
      PROVE  AnswerInv'
  BY <1>2, SaveKeeps
<1>3. CASE Crash
  BY <1>3, CrashKeeps
<1>4. ASSUME NEW c \in Clients, NEW kind \in Asks[c], Begin(c, kind) PROVE AnswerInv'
  BY <1>4, BeginStep
<1>5. ASSUME NEW c \in Clients, Serve(c) PROVE AnswerInv'
  BY <1>5, OpenRowsStep, CloseRowsStep, FailRowsStep, MissTableStep, ReadDemoStep, ReadTrustStep,
     ReadAppStep, ReadRowStep, WriteObservedStep, EndStageStep, DiagnoseStep, ReadEachStep, ReplyStep DEF Serve
<1>6. ASSUME NEW i \in AppIds,
             \/ CreateAppInstance(i)
             \/ \E status \in {"running", "stopped", "error"} : UpdateAppInstanceStatus(i, status)
             \/ DeleteAppInstance(i)
      PROVE  AnswerInv'
  BY <1>6, WorkerStep
<1>7. CASE UNCHANGED vars
  <2>1. \A c \in Clients : Met(c)' = Met(c)
    BY <1>7 DEF vars, Met
  <2> QED
    BY <1>7, <2>1 DEF vars, AnswerInv, HistOK, TableInv, ConnInv, HasTable, apps
<1> QED
  BY <1>1, <1>2, <1>3, <1>4, <1>5, <1>6, <1>7 DEF Next

\* In the beginning there is one table, the empty one, and no request.
LEMMA AnswersStart == ReportsInit => AnswerInv
<1> SUFFICES ASSUME ReportsInit PROVE AnswerInv
  OBVIOUS
<1>1. /\ disk = NewFile /\ txn = NewFile /\ phase = "down" /\ conn = Free
      /\ hist = <<NoApps>> /\ used = {} /\ req = [c \in Clients |-> Idle]
  BY DEF ReportsInit, StoreInit
<1>2. Len(hist) = 1 /\ hist[1] = NoApps /\ hist \in Seq(Tables)
  BY <1>1, NoAppsTable
<1>3. HistOK
  BY <1>1, <1>2, ReportAssumption DEF HistOK
<1>4. TableInv
  BY <1>1, <1>2 DEF TableInv, apps
<1>5. ConnInv
  BY <1>1, HolderAssumption DEF ConnInv
<1>6. Idle.from = 1
  BY DEF Idle
<1> QED
  BY <1>1, <1>2, <1>3, <1>4, <1>5, <1>6, IdleOK DEF AnswerInv

\* Requests, the history of the table and the database file keep their types,
\* whatever is asked for and however often the process is killed.
THEOREM TypeCorrect == Spec => []TypeOK
<1>1. ReportsInit => IInv /\ AnswerInv
  BY Inits, AnswersStart
<1>2. IInv /\ AnswerInv /\ [Next]_vars => (IInv /\ AnswerInv)'
  BY NextStep, AnswerStep
<1>3. IInv /\ AnswerInv => TypeOK
  <2> SUFFICES ASSUME IInv, AnswerInv PROVE TypeOK
    OBVIOUS
  <2>1. StoreTypeOK
    <3>1. saved \in PrefInputs \cup {Default}
      BY DEF IInv, PrefsKept, Database
    <3> QED
      BY <3>1 DEF IInv, StoreTypeOK, AnswerInv, ConnInv
  <2>2. HistOK
    BY DEF AnswerInv
  <2>3. ASSUME NEW c \in Clients
        PROVE  /\ req[c].kind \in DOMAIN Stages \cup {"none"}
               /\ {req[c].rows, req[c].base, req[c].shown.rows, req[c].listed} \subseteq Tables
               /\ UNION {req[c].todo, req[c].gone, req[c].asked, req[c].lost} \subseteq AppIds
               /\ UNION {req[c].warned, req[c].blind} \subseteq {"summary", "list", "again", "findings"}
               /\ req[c].from \in 1 .. Len(hist)
    BY StagesStart DEF AnswerInv, ReqType, ReqInv, PlaceInv, Queries
  <2> QED
    BY <2>1, <2>2, <2>3 DEF TypeOK, HistOK
<1> QED
  BY <1>1, <1>2, <1>3, PTL DEF Spec

\* Whatever workers change while an answer is put together from its queries, a
\* summary, a list, a set of findings and an inventory are each about one moment
\* of their request, and an app is missed only if it was (sqlite.go:204,
\* bundle.go:90, recovery.go:45).  If queries fail, what is shown instead is
\* what ReportsExplained lists, and only of the stages and apps they were for.
THEOREM AnswersExplained == Spec => []ReportsExplained
<1>1. ReportsInit => IInv /\ AnswerInv
  BY Inits, AnswersStart
<1>2. IInv /\ AnswerInv /\ [Next]_vars => (IInv /\ AnswerInv)'
  BY NextStep, AnswerStep
<1>3. AnswerInv => ReportsExplained
  <2> SUFFICES ASSUME AnswerInv, NEW c \in Clients, Done(c)
               PROVE  /\ req[c].kind \in {"summary", "bundle"} => SummaryExplained(c)
                      /\ req[c].kind = "apps" => ListExplained(c)
                      /\ req[c].kind = "bundle" => FindingsExplained(c)
                      /\ req[c].kind \in {"bundle", "export"} => InventoryExplained(c)
                      /\ GoneExplained(c)
    BY DEF ReportsExplained
  <2>1. /\ ReqInv(req[c], Met(c), disk.rows) /\ req[c].rest = Nothing
        /\ \A stage : Seen(c, stage) = Saw(req[c], Met(c), stage)
    BY DEF AnswerInv, Done, Nothing, Seen, Saw
  <2>2. req[c].kind \in {"summary", "bundle"} => SummaryExplained(c)
    <3>1. \A t : CountsOf(t, disk.rows) = IF DOMAIN t = {} THEN DemoCounts ELSE <<Total(t), Running(t)>>
      BY DEF CountsOf, DemoCounts, SeedCounts
    <3> QED
      BY <2>1, <3>1, StageFacts DEF ReqInv, CountsInv, CountsGood, SummaryExplained, Nothing
  <2>3. req[c].kind = "apps" => ListExplained(c)
    BY <2>1, StageFacts DEF ReqInv, ListInv, ListExplained
  <2>4. req[c].kind = "bundle" => FindingsExplained(c)
    <3>1. \A demo, t : Findings(demo, t) = FindingsOf(demo, t, disk.rows)
      BY DEF Findings, FindingsOf
    <3> QED
      BY <2>1, <3>1 DEF ReqInv, BundleInv, FindingsGood, FindingsExplained
  <2>5. req[c].kind \in {"bundle", "export"} => InventoryExplained(c)
    BY <2>1 DEF ReqInv, ListedInv, InventoryExplained
  <2>6. GoneExplained(c)
    BY <2>1, StageFacts DEF ReqInv, GoneInv, GoneExplained
  <2> QED
    BY <2>2, <2>3, <2>4, <2>5, <2>6
<1> QED
  BY <1>1, <1>2, <1>3, PTL DEF Spec
=============================================================================
