--------------------------- MODULE DashboardStore ---------------------------
(***************************************************************************)
(* The database file of OpenDash and how a process opens it: the numbered  *)
(* migration blocks applied in one transaction, the optional demo rows     *)
(* inserted in a second one, the saved dashboard preferences, and the one  *)
(* connection every query shares.  The process may die between any two     *)
(* steps, and releases that embed a longer or a shorter script may be run  *)
(* over the same file.                                                     *)
(***************************************************************************)
EXTENDS Integers, Sequences

CONSTANTS
    Script,       \* the migration blocks; a block is a set of statements
    Releases,     \* a release is the number of blocks it embeds
    Clients,      \* the requests that may hold the connection
    PrefInputs,   \* the preferences clients send
    Free, Opener  \* the connection is idle; it is held by OpenSQLite

ASSUME ScriptAssumption ==
    /\ Script \in Seq(SUBSET [object : STRING, guarded : BOOLEAN])
    /\ Releases \subseteq 0 .. Len(Script)
\* A statement without IF NOT EXISTS makes an object no other block makes.
ASSUME FreshAssumption ==
    \A b1, b2 \in DOMAIN Script : b1 < b2 =>
        \A s \in Script[b2] : ~s.guarded =>
            \A r \in Script[b1] : r.object # s.object
ASSUME HolderAssumption == Free # Opener /\ Free \notin Clients /\ Opener \notin Clients

VARIABLES
    disk,       \* the committed database
    txn,        \* as the open transaction sees it; equal to disk when none is
    phase,      \* where the process is: see Phases
    release,    \* the release that runs, or ran last
    conn,       \* who holds the only connection
    saved       \* the preferences last accepted (history)

storeVars == <<disk, txn, phase, release, conn, saved>>

\* Preferences, by the view and the set of hidden fields; what is read before
\* any are saved.
Default == [view |-> "grid", hidden |-> {}]
SeedKinds == {"summary", "apps", "protection"}
Phases == {"down", "migrate", "record", "seed", "insert", "serve"}

\* The script of this release.
Migrations ==
    LET guarded(names) == {[object |-> n, guarded |-> TRUE] : n \in names}
        plain(names) == {[object |-> n, guarded |-> FALSE] : n \in names}
    IN << guarded({"dashboard_data", "admins", "sessions"}),
          guarded({"app_instances", "operations", "revisions"}),
          guarded({"manifest_sources"}) \cup plain({"app_instances.source_id"}),
          plain({"backup_jobs", "backup_archives", "backup_schedules"}) >>

Makes(block) == {s.object : s \in block}
MadeBy(n) == UNION {Makes(Script[b]) : b \in 1 .. n}
\* The block runs: no unguarded statement finds its object there already.
Applies(block, objects) == \A s \in block : s.object \in objects => s.guarded

Database == [version : 0 .. Len(Script), objects : SUBSET MadeBy(Len(Script)),
             rows : SUBSET SeedKinds, prefs : PrefInputs \cup {Default}]
NewFile == [version |-> 0, objects |-> {}, rows |-> {}, prefs |-> Default]

StoreInit ==
    /\ disk = NewFile
    /\ txn = NewFile
    /\ phase = "down"
    /\ release \in Releases
    /\ conn = Free
    /\ saved = Default

\* Faulty: migrations outside a transaction; what was done survives a crash.
Direct(d) == txn' = d /\ disk' = d
\* What a statement inside a transaction does: only the transaction sees it.
Staged(d) == txn' = d /\ UNCHANGED disk

----------------------------------------------------------------------------
\* A release is started: OpenSQLite begins the migration transaction.
Start(r) ==
    /\ phase = "down"
    /\ release' = r
    /\ phase' = "migrate"
    /\ conn' = Opener
    /\ Staged(disk)
    /\ UNCHANGED saved

\* The file is newer than the release, or a block fails: rollback and exit.
GiveUp ==
    /\ phase = "migrate"
    /\ \/ txn.version > release
       \/ /\ txn.version < release
          /\ ~Applies(Script[txn.version + 1], txn.objects)
    /\ phase' = "down"
    /\ conn' = Free
    /\ Staged(disk)
    /\ UNCHANGED <<release, saved>>

ApplyBlock ==
    /\ phase = "migrate"
    /\ txn.version < release
    /\ Applies(Script[txn.version + 1], txn.objects)
    /\ phase' = "record"
    /\ Staged([txn EXCEPT !.objects = @ \cup Makes(Script[txn.version + 1])])
    /\ UNCHANGED <<release, conn, saved>>

RecordVersion ==
    /\ phase = "record"
    /\ phase' = "migrate"
    /\ Staged([txn EXCEPT !.version = @ + 1])
    /\ UNCHANGED <<release, conn, saved>>

\* Whether this start is one in demo mode decides if seed is called.
CommitMigrations ==
    /\ phase = "migrate"
    /\ txn.version = release
    /\ disk' = txn
    /\ conn' = Free
    /\ phase' \in {"seed", "serve"}
    /\ UNCHANGED <<txn, release, saved>>

BeginSeed ==
    /\ phase = "seed"
    /\ phase' = "insert"
    /\ conn' = Opener
    /\ Staged(disk)
    /\ UNCHANGED <<release, saved>>

\* INSERT OR IGNORE; the map of rows is walked in any order.
InsertSeed(kind) ==
    /\ phase = "insert"
    /\ kind \notin txn.rows
    /\ Staged([txn EXCEPT !.rows = @ \cup {kind}])
    /\ UNCHANGED <<phase, release, conn, saved>>

CommitSeed ==
    /\ phase = "insert"
    /\ SeedKinds \subseteq txn.rows
    /\ disk' = txn
    /\ conn' = Free
    /\ phase' = "serve"
    /\ UNCHANGED <<txn, release, saved>>

Accepted(p) ==
    /\ p.view \in {"grid", "list"}
    /\ p.hidden \subseteq {"version", "status", "health", "endpoints"}

\* SetDashboardPreferences: one upsert.
Upsert(p) == disk' = [disk EXCEPT !.prefs = p]

\* PUT of the preferences.
SavePreferences(p) ==
    /\ phase = "serve"
    /\ conn = Free
    /\ Accepted(p)
    /\ Upsert(p)
    /\ saved' = p
    /\ txn' = disk'
    /\ UNCHANGED <<phase, release, conn>>

\* The process dies, or exits on a signal; an open transaction is lost.
Die ==
    /\ phase # "down"
    /\ phase' = "down"
    /\ conn' = Free
    /\ Staged(disk)
    /\ UNCHANGED <<release, saved>>

Open ==
    \/ \E r \in Releases : Start(r)
    \/ GiveUp
    \/ ApplyBlock
    \/ RecordVersion
    \/ CommitMigrations
    \/ BeginSeed
    \/ \E k \in SeedKinds : InsertSeed(k)
    \/ CommitSeed

----------------------------------------------------------------------------
StoreTypeOK ==
    /\ disk \in Database
    /\ txn \in Database
    /\ phase \in Phases
    /\ release \in Releases
    /\ conn \in Clients \cup {Free, Opener}
    /\ saved \in PrefInputs \cup {Default}

\* Every block after the recorded version still applies, one after the other.
NeverBricked ==
    \A b \in disk.version + 1 .. Len(Script) :
        Applies(Script[b],
                disk.objects \cup UNION {Makes(Script[k]) : k \in disk.version + 1 .. b - 1})

\* Demo rows are there together or not at all.
SeedWhole == disk.rows \in {{}, SeedKinds}

\* Saved preferences survive restarts, upgrades and seeding.
PrefsKept == disk.prefs = saved

\* However often releases are started over the file and killed (sqlite.go:77,
\* 129), a release that is new enough can open it, the demo rows are whole and
\* no saved preference is lost.
DatabaseSound == NeverBricked /\ SeedWhole /\ PrefsKept
=============================================================================
