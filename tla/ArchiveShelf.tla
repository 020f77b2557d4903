----------------------------- MODULE ArchiveShelf -----------------------------
(***************************************************************************)
(* What backups promise to the user of an app, however many requests run:  *)
(* a shelf of whole archives.  An archive is put on it once, behind all    *)
(* others, and never comes back.  It is taken off alone, and only if Keep  *)
(* newer ones stay or it has passed an age limit; everything else only     *)
(* goes with the app.  Failures and crashes are not visible here.          *)
(***************************************************************************)
EXTENDS Naturals, FiniteSets

CONSTANTS
    Archives,
    Ages,       \* the age limits; 0 is none
    Keep        \* how many archives are always kept

VARIABLES
    shelf,      \* the archives a user could restore
    born,       \* when the backup of an archive began
    place,      \* the order in which archives were put on the shelf; 0 before
    now,        \* the clock
    open        \* the app exists

shelfVars == <<shelf, born, place, now, open>>

ShelfInit ==
    /\ shelf = {}
    /\ born = [a \in Archives |-> 0] /\ place = [a \in Archives |-> 0]
    /\ now = 0 /\ open = TRUE

\* Among archives of the same second the first is listed as the newest.
Ahead(a, b) ==
    \/ born[a] > born[b]
    \/ born[a] = born[b] /\ place[a] < place[b]

Spare(a)   == Cardinality({b \in shelf : Ahead(b, a)}) >= Keep
Overdue(a) == \E d \in Ages \ {0} : born[a] + d <= now

\* A backup begins.
Stamp(a) ==
    /\ open /\ place[a] = 0
    /\ born' = [born EXCEPT ![a] = now]
    /\ UNCHANGED <<shelf, place, now, open>>

Put(a) ==
    /\ open /\ place[a] = 0
    /\ shelf' = shelf \cup {a}
    /\ place' = [place EXCEPT ![a] = place'[a]]
    /\ \A b \in Archives \ {a} : place[b] < place'[a]
    /\ UNCHANGED <<born, now, open>>

Take(a) ==
    /\ open /\ a \in shelf
    /\ Spare(a) \/ Overdue(a)
    /\ shelf' = shelf \ {a}
    /\ UNCHANGED <<born, place, now, open>>

\* The app is deleted with all its archives.
Clear ==
    /\ open /\ ~open'
    /\ shelf' = {}
    /\ UNCHANGED <<born, place, now>>

Pass ==
    /\ now' = now + 1
    /\ UNCHANGED <<shelf, born, place, open>>

ShelfNext == Clear \/ Pass \/ \E a \in Archives : Stamp(a) \/ Put(a) \/ Take(a)

ShelfSpec == ShelfInit /\ [][ShelfNext]_shelfVars
=============================================================================
