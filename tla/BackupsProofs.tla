---------------------------- MODULE BackupsProofs ----------------------------
(***************************************************************************)
(* Retention never costs a user the newest archives and leaves no more     *)
(* than its limits allow, and the requests together are a shelf of         *)
(* archives (ArchiveShelf), for any number of concurrent backups, any      *)
(* limits, any failures and any crash.                                     *)
(*                                                                         *)
(* The argument: an archive that has lost its file or its row, or that any *)
(* request has on its list, is outranked by Keep intact archives or too    *)
(* old.  Removing such an archive d cannot take that away from another     *)
(* archive a: if d is newer than a, whatever outranks d outranks a, and if *)
(* d is too old, so is a.                                                  *)
(***************************************************************************)
EXTENDS Backups, FiniteSetTheorems, TLAPS

\* Which request has an archive row yet.
PhaseInv ==
    \A j \in Jobs :
        /\ pc[j] \in {"idle", "refused", "stage", "pack", "packing", "hash",
                      "insert", "complete", "fail", "failed"} => sweep[j] = 1
        /\ sweep[j] = 1 /\ pc[j] \notin {"complete", "dead"} => seq[j] = 0
        /\ pc[j] = "complete" => seq[j] > 0
        /\ pc[j] \in {"hash", "insert"} => file[j] = "complete"

\* Only recorded archives have rows or are on a request's list.
RecordedInv ==
    /\ \A a \in rows : Recorded(a)
    /\ \A j \in Jobs : \A a \in doomed[j] : Recorded(a)

Justified(a) == Outranked(a) \/ Expired(a)

JustifiedInv ==
    app => \A a \in Jobs :
        /\ Recorded(a) => a \in Intact \/ Justified(a)
        /\ (\E j \in Jobs : a \in doomed[j]) => Justified(a)

BackupInv == TypeOK /\ PhaseInv /\ RecordedInv /\ JustifiedInv /\ JobsTruthful

-----------------------------------------------------------------------------
(* The order of the archive list. *)

\* The order of ListBackupArchives is transitive and irreflexive.
LEMMA NewerTransitive ==
    ASSUME TypeOK, NEW a \in Jobs, NEW b \in Jobs, NEW c \in Jobs,
           Newer(a, b), Newer(b, c)
    PROVE  Newer(a, c) /\ a # b
BY DEF TypeOK, Newer

\* A smaller set of archives has no more elements.
LEMMA SubsetCounts ==
    ASSUME NEW P \in SUBSET Jobs, NEW Q \in SUBSET Jobs, P \subseteq Q
    PROVE  /\ Cardinality(P) \in Nat /\ Cardinality(Q) \in Nat
           /\ Cardinality(P) <= Cardinality(Q)
<1>1. IsFiniteSet(Jobs)
  BY BackupsAssumption
<1>2. IsFiniteSet(Q)
  BY <1>1, FS_Subset
<1> QED
  BY <1>2, FS_Subset, FS_CardinalityType

\* What justifies the loss of an archive justifies that of every older one.
LEMMA OlderJustified ==
    ASSUME TypeOK, NEW a \in Jobs, NEW d \in Jobs, Newer(d, a), Justified(d)
    PROVE  Justified(a)
<1> DEFINE Above(x) == {b \in Intact : Newer(b, x)}
<1>1. CASE Outranked(d)
  <2>1. Above(d) \subseteq Above(a)
    BY NewerTransitive DEF Intact, TypeOK
  <2>2. Above(d) \in SUBSET Jobs /\ Above(a) \in SUBSET Jobs
    BY DEF Intact, TypeOK
  <2>3. Cardinality(Above(d)) >= Keep
    BY <1>1 DEF Outranked, Position
  <2>4. Cardinality(Above(a)) >= Keep
    <3> HIDE DEF Above
    <3> QED  BY <2>1, <2>2, <2>3, SubsetCounts, BackupsAssumption
  <2> QED  BY <2>4 DEF Justified, Outranked, Position
<1>2. CASE Expired(d)
  <2>1. PICK n \in Ages \ {0} : created[d] + n <= clock
    BY <1>2 DEF Expired
  <2>2. created[a] + n <= clock
    BY <2>1, BackupsAssumption DEF Newer, TypeOK
  <2> QED  BY <2>1, <2>2 DEF Justified, Expired
<1> QED  BY <1>1, <1>2 DEF Justified

\* Time, new archives and new rows never make a justified loss unjustified.
LEMMA GainKeeps ==
    ASSUME TypeOK, TypeOK', NEW a \in Jobs, Justified(a),
           Intact \subseteq Intact', clock <= clock', created'[a] = created[a],
           \A b \in Intact : Newer(b, a) => Newer(b, a)'
    PROVE  Justified(a)'
<1> DEFINE Above == {b \in Intact : Newer(b, a)}
           After == {b \in Intact' : Newer(b, a)'}
<1>1. CASE Outranked(a)
  <2>1. Above \subseteq After
    OBVIOUS
  <2>2. Above \in SUBSET Jobs /\ After \in SUBSET Jobs
    BY DEF Intact, TypeOK
  <2>3. Cardinality(Above) >= Keep
    BY <1>1 DEF Outranked, Position
  <2>4. Cardinality(After) >= Keep
    <3> HIDE DEF Above, After
    <3> QED  BY <2>1, <2>2, <2>3, SubsetCounts, BackupsAssumption
  <2> QED  BY <2>4 DEF Justified, Outranked, Position
<1>2. CASE Expired(a)
  <2>1. PICK n \in Ages \ {0} : created[a] + n <= clock
    BY <1>2 DEF Expired
  <2>2. created'[a] + n <= clock'
    BY <2>1, BackupsAssumption DEF TypeOK
  <2> QED  BY <2>1, <2>2 DEF Justified, Expired
<1> QED  BY <1>1, <1>2 DEF Justified

\* Losing an archive whose loss is justified leaves all others justified.
LEMMA LossKeeps ==
    ASSUME TypeOK, TypeOK', NEW a \in Jobs, NEW d \in Jobs,
           Justified(a), Justified(d), Intact' = Intact \ {d},
           UNCHANGED <<clock, created, seq>>
    PROVE  Justified(a)'
<1> DEFINE Above(x) == {b \in Intact : Newer(b, x)}
           After == {b \in Intact' : Newer(b, a)'}
<1>0. \A x, y \in Jobs : Newer(x, y)' <=> Newer(x, y)
  BY DEF Newer
<1>e. ASSUME NEW x \in Jobs, Expired(x) PROVE Expired(x)'
  BY <1>e DEF Expired
<1>t. /\ Above(a) \in SUBSET Jobs /\ Above(d) \in SUBSET Jobs /\ After \in SUBSET Jobs
  BY DEF Intact, TypeOK
<1>1. CASE Expired(a)
  BY <1>1, <1>e DEF Justified
<1>2. CASE Newer(d, a) /\ Expired(d)
  <2>1. PICK n \in Ages \ {0} : created[d] + n <= clock
    BY <1>2 DEF Expired
  <2>2. created[a] + n <= clock
    BY <1>2, <2>1, BackupsAssumption DEF Newer, TypeOK
  <2>3. Expired(a)
    BY <2>1, <2>2 DEF Expired
  <2> QED  BY <2>3, <1>e DEF Justified
<1>3. CASE Newer(d, a) /\ Outranked(d)
  <2>1. Above(d) \subseteq After
    BY <1>0, <1>3, NewerTransitive DEF Intact, TypeOK
  <2>2. Cardinality(Above(d)) >= Keep
    BY <1>3 DEF Outranked, Position
  <2>3. Cardinality(After) >= Keep
    <3> HIDE DEF Above, After
    <3> QED  BY <2>1, <2>2, <1>t, SubsetCounts, BackupsAssumption
  <2> QED  BY <2>3 DEF Justified, Outranked, Position
<1>4. CASE ~Newer(d, a) /\ Outranked(a)
  <2>1. Above(a) \subseteq After
    BY <1>0, <1>4 DEF Intact, TypeOK
  <2>2. Cardinality(Above(a)) >= Keep
    BY <1>4 DEF Outranked, Position
  <2>3. Cardinality(After) >= Keep
    <3> HIDE DEF Above, After
    <3> QED  BY <2>1, <2>2, <1>t, SubsetCounts, BackupsAssumption
  <2> QED  BY <2>3 DEF Justified, Outranked, Position
<1> QED  BY <1>1, <1>2, <1>3, <1>4 DEF Justified

\* What EnforceRetention puts on its list is justified: an archive behind
\* count listed ones is behind Keep intact ones, or behind one that is itself
\* justified.
LEMMA ListedJustified ==
    ASSUME BackupInv, app, NEW j \in Jobs, NEW a \in rows, Removable(j, a)
    PROVE  Justified(a)
<1> DEFINE R == {b \in rows : Newer(b, a)}
           I == {b \in Intact : Newer(b, a)}
<1> USE DEF BackupInv
<1>0. a \in Jobs /\ rows \subseteq Jobs /\ Intact \subseteq Jobs
  BY DEF TypeOK, Intact
<1>1. CASE policy[j].days > 0 /\ created[a] + policy[j].days <= clock
  <2>1. policy[j].days \in Ages \ {0}
    BY <1>1 DEF TypeOK
  <2> QED  BY <1>1, <2>1 DEF Justified, Expired
<1>2. CASE policy[j].count > 0 /\ Position(a, rows) >= policy[j].count
  <2>1. policy[j].count \in Counts \ {0}
    BY <1>2 DEF TypeOK
  <2>2. Keep <= policy[j].count
    BY <2>1, BackupsAssumption
  <2>3. Cardinality(R) >= policy[j].count
    BY <1>2 DEF Position
  <2>4. CASE R \subseteq Intact
    <3>1. R \subseteq I /\ R \in SUBSET Jobs /\ I \in SUBSET Jobs
      BY <2>4, <1>0
    <3>2. Cardinality(I) >= Keep
      <4>1. policy[j].count \in Nat /\ Keep \in Nat
        BY <2>1, BackupsAssumption
      <4> HIDE DEF R, I
      <4> QED  BY <2>2, <2>3, <3>1, <4>1, SubsetCounts
    <3> QED  BY <3>2 DEF Justified, Outranked, Position
  <2>5. CASE ~(R \subseteq Intact)
    <3>1. PICK b \in rows : Newer(b, a) /\ b \notin Intact
      BY <2>5
    <3>2. b \in Jobs /\ Justified(b)
      BY <1>0, <3>1 DEF RecordedInv, JustifiedInv
    <3> QED  BY <1>0, <3>1, <3>2, OlderJustified
  <2> QED  BY <2>4, <2>5
<1> QED  BY <1>1, <1>2 DEF Removable

-----------------------------------------------------------------------------
(* The inductive invariant. *)

\* Insertion numbers are positive.
LEMMA NextSeqType == NextSeq \in Nat /\ NextSeq > 0
<1> DEFINE S == {a \in Jobs : seq[a] > 0}
<1>1. IsFiniteSet(S)
  BY BackupsAssumption, FS_Subset
<1>2. Cardinality(S) \in Nat
  BY <1>1, FS_CardinalityType
<1> QED  BY <1>2 DEF NextSeq

\* Every step keeps the state well formed.
LEMMA TypeStep == TypeOK /\ [Next]_vars => TypeOK'
<1> SUFFICES ASSUME TypeOK, [Next]_vars PROVE TypeOK'
  OBVIOUS
<1> USE DEF TypeOK, Ended, Busy
<1>s. CASE UNCHANGED vars
  BY <1>s DEF vars
<1>1. ASSUME NEW j \in Jobs, Create(j) PROVE TypeOK'
  <2>1. CASE UNCHANGED <<policy, created, job>>
    BY <1>1, <2>1 DEF Create
  <2>2. ASSUME NEW c \in Counts, NEW d \in Ages,
               policy' = [policy EXCEPT ![j] = [count |-> c, days |-> d]]
        PROVE  policy' \in [Jobs -> [count : Counts \cup {0}, days : Ages \cup {0}]]
    BY <2>2
  <2>3. CASE \E c \in Counts, d \in Ages :
                policy' = [policy EXCEPT ![j] = [count |-> c, days |-> d]]
    <3>1. policy' \in [Jobs -> [count : Counts \cup {0}, days : Ages \cup {0}]]
      BY <2>2, <2>3
    <3>2. pc' \in {[pc EXCEPT ![j] = "list"], [pc EXCEPT ![j] = "refused"]}
      BY <1>1 DEF Create
    <3>3. /\ created' \in {created, [created EXCEPT ![j] = clock]}
          /\ job' \in {job, [job EXCEPT ![j] = "running"]}
      BY <1>1 DEF Create
    <3>4. created' \in [Jobs -> Nat]
      BY <3>3
    <3>5. job' \in [Jobs -> {"none", "running", "completed", "failed"}]
      BY <3>3
    <3>6. /\ pc' \in [Jobs -> Ended \cup Busy]
          /\ \A i \in Jobs : pc'[i] \in {"unlink", "delete"} => pc'[i] = pc[i]
      BY <3>2
    <3> HIDE DEF Ended, Busy
    <3> QED  BY <1>1, <3>1, <3>4, <3>5, <3>6 DEF Create
  <2> QED  BY <1>1, <2>1, <2>3 DEF Create
<1>2. ASSUME NEW j \in Jobs, ListArchives(j) PROVE TypeOK'
  <2> DEFINE L == {a \in rows : Removable(j, a)}
  <2>1. CASE SweepError(j)
    BY <1>2, <2>1 DEF ListArchives, SweepError, Swept
  <2>2. CASE doomed' = [doomed EXCEPT ![j] = L]
    <3>1. L \in SUBSET Jobs
      OBVIOUS
    <3> HIDE DEF L
    <3>2. doomed' \in [Jobs -> SUBSET Jobs] /\ doomed'[j] = L
      BY <2>2, <3>1
    <3>3. \/ pc' = [pc EXCEPT ![j] = "unlink"] /\ L # {}
          \/ pc' \in {[pc EXCEPT ![j] = s] : s \in {"stage", "fail", "created", "unswept"}}
      BY <1>2, <3>2 DEF ListArchives, SweepError, Swept
    <3>4. \A i \in Jobs \ {j} : doomed'[i] = doomed[i] /\ pc'[i] = pc[i]
      BY <2>2, <3>3
    <3>5. pc' \in [Jobs -> Ended \cup Busy]
      BY <3>3
    <3>6. \A i \in Jobs : pc'[i] \in {"unlink", "delete"} => doomed'[i] # {}
      BY <3>2, <3>3, <3>4
    <3>7. UNCHANGED <<clock, app, sweep, gone, policy, created, job, seq, rows, file>>
      BY <1>2 DEF ListArchives, SweepError
    <3> QED  BY <3>2, <3>5, <3>6, <3>7
  <2> QED  BY <1>2, <2>1, <2>2 DEF ListArchives
<1>3. ASSUME NEW j \in Jobs, RemoveFile(j) PROVE TypeOK'
  <2>1. CASE SweepError(j)
    BY <1>3, <2>1 DEF RemoveFile, SweepError, Swept
  <2>2. ASSUME NEW a \in Jobs, a \in doomed[j], file' = [file EXCEPT ![a] = "absent"],
               pc' = [pc EXCEPT ![j] = "delete"], UNCHANGED <<doomed, rows>>
        PROVE  TypeOK'
    BY <1>3, <2>2 DEF RemoveFile
  <2> QED  BY <1>3, <2>1, <2>2 DEF RemoveFile, IsNext
<1>4. ASSUME NEW j \in Jobs, DeleteBackupArchive(j) PROVE TypeOK'
  <2>1. CASE SweepError(j)
    BY <1>4, <2>1 DEF DeleteBackupArchive, SweepError, Swept
  <2>2. ASSUME NEW a \in Jobs, a \in doomed[j], rows' = rows \ {a},
               doomed' = [doomed EXCEPT ![j] = @ \ {a}], UNCHANGED file,
               IF doomed[j] = {a} THEN Swept(j, TRUE)
                                  ELSE pc' = [pc EXCEPT ![j] = "unlink"]
        PROVE  TypeOK'
    <3>1. doomed' \in [Jobs -> SUBSET Jobs] /\ doomed'[j] = doomed[j] \ {a}
      BY <2>2
    <3>2. \/ pc' = [pc EXCEPT ![j] = "unlink"] /\ doomed'[j] # {}
          \/ pc' \in {[pc EXCEPT ![j] = s] : s \in {"stage", "fail", "created", "unswept"}}
      BY <2>2, <3>1 DEF Swept
    <3>3. \A i \in Jobs \ {j} : doomed'[i] = doomed[i] /\ pc'[i] = pc[i]
      BY <2>2, <3>2
    <3>4. pc' \in [Jobs -> Ended \cup Busy]
      BY <3>2
    <3>5. \A i \in Jobs : pc'[i] \in {"unlink", "delete"} => doomed'[i] # {}
      BY <3>2, <3>3
    <3>6. rows' \subseteq Jobs
      BY <2>2
    <3>7. UNCHANGED <<clock, app, sweep, gone, policy, created, job, seq, file>>
      BY <1>4, <2>2 DEF DeleteBackupArchive
    <3> QED  BY <3>1, <3>4, <3>5, <3>6, <3>7
  <2> QED  BY <1>4, <2>1, <2>2 DEF DeleteBackupArchive, IsNext
<1>5. ASSUME NEW j \in Jobs, StageVolumes(j) PROVE TypeOK'
  BY <1>5 DEF StageVolumes
<1>6. ASSUME NEW j \in Jobs, OpenPack(j) PROVE TypeOK'
  <2>1. pc' \in {[pc EXCEPT ![j] = "packing"], [pc EXCEPT ![j] = "fail"]}
    BY <1>6 DEF OpenPack
  <2>2. file' \in {[file EXCEPT ![j] = "partial"], file}
    BY <1>6 DEF OpenPack
  <2>3. /\ pc' \in [Jobs -> Ended \cup Busy]
        /\ \A i \in Jobs : pc'[i] \in {"unlink", "delete"} => pc'[i] = pc[i]
    BY <2>1
  <2>4. file' \in [Jobs -> {"absent", "partial", "complete"}]
    BY <2>2
  <2> QED  BY <1>6, <2>3, <2>4 DEF OpenPack
<1>7. ASSUME NEW j \in Jobs, ClosePack(j) PROVE TypeOK'
  BY <1>7 DEF ClosePack
<1>8. ASSUME NEW j \in Jobs, HashFile(j) PROVE TypeOK'
  BY <1>8 DEF HashFile
<1>9. ASSUME NEW j \in Jobs, CreateBackupArchive(j) PROVE TypeOK'
  <2>1. pc' \in {[pc EXCEPT ![j] = "complete"], [pc EXCEPT ![j] = "fail"]}
    BY <1>9 DEF CreateBackupArchive
  <2>2. file' \in {[file EXCEPT ![j] = "absent"], file}
    BY <1>9 DEF CreateBackupArchive
  <2>3. seq' \in {[seq EXCEPT ![j] = NextSeq], seq} /\ rows' \in {rows, rows \cup {j}}
    BY <1>9 DEF CreateBackupArchive
  <2>4. seq' \in [Jobs -> Nat] /\ rows' \subseteq Jobs
    BY <2>3, NextSeqType
  <2>5. /\ pc' \in [Jobs -> Ended \cup Busy]
        /\ \A i \in Jobs : pc'[i] \in {"unlink", "delete"} => pc'[i] = pc[i]
    BY <2>1
  <2>6. file' \in [Jobs -> {"absent", "partial", "complete"}]
    BY <2>2
  <2> QED  BY <1>9, <2>4, <2>5, <2>6 DEF CreateBackupArchive
<1>10. ASSUME NEW j \in Jobs, CompleteJob(j) PROVE TypeOK'
  BY <1>10 DEF CompleteJob, UpdateBackupJob
<1>11. ASSUME NEW j \in Jobs, FailJob(j) PROVE TypeOK'
  BY <1>11 DEF FailJob, UpdateBackupJob
<1>12. ASSUME NEW j \in Jobs, Disconnect(j) PROVE TypeOK'
  BY <1>12 DEF Disconnect
<1>13. CASE Crash
  BY <1>13 DEF Crash
<1>14. CASE DeleteAppInstance
  BY <1>14 DEF DeleteAppInstance
<1>15. CASE Tick
  BY <1>15 DEF Tick
<1> QED
  BY <1>s, <1>1, <1>2, <1>3, <1>4, <1>5, <1>6, <1>7, <1>8, <1>9, <1>10, <1>11, <1>12, <1>13, <1>14, <1>15 DEF Next, Request

\* Every step keeps the bookkeeping facts.
LEMMA BookStep ==
    TypeOK /\ TypeOK' /\ PhaseInv /\ RecordedInv /\ JobsTruthful /\ [Next]_vars
      => PhaseInv' /\ RecordedInv' /\ JobsTruthful'
<1> SUFFICES ASSUME TypeOK, TypeOK', PhaseInv, RecordedInv, JobsTruthful, [Next]_vars
             PROVE  PhaseInv' /\ RecordedInv' /\ JobsTruthful'
  OBVIOUS
<1> USE DEF TypeOK, PhaseInv, RecordedInv, JobsTruthful, Recorded, Ended, Busy
<1>s. CASE UNCHANGED vars
  BY <1>s DEF vars
<1>1. ASSUME NEW j \in Jobs, Create(j) PROVE PhaseInv' /\ RecordedInv' /\ JobsTruthful'
  <2>1. PhaseInv'
    BY <1>1 DEF Create
  <2>2. RecordedInv'
    BY <1>1 DEF Create
  <2>3. JobsTruthful'
    BY <1>1 DEF Create
  <2> QED  BY <2>1, <2>2, <2>3
<1>2. ASSUME NEW j \in Jobs, ListArchives(j) PROVE PhaseInv' /\ RecordedInv' /\ JobsTruthful'
  <2>1. PhaseInv'
    BY <1>2 DEF ListArchives, SweepError, Swept, Removable
  <2>2. RecordedInv'
    BY <1>2 DEF ListArchives, SweepError, Swept, Removable
  <2>3. JobsTruthful'
    BY <1>2 DEF ListArchives, SweepError, Swept, Removable
  <2> QED  BY <2>1, <2>2, <2>3
<1>3. ASSUME NEW j \in Jobs, RemoveFile(j) PROVE PhaseInv' /\ RecordedInv' /\ JobsTruthful'
  <2>1. PhaseInv'
    BY <1>3 DEF RemoveFile, SweepError, Swept, IsNext
  <2>2. RecordedInv'
    BY <1>3 DEF RemoveFile, SweepError, Swept, IsNext
  <2>3. JobsTruthful'
    BY <1>3 DEF RemoveFile, SweepError, Swept, IsNext
  <2> QED  BY <2>1, <2>2, <2>3
<1>4. ASSUME NEW j \in Jobs, DeleteBackupArchive(j) PROVE PhaseInv' /\ RecordedInv' /\ JobsTruthful'
  <2>1. PhaseInv'
    BY <1>4 DEF DeleteBackupArchive, SweepError, Swept, IsNext
  <2>2. RecordedInv'
    BY <1>4 DEF DeleteBackupArchive, SweepError, Swept, IsNext
  <2>3. JobsTruthful'
    BY <1>4 DEF DeleteBackupArchive, SweepError, Swept, IsNext
  <2> QED  BY <2>1, <2>2, <2>3
<1>5. ASSUME NEW j \in Jobs, StageVolumes(j) PROVE PhaseInv' /\ RecordedInv' /\ JobsTruthful'
  <2>1. PhaseInv'
    BY <1>5 DEF StageVolumes
  <2>2. RecordedInv'
    BY <1>5 DEF StageVolumes
  <2>3. JobsTruthful'
    BY <1>5 DEF StageVolumes
  <2> QED  BY <2>1, <2>2, <2>3
<1>6. ASSUME NEW j \in Jobs, OpenPack(j) PROVE PhaseInv' /\ RecordedInv' /\ JobsTruthful'
  <2>1. PhaseInv'
    BY <1>6 DEF OpenPack
  <2>2. RecordedInv'
    BY <1>6 DEF OpenPack
  <2>3. JobsTruthful'
    BY <1>6 DEF OpenPack
  <2> QED  BY <2>1, <2>2, <2>3
<1>7. ASSUME NEW j \in Jobs, ClosePack(j) PROVE PhaseInv' /\ RecordedInv' /\ JobsTruthful'
  <2>1. PhaseInv'
    BY <1>7 DEF ClosePack
  <2>2. RecordedInv'
    BY <1>7 DEF ClosePack
  <2>3. JobsTruthful'
    BY <1>7 DEF ClosePack
  <2> QED  BY <2>1, <2>2, <2>3
<1>8. ASSUME NEW j \in Jobs, HashFile(j) PROVE PhaseInv' /\ RecordedInv' /\ JobsTruthful'
  <2>1. PhaseInv'
    BY <1>8 DEF HashFile
  <2>2. RecordedInv'
    BY <1>8 DEF HashFile
  <2>3. JobsTruthful'
    BY <1>8 DEF HashFile
  <2> QED  BY <2>1, <2>2, <2>3
<1>9. ASSUME NEW j \in Jobs, CreateBackupArchive(j) PROVE PhaseInv' /\ RecordedInv' /\ JobsTruthful'
  <2>1. PhaseInv'
    BY <1>9, NextSeqType DEF CreateBackupArchive
  <2>2. RecordedInv'
    <3>1. /\ seq' \in {[seq EXCEPT ![j] = NextSeq], seq}
          /\ rows' \subseteq rows \cup {j} /\ doomed' = doomed
      BY <1>9 DEF CreateBackupArchive
    <3>2. \A a \in Jobs : seq[a] > 0 => seq'[a] > 0
      <4>1. CASE seq' = seq
        BY <4>1
      <4>2. CASE seq' = [seq EXCEPT ![j] = NextSeq]
        BY <4>2, NextSeqType
      <4> QED  BY <3>1, <4>1, <4>2
    <3>3. j \in rows' => j \in rows \/ seq'[j] > 0
      BY <1>9, NextSeqType DEF CreateBackupArchive
    <3> QED  BY <3>1, <3>2, <3>3
  <2>3. JobsTruthful'
    BY <1>9, NextSeqType DEF CreateBackupArchive
  <2> QED  BY <2>1, <2>2, <2>3
<1>10. ASSUME NEW j \in Jobs, CompleteJob(j) PROVE PhaseInv' /\ RecordedInv' /\ JobsTruthful'
  <2>1. PhaseInv'
    BY <1>10 DEF CompleteJob, UpdateBackupJob
  <2>2. RecordedInv'
    BY <1>10 DEF CompleteJob, UpdateBackupJob
  <2>3. JobsTruthful'
    BY <1>10 DEF CompleteJob, UpdateBackupJob
  <2> QED  BY <2>1, <2>2, <2>3
<1>11. ASSUME NEW j \in Jobs, FailJob(j) PROVE PhaseInv' /\ RecordedInv' /\ JobsTruthful'
  <2>1. PhaseInv'
    BY <1>11 DEF FailJob, UpdateBackupJob
  <2>2. RecordedInv'
    BY <1>11 DEF FailJob, UpdateBackupJob
  <2>3. JobsTruthful'
    BY <1>11 DEF FailJob, UpdateBackupJob
  <2> QED  BY <2>1, <2>2, <2>3
<1>12. ASSUME NEW j \in Jobs, Disconnect(j) PROVE PhaseInv' /\ RecordedInv' /\ JobsTruthful'
  <2>1. PhaseInv'
    BY <1>12 DEF Disconnect
  <2>2. RecordedInv'
    BY <1>12 DEF Disconnect
  <2>3. JobsTruthful'
    BY <1>12 DEF Disconnect
  <2> QED  BY <2>1, <2>2, <2>3
<1>13. CASE Crash
  BY <1>13 DEF Crash
<1>14. CASE DeleteAppInstance
  BY <1>14 DEF DeleteAppInstance
<1>15. CASE Tick
  BY <1>15 DEF Tick
<1> QED
  BY <1>s, <1>1, <1>2, <1>3, <1>4, <1>5, <1>6, <1>7, <1>8, <1>9, <1>10, <1>11, <1>12, <1>13, <1>14, <1>15 DEF Next, Request

\* Steps that touch neither archives nor their order, and put nothing on a list.
LEMMA QuietStep ==
    ASSUME TypeOK, TypeOK', JustifiedInv, app' => app, clock <= clock',
           UNCHANGED <<created, seq>>, Intact' = Intact,
           \A i \in Jobs : doomed'[i] \subseteq doomed[i]
    PROVE  JustifiedInv'
<1>1. \A a, b \in Jobs : Newer(a, b)' <=> Newer(a, b)
  BY DEF Newer
<1>2. ASSUME NEW a \in Jobs, Justified(a) PROVE Justified(a)'
  <2>1. \A b \in Intact : Newer(b, a) => Newer(b, a)'
    BY <1>1 DEF Intact, TypeOK
  <2>2. Intact \subseteq Intact' /\ created'[a] = created[a]
    OBVIOUS
  <2> QED  BY <1>2, <2>1, <2>2, GainKeeps
<1> QED  BY <1>2 DEF JustifiedInv, Recorded

\* The removal of a listed archive's file or row.
LEMMA RemovalStep ==
    ASSUME TypeOK, TypeOK', JustifiedInv, app' => app, NEW d \in Jobs, NEW j \in Jobs,
           d \in doomed[j], UNCHANGED <<clock, created, seq>>, Intact' = Intact \ {d},
           \A i \in Jobs : doomed'[i] \subseteq doomed[i]
    PROVE  JustifiedInv'
<1> SUFFICES ASSUME app' PROVE JustifiedInv'
  BY DEF JustifiedInv
<1>1. Justified(d)
  BY DEF JustifiedInv
<1>2. ASSUME NEW a \in Jobs, Justified(a) PROVE Justified(a)'
  BY <1>1, <1>2, LossKeeps
<1> QED  BY <1>1, <1>2 DEF JustifiedInv, Recorded

\* No step leaves an archive lost, or about to be, without a reason.
LEMMA JustifiedStep ==
    BackupInv /\ TypeOK' /\ [Next]_vars => JustifiedInv'
<1> SUFFICES ASSUME BackupInv, TypeOK', [Next]_vars PROVE JustifiedInv'
  OBVIOUS
<1> USE DEF BackupInv
<1>a. clock \in Nat /\ clock <= clock
  BY DEF TypeOK
<1>s. CASE UNCHANGED vars
  BY <1>s, <1>a, QuietStep DEF vars, Intact
<1>1. ASSUME NEW j \in Jobs, Create(j) PROVE JustifiedInv'
  <2>1. seq[j] = 0 /\ j \notin rows
    BY <1>1 DEF Create, PhaseInv, RecordedInv, Recorded, TypeOK
  <2>2. /\ UNCHANGED <<clock, app, doomed, rows, seq, file>> /\ Intact' = Intact
        /\ \A a \in Jobs \ {j} : created'[a] = created[a]
    BY <1>1 DEF Create, Intact, TypeOK
  <2>3. ASSUME NEW a \in Jobs \ {j}, Justified(a) PROVE Justified(a)'
    <3>1. \A b \in Intact : Newer(b, a) => Newer(b, a)'
      BY <2>1, <2>2 DEF Intact, TypeOK, Newer
    <3> QED  BY <1>a, <2>2, <2>3, <3>1, GainKeeps
  <2>4. \A i \in Jobs : j \notin doomed[i]
    BY <2>1 DEF RecordedInv, Recorded
  <2> QED  BY <2>1, <2>2, <2>3, <2>4 DEF JustifiedInv, Recorded
<1>2. ASSUME NEW j \in Jobs, ListArchives(j) PROVE JustifiedInv'
  <2> DEFINE L == {a \in rows : Removable(j, a)}
  <2>0. UNCHANGED <<clock, app, created, seq, rows, file>> /\ Intact' = Intact
    BY <1>2 DEF ListArchives, SweepError, Intact
  <2>1. CASE doomed' = [doomed EXCEPT ![j] = {}]
    <3>1. \A i \in Jobs : doomed'[i] \subseteq doomed[i]
      BY <2>1 DEF TypeOK
    <3> QED  BY <1>a, <2>0, <3>1, QuietStep
  <2>2. CASE doomed' = [doomed EXCEPT ![j] = L]
    <3> SUFFICES ASSUME app PROVE JustifiedInv'
      BY <2>0 DEF JustifiedInv
    <3>1. ASSUME NEW a \in Jobs, Justified(a) PROVE Justified(a)'
      <4>1. \A b \in Intact : Newer(b, a) => Newer(b, a)'
        BY <2>0 DEF Newer
      <4> QED  BY <1>a, <2>0, <3>1, <4>1, GainKeeps
    <3>2. \A a \in L : Justified(a)
      BY ListedJustified
    <3>3. \A i \in Jobs : \A a \in doomed'[i] : a \in doomed[i] \/ a \in L
      BY <2>2 DEF TypeOK
    <3> HIDE DEF L
    <3> QED  BY <2>0, <3>1, <3>2, <3>3 DEF JustifiedInv, Recorded
  <2> QED  BY <1>2, <2>1, <2>2 DEF ListArchives, SweepError
<1>3. ASSUME NEW j \in Jobs, RemoveFile(j) PROVE JustifiedInv'
  <2>0. UNCHANGED <<clock, app, created, seq, rows>>
    BY <1>3 DEF RemoveFile, SweepError
  <2>1. CASE SweepError(j)
    <3>1. Intact' = Intact /\ \A i \in Jobs : doomed'[i] \subseteq doomed[i]
      BY <2>1 DEF SweepError, Intact, TypeOK
    <3> QED  BY <1>a, <2>0, <3>1, QuietStep
  <2>2. ASSUME NEW d \in Jobs, d \in doomed[j], file' = [file EXCEPT ![d] = "absent"],
               UNCHANGED doomed
        PROVE  JustifiedInv'
    <3>1. Intact' = Intact \ {d} /\ \A i \in Jobs : doomed'[i] \subseteq doomed[i]
      BY <2>0, <2>2 DEF Intact, TypeOK
    <3> QED  BY <2>0, <2>2, <3>1, RemovalStep
  <2> QED  BY <1>3, <2>1, <2>2 DEF RemoveFile, IsNext
<1>4. ASSUME NEW j \in Jobs, DeleteBackupArchive(j) PROVE JustifiedInv'
  <2>0. UNCHANGED <<clock, app, created, seq, file>>
    BY <1>4 DEF DeleteBackupArchive, SweepError
  <2>1. CASE SweepError(j)
    <3>1. Intact' = Intact /\ \A i \in Jobs : doomed'[i] \subseteq doomed[i]
      BY <2>1 DEF SweepError, Intact, TypeOK
    <3> QED  BY <1>a, <2>0, <3>1, QuietStep
  <2>2. ASSUME NEW d \in Jobs, d \in doomed[j], rows' = rows \ {d},
               doomed' = [doomed EXCEPT ![j] = @ \ {d}]
        PROVE  JustifiedInv'
    <3>1. Intact' = Intact \ {d}
      BY <2>0, <2>2 DEF Intact
    <3>2. \A i \in Jobs : doomed'[i] \subseteq doomed[i]
      BY <2>2 DEF TypeOK
    <3> QED  BY <2>0, <2>2, <3>1, <3>2, RemovalStep
  <2> QED  BY <1>4, <2>1, <2>2 DEF DeleteBackupArchive, IsNext
<1>5. ASSUME NEW j \in Jobs,
             StageVolumes(j) \/ HashFile(j) \/ CompleteJob(j) \/ FailJob(j) \/ Disconnect(j)
      PROVE  JustifiedInv'
  <2>1. UNCHANGED <<clock, app, created, seq, rows, file, doomed>>
    BY <1>5 DEF StageVolumes, HashFile, CompleteJob, FailJob, Disconnect
  <2> QED  BY <1>a, <2>1, QuietStep DEF Intact
<1>6. ASSUME NEW j \in Jobs, OpenPack(j) \/ ClosePack(j) PROVE JustifiedInv'
  <2>1. j \notin rows
    BY <1>6 DEF OpenPack, ClosePack, PhaseInv, RecordedInv, Recorded, TypeOK
  <2>2. /\ UNCHANGED <<clock, app, created, seq, rows, doomed>>
        /\ \A a \in Jobs \ {j} : file'[a] = file[a]
    BY <1>6 DEF OpenPack, ClosePack, TypeOK
  <2>3. Intact' = Intact
    BY <2>1, <2>2 DEF Intact, TypeOK
  <2> QED  BY <1>a, <2>2, <2>3, QuietStep
<1>7. ASSUME NEW j \in Jobs, CreateBackupArchive(j) PROVE JustifiedInv'
  <2>1. seq[j] = 0 /\ j \notin rows /\ file[j] = "complete"
    BY <1>7 DEF CreateBackupArchive, PhaseInv, RecordedInv, Recorded, TypeOK
  <2>0. UNCHANGED <<clock, app, created, doomed>>
    BY <1>7 DEF CreateBackupArchive
  <2>2. CASE UNCHANGED <<rows, seq>>
    <3>1. \A a \in Jobs \ {j} : file'[a] = file[a]
      BY <1>7 DEF CreateBackupArchive, TypeOK
    <3>2. Intact' = Intact
      BY <2>1, <2>2, <3>1 DEF Intact, TypeOK
    <3> QED  BY <1>a, <2>0, <2>2, <3>2, QuietStep
  <2>3. CASE rows' = rows \cup {j} /\ seq' = [seq EXCEPT ![j] = NextSeq] /\ UNCHANGED file
    <3>1. Intact' = Intact \cup {j} /\ \A a \in Jobs \ {j} : seq'[a] = seq[a]
      BY <2>1, <2>3 DEF Intact, TypeOK
    <3>2. ASSUME NEW a \in Jobs \ {j}, Justified(a) PROVE Justified(a)'
      <4>1. \A b \in Intact : Newer(b, a) => Newer(b, a)'
        BY <2>0, <2>1, <3>1 DEF Intact, TypeOK, Newer
      <4> QED  BY <1>a, <2>0, <3>1, <3>2, <4>1, GainKeeps
    <3>3. \A i \in Jobs : j \notin doomed[i]
      BY <2>1 DEF RecordedInv, Recorded
    <3> QED  BY <2>0, <3>1, <3>2, <3>3 DEF JustifiedInv, Recorded
  <2> QED  BY <1>7, <2>2, <2>3 DEF CreateBackupArchive
<1>8. CASE Crash
  <2>1. \A i \in Jobs : doomed'[i] \subseteq doomed[i]
    BY <1>8 DEF Crash
  <2> QED  BY <1>a, <1>8, <2>1, QuietStep DEF Crash, Intact
<1>9. CASE DeleteAppInstance
  BY <1>9 DEF DeleteAppInstance, JustifiedInv
<1>10. CASE Tick
  <2>1. clock <= clock'
    BY <1>10 DEF Tick, TypeOK
  <2> QED  BY <1>10, <2>1, QuietStep DEF Tick, Intact
<1> QED
  BY <1>s, <1>1, <1>2, <1>3, <1>4, <1>5, <1>6, <1>7, <1>8, <1>9, <1>10 DEF Next, Request

\* All parts of the inductive invariant hold in every reachable state.
THEOREM Invariance == Spec => []BackupInv
<1>1. Init => BackupInv
  <2> SUFFICES ASSUME Init PROVE BackupInv
    OBVIOUS
  <2>1. TypeOK
    BY BackupsAssumption DEF Init, TypeOK, Ended
  <2>2. PhaseInv /\ RecordedInv /\ JustifiedInv /\ JobsTruthful
    BY DEF Init, PhaseInv, RecordedInv, JustifiedInv, JobsTruthful, Recorded
  <2> QED  BY <2>1, <2>2 DEF BackupInv
<1>2. BackupInv /\ [Next]_vars => BackupInv'
  BY TypeStep, BookStep, JustifiedStep DEF BackupInv
<1> QED  BY <1>1, <1>2, PTL DEF Spec

\* The variables keep their types and a retention loop always has an archive to
\* work on (EnforceRetention).
THEOREM TypeCorrect == Spec => []TypeOK
<1>1. BackupInv => TypeOK
  BY DEF BackupInv
<1> QED  BY <1>1, Invariance, PTL

\* Whatever requests enforce retention at once, an archive that was recorded
\* stays listed and whole unless Keep newer intact ones exist or it is too old
\* (backup.Service.EnforceRetention).
THEOREM RetentionIsSafe == Spec => []NewestSurvive
<1>1. BackupInv => NewestSurvive
  BY DEF BackupInv, JustifiedInv, Justified, NewestSurvive
<1> QED  BY <1>1, Invariance, PTL

\* A job row says completed only if its archive was recorded, and failed only if
\* it was not (backup.Service.Create).
THEOREM JobRowsTruthful == Spec => []JobsTruthful
<1>1. BackupInv => JobsTruthful
  BY DEF BackupInv
<1> QED  BY <1>1, Invariance, PTL

-----------------------------------------------------------------------------
(* Retention is honoured.                                                   *)

\* Archive rows are numbered in the order of their insertion, so a new row
\* comes after all others; no request began in the future.
SeqInv ==
    /\ \A a, b \in Jobs : seq[a] > 0 /\ seq[a] = seq[b] => a = b
    /\ \A a \in Jobs : seq[a] < NextSeq
    /\ \A a \in Jobs : created[a] <= clock

\* The archives recorded up to that of request j which it is going to leave.
Kept(j) == {a \in rows \ doomed[j] : seq[a] <= seq[j]}

\* The archives of S respect the limits request j came with.
WithinPolicy(j, S) ==
    /\ policy[j].count > 0 => Cardinality(S) <= policy[j].count
    /\ policy[j].days > 0 => \A a \in S : created[a] + policy[j].days > created[j]

\* From its second listing on, what a request is going to leave respects its
\* limits, and when it answers nothing on its list is left.
KeptInv ==
    \A j \in Jobs :
        /\ sweep[j] = 2 /\ pc[j] \in {"unlink", "delete", "created"} => WithinPolicy(j, Kept(j))
        /\ pc[j] = "created" => sweep[j] = 2 /\ doomed[j] = {}

RetentionInv == BackupInv /\ SeqInv /\ KeptInv

\* The limits of a request are numbers.
LEMMA PolicyType ==
    ASSUME TypeOK, NEW j \in Jobs
    PROVE  policy[j].count \in Nat /\ policy[j].days \in Nat
<1>1. policy[j] \in [count : Counts \cup {0}, days : Ages \cup {0}]
  BY DEF TypeOK
<1>2. policy[j].count \in Counts \cup {0} /\ policy[j].days \in Ages \cup {0}
  BY <1>1
<1>3. Counts \cup {0} \subseteq Nat /\ Ages \cup {0} \subseteq Nat
  BY BackupsAssumption
<1> QED  BY <1>2, <1>3

\* Of n positions in the list there are at most n archives.
LEMMA PositionsCount ==
    ASSUME TypeOK, SeqInv, RecordedInv, NEW S \in SUBSET rows, NEW n \in Nat \ {0},
           \A a \in S : Position(a, rows) < n
    PROVE  Cardinality(S) <= n
<1> DEFINE Above(a) == {b \in rows : Newer(b, a)}
           f == [a \in S |-> Position(a, rows)]
<1>1. rows \subseteq Jobs /\ S \subseteq Jobs
  BY DEF TypeOK
<1>2. \A a \in S : Position(a, rows) = Cardinality(Above(a)) /\ Above(a) \in SUBSET Jobs
  BY <1>1 DEF Position
<1>3. ASSUME NEW a \in S, NEW b \in S, Newer(a, b) PROVE Position(a, rows) # Position(b, rows)
  <2>1. Above(a) \subseteq Above(b)
    BY <1>1, <1>3, NewerTransitive
  <2>2. a \in Above(b) /\ a \notin Above(a)
    BY <1>1, <1>3 DEF Newer, TypeOK
  <2>3. IsFiniteSet(Above(b))
    BY <1>2, BackupsAssumption, FS_Subset
  <2> HIDE DEF Above
  <2>4. Cardinality(Above(b)) # Cardinality(Above(a))
    BY <2>1, <2>2, <2>3, FS_Subset
  <2> QED  BY <1>2, <2>4
<1>4. ASSUME NEW a \in S, NEW b \in S, a # b PROVE Newer(a, b) \/ Newer(b, a)
  <2>1. seq[a] # seq[b]
    BY <1>1, <1>4 DEF SeqInv, RecordedInv, Recorded
  <2>2. seq[a] \in Nat /\ seq[b] \in Nat /\ created[a] \in Nat /\ created[b] \in Nat
    BY <1>1 DEF TypeOK
  <2> QED  BY <2>1, <2>2 DEF Newer
<1>5. \A a \in S : Position(a, rows) \in 0..(n - 1)
  <2> SUFFICES ASSUME NEW a \in S PROVE Position(a, rows) \in 0..(n - 1)
    OBVIOUS
  <2>1. Cardinality(Above(a)) \in Nat
    BY <1>2, SubsetCounts
  <2>2. Position(a, rows) \in Nat /\ Position(a, rows) < n
    BY <1>2, <2>1
  <2> QED  BY <2>2
<1>6. f \in Injection(S, 0..(n - 1))
  <2>1. f \in [S -> 0..(n - 1)]
    BY <1>5
  <2>2. \A a, b \in S : f[a] = f[b] => a = b
    BY <1>3, <1>4
  <2> QED  BY <2>1, <2>2 DEF Injection, IsInjective
<1>7. IsFiniteSet(0..(n - 1)) /\ Cardinality(0..(n - 1)) = n
  BY FS_Interval
<1> HIDE DEF f
<1> QED  BY <1>6, <1>7, FS_Injection

\* What a listing leaves respects the limits it was made with.
LEMMA ListingKeeps ==
    ASSUME TypeOK, SeqInv, RecordedInv, NEW j \in Jobs,
           NEW S \in SUBSET {a \in rows : ~Removable(j, a)}
    PROVE  WithinPolicy(j, S)
<1>1. rows \subseteq Jobs /\ policy[j].count \in Nat /\ policy[j].days \in Nat
      /\ clock \in Nat /\ created \in [Jobs -> Nat]
  BY PolicyType DEF TypeOK
<1>2. ASSUME policy[j].count > 0 PROVE Cardinality(S) <= policy[j].count
  <2>1. S \in SUBSET rows /\ policy[j].count \in Nat \ {0}
    BY <1>1, <1>2
  <2>2. ASSUME NEW a \in S PROVE Position(a, rows) < policy[j].count
    <3>1. ~(Position(a, rows) >= policy[j].count)
      BY <1>2 DEF Removable
    <3>2. {b \in rows : Newer(b, a)} \in SUBSET Jobs
      BY <1>1
    <3>3. Position(a, rows) \in Nat
      BY <3>2, SubsetCounts DEF Position
    <3> QED  BY <1>1, <3>1, <3>3
  <2> QED  BY <2>1, <2>2, PositionsCount
<1>3. ASSUME policy[j].days > 0, NEW a \in S PROVE created[a] + policy[j].days > created[j]
  <2>1. ~(created[a] + policy[j].days <= clock) /\ a \in Jobs
    BY <1>1, <1>3 DEF Removable
  <2>2. created[j] <= clock
    BY DEF SeqInv
  <2> QED  BY <1>1, <2>1, <2>2
<1> QED  BY <1>2, <1>3 DEF WithinPolicy

\* What is left respects the limits as long as it does not grow.
LEMMA FewerKept ==
    ASSUME TypeOK, NEW j \in Jobs, WithinPolicy(j, Kept(j)), Kept(j)' \subseteq Kept(j),
           policy'[j] = policy[j], created'[j] = created[j],
           \A a \in Kept(j) : created'[a] = created[a]
    PROVE  WithinPolicy(j, Kept(j))'
<1>1. Kept(j) \in SUBSET Jobs /\ Kept(j)' \in SUBSET Jobs
  BY DEF TypeOK, Kept
<1>2. Cardinality(Kept(j)') <= Cardinality(Kept(j))
      /\ Cardinality(Kept(j)') \in Nat /\ Cardinality(Kept(j)) \in Nat
  BY <1>1, SubsetCounts
<1>3. policy[j].count \in Nat
  BY PolicyType
<1> QED  BY <1>2, <1>3 DEF WithinPolicy

\* Requests that insert nothing keep the numbering.
LEMMA SeqQuiet ==
    ASSUME TypeOK, SeqInv, seq' = seq, clock' \in Nat, clock <= clock',
           \A a \in Jobs : created'[a] = created[a] \/ created'[a] = clock
    PROVE  SeqInv'
<1>1. NextSeq' = NextSeq
  BY DEF NextSeq
<1>2. \A a \in Jobs : created'[a] <= clock'
  BY DEF SeqInv, TypeOK
<1> QED  BY <1>1, <1>2 DEF SeqInv

\* Every step keeps the numbering.
LEMMA SeqStep ==
    ASSUME BackupInv, SeqInv, [Next]_vars
    PROVE  SeqInv'
<1> USE DEF BackupInv
<1>0. clock \in Nat /\ clock <= clock
  BY DEF TypeOK
<1>1. ASSUME NEW j \in Jobs, CreateBackupArchive(j) PROVE SeqInv'
  <2> DEFINE S == {a \in Jobs : seq[a] > 0}
             T == {a \in Jobs : seq'[a] > 0}
  <2>0. clock' = clock /\ created' = created
    BY <1>1 DEF CreateBackupArchive
  <2>1. CASE seq' = seq
    BY <1>0, <2>0, <2>1, SeqQuiet
  <2>2. CASE seq' = [seq EXCEPT ![j] = NextSeq]
    <3>1. seq[j] = 0
      BY <1>1 DEF CreateBackupArchive, PhaseInv
    <3>2. seq'[j] = NextSeq /\ \A a \in Jobs : a # j => seq'[a] = seq[a]
      BY <2>2 DEF TypeOK
    <3>3. NextSeq \in Nat /\ NextSeq > 0
      BY NextSeqType
    <3>4. T = S \cup {j} /\ j \notin S
      BY <3>1, <3>2, <3>3
    <3>5. IsFiniteSet(S)
      BY BackupsAssumption, FS_Subset
    <3>6. Cardinality(T) = Cardinality(S) + 1 /\ Cardinality(S) \in Nat
      <4> HIDE DEF S, T
      <4> QED  BY <3>4, <3>5, FS_AddElement, FS_CardinalityType
    <3>7. NextSeq' = NextSeq + 1
      BY <3>6 DEF NextSeq
    <3>8. \A a \in Jobs : seq'[a] < NextSeq'
      BY <3>2, <3>3, <3>7 DEF SeqInv, TypeOK
    <3>9. \A a, b \in Jobs : seq'[a] > 0 /\ seq'[a] = seq'[b] => a = b
      <4>1. \A a \in Jobs : seq[a] # NextSeq
        BY <3>3 DEF SeqInv, TypeOK
      <4> QED  BY <3>2, <4>1 DEF SeqInv
    <3> QED  BY <2>0, <3>8, <3>9 DEF SeqInv
  <2> QED  BY <1>1, <2>1, <2>2 DEF CreateBackupArchive
<1>2. ASSUME NEW j \in Jobs, Create(j) PROVE SeqInv'
  <2>1. seq' = seq /\ clock' = clock
        /\ \A a \in Jobs : created'[a] = created[a] \/ created'[a] = clock
    BY <1>2 DEF Create, TypeOK
  <2> QED  BY <1>0, <2>1, SeqQuiet
<1>3. CASE Tick
  BY <1>0, <1>3, SeqQuiet DEF Tick
<1>4. CASE UNCHANGED <<seq, clock, created>>
  BY <1>0, <1>4, SeqQuiet
<1>5. \/ \E j \in Jobs : CreateBackupArchive(j) \/ Create(j)
      \/ Tick \/ UNCHANGED <<seq, clock, created>>
  BY DEF Next, Request, vars, ListArchives, RemoveFile, DeleteBackupArchive, StageVolumes,
         OpenPack, ClosePack, HashFile, CompleteJob, FailJob, Disconnect, Crash,
         DeleteAppInstance
<1> QED  BY <1>1, <1>2, <1>3, <1>4, <1>5

\* Every step keeps what requests are going to leave within their limits.
LEMMA KeptStep ==
    ASSUME RetentionInv, TypeOK', [Next]_vars
    PROVE  KeptInv'
<1> USE DEF RetentionInv, BackupInv
<1> DEFINE Sweeping(j) == sweep[j] = 2 /\ pc[j] \in {"unlink", "delete", "created"}
           Fine(j) == /\ Sweeping(j) => WithinPolicy(j, Kept(j))
                      /\ pc[j] = "created" => sweep[j] = 2 /\ doomed[j] = {}
<1>0. \A j \in Jobs : Fine(j)
  BY DEF KeptInv
<1>1. ASSUME NEW i \in Jobs, pc'[i] = pc[i], sweep'[i] = sweep[i], doomed'[i] = doomed[i],
             policy'[i] = policy[i], created'[i] = created[i], seq' = seq, rows' \subseteq rows,
             \A a \in rows : created'[a] = created[a]
      PROVE  Fine(i)'
  <2>1. Kept(i)' \subseteq Kept(i) /\ Kept(i) \subseteq rows
    BY <1>1 DEF Kept
  <2> QED  BY <1>0, <1>1, <2>1, FewerKept
<1>2. ASSUME NEW i \in Jobs, pc'[i] \notin {"unlink", "delete", "created"} PROVE Fine(i)'
  BY <1>2
<1>3. SUFFICES \A i \in Jobs : Fine(i)'
  BY <1>3 DEF KeptInv
<1> HIDE DEF Fine
<1>4. ASSUME NEW j \in Jobs, Create(j) PROVE \A i \in Jobs : Fine(i)'
  <2>1. seq[j] = 0 /\ j \notin rows
    BY <1>4 DEF Create, PhaseInv, RecordedInv, Recorded, TypeOK
  <2>2. /\ UNCHANGED <<sweep, doomed, seq, rows>> /\ pc'[j] \in {"list", "refused"}
        /\ \A i \in Jobs \ {j} : pc'[i] = pc[i] /\ policy'[i] = policy[i] /\ created'[i] = created[i]
    BY <1>4 DEF Create, TypeOK
  <2>3. Fine(j)'
    BY <1>2, <2>2
  <2>4. ASSUME NEW i \in Jobs, i # j PROVE Fine(i)'
    BY <1>1, <2>1, <2>2, <2>4 DEF TypeOK
  <2> QED  BY <2>3, <2>4
<1>5. ASSUME NEW j \in Jobs, ListArchives(j) \/ RemoveFile(j) \/ DeleteBackupArchive(j),
             \/ pc' = [pc EXCEPT ![j] = "fail"] \/ pc' = [pc EXCEPT ![j] = "unswept"]
             \/ pc' = [pc EXCEPT ![j] = "stage"]
      PROVE  \A i \in Jobs : Fine(i)'
  <2>1. /\ UNCHANGED <<sweep, policy, created, seq>> /\ rows' \subseteq rows
        /\ \A i \in Jobs \ {j} : doomed'[i] = doomed[i]
    BY <1>5 DEF ListArchives, RemoveFile, DeleteBackupArchive, SweepError, TypeOK
  <2>2. pc'[j] \in {"fail", "unswept", "stage"} /\ \A i \in Jobs \ {j} : pc'[i] = pc[i]
    BY <1>5 DEF TypeOK
  <2>3. Fine(j)'
    BY <1>2, <2>2
  <2>4. ASSUME NEW i \in Jobs, i # j PROVE Fine(i)'
    BY <1>1, <2>1, <2>2, <2>4 DEF TypeOK
  <2> QED  BY <2>3, <2>4
<1>6. ASSUME NEW j \in Jobs, ListArchives(j),
             pc' = [pc EXCEPT ![j] = "unlink"] \/ pc' = [pc EXCEPT ![j] = "created"],
             doomed' = [doomed EXCEPT ![j] = {a \in rows : Removable(j, a)}],
             pc'[j] = "created" => sweep[j] = 2 /\ doomed'[j] = {}
      PROVE  \A i \in Jobs : Fine(i)'
  <2>1. UNCHANGED <<sweep, policy, created, seq, rows>>
    BY <1>6 DEF ListArchives, SweepError
  <2>2. \A i \in Jobs \ {j} : pc'[i] = pc[i] /\ doomed'[i] = doomed[i]
    BY <1>6 DEF TypeOK
  <2>3. ASSUME NEW i \in Jobs, i # j PROVE Fine(i)'
    BY <1>1, <2>1, <2>2, <2>3
  <2>4. doomed'[j] = {a \in rows : Removable(j, a)}
    BY <1>6 DEF TypeOK
  <2>5. Kept(j)' \in SUBSET {a \in rows : ~Removable(j, a)}
    BY <2>1, <2>4 DEF Kept
  <2>6. WithinPolicy(j, Kept(j)')
    BY <2>5, ListingKeeps
  <2>7. WithinPolicy(j, Kept(j))'
    BY <2>1, <2>6 DEF WithinPolicy
  <2>8. Fine(j)'
    BY <1>6, <2>1, <2>7 DEF Fine
  <2> QED  BY <2>3, <2>8
<1>7. ASSUME NEW j \in Jobs, RemoveFile(j), pc' = [pc EXCEPT ![j] = "delete"],
             UNCHANGED <<doomed, rows>>
      PROVE  \A i \in Jobs : Fine(i)'
  <2>1. UNCHANGED <<sweep, policy, created, seq>> /\ pc[j] = "unlink"
    BY <1>7 DEF RemoveFile
  <2>2. pc'[j] = "delete" /\ \A i \in Jobs \ {j} : pc'[i] = pc[i]
    BY <1>7 DEF TypeOK
  <2>3. ASSUME NEW i \in Jobs, i # j PROVE Fine(i)'
    BY <1>1, <1>7, <2>1, <2>2, <2>3
  <2>4. Kept(j)' = Kept(j)
    BY <1>7, <2>1 DEF Kept
  <2>5. sweep[j] = 2 => WithinPolicy(j, Kept(j))'
    BY <1>0, <2>1, <2>4, FewerKept DEF Fine
  <2>6. Fine(j)'
    BY <2>1, <2>2, <2>5 DEF Fine
  <2> QED  BY <2>3, <2>6
<1>8. ASSUME NEW j \in Jobs, DeleteBackupArchive(j), NEW d \in Jobs, d \in doomed[j],
             rows' = rows \ {d}, doomed' = [doomed EXCEPT ![j] = @ \ {d}],
             IF doomed[j] = {d} THEN Swept(j, TRUE) ELSE pc' = [pc EXCEPT ![j] = "unlink"]
      PROVE  \A i \in Jobs : Fine(i)'
  <2>1. UNCHANGED <<sweep, policy, created, seq>> /\ pc[j] = "delete" /\ rows' \subseteq rows
    BY <1>8 DEF DeleteBackupArchive
  <2>2. /\ doomed'[j] = doomed[j] \ {d}
        /\ \A i \in Jobs \ {j} : pc'[i] = pc[i] /\ doomed'[i] = doomed[i]
    BY <1>8 DEF TypeOK, Swept
  <2>3. ASSUME NEW i \in Jobs, i # j PROVE Fine(i)'
    BY <1>1, <2>1, <2>2, <2>3 DEF TypeOK
  <2>4. Kept(j)' = Kept(j)
    BY <1>8, <2>1, <2>2 DEF Kept
  <2>5. sweep[j] = 2 => WithinPolicy(j, Kept(j))'
    BY <1>0, <2>1, <2>4, FewerKept DEF Fine
  <2>6. pc'[j] = "created" => sweep[j] = 2 /\ doomed'[j] = {}
    BY <1>8, <2>2 DEF Swept, TypeOK
  <2>7. Fine(j)'
    BY <2>1, <2>5, <2>6 DEF Fine
  <2> QED  BY <2>3, <2>7
<1>9. ASSUME NEW j \in Jobs,
             \/ StageVolumes(j) \/ OpenPack(j) \/ ClosePack(j) \/ HashFile(j)
             \/ CompleteJob(j) \/ FailJob(j)
      PROVE  \A i \in Jobs : Fine(i)'
  <2>1. UNCHANGED <<policy, created, seq, rows, doomed>>
        /\ \A i \in Jobs \ {j} : pc'[i] = pc[i] /\ sweep'[i] = sweep[i]
    BY <1>9 DEF StageVolumes, OpenPack, ClosePack, HashFile, CompleteJob, FailJob, TypeOK
  <2>2. pc'[j] \in {"pack", "fail", "packing", "hash", "insert", "list", "failed"}
    BY <1>9 DEF StageVolumes, OpenPack, ClosePack, HashFile, CompleteJob, FailJob, TypeOK
  <2>3. ASSUME NEW i \in Jobs, i # j PROVE Fine(i)'
    BY <1>1, <2>1, <2>3
  <2> QED  BY <1>2, <2>2, <2>3
<1>10. ASSUME NEW j \in Jobs, CreateBackupArchive(j) PROVE \A i \in Jobs : Fine(i)'
  <2>1. /\ UNCHANGED <<policy, created, doomed, sweep>>
        /\ pc'[j] \in {"complete", "fail"} /\ \A i \in Jobs \ {j} : pc'[i] = pc[i]
    BY <1>10 DEF CreateBackupArchive, TypeOK
  <2>2. CASE UNCHANGED <<rows, seq>>
    <3>1. ASSUME NEW i \in Jobs, i # j PROVE Fine(i)'
      BY <1>1, <2>1, <2>2, <3>1
    <3> QED  BY <1>2, <2>1, <3>1
  <2>3. CASE rows' = rows \cup {j} /\ seq' = [seq EXCEPT ![j] = NextSeq]
    <3>1. ASSUME NEW i \in Jobs, i # j PROVE Fine(i)'
      <4>1. seq'[j] > seq'[i] /\ \A a \in Jobs \ {j} : seq'[a] = seq[a]
        BY <2>3, <3>1, NextSeqType DEF SeqInv, TypeOK
      <4>2. Kept(i)' \subseteq Kept(i)
        BY <2>1, <2>3, <3>1, <4>1 DEF Kept, TypeOK
      <4> QED  BY <1>0, <2>1, <3>1, <4>2, FewerKept DEF Fine
    <3> QED  BY <1>2, <2>1, <3>1
  <2> QED  BY <1>10, <2>2, <2>3 DEF CreateBackupArchive
<1>11. CASE Crash
  <2>1. UNCHANGED <<sweep, policy, created, seq, rows>>
    BY <1>11 DEF Crash
  <2> SUFFICES ASSUME NEW i \in Jobs PROVE Fine(i)'
    OBVIOUS
  <2>2. CASE pc[i] = "created"
    <3>1. doomed[i] = {} /\ doomed'[i] = {} /\ pc'[i] = pc[i]
      BY <1>0, <1>11, <2>2 DEF Crash, Busy, Fine
    <3> QED  BY <1>1, <2>1, <3>1
  <2>3. CASE pc[i] # "created"
    <3>1. pc'[i] \notin {"unlink", "delete", "created"}
      BY <1>11, <2>3 DEF Crash, Busy
    <3> QED  BY <1>2, <3>1
  <2> QED  BY <2>2, <2>3
<1>12. CASE UNCHANGED <<pc, sweep, policy, created, doomed, seq>> /\ rows' \subseteq rows
  BY <1>1, <1>12
<1>13. ASSUME NEW j \in Jobs, Disconnect(j) PROVE \A i \in Jobs : Fine(i)'
  BY <1>12, <1>13 DEF Disconnect
<1>14. CASE DeleteAppInstance \/ Tick \/ UNCHANGED vars
  BY <1>12, <1>14 DEF DeleteAppInstance, Tick, vars
<1>15. ASSUME NEW j \in Jobs, ListArchives(j) PROVE \A i \in Jobs : Fine(i)'
  <2>1. CASE SweepError(j)
    BY <1>5, <1>15, <2>1 DEF SweepError, Swept, ListArchives
  <2>2. CASE doomed' = [doomed EXCEPT ![j] = {a \in rows : Removable(j, a)}]
             /\ IF doomed'[j] = {} THEN Swept(j, TRUE) ELSE pc' = [pc EXCEPT ![j] = "unlink"]
    <3>1. CASE pc' = [pc EXCEPT ![j] = "stage"]
      BY <1>5, <1>15, <3>1
    <3>2. CASE pc' = [pc EXCEPT ![j] = "unlink"]
      <4>1. pc'[j] # "created"
        BY <3>2 DEF TypeOK
      <4> QED  BY <1>6, <1>15, <2>2, <3>2, <4>1
    <3>3. CASE doomed'[j] = {} /\ sweep[j] # 1 /\ pc' = [pc EXCEPT ![j] = "created"]
      <4>1. sweep[j] = 2
        BY <3>3 DEF TypeOK
      <4> QED  BY <1>6, <1>15, <2>2, <3>3, <4>1
    <3> QED  BY <2>2, <3>1, <3>2, <3>3 DEF Swept
  <2> QED  BY <1>15, <2>1, <2>2 DEF ListArchives
<1>16. ASSUME NEW j \in Jobs, RemoveFile(j) PROVE \A i \in Jobs : Fine(i)'
  <2>1. CASE SweepError(j)
    BY <1>5, <1>16, <2>1 DEF SweepError, Swept
  <2>2. CASE pc' = [pc EXCEPT ![j] = "delete"] /\ UNCHANGED <<doomed, rows>>
    BY <1>7, <1>16, <2>2
  <2> QED  BY <1>16, <2>1, <2>2 DEF RemoveFile
<1>17. ASSUME NEW j \in Jobs, DeleteBackupArchive(j) PROVE \A i \in Jobs : Fine(i)'
  <2>1. CASE SweepError(j)
    BY <1>5, <1>17, <2>1 DEF SweepError, Swept
  <2>2. ASSUME NEW d \in Jobs, IsNext(j, d), rows' = rows \ {d},
               doomed' = [doomed EXCEPT ![j] = @ \ {d}],
               IF doomed[j] = {d} THEN Swept(j, TRUE) ELSE pc' = [pc EXCEPT ![j] = "unlink"]
        PROVE  \A i \in Jobs : Fine(i)'
    <3>1. d \in doomed[j]
      BY <2>2 DEF IsNext
    <3> QED  BY <1>8, <1>17, <2>2, <3>1
  <2> QED  BY <1>17, <2>1, <2>2 DEF DeleteBackupArchive
<1> QED
  BY <1>4, <1>9, <1>10, <1>11, <1>13, <1>14, <1>15, <1>16, <1>17 DEF Next, Request

\* A request that got through both its retention calls left no more than its
\* limits allow of the archives recorded up to its own, for any number of
\* requests that record and remove archives meanwhile
\* (backup.Service.EnforceRetention).
THEOREM RetentionIsHonoured == Spec => []RetentionHonoured
<1>1. Init => SeqInv /\ KeptInv
  <2> SUFFICES ASSUME Init PROVE SeqInv /\ KeptInv
    OBVIOUS
  <2>1. \A a \in Jobs : seq[a] = 0 /\ created[a] = 0 /\ pc[a] = "idle"
    BY DEF Init
  <2>2. clock = 0
    BY DEF Init
  <2> QED  BY <2>1, <2>2, NextSeqType DEF SeqInv, KeptInv
<1>2. BackupInv /\ BackupInv' /\ SeqInv /\ KeptInv /\ [Next]_vars => SeqInv' /\ KeptInv'
  BY SeqStep, KeptStep DEF RetentionInv, BackupInv
<1>3. KeptInv => RetentionHonoured
  <2> SUFFICES ASSUME KeptInv, NEW j \in Jobs, pc[j] = "created"
               PROVE  LET old == {a \in rows : seq[a] <= seq[j]} IN
                      /\ policy[j].count > 0 => Cardinality(old) <= policy[j].count
                      /\ policy[j].days > 0
                           => \A a \in old : created[a] + policy[j].days > created[j]
    BY DEF RetentionHonoured
  <2>1. Kept(j) = {a \in rows : seq[a] <= seq[j]} /\ WithinPolicy(j, Kept(j))
    BY DEF KeptInv, Kept
  <2> QED  BY <2>1 DEF WithinPolicy
<1> QED  BY <1>1, <1>2, <1>3, Invariance, PTL DEF Spec

-----------------------------------------------------------------------------
(* Backups are a shelf.                                                     *)

\* Archive rows go with the app.
ClosedInv == ~app => rows = {}

\* No step but the deletion of the app touches it, and without it nothing is
\* recorded.
LEMMA ClosedStep ==
    ASSUME TypeOK, ClosedInv, [Next]_vars
    PROVE  ClosedInv'
<1>1. CASE UNCHANGED vars
  BY <1>1 DEF vars, ClosedInv
<1>2. ASSUME NEW j \in Jobs, Request(j) PROVE ClosedInv'
  <2>1. UNCHANGED app /\ (rows' \subseteq rows \/ app)
    BY <1>2 DEF Request, Create, ListArchives, RemoveFile, DeleteBackupArchive, SweepError,
       StageVolumes, OpenPack, ClosePack, HashFile, CreateBackupArchive, CompleteJob, FailJob,
       Disconnect
  <2> QED  BY <2>1 DEF ClosedInv
<1>3. CASE Crash \/ DeleteAppInstance \/ Tick
  BY <1>3 DEF Crash, DeleteAppInstance, Tick, ClosedInv
<1> QED  BY <1>1, <1>2, <1>3 DEF Next

\* What a user sees does not change.
LEMMA ShelfQuiet ==
    ASSUME UNCHANGED <<clock, app, created, seq>>, Intact' = Intact
    PROVE  UNCHANGED Shelf!shelfVars
BY DEF Shelf!shelfVars

\* The removal of a listed archive's file or row takes one archive off the
\* shelf, with a reason, or none.
LEMMA ShelfLoss ==
    ASSUME TypeOK, JustifiedInv, ClosedInv, NEW d \in Jobs, NEW j \in Jobs, d \in doomed[j],
           UNCHANGED <<clock, app, created, seq>>, Intact' = Intact \ {d}
    PROVE  Shelf!Take(d) \/ UNCHANGED Shelf!shelfVars
<1>1. CASE d \notin Intact
  BY <1>1, ShelfQuiet
<1>2. CASE d \in Intact
  <2>1. app
    BY <1>2 DEF ClosedInv, Intact
  <2>2. Justified(d)
    BY <2>1 DEF JustifiedInv
  <2>3. Shelf!Spare(d) \/ Shelf!Overdue(d)
    <3>1. {b \in Intact : Newer(b, d)} = {b \in Intact : Shelf!Ahead(b, d)}
      BY DEF Newer, Shelf!Ahead
    <3>2. Outranked(d) => Shelf!Spare(d)
      BY <3>1 DEF Outranked, Position, Shelf!Spare, Cardinality, Shelf!Cardinality
    <3>3. Expired(d) => Shelf!Overdue(d)
      BY DEF Expired, Shelf!Overdue
    <3> QED  BY <2>2, <3>2, <3>3 DEF Justified
  <2> QED  BY <1>2, <2>1, <2>3 DEF Shelf!Take
<1> QED  BY <1>1, <1>2

\* Every step is a step of the shelf or does not touch it.
LEMMA ShelfStep ==
    ASSUME BackupInv, SeqInv, ClosedInv, [Next]_vars
    PROVE  [Shelf!ShelfNext]_(Shelf!shelfVars)
<1> USE DEF BackupInv
<1>1. CASE UNCHANGED vars
  BY <1>1, ShelfQuiet DEF vars, Intact
<1>2. ASSUME NEW j \in Jobs, Create(j) PROVE [Shelf!ShelfNext]_(Shelf!shelfVars)
  <2>0. UNCHANGED <<clock, app, seq>> /\ Intact' = Intact
    BY <1>2 DEF Create, Intact
  <2>1. CASE UNCHANGED created
    BY <2>0, <2>1, ShelfQuiet
  <2>2. CASE app /\ created' = [created EXCEPT ![j] = clock]
    <3>1. seq[j] = 0
      BY <1>2 DEF Create, PhaseInv
    <3>2. Shelf!Stamp(j)
      BY <2>0, <2>2, <3>1 DEF Shelf!Stamp
    <3> QED  BY <3>2 DEF Shelf!ShelfNext
  <2> QED  BY <1>2, <2>1, <2>2 DEF Create
<1>3. ASSUME NEW j \in Jobs, ListArchives(j) PROVE UNCHANGED Shelf!shelfVars
  BY <1>3, ShelfQuiet DEF ListArchives, SweepError, Intact
<1>4. ASSUME NEW j \in Jobs, RemoveFile(j) PROVE [Shelf!ShelfNext]_(Shelf!shelfVars)
  <2>0. UNCHANGED <<clock, app, created, seq, rows>>
    BY <1>4 DEF RemoveFile, SweepError
  <2>1. CASE SweepError(j)
    BY <2>0, <2>1, ShelfQuiet DEF SweepError, Intact
  <2>2. ASSUME NEW d \in Jobs, d \in doomed[j], file' = [file EXCEPT ![d] = "absent"]
        PROVE  [Shelf!ShelfNext]_(Shelf!shelfVars)
    <3>1. Intact' = Intact \ {d}
      BY <2>0, <2>2 DEF Intact, TypeOK
    <3> QED  BY <2>0, <2>2, <3>1, ShelfLoss DEF Shelf!ShelfNext
  <2> QED  BY <1>4, <2>1, <2>2 DEF RemoveFile, IsNext
<1>5. ASSUME NEW j \in Jobs, DeleteBackupArchive(j) PROVE [Shelf!ShelfNext]_(Shelf!shelfVars)
  <2>0. UNCHANGED <<clock, app, created, seq, file>>
    BY <1>5 DEF DeleteBackupArchive, SweepError
  <2>1. CASE SweepError(j)
    BY <2>0, <2>1, ShelfQuiet DEF SweepError, Intact
  <2>2. ASSUME NEW d \in Jobs, d \in doomed[j], rows' = rows \ {d}
        PROVE  [Shelf!ShelfNext]_(Shelf!shelfVars)
    <3>1. Intact' = Intact \ {d}
      BY <2>0, <2>2 DEF Intact
    <3> QED  BY <2>0, <2>2, <3>1, ShelfLoss DEF Shelf!ShelfNext
  <2> QED  BY <1>5, <2>1, <2>2 DEF DeleteBackupArchive, IsNext
<1>6. ASSUME NEW j \in Jobs,
             StageVolumes(j) \/ HashFile(j) \/ CompleteJob(j) \/ FailJob(j) \/ Disconnect(j)
      PROVE  UNCHANGED Shelf!shelfVars
  BY <1>6, ShelfQuiet DEF StageVolumes, HashFile, CompleteJob, FailJob, Disconnect, Intact
<1>7. ASSUME NEW j \in Jobs, OpenPack(j) \/ ClosePack(j) PROVE UNCHANGED Shelf!shelfVars
  <2>1. j \notin rows
    BY <1>7 DEF OpenPack, ClosePack, PhaseInv, RecordedInv, Recorded, TypeOK
  <2>2. /\ UNCHANGED <<clock, app, created, seq, rows>>
        /\ \A a \in Jobs \ {j} : file'[a] = file[a]
    BY <1>7 DEF OpenPack, ClosePack, TypeOK
  <2>3. Intact' = Intact
    BY <2>1, <2>2 DEF Intact, TypeOK
  <2> QED  BY <2>2, <2>3, ShelfQuiet
<1>8. ASSUME NEW j \in Jobs, CreateBackupArchive(j) PROVE [Shelf!ShelfNext]_(Shelf!shelfVars)
  <2>1. seq[j] = 0 /\ j \notin rows /\ file[j] = "complete" /\ UNCHANGED <<clock, app, created>>
    BY <1>8 DEF CreateBackupArchive, PhaseInv, RecordedInv, Recorded, TypeOK
  <2>2. CASE UNCHANGED <<rows, seq>>
    <3>1. \A a \in Jobs \ {j} : file'[a] = file[a]
      BY <1>8 DEF CreateBackupArchive, TypeOK
    <3>2. Intact' = Intact
      BY <2>1, <2>2, <3>1 DEF Intact, TypeOK
    <3> QED  BY <2>1, <2>2, <3>2, ShelfQuiet
  <2>3. CASE /\ app /\ rows' = rows \cup {j} /\ seq' = [seq EXCEPT ![j] = NextSeq]
             /\ UNCHANGED file
    <3>1. Intact' = Intact \cup {j}
      BY <2>1, <2>3 DEF Intact
    <3>2. seq'[j] = NextSeq /\ \A b \in Jobs \ {j} : seq[b] < NextSeq
      BY <2>3 DEF TypeOK, SeqInv
    <3>3. Shelf!Put(j)
      BY <2>1, <2>3, <3>1, <3>2 DEF Shelf!Put
    <3> QED  BY <3>3 DEF Shelf!ShelfNext
  <2> QED  BY <1>8, <2>2, <2>3 DEF CreateBackupArchive
<1>9. CASE Crash
  BY <1>9, ShelfQuiet DEF Crash, Intact
<1>10. CASE DeleteAppInstance
  <2>1. Shelf!Clear
    BY <1>10 DEF DeleteAppInstance, Intact, Shelf!Clear
  <2> QED  BY <2>1 DEF Shelf!ShelfNext
<1>11. CASE Tick
  <2>1. Intact' = Intact
    BY <1>11 DEF Tick, Intact
  <2>2. Shelf!Pass
    BY <1>11, <2>1 DEF Tick, Shelf!Pass
  <2> QED  BY <2>2 DEF Shelf!ShelfNext
<1> QED
  BY <1>1, <1>2, <1>3, <1>4, <1>5, <1>6, <1>7, <1>8, <1>9, <1>10, <1>11 DEF Next, Request

\* However many requests back up, list and remove at once, fail and die, a user
\* sees a shelf: archives appear once, whole and behind all others, and each
\* that goes is, as it goes, outranked by Keep that stay or too old
\* (backup.Service.Create and EnforceRetention).
THEOREM Refinement == Spec => ImplementsShelf
<1>1. Init => SeqInv /\ ClosedInv /\ Shelf!ShelfInit
  <2> SUFFICES ASSUME Init PROVE SeqInv /\ ClosedInv /\ Shelf!ShelfInit
    OBVIOUS
  <2>1. /\ clock = 0 /\ app = TRUE /\ rows = {}
        /\ created = [a \in Jobs |-> 0] /\ seq = [a \in Jobs |-> 0]
    BY DEF Init
  <2>2. Intact = {}
    BY <2>1 DEF Intact
  <2>3. SeqInv
    BY <2>1, NextSeqType DEF SeqInv
  <2> QED  BY <2>1, <2>2, <2>3 DEF ClosedInv, Shelf!ShelfInit
<1>2. BackupInv /\ SeqInv /\ ClosedInv /\ [Next]_vars => SeqInv' /\ ClosedInv'
  BY SeqStep, ClosedStep DEF BackupInv
<1>3. BackupInv /\ SeqInv /\ ClosedInv /\ [Next]_vars => [Shelf!ShelfNext]_(Shelf!shelfVars)
  BY ShelfStep
<1> QED
  BY <1>1, <1>2, <1>3, Invariance, PTL DEF Spec, ImplementsShelf, Shelf!ShelfSpec
=============================================================================
