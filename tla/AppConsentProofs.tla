-------------------------- MODULE AppConsentProofs --------------------------
(***************************************************************************)
(* Proofs about AppConsent for any manifests, apps and number of tied      *)
(* revisions.  The argument: whatever revision a review compares with, its *)
(* permissions were agreed to (ConsentInv), so an update that asks for no  *)
(* acknowledgement asks for nothing new; and while revisions are in order  *)
(* the review compares with the one that runs (DataInv).                   *)
(***************************************************************************)
EXTENDS AppConsent, WellFoundedInduction, TLAPS

-----------------------------------------------------------------------------
(* Lemmas about the operators.                                              *)

\* A non-empty set of indices has a greatest one.
LEMMA MaxExists ==
    ASSUME NEW n \in Nat, NEW I \in SUBSET (1..n), I # {}
    PROVE  Max(I) \in I
  <1>. DEFINE T == {n - j : j \in I}
              R == OpToRel(<, Nat)
  <1>1. \A j \in I : j \in Nat /\ n - j \in Nat
    <2>. TAKE j \in I
    <2>1. j \in 1..n
      OBVIOUS
    <2>. QED  BY <2>1, SMT
  <1>2. T \subseteq Nat /\ T # {}
    BY <1>1
  <1>3. PICK x \in T : \A y \in T : ~(<<y, x>> \in R)
    <2>. HIDE DEF T, R
    <2>1. IsWellFoundedOn(R, Nat)
      BY NatLessThanWellFounded DEF R
    <2>. QED  BY <1>2, <2>1, WFMin
  <1>4. PICK j \in I : x = n - j
    OBVIOUS
  <1>5. \A i \in I : ~(n - i < n - j)
    BY <1>1, <1>2, <1>3, <1>4 DEF OpToRel
  <1>6. \A i \in I : j >= i
    <2>. TAKE i \in I
    <2>1. i \in Nat /\ j \in Nat /\ ~(n - i < n - j)
      BY <1>1, <1>5
    <2>. QED  BY <2>1, SMT
  <1>. QED  BY <1>6 DEF Max

\* The shape of a manifest that is offered.
LEMMA OfferedShape ==
    ASSUME NEW m \in Offered
    PROVE  /\ m.permissions \in Seq([kind : Listed(m.permissions), required : BOOLEAN])
           /\ m.storage \in Seq(Names)
           /\ m.config \in Seq([key : Keys(m), default : Values, required : BOOLEAN])
  BY ConsentAssumption

\* The last entry of a listed kind is an entry of that kind.
LEMMA LastIsListed ==
    ASSUME NEW m \in Offered, NEW k \in Listed(m.permissions)
    PROVE  \E i \in DOMAIN m.permissions :
              /\ LastOfKind(m.permissions, k) = m.permissions[i]
              /\ m.permissions[i].kind = k /\ m.permissions[i].required \in BOOLEAN
  <1>. DEFINE list == m.permissions
              T == [kind : Listed(list), required : BOOLEAN]
              I == {i \in DOMAIN list : list[i].kind = k}
  <1>1. list \in Seq(T)
    BY OfferedShape
  <1>2. Len(list) \in Nat /\ DOMAIN list = 1..Len(list) /\ \A i \in DOMAIN list : list[i] \in T
    <2>. HIDE DEF T, list
    <2>. QED  BY <1>1
  <1>3. I \in SUBSET (1..Len(list)) /\ I # {}
    BY <1>2 DEF Listed
  <1>4. Max(I) \in I
    <2>. HIDE DEF I, list
    <2>. QED  BY <1>2, <1>3, MaxExists
  <1>. QED  BY <1>2, <1>4 DEF LastOfKind

\* The permissions of m were agreed to if G is.
Covered(G, m) ==
    \A p \in Asked(m) : p \in G \/ (~p[2] /\ <<p[1], TRUE>> \in G)

\* If the permissions of cur were agreed to and those of m are no increase, they
\* were agreed to as well (permissionDiff, UpdatePreview).
LEMMA NoIncreaseNoConsent ==
    ASSUME NEW cur \in Offered, NEW m \in Offered, NEW G,
           Covered(G, cur), ~PermissionIncrease(cur.permissions, m.permissions)
    PROVE  Covered(G, m)
  <1>. SUFFICES ASSUME NEW p \in Asked(m)
                PROVE  p \in G \/ (~p[2] /\ <<p[1], TRUE>> \in G)
    BY DEF Covered
  <1>0. PICK i \in DOMAIN m.permissions :
            p = <<m.permissions[i].kind, m.permissions[i].required>>
    BY DEF Asked
  <1>. DEFINE q == m.permissions[i]
  <1>. SUFFICES \/ <<q.kind, q.required>> \in G
                \/ ~q.required /\ <<q.kind, TRUE>> \in G
    BY <1>0
  <1>1. q.kind \in Listed(cur.permissions)
    BY DEF PermissionIncrease, DiffState
  <1>2. PICK j \in DOMAIN cur.permissions :
            /\ LastOfKind(cur.permissions, q.kind) = cur.permissions[j]
            /\ cur.permissions[j].kind = q.kind /\ cur.permissions[j].required \in BOOLEAN
    BY <1>1, LastIsListed
  <1>3. <<q.kind, cur.permissions[j].required>> \in Asked(cur)
    BY <1>2 DEF Asked
  <1>4. CASE cur.permissions[j].required = q.required
    BY <1>3, <1>4 DEF Covered
  <1>5. CASE cur.permissions[j].required # q.required
    <2>1. DiffState(cur.permissions, q) = "changed"
      BY <1>1, <1>2, <1>5 DEF DiffState
    <2>2. ~q.required
      BY <2>1 DEF PermissionIncrease
    <2>3. q.required \in BOOLEAN
      <3>. DEFINE T == [kind : Listed(m.permissions), required : BOOLEAN]
      <3>1. m.permissions \in Seq(T)
        BY OfferedShape
      <3>2. q \in T
        <4>. HIDE DEF T
        <4>. QED  BY <3>1
      <3>. QED  BY <3>2
    <2>4. cur.permissions[j].required = TRUE
      BY <1>2, <1>5, <2>2, <2>3
    <2>. QED  BY <1>3, <2>2, <2>4 DEF Covered
  <1>. QED  BY <1>4, <1>5

\* What an install or an acknowledged update agrees to covers it; more covers more.
LEMMA AskedCovers == ASSUME NEW m, NEW G, Asked(m) \subseteq G  PROVE Covered(G, m)
  BY DEF Covered

\* What is covered stays so when more is agreed to.
LEMMA CoveredGrows ==
    ASSUME NEW m, NEW G, NEW H, Covered(G, m), G \subseteq H  PROVE Covered(H, m)
  BY DEF Covered
\* ApplyConfig yields a value for every declared key.
LEMMA ApplyConfigType ==
    ASSUME NEW m \in Offered, NEW o \in Overrides
    PROVE  ApplyConfig(m, o) \in Configs
  <1>1. o \in [DOMAIN o -> Values]
    BY ConsentAssumption
  <1>2. \A i \in DOMAIN m.config : m.config[i].default \in Values
    <2>. DEFINE T == [key : Keys(m), default : Values, required : BOOLEAN]
    <2>1. m.config \in Seq(T)
      BY OfferedShape
    <2>2. \A i \in DOMAIN m.config : m.config[i] \in T
      <3>. HIDE DEF T
      <3>. QED  BY <2>1
    <2>. QED  BY <2>2
  <1>3. ASSUME NEW i \in DOMAIN m.config  PROVE ValueOf(m.config[i], o) \in Values
    BY <1>1, <1>2 DEF ValueOf
  <1>. DEFINE At(k) == CHOOSE i \in DOMAIN m.config : m.config[i].key = k
  <1>4. \A k \in Keys(m) : At(k) \in DOMAIN m.config
    BY DEF Keys
  <1>5. [k \in Keys(m) |-> ValueOf(m.config[At(k)], o)] \in [Keys(m) -> Values]
    BY <1>3, <1>4
  <1>6. ApplyConfig(m, o) \in [Keys(m) -> Values]
    BY <1>5 DEF ApplyConfig
  <1>. QED  BY <1>6 DEF Configs

\* LatestWith: the new revision alone, with those of the same second, or not at all.
LEMMA LatestWithType ==
    ASSUME NEW old \in SUBSET Offered, old # {}, NEW m \in Offered,
           NEW latest \in LatestWith(old, m)
    PROVE  latest \in (SUBSET Offered) \ {{}} /\ latest \subseteq old \cup {m}
  BY DEF LatestWith

\* An update makes a row of a row.
LEMMA UpdatedType ==
    ASSUME NEW row \in Rows, NEW m \in Offered, NEW latest \in (SUBSET Offered) \ {{}}
    PROVE  Updated(row, m, latest) \in Rows
  <1>. DEFINE C == {n.id : n \in Offered} \cup {None}
              L == (SUBSET Offered) \ {{}}
              P == {DefaultProjectName(n) : n \in Offered}
              H == {InstallPath(n) : n \in Offered}
              R == [catalog : C, manifest : Offered, latest : L, config : Configs,
                    project : P, path : H]
  <1>1. Rows = R
    BY DEF Rows
  <1>2. row \in R /\ latest \in L
    BY <1>1
  <1>3. [row EXCEPT !.manifest = m, !.latest = latest] \in R
    <2>. HIDE DEF C, L, P, H
    <2>. QED  BY <1>2
  <1>. QED  BY <1>1, <1>3 DEF Updated

-----------------------------------------------------------------------------
(* Types.                                                                   *)

\* What the row of an installed app holds.
LEMMA RowShape ==
    ASSUME TypeOK, NEW a \in Installed
    PROVE  /\ a \in Apps /\ app[a] \in Rows
           /\ app[a].manifest \in Offered /\ app[a].config \in Configs
           /\ app[a].latest \subseteq Offered /\ app[a].latest # {}
           /\ \E n \in Offered : app[a].project = DefaultProjectName(n)
  <1>1. a \in Apps /\ app[a] \in Rows
    BY DEF TypeOK, Installed
  <1>. QED  BY <1>1 DEF Rows

\* Only a's variables change.
LEMMA TypeStep == TypeOK /\ [Next]_vars => TypeOK'
  <1>. SUFFICES ASSUME TypeOK, [Next]_vars  PROVE TypeOK'
    OBVIOUS
  <1>. USE DEF TypeOK
  <1>1. ASSUME NEW a \in Apps, NEW m \in Offered, NEW s \in BOOLEAN, NEW o \in Overrides,
               Install(a, m, s, o)
        PROVE  TypeOK'
    <2>. DEFINE row == [catalog |-> IF s THEN None ELSE m.id, manifest |-> m,
                        latest |-> {m}, config |-> ApplyConfig(m, o),
                        project |-> DefaultProjectName(m), path |-> InstallPath(m)]
    <2>1. row \in Rows
      <3>1. ApplyConfig(m, o) \in Configs
        BY ApplyConfigType
      <3>2. {m} \in (SUBSET Offered) \ {{}}
        OBVIOUS
      <3>. QED  BY <3>1, <3>2 DEF Rows
    <2>2. app' = [app EXCEPT ![a] = row]
      BY <1>1 DEF Install
    <2>3. app' \in [Apps -> Rows \cup {None}]
      <3>. HIDE DEF row
      <3>. QED  BY <2>1, <2>2
    <2>. QED  BY <1>1, <2>3 DEF Install
  <1>2. ASSUME NEW a \in Apps, NEW m \in Offered, NEW ack \in BOOLEAN, Update(a, m, ack)
        PROVE  TypeOK'
    <2>1. a \in Installed
      BY <1>2 DEF Update, Installed
    <2>2. PICK latest \in LatestWith(app[a].latest, m) :
              /\ app' = [app EXCEPT ![a] = Updated(app[a], m, latest)]
              /\ inOrder' = [inOrder EXCEPT ![a] = @ /\ latest = {m}]
      BY <1>2 DEF Update
    <2>3. Updated(app[a], m, latest) \in Rows
      <3>1. latest \in (SUBSET Offered) \ {{}}
        BY <2>1, RowShape, LatestWithType
      <3>. QED  BY <2>1, <3>1, RowShape, UpdatedType
    <2>4. app' \in [Apps -> Rows \cup {None}]
      BY <2>2, <2>3
    <2>5. granted' \in [Apps -> SUBSET UNION {Asked(n) : n \in Offered}]
      BY <1>2 DEF Update
    <2>6. owed' \in [Apps -> SUBSET UNION {Mounted(DefaultProjectName(p), n) : p, n \in Offered}]
      <3>1. PICK p \in Offered : app[a].project = DefaultProjectName(p)
        BY <2>1, RowShape
      <3>2. Mounted(app[a].project, m)
                \in SUBSET UNION {Mounted(DefaultProjectName(q), n) : q, n \in Offered}
        BY <3>1
      <3>. QED  BY <1>2, <3>2 DEF Update
    <2>7. inOrder' \in [Apps -> BOOLEAN]
      BY <2>2
    <2>. QED  BY <2>4, <2>5, <2>6, <2>7
  <1>3. ASSUME NEW a \in Apps, Uninstall(a)  PROVE TypeOK'
    BY <1>3 DEF Uninstall
  <1>4. CASE UNCHANGED vars
    BY <1>4 DEF vars
  <1>. QED  BY <1>1, <1>2, <1>3, <1>4 DEF Next

\* The rows and what is remembered of each app keep their types.
THEOREM TypeCorrect == Spec => []TypeOK
  <1>1. Init => TypeOK
    BY DEF Init, TypeOK
  <1>. QED  BY <1>1, TypeStep, PTL DEF Spec

-----------------------------------------------------------------------------
(* Consent.                                                                 *)

\* Every revision a review may compare with was agreed to.
ConsentInv ==
    \A a \in Installed : \A m \in app[a].latest \cup {app[a].manifest} : Covered(granted[a], m)

\* Every step keeps what may run within what was agreed to.
LEMMA ConsentStep == TypeOK /\ ConsentInv /\ [Next]_vars => ConsentInv'
  <1>. SUFFICES ASSUME TypeOK, ConsentInv, [Next]_vars  PROVE ConsentInv'
    OBVIOUS
  <1>1. ASSUME NEW a \in Apps, NEW m \in Offered, NEW s \in BOOLEAN, NEW o \in Overrides,
               Install(a, m, s, o)
        PROVE  ConsentInv'
    <2>1. app'[a].latest = {m} /\ app'[a].manifest = m /\ granted'[a] = Asked(m)
      BY <1>1 DEF Install, TypeOK
    <2>2. \A b \in Apps \ {a} : app'[b] = app[b] /\ granted'[b] = granted[b]
      BY <1>1 DEF Install, TypeOK
    <2>3. Covered(granted'[a], m)
      BY <2>1, AskedCovers
    <2>. QED  BY <2>1, <2>2, <2>3 DEF ConsentInv, Installed
  <1>2. ASSUME NEW a \in Apps, NEW m \in Offered, NEW ack \in BOOLEAN, Update(a, m, ack)
        PROVE  ConsentInv'
    <2>1. a \in Installed
      BY <1>2 DEF Update, Installed
    <2>2. PICK cur \in app[a].latest : Accepts(cur, m, app[a].config, ack)
      BY <1>2 DEF Update
    <2>3. PICK latest \in LatestWith(app[a].latest, m) :
              app' = [app EXCEPT ![a] = Updated(app[a], m, latest)]
      BY <1>2 DEF Update
    <2>4. app'[a].latest = latest /\ app'[a].manifest = m
      <3>1. app[a] \in Rows /\ app'[a] = Updated(app[a], m, latest)
        BY <2>1, <2>3, RowShape DEF TypeOK
      <3>2. DOMAIN app[a] = {"catalog", "manifest", "latest", "config", "project", "path"}
        BY <3>1 DEF Rows
      <3>. QED  BY <3>1, <3>2 DEF Updated
    <2>5. /\ granted'[a] = IF ack THEN granted[a] \cup Asked(m) ELSE granted[a]
          /\ \A b \in Apps \ {a} : app'[b] = app[b] /\ granted'[b] = granted[b]
      BY <1>2, <2>3 DEF Update, TypeOK
    <2>6. Covered(granted'[a], m)
      <3>1. CASE ack
        BY <3>1, <2>5, AskedCovers
      <3>2. CASE ~ack
        <4>1. ~PermissionIncrease(cur.permissions, m.permissions)
          BY <3>2, <2>2 DEF Accepts, RequiresAcknowledgement
        <4>2. cur \in Offered /\ Covered(granted[a], cur)
          BY <2>1, <2>2, RowShape DEF ConsentInv
        <4>. QED  BY <3>2, <4>1, <4>2, <2>5, NoIncreaseNoConsent
      <3>. QED  BY <3>1, <3>2
    <2>7. latest \subseteq app[a].latest \cup {m}
      BY DEF LatestWith
    <2>8. \A n \in app[a].latest : Covered(granted'[a], n)
      <3>1. granted[a] \subseteq granted'[a]
        BY <2>5
      <3>. QED  BY <2>1, <3>1, CoveredGrows DEF ConsentInv
    <2>. QED  BY <2>4, <2>5, <2>6, <2>7, <2>8 DEF ConsentInv, Installed
  <1>3. ASSUME NEW a \in Apps, Uninstall(a)  PROVE ConsentInv'
    BY <1>3 DEF Uninstall, ConsentInv, Installed, TypeOK
  <1>4. CASE UNCHANGED vars
    BY <1>4 DEF vars, ConsentInv, Installed
  <1>. QED  BY <1>1, <1>2, <1>3, <1>4 DEF Next

\* Nothing runs with permissions the administrator has not been asked about, for
\* any manifests and however GetLatestRevision breaks its ties.
THEOREM ConsentIsKept == Spec => []ConsentCovers
  <1>1. Init => ConsentInv
    BY DEF Init, ConsentInv, Installed
  <1>2. ConsentInv => ConsentCovers
    BY DEF ConsentInv, ConsentCovers, Covered
  <1>. QED  BY <1>1, <1>2, TypeCorrect, ConsentStep, PTL DEF Spec

-----------------------------------------------------------------------------
(* Volumes.                                                                 *)

\* While revisions are in order the latest is the one that runs and has all that is
\* owed; what is owed carries the app's project; and no two apps share a project.
DataInv ==
    /\ \A a \in Installed :
          /\ inOrder[a] => /\ app[a].latest = {app[a].manifest}
                           /\ owed[a] \subseteq Mounted(app[a].project, app[a].manifest)
          /\ \A v \in owed[a] : v[1] = app[a].project
    /\ \A a, b \in Installed : a # b => app[a].project # app[b].project

\* What Docker has for an app carries its project.
LEMMA MountedProject ==
    ASSUME NEW project, NEW m, NEW v \in Mounted(project, m)  PROVE v[1] = project
  BY DEF Mounted

\* A review that finds no volume removed keeps them all (diffVolumes).
LEMMA NoneRemoved ==
    ASSUME NEW project, NEW cur, NEW m, RemovedVolumes(cur, m) = {}
    PROVE  Mounted(project, cur) \subseteq Mounted(project, m)
  BY DEF RemovedVolumes, Mounted

\* Every step keeps the volumes of an app its own and acknowledged.
LEMMA DataStep == TypeOK /\ DataInv /\ [Next]_vars => DataInv'
  <1>. SUFFICES ASSUME TypeOK, DataInv, [Next]_vars  PROVE DataInv'
    OBVIOUS
  <1>1. ASSUME NEW a \in Apps, NEW m \in Offered, NEW s \in BOOLEAN, NEW o \in Overrides,
               Install(a, m, s, o)
        PROVE  DataInv'
    <2>1. /\ app'[a].latest = {m} /\ app'[a].manifest = m
          /\ app'[a].project = DefaultProjectName(m)
          /\ owed'[a] = Mounted(DefaultProjectName(m), m)
      BY <1>1 DEF Install, TypeOK
    <2>2. \A b \in Apps \ {a} : /\ app'[b] = app[b] /\ owed'[b] = owed[b]
                               /\ inOrder'[b] = inOrder[b]
      BY <1>1 DEF Install, TypeOK
    <2>3. \A b \in Installed : b # a /\ app[b].project # DefaultProjectName(m)
      <3>1. app[a] = None
        BY <1>1 DEF Install
      <3>2. \A b \in Installed : app[b].project # DefaultProjectName(m)
        BY <1>1 DEF Install, Conflicting
      <3>. QED  BY <3>1, <3>2 DEF Installed
    <2>4. Installed' \subseteq Installed \cup {a}
      BY <2>2 DEF Installed
    <2>5. \A v \in owed'[a] : v[1] = app'[a].project
      BY <2>1, MountedProject
    <2>6. \A b \in Installed' \ {a} : b \in Installed /\ b \in Apps
      BY <2>4 DEF Installed
    <2>7. \A b, c \in Installed' : b # c => app'[b].project # app'[c].project
      BY <2>1, <2>2, <2>3, <2>6 DEF DataInv
    <2>8. ASSUME NEW b \in Installed'
          PROVE  /\ inOrder'[b] =>
                       /\ app'[b].latest = {app'[b].manifest}
                       /\ owed'[b] \subseteq Mounted(app'[b].project, app'[b].manifest)
                 /\ \A v \in owed'[b] : v[1] = app'[b].project
      <3>1. CASE b = a
        BY <3>1, <2>1, <2>5
      <3>2. CASE b # a
        BY <3>2, <2>2, <2>6 DEF DataInv
      <3>. QED  BY <3>1, <3>2
    <2>. QED  BY <2>7, <2>8 DEF DataInv
  <1>2. ASSUME NEW a \in Apps, NEW m \in Offered, NEW ack \in BOOLEAN, Update(a, m, ack)
        PROVE  DataInv'
    <2>1. a \in Installed
      BY <1>2 DEF Update, Installed
    <2>2. PICK cur \in app[a].latest : Accepts(cur, m, app[a].config, ack)
      BY <1>2 DEF Update
    <2>3. PICK latest \in LatestWith(app[a].latest, m) :
              /\ app' = [app EXCEPT ![a] = Updated(app[a], m, latest)]
              /\ inOrder' = [inOrder EXCEPT ![a] = @ /\ latest = {m}]
      BY <1>2 DEF Update
    <2>4. /\ app'[a].latest = latest /\ app'[a].manifest = m
          /\ app'[a].project = app[a].project
      <3>1. app[a] \in Rows /\ app'[a] = Updated(app[a], m, latest)
        BY <2>1, <2>3, RowShape DEF TypeOK
      <3>2. DOMAIN app[a] = {"catalog", "manifest", "latest", "config", "project", "path"}
        BY <3>1 DEF Rows
      <3>. QED  BY <3>1, <3>2 DEF Updated
    <2>5. /\ inOrder'[a] = (inOrder[a] /\ latest = {m})
          /\ owed'[a] = (IF ack THEN {} ELSE owed[a]) \cup Mounted(app[a].project, m)
      BY <1>2, <2>3 DEF Update, TypeOK
    <2>6. \A b \in Apps \ {a} : /\ app'[b] = app[b] /\ owed'[b] = owed[b]
                               /\ inOrder'[b] = inOrder[b]
      BY <1>2, <2>3 DEF Update, TypeOK
    <2>7. \A v \in owed'[a] : v[1] = app'[a].project
      <3>1. \A v \in Mounted(app[a].project, m) : v[1] = app[a].project
        BY MountedProject
      <3>. QED  BY <2>1, <2>4, <2>5, <3>1 DEF DataInv
    <2>8. ASSUME inOrder'[a]
           PROVE  /\ app'[a].latest = {app'[a].manifest}
                  /\ owed'[a] \subseteq Mounted(app'[a].project, app'[a].manifest)
      <3>1. app'[a].latest = {m}
        BY <2>4, <2>5, <2>8
      <3>2. CASE ack
        BY <3>1, <3>2, <2>4, <2>5
      <3>3. CASE ~ack
        <4>1. RemovedVolumes(cur, m) = {}
          BY <3>3, <2>2 DEF Accepts, RequiresAcknowledgement
        <4>2. owed[a] \subseteq Mounted(app[a].project, cur)
          <5>1. inOrder[a]
            BY <2>5, <2>8
          <5>2. cur = app[a].manifest /\ owed[a] \subseteq Mounted(app[a].project, app[a].manifest)
            BY <2>1, <2>2, <5>1 DEF DataInv
          <5>. QED  BY <5>2
        <4>3. owed[a] \subseteq Mounted(app[a].project, m)
          BY <4>1, <4>2, NoneRemoved
        <4>. QED  BY <3>1, <3>3, <4>3, <2>4, <2>5
      <3>. QED  BY <3>2, <3>3
    <2>9. Installed' \subseteq Installed
      BY <2>1, <2>6 DEF Installed
    <2>10. \A b, c \in Installed' : b # c => app'[b].project # app'[c].project
      <3>1. \A b \in Installed' : app'[b].project = app[b].project
        BY <2>4, <2>6 DEF Installed
      <3>. QED  BY <2>9, <3>1 DEF DataInv
    <2>11. ASSUME NEW b \in Installed'
           PROVE  /\ inOrder'[b] =>
                        /\ app'[b].latest = {app'[b].manifest}
                        /\ owed'[b] \subseteq Mounted(app'[b].project, app'[b].manifest)
                  /\ \A v \in owed'[b] : v[1] = app'[b].project
      <3>1. CASE b = a
        BY <3>1, <2>7, <2>8
      <3>2. CASE b # a
        <4>1. b \in Apps \ {a} /\ b \in Installed
          BY <3>2, <2>9 DEF Installed
        <4>. QED  BY <4>1, <2>6 DEF DataInv
      <3>. QED  BY <3>1, <3>2
    <2>. QED  BY <2>10, <2>11 DEF DataInv
  <1>3. ASSUME NEW a \in Apps, Uninstall(a)  PROVE DataInv'
    <2>1. \A b \in Installed' : /\ b \in Installed /\ app'[b] = app[b] /\ owed'[b] = owed[b]
                               /\ inOrder'[b] = inOrder[b]
      <3>1. /\ app' = [app EXCEPT ![a] = None] /\ owed' = [owed EXCEPT ![a] = {}]
            /\ inOrder' = [inOrder EXCEPT ![a] = TRUE]
        BY <1>3 DEF Uninstall
      <3>2. \A b \in Installed' : b \in Apps /\ b # a
        BY <3>1 DEF Installed, TypeOK
      <3>3. \A b \in Apps \ {a} : /\ app'[b] = app[b] /\ owed'[b] = owed[b]
                                 /\ inOrder'[b] = inOrder[b]
        BY <3>1 DEF TypeOK
      <3>. QED  BY <3>2, <3>3 DEF Installed
    <2>. QED  BY <2>1 DEF DataInv
  <1>4. CASE UNCHANGED vars
    BY <1>4 DEF vars, DataInv, Installed
  <1>. QED  BY <1>1, <1>2, <1>3, <1>4 DEF Next

\* No data is dropped without an acknowledgement while the clock orders the
\* revisions, and none is ever given to another app.
THEOREM DataIsKept == Spec => []DataKept
  <1>1. Init => DataInv
    BY DEF Init, DataInv, Installed
  <1>2. DataInv => DataKept
    <2>. SUFFICES ASSUME DataInv, NEW a \in Installed, NEW b \in Installed \ {a},
                         NEW v \in owed[a], v \in Mounted(app[b].project, app[b].manifest)
                  PROVE  FALSE
      BY DEF DataInv, DataKept
    <2>1. v[1] = app[a].project
      BY DEF DataInv
    <2>2. v[1] = app[b].project
      BY MountedProject
    <2>. QED  BY <2>1, <2>2 DEF DataInv
  <1>. QED  BY <1>1, <1>2, TypeCorrect, DataStep, PTL DEF Spec
=============================================================================
