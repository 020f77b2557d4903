------------------------- MODULE AdminSessionsProofs -------------------------
(***************************************************************************)
(* Proofs about LoginLimiter and AdminSessions, for any number of clients  *)
(* and requests: the limiter's table is bounded, there is one              *)
(* administrator and at most one session, and sessions end only by logout, *)
(* replacement or expiry.                                                  *)
(***************************************************************************)
EXTENDS AdminSessions, FiniteSetTheorems, TLAPS

\* The table: a count and a reset time for every client.
AttemptsOK == attempts \in [Clients -> [count : Nat, reset : Nat]]

LimiterInv == now \in Nat /\ AttemptsOK /\ TableBounded

\* What allow works on is well formed and no larger than the table.
LEMMA TableOK ==
  ASSUME LimiterInv
  PROVE  /\ Table \in [Clients -> [count : Nat, reset : Nat]]
         /\ Keys(Table) \subseteq Keys(attempts)
         /\ IsFiniteSet(Keys(Table)) /\ IsFiniteSet(Keys(attempts))
         /\ Cardinality(Keys(Table)) <= Cardinality(Keys(attempts))
         /\ Cardinality(Keys(Table)) \in Nat /\ Cardinality(Keys(attempts)) \in Nat
  <1>1. Table \in [Clients -> [count : Nat, reset : Nat]]
    BY DEF LimiterInv, AttemptsOK, Table, Sweep, NoEntry
  <1>2. Keys(Table) \subseteq Keys(attempts)
    BY DEF LimiterInv, AttemptsOK, Table, Sweep, NoEntry, Keys
  <1>3. IsFiniteSet(Keys(attempts))
    BY LimiterAssumption, FS_Subset DEF Keys
  <1>4. IsFiniteSet(Keys(Table)) /\ Cardinality(Keys(Table)) <= Cardinality(Keys(attempts))
    BY <1>2, <1>3, FS_Subset
  <1> QED
    BY <1>1, <1>2, <1>3, <1>4, FS_CardinalityType

\* An admitted attempt adds at most its own client, and only to a free slot.
LEMMA AdmitBounded ==
  ASSUME LimiterInv, NEW c \in Clients, Admit(c)
  PROVE  LimiterInv'
  <1> DEFINE T == Table
             E == Entry(c)
  <1>1. T \in [Clients -> [count : Nat, reset : Nat]] /\ Keys(T) \subseteq Keys(attempts)
    BY TableOK
  <1>2. E \in [count : Nat, reset : Nat]
    BY <1>1, LimiterAssumption DEF Entry, LimiterInv
  <1>3. attempts' = [T EXCEPT ![c] = [E EXCEPT !.count = @ + 1]] /\ now' = now
    BY DEF Admit
  <1> HIDE DEF T, E
  <1>4. AttemptsOK'
    BY <1>1, <1>2, <1>3 DEF AttemptsOK
  <1>5. Keys(attempts') \subseteq Keys(T) \cup {c}
    BY <1>1, <1>3 DEF Keys
  <1>6. IsFiniteSet(Keys(T)) /\ Cardinality(Keys(T)) \in Nat /\ Cardinality(Keys(T)) <= MaxKeys
    BY TableOK, LimiterAssumption DEF T, LimiterInv, TableBounded
  <1>7. CASE c \in Keys(T)
    <2>1. Keys(attempts') \subseteq Keys(T)
      BY <1>5, <1>7
    <2>2. Cardinality(Keys(attempts')) <= Cardinality(Keys(T)) /\ IsFiniteSet(Keys(attempts'))
      BY <2>1, <1>6, FS_Subset
    <2>3. Cardinality(Keys(attempts')) \in Nat
      BY <2>2, FS_CardinalityType
    <2> QED
      BY <1>3, <1>4, <1>6, <2>2, <2>3, LimiterAssumption DEF LimiterInv, TableBounded, Keys
  <1>8. CASE c \notin Keys(T)
    <2>1. Cardinality(Keys(T)) < MaxKeys
      BY <1>6, <1>8, LimiterAssumption DEF Admit, Admits, Full, T
    <2>2. IsFiniteSet(Keys(T) \cup {c}) /\ Cardinality(Keys(T) \cup {c}) = Cardinality(Keys(T)) + 1
      BY <1>6, <1>8, FS_AddElement
    <2>3. Cardinality(Keys(attempts')) <= Cardinality(Keys(T)) + 1 /\ IsFiniteSet(Keys(attempts'))
      BY <1>5, <2>2, FS_Subset
    <2>4. Cardinality(Keys(attempts')) \in Nat
      BY <2>3, FS_CardinalityType
    <2> QED
      BY <1>3, <1>4, <1>6, <2>1, <2>3, <2>4, LimiterAssumption DEF LimiterInv, TableBounded, Keys
  <1> QED
    BY <1>7, <1>8

\* A table with fewer keys is as good.
LEMMA FewerKeys ==
  ASSUME LimiterInv, AttemptsOK', now' \in Nat, Keys(attempts') \subseteq Keys(attempts)
  PROVE  LimiterInv'
  <1>1. IsFiniteSet(Keys(attempts)) /\ Cardinality(Keys(attempts)) \in Nat
    BY TableOK
  <1>2. Cardinality(Keys(attempts')) <= Cardinality(Keys(attempts)) /\ IsFiniteSet(Keys(attempts'))
    BY <1>1, FS_Subset
  <1>3. Cardinality(Keys(attempts')) \in Nat
    BY <1>2, FS_CardinalityType
  <1> QED
    BY <1>1, <1>2, <1>3, LimiterAssumption DEF LimiterInv, TableBounded, Keys

\* Every call of the limiter, every tick and every restart keeps the bound.
LEMMA LimiterStep == LimiterInv /\ [LimiterNext]_limiterVars => LimiterInv'
  <1> SUFFICES ASSUME LimiterInv, [LimiterNext]_limiterVars PROVE LimiterInv'
    OBVIOUS
  <1>1. ASSUME NEW c \in Clients, Deny(c) PROVE LimiterInv'
    BY <1>1, TableOK, FewerKeys DEF Deny, AttemptsOK, LimiterInv
  <1>2. ASSUME NEW c \in Clients, Reset(c) PROVE LimiterInv'
    <2>1. AttemptsOK' /\ Keys(attempts') \subseteq Keys(attempts)
      BY <1>2 DEF Reset, LimiterInv, AttemptsOK, NoEntry, Keys
    <2> QED
      BY <1>2, <2>1, FewerKeys DEF Reset, LimiterInv
  <1>3. CASE Tick
    <2>1. AttemptsOK' /\ Keys(attempts') \subseteq Keys(attempts)
      BY <1>3 DEF Tick, LimiterInv, AttemptsOK
    <2> QED
      BY <1>3, <2>1, FewerKeys DEF Tick, LimiterInv
  <1>4. CASE NewProcess
    <2>1. AttemptsOK' /\ Keys(attempts') \subseteq Keys(attempts)
      BY <1>4 DEF NewProcess, LimiterInv, AttemptsOK, NoEntry, Keys
    <2> QED
      BY <1>4, <2>1, FewerKeys DEF NewProcess, LimiterInv
  <1>5. CASE UNCHANGED limiterVars
    <2>1. AttemptsOK' /\ Keys(attempts') \subseteq Keys(attempts)
      BY <1>5 DEF limiterVars, LimiterInv, AttemptsOK
    <2> QED
      BY <1>5, <2>1, FewerKeys DEF limiterVars, LimiterInv
  <1> QED
    BY <1>1, <1>2, <1>3, <1>4, <1>5, AdmitBounded DEF LimiterNext

\* The limiter starts empty.
LEMMA LimiterStart == LimiterInit => LimiterInv
  <1> SUFFICES ASSUME LimiterInit PROVE LimiterInv
    OBVIOUS
  <1>1. AttemptsOK /\ Keys(attempts) = {}
    BY DEF LimiterInit, AttemptsOK, NoEntry, Keys
  <1>2. TableBounded
    BY <1>1, FS_EmptySet, LimiterAssumption DEF TableBounded
  <1>3. now \in Nat
    BY DEF LimiterInit
  <1> QED
    BY <1>1, <1>2, <1>3 DEF LimiterInv

\* The limiter's table never outgrows MaxKeys, for any limit, window and
\* number of clients.
THEOREM LimiterTableBounded == LimiterSpec => []TableBounded
  <1>1. LimiterInv => TableBounded
    BY DEF LimiterInv
  <1> QED
    BY <1>1, LimiterStart, LimiterStep, PTL DEF LimiterSpec

-----------------------------------------------------------------------------
(* Types.                                                                   *)

\* Calls of the limiter keep its types.
LEMMA LimiterTypes == LimiterTypeOK /\ [LimiterNext]_limiterVars => LimiterTypeOK'
  <1> SUFFICES ASSUME LimiterTypeOK, [LimiterNext]_limiterVars PROVE LimiterTypeOK'
    OBVIOUS
  <1> DEFINE Entries == [count : 0..LoginLimit, reset : 0..(Horizon + LoginWindow)]
  <1> USE LimiterAssumption DEF LimiterTypeOK
  <1>1. NoEntry \in Entries /\ <<>> \in Seq(0..Horizon)
    BY DEF NoEntry
  <1>2. Table \in [Clients -> Entries]
    BY <1>1 DEF Table, Sweep
  <1>3. ASSUME NEW c \in Clients, Admit(c) PROVE LimiterTypeOK'
    <2>1. Entry(c) \in Entries
      BY <1>2 DEF Entry
    <2>2. [Entry(c) EXCEPT !.count = @ + 1] \in Entries
      <3>1. Entry(c).count \in 0..LoginLimit /\ Entry(c).count < LoginLimit
        BY <1>3, <2>1 DEF Admit, Admits
      <3>2. Entry(c).count + 1 \in 0..LoginLimit
        BY <3>1
      <3> QED
        BY <2>1, <3>2
    <2>3. attempts' \in [Clients -> Entries]
      BY <1>2, <1>3, <2>2 DEF Admit
    <2>4. Append(spent[c], now) \in Seq(0..Horizon)
      OBVIOUS
    <2>5. spent' \in [Clients -> Seq(0..Horizon)]
      BY <1>3, <2>4 DEF Admit
    <2> QED
      BY <1>3, <2>3, <2>5 DEF Admit
  <1>4. ASSUME NEW c \in Clients, Deny(c) PROVE LimiterTypeOK'
    BY <1>2, <1>4 DEF Deny
  <1>5. ASSUME NEW c \in Clients, Reset(c) PROVE LimiterTypeOK'
    BY <1>1, <1>5 DEF Reset
  <1>6. CASE Tick
    BY <1>6 DEF Tick
  <1>7. CASE NewProcess
    BY <1>1, <1>7 DEF NewProcess
  <1>8. CASE UNCHANGED limiterVars
    BY <1>8 DEF limiterVars
  <1> QED
    BY <1>3, <1>4, <1>5, <1>6, <1>7, <1>8 DEF LimiterNext

\* Seen from the limiter, a step of the sessions is a call, a tick, a restart
\* or nothing.
LEMMA SessionsUseLimiter == TypeOK /\ [Next]_vars => [LimiterNext]_limiterVars
  BY DEF TypeOK, Next, vars, limiterVars, LimiterNext, Enter, Reject, Refuse, Prepare,
     BootstrapCommit, LoginCommit, Respond, BeginLogout, Logout, Authenticate, Clock, Crash

\* A session minted now expires within the range of expires_at.
LEMMA ExpiryRange ==
  ASSUME TypeOK, NEW r \in Reqs
  PROVE  stamp[r] + Lifetime \in 0..(Horizon + Lifetime) /\ stamp[r] + Lifetime # 0
  <1>1. stamp[r] \in 0..Horizon
    BY DEF TypeOK
  <1> QED
    BY <1>1, LimiterAssumption, SessionsAssumption

\* Every step of the sessions keeps the types.
LEMMA TypeStep == TypeOK /\ [Next]_vars => TypeOK'
  <1> SUFFICES ASSUME TypeOK, [Next]_vars PROVE TypeOK'
    OBVIOUS
  <1>1. LimiterTypeOK'
    BY SessionsUseLimiter, LimiterTypes DEF TypeOK
  <1> USE LimiterAssumption, SessionsAssumption
      DEF TypeOK, LimiterTypeOK, Busy, Goto, db
  <1>2. ASSUME NEW r \in Reqs, NEW k \in {"bootstrap", "login"}, Enter(r, k) PROVE TypeOK'
    BY <1>1, <1>2 DEF Enter
  <1>3. ASSUME NEW r \in Reqs, Reject(r) \/ Respond(r) PROVE TypeOK'
    BY <1>1, <1>3 DEF Reject, Respond
  <1>4. ASSUME NEW r \in Reqs, Prepare(r) PROVE TypeOK'
    BY <1>1, <1>4 DEF Prepare
  <1>5. ASSUME NEW r \in Reqs, BootstrapCommit(r) PROVE TypeOK'
    <2>1. stamp[r] + Lifetime \in 0..(Horizon + Lifetime)
      BY ExpiryRange
    <2>2. sessions' \in [Reqs -> 0..(Horizon + Lifetime)]
      BY <1>5, <2>1 DEF BootstrapCommit
    <2> QED
      BY <1>1, <1>5, <2>1, <2>2 DEF BootstrapCommit
  <1>6. ASSUME NEW r \in Reqs, LoginCommit(r) PROVE TypeOK'
    <2>1. stamp[r] + Lifetime \in 0..(Horizon + Lifetime)
      BY ExpiryRange
    <2>2. DeleteSessions(r) \in [Reqs -> 0..(Horizon + Lifetime)]
      BY DEF DeleteSessions
    <2>3. sessions' \in [Reqs -> 0..(Horizon + Lifetime)]
      BY <1>6, <2>1, <2>2 DEF LoginCommit
    <2> QED
      BY <1>1, <1>6, <2>3 DEF LoginCommit
  <1>7. ASSUME NEW r \in Reqs, BeginLogout(r) \/ Logout(r) PROVE TypeOK'
    <2>1. 0 \in 0..(Horizon + Lifetime)
      OBVIOUS
    <2>2. sessions' \in [Reqs -> 0..(Horizon + Lifetime)]
      BY <1>7, <2>1 DEF BeginLogout, Logout
    <2> QED
      BY <1>1, <1>7, <2>2 DEF BeginLogout, Logout
  <1>8. ASSUME NEW at \in 0..Horizon, Authenticate(at) PROVE TypeOK'
    <2>1. 0 \in 0..(Horizon + Lifetime)
      OBVIOUS
    <2>2. sessions' \in [Reqs -> 0..(Horizon + Lifetime)]
      BY <1>8, <2>1 DEF Authenticate, Purged
    <2> QED
      BY <1>1, <1>8, <2>2 DEF Authenticate
  <1>9. CASE Clock \/ Crash
    BY <1>1, <1>9 DEF Clock, Crash
  <1>10. CASE UNCHANGED vars
    BY <1>1, <1>10 DEF vars
  <1> QED
    BY <1>2, <1>3, <1>4, <1>5, <1>6, <1>7, <1>8, <1>9, <1>10 DEF Next

\* The initial state has the types.
LEMMA TypeStart == Init => TypeOK
  BY LimiterAssumption, SessionsAssumption
  DEF Init, LimiterInit, TypeOK, LimiterTypeOK, Busy, NoEntry

\* The variables of the sessions and of their limiter keep their types.
THEOREM TypeCorrect == Spec => []TypeOK
  BY TypeStart, TypeStep, PTL DEF Spec

-----------------------------------------------------------------------------
(* The limiter's promises.                                                  *)

\* Why a client is turned away: its own window is used up, or the sweep kept
\* a full table, and a swept table holds only windows that are still open.
LEMMA DenialReason == LimiterTypeOK => DenialJustified
  <1> SUFFICES ASSUME LimiterTypeOK, NEW c \in Clients, ~Admits(c)
               PROVE  \/ attempts[c].count >= LoginLimit /\ attempts[c].reset > now
                      \/ Cardinality({d \in Clients \ {c} : attempts[d].reset > now}) >= MaxKeys
    BY DEF DenialJustified
  <1> DEFINE Open == {d \in Clients \ {c} : attempts[d].reset > now}
  <1> USE LimiterAssumption DEF LimiterTypeOK
  <1>1. CASE Full(c)
    <2>1. Cardinality(Keys(Table)) >= MaxKeys /\ c \notin Keys(Table)
      BY <1>1 DEF Full
    <2>2. Table = Sweep(attempts)
      BY <2>1 DEF Table
    <2>3. Keys(Table) \subseteq Open
      BY <2>1, <2>2 DEF Keys, Sweep, NoEntry
    <2>4. IsFiniteSet(Open)
      BY FS_Subset
    <2>5. Cardinality(Keys(Table)) <= Cardinality(Open) /\ IsFiniteSet(Keys(Table))
      BY <2>3, <2>4, FS_Subset
    <2>6. Cardinality(Open) \in Nat /\ Cardinality(Keys(Table)) \in Nat
      BY <2>4, <2>5, FS_CardinalityType
    <2> HIDE DEF Open
    <2> QED
      BY <2>1, <2>5, <2>6 DEF Open
  <1>2. CASE ~Full(c)
    <2>1. ~(Entry(c).count < LoginLimit)
      BY <1>2 DEF Admits
    <2>2. Entry(c) = Table[c] /\ Table[c].reset > now
      BY <2>1 DEF Entry, Table, Sweep, NoEntry
    <2>3. Table[c] = attempts[c]
      BY <2>2 DEF Table, Sweep, NoEntry
    <2> QED
      BY <2>1, <2>2, <2>3
  <1> QED
    BY <1>1, <1>2

\* The attempts of a client were admitted in order, none after t.
InOrder(s, t) ==
    /\ \A i \in 1..Len(s) : s[i] <= t
    /\ \A i, j \in 1..Len(s) : i <= j => s[i] <= s[j]

\* G holds the positions in s at which a window began: windows do not overlap,
WindowsApart(G, s) == \A p, q \in G : p < q => s[p] + LoginWindow <= s[q]

\* and none holds more than LoginLimit of n attempts.
WindowsFull(G, n) ==
    \A i \in 1..n : i + LoginLimit - 1 <= n => \E p \in G : i <= p /\ p <= i + LoginLimit - 1

\* The entry e of the table describes the last window while that is open at t.
LastWindow(G, s, e, t) ==
    /\ e.reset > t => LET g == Len(s) - e.count + 1 IN
         /\ e.count \in 1..LoginLimit /\ g \in G
         /\ \A p \in G : p <= g
         /\ s[g] + LoginWindow = e.reset
    /\ e.reset <= t => \A p \in G : s[p] + LoginWindow <= t

Accounted(G, s, e, t) ==
    InOrder(s, t) /\ WindowsApart(G, s) /\ WindowsFull(G, Len(s)) /\ LastWindow(G, s, e, t)

\* What makes the bound on attempts inductive: every client's attempts fall
\* into windows.
WindowsInv ==
    \A c \in Clients :
        \E G \in SUBSET (1..Len(spent[c])) : Accounted(G, spent[c], attempts[c], now)

\* A window that ends stays accounted for.
LEMMA LaterAccounted ==
  ASSUME NEW s \in Seq(Nat), NEW G \in SUBSET (1..Len(s)), NEW t \in Nat, NEW u \in Nat, t <= u,
         NEW e \in [count : Nat, reset : Nat], Accounted(G, s, e, t)
  PROVE  Accounted(G, s, e, u)
  <1>1. \A i \in 1..Len(s) : s[i] \in Nat
    OBVIOUS
  <1>2. InOrder(s, u)
    BY <1>1 DEF Accounted, InOrder
  <1>3. ASSUME e.reset <= u, NEW p \in G PROVE s[p] + LoginWindow <= u
    <2>1. CASE e.reset <= t
      <3>1. s[p] + LoginWindow <= t /\ s[p] \in Nat
        BY <1>1, <2>1 DEF Accounted, LastWindow
      <3> QED
        BY <3>1, LimiterAssumption
    <2>2. CASE e.reset > t
      <3> DEFINE g == Len(s) - e.count + 1
      <3>1. g \in G /\ p <= g /\ s[g] + LoginWindow = e.reset
        BY <2>2 DEF Accounted, LastWindow
      <3>2. s[p] <= s[g]
        BY <3>1 DEF Accounted, InOrder
      <3>3. s[p] \in Nat /\ s[g] \in Nat
        BY <1>1, <3>1
      <3> HIDE DEF g
      <3> QED
        BY <1>3, <3>1, <3>2, <3>3, LimiterAssumption
    <2> QED
      BY <2>1, <2>2
  <1>4. LastWindow(G, s, e, u)
    BY <1>3 DEF Accounted, LastWindow
  <1> QED
    BY <1>2, <1>4 DEF Accounted

\* The sweep of an ended window changes nothing.
LEMMA SweptAccounted ==
  ASSUME NEW s \in Seq(Nat), NEW G \in SUBSET (1..Len(s)), NEW t \in Nat,
         NEW e \in [count : Nat, reset : Nat], Accounted(G, s, e, t), e.reset <= t
  PROVE  Accounted(G, s, NoEntry, t)
  BY DEF Accounted, LastWindow, NoEntry

\* Another attempt at time t.
LEMMA AppendInOrder ==
  ASSUME NEW s \in Seq(Nat), NEW t \in Nat, InOrder(s, t)
  PROVE  /\ InOrder(Append(s, t), t)
         /\ Len(Append(s, t)) = Len(s) + 1 /\ Append(s, t)[Len(s) + 1] = t
         /\ \A i \in 1..Len(s) : Append(s, t)[i] = s[i] /\ s[i] \in Nat
  <1> DEFINE r == Append(s, t)
  <1>1. /\ Len(r) = Len(s) + 1 /\ r[Len(s) + 1] = t /\ Len(s) \in Nat
        /\ \A i \in 1..Len(s) : r[i] = s[i] /\ s[i] \in Nat
    OBVIOUS
  <1> HIDE DEF r
  <1>2. ASSUME NEW i \in 1..Len(r) PROVE r[i] <= t
    <2>1. i \in 1..Len(s) \/ i = Len(s) + 1
      BY <1>1
    <2> QED
      BY <1>1, <2>1 DEF InOrder
  <1>3. ASSUME NEW i \in 1..Len(r), NEW j \in 1..Len(r), i <= j PROVE r[i] <= r[j]
    <2>1. CASE j = Len(s) + 1
      BY <1>1, <1>2, <2>1
    <2>2. CASE j # Len(s) + 1
      <3>1. i \in 1..Len(s) /\ j \in 1..Len(s)
        BY <1>1, <1>3, <2>2
      <3> QED
        BY <1>1, <1>3, <3>1 DEF InOrder
    <2> QED
      BY <2>1, <2>2
  <1>4. InOrder(r, t)
    BY <1>2, <1>3 DEF InOrder
  <1> QED
    BY <1>1, <1>4 DEF r

\* One more attempt in the open window.
LEMMA CountedAccounted ==
  ASSUME NEW s \in Seq(Nat), NEW G \in SUBSET (1..Len(s)), NEW t \in Nat,
         NEW e \in [count : Nat, reset : Nat], Accounted(G, s, e, t),
         e.reset > t, e.count < LoginLimit
  PROVE  Accounted(G, Append(s, t), [e EXCEPT !.count = @ + 1], t)
  <1> DEFINE r == Append(s, t)
             f == [e EXCEPT !.count = @ + 1]
             g == Len(s) - e.count + 1
             n == Len(s)
  <1>1. /\ InOrder(r, t) /\ Len(r) = n + 1 /\ n \in Nat
        /\ \A i \in 1..n : r[i] = s[i] /\ s[i] \in Nat
    BY AppendInOrder DEF Accounted
  <1>2. f.count = e.count + 1 /\ f.reset = e.reset /\ e.count \in Nat
    OBVIOUS
  <1>3. /\ e.count \in 1..LoginLimit /\ g \in G /\ \A p \in G : p <= g
        /\ s[g] + LoginWindow = e.reset
    BY DEF Accounted, LastWindow
  <1>4. Len(r) - f.count + 1 = g /\ g = n - e.count + 1
    BY <1>1, <1>2
  <1>5. WindowsApart(G, s) /\ WindowsFull(G, n)
    BY DEF Accounted
  <1> HIDE DEF r, f, g, n
  <1>6. \A p \in G : r[p] = s[p]
    BY <1>1 DEF n
  <1>7. WindowsApart(G, r)
    BY <1>5, <1>6 DEF WindowsApart
  <1>8. ASSUME NEW i \in 1..(n + 1), i + LoginLimit - 1 <= n + 1
        PROVE  \E p \in G : i <= p /\ p <= i + LoginLimit - 1
    <2>1. CASE i + LoginLimit - 1 <= n
      <3>1. i \in 1..n
        BY <1>1, <1>8, <2>1, LimiterAssumption
      <3> QED
        BY <1>5, <2>1, <3>1 DEF WindowsFull
    <2>2. CASE i + LoginLimit - 1 = n + 1
      <3>1. i <= g /\ g <= i + LoginLimit - 1
        BY <1>1, <1>2, <1>3, <1>4, <2>2, LimiterAssumption
      <3> QED
        BY <1>3, <3>1
    <2> QED
      BY <1>1, <1>8, <2>1, <2>2, LimiterAssumption
  <1>9. WindowsFull(G, Len(r))
    BY <1>1, <1>8 DEF WindowsFull
  <1>10. LastWindow(G, r, f, t)
    <2>1. f.count \in 1..LoginLimit
      BY <1>2, <1>3, LimiterAssumption
    <2>2. r[g] + LoginWindow = f.reset /\ ~(f.reset <= t)
      BY <1>2, <1>3, <1>6
    <2> QED
      BY <1>3, <1>4, <2>1, <2>2 DEF LastWindow
  <1> QED
    BY <1>1, <1>7, <1>9, <1>10 DEF Accounted, r, f

\* The first attempt of a new window.
LEMMA OpenedAccounted ==
  ASSUME NEW s \in Seq(Nat), NEW G \in SUBSET (1..Len(s)), NEW t \in Nat,
         NEW e \in [count : Nat, reset : Nat], Accounted(G, s, e, t), e.reset <= t
  PROVE  Accounted(G \cup {Len(s) + 1}, Append(s, t), [count |-> 1, reset |-> t + LoginWindow], t)
  <1> DEFINE r == Append(s, t)
             n == Len(s)
             H == G \cup {n + 1}
             f == [count |-> 1, reset |-> t + LoginWindow]
  <1>1. /\ InOrder(r, t) /\ Len(r) = n + 1 /\ n \in Nat /\ r[n + 1] = t
        /\ \A i \in 1..n : r[i] = s[i] /\ s[i] \in Nat
    BY AppendInOrder DEF Accounted
  <1>2. \A p \in G : s[p] + LoginWindow <= t
    BY DEF Accounted, LastWindow
  <1>3. f.count = 1 /\ f.reset = t + LoginWindow
    OBVIOUS
  <1>4. WindowsApart(G, s) /\ WindowsFull(G, n)
    BY DEF Accounted
  <1>5. \A p \in G : r[p] = s[p] /\ p \in 1..n
    BY <1>1
  <1> HIDE DEF r, f, n
  <1>6. WindowsApart(H, r)
    <2> SUFFICES ASSUME NEW p \in H, NEW q \in H, p < q PROVE r[p] + LoginWindow <= r[q]
      BY DEF WindowsApart
    <2>1. p \in G
      BY <1>1, <1>5
    <2>2. CASE q = n + 1
      BY <1>1, <1>2, <1>5, <2>1, <2>2
    <2>3. CASE q \in G
      BY <1>4, <1>5, <2>1, <2>3 DEF WindowsApart
    <2> QED
      BY <2>2, <2>3
  <1>7. ASSUME NEW i \in 1..(n + 1), i + LoginLimit - 1 <= n + 1
        PROVE  \E p \in H : i <= p /\ p <= i + LoginLimit - 1
    <2>1. CASE i + LoginLimit - 1 <= n
      <3>1. i \in 1..n
        BY <1>1, <1>7, <2>1, LimiterAssumption
      <3> QED
        BY <1>4, <2>1, <3>1 DEF WindowsFull
    <2>2. CASE i + LoginLimit - 1 = n + 1
      <3>1. i <= n + 1 /\ n + 1 <= i + LoginLimit - 1
        BY <1>1, <2>2, LimiterAssumption
      <3> QED
        BY <3>1
    <2> QED
      BY <1>1, <1>7, <2>1, <2>2, LimiterAssumption
  <1>8. WindowsFull(H, Len(r))
    BY <1>1, <1>7 DEF WindowsFull
  <1>9. LastWindow(H, r, f, t)
    <2>1. Len(r) - f.count + 1 = n + 1 /\ f.count \in 1..LoginLimit
      BY <1>1, <1>3, LimiterAssumption
    <2>2. r[n + 1] + LoginWindow = f.reset /\ ~(f.reset <= t)
      BY <1>1, <1>3, LimiterAssumption
    <2>3. \A p \in H : p <= n + 1
      BY <1>1, <1>5
    <2> QED
      BY <2>1, <2>2, <2>3 DEF LastWindow
  <1> QED
    BY <1>1, <1>6, <1>8, <1>9 DEF Accounted, r, f, n

\* A client without admitted attempts.
LEMMA NoneAccounted == ASSUME NEW t \in Nat PROVE Accounted({}, <<>>, NoEntry, t)
  BY LimiterAssumption DEF Accounted, InOrder, WindowsApart, WindowsFull, LastWindow, NoEntry

\* Twice the limit in a row reach over two starts of a window.
LEMMA AccountedBound == LimiterTypeOK /\ WindowsInv => AttemptsBounded
  <1> SUFFICES ASSUME LimiterTypeOK, WindowsInv, NEW c \in Clients, NEW i \in DOMAIN spent[c],
                      i + 2 * LoginLimit - 1 \in DOMAIN spent[c]
               PROVE  spent[c][i] + LoginWindow <= spent[c][i + 2 * LoginLimit - 1]
    BY DEF AttemptsBounded
  <1> DEFINE s == spent[c]
             m == i + LoginLimit
             k == i + 2 * LoginLimit - 1
  <1>1. s \in Seq(Nat) /\ Len(s) \in Nat /\ DOMAIN s = 1..Len(s) /\ \A j \in 1..Len(s) : s[j] \in Nat
    BY LimiterAssumption DEF LimiterTypeOK
  <1>2. PICK G \in SUBSET (1..Len(s)) : Accounted(G, s, attempts[c], now)
    BY DEF WindowsInv
  <1>3. i \in 1..Len(s) /\ k \in 1..Len(s)
    BY <1>1
  <1> SUFFICES s[i] + LoginWindow <= s[k]
    OBVIOUS
  <1> HIDE DEF s
  <1>4. m \in 1..Len(s) /\ i + LoginLimit - 1 <= Len(s)
        /\ m + LoginLimit - 1 = k /\ m + LoginLimit - 1 <= Len(s)
    BY <1>1, <1>3, LimiterAssumption
  <1>5. InOrder(s, now) /\ WindowsApart(G, s) /\ WindowsFull(G, Len(s))
    BY <1>2 DEF Accounted
  <1>6. PICK p \in G : i <= p /\ p <= i + LoginLimit - 1
    BY <1>3, <1>4, <1>5 DEF WindowsFull
  <1>7. PICK q \in G : m <= q /\ q <= k
    BY <1>4, <1>5 DEF WindowsFull
  <1>8. p \in 1..Len(s) /\ q \in 1..Len(s) /\ p < q
    BY <1>3, <1>6, <1>7, LimiterAssumption
  <1> HIDE DEF k, m
  <1>9. s[p] + LoginWindow <= s[q]
    BY <1>5, <1>8 DEF WindowsApart
  <1>10. s[i] <= s[p] /\ s[q] <= s[k]
    BY <1>3, <1>5, <1>6, <1>7, <1>8 DEF InOrder
  <1>11. s[i] \in Nat /\ s[p] \in Nat /\ s[q] \in Nat /\ s[k] \in Nat
    BY <1>1, <1>3, <1>8
  <1> QED
    BY <1>9, <1>10, <1>11, LimiterAssumption

\* Every call of the limiter keeps the attempts in windows.
LEMMA WindowsStep ==
  ASSUME LimiterTypeOK, WindowsInv, [LimiterNext]_limiterVars
  PROVE  WindowsInv'
  <1>1. LimiterTypeOK'
    BY LimiterTypes
  <1>2. /\ now \in Nat /\ now' \in Nat
        /\ \A c \in Clients : spent[c] \in Seq(Nat) /\ attempts[c] \in [count : Nat, reset : Nat]
    BY <1>1, LimiterAssumption DEF LimiterTypeOK
  <1>3. ASSUME NEW c \in Clients
        PROVE  \E G \in SUBSET (1..Len(spent[c])) : Accounted(G, spent[c], Table[c], now)
    <2>1. PICK G \in SUBSET (1..Len(spent[c])) : Accounted(G, spent[c], attempts[c], now)
      BY DEF WindowsInv
    <2>2. Table[c] = attempts[c] \/ (Table[c] = NoEntry /\ attempts[c].reset <= now)
      <3>1. Sweep(attempts)[c] = IF attempts[c].reset <= now THEN NoEntry ELSE attempts[c]
        BY DEF Sweep
      <3>2. Table[c] = attempts[c] \/ Table[c] = Sweep(attempts)[c]
        BY DEF Table
      <3>3. CASE attempts[c].reset <= now
        BY <3>1, <3>2, <3>3
      <3>4. CASE ~(attempts[c].reset <= now)
        BY <3>1, <3>2, <3>4
      <3> QED
        BY <3>3, <3>4
    <2> QED
      BY <1>2, <2>1, <2>2, SweptAccounted
  <1>4. Table \in [Clients -> [count : Nat, reset : Nat]]
    BY LimiterAssumption DEF LimiterTypeOK, Table, Sweep, NoEntry
  <1>5. ASSUME NEW c \in Clients, Admit(c) PROVE WindowsInv'
    <2>1. /\ attempts' = [Table EXCEPT ![c] = [Entry(c) EXCEPT !.count = @ + 1]]
          /\ spent' = [spent EXCEPT ![c] = Append(@, now)] /\ now' = now
          /\ Entry(c).count < LoginLimit
      BY <1>5 DEF Admit, Admits
    <2>2. ASSUME NEW d \in Clients, d # c
          PROVE  \E G \in SUBSET (1..Len(spent'[d])) : Accounted(G, spent'[d], attempts'[d], now')
      <3>1. spent'[d] = spent[d] /\ attempts'[d] = Table[d]
        BY <1>4, <2>1, <2>2 DEF LimiterTypeOK
      <3> QED
        BY <1>3, <2>1, <3>1
    <2>3. \E G \in SUBSET (1..Len(spent'[c])) : Accounted(G, spent'[c], attempts'[c], now')
      <3>1. spent'[c] = Append(spent[c], now) /\ Len(spent'[c]) = Len(spent[c]) + 1
            /\ Len(spent[c]) \in Nat
        BY <1>2, <2>1 DEF LimiterTypeOK
      <3>2. attempts'[c] = [Entry(c) EXCEPT !.count = @ + 1]
        BY <1>4, <2>1
      <3>3. PICK G \in SUBSET (1..Len(spent[c])) : Accounted(G, spent[c], Table[c], now)
        BY <1>3
      <3>4. CASE Table[c].reset <= now
        <4>1. attempts'[c] = [count |-> 1, reset |-> now + LoginWindow]
          BY <3>2, <3>4 DEF Entry
        <4>2. Accounted(G \cup {Len(spent[c]) + 1}, Append(spent[c], now),
                        [count |-> 1, reset |-> now + LoginWindow], now)
          BY <1>2, <1>4, <3>3, <3>4, OpenedAccounted
        <4>3. Accounted(G \cup {Len(spent[c]) + 1}, spent'[c], attempts'[c], now')
          BY <2>1, <3>1, <4>1, <4>2
        <4>4. 1..Len(spent[c]) \subseteq 1..(Len(spent[c]) + 1)
              /\ Len(spent[c]) + 1 \in 1..(Len(spent[c]) + 1)
          BY <3>1
        <4>5. G \cup {Len(spent[c]) + 1} \in SUBSET (1..Len(spent'[c]))
          BY <3>1, <4>4
        <4> QED
          BY <4>3, <4>5
      <3>5. CASE Table[c].reset > now
        <4>1. Entry(c) = Table[c]
          BY <1>2, <1>4, <3>5 DEF Entry
        <4>2. Accounted(G, Append(spent[c], now), [Table[c] EXCEPT !.count = @ + 1], now)
          BY <1>2, <1>4, <2>1, <3>3, <3>5, <4>1, CountedAccounted
        <4>3. Accounted(G, spent'[c], attempts'[c], now')
          BY <2>1, <3>1, <3>2, <4>1, <4>2
        <4>4. 1..Len(spent[c]) \subseteq 1..(Len(spent[c]) + 1)
          BY <3>1
        <4>5. G \in SUBSET (1..Len(spent'[c]))
          BY <3>1, <4>4
        <4> QED
          BY <4>3, <4>5
      <3> QED
        BY <1>2, <1>4, <3>4, <3>5
    <2> QED
      BY <2>2, <2>3 DEF WindowsInv
  <1>6. ASSUME NEW c \in Clients, Deny(c) PROVE WindowsInv'
    <2>1. attempts' = Table /\ spent' = spent /\ now' = now
      BY <1>6 DEF Deny
    <2> QED
      BY <1>3, <2>1 DEF WindowsInv
  <1>7. ASSUME NEW d \in Clients, spent'[d] = <<>>, attempts'[d] = NoEntry
        PROVE  \E G \in SUBSET (1..Len(spent'[d])) : Accounted(G, spent'[d], attempts'[d], now')
    BY <1>2, <1>7, NoneAccounted
  <1>8. ASSUME NEW c \in Clients, Reset(c) PROVE WindowsInv'
    <2>1. /\ spent'[c] = <<>> /\ attempts'[c] = NoEntry /\ now' = now
          /\ \A d \in Clients : d # c => spent'[d] = spent[d] /\ attempts'[d] = attempts[d]
      BY <1>8 DEF Reset, LimiterTypeOK
    <2> QED
      BY <1>7, <2>1 DEF WindowsInv
  <1>9. CASE Tick
    <2>1. now <= now' /\ attempts' = attempts /\ spent' = spent
      BY <1>2, <1>9 DEF Tick
    <2> QED
      BY <1>2, <2>1, LaterAccounted DEF WindowsInv
  <1>10. CASE NewProcess
    <2>1. \A d \in Clients : spent'[d] = <<>> /\ attempts'[d] = NoEntry
      BY <1>10 DEF NewProcess
    <2> QED
      BY <1>7, <2>1 DEF WindowsInv
  <1>11. CASE UNCHANGED limiterVars
    BY <1>11 DEF limiterVars, WindowsInv
  <1> QED
    BY <1>5, <1>6, <1>8, <1>9, <1>10, <1>11 DEF LimiterNext

\* No attempt has been made yet.
LEMMA WindowsStart == LimiterInit => WindowsInv
  <1> SUFFICES ASSUME LimiterInit, NEW c \in Clients
               PROVE  \E G \in SUBSET (1..Len(spent[c])) : Accounted(G, spent[c], attempts[c], now)
    BY DEF WindowsInv
  <1>1. spent[c] = <<>> /\ attempts[c] = NoEntry /\ now \in Nat
    BY DEF LimiterInit
  <1> QED
    BY <1>1, NoneAccounted

\* The limiter never turns a client away because of windows that have ended,
\* whatever other clients do to the table.
THEOREM DenialsAreJustified == Spec => []DenialJustified
  <1>1. TypeOK => DenialJustified
    BY DenialReason DEF TypeOK
  <1> QED
    BY <1>1, TypeStart, TypeStep, PTL DEF Spec

\* However bootstraps and logins come in, fewer than twice the limit of one
\* client's attempts get through within a window's length.
THEOREM AttemptsStayBounded == Spec => []AttemptsBounded
  <1>1. Init => TypeOK /\ WindowsInv
    BY TypeStart, WindowsStart DEF Init
  <1>2. TypeOK /\ WindowsInv /\ [Next]_vars => (TypeOK /\ WindowsInv)'
    BY TypeStep, SessionsUseLimiter, WindowsStep DEF TypeOK
  <1>3. TypeOK /\ WindowsInv => AttemptsBounded
    BY AccountedBound DEF TypeOK
  <1> QED
    BY <1>1, <1>2, <1>3, PTL DEF Spec

-----------------------------------------------------------------------------
(* Sessions.                                                                *)

\* What a login in progress relies on: an administrator it has verified
\* against stays.
SessionInv ==
    /\ AtMostOneSession
    /\ SessionNeedsAdmin
    /\ \A r \in Reqs : pc[r] = "verified" => admin # NoAdmin

\* Every step keeps the session invariant.
LEMMA SessionStep == TypeOK /\ SessionInv /\ [Next]_vars => SessionInv'
  <1> SUFFICES ASSUME TypeOK, SessionInv, [Next]_vars PROVE SessionInv'
    OBVIOUS
  <1> USE LimiterAssumption, SessionsAssumption
      DEF TypeOK, LimiterTypeOK, Goto, db, SessionInv, AtMostOneSession, SessionNeedsAdmin
  <1>1. ASSUME NEW r \in Reqs, NEW k \in {"bootstrap", "login"}, Enter(r, k) PROVE SessionInv'
    BY <1>1 DEF Enter
  <1>2. ASSUME NEW r \in Reqs, Reject(r) \/ Respond(r) PROVE SessionInv'
    BY <1>2 DEF Reject, Respond
  <1>3. ASSUME NEW r \in Reqs, Prepare(r) PROVE SessionInv'
    BY <1>3 DEF Prepare
  <1>4. ASSUME NEW r \in Reqs, BootstrapCommit(r) PROVE SessionInv'
    <2>1. CASE pc' = [pc EXCEPT ![r] = "done"] /\ UNCHANGED db
      BY <2>1
    <2>2. CASE /\ InsertAdmin /\ admin' = r
               /\ sessions' = [sessions EXCEPT ![r] = stamp[r] + Lifetime]
               /\ pc' = [pc EXCEPT ![r] = "issued"]
      <3>1. \A t \in Reqs : sessions[t] = 0
        BY <2>2 DEF InsertAdmin
      <3>2. \A t \in Reqs \ {r} : sessions'[t] = 0
        BY <2>2, <3>1
      <3> QED
        BY <2>2, <3>2
    <2> QED
      BY <1>4, <2>1, <2>2 DEF BootstrapCommit
  <1>5. ASSUME NEW r \in Reqs, LoginCommit(r) PROVE SessionInv'
    <2>1. CASE UNCHANGED sessions
      BY <1>5, <2>1 DEF LoginCommit
    <2>2. CASE sessions' = [DeleteSessions(r) EXCEPT ![r] = stamp[r] + Lifetime]
      <3>1. \A t \in Reqs \ {r} : sessions'[t] = 0
        BY <2>2 DEF DeleteSessions
      <3>2. admin # NoAdmin /\ admin' = admin
        BY <1>5 DEF LoginCommit
      <3>3. \A q \in Reqs : pc'[q] = "verified" => pc[q] = "verified"
        BY <1>5 DEF LoginCommit
      <3> QED
        BY <3>1, <3>2, <3>3
    <2> QED
      BY <1>5, <2>1, <2>2 DEF LoginCommit
  <1>6. ASSUME NEW r \in Reqs, BeginLogout(r) \/ Logout(r) PROVE SessionInv'
    BY <1>6 DEF BeginLogout, Logout
  <1>7. ASSUME NEW at \in 0..Horizon, Authenticate(at) PROVE SessionInv'
    <2>1. \A t \in Reqs : sessions'[t] # 0 => sessions[t] # 0
      BY <1>7 DEF Authenticate, Purged
    <2> QED
      BY <1>7, <2>1 DEF Authenticate
  <1>8. CASE Clock \/ Crash
    BY <1>8 DEF Clock, Crash
  <1>9. CASE UNCHANGED vars
    BY <1>9 DEF vars
  <1> QED
    BY <1>1, <1>2, <1>3, <1>4, <1>5, <1>6, <1>7, <1>8, <1>9 DEF Next

\* At most one session exists, however many bootstraps and logins race.
THEOREM OneSession == Spec => []AtMostOneSession
  <1>1. Init => SessionInv
    BY DEF Init, SessionInv, AtMostOneSession, SessionNeedsAdmin
  <1>2. SessionInv => AtMostOneSession
    BY DEF SessionInv
  <1> QED
    BY <1>1, <1>2, SessionStep, TypeCorrect, PTL DEF Spec

\* Once created, the administrator is never replaced.
THEOREM OneAdmin == Spec => AdminIsFixed
  <1>1. [Next]_vars => [admin # NoAdmin => admin' = admin]_vars
    BY DEF Next, vars, db, Enter, Reject, Prepare, BootstrapCommit, InsertAdmin, LoginCommit,
       Respond, BeginLogout, Logout, Authenticate, Clock, Crash
  <1> QED
    BY <1>1, PTL DEF Spec, AdminIsFixed

\* A step ends a session that has not expired only by its logout or by
\* replacing it.
LEMMA EndStep ==
  ASSUME TypeOK, SessionInv, [Next]_vars, NEW t \in Reqs, Valid(t), sessions'[t] = 0
  PROVE  t \in leaving \/ \E u \in Reqs : sessions[u] = 0 /\ sessions'[u] # 0
  <1> USE LimiterAssumption, SessionsAssumption DEF TypeOK, LimiterTypeOK, Valid, db
  <1>1. sessions[t] # 0 /\ sessions[t] \in Nat /\ now \in Nat
    OBVIOUS
  <1>2. CASE sessions' = sessions
    BY <1>1, <1>2
  <1>3. ASSUME NEW r \in Reqs, BootstrapCommit(r), sessions' # sessions PROVE FALSE
    BY <1>1, <1>3 DEF BootstrapCommit, InsertAdmin, SessionInv, SessionNeedsAdmin
  <1>4. ASSUME NEW r \in Reqs, LoginCommit(r), sessions' # sessions
        PROVE \E u \in Reqs : sessions[u] = 0 /\ sessions'[u] # 0
    <2>1. sessions' = [DeleteSessions(r) EXCEPT ![r] = stamp[r] + Lifetime]
      BY <1>4 DEF LoginCommit
    <2>2. sessions'[r] = stamp[r] + Lifetime
      BY <2>1 DEF DeleteSessions
    <2>3. sessions'[r] # 0 /\ r # t
      BY <2>2, ExpiryRange
    <2>4. sessions[r] = 0
      BY <1>1, <2>3 DEF SessionInv, AtMostOneSession
    <2> QED
      BY <2>3, <2>4
  <1>5. ASSUME NEW r \in Reqs, Logout(r), sessions' # sessions PROVE t \in leaving
    BY <1>1, <1>5 DEF Logout
  <1>6. ASSUME NEW at \in 0..Horizon, Authenticate(at) PROVE FALSE
    BY <1>1, <1>6 DEF Authenticate, Purged
  <1> QED
    BY <1>2, <1>3, <1>4, <1>5, <1>6
    DEF Next, vars, Enter, Reject, Prepare, Respond, BeginLogout, Clock, Crash

\* A session that has not expired ends only by its own logout or because a
\* login replaces it.
THEOREM SessionsEndProperly == Spec => OnlyLoginOrLogoutEnds
  <1>1. Init => SessionInv
    BY DEF Init, SessionInv, AtMostOneSession, SessionNeedsAdmin
  <1>2. TypeOK /\ SessionInv /\ [Next]_vars
          => [\A t \in Reqs : Valid(t) /\ sessions'[t] = 0
                => t \in leaving \/ \E u \in Reqs : sessions[u] = 0 /\ sessions'[u] # 0]_vars
    BY EndStep
  <1> QED
    BY <1>1, <1>2, SessionStep, TypeCorrect, PTL DEF Spec, OnlyLoginOrLogoutEnds

\* The handlers of the sessions use the limiter as it is specified, so its
\* table stays bounded under them too.
THEOREM SessionsImplementLimiter == Spec => LimiterSpec /\ []TableBounded
  <1>1. Init => LimiterInit
    BY DEF Init
  <1>2. Spec => LimiterSpec
    BY <1>1, SessionsUseLimiter, TypeCorrect, PTL DEF Spec, LimiterSpec
  <1> QED
    BY <1>2, LimiterTableBounded, PTL
=============================================================================
