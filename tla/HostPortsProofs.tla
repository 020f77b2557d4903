--------------------------- MODULE HostPortsProofs ---------------------------
(***************************************************************************)
(* Proofs about HostPorts, for any number of installs, endpoints and       *)
(* ports: reservations never leak, and they keep installs apart as long as *)
(* no two of them choose at the same time.                                 *)
(***************************************************************************)
EXTENDS HostPorts, TLAPS

\* Every step of an install keeps the types.
LEMMA TypeStep == TypeOK /\ [Next]_vars => TypeOK'
  <1> SUFFICES ASSUME TypeOK, [Next]_vars PROVE TypeOK'
    OBVIOUS
  <1> USE PortsAssumption DEF TypeOK, InFlight, Rest, NoPorts, Goto
  <1>1. ASSUME NEW i \in Installs, BeginHostPorts(i) PROVE TypeOK'
    BY <1>1 DEF BeginHostPorts
  <1>2. ASSUME NEW i \in Installs, Probe(i) PROVE TypeOK'
    <2>1. tries[i] + 1 \in 0..Attempts
      BY <1>2 DEF Probe, MayTry
    <2> QED
      BY <1>2, <2>1 DEF Probe
  <1>3. ASSUME NEW i \in Installs, Test(i) PROVE TypeOK'
    <2>1. CASE isReserved(probe[i])
      BY <1>3, <2>1 DEF Test
    <2>2. CASE ~isReserved(probe[i])
      <3>1. PICK e \in Endpoints : ports' = [ports EXCEPT ![i][e] = probe[i]]
        BY <1>3, <2>2 DEF Test
      <3>2. ports' \in [Installs -> [Endpoints -> Ports \cup {NoPort}]]
        BY <3>1
      <3> QED
        BY <1>3, <2>2, <3>2 DEF Test
    <2> QED
      BY <2>1, <2>2
  <1>4. ASSUME NEW i \in Installs, GiveUp(i) PROVE TypeOK'
    BY <1>4 DEF GiveUp
  <1>5. ASSUME NEW i \in Installs, ReserveHostPorts(i) PROVE TypeOK'
    <2>1. Values(i) \subseteq Ports
      BY DEF Values
    <2> QED
      BY <1>5, <2>1 DEF ReserveHostPorts
  <1>6. ASSUME NEW i \in Installs, Refuse(i) PROVE TypeOK'
    BY <1>6 DEF Refuse, ReleaseHostPorts
  <1>7. ASSUME NEW i \in Installs, Spawn(i) PROVE TypeOK'
    BY <1>7 DEF Spawn
  <1>8. ASSUME NEW i \in Installs, ComposeUp(i) PROVE TypeOK'
    BY <1>8 DEF ComposeUp, Values
  <1>9. ASSUME NEW i \in Installs, Cleanup(i) PROVE TypeOK'
    BY <1>9 DEF Cleanup, ReleaseHostPorts
  <1>10. ASSUME NEW i \in Installs, Stop(i) \/ Restart(i) PROVE TypeOK'
    <2>1. CASE Stop(i)
      BY <2>1 DEF Stop
    <2>2. CASE Restart(i)
      BY <2>2 DEF Restart, Values
    <2> QED
      BY <1>10, <2>1, <2>2
  <1>11. ASSUME NEW p \in Ports, OtherProcess(p) PROVE TypeOK'
    BY <1>11 DEF OtherProcess
  <1>12. CASE Crash
    <2>1. pc' \in [Installs -> InFlight \cup Rest \cup {"choosing"}]
      BY <1>12 DEF Crash
    <2>2. ports' \in [Installs -> [Endpoints -> Ports \cup {NoPort}]]
      BY <1>12 DEF Crash
    <2>3. tries' \in [Installs -> 0..Attempts]
      BY <1>12 DEF Crash
    <2> QED
      BY <1>12, <2>1, <2>2, <2>3 DEF Crash
  <1>13. CASE UNCHANGED vars
    BY <1>13 DEF vars
  <1> QED
    BY <1>1, <1>2, <1>3, <1>4, <1>5, <1>6, <1>7, <1>8, <1>9, <1>10, <1>11, <1>12, <1>13
    DEF Next, Step

\* The initial state has the types.
LEMMA TypeCorrectInit == Init => TypeOK
  <1> SUFFICES ASSUME Init PROVE TypeOK
    OBVIOUS
  <1>1. tries \in [Installs -> 0..Attempts]
    BY PortsAssumption DEF Init
  <1>2. ports \in [Installs -> [Endpoints -> Ports \cup {NoPort}]]
    BY DEF Init, NoPorts
  <1>3. pc \in [Installs -> InFlight \cup Rest \cup {"choosing"}]
    BY DEF Init, InFlight, Rest
  <1>4. bound \in [Installs -> SUBSET Ports] /\ probe \in [Installs -> Ports \cup {NoPort}]
    BY DEF Init
  <1> QED
    BY <1>1, <1>2, <1>3, <1>4 DEF Init, TypeOK

\* The variables of HostPorts always have their types.
THEOREM TypeCorrect == Spec => []TypeOK
  BY TypeCorrectInit, TypeStep, PTL DEF Spec

-----------------------------------------------------------------------------
\* A step that leaves the reservations alone, and the maps of the installs in
\* flight, leaks nothing.
LEMMA LeakFrame ==
  ASSUME NoReservationLeak, reserved' = reserved,
         \A j \in Installs : pc[j] \in InFlight => pc'[j] \in InFlight /\ ports'[j] = ports[j]
  PROVE  NoReservationLeak'
  <1>1. \A j \in Installs : pc[j] \in InFlight => Values(j)' = Values(j)
    BY DEF Values
  <1> QED
    BY <1>1 DEF NoReservationLeak

\* Releasing the ports of an install that leaves leaks nothing.
LEMMA LeakRelease ==
  ASSUME NoReservationLeak, NEW i \in Installs, reserved' = reserved \ Values(i),
         \A j \in Installs \ {i} :
            pc[j] \in InFlight => pc'[j] \in InFlight /\ ports'[j] = ports[j]
  PROVE  NoReservationLeak'
  <1>1. \A j \in Installs \ {i} : pc[j] \in InFlight => Values(j)' = Values(j)
    BY DEF Values
  <1> QED
    BY <1>1 DEF NoReservationLeak

\* No step leaks a reservation.
LEMMA LeakStep == TypeOK /\ NoReservationLeak /\ [Next]_vars => NoReservationLeak'
  <1> SUFFICES ASSUME TypeOK, NoReservationLeak, [Next]_vars PROVE NoReservationLeak'
    OBVIOUS
  <1> USE DEF TypeOK, InFlight, Goto
  <1>1. ASSUME NEW i \in Installs, BeginHostPorts(i) \/ Probe(i) \/ GiveUp(i) \/ Spawn(i)
                                     \/ ComposeUp(i) \/ Stop(i) \/ Restart(i)
        PROVE NoReservationLeak'
    BY <1>1, LeakFrame
    DEF BeginHostPorts, Probe, GiveUp, Spawn, ComposeUp, Stop, Restart
  <1>2. ASSUME NEW i \in Installs, Test(i) PROVE NoReservationLeak'
    <2>1. \A j \in Installs : pc[j] \in InFlight => ports'[j] = ports[j]
      BY <1>2 DEF Test
    <2> QED
      BY <1>2, <2>1, LeakFrame DEF Test
  <1>3. ASSUME NEW i \in Installs, ReserveHostPorts(i) PROVE NoReservationLeak'
    <2>1. \A j \in Installs : Values(j)' = Values(j)
      BY <1>3 DEF ReserveHostPorts, Values
    <2> QED
      BY <1>3, <2>1 DEF ReserveHostPorts, NoReservationLeak
  <1>4. ASSUME NEW i \in Installs, Refuse(i) \/ Cleanup(i) PROVE NoReservationLeak'
    BY <1>4, LeakRelease DEF Refuse, Cleanup, ReleaseHostPorts
  <1>5. ASSUME NEW p \in Ports, OtherProcess(p) PROVE NoReservationLeak'
    BY <1>5, LeakFrame DEF OtherProcess
  <1>6. CASE Crash
    BY <1>6 DEF Crash, NoReservationLeak
  <1>7. CASE UNCHANGED vars
    BY <1>7, LeakFrame DEF vars
  <1> QED
    BY <1>1, <1>2, <1>3, <1>4, <1>5, <1>6, <1>7 DEF Next, Step

\* Reservations never leak, on any path of any number of installs.
THEOREM NoLeak == Spec => []NoReservationLeak
  <1>1. Init => NoReservationLeak
    BY DEF Init, NoReservationLeak
  <1> QED
    BY <1>1, LeakStep, TypeCorrect, PTL DEF Spec

-----------------------------------------------------------------------------
(* Reservations keep installs apart, provided manifests fix no port of the  *)
(* range the kernel allocates from.                                         *)

Holding(i) == pc[i] \in InFlight \cup {"choosing"}

\* Where ports come from: an install in progress has the manifest's fixed
\* ports, and allocated ones from the ephemeral range.
OriginInv ==
    /\ \A i \in Installs : probe[i] \in Ephemeral \cup {NoPort}
    /\ \A i \in Installs, e \in Endpoints :
         Holding(i) => IF Fixed[i][e] # NoPort THEN ports[i][e] = Fixed[i][e]
                       ELSE ports[i][e] \in Ephemeral \cup {NoPort}

\* Without a race there is one chooser, installs in flight have reserved what
\* they hold, and nobody holds an allocated port of theirs.
ApartInv ==
    ~raced =>
      /\ \A i, j \in Installs : pc[i] = "choosing" /\ pc[j] = "choosing" => i = j
      /\ \A i \in Installs : pc[i] \in InFlight => Allocated(i) \subseteq reserved
      /\ \A i, j \in Installs :
           pc[i] \in InFlight /\ Holding(j) /\ i # j => Allocated(i) \cap Allocated(j) = {}

ClashInv == TypeOK /\ OriginInv /\ ApartInv

FixedOutside == \A i \in Installs, e \in Endpoints : Fixed[i][e] \notin Ephemeral

\* Every step keeps track of where ports come from.
LEMMA OriginStep == TypeOK /\ OriginInv /\ [Next]_vars => OriginInv'
  <1> SUFFICES ASSUME TypeOK, OriginInv, [Next]_vars PROVE OriginInv'
    OBVIOUS
  <1> USE PortsAssumption DEF TypeOK, OriginInv, Holding, InFlight, Goto
  <1>1. ASSUME NEW i \in Installs, BeginHostPorts(i) PROVE OriginInv'
    BY <1>1 DEF BeginHostPorts
  <1>2. ASSUME NEW i \in Installs, Probe(i) PROVE OriginInv'
    BY <1>2 DEF Probe
  <1>3. ASSUME NEW i \in Installs, Test(i) PROVE OriginInv'
    <2>1. CASE isReserved(probe[i])
      BY <1>3, <2>1 DEF Test
    <2>2. CASE ~isReserved(probe[i])
      <3>1. PICK e \in Endpoints : /\ ports[i][e] = NoPort
                                  /\ ports' = [ports EXCEPT ![i][e] = probe[i]]
        BY <1>3, <2>2 DEF Test
      <3>2. Fixed[i][e] = NoPort
        BY <1>3, <3>1 DEF Test
      <3>3. \A j \in Installs, x \in Endpoints :
              ports'[j][x] = IF j = i /\ x = e THEN probe[i] ELSE ports[j][x]
        BY <3>1
      <3>4. probe' = [probe EXCEPT ![i] = NoPort] /\ pc' = pc /\ probe[i] # NoPort
        BY <1>3 DEF Test
      <3>5. \A j \in Installs : probe'[j] \in Ephemeral \cup {NoPort}
        BY <3>4
      <3>6. ASSUME NEW j \in Installs, NEW x \in Endpoints, Holding(j)'
            PROVE  IF Fixed[j][x] # NoPort THEN ports'[j][x] = Fixed[j][x]
                   ELSE ports'[j][x] \in Ephemeral \cup {NoPort}
        <4>1. Holding(j)
          BY <3>4, <3>6
        <4> QED
          BY <3>2, <3>3, <4>1
      <3> QED
        BY <3>5, <3>6
    <2> QED
      BY <2>1, <2>2
  <1>4. ASSUME NEW i \in Installs, GiveUp(i) \/ Refuse(i) PROVE OriginInv'
    BY <1>4 DEF GiveUp, Refuse
  <1>5. ASSUME NEW i \in Installs, ReserveHostPorts(i) \/ Spawn(i) \/ ComposeUp(i)
                                     \/ Cleanup(i) \/ Stop(i) \/ Restart(i)
        PROVE OriginInv'
    BY <1>5 DEF ReserveHostPorts, Spawn, ComposeUp, Cleanup, Stop, Restart
  <1>6. ASSUME NEW p \in Ports, OtherProcess(p) PROVE OriginInv'
    BY <1>6 DEF OtherProcess
  <1>7. CASE Crash
    BY <1>7 DEF Crash
  <1>8. CASE UNCHANGED vars
    BY <1>8 DEF vars
  <1> QED
    BY <1>1, <1>2, <1>3, <1>4, <1>5, <1>6, <1>7, <1>8 DEF Next, Step

\* A step that starts or ends no choosing, and leaves maps and reservations of
\* the installs in progress alone, keeps them apart.
LEMMA ApartFrame ==
  ASSUME ApartInv, reserved' = reserved, raced' = raced,
         \A j \in Installs : /\ pc'[j] = "choosing" => pc[j] = "choosing"
                             /\ pc'[j] \in InFlight => pc[j] \in InFlight
                             /\ Holding(j)' => ports'[j] = ports[j]
  PROVE  ApartInv'
  <1>1. \A j \in Installs : Holding(j)' => Allocated(j)' = Allocated(j)
    BY DEF Allocated
  <1> QED
    BY <1>1 DEF ApartInv, Holding, InFlight

\* Releasing one install's ports does not touch what the others hold.
LEMMA ApartRelease ==
  ASSUME FixedOutside, ClashInv, NEW i \in Installs, pc[i] \in InFlight,
         reserved' = reserved \ Values(i), raced' = raced,
         pc'[i] \in Rest,
         \A j \in Installs \ {i} : pc'[j] = pc[j] /\ ports'[j] = ports[j]
  PROVE  ApartInv'
  <1>1. \A j \in Installs \ {i} : Allocated(j)' = Allocated(j) /\ Holding(j)' = Holding(j)
    BY DEF Allocated, Holding
  <1>2. ~Holding(i)' /\ Holding(i)
    BY DEF Holding, Rest, InFlight
  <1>3. ASSUME ~raced, NEW j \in Installs \ {i}, pc[j] \in InFlight
        PROVE Allocated(j) \subseteq reserved'
    <2>1. Allocated(j) \cap Allocated(i) = {} /\ Allocated(j) \subseteq reserved
      BY <1>2, <1>3 DEF ClashInv, ApartInv
    <2>2. \A e \in Endpoints : Fixed[i][e] # NoPort => ports[i][e] \notin Ephemeral
      BY <1>2 DEF ClashInv, OriginInv, FixedOutside
    <2>3. Allocated(j) \subseteq Ephemeral
      BY <1>3 DEF ClashInv, OriginInv, Allocated, Holding
    <2>4. Values(i) \cap Allocated(j) \subseteq Allocated(i)
      BY <2>2, <2>3 DEF Values, Allocated
    <2> QED
      BY <2>1, <2>4
  <1> QED
    BY <1>1, <1>2, <1>3 DEF ClashInv, ApartInv, Holding, InFlight, Rest

\* Every step keeps installs apart until two of them choose at once.
LEMMA ApartStep == FixedOutside /\ ClashInv /\ [Next]_vars => ApartInv'
  <1> SUFFICES ASSUME FixedOutside, ClashInv, [Next]_vars PROVE ApartInv'
    OBVIOUS
  <1> USE PortsAssumption DEF ClashInv, TypeOK, InFlight, Goto
  <1>1. ASSUME NEW i \in Installs, BeginHostPorts(i) PROVE ApartInv'
    <2> SUFFICES ASSUME ~raced' PROVE ApartInv'
      BY DEF ApartInv
    <2>1. ~raced /\ (\A j \in Installs : pc[j] # "choosing")
      BY <1>1 DEF BeginHostPorts
    <2>2. pc'[i] = "choosing" /\ \A j \in Installs \ {i} : pc'[j] = pc[j] /\ ports'[j] = ports[j]
      BY <1>1 DEF BeginHostPorts
    <2>3. Allocated(i)' = {}
      BY <1>1 DEF BeginHostPorts, Allocated
    <2>4. \A j \in Installs \ {i} : Allocated(j)' = Allocated(j)
      BY <2>2 DEF Allocated
    <2>5. reserved' = reserved
      BY <1>1 DEF BeginHostPorts
    <2> QED
      BY <2>1, <2>2, <2>3, <2>4, <2>5 DEF ApartInv, Holding
  <1>2. ASSUME NEW i \in Installs, Test(i) PROVE ApartInv'
    <2>1. CASE isReserved(probe[i])
      BY <1>2, <2>1, ApartFrame DEF Test
    <2>2. CASE ~isReserved(probe[i])
      <3>1. PICK e \in Endpoints : /\ ports[i][e] = NoPort
                                  /\ ports' = [ports EXCEPT ![i][e] = probe[i]]
        BY <1>2, <2>2 DEF Test
      <3>2. pc' = pc /\ pc[i] = "choosing" /\ reserved' = reserved /\ raced' = raced
        BY <1>2 DEF Test
      <3>3. Allocated(i)' \subseteq Allocated(i) \cup {probe[i]}
        BY <3>1 DEF Allocated
      <3>4. \A j \in Installs \ {i} : Allocated(j)' = Allocated(j)
        BY <3>1 DEF Allocated
      <3>5. probe[i] \notin reserved
        BY <2>2 DEF isReserved
      <3> QED
        BY <3>2, <3>3, <3>4, <3>5 DEF ApartInv, Holding
    <2> QED
      BY <2>1, <2>2
  <1>3. ASSUME NEW i \in Installs, ReserveHostPorts(i) PROVE ApartInv'
    <2>1. \A j \in Installs : Allocated(j)' = Allocated(j)
      BY <1>3 DEF ReserveHostPorts, Allocated
    <2>2. Allocated(i) \subseteq Values(i)
      BY DEF Allocated, Values
    <2>3. pc[i] = "choosing" /\ pc' = [pc EXCEPT ![i] = "reserved"] /\ raced' = raced
      BY <1>3 DEF ReserveHostPorts
    <2>4. reserved' = reserved \cup Values(i)
      BY <1>3 DEF ReserveHostPorts
    <2> QED
      BY <2>1, <2>2, <2>3, <2>4 DEF ApartInv, Holding
  <1>4. ASSUME NEW i \in Installs, Refuse(i) \/ Cleanup(i) PROVE ApartInv'
    BY <1>4, ApartRelease DEF Refuse, Cleanup, ReleaseHostPorts, Rest
  <1>5. ASSUME NEW i \in Installs, Probe(i) \/ GiveUp(i) \/ Spawn(i) \/ ComposeUp(i)
                                     \/ Stop(i) \/ Restart(i)
        PROVE ApartInv'
    BY <1>5, ApartFrame DEF Probe, GiveUp, Spawn, ComposeUp, Stop, Restart, Holding
  <1>6. ASSUME NEW p \in Ports, OtherProcess(p) PROVE ApartInv'
    BY <1>6, ApartFrame DEF OtherProcess
  <1>7. CASE Crash
    BY <1>7 DEF Crash, ApartInv, Holding
  <1>8. CASE UNCHANGED vars
    BY <1>8, ApartFrame DEF vars
  <1> QED
    BY <1>1, <1>2, <1>3, <1>4, <1>5, <1>6, <1>7, <1>8 DEF Next, Step

\* While no two installs choose at the same time, the reservation does what
\* the comment of portMu says, if manifests fix no ephemeral port.
THEOREM ReservationSeparates ==
  ASSUME FixedOutside
  PROVE  Spec => []NoClashWithoutRace
  <1>1. Init => ClashInv
    BY TypeCorrectInit DEF Init, ClashInv, OriginInv, ApartInv, Holding, InFlight
  <1>2. ClashInv /\ [Next]_vars => ClashInv'
    BY TypeStep, OriginStep, ApartStep DEF ClashInv
  <1>3. ClashInv => NoClashWithoutRace
    BY DEF ClashInv, ApartInv, NoClashWithoutRace, Holding
  <1> QED
    BY <1>1, <1>2, <1>3, PTL DEF Spec
=============================================================================
