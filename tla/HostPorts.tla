------------------------------ MODULE HostPorts ------------------------------
(***************************************************************************)
(* Host ports of installed apps: HostPorts asks the kernel for free        *)
(* localhost ports, ReserveHostPorts marks them in a process-wide set, and *)
(* ReleaseHostPorts unmarks them when the install's operation ends or its  *)
(* handler gives up.  Finding a port, testing it and reserving it are      *)
(* three steps, and other installs run between them.                       *)
(***************************************************************************)
EXTENDS Naturals, FiniteSets

CONSTANTS
    Installs,   \* install requests
    Endpoints,  \* container ports an app publishes
    Ports,      \* host ports
    Ephemeral,  \* the host ports the kernel hands out for port 0
    Fixed,      \* Fixed[i][e]: host port the manifest fixes, or NoPort
    NoPort,
    Attempts    \* how often FindFreePort tries; 20 in the code

ASSUME PortsAssumption ==
    /\ Ephemeral \subseteq Ports
    /\ NoPort \notin Ports
    /\ Fixed \in [Installs -> [Endpoints -> Ports \cup {NoPort}]]
    /\ Attempts \in Nat \ {0}

VARIABLES
    pc,         \* where an install stands
    ports,      \* the map HostPorts fills in: endpoint -> host port
    probe,      \* the port the last net.Listen returned
    tries,      \* attempts FindFreePort has used for the current endpoint
    reserved,   \* reservedPorts
    bound,      \* host ports an install's containers listen on
    foreign,    \* host ports other processes listen on
    raced       \* history: two installs were between HostPorts and Reserve

vars == <<pc, ports, probe, tries, reserved, bound, foreign, raced>>

InFlight == {"reserved", "working", "settling"}
Rest     == {"idle", "installed", "failed", "cut"}

TypeOK ==
    /\ pc \in [Installs -> InFlight \cup Rest \cup {"choosing"}]
    /\ ports \in [Installs -> [Endpoints -> Ports \cup {NoPort}]]
    /\ probe \in [Installs -> Ports \cup {NoPort}]
    /\ tries \in [Installs -> 0..Attempts]
    /\ reserved \subseteq Ports
    /\ bound \in [Installs -> SUBSET Ports]
    /\ foreign \subseteq Ports
    /\ raced \in BOOLEAN

NoPorts == [e \in Endpoints |-> NoPort]

Init ==
    /\ pc = [i \in Installs |-> "idle"]
    /\ ports = [i \in Installs |-> NoPorts]
    /\ probe = [i \in Installs |-> NoPort]
    /\ tries = [i \in Installs |-> 0]
    /\ reserved = {}
    /\ bound = [i \in Installs |-> {}]
    /\ foreign = {}
    /\ raced = FALSE

\* Values of an install's port map.
Values(i) == {ports[i][e] : e \in Endpoints} \ {NoPort}

Listening == foreign \cup UNION {bound[i] : i \in Installs}

Goto(i, s) == pc' = [pc EXCEPT ![i] = s]

-----------------------------------------------------------------------------
(* HostPorts and FindFreePort.                                              *)

\* HostPorts starts with the mappings the manifest fixes.
BeginHostPorts(i) ==
    /\ pc[i] = "idle"
    /\ Goto(i, "choosing")
    /\ ports' = [ports EXCEPT ![i] = Fixed[i]]
    /\ raced' = (raced \/ \E j \in Installs \ {i} : pc[j] = "choosing")
    /\ UNCHANGED <<probe, tries, reserved, bound, foreign>>

\* Faulty: one attempt too many.
MayTryOnceMore(i) == tries[i] <= Attempts

MayTry(i) == tries[i] < Attempts

\* net.Listen on port 0, and Close: the kernel returns a port nobody listens on.
Probe(i) ==
    /\ pc[i] = "choosing"
    /\ \E e \in Endpoints : ports[i][e] = NoPort
    /\ probe[i] = NoPort
    /\ MayTry(i)
    /\ \E p \in Ephemeral \ Listening : probe' = [probe EXCEPT ![i] = p]
    /\ tries' = [tries EXCEPT ![i] = @ + 1]
    /\ UNCHANGED <<pc, ports, reserved, bound, foreign, raced>>

\* Faulty: the reservations of other installs are not consulted.
NeverReserved(p) == FALSE

isReserved(p) == p \in reserved

\* The port is the next endpoint's unless it is reserved.
Test(i) ==
    /\ pc[i] = "choosing"
    /\ probe[i] # NoPort
    /\ probe' = [probe EXCEPT ![i] = NoPort]
    /\ IF isReserved(probe[i])
         THEN UNCHANGED <<ports, tries>>
         ELSE /\ \E e \in Endpoints :
                   /\ ports[i][e] = NoPort
                   /\ ports' = [ports EXCEPT ![i][e] = probe[i]]
              /\ tries' = [tries EXCEPT ![i] = 0]
    /\ UNCHANGED <<pc, reserved, bound, foreign, raced>>

\* net.Listen fails, or every attempt found a reserved port: the handler
\* answers 500; nothing was reserved.
GiveUp(i) ==
    /\ pc[i] = "choosing"
    /\ \E e \in Endpoints : ports[i][e] = NoPort
    /\ probe[i] = NoPort
    /\ Goto(i, "failed")
    /\ ports' = [ports EXCEPT ![i] = NoPorts]
    /\ tries' = [tries EXCEPT ![i] = 0]
    /\ UNCHANGED <<probe, reserved, bound, foreign, raced>>

ReserveHostPorts(i) ==
    /\ pc[i] = "choosing"
    /\ \A e \in Endpoints : ports[i][e] # NoPort
    /\ Goto(i, "reserved")
    /\ reserved' = reserved \cup Values(i)
    /\ UNCHANGED <<ports, probe, tries, bound, foreign, raced>>

-----------------------------------------------------------------------------
(* What the install does with its ports.                                    *)

\* Faulty: an early return of the handler that keeps the reservation.
KeepReserved(i) == reserved

\* ReleaseHostPorts; the set does not count who reserved a port.
ReleaseHostPorts(i) == reserved \ Values(i)

\* InstallApp returns early: configuration, rendering, or one of its inserts
\* failed.
Refuse(i) ==
    /\ pc[i] = "reserved"
    /\ Goto(i, "failed")
    /\ reserved' = ReleaseHostPorts(i)
    /\ ports' = [ports EXCEPT ![i] = NoPorts]
    /\ UNCHANGED <<probe, tries, bound, foreign, raced>>

\* go h.runOperation(..., cleanup, ...)
Spawn(i) ==
    /\ pc[i] = "reserved"
    /\ Goto(i, "working")
    /\ UNCHANGED <<ports, probe, tries, reserved, bound, foreign, raced>>

\* Compose up publishes every port or, if it fails, perhaps some: Docker
\* cannot publish a port somebody listens on.
ComposeUp(i) ==
    /\ pc[i] = "working"
    /\ Goto(i, "settling")
    /\ \E S \in SUBSET (Values(i) \ Listening) : bound' = [bound EXCEPT ![i] = S]
    /\ UNCHANGED <<ports, probe, tries, reserved, foreign, raced>>

\* The deferred cleanup of runOperation runs on every way out of it.
Cleanup(i) ==
    /\ pc[i] = "settling"
    /\ Goto(i, "installed")
    /\ reserved' = ReleaseHostPorts(i)
    /\ UNCHANGED <<ports, probe, tries, bound, foreign, raced>>

\* stop, uninstall or the exit of a container frees its ports; start and
\* restart publish the ports of the Compose file again, without reserving.
Stop(i) ==
    /\ pc[i] = "installed"
    /\ bound[i] # {}
    /\ bound' = [bound EXCEPT ![i] = {}]
    /\ UNCHANGED <<pc, ports, probe, tries, reserved, foreign, raced>>

Restart(i) ==
    /\ pc[i] = "installed"
    /\ bound[i] = {}
    /\ \E S \in SUBSET (Values(i) \ Listening) : bound' = [bound EXCEPT ![i] = S]
    /\ UNCHANGED <<pc, ports, probe, tries, reserved, foreign, raced>>

OtherProcess(p) ==
    /\ \/ p \notin Listening /\ foreign' = foreign \cup {p}
       \/ p \in foreign /\ foreign' = foreign \ {p}
    /\ UNCHANGED <<pc, ports, probe, tries, reserved, bound, raced>>

\* The reservations live in memory: a new process starts with none.  An app
\* whose worker was cut off keeps its rows and its Compose file.
Crash ==
    /\ pc' = [i \in Installs |->
                CASE pc[i] \in {"choosing", "reserved"}  -> "cut"
                  [] pc[i] \in {"working", "settling"}   -> "installed"
                  [] OTHER                               -> pc[i]]
    /\ ports' = [i \in Installs |->
                   IF pc[i] \in {"choosing", "reserved"} THEN NoPorts ELSE ports[i]]
    /\ probe' = [i \in Installs |-> NoPort]
    /\ tries' = [i \in Installs |-> 0]
    /\ reserved' = {}
    /\ raced' = FALSE
    /\ UNCHANGED <<bound, foreign>>

Step(i) ==
    \/ Probe(i) \/ Test(i) \/ GiveUp(i) \/ ReserveHostPorts(i)
    \/ Refuse(i) \/ Spawn(i) \/ ComposeUp(i) \/ Cleanup(i)

Next ==
    \/ \E i \in Installs : BeginHostPorts(i) \/ Step(i) \/ Stop(i) \/ Restart(i)
    \/ \E p \in Ports : OtherProcess(p)
    \/ Crash

Spec == Init /\ [][Next]_vars

-----------------------------------------------------------------------------
(* Properties.                                                              *)

\* Reservations do not leak: every reserved port belongs to an install that
\* is still in flight, whichever early return, failure or crash happened.
NoReservationLeak ==
    reserved \subseteq UNION {Values(i) : i \in {j \in Installs : pc[j] \in InFlight}}

\* Ports HostPorts allocated itself.
Allocated(i) == {ports[i][e] : e \in {x \in Endpoints : Fixed[i][x] = NoPort}} \ {NoPort}

\* What reservation does achieve: while no two installs choose at the same
\* time, installs in flight never hold the same allocated port.
NoClashWithoutRace ==
    ~raced => \A i, j \in Installs :
                 pc[i] \in InFlight /\ pc[j] \in InFlight /\ i # j
                   => Allocated(i) \cap Allocated(j) = {}
=============================================================================
