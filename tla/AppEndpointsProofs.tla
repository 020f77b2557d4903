------------------------- MODULE AppEndpointsProofs -------------------------
(***************************************************************************)
(* Proofs about AppEndpoints for any manifests, ports and number of        *)
(* requests.  The argument: an observation changes only a URL whose host   *)
(* port is the number of a container port, so every copy of the endpoint   *)
(* list, however old, is the list of one revision of the app (Copies), and *)
(* an update carries over what that list shows (CarriesList).              *)
(***************************************************************************)
EXTENDS AppEndpoints, SequenceTheorems, WellFoundedInduction, TLAPS

Urls == HostPorts \cup {0}

-----------------------------------------------------------------------------
(* Lemmas about the operators.                                              *)

\* A port mapping is a function from some container ports to host ports or 0.
LEMMA MapsIntro ==
    ASSUME NEW S \in SUBSET AppPorts, NEW f \in [S -> Urls]
    PROVE  f \in Maps
  BY DEF Maps, Urls

\* A port map is a function on some container ports.
LEMMA MapsElim ==
    ASSUME NEW f \in Maps
    PROVE  /\ DOMAIN f \subseteq AppPorts
           /\ f \in [DOMAIN f -> Urls]
  <1>1. PICK S \in SUBSET AppPorts : f \in [S -> Urls]
    BY DEF Maps, Urls
  <1>. QED  BY <1>1

\* The empty map is one.
LEMMA NoPortsType == NoPorts \in Maps
  <1>1. NoPorts \in [{} -> Urls]
    BY DEF NoPorts
  <1>. QED  BY <1>1, MapsIntro

\* Lists are the functions on 1..n.
LEMMA SeqIntro ==
    ASSUME NEW T, NEW n \in Nat, NEW f \in [1..n -> T]
    PROVE  f \in Seq(T)
  OBVIOUS

\* A list is the function of its elements.
LEMMA SeqElim ==
    ASSUME NEW T, NEW s \in Seq(T)
    PROVE  /\ Len(s) \in Nat /\ DOMAIN s = 1..Len(s)
           /\ s = [k \in DOMAIN s |-> s[k]]
           /\ \A k \in DOMAIN s : s[k] \in T
  BY LenProperties, ElementOfSeq

\* How a list of endpoints is made, and what it holds.
LEMMA ListIntro ==
    ASSUME NEW n \in Nat, NEW f \in [1..n -> [label : Labels, url : Urls]]
    PROVE  f \in EndpointLists
  <1>. DEFINE T == [label : Labels, url : Urls]
  <1>1. EndpointLists = Seq(T)
    BY DEF EndpointLists, Urls
  <1>2. f \in [1..n -> T]
    OBVIOUS
  <1>. HIDE DEF T
  <1>. QED  BY <1>1, <1>2, SeqIntro

\* A list of endpoints holds labels and ports.
LEMMA ListElim ==
    ASSUME NEW eps \in EndpointLists
    PROVE  /\ Len(eps) \in Nat /\ DOMAIN eps = 1..Len(eps)
           /\ eps = [k \in DOMAIN eps |-> eps[k]]
           /\ \A k \in DOMAIN eps : eps[k] \in [label : Labels, url : Urls]
  <1>. DEFINE T == [label : Labels, url : Urls]
  <1>1. EndpointLists = Seq(T)
    BY DEF EndpointLists, Urls
  <1>2. /\ Len(eps) \in Nat /\ DOMAIN eps = 1..Len(eps)
        /\ eps = [k \in DOMAIN eps |-> eps[k]]
        /\ \A k \in DOMAIN eps : eps[k] \in T
    <2>. HIDE DEF T
    <2>. QED  BY <1>1, SeqElim
  <1>. QED  BY <1>2

\* A manifest's endpoints are a list of labels and container ports.
LEMMA ManifestElim ==
    ASSUME NEW m \in Manifests
    PROVE  /\ Len(Endpoints[m]) \in Nat /\ DOMAIN Endpoints[m] = 1..Len(Endpoints[m])
           /\ \A k \in DOMAIN Endpoints[m] :
                Endpoints[m][k] \in [label : Labels, port : ContainerPorts]
           /\ EndpointPorts(m) \subseteq ContainerPorts
  <1>. DEFINE T == [label : Labels, port : ContainerPorts]
  <1>1. Endpoints[m] \in Seq(T)
    BY EndpointsAssumption
  <1>2. /\ Len(Endpoints[m]) \in Nat /\ DOMAIN Endpoints[m] = 1..Len(Endpoints[m])
        /\ \A k \in DOMAIN Endpoints[m] : Endpoints[m][k] \in T
    <2>. HIDE DEF T
    <2>. QED  BY <1>1, SeqElim
  <1>. QED  BY <1>2 DEF EndpointPorts

\* A port that a map lacks is 0, as in a Go map.
LEMMA LookupType ==
    ASSUME NEW ports \in Maps, NEW p
    PROVE  Lookup(ports, p) \in Urls
  BY MapsElim DEF Lookup, Urls

\* endpointModels makes one endpoint of each of the manifest's.
LEMMA ModelsType ==
    ASSUME NEW m \in Manifests, NEW ports \in Maps
    PROVE  endpointModels(m, ports) \in EndpointLists
  <1>1. endpointModels(m, ports)
          \in [1..Len(Endpoints[m]) -> [label : Labels, url : Urls]]
    BY ManifestElim, LookupType DEF endpointModels
  <1>. QED  BY <1>1, ManifestElim, ListIntro

\* The Compose file maps every endpoint's container port to the port given.
LEMMA RenderedType ==
    ASSUME NEW m \in Manifests, NEW ports \in Maps
    PROVE  /\ RenderedPorts(m, ports) \in Maps
           /\ EndpointPorts(m) \subseteq DOMAIN RenderedPorts(m, ports)
           /\ \A p \in EndpointPorts(m) : RenderedPorts(m, ports)[p] = Lookup(ports, p)
  <1>. DEFINE D == DOMAIN Declared[m] \cup EndpointPorts(m)
  <1>1. D \in SUBSET AppPorts
    BY DEF AppPorts
  <1>2. RenderedPorts(m, ports) \in [D -> Urls]
    BY EndpointsAssumption, LookupType DEF RenderedPorts, Urls
  <1>3. RenderedPorts(m, ports) \in Maps
    BY <1>1, <1>2, MapsIntro
  <1>. QED  BY <1>3 DEF RenderedPorts

\* HostPorts returns a port map.
LEMMA ChosenType ==
    ASSUME NEW m \in Manifests, NEW ports \in ChosenPorts(m)
    PROVE  ports \in Maps
  <1>. DEFINE fixed == {p \in DOMAIN Declared[m] : Declared[m][p] > 0}
  <1>1. fixed \cup EndpointPorts(m) \in SUBSET AppPorts
    BY DEF AppPorts
  <1>2. ports \in [fixed \cup EndpointPorts(m) -> Urls]
    BY DEF ChosenPorts, Urls
  <1>. QED  BY <1>1, <1>2, MapsIntro

\* What Docker publishes follows the mapping wherever it names a host port.
LEMMA PartlyType ==
    ASSUME NEW map \in Maps, NEW f \in Partly(map)
    PROVE  /\ f \in Maps
           /\ \A p \in DOMAIN f : p \in DOMAIN map /\ (map[p] # 0 => f[p] = map[p])
  <1>1. PICK g \in Publications(map), S \in SUBSET DOMAIN map : f = [p \in S |-> g[p]]
    BY DEF Partly
  <1>2. g \in [DOMAIN map -> HostPorts] /\ \A p \in DOMAIN map : map[p] # 0 => g[p] = map[p]
    BY DEF Publications
  <1>3. S \in SUBSET AppPorts
    BY MapsElim
  <1>4. f \in [S -> Urls]
    BY <1>1, <1>2 DEF Urls
  <1>. QED  BY <1>1, <1>2, <1>3, <1>4, MapsIntro

\* Docker publishes what the containers were created with.
LEMMA PublicationsType ==
    ASSUME NEW map \in Maps, NEW f \in Publications(map)
    PROVE  /\ f \in Maps
           /\ \A p \in DOMAIN f : p \in DOMAIN map /\ (map[p] # 0 => f[p] = map[p])
  <1>1. f \in [DOMAIN map -> HostPorts] /\ \A p \in DOMAIN map : map[p] # 0 => f[p] = map[p]
    BY DEF Publications
  <1>2. DOMAIN map \in SUBSET AppPorts
    BY MapsElim
  <1>3. f \in [DOMAIN map -> Urls]
    BY <1>1 DEF Urls
  <1>. QED  BY <1>1, <1>2, <1>3, MapsIntro

\* An observation keeps the list a list.
LEMMA UpdateType ==
    ASSUME NEW eps \in EndpointLists, NEW ports \in Maps
    PROVE  updateEndpoints(eps, ports) \in EndpointLists
  <1>1. updateEndpoints(eps, ports) \in [1..Len(eps) -> [label : Labels, url : Urls]]
    BY ListElim, MapsElim DEF updateEndpoints, endpointContainerPort
  <1>. QED  BY <1>1, ListElim, ListIntro

\* It is still the list of the same revision: a URL changes only when its host
\* port is the number of a container port.
LEMMA UpdateKeepsList ==
    ASSUME NEW eps, NEW v, ListOf(eps, v), NEW ports, DOMAIN ports \subseteq AppPorts
    PROVE  ListOf(updateEndpoints(eps, ports), v)
  <1>. DEFINE new == updateEndpoints(eps, ports)
  <1>1. DOMAIN new = DOMAIN eps
    BY DEF updateEndpoints
  <1>2. ASSUME NEW k \in DOMAIN eps
        PROVE  /\ new[k].label = eps[k].label
               /\ eps[k].url \notin AppPorts => new[k].url = eps[k].url
    <2>1. CASE eps[k].url \in DOMAIN ports
      <3>1. new[k] = [eps[k] EXCEPT !.url = ports[eps[k].url]]
        BY <2>1 DEF updateEndpoints, endpointContainerPort
      <3>. QED  BY <2>1, <3>1
    <2>2. CASE eps[k].url \notin DOMAIN ports
      BY <2>2 DEF updateEndpoints, endpointContainerPort
    <2>. QED  BY <2>1, <2>2
  <1>3. ListOf(new, v)
    <2>. HIDE DEF new
    <2>. QED  BY <1>1, <1>2 DEF ListOf, Shows
  <1>. QED  BY <1>3

\* A nonempty set of indices of a list has a last one.
LEMMA LastExists ==
    ASSUME NEW n \in Nat, NEW S \in SUBSET (1..n), S # {}
    PROVE  LastOf(S) \in S
  <1>. DEFINE T == {n - j : j \in S}
              R == OpToRel(<, Nat)
  <1>0. \A j \in S : j \in Nat /\ n - j \in Nat
    <2>. TAKE j \in S
    <2>1. j \in 1..n
      OBVIOUS
    <2>. QED  BY <2>1, SMT
  <1>1. T \subseteq Nat /\ T # {}
    BY <1>0
  <1>2. PICK x \in T : \A y \in T : ~(<<y, x>> \in R)
    <2>. HIDE DEF T, R
    <2>1. IsWellFoundedOn(R, Nat)
      BY NatLessThanWellFounded DEF R
    <2>. QED  BY <1>1, <2>1, WFMin
  <1>3. PICK j \in S : x = n - j
    OBVIOUS
  <1>4. \A i \in S : ~(n - i < n - j)
    BY <1>0, <1>1, <1>2, <1>3 DEF OpToRel
  <1>5. \A i \in S : i <= j
    <2>. TAKE i \in S
    <2>1. i \in Nat /\ j \in Nat /\ ~(n - i < n - j)
      BY <1>0, <1>4
    <2>. QED  BY <2>1, SMT
  <1>. QED  BY <1>5 DEF LastOf

\* The ports an update carries over are ports of the app's endpoints.
LEMMA CarriedType ==
    ASSUME NEW m \in Manifests, NEW eps \in EndpointLists
    PROVE  CarriedPorts(m, eps) \in Maps
  <1>. DEFINE At(p) == CHOOSE k \in Kept(m, eps) : Endpoints[m][k].port = p
              D     == {Endpoints[m][k].port : k \in Kept(m, eps)}
  <1>1. D \in SUBSET AppPorts
    BY DEF Kept, AppPorts, EndpointPorts
  <1>2. ASSUME NEW p \in D
        PROVE  endpointHostPort(eps[LastOf(SameLabel(m, At(p), eps))]) \in Urls
    <2>1. At(p) \in Kept(m, eps)
      OBVIOUS
    <2>2. SameLabel(m, At(p), eps) # {}
      BY <2>1 DEF Kept
    <2>3. SameLabel(m, At(p), eps) \in SUBSET (1..Len(eps)) /\ Len(eps) \in Nat
      BY ListElim DEF SameLabel
    <2>4. LastOf(SameLabel(m, At(p), eps)) \in SameLabel(m, At(p), eps)
      BY <2>2, <2>3, LastExists
    <2>5. LastOf(SameLabel(m, At(p), eps)) \in DOMAIN eps
      BY <2>4 DEF SameLabel
    <2>. QED  BY <2>5, ListElim DEF endpointHostPort
  <1>3. CarriedPorts(m, eps) \in [D -> Urls]
    BY <1>2 DEF CarriedPorts
  <1>. QED  BY <1>1, <1>3, MapsIntro

-----------------------------------------------------------------------------
(* The inductive invariant.                                                 *)

\* eps is the list of a revision: the current unless it is stale.
FromRevision(eps, stale) ==
    \E v \in past \cup {Current} : ListOf(eps, v) /\ (v = Current \/ stale)

\* A worker before its operation completes owns the app, which exists.
Engine ==
    /\ life = "live" => rev \in Manifests
    /\ \A r \in Reqs :
         /\ life = "none" => req[r].pc = "idle"
         /\ req[r].pc \in {"run", "undo", "record"} => busy = r /\ life = "live"
         /\ req[r].pc = "record" => req[r].next \in Manifests
         /\ req[r].pc \in {"record", "undo"} => req[r].prior \in Revisions

\* Docker publishes what the containers were created with.
Following ==
    \A p \in DOMAIN published :
        p \in DOMAIN deployed /\ (deployed[p] # 0 => published[p] = deployed[p])

\* The row and every copy of it are lists of revisions.
Copies ==
    life = "live" =>
        /\ FromRevision(row, torn)
        /\ \A r \in Reqs : req[r].pc # "idle" => FromRevision(req[r].eps, req[r].stale)

\* An update that is about to be recorded runs what it will record.
Deployed ==
    \A r \in Reqs :
        req[r].pc = "record" =>
          deployed = RenderedPorts(req[r].next, CarriedPorts(req[r].prior.manifest, req[r].eps))

IInv == TypeOK /\ Engine /\ Following /\ Copies /\ Deployed

\* A request that has done nothing has no endpoints.
LEMMA EmptyType == <<>> \in EndpointLists
  BY EmptySeq DEF EndpointLists

\* A request that has done nothing is a request.
LEMMA IdleType == Idle \in Requests
  BY EmptyType DEF Idle, Requests, Places

\* A request stays one when one of its fields changes.
LEMMA RequestExcept ==
    ASSUME NEW q \in Requests
    PROVE  /\ \A x \in Places : [q EXCEPT !.pc = x] \in Requests
           /\ \A x \in Kinds : [q EXCEPT !.kind = x] \in Requests
           /\ \A x \in EndpointLists : [q EXCEPT !.eps = x] \in Requests
           /\ \A x \in Manifests \cup {None} :
                [q EXCEPT !.base = x] \in Requests /\ [q EXCEPT !.next = x] \in Requests
           /\ \A x \in Revisions : [q EXCEPT !.prior = x] \in Requests
           /\ \A x \in BOOLEAN : [q EXCEPT !.stale = x] \in Requests
  BY DEF Requests

\* A request that goes on to observe its app is a request.
LEMMA ObservingType ==
    ASSUME TypeOK, NEW r \in Reqs
    PROVE  Observing(r) \in Requests
  <1>1. /\ req[r] \in Requests
        /\ "observe" \in Places /\ "get" \in Kinds \cup {"install"} /\ None \in Manifests \cup {None}
    BY DEF TypeOK, Places, Kinds
  <1>. QED  BY <1>1 DEF Observing, Requests

\* The worker of an update builds a mapping and a list of endpoints.
LEMMA CarriedOver ==
    ASSUME TypeOK, NEW r \in Reqs, NEW old \in Revisions, NEW m \in Manifests
    PROVE  /\ CarriedPorts(old.manifest, req[r].eps) \in Maps
           /\ RenderedPorts(m, CarriedPorts(old.manifest, req[r].eps)) \in Maps
           /\ endpointModels(m, CarriedPorts(old.manifest, req[r].eps)) \in EndpointLists
  <1>1. old.manifest \in Manifests /\ req[r].eps \in EndpointLists
    BY DEF TypeOK, Requests, Revisions
  <1>2. CarriedPorts(old.manifest, req[r].eps) \in Maps
    BY <1>1, CarriedType
  <1>. QED  BY <1>2, RenderedType, ModelsType

\* Every step keeps the types.
LEMMA TypeStep ==
    ASSUME TypeOK, Engine, [Next]_vars
    PROVE  TypeOK'
  <1>. USE EndpointsAssumption DEF TypeOK
  <1>i. Idle \in Requests
    BY IdleType
  <1>e. ASSUME NEW r \in Reqs  PROVE [req EXCEPT ![r] = Idle] \in [Reqs -> Requests]
    BY <1>i
  <1>p. ASSUME NEW r \in Reqs, NEW x \in Places
        PROVE  [req EXCEPT ![r].pc = x] \in [Reqs -> Requests]
    <2>1. [req[r] EXCEPT !.pc = x] \in Requests
      BY RequestExcept
    <2>. QED  BY <2>1
  <1>o. ASSUME NEW r \in Reqs  PROVE [req EXCEPT ![r] = Observing(r)] \in [Reqs -> Requests]
    BY ObservingType
  <1>s. {"run", "undo", "record", "store", "loaded", "observe"} \subseteq Places
    BY DEF Places
  <1>1. CASE UNCHANGED vars
    BY <1>1 DEF vars
  <1>2. CASE Crash
    BY <1>2, <1>i DEF Crash
  <1>3. ASSUME NEW r \in Reqs, InstallApp(r)  PROVE TypeOK'
    <2>0. PICK m \in Manifests : \E ports \in ChosenPorts(m) :
            /\ rev' = m
            /\ row' = endpointModels(m, ports)
            /\ compose' = RenderedPorts(m, ports)
            /\ req' = [req EXCEPT ![r] = [Idle EXCEPT !.pc = "run", !.eps = endpointModels(m, ports)]]
      BY <1>3 DEF InstallApp
    <2>1. PICK ports \in ChosenPorts(m) :
            /\ rev' = m
            /\ row' = endpointModels(m, ports)
            /\ compose' = RenderedPorts(m, ports)
            /\ req' = [req EXCEPT ![r] = [Idle EXCEPT !.pc = "run", !.eps = endpointModels(m, ports)]]
      BY <2>0
    <2>2. row' \in EndpointLists /\ compose' \in Maps
      BY <2>1, ChosenType, ModelsType, RenderedType
    <2>4. newest' \in SUBSET Revisions
      BY <1>3, <2>1, <2>2 DEF InstallApp, Current, Revisions
    <2>3. [Idle EXCEPT !.pc = "run", !.eps = endpointModels(m, ports)] \in Requests
      BY <2>1, <2>2, <1>i, <1>s DEF Idle, Requests
    <2>. QED  BY <1>3, <2>1, <2>2, <2>3, <2>4 DEF InstallApp
  <1>4. ASSUME NEW r \in Reqs, LoadInstance(r)  PROVE TypeOK'
    <2>1. PICK k \in Offered :
            req' = [req EXCEPT ![r] = [Idle EXCEPT !.pc = IF k = "get" THEN "observe" ELSE "loaded",
                                                   !.kind = k, !.eps = row, !.stale = torn]]
      BY <1>4 DEF LoadInstance
    <2>2. [Idle EXCEPT !.pc = IF k = "get" THEN "observe" ELSE "loaded",
                       !.kind = k, !.eps = row, !.stale = torn] \in Requests
      BY <1>i, <1>s DEF Idle, Requests
    <2>. QED  BY <1>4, <2>1, <2>2 DEF LoadInstance
  <1>5. ASSUME NEW r \in Reqs, UpdatePreview(r)  PROVE TypeOK'
    <2>1. [req[r] EXCEPT !.base = rev] \in Requests
      BY RequestExcept
    <2>2. [req EXCEPT ![r].base = rev] \in [Reqs -> Requests]
      BY <2>1
    <2>. QED  BY <1>5, <2>2 DEF UpdatePreview
  <1>6. ASSUME NEW r \in Reqs, CreateOperation(r)  PROVE TypeOK'
    BY <1>6, <1>p, <1>s DEF CreateOperation, Goto
  <1>7. ASSUME NEW r \in Reqs, Refuse(r)  PROVE TypeOK'
    BY <1>7, <1>e DEF Refuse, End, Free
  <1>8. ASSUME NEW r \in Reqs, ComposeUp(r)  PROVE TypeOK'
    <2>1. published' \in Maps
      BY <1>8, PublicationsType, PartlyType DEF ComposeUp
    <2>2. req' \in [Reqs -> Requests]
      BY <1>8, <1>e, <1>o DEF ComposeUp, Completed, End
    <2>. QED  BY <1>8, <2>1, <2>2 DEF ComposeUp, Free
  <1>9. ASSUME NEW r \in Reqs, ComposeAction(r)  PROVE TypeOK'
    <2>1. published' \in Maps
      BY <1>9, PublicationsType, PartlyType, NoPortsType DEF ComposeAction
    <2>2. req' \in [Reqs -> Requests]
      BY <1>9, <1>e, <1>o DEF ComposeAction, Completed, End
    <2>. QED  BY <1>9, <2>1, <2>2 DEF ComposeAction, Free
  <1>10. ASSUME NEW r \in Reqs, Deploy(r)  PROVE TypeOK'
    <2>0. PICK old \in newest : \E m \in {y \in Manifests : ValidateManifest(y)} :
            LET new == RenderedPorts(m, CarriedPorts(old.manifest, req[r].eps)) IN
              \/ /\ deployed' = new /\ published' \in Publications(new)
                 /\ req' = [req EXCEPT ![r].pc = "record", ![r].prior = old, ![r].next = m]
              \/ /\ deployed' \in {deployed, new} /\ published' \in Partly(deployed')
                 /\ req' = [req EXCEPT ![r].pc = "undo", ![r].prior = old, ![r].next = m]
      BY <1>10 DEF Deploy
    <2>. old \in Revisions
      OBVIOUS
    <2>1. PICK m \in Manifests, x \in {"record", "undo"} :
            LET new == RenderedPorts(m, CarriedPorts(old.manifest, req[r].eps)) IN
              /\ deployed' \in {deployed, new}
              /\ published' \in Publications(deployed') \/ published' \in Partly(deployed')
              /\ req' = [req EXCEPT ![r].pc = x, ![r].prior = old, ![r].next = m]
      BY <2>0
    <2>2. deployed' \in Maps
      BY <2>1, CarriedOver
    <2>3. published' \in Maps
      BY <2>1, <2>2, PublicationsType, PartlyType
    <2>4. req' \in [Reqs -> Requests]
      <3>1. [req[r] EXCEPT !.pc = x] \in Requests
        BY <1>s, RequestExcept
      <3>2. [[req[r] EXCEPT !.pc = x] EXCEPT !.prior = old] \in Requests
        BY <3>1, RequestExcept
      <3>3. [[[req[r] EXCEPT !.pc = x] EXCEPT !.prior = old] EXCEPT !.next = m] \in Requests
        BY <3>2, RequestExcept
      <3>4. [req[r] EXCEPT !.pc = x, !.prior = old, !.next = m] \in Requests
        BY <3>3
      <3>. QED  BY <2>1, <3>4
    <2>. QED  BY <1>10, <2>2, <2>3, <2>4 DEF Deploy
  <1>11. ASSUME NEW r \in Reqs, HealthGateFails(r)  PROVE TypeOK'
    BY <1>11, <1>p, <1>s DEF HealthGateFails, Goto
  <1>12. ASSUME NEW r \in Reqs, Rollback(r)  PROVE TypeOK'
    <2>0. req[r].prior.ports \in Maps
      BY <1>12 DEF Rollback, Engine, Revisions
    <2>1. deployed' \in Maps /\ published' \in Maps
      BY <1>12, <2>0, PublicationsType, PartlyType DEF Rollback
    <2>. QED  BY <1>12, <2>1, <1>e DEF Rollback, End, Free
  <1>13. ASSUME NEW r \in Reqs, ApplySuccessfulUpdate(r)  PROVE TypeOK'
    <2>. DEFINE ports == CarriedPorts(req[r].prior.manifest, req[r].eps)
                eps   == endpointModels(req[r].next, ports)
    <2>1. /\ eps \in EndpointLists
          /\ RenderedPorts(req[r].next, ports) \in Maps
          /\ req[r].next \in Manifests
      BY <1>13, CarriedOver DEF ApplySuccessfulUpdate, Engine
    <2>. HIDE DEF ports, eps
    <2>2. CASE End(r) /\ UNCHANGED <<rev, row, compose, past, newest, torn>>
      BY <1>13, <2>2, <1>e DEF ApplySuccessfulUpdate, End, Free
    <2>3. CASE /\ rev' = req[r].next /\ row' = eps /\ torn' = FALSE
               /\ compose' = RenderedPorts(req[r].next, ports)
               /\ past' = past \cup {Current} /\ newest' \in NewestWith(Current')
               /\ req' = [x \in Reqs |->
                         IF x = r THEN [Observing(r) EXCEPT !.eps = eps, !.stale = FALSE]
                         ELSE IF req[x].pc = "idle" THEN req[x]
                         ELSE [req[x] EXCEPT !.stale = TRUE]]
      <3>1. [Observing(r) EXCEPT !.eps = eps, !.stale = FALSE] \in Requests
        <4>1. [Observing(r) EXCEPT !.eps = eps] \in Requests
          BY <2>1, ObservingType, RequestExcept
        <4>2. [[Observing(r) EXCEPT !.eps = eps] EXCEPT !.stale = FALSE] \in Requests
          BY <4>1, RequestExcept
        <4>. QED  BY <4>2
      <3>2. \A x \in Reqs : [req[x] EXCEPT !.stale = TRUE] \in Requests
        BY RequestExcept
      <3>3. req' \in [Reqs -> Requests]
        BY <2>3, <3>1, <3>2
      <3>4. Current \in Revisions
        BY <1>13 DEF ApplySuccessfulUpdate, Engine, Current, Revisions
      <3>5. Current' \in Revisions
        BY <2>1, <2>3 DEF Current, Revisions
      <3>6. past' \in SUBSET Revisions /\ newest' \in SUBSET Revisions
        BY <2>3, <3>4, <3>5 DEF NewestWith
      <3>. QED  BY <1>13, <2>1, <2>3, <3>3, <3>6 DEF ApplySuccessfulUpdate, Free
    <2>. QED  BY <1>13, <2>2, <2>3 DEF ApplySuccessfulUpdate, ports, eps
  <1>14. ASSUME NEW r \in Reqs, Uninstall(r)  PROVE TypeOK'
    <2>1. req' \in [Reqs -> Requests]
      BY <1>14, <1>e DEF Uninstall, End
    <2>2. ASSUME NEW S \in SUBSET DOMAIN published
          PROVE  [p \in S |-> published[p]] \in Maps
      <3>1. S \in SUBSET AppPorts /\ [p \in S |-> published[p]] \in [S -> Urls]
        BY MapsElim
      <3>. QED  BY <3>1, MapsIntro
    <2>3. published' \in Maps
      BY <1>14, <2>2, NoPortsType DEF Uninstall
    <2>. QED  BY <1>14, <2>1, <2>3, EmptyType, NoPortsType DEF Uninstall, Free
  <1>15. ASSUME NEW r \in Reqs, Observe(r)  PROVE TypeOK'
    <2>1. updateEndpoints(req[r].eps, published) \in EndpointLists
      BY UpdateType DEF Requests
    <2>2. req' \in [Reqs -> Requests]
      <3>1. [req[r] EXCEPT !.pc = "store", !.eps = updateEndpoints(@, published)] \in Requests
        <4>1. [req[r] EXCEPT !.pc = "store"] \in Requests
          BY <1>s, RequestExcept
        <4>2. [[req[r] EXCEPT !.pc = "store"] EXCEPT !.eps = updateEndpoints(req[r].eps, published)]
                \in Requests
          BY <2>1, <4>1, RequestExcept
        <4>. QED  BY <4>2
      <3>2. [req EXCEPT ![r].pc = "store", ![r].eps = updateEndpoints(@, published)]
              \in [Reqs -> Requests]
        BY <3>1
      <3>. QED  BY <1>15, <1>e, <3>2 DEF Observe, End
    <2>. QED  BY <1>15, <2>2 DEF Observe
  <1>16. ASSUME NEW r \in Reqs, StoreObserved(r)  PROVE TypeOK'
    <2>1. req[r].eps \in EndpointLists /\ req[r].stale \in BOOLEAN
      BY DEF Requests
    <2>. QED  BY <1>16, <2>1, <1>e DEF StoreObserved, End
  <1>. QED
    BY <1>1, <1>2, <1>3, <1>4, <1>5, <1>6, <1>7, <1>8, <1>9, <1>10, <1>11, <1>12,
       <1>13, <1>14, <1>15, <1>16 DEF Next, Step

\* Every step keeps the places of requests and workers in order.
LEMMA EngineStep ==
    ASSUME TypeOK, Engine, [Next]_vars
    PROVE  Engine'
  <1>. USE DEF TypeOK, Engine
  <1>n. None \notin Manifests
    BY EndpointsAssumption
  <1>1. CASE UNCHANGED vars
    BY <1>1 DEF vars
  <1>2. CASE Crash
    BY <1>2 DEF Crash, Idle
  <1>3. ASSUME NEW r \in Reqs, InstallApp(r)  PROVE Engine'
    BY <1>3 DEF InstallApp, Idle
  <1>4. ASSUME NEW r \in Reqs, LoadInstance(r)  PROVE Engine'
    BY <1>4 DEF LoadInstance, Idle
  <1>5. ASSUME NEW r \in Reqs, UpdatePreview(r)  PROVE Engine'
    BY <1>5 DEF UpdatePreview, Requests
  <1>6. ASSUME NEW r \in Reqs, CreateOperation(r)  PROVE Engine'
    BY <1>6, EndpointsAssumption DEF CreateOperation, Goto, Requests
  <1>7. ASSUME NEW r \in Reqs, Refuse(r)  PROVE Engine'
    BY <1>7 DEF Refuse, End, Free, Idle
  <1>w. ASSUME NEW r \in Reqs, req[r].pc = "run", Free(r), UNCHANGED <<life, rev>>,
               Completed(r) \/ End(r)
        PROVE  Engine'
    <2>c. Observing(r).pc = "observe" /\ Idle.pc = "idle"
      BY DEF Observing, Idle, Requests
    <2>1. req'[r] \in {Idle, Observing(r)}
      BY <1>w DEF Completed, End
    <2>2. \A x \in Reqs \ {r} : req'[x] = req[x]
      BY <1>w DEF Completed, End
    <2>3. req'[r].pc \in {"idle", "observe"}
      BY <2>c, <2>1
    <2>. QED  BY <1>w, <2>2, <2>3 DEF Free
  <1>8. ASSUME NEW r \in Reqs, ComposeUp(r)  PROVE Engine'
    BY <1>8, <1>w DEF ComposeUp
  <1>9. ASSUME NEW r \in Reqs, ComposeAction(r)  PROVE Engine'
    BY <1>9, <1>w DEF ComposeAction
  <1>10. ASSUME NEW r \in Reqs, Deploy(r)  PROVE Engine'
    <2>1. \E old \in newest, m \in Manifests, x \in {"record", "undo"} :
            req' = [req EXCEPT ![r].pc = x, ![r].prior = old, ![r].next = m]
      BY <1>10 DEF Deploy
    <2>2. req[r].pc = "run" /\ UNCHANGED <<life, rev, busy>>
      BY <1>10 DEF Deploy
    <2>. QED  BY <2>1, <2>2 DEF Requests
  <1>11. ASSUME NEW r \in Reqs, HealthGateFails(r)  PROVE Engine'
    BY <1>11 DEF HealthGateFails, Goto, Requests
  <1>12. ASSUME NEW r \in Reqs, Rollback(r)  PROVE Engine'
    BY <1>12 DEF Rollback, End, Free, Idle
  <1>13. ASSUME NEW r \in Reqs, ApplySuccessfulUpdate(r)  PROVE Engine'
    <2>1. req[r].pc = "record" /\ Free(r) /\ life' = life
      BY <1>13 DEF ApplySuccessfulUpdate
    <2>2. CASE End(r) /\ rev' = rev
      BY <2>1, <2>2 DEF End, Free, Idle
    <2>3. ASSUME NEW eps, rev' = req[r].next,
                 req' = [x \in Reqs |->
                         IF x = r THEN [Observing(r) EXCEPT !.eps = eps, !.stale = FALSE]
                         ELSE IF req[x].pc = "idle" THEN req[x]
                         ELSE [req[x] EXCEPT !.stale = TRUE]]
          PROVE  Engine'
      <3>1. req'[r].pc = "observe"
        BY <2>3 DEF Observing, Requests
      <3>2. \A x \in Reqs \ {r} :
              /\ req'[x].pc = req[x].pc
              /\ req'[x].next = req[x].next /\ req'[x].prior = req[x].prior
        BY <2>3 DEF Requests
      <3>. QED  BY <2>1, <2>3, <3>1, <3>2 DEF Free
    <2>. QED  BY <1>13, <2>2, <2>3 DEF ApplySuccessfulUpdate
  <1>14. ASSUME NEW r \in Reqs, Uninstall(r)  PROVE Engine'
    BY <1>14 DEF Uninstall, End, Idle, Free
  <1>15. ASSUME NEW r \in Reqs, Observe(r)  PROVE Engine'
    BY <1>15 DEF Observe, End, Idle, Requests
  <1>16. ASSUME NEW r \in Reqs, StoreObserved(r)  PROVE Engine'
    BY <1>16 DEF StoreObserved, End, Idle
  <1>. QED
    BY <1>1, <1>2, <1>3, <1>4, <1>5, <1>6, <1>7, <1>8, <1>9, <1>10, <1>11, <1>12,
       <1>13, <1>14, <1>15, <1>16 DEF Next, Step

\* Every step keeps the published ports those of the containers.
LEMMA FollowingStep ==
    ASSUME TypeOK, Engine, Following, [Next]_vars
    PROVE  Following'
  <1>. USE DEF TypeOK, Following
  <1>1. CASE UNCHANGED <<deployed, published>>
    BY <1>1
  <1>2. ASSUME NEW r \in Reqs, ComposeUp(r)  PROVE Following'
    BY <1>2, PublicationsType, PartlyType DEF ComposeUp
  <1>3. ASSUME NEW r \in Reqs, ComposeAction(r)  PROVE Following'
    BY <1>3, PublicationsType, PartlyType DEF ComposeAction, NoPorts
  <1>4. ASSUME NEW r \in Reqs, Deploy(r)  PROVE Following'
    <2>1. PICK old \in newest, m \in Manifests :
            LET new == RenderedPorts(m, CarriedPorts(old.manifest, req[r].eps)) IN
              /\ deployed' \in {deployed, new}
              /\ published' \in Publications(deployed') \/ published' \in Partly(deployed')
      BY <1>4 DEF Deploy
    <2>2. deployed' \in Maps
      <3>1. old \in Revisions
        OBVIOUS
      <3>. QED  BY <2>1, <3>1, CarriedOver
    <2>. QED  BY <2>1, <2>2, PublicationsType, PartlyType
  <1>5. ASSUME NEW r \in Reqs, Rollback(r)  PROVE Following'
    <2>1. req[r].prior.ports \in Maps
      BY <1>5 DEF Rollback, Engine, Revisions
    <2>. QED  BY <1>5, <2>1, PublicationsType, PartlyType DEF Rollback
  <1>6. ASSUME NEW r \in Reqs, Uninstall(r)  PROVE Following'
    BY <1>6 DEF Uninstall, NoPorts
  <1>7. ASSUME NEW r \in Reqs,
               \/ InstallApp(r) \/ LoadInstance(r) \/ UpdatePreview(r) \/ CreateOperation(r)
               \/ Refuse(r) \/ HealthGateFails(r) \/ ApplySuccessfulUpdate(r)
               \/ Observe(r) \/ StoreObserved(r)
        PROVE  UNCHANGED <<deployed, published>>
    BY <1>7 DEF InstallApp, LoadInstance, UpdatePreview, CreateOperation, Refuse,
                HealthGateFails, ApplySuccessfulUpdate, Observe, StoreObserved
  <1>8. Crash \/ UNCHANGED vars => UNCHANGED <<deployed, published>>
    BY DEF Crash, vars
  <1>. QED
    BY <1>1, <1>2, <1>3, <1>4, <1>5, <1>6, <1>7, <1>8 DEF Next, Step

\* What endpointModels lists is what RenderComposeFiles renders of one map.
LEMMA ModelsList ==
    ASSUME NEW m \in Manifests, NEW ports \in Maps
    PROVE  ListOf(endpointModels(m, ports),
                  [manifest |-> m, ports |-> RenderedPorts(m, ports)])
  <1>1. \A k \in DOMAIN Endpoints[m] : Endpoints[m][k].port \in EndpointPorts(m)
    BY DEF EndpointPorts
  <1>. QED  BY <1>1, RenderedType DEF ListOf, Shows, endpointModels

\* A step that commits nothing and changes no list keeps them lists of revisions.
LEMMA CopiesKept ==
    ASSUME Copies, UNCHANGED <<life, rev, row, compose, past, torn>>,
           \A x \in Reqs :
             \/ req'[x].pc = "idle"
             \/ /\ req[x].pc # "idle"
                /\ req'[x].eps = req[x].eps /\ req'[x].stale = req[x].stale
    PROVE  Copies'
  BY DEF Copies, FromRevision, Current

\* Every step keeps every copy the list of a revision.
LEMMA CopiesStep ==
    ASSUME TypeOK, Engine, Copies, [Next]_vars
    PROVE  Copies'
  <1>. USE DEF TypeOK
  <1>e. ASSUME NEW r \in Reqs, UNCHANGED <<life, rev, row, compose, past, torn>>, End(r)
        PROVE  Copies'
    <2>1. \A x \in Reqs : req'[x].pc = "idle" \/ req'[x] = req[x]
      BY <1>e DEF End, Idle
    <2>. QED  BY <1>e, CopiesKept, <2>1
  <1>g. ASSUME NEW r \in Reqs, NEW x, req[r].pc # "idle", Goto(r, x),
               UNCHANGED <<life, rev, row, compose, past, torn>>
        PROVE  Copies'
    <2>1. req'[r].eps = req[r].eps /\ req'[r].stale = req[r].stale
      BY <1>g DEF Goto, Requests
    <2>2. \A y \in Reqs \ {r} : req'[y] = req[y]
      BY <1>g DEF Goto
    <2>. QED  BY <1>g, CopiesKept, <2>1, <2>2
  <1>c. ASSUME NEW r \in Reqs, req[r].pc = "run", Completed(r),
               UNCHANGED <<life, rev, row, compose, past, torn>>
        PROVE  Copies'
    <2>1. req'[r].eps = req[r].eps /\ req'[r].stale = req[r].stale
      BY <1>c DEF Completed, Observing, Requests
    <2>2. \A y \in Reqs \ {r} : req'[y] = req[y]
      BY <1>c DEF Completed
    <2>. QED  BY <1>c, CopiesKept, <2>1, <2>2
  <1>1. CASE UNCHANGED vars
    BY <1>1, CopiesKept DEF vars
  <1>2. CASE Crash
    BY <1>2, CopiesKept DEF Crash, Idle
  <1>3. ASSUME NEW r \in Reqs, InstallApp(r)  PROVE Copies'
    <2>0. PICK m \in Manifests : \E ports \in ChosenPorts(m) :
            /\ rev' = m
            /\ row' = endpointModels(m, ports)
            /\ compose' = RenderedPorts(m, ports)
            /\ req' = [req EXCEPT ![r] = [Idle EXCEPT !.pc = "run", !.eps = endpointModels(m, ports)]]
      BY <1>3 DEF InstallApp
    <2>1. PICK ports \in ChosenPorts(m) :
            /\ rev' = m
            /\ row' = endpointModels(m, ports)
            /\ compose' = RenderedPorts(m, ports)
            /\ req' = [req EXCEPT ![r] = [Idle EXCEPT !.pc = "run", !.eps = endpointModels(m, ports)]]
      BY <2>0
    <2>2. ListOf(row', Current')
      BY <2>1, ChosenType, ModelsList DEF Current
    <2>3. req'[r].eps = row'
      BY <2>1 DEF Idle
    <2>4. \A x \in Reqs \ {r} : req'[x].pc = "idle"
      BY <1>3, <2>1 DEF InstallApp, Engine
    <2>. QED  BY <2>2, <2>3, <2>4 DEF Copies, FromRevision
  <1>4. ASSUME NEW r \in Reqs, LoadInstance(r)  PROVE Copies'
    <2>1. /\ req'[r].eps = row /\ req'[r].stale = torn
          /\ \A x \in Reqs \ {r} : req'[x] = req[x]
      BY <1>4 DEF LoadInstance, Idle
    <2>2. UNCHANGED <<life, rev, row, compose, past, torn>> /\ life = "live"
      BY <1>4 DEF LoadInstance
    <2>. QED  BY <2>1, <2>2 DEF Copies, FromRevision, Current
  <1>5. ASSUME NEW r \in Reqs, UpdatePreview(r)  PROVE Copies'
    <2>1. req'[r].eps = req[r].eps /\ req'[r].stale = req[r].stale
      BY <1>5 DEF UpdatePreview, Requests
    <2>2. \A y \in Reqs \ {r} : req'[y] = req[y]
      BY <1>5 DEF UpdatePreview
    <2>. QED  BY <1>5, CopiesKept, <2>1, <2>2 DEF UpdatePreview
  <1>6. ASSUME NEW r \in Reqs, CreateOperation(r)  PROVE Copies'
    BY <1>6, <1>g DEF CreateOperation
  <1>7. ASSUME NEW r \in Reqs, Refuse(r)  PROVE Copies'
    BY <1>7, <1>e DEF Refuse
  <1>8. ASSUME NEW r \in Reqs, ComposeUp(r)  PROVE Copies'
    BY <1>8, <1>c, <1>e DEF ComposeUp
  <1>9. ASSUME NEW r \in Reqs, ComposeAction(r)  PROVE Copies'
    BY <1>9, <1>c, <1>e DEF ComposeAction
  <1>10. ASSUME NEW r \in Reqs, Deploy(r)  PROVE Copies'
    <2>1. PICK old \in newest, m \in Manifests, x \in {"record", "undo"} :
            req' = [req EXCEPT ![r].pc = x, ![r].prior = old, ![r].next = m]
      BY <1>10 DEF Deploy
    <2>2. req[r].pc = "run" /\ UNCHANGED <<life, rev, row, compose, past, torn>>
      BY <1>10 DEF Deploy
    <2>3. req'[r].eps = req[r].eps /\ req'[r].stale = req[r].stale
      BY <2>1 DEF Requests
    <2>4. \A y \in Reqs \ {r} : req'[y] = req[y]
      BY <2>1
    <2>. QED  BY CopiesKept, <2>2, <2>3, <2>4
  <1>11. ASSUME NEW r \in Reqs, HealthGateFails(r)  PROVE Copies'
    BY <1>11, <1>g DEF HealthGateFails
  <1>12. ASSUME NEW r \in Reqs, Rollback(r)  PROVE Copies'
    BY <1>12, <1>e DEF Rollback
  <1>13. ASSUME NEW r \in Reqs, ApplySuccessfulUpdate(r)  PROVE Copies'
    <2>. DEFINE ports == CarriedPorts(req[r].prior.manifest, req[r].eps)
                eps   == endpointModels(req[r].next, ports)
    <2>1. ports \in Maps /\ req[r].next \in Manifests
      BY <1>13, CarriedOver DEF ApplySuccessfulUpdate, Engine
    <2>2. ListOf(eps, [manifest |-> req[r].next, ports |-> RenderedPorts(req[r].next, ports)])
      <3>. HIDE DEF ports
      <3>. QED  BY <2>1, ModelsList
    <2>. HIDE DEF ports, eps
    <2>3. CASE End(r) /\ UNCHANGED <<rev, row, compose, past, newest, torn>>
      BY <1>13, <1>e, <2>3 DEF ApplySuccessfulUpdate
    <2>4. CASE /\ rev' = req[r].next /\ row' = eps /\ torn' = FALSE
               /\ compose' = RenderedPorts(req[r].next, ports)
               /\ past' = past \cup {Current} /\ newest' \in NewestWith(Current')
               /\ req' = [x \in Reqs |->
                         IF x = r THEN [Observing(r) EXCEPT !.eps = eps, !.stale = FALSE]
                         ELSE IF req[x].pc = "idle" THEN req[x]
                         ELSE [req[x] EXCEPT !.stale = TRUE]]
      <3>1. ListOf(eps, Current')
        BY <2>2, <2>4 DEF Current
      <3>2. req'[r].eps = eps
        BY <2>4 DEF Observing, Requests
      <3>3. ASSUME NEW x \in Reqs \ {r}, req'[x].pc # "idle"
            PROVE  /\ req[x].pc # "idle" /\ req'[x].eps = req[x].eps /\ req'[x].stale
        BY <2>4, <3>3 DEF Requests
      <3>4. life' = "live" => life = "live"
        BY <1>13 DEF ApplySuccessfulUpdate
      <3>5. \A x \in Reqs \ {r} : life' = "live" /\ req'[x].pc # "idle"
                                    => \E v \in past' : ListOf(req'[x].eps, v)
        BY <2>4, <3>3, <3>4 DEF Copies, FromRevision
      <3>. QED  BY <2>4, <3>1, <3>2, <3>3, <3>5 DEF Copies, FromRevision
    <2>. QED  BY <1>13, <2>3, <2>4 DEF ApplySuccessfulUpdate, ports, eps
  <1>14. ASSUME NEW r \in Reqs, Uninstall(r)  PROVE Copies'
    <2>1. CASE life' = "gone"
      BY <2>1 DEF Copies
    <2>2. CASE UNCHANGED <<life, rev, row, compose, past>>
      BY <1>14, <1>e, <2>2 DEF Uninstall
    <2>. QED  BY <1>14, <2>1, <2>2 DEF Uninstall
  <1>15. ASSUME NEW r \in Reqs, Observe(r)  PROVE Copies'
    <2>1. UNCHANGED <<life, rev, row, compose, past, torn>> /\ req[r].pc = "observe"
      BY <1>15 DEF Observe
    <2>2. CASE End(r)
      BY <1>e, <2>1, <2>2
    <2>3. CASE req' = [req EXCEPT ![r].pc = "store", ![r].eps = updateEndpoints(@, published)]
      <3>1. DOMAIN published \subseteq AppPorts
        BY MapsElim
      <3>2. req'[r].eps = updateEndpoints(req[r].eps, published) /\ req'[r].stale = req[r].stale
        BY <2>3 DEF Requests
      <3>3. \A v : ListOf(req[r].eps, v) => ListOf(req'[r].eps, v)
        BY <3>1, <3>2, UpdateKeepsList
      <3>4. \A y \in Reqs \ {r} : req'[y] = req[y]
        BY <2>3
      <3>. QED  BY <2>1, <3>2, <3>3, <3>4 DEF Copies, FromRevision, Current
    <2>. QED  BY <1>15, <2>2, <2>3 DEF Observe
  <1>16. ASSUME NEW r \in Reqs, StoreObserved(r)  PROVE Copies'
    <2>1. \A x \in Reqs : req'[x].pc = "idle" \/ req'[x] = req[x]
      BY <1>16 DEF StoreObserved, End, Idle
    <2>2. /\ req[r].pc = "store" /\ UNCHANGED <<life, rev, compose, past>>
          /\ life = "live" => row' = req[r].eps /\ torn' = req[r].stale
      BY <1>16 DEF StoreObserved
    <2>. QED  BY <2>1, <2>2 DEF Copies, FromRevision, Current
  <1>. QED
    BY <1>1, <1>2, <1>3, <1>4, <1>5, <1>6, <1>7, <1>8, <1>9, <1>10, <1>11, <1>12,
       <1>13, <1>14, <1>15, <1>16 DEF Next, Step

\* Only the worker that owns the app changes its containers or its revision.
LEMMA DeployedStep ==
    ASSUME TypeOK, Engine, Deployed, [Next]_vars
    PROVE  Deployed'
  <1>. USE DEF TypeOK
  <1>w. ASSUME UNCHANGED deployed,
               \A x \in Reqs :
                 req'[x].pc = "record" =>
                   /\ req[x].pc = "record"
                   /\ req'[x].eps = req[x].eps /\ req'[x].next = req[x].next
                   /\ req'[x].prior = req[x].prior
        PROVE  Deployed'
    BY <1>w DEF Deployed
  <1>o. ASSUME NEW r \in Reqs, req[r].pc \in {"run", "undo", "record"},
               req'[r].pc # "record", \A x \in Reqs \ {r} : req'[x].pc = req[x].pc
        PROVE  Deployed'
    BY <1>o DEF Engine, Deployed
  <1>1. ASSUME NEW r \in Reqs,
               \/ LoadInstance(r) \/ UpdatePreview(r) \/ CreateOperation(r) \/ Refuse(r)
               \/ HealthGateFails(r) \/ Observe(r) \/ StoreObserved(r)
        PROVE  Deployed'
    <2>1. UNCHANGED deployed /\ \A x \in Reqs \ {r} : req'[x] = req[x]
      BY <1>1 DEF LoadInstance, UpdatePreview, CreateOperation, Refuse, HealthGateFails,
                  Observe, StoreObserved, Goto, End
    <2>2. req'[r].pc # "record"
      <3>1. CASE LoadInstance(r)
        BY <3>1 DEF LoadInstance, Idle
      <3>2. CASE UpdatePreview(r)
        BY <3>2 DEF UpdatePreview, Requests
      <3>3. CASE CreateOperation(r) \/ HealthGateFails(r)
        BY <3>3 DEF CreateOperation, HealthGateFails, Goto, Requests
      <3>4. CASE Refuse(r) \/ StoreObserved(r) \/ Observe(r)
        BY <3>4 DEF Refuse, StoreObserved, Observe, End, Idle, Requests
      <3>. QED  BY <1>1, <3>1, <3>2, <3>3, <3>4
    <2>. QED  BY <1>w, <2>1, <2>2
  <1>2. ASSUME NEW r \in Reqs,
               ComposeUp(r) \/ ComposeAction(r) \/ Rollback(r) \/ Uninstall(r)
        PROVE  Deployed'
    <2>1. /\ req[r].pc \in {"run", "undo"}
          /\ req' = [req EXCEPT ![r] = Idle] \/ req' = [req EXCEPT ![r] = Observing(r)]
      BY <1>2 DEF ComposeUp, ComposeAction, Rollback, Uninstall, End, Completed
    <2>2. Idle.pc = "idle" /\ Observing(r).pc = "observe"
      BY DEF Idle, Observing, Requests
    <2>3. req'[r] \in {Idle, Observing(r)} /\ \A x \in Reqs \ {r} : req'[x] = req[x]
      BY <2>1
    <2>4. req'[r].pc # "record"
      BY <2>2, <2>3
    <2>. QED  BY <1>o, <2>1, <2>3, <2>4
  <1>3. ASSUME NEW r \in Reqs, Deploy(r)  PROVE Deployed'
    <2>1. PICK old \in newest, m \in Manifests :
            LET new == RenderedPorts(m, CarriedPorts(old.manifest, req[r].eps)) IN
              \/ /\ deployed' = new
                 /\ req' = [req EXCEPT ![r].pc = "record", ![r].prior = old, ![r].next = m]
              \/ req' = [req EXCEPT ![r].pc = "undo", ![r].prior = old, ![r].next = m]
      BY <1>3 DEF Deploy
    <2>2. req[r].pc = "run"
      BY <1>3 DEF Deploy
    <2>3. \A x \in Reqs \ {r} : req'[x] = req[x] /\ req[x].pc # "record"
      BY <2>1, <2>2 DEF Engine
    <2>4. CASE req' = [req EXCEPT ![r].pc = "undo", ![r].prior = old, ![r].next = m]
      <3>1. req'[r].pc = "undo"
        BY <2>4 DEF Requests
      <3>. QED  BY <2>3, <3>1 DEF Deployed
    <2>5. CASE /\ deployed' = RenderedPorts(m, CarriedPorts(old.manifest, req[r].eps))
               /\ req' = [req EXCEPT ![r].pc = "record", ![r].prior = old, ![r].next = m]
      <3>1. req'[r].next = m /\ req'[r].prior = old /\ req'[r].eps = req[r].eps
        BY <2>5 DEF Requests
      <3>. QED  BY <2>3, <2>5, <3>1 DEF Deployed
    <2>. QED  BY <2>1, <2>4, <2>5
  <1>4. ASSUME NEW r \in Reqs, ApplySuccessfulUpdate(r)  PROVE Deployed'
    <2>1. \A x \in Reqs : req'[x].pc # "record"
      <3>1. req[r].pc = "record" /\ \A x \in Reqs \ {r} : req[x].pc # "record"
        BY <1>4 DEF ApplySuccessfulUpdate, Engine
      <3>2. \A x \in Reqs \ {r} : req'[x].pc = req[x].pc
        BY <1>4 DEF ApplySuccessfulUpdate, End, Requests
      <3>3. req'[r].pc \in {"idle", "observe"}
        <4>1. CASE End(r)
          BY <4>1 DEF End, Idle
        <4>2. CASE \E eps : req'[r] = [Observing(r) EXCEPT !.eps = eps, !.stale = FALSE]
          BY <4>2 DEF Observing, Requests
        <4>. QED  BY <1>4, <4>1, <4>2 DEF ApplySuccessfulUpdate
      <3>. QED  BY <3>1, <3>2, <3>3
    <2>. QED  BY <2>1 DEF Deployed
  <1>5. ASSUME NEW r \in Reqs, InstallApp(r)  PROVE Deployed'
    <2>1. \A x \in Reqs : req'[x].pc # "record"
      BY <1>5 DEF InstallApp, Engine, Idle
    <2>. QED  BY <2>1 DEF Deployed
  <1>6. CASE Crash
    BY <1>6 DEF Crash, Idle, Deployed
  <1>7. CASE UNCHANGED vars
    BY <1>7, <1>w DEF vars
  <1>. QED
    BY <1>1, <1>2, <1>3, <1>4, <1>5, <1>6, <1>7 DEF Next, Step

-----------------------------------------------------------------------------
(* The theorems.                                                            *)

\* Installs, updates, rollbacks, observations and crashes keep the inductive
\* invariant.
THEOREM Invariance == Spec => []IInv
  <1>1. Init => IInv
    <2>. SUFFICES ASSUME Init  PROVE IInv
      OBVIOUS
    <2>1. TypeOK
      BY NoPortsType, EmptyType, IdleType DEF Init, TypeOK
    <2>2. Engine
      BY DEF Init, Engine, Idle
    <2>3. Following
      BY DEF Init, Following, NoPorts
    <2>4. Copies
      BY DEF Init, Copies
    <2>5. Deployed
      BY DEF Init, Deployed, Idle
    <2>. QED  BY <2>1, <2>2, <2>3, <2>4, <2>5 DEF IInv
  <1>2. IInv /\ [Next]_vars => IInv'
    BY TypeStep, EngineStep, FollowingStep, CopiesStep, DeployedStep DEF IInv
  <1>. QED  BY <1>1, <1>2, PTL DEF Spec

\* The row, the mappings and the requests keep their types, for any manifests
\* and whatever the URLs become.
THEOREM TypeCorrect == Spec => []TypeOK
  <1>1. IInv => TypeOK
    BY DEF IInv
  <1>. QED  BY <1>1, Invariance, PTL

\* The URLs of an app are those of one of its revisions (UrlsOfARevision), for
\* any manifests, ports and number of concurrent requests: also where host ports
\* are numbers of container ports, and whatever overtakes what.
THEOREM UrlsOfOneRevision == Spec => []UrlsOfARevision
  <1>1. ASSUME IInv, life = "live", ~torn, NEW k \in DOMAIN row,
               Endpoints[rev][k].port \in DOMAIN published,
               deployed[Endpoints[rev][k].port] = compose[Endpoints[rev][k].port],
               compose[Endpoints[rev][k].port] \notin AppPorts \cup {0}
        PROVE  row[k].url = published[Endpoints[rev][k].port]
    <2>1. ListOf(row, Current)
      BY <1>1 DEF IInv, Copies, FromRevision
    <2>2. row[k].url = compose[Endpoints[rev][k].port]
      BY <1>1, <2>1 DEF ListOf, Shows, Current
    <2>3. published[Endpoints[rev][k].port] = deployed[Endpoints[rev][k].port]
      BY <1>1 DEF IInv, Following
    <2>. QED  BY <1>1, <2>2, <2>3
  <1>2. IInv => UrlsOfARevision
    BY <1>1 DEF UrlsOfARevision, IInv, Copies, FromRevision
  <1>. QED  BY <1>2, Invariance, PTL

\* From a list of revision v every port is carried over by its label.
LEMMA CarriesList ==
    ASSUME NEW m \in Manifests, NEW eps \in EndpointLists, NEW v, ListOf(eps, v),
           NEW p \in EndpointPorts(m)
    PROVE  CarriedFrom(v, m, p, Lookup(CarriedPorts(m, eps), p))
  <1>. DEFINE At(q) == CHOOSE k \in Kept(m, eps) : Endpoints[m][k].port = q
  <1>1. CASE \E k \in Kept(m, eps) : Endpoints[m][k].port = p
    <2>. DEFINE k == At(p)
                j == LastOf(SameLabel(m, At(p), eps))
    <2>1. k \in Kept(m, eps) /\ Endpoints[m][k].port = p
      BY <1>1
    <2>2. p \in DOMAIN CarriedPorts(m, eps)
      BY <1>1 DEF CarriedPorts
    <2>3. Lookup(CarriedPorts(m, eps), p) = eps[j].url
      BY <2>2 DEF CarriedPorts, Lookup, endpointHostPort
    <2>4. j \in SameLabel(m, k, eps)
      <3>1. SameLabel(m, k, eps) # {}
        BY <2>1 DEF Kept
      <3>2. SameLabel(m, k, eps) \in SUBSET (1..Len(eps)) /\ Len(eps) \in Nat
        BY ListElim DEF SameLabel
      <3>. HIDE DEF At
      <3>. QED  BY <3>1, <3>2, LastExists
    <2>. HIDE DEF k, j, At
    <2>5. /\ j \in DOMAIN Endpoints[v.manifest]
          /\ Endpoints[v.manifest][j].label = Endpoints[m][k].label
          /\ Shows(eps[j].url, v.ports[Endpoints[v.manifest][j].port])
      BY <2>4 DEF SameLabel, ListOf
    <2>6. k \in DOMAIN Endpoints[m]
      BY <2>1 DEF Kept
    <2>. QED  BY <2>1, <2>3, <2>5, <2>6 DEF CarriedFrom
  <1>2. CASE ~ \E k \in Kept(m, eps) : Endpoints[m][k].port = p
    <2>1. Lookup(CarriedPorts(m, eps), p) = 0
      BY <1>2 DEF CarriedPorts, Lookup
    <2>2. PICK k \in DOMAIN Endpoints[m] : Endpoints[m][k].port = p
      BY DEF EndpointPorts
    <2>3. SameLabel(m, k, eps) = {}
      BY <1>2, <2>2 DEF Kept
    <2>4. {j \in DOMAIN Endpoints[v.manifest] :
             Endpoints[v.manifest][j].label = Endpoints[m][k].label} = {}
      BY <2>3 DEF SameLabel, ListOf
    <2>. QED  BY <2>1, <2>2, <2>4 DEF CarriedFrom
  <1>. QED  BY <1>1, <1>2

\* An update brings up the ports of one revision, the current unless its copy of
\* the row was overtaken, and records what it brought up (PortsKept): for any
\* manifests, also with equal labels, and any ports.
THEOREM KeepsPorts == Spec => PortsKept
  <1>1. ASSUME IInv, [Next]_vars, NEW r \in Reqs,
               req[r].pc = "run", req'[r].pc \in {"record", "undo"}, deployed' # deployed
        PROVE  LET m == req'[r].prior.manifest IN
               /\ newest = {Current} => req'[r].prior = Current
               /\ \E v \in past \cup {Current} :
                    /\ v = Current \/ req[r].stale
                    /\ \A p \in EndpointPorts(m) \cap EndpointPorts(req'[r].next) :
                         CarriedFrom(v, m, p, deployed'[p])
    <2>1. Deploy(r)
      <3>1. ASSUME NEW x \in Reqs, Step(x), ~Deploy(x)
            PROVE  req'[r].pc \notin {"record", "undo"} \/ req'[r].pc = req[r].pc
                     \/ req[r].pc = "record"
        <4>0. req \in [Reqs -> Requests]
          BY <1>1 DEF IInv, TypeOK
        <4>1. CASE x # r
          <5>1. CASE ApplySuccessfulUpdate(x)
            BY <1>1, <4>1, <5>1 DEF ApplySuccessfulUpdate, End, IInv, TypeOK, Requests
          <5>2. CASE ~ApplySuccessfulUpdate(x)
            <6>1. req'[r] = req[r]
              <7>1. ASSUME End(x) \/ Completed(x) \/ \E y : Goto(x, y)  PROVE req'[r] = req[r]
                BY <4>0, <4>1, <7>1 DEF End, Completed, Goto
              <7>2. CASE InstallApp(x) \/ LoadInstance(x) \/ UpdatePreview(x) \/ Observe(x)
                BY <4>0, <4>1, <7>1, <7>2 DEF InstallApp, LoadInstance, UpdatePreview, Observe
              <7>3. CASE \/ CreateOperation(x) \/ Refuse(x) \/ ComposeUp(x) \/ ComposeAction(x)
                         \/ HealthGateFails(x) \/ Rollback(x) \/ Uninstall(x) \/ StoreObserved(x)
                BY <7>1, <7>3 DEF CreateOperation, Refuse, ComposeUp, ComposeAction,
                   HealthGateFails, Rollback, Uninstall, StoreObserved
              <7>. QED  BY <3>1, <5>2, <7>2, <7>3 DEF Step
            <6>. QED  BY <6>1
          <5>. QED  BY <5>1, <5>2
        <4>2. CASE x = r /\ (ComposeUp(r) \/ ComposeAction(r) \/ Uninstall(r) \/ Refuse(r))
          <5>1. Idle.pc = "idle" /\ Observing(r).pc = "observe"
            BY DEF Idle, Observing, IInv, TypeOK, Requests
          <5>2. req'[r] \in {Idle, Observing(r)}
            BY <1>1, <4>2 DEF ComposeUp, ComposeAction, Uninstall, Refuse, End, Completed,
               IInv, TypeOK
          <5>. QED  BY <5>1, <5>2
        <4>3. x = r => Step(r) /\ req[r].pc = "run"
          BY <1>1, <3>1
        <4>. QED
          BY <3>1, <4>1, <4>2, <4>3 DEF Step, InstallApp, LoadInstance, UpdatePreview,
             CreateOperation, HealthGateFails, Rollback, ApplySuccessfulUpdate, Observe,
             StoreObserved
      <3>2. ASSUME NEW x \in Reqs, Deploy(x)  PROVE x = r
        BY <1>1, <3>2 DEF Deploy, IInv, Engine
      <3>3. ~Crash /\ ~UNCHANGED vars
        BY <1>1 DEF Crash, vars, Idle
      <3>. QED  BY <1>1, <3>1, <3>2, <3>3 DEF Next
    <2>2. PICK old \in newest, m \in Manifests :
            /\ deployed' \in {deployed, RenderedPorts(m, CarriedPorts(old.manifest, req[r].eps))}
            /\ \E x \in {"record", "undo"} :
                 req' = [req EXCEPT ![r].pc = x, ![r].prior = old, ![r].next = m]
      BY <2>1 DEF Deploy
    <2>3. req'[r].next = m /\ req'[r].prior = old
      <3>1. req \in [Reqs -> Requests]
        BY <1>1 DEF IInv, TypeOK
      <3>. QED  BY <2>2, <3>1 DEF Requests
    <2>4. /\ life = "live" /\ old \in Revisions /\ old.manifest \in Manifests
          /\ req[r].eps \in EndpointLists
      BY <1>1 DEF IInv, Engine, TypeOK, Requests, Revisions
    <2>5. PICK v \in past \cup {Current} : ListOf(req[r].eps, v) /\ (v = Current \/ req[r].stale)
      BY <1>1, <2>4 DEF IInv, Copies, FromRevision
    <2>6. CarriedPorts(old.manifest, req[r].eps) \in Maps
      BY <2>4, CarriedType
    <2>7. ASSUME NEW p \in EndpointPorts(old.manifest) \cap EndpointPorts(m)
          PROVE  CarriedFrom(v, old.manifest, p, deployed'[p])
      <3>1. deployed'[p] = Lookup(CarriedPorts(old.manifest, req[r].eps), p)
        BY <1>1, <2>2, <2>6, RenderedType
      <3>. QED  BY <2>4, <2>5, <3>1, CarriesList
    <2>8. newest = {Current} => old = Current
      OBVIOUS
    <2>. QED  BY <2>3, <2>5, <2>7, <2>8
  <1>2. ASSUME IInv, [Next]_vars, NEW r \in Reqs,
               req[r].pc = "record", req'[r].pc = "observe"
        PROVE  compose' = deployed
    <2>1. ApplySuccessfulUpdate(r)
      <3>1. ASSUME NEW x \in Reqs, Step(x), ~ApplySuccessfulUpdate(x)
            PROVE  req'[r].pc # "observe"
        BY <1>2, <3>1 DEF Step, InstallApp, LoadInstance, UpdatePreview, CreateOperation, Refuse,
             ComposeUp, ComposeAction, HealthGateFails, Rollback, Deploy,
             Uninstall, Observe, StoreObserved, Goto, End, Completed, Observing, Idle,
             IInv, TypeOK, Requests
      <3>2. ASSUME NEW x \in Reqs, ApplySuccessfulUpdate(x)  PROVE x = r
        BY <1>2, <3>2 DEF ApplySuccessfulUpdate, IInv, Engine
      <3>3. ~Crash /\ ~UNCHANGED vars
        BY <1>2 DEF Crash, vars, Idle
      <3>. QED  BY <1>2, <3>1, <3>2, <3>3 DEF Next
    <2>2. ~End(r)
      BY <1>2 DEF End, Idle, IInv, TypeOK
    <2>3. compose' = RenderedPorts(req[r].next, CarriedPorts(req[r].prior.manifest, req[r].eps))
      BY <2>1, <2>2 DEF ApplySuccessfulUpdate
    <2>. QED  BY <1>2, <2>3 DEF IInv, Deployed
  <1>3. IInv /\ [Next]_vars
          => [\A r \in Reqs :
                /\ req[r].pc = "run" /\ req'[r].pc \in {"record", "undo"} /\ deployed' # deployed =>
                     LET m == req'[r].prior.manifest IN
                     /\ newest = {Current} => req'[r].prior = Current
                     /\ \E v \in past \cup {Current} :
                          /\ v = Current \/ req[r].stale
                          /\ \A p \in EndpointPorts(m) \cap EndpointPorts(req'[r].next) :
                               CarriedFrom(v, m, p, deployed'[p])
                /\ req[r].pc = "record" /\ req'[r].pc = "observe" => compose' = deployed]_vars
    BY <1>1, <1>2
  <1>. QED  BY <1>3, Invariance, PTL DEF Spec, PortsKept
=============================================================================
