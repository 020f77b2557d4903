---------------------------- MODULE AppEndpoints ----------------------------
(***************************************************************************)
(* The endpoint URLs of one app from its install on: the host ports its    *)
(* Compose file asks for, the ports Docker publishes, and the URLs the row *)
(* of the app keeps.  An update carries the host ports over by label, and  *)
(* every observation writes back the whole list of endpoints it read       *)
(* before it asked Docker; another request may commit an update between.   *)
(*                                                                         *)
(* A URL is the port in it: the code only ever builds 127.0.0.1:port, with *)
(* or without a scheme and a path, and its three parsers find that port.   *)
(***************************************************************************)
EXTENDS Naturals, Sequences, FiniteSets

CONSTANTS
    Reqs,           \* places for requests; each is used again and again
    Offered,        \* what they ask for, of Kinds
    Manifests,      \* the manifests the app's source may offer
    Endpoints,      \* Endpoints[m]: sequence of [label, port]
    Declared,       \* Declared[m]: the port strings of the main service, as a
                    \* function from container ports to host ports or 0
    Labels, ContainerPorts, HostPorts,
    MaxPast,        \* bound: earlier revisions that updates start from
    None

Kinds == {"get", "start", "stop", "update", "uninstall"}

\* Port numbers; 0 is "none given".
ASSUME EndpointsAssumption ==
    /\ ContainerPorts \subseteq Nat \ {0} /\ HostPorts \subseteq Nat \ {0}
    /\ Endpoints \in [Manifests -> Seq([label : Labels, port : ContainerPorts])]
    /\ \A m \in Manifests :
         /\ DOMAIN Declared[m] \subseteq ContainerPorts
         /\ \A p \in DOMAIN Declared[m] : Declared[m][p] \in HostPorts \cup {0}
    /\ Offered \subseteq Kinds /\ "install" \notin Kinds
    /\ None \notin Manifests \cup Reqs /\ MaxPast \in Nat

\* The container ports of a manifest's endpoints differ.  The other checks of
\* the function every manifest here has passed.
ValidateManifest(m) ==
    \A j, k \in DOMAIN Endpoints[m] : Endpoints[m][j].port = Endpoints[m][k].port => j = k

VARIABLES
    life,       \* "none", "live" or "gone": the row of the app
    rev,        \* manifest of the current revision: the one committed last
    row,        \* endpoints_json: sequence of [label, url]
    compose,    \* the port mapping in the Compose file of the current revision
    past,       \* the revisions before it: manifest and port mapping of the file
    newest,     \* those that GetLatestRevision may return: it orders revisions by
                \* the second they were created in
    deployed,   \* the mapping the containers were created from
    published,  \* what docker compose ps reports: container port -> host port
    busy,       \* the request whose operation is active
    req,        \* the requests
    torn        \* history: the row has the list of a revision before the current

vars == <<life, rev, row, compose, past, newest, deployed, published, busy, req, torn>>

EndpointPorts(m) == {Endpoints[m][k].port : k \in DOMAIN Endpoints[m]}

\* The container ports the app's manifests map.
AppPorts == UNION {DOMAIN Declared[m] \cup EndpointPorts(m) : m \in Manifests}

\* Port mappings as ParsePortMapping reads them: container port to host port,
\* 0 for a mapping that names none.
Maps == UNION {[S -> HostPorts \cup {0}] : S \in SUBSET AppPorts}

\* A revision is its manifest and the ports of its Compose file.
Revisions == [manifest : Manifests, ports : Maps]

\* The endpoints of an app: the port in a URL is 0 where there was none to give.
EndpointLists == Seq([label : Labels, url : HostPorts \cup {0}])

Places == {"idle", "loaded", "run", "undo", "record", "observe", "store"}

\* eps: the endpoints of the instance in memory; base: the revision the update
\* was previewed against; prior: the revision its worker took for the latest; next:
\* the manifest it deploys; stale: history, eps is the list of a revision before
\* the current.
Requests == [pc : Places, kind : Kinds \cup {"install"}, eps : EndpointLists,
             base : Manifests \cup {None}, prior : Revisions \cup {None},
             next : Manifests \cup {None}, stale : BOOLEAN]

TypeOK ==
    /\ life \in {"none", "live", "gone"}
    /\ rev \in Manifests \cup {None}
    /\ row \in EndpointLists
    /\ past \in SUBSET Revisions /\ newest \in SUBSET Revisions
    /\ compose \in Maps /\ deployed \in Maps /\ published \in Maps
    /\ busy \in Reqs \cup {None}
    /\ req \in [Reqs -> Requests]
    /\ torn \in BOOLEAN

Idle == [pc |-> "idle", kind |-> "install", eps |-> <<>>, base |-> None,
         prior |-> None, next |-> None, stale |-> FALSE]

NoPorts == [p \in {} |-> 0]

Current == [manifest |-> rev, ports |-> compose]

Init ==
    /\ life = "none" /\ rev = None /\ row = <<>>
    /\ compose = NoPorts /\ past = {} /\ newest = {} /\ deployed = NoPorts /\ published = NoPorts
    /\ busy = None /\ req = [r \in Reqs |-> Idle] /\ torn = FALSE

-----------------------------------------------------------------------------
(* Ports.                                                                   *)

\* A Go map read: a missing key is 0.
Lookup(ports, p) == IF p \in DOMAIN ports THEN ports[p] ELSE 0

\* HostPorts: the manifest's fixed mappings, and a free port for every endpoint
\* without one.  Which ports are free is the subject of the module HostPorts.
ChosenPorts(m) ==
    LET fixed == {p \in DOMAIN Declared[m] : Declared[m][p] > 0}
    IN  {f \in [fixed \cup EndpointPorts(m) -> HostPorts] :
           \A p \in fixed : f[p] = Declared[m][p]}

\* Faulty: a declared mapping wins over the port given to the endpoint.
DeclaredWins(m, ports) ==
    [p \in DOMAIN Declared[m] \cup EndpointPorts(m) |->
        IF p \in DOMAIN Declared[m] THEN Declared[m][p] ELSE Lookup(ports, p)]

\* The ports of the main service in the file RenderComposeFiles writes: those
\* declared, and for every endpoint the given one instead.
RenderedPorts(m, ports) ==
    [p \in DOMAIN Declared[m] \cup EndpointPorts(m) |->
        IF p \in EndpointPorts(m) THEN Lookup(ports, p) ELSE Declared[m][p]]

\* Docker publishes host port 0 on a port of its choice.
Publications(map) ==
    {f \in [DOMAIN map -> HostPorts] :
       \A p \in DOMAIN map : map[p] # 0 => f[p] = map[p]}

\* After a command that failed half way some ports may be up.
Partly(map) ==
    UNION {{[p \in S |-> f[p]] : S \in SUBSET DOMAIN map} : f \in Publications(map)}

\* Faulty: the URL has the container port.
ContainerUrls(m, ports) ==
    [k \in DOMAIN Endpoints[m] |->
        [label |-> Endpoints[m][k].label, url |-> Endpoints[m][k].port]]

endpointModels(m, ports) ==
    [k \in DOMAIN Endpoints[m] |->
        [label |-> Endpoints[m][k].label, url |-> Lookup(ports, Endpoints[m][k].port)]]

\* The port in an endpoint's URL, taken for the container port it stands for.
endpointContainerPort(ep) == ep.url

updateEndpoints(eps, hostPorts) ==
    [k \in DOMAIN eps |->
        LET cp == endpointContainerPort(eps[k])
        IN  IF cp \in DOMAIN hostPorts THEN [eps[k] EXCEPT !.url = hostPorts[cp]] ELSE eps[k]]

\* The same port, taken for the host port it is.
endpointHostPort(ep) == ep.url

\* The installed endpoints with the label of the manifest's k-th; the manifest's
\* endpoints that have one.
SameLabel(m, k, eps) == {j \in DOMAIN eps : eps[j].label = Endpoints[m][k].label}

LastOf(S) == CHOOSE j \in S : \A i \in S : i <= j

Kept(m, eps) == {k \in DOMAIN Endpoints[m] : SameLabel(m, k, eps) # {}}

\* Faulty: the ports of the running app are not carried over.
CarryNothing(m, eps) == NoPorts

\* The map runSourceUpdate builds: the old manifest's container ports that have
\* an installed endpoint of the same label; the last one counts.
CarriedPorts(m, eps) ==
    LET At(p) == CHOOSE k \in Kept(m, eps) : Endpoints[m][k].port = p
    IN  [p \in {Endpoints[m][k].port : k \in Kept(m, eps)} |->
            endpointHostPort(eps[LastOf(SameLabel(m, At(p), eps))])]

-----------------------------------------------------------------------------
(* Requests.                                                                *)

Goto(r, s) == req' = [req EXCEPT ![r].pc = s]

End(r) == req' = [req EXCEPT ![r] = Idle]

\* A completed worker observes just as a GET does.
Observing(r) == [req[r] EXCEPT !.pc = "observe", !.kind = "get", !.base = None,
                                  !.prior = None, !.next = None]

Completed(r) == req' = [req EXCEPT ![r] = Observing(r)]

Free(r) == busy' = IF busy = r THEN None ELSE busy

\* InstallApp up to its inserts.
InstallApp(r) ==
    /\ life = "none" /\ req[r].pc = "idle"
    /\ \E m \in {x \in Manifests : ValidateManifest(x)} : \E ports \in ChosenPorts(m) :
         /\ rev' = m
         /\ row' = endpointModels(m, ports)
         /\ compose' = RenderedPorts(m, ports)
         /\ req' = [req EXCEPT ![r] = [Idle EXCEPT !.pc = "run", !.eps = endpointModels(m, ports)]]
    /\ life' = "live" /\ busy' = r /\ newest' = {Current'}
    /\ UNCHANGED <<past, deployed, published, torn>>

\* Every other handler begins by reading the row; a GET then only observes.
LoadInstance(r) ==
    /\ life = "live" /\ req[r].pc = "idle"
    /\ \E k \in Offered :
         req' = [req EXCEPT ![r] = [Idle EXCEPT !.pc = IF k = "get" THEN "observe" ELSE "loaded",
                                                !.kind = k, !.eps = row, !.stale = torn]]
    /\ UNCHANGED <<life, rev, row, compose, past, newest, deployed, published, busy, torn>>

\* An update is previewed later than its handler has read the row.
UpdatePreview(r) ==
    /\ req[r].pc = "loaded" /\ req[r].kind = "update" /\ req[r].base = None
    /\ life = "live"
    /\ req' = [req EXCEPT ![r].base = rev]
    /\ UNCHANGED <<life, rev, row, compose, past, newest, deployed, published, busy, torn>>

\* CreateOperation: at most one operation is active, and its app exists.
CreateOperation(r) ==
    /\ req[r].pc = "loaded" /\ life = "live" /\ busy = None
    /\ req[r].kind = "update" => req[r].base # None
    /\ busy' = r /\ Goto(r, "run")
    /\ UNCHANGED <<life, rev, row, compose, past, newest, deployed, published, torn>>

\* The handler refuses, or something before the first change fails; so does an
\* update whose source is no longer the one previewed.
Refuse(r) ==
    /\ req[r].pc \in {"loaded", "run"}
    /\ End(r) /\ Free(r)
    /\ UNCHANGED <<life, rev, row, compose, past, newest, deployed, published, torn>>

-----------------------------------------------------------------------------
(* Workers.  A worker completes its operation before it observes.           *)

\* docker compose up of the installed app.
ComposeUp(r) ==
    /\ req[r].pc = "run" /\ req[r].kind = "install"
    /\ deployed' = compose /\ Free(r)
    /\ \/ published' \in Publications(compose) /\ Completed(r)
       \/ published' \in Partly(compose) /\ End(r)
    /\ UNCHANGED <<life, rev, row, compose, past, newest, torn>>

\* start and restart publish the containers' ports anew, stop withdraws them.
ComposeAction(r) ==
    /\ req[r].pc = "run" /\ req[r].kind \in {"start", "stop"} /\ Free(r)
    /\ \/ /\ Completed(r)
          /\ IF req[r].kind = "stop" THEN published' = NoPorts
                                     ELSE published' \in Publications(deployed)
       \/ published' \in Partly(deployed) /\ End(r)
    /\ UNCHANGED <<life, rev, row, compose, past, newest, deployed, torn>>

\* The new manifest with the ports of the installed endpoints is brought up.
Deploy(r) ==
    /\ req[r].pc = "run" /\ req[r].kind = "update" /\ req[r].base = rev
    /\ \E old \in newest : \E m \in {x \in Manifests : ValidateManifest(x)} :
         LET new == RenderedPorts(m, CarriedPorts(old.manifest, req[r].eps)) IN
           \/ /\ deployed' = new /\ published' \in Publications(new)
              /\ req' = [req EXCEPT ![r].pc = "record", ![r].prior = old, ![r].next = m]
           \/ /\ deployed' \in {deployed, new} /\ published' \in Partly(deployed')
              /\ req' = [req EXCEPT ![r].pc = "undo", ![r].prior = old, ![r].next = m]
    /\ UNCHANGED <<life, rev, row, compose, past, newest, busy, torn>>

HealthGateFails(r) ==
    /\ req[r].pc = "record" /\ Goto(r, "undo")
    /\ UNCHANGED <<life, rev, row, compose, past, newest, deployed, published, busy, torn>>

\* The prior Compose file is brought up again if the manifest calls that safe.
Rollback(r) ==
    LET old == req[r].prior.ports IN
    /\ req[r].pc = "undo" /\ End(r) /\ Free(r)
    /\ \/ UNCHANGED <<deployed, published>>
       \/ deployed' = old /\ published' \in Publications(old)
       \/ deployed' \in {deployed, old} /\ published' \in Partly(deployed')
    /\ UNCHANGED <<life, rev, row, compose, past, newest, torn>>

\* The new revision's created_at is later than, the same as or earlier than the
\* greatest one.
NewestWith(new) == {{new}, newest \cup {new}, newest}

\* The transaction of ApplySuccessfulUpdate, or its failure: then the new
\* containers run and the database knows only the old revision.
ApplySuccessfulUpdate(r) ==
    /\ req[r].pc = "record" /\ Free(r)
    /\ LET ports == CarriedPorts(req[r].prior.manifest, req[r].eps)
           eps   == endpointModels(req[r].next, ports) IN
         \/ /\ Cardinality(past) < MaxPast
            /\ rev' = req[r].next /\ row' = eps /\ torn' = FALSE
            /\ compose' = RenderedPorts(req[r].next, ports)
            /\ past' = past \cup {Current}
            /\ newest' \in NewestWith(Current')
            /\ req' = [x \in Reqs |->
                         IF x = r THEN [Observing(r) EXCEPT !.eps = eps, !.stale = FALSE]
                         ELSE IF req[x].pc = "idle" THEN req[x]
                         ELSE [req[x] EXCEPT !.stale = TRUE]]
         \/ End(r) /\ UNCHANGED <<rev, row, compose, past, newest, torn>>
    /\ UNCHANGED <<life, deployed, published>>

\* docker compose down and DeleteAppInstance, which deletes the row and, by
\* cascade, its revisions.  An error of the delete is only logged; a command that
\* fails half way has stopped or removed some containers.  The worker of an
\* uninstall has no instance, so it does not observe.
Uninstall(r) ==
    /\ req[r].pc = "run" /\ req[r].kind = "uninstall" /\ End(r) /\ Free(r)
    /\ \/ /\ deployed' = NoPorts /\ published' = NoPorts
          /\ \/ /\ life' = "gone" /\ rev' = None /\ row' = <<>>
                /\ compose' = NoPorts /\ past' = {} /\ newest' = {}
             \/ UNCHANGED <<life, rev, row, compose, past, newest>>
       \/ /\ deployed' \in {deployed, NoPorts}
          /\ \E S \in SUBSET (DOMAIN published \cap DOMAIN deployed') :
               published' = [p \in S |-> published[p]]
          /\ UNCHANGED <<life, rev, row, compose, past, newest>>
    /\ UNCHANGED torn

-----------------------------------------------------------------------------
(* Observation: observeAndUpdateInstance, of a worker or of a GET.          *)

\* docker compose ps, and the URLs it leads to.
Observe(r) ==
    /\ req[r].pc = "observe"
    /\ \/ req' = [req EXCEPT ![r].pc = "store", ![r].eps = updateEndpoints(@, published)]
       \/ End(r)
    /\ UNCHANGED <<life, rev, row, compose, past, newest, deployed, published, busy, torn>>

\* UpdateAppInstanceStatusAndEndpoints writes the whole list.
StoreObserved(r) ==
    /\ req[r].pc = "store" /\ End(r)
    /\ IF life = "live"
         THEN row' = req[r].eps /\ torn' = req[r].stale
         ELSE UNCHANGED <<row, torn>>
    /\ UNCHANGED <<life, rev, compose, past, newest, deployed, published, busy>>

Crash ==
    /\ req' = [r \in Reqs |-> Idle] /\ busy' = None
    /\ UNCHANGED <<life, rev, row, compose, past, newest, deployed, published, torn>>

Step(r) ==
    \/ InstallApp(r) \/ LoadInstance(r) \/ UpdatePreview(r) \/ CreateOperation(r) \/ Refuse(r)
    \/ ComposeUp(r) \/ ComposeAction(r) \/ Deploy(r) \/ HealthGateFails(r)
    \/ Rollback(r) \/ ApplySuccessfulUpdate(r) \/ Uninstall(r)
    \/ Observe(r) \/ StoreObserved(r)

Next == Crash \/ \E r \in Reqs : Step(r)

Spec == Init /\ [][Next]_vars

-----------------------------------------------------------------------------
(* Properties.                                                              *)

\* A port that shows the host port h: h, unless updateEndpoints could take h for a
\* container port of the app and put the port published for it in its place.
Shows(port, h) == port = h \/ h \in AppPorts

\* The list eps is that of revision v: every endpoint with the host port that the
\* Compose file of v asks for.
ListOf(eps, v) ==
    /\ DOMAIN eps = DOMAIN Endpoints[v.manifest]
    /\ \A k \in DOMAIN eps :
         /\ eps[k].label = Endpoints[v.manifest][k].label
         /\ Shows(eps[k].url, v.ports[Endpoints[v.manifest][k].port])

\* The URLs an app shows are those of one revision of it, whatever updates,
\* rollbacks, failures and crashes happened: never a mixture, always the current
\* unless an observation of an older list has overwritten it, and then they lead
\* to the app as far as its containers have the ports of that revision's file.
\* They follow the file, not what Docker publishes: an endpoint the file gives no
\* host port has port 0 in its URL for ever, and a host port that is the number
\* of a container port may be exchanged for another.
UrlsOfARevision ==
    life = "live" =>
      /\ \E v \in past \cup {Current} : ListOf(row, v) /\ (v = Current \/ torn)
      /\ ~torn => \A k \in DOMAIN row :
           LET p == Endpoints[rev][k].port IN
             p \in DOMAIN published /\ deployed[p] = compose[p] /\ compose[p] \notin AppPorts \cup {0}
               => row[k].url = published[p]

\* What an update makes of the endpoint that manifest m has at container port p
\* when it starts from the list of revision v: the host port of v's endpoint with
\* that label, or none if v has no such label.
CarriedFrom(v, m, p, h) ==
    \E k \in DOMAIN Endpoints[m] :
      LET same == {j \in DOMAIN Endpoints[v.manifest] :
                     Endpoints[v.manifest][j].label = Endpoints[m][k].label}
      IN  /\ Endpoints[m][k].port = p
          /\ \/ same = {} /\ h = 0
             \/ \E j \in same : Shows(h, v.ports[Endpoints[v.manifest][j].port])

\* The containers an update brings up, even one that fails and is not undone,
\* keep the endpoints' container ports on the host ports of one revision: the
\* current, or an older one only if the update's handler read the row before
\* another update was committed, or after an observation of an older list.  An
\* endpoint is known by the label that the revision taken for the latest has for
\* its container port; that is an older one only if the clock did not tell it
\* from the current.  Only then can an endpoint that stays lose its port.  What
\* the transaction records is what runs.
PortsKept ==
    [][\A r \in Reqs :
         /\ req[r].pc = "run" /\ req'[r].pc \in {"record", "undo"} /\ deployed' # deployed =>
              LET m == req'[r].prior.manifest IN
              /\ newest = {Current} => req'[r].prior = Current
              /\ \E v \in past \cup {Current} :
                   /\ v = Current \/ req[r].stale
                   /\ \A p \in EndpointPorts(m) \cap EndpointPorts(req'[r].next) :
                        CarriedFrom(v, m, p, deployed'[p])
         /\ req[r].pc = "record" /\ req'[r].pc = "observe" => compose' = deployed]_vars
=============================================================================
