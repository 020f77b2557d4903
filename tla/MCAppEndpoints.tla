--------------------------- MODULE MCAppEndpoints ---------------------------
(***************************************************************************)
(* An instance of AppEndpoints for TLC: three manifests of one source.     *)
(***************************************************************************)
EXTENDS AppEndpoints, TLC

CONSTANTS m1, m2, m3

\* m2 adds an endpoint whose container port is also a host port in use, m3 swaps
\* the container ports and renames nothing.
SomeEndpoints ==
    m1 :> << [label |-> "web", port |-> 80] >> @@
    m2 :> << [label |-> "web", port |-> 80], [label |-> "api", port |-> 8001] >> @@
    m3 :> << [label |-> "web", port |-> 8001], [label |-> "api", port |-> 80] >>

\* m2 and m3 fix a host port for one endpoint, m1 declares a port that is none.
SomeDeclared ==
    m1 :> (8001 :> 0) @@ m2 :> (80 :> 8002) @@ m3 :> (8001 :> 8002)

RequestSymmetry == Permutations(Reqs)
=============================================================================
