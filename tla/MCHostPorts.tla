----------------------------- MODULE MCHostPorts -----------------------------
(* Instance of HostPorts for TLC. *)
EXTENDS HostPorts, TLC

CONSTANTS i1, i2, i3

\* One manifest fixes one of its ports, outside the range the kernel allocates.
OneFixed ==
    [i \in Installs |-> [e \in Endpoints |-> IF i = i3 /\ e = 80 THEN 8080 ELSE NoPort]]
=============================================================================
