------------------------------ MODULE MCSources ------------------------------
(***************************************************************************)
(* Instances of Sources for TLC, and what a comment of the program says    *)
(* about changed sources that TLC refutes.                                 *)
(***************************************************************************)
EXTENDS Sources, TLC

CONSTANTS c1, c2, k1, k2, a1, r1, i1, u1, u2

\* c1 comes back with other bytes, c2 does not.
MCOffered == {[commit |-> c1, sum |-> k1], [commit |-> c1, sum |-> k2],
              [commit |-> c2, sum |-> k1]}

Symmetry == Permutations(Updates)

\* service.go: drift "will mark the source as changed and block updates".
ChangedBlocksUpdates ==
    [][ src # None /\ src' # None /\ src'.id = src.id /\ src.trust = "changed"
        => src'.pin = src.pin ]_vars
=============================================================================
