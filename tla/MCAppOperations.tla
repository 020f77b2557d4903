--------------------------- MODULE MCAppOperations ---------------------------
(***************************************************************************)
(* Instances of AppOperations for TLC, and what comments and documents of  *)
(* the repository say of the engine that the code does not do: each of     *)
(* these claims has a run in which TLC refutes it.                         *)
(***************************************************************************)
EXTENDS AppOperations, TLC

\* Requests are interchangeable: no action and no property names one.
RequestSymmetry == Permutations(Reqs)

\* api/handlers.go, SetLifecycle: "When the lifecycle context is cancelled,
\* running operations are marked cancelled."  After a clean exit, then, no
\* operation is still recorded as running.
CancelledIsRecorded == proc = "exited" => \A r \in Reqs : opRow[r] # "running"
=============================================================================
