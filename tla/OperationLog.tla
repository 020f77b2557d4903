---------------------------- MODULE OperationLog ----------------------------
(***************************************************************************)
(* What the operation engine promises to a client that polls an operation: *)
(* a log of operations in which every app has at most one unsettled entry, *)
(* an entry settles at most once, and a settled entry is never rewritten,  *)
(* only removed together with its app.  The promise of persistence is that *)
(* no entry is ever lost otherwise: crashes and restarts are not visible   *)
(* here except as Interrupt.                                               *)
(***************************************************************************)
CONSTANT Ops

VARIABLES
    log,     \* the status of each operation
    subject  \* the app an operation is for, itself an element of Ops

logVars == <<log, subject>>

Open   == {"pending", "running"}
Closed == {"completed", "failed", "cancelled"}

LogInit ==
    /\ log = [p \in Ops |-> "unborn"]
    /\ subject \in [Ops -> Ops]

\* Which app an operation is for may be decided until it is accepted.
Address(p, a) ==
    /\ log[p] = "unborn"
    /\ subject' = [subject EXCEPT ![p] = a]
    /\ UNCHANGED log

Accept(p) ==
    /\ log[p] = "unborn"
    /\ \A q \in Ops : subject[q] = subject[p] => log[q] \notin Open
    /\ log' = [log EXCEPT ![p] = "pending"]
    /\ UNCHANGED subject

Begin(p) ==
    /\ log[p] = "pending"
    /\ log' = [log EXCEPT ![p] = "running"]
    /\ UNCHANGED subject

Settle(p, s) ==
    /\ log[p] \in Open
    /\ log' = [log EXCEPT ![p] = s]
    /\ UNCHANGED subject

\* A restart closes everything that was open.
Interrupt ==
    /\ log' = [p \in Ops |-> IF log[p] \in Open THEN "failed" ELSE log[p]]
    /\ UNCHANGED subject

\* Removing an app removes all its operations.
Remove(a) ==
    /\ log' = [p \in Ops |-> IF subject[p] = a /\ log[p] # "unborn"
                               THEN "removed" ELSE log[p]]
    /\ UNCHANGED subject

LogNext ==
    \/ \E p \in Ops :
         \/ Accept(p)
         \/ Begin(p)
         \/ \E a \in Ops : Address(p, a)
         \/ \E s \in Closed : Settle(p, s)
         \/ Remove(p)
    \/ Interrupt

LogSpec == LogInit /\ [][LogNext]_logVars
=============================================================================
