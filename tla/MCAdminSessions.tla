---------------------------- MODULE MCAdminSessions ----------------------------
(* Instance of AdminSessions for TLC. *)
EXTENDS AdminSessions, TLC

\* Requests are interchangeable, and so are clients.
Symmetry == Permutations(Reqs) \cup Permutations(Clients)
=============================================================================
