---------------------------- MODULE AdminSessions ----------------------------
(***************************************************************************)
(* The administrator and its sessions (auth.Service), behind the login     *)
(* limiter: bootstrap, login, authentication with its purge of expired     *)
(* rows, and logout, by concurrent requests.  A request r also names the   *)
(* token its handler mints.  One step is one transaction, one statement or *)
(* one call of the limiter.                                                *)
(***************************************************************************)
EXTENDS LoginLimiter

CONSTANTS
    Reqs,      \* bootstrap and login requests
    Lifetime,  \* sessionLifetime, in ticks
    NoAdmin

ASSUME SessionsAssumption == Lifetime \in Nat \ {0} /\ NoAdmin \notin Reqs

VARIABLES
    admin,     \* the request whose bootstrap created the row of admins
    sessions,  \* sessions[t]: expires_at of token t's row, 0 if there is none
    pc,        \* where the handler of a request stands
    from,      \* the client a request comes from
    stamp,     \* s.now() as the handler of a request read it
    leaving    \* tokens whose logout passed requireAuth

db   == <<admin, sessions>>
vars == <<limiterVars, db, pc, from, stamp, leaving>>

Busy == {"bootstrap", "login", "prepared", "verified", "issued"}

TypeOK ==
    /\ LimiterTypeOK
    /\ admin \in Reqs \cup {NoAdmin}
    /\ sessions \in [Reqs -> 0..(Horizon + Lifetime)]
    /\ pc \in [Reqs -> Busy \cup {"idle", "done", "cut"}]
    /\ from \in [Reqs -> Clients]
    /\ stamp \in [Reqs -> 0..Horizon]
    /\ leaving \subseteq Reqs

Init ==
    /\ LimiterInit
    /\ admin = NoAdmin
    /\ sessions = [r \in Reqs |-> 0]
    /\ pc = [r \in Reqs |-> "idle"]
    /\ from \in [Reqs -> Clients]
    /\ stamp = [r \in Reqs |-> 0]
    /\ leaving = {}

Goto(r, s) == pc' = [pc EXCEPT ![r] = s]

\* Authenticate's condition on a token.
Valid(t) == sessions[t] > now

-----------------------------------------------------------------------------
(* Bootstrap and login.                                                     *)

\* The handlers ask the limiter first.  A client that was turned away, or whose
\* attempt is rejected, may try again: without a token, r can stand for that
\* attempt too.
Enter(r, k) ==
    /\ pc[r] = "idle"
    /\ \/ Admit(from[r]) /\ Goto(r, k)
       \/ Deny(from[r]) /\ UNCHANGED pc
    /\ UNCHANGED <<db, from, stamp, leaving>>

\* A refused attempt stays counted.
Refuse(r) == UNCHANGED limiterVars

\* Bad JSON, a bad user name or password length, an unknown user, a wrong
\* password.
Reject(r) ==
    /\ pc[r] \in {"bootstrap", "login"}
    /\ Goto(r, "idle")
    /\ Refuse(r)
    /\ UNCHANGED <<db, from, stamp, leaving>>

\* The password is hashed or verified, the secrets are minted, the time read.
Prepare(r) ==
    /\ \/ pc[r] = "bootstrap" /\ Goto(r, "prepared")
       \/ pc[r] = "login" /\ admin # NoAdmin /\ Goto(r, "verified")
    /\ stamp' = [stamp EXCEPT ![r] = now]
    /\ UNCHANGED <<limiterVars, db, from, leaving>>

\* INSERT OR IGNORE of the row with id 1 inserts only if there is none.
InsertAdmin == admin = NoAdmin

\* Faulty: INSERT OR REPLACE, which deletes the old row and its sessions.
BootstrapReplace(r) ==
    /\ pc[r] = "prepared"
    /\ admin' = r
    /\ sessions' = [[t \in Reqs |-> 0] EXCEPT ![r] = stamp[r] + Lifetime]
    /\ Goto(r, "issued")
    /\ UNCHANGED <<limiterVars, from, stamp, leaving>>

BootstrapCommit(r) ==
    /\ pc[r] = "prepared"
    /\ \/ /\ InsertAdmin
          /\ admin' = r
          /\ sessions' = [sessions EXCEPT ![r] = stamp[r] + Lifetime]
          /\ Goto(r, "issued")
       \/ Goto(r, "done") /\ UNCHANGED db    \* ErrAdminExists, or a database error
    /\ UNCHANGED <<limiterVars, from, stamp, leaving>>

\* Faulty: older sessions are kept.
KeepSessions(r) == sessions

\* DELETE FROM sessions WHERE admin_id=1 OR expires_at<=?
DeleteSessions(r) == [t \in Reqs |-> 0]

LoginCommit(r) ==
    /\ pc[r] = "verified"
    /\ \/ /\ sessions' = [DeleteSessions(r) EXCEPT ![r] = stamp[r] + Lifetime]
          /\ Goto(r, "issued")
       \/ Goto(r, "done") /\ UNCHANGED sessions
    /\ UNCHANGED <<limiterVars, admin, from, stamp, leaving>>

\* limiter.reset, setCookie and the response.
Respond(r) ==
    /\ pc[r] = "issued"
    /\ Goto(r, "done")
    /\ Reset(from[r])
    /\ UNCHANGED <<db, from, stamp, leaving>>

-----------------------------------------------------------------------------
(* Sessions.                                                                *)

\* Faulty: a purge without its WHERE clause.
PurgeAll(at) == [t \in Reqs |-> 0]

Purged(at) == [t \in Reqs |-> IF sessions[t] <= at THEN 0 ELSE sessions[t]]

\* Authenticate, on a token without a valid row: delete what had expired at
\* the time read before the query.
Authenticate(at) ==
    /\ at <= now
    /\ sessions' = Purged(at)
    /\ UNCHANGED <<limiterVars, admin, pc, from, stamp, leaving>>

\* Logout behind requireAuth: authenticated first, deleted later.
BeginLogout(t) ==
    /\ pc[t] = "done"
    /\ Valid(t)
    /\ leaving' = leaving \cup {t}
    /\ UNCHANGED <<limiterVars, db, pc, from, stamp>>

Logout(t) ==
    /\ t \in leaving
    /\ leaving' = leaving \ {t}
    /\ sessions' = [sessions EXCEPT ![t] = 0]
    /\ UNCHANGED <<limiterVars, admin, pc, from, stamp>>

Clock == Tick /\ UNCHANGED <<db, pc, from, stamp, leaving>>

Crash ==
    /\ NewProcess
    /\ pc' = [r \in Reqs |-> IF pc[r] \in Busy THEN "cut" ELSE pc[r]]
    /\ leaving' = {}
    /\ UNCHANGED <<db, from, stamp>>

Next ==
    \/ \E r \in Reqs :
         \/ \E k \in {"bootstrap", "login"} : Enter(r, k)
         \/ Reject(r) \/ Prepare(r)
         \/ BootstrapCommit(r) \/ LoginCommit(r) \/ Respond(r)
         \/ BeginLogout(r) \/ Logout(r)
    \/ \E at \in 0..Horizon : Authenticate(at)
    \/ Clock
    \/ Crash

Spec == Init /\ [][Next]_vars

-----------------------------------------------------------------------------
(* Properties.                                                              *)

\* However logins and the bootstrap interleave, at most one session exists:
\* "Login replaces the prior administrator session."
AtMostOneSession ==
    \A t, u \in Reqs : sessions[t] # 0 /\ sessions[u] # 0 => t = u

\* A session never exists without the administrator.
SessionNeedsAdmin == \A t \in Reqs : sessions[t] # 0 => admin # NoAdmin

\* The bootstrap happens once: of two racing ones the loser changes nothing,
\* and no later request replaces the administrator.
AdminIsFixed == [][admin # NoAdmin => admin' = admin]_vars

\* A session that has not expired ends only by its own logout or because a
\* login replaces it; purges, other logouts and crashes leave it alone.
OnlyLoginOrLogoutEnds ==
    [][\A t \in Reqs :
         Valid(t) /\ sessions'[t] = 0
           => t \in leaving \/ \E u \in Reqs : sessions[u] = 0 /\ sessions'[u] # 0]_vars
=============================================================================
