----------------------------- MODULE LoginLimiter -----------------------------
(***************************************************************************)
(* loginLimiter: at most LoginLimit authentication attempts per client in  *)
(* a window that starts with the first of them, in a table of at most      *)
(* MaxKeys clients.  allow and reset run under the limiter's mutex, so     *)
(* each is one step.  Time is counted in ticks.                            *)
(***************************************************************************)
EXTENDS Naturals, FiniteSets, Sequences

CONSTANTS
    Clients,      \* direct peer addresses
    LoginLimit,   \* loginLimit, 5 in the code
    LoginWindow,  \* loginWindow, one minute in the code
    MaxKeys,      \* maxLimiterKeys, 10000 in the code
    Horizon       \* bound on time

ASSUME LimiterAssumption ==
    /\ IsFiniteSet(Clients)
    /\ LoginLimit \in Nat \ {0}
    /\ LoginWindow \in Nat \ {0}
    /\ MaxKeys \in Nat \ {0}
    /\ Horizon \in Nat

VARIABLES
    now,
    attempts,     \* attempts[c]: count and reset; NoEntry if c is no key
    spent         \* history: when the attempts of c were let through, in order,
                  \* since c last succeeded or the process started

limiterVars == <<now, attempts, spent>>

NoEntry == [count |-> 0, reset |-> 0]

\* Only entries with an attempt in them are stored.
Keys(a) == {c \in Clients : a[c].count # 0}

LimiterTypeOK ==
    /\ now \in 0..Horizon
    /\ attempts \in [Clients -> [count : 0..LoginLimit, reset : 0..(Horizon + LoginWindow)]]
    /\ spent \in [Clients -> Seq(0..Horizon)]

LimiterInit ==
    /\ now = 0
    /\ attempts = [c \in Clients |-> NoEntry]
    /\ spent = [c \in Clients |-> <<>>]

-----------------------------------------------------------------------------
\* Faulty sweeps: every entry, or none.
SweepAll(a) == [c \in Clients |-> NoEntry]
SweepNone(a) == a

\* The sweep of a full table removes the entries whose window has passed.
Sweep(a) == [c \in Clients |-> IF a[c].reset <= now THEN NoEntry ELSE a[c]]

\* The table allow works on.
Table == IF Cardinality(Keys(attempts)) >= MaxKeys THEN Sweep(attempts) ELSE attempts

\* Faulty: a full table admits new clients.
NeverFull(c) == FALSE

\* A new client finds every slot taken by a window that is still open.
Full(c) == Cardinality(Keys(Table)) >= MaxKeys /\ c \notin Keys(Table)

\* The entry of c: a passed window, or none, is replaced by a new one.
Entry(c) == IF Table[c].reset <= now THEN [count |-> 0, reset |-> now + LoginWindow]
            ELSE Table[c]

\* Faulty: one attempt too many.
AdmitsOneMore(c) == ~Full(c) /\ Entry(c).count <= LoginLimit

Admits(c) == ~Full(c) /\ Entry(c).count < LoginLimit

\* allow(key) returns true.
Admit(c) ==
    /\ Admits(c)
    /\ attempts' = [Table EXCEPT ![c] = [Entry(c) EXCEPT !.count = @ + 1]]
    /\ spent' = [spent EXCEPT ![c] = Append(@, now)]
    /\ UNCHANGED now

\* allow(key) returns false; the sweep stays.
Deny(c) ==
    /\ ~Admits(c)
    /\ attempts' = Table
    /\ UNCHANGED <<now, spent>>

\* reset(key), called after a successful login or bootstrap.
Reset(c) ==
    /\ attempts' = [attempts EXCEPT ![c] = NoEntry]
    /\ spent' = [spent EXCEPT ![c] = <<>>]
    /\ UNCHANGED now

Tick ==
    /\ now < Horizon
    /\ now' = now + 1
    /\ UNCHANGED <<attempts, spent>>

\* The table is in memory.
NewProcess ==
    /\ attempts' = [c \in Clients |-> NoEntry]
    /\ spent' = [c \in Clients |-> <<>>]
    /\ UNCHANGED now

LimiterNext ==
    \/ \E c \in Clients : Admit(c) \/ Deny(c) \/ Reset(c)
    \/ Tick
    \/ NewProcess

LimiterSpec == LimiterInit /\ [][LimiterNext]_limiterVars

-----------------------------------------------------------------------------
(* Properties.                                                              *)

\* The table never has more than MaxKeys entries, whoever calls.
TableBounded == Cardinality(Keys(attempts)) <= MaxKeys

\* However a client spreads its attempts over windows that end and start
\* again, and whatever sweeps other clients trigger, fewer than twice the
\* limit get through in any interval shorter than a window: twice as many in a
\* row span a whole window at least.
AttemptsBounded ==
    \A c \in Clients : \A i \in DOMAIN spent[c] :
        LET last == i + 2 * LoginLimit - 1 IN
        last \in DOMAIN spent[c] => spent[c][i] + LoginWindow <= spent[c][last]

\* A client is turned away only if it has used up its own window, or every
\* slot belongs to a client whose window is still open: entries that have
\* expired never keep anybody out.
DenialJustified ==
    \A c \in Clients :
        ~Admits(c)
          => \/ attempts[c].count >= LoginLimit /\ attempts[c].reset > now
             \/ Cardinality({d \in Clients \ {c} : attempts[d].reset > now}) >= MaxKeys
=============================================================================
