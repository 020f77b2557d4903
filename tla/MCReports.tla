----------------------------- MODULE MCReports -----------------------------
EXTENDS Reports

\* One client asks for everything; another, the polling dashboard, for the summary.
MCClients == {"user", "poller"}
MCAsks == [c \in MCClients |-> IF c = "user" THEN DOMAIN Stages ELSE {"summary"}]
\* The poller's summary fails in no other way than the user's.
MCFaults == [c \in MCClients |-> IF c = "user" THEN 1 ELSE 0]

\* Preferences that are accepted, and that are not.
MCPrefs == {[view |-> "list", hidden |-> {"status"}], [view |-> "table", hidden |-> {}]}
=============================================================================
