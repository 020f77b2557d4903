SPECIFICATION Spec
CONSTANTS
  Script <- Migrations
  Releases = {1, 4}
  Clients <- MCClients
  Asks <- MCAsks
  AppIds = {"a1", "a2"}
  PrefInputs <- MCPrefs
  Free = "free"
  Opener = "opener"
  MaxWrites = 2
  MaxFaults <- MCFaults
INVARIANTS TypeOK DatabaseSound ReportsExplained
PROPERTIES Answered
