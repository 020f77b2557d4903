SPECIFICATION FairSpec
CONSTANTS
    Reqs = {r1, r2}
    Catalog = {c1}
    Observers = {o1}
    Offered = {"install", "uninstall", "update"}
    DbFaults = FALSE
INVARIANTS TypeOK ExclusiveRuntimeCall ActiveHasWorker
PROPERTIES NoResurrection EventuallySettled SignalEndsProcess
