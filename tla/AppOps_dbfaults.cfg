SPECIFICATION Spec
CONSTANTS
    Reqs = {r1, r2, r3}
    Catalog = {c1}
    Observers = {}
    Offered = {"install", "stop", "uninstall", "update"}
    DbFaults = TRUE
INVARIANTS NoOrphanContainers ContainersHaveRevision
PROPERTIES ImplementsOperationLog
SYMMETRY RequestSymmetry
