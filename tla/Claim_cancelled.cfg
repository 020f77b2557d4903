SPECIFICATION Spec
CONSTANTS
    Reqs = {r1}
    Catalog = {c1}
    Observers = {}
    Offered = {"install"}
    DbFaults = FALSE
INVARIANTS CancelledIsRecorded
