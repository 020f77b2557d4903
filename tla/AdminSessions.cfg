SPECIFICATION Spec
CONSTANTS
    Clients = {c1, c2}
    LoginLimit = 2
    LoginWindow = 2
    MaxKeys = 1
    Horizon = 4
    Reqs = {r1, r2, r3}
    Lifetime = 2
    NoAdmin = NoAdmin
INVARIANTS TypeOK AtMostOneSession TableBounded AttemptsBounded DenialJustified
PROPERTIES AdminIsFixed OnlyLoginOrLogoutEnds
SYMMETRY Symmetry
