SPECIFICATION Spec
CONSTANTS
    i1 = i1
    i2 = i2
    i3 = i3
    Installs = {i1, i2, i3}
    Endpoints = {80, 443}
    Ports = {8080, 40001, 40002}
    Ephemeral = {40001, 40002}
    Fixed <- OneFixed
    NoPort = NoPort
    Attempts = 2
INVARIANTS TypeOK NoReservationLeak NoClashWithoutRace
