SPECIFICATION Spec
CONSTANTS
    m1 = m1
    m2 = m2
    m3 = m3
    None = None
    Reqs = {r1, r2}
    Offered = {"get", "start", "stop", "update", "uninstall"}
    Manifests = {m1, m2, m3}
    Endpoints <- SomeEndpoints
    Declared <- SomeDeclared
    Labels = {"web", "api"}
    ContainerPorts = {80, 8001}
    MaxPast = 1
    HostPorts = {8001, 8002}
INVARIANTS TypeOK 
PROPERTIES PortsKept
SYMMETRY RequestSymmetry
