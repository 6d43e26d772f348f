SPECIFICATION Spec
CONSTANTS
    Processes = {p1, p2, p3}
    Nobody = Nobody
INVARIANTS
    OneCore
PROPERTIES
    RunKeptByLaunch
