SPECIFICATION Spec
CONSTANTS
    MaxMsg = 2
    Peers = {p1, p2}
    UserCalls = {c1}
    Worker = Worker
    Page = 1
INVARIANTS
    OwnText
PROPERTIES
    Converges
