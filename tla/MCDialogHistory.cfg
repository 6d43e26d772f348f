SPECIFICATION Spec
CONSTANTS
    MaxMsg = 3
    Outgoing = {2}
    MaxDeleted = 1
    Chunk = 1
    FirstCount = 1
    OlderCount = 2
INVARIANTS
    HistoryTypeOK
    WholeHistory
    KnownTextShown
PROPERTIES
    DeletionsAnswered
