SPECIFICATION FairSpec
CONSTANTS
    Accounts <- OneAccount
    Users = {u1, u2}
    NoUser = NoUser
    Jobs = {j1, j2}
    NoJob = NoJob
    MaxToken = 2
INVARIANTS
    WindowAlone
    MarksHaveOwners
PROPERTIES
    SingleFlight
    LoginsLostToStaleEvidence
    RefreshesCoalesce
    DeletedStaysDeleted
    JobsEnd
