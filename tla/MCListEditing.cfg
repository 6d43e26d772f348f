\* One account works on two groups that are removed and imported again.
SPECIFICATION ListSpec
CONSTANTS
    Accounts = {a1}
    Items = {1, 2}
    NoAccount = NoAccount
    LeaseTime = 1
    RetryDelay = 1
    ClaimBound = 1
    Window = 1
    Limits = {1}
INVARIANTS
    NoStrandedWork
PROPERTIES
    ImportKeepsBegunGroups
CHECK_DEADLOCK FALSE
