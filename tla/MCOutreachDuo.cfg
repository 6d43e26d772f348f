\* Two accounts at work on two groups, with halts, crashes, removals and logins
\* that are lost and found.
SPECIFICATION Spec
CONSTANTS
    Accounts = {a1, a2}
    Items = {1, 2}
    NoAccount = NoAccount
    NoItem = NoItem
    LeaseTime = 1
    RetryDelay = 1
    ClaimBound = 2
    Window = 1
    Limits = {1}
    MaxAttempts = 1
    Replies = {"sent", "temporary", "auth"}
    Events = {"pause", "stop", "remove", "login", "crash"}
SYMMETRY AccountSymmetry
INVARIANTS
    HolderOwnsItem
    TallyNeverAhead
    QuotaLedger
PROPERTIES
    OneAccountPerGroup
    NoClaimUnlessSetGoing
CHECK_DEADLOCK FALSE
