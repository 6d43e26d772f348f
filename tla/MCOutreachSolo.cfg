\* One account, one group, every answer of VK and every event.
SPECIFICATION Spec
CONSTANTS
    Accounts = {a1}
    Items = {1}
    NoAccount = NoAccount
    NoItem = NoItem
    LeaseTime = 1
    RetryDelay = 1
    ClaimBound = 3
    Window = 2
    Limits = {1}
    MaxAttempts = 1
    Replies = {"sent", "denied", "temporary", "timeout", "network", "auth"}
    Events = {"pause", "stop", "reset", "remove", "disable", "limit", "login", "health", "crash", "error"}
INVARIANTS
    DuplicateOnlyAfterBlindRetry
    FinishedMeansRecorded
    FailedMeansNothingSent
    SuggestedOnlyAfterDenial
PROPERTIES
    NoResendInDoubt
    RunSpec
CHECK_DEADLOCK FALSE
