\* A timeout hides a delivery.
SPECIFICATION Spec
CONSTANTS
    Accounts = {a1}
    Items = {1}
    NoAccount = NoAccount
    NoItem = NoItem
    LeaseTime = 1
    RetryDelay = 1
    ClaimBound = 3
    Window = 2
    Limits = {1}
    MaxAttempts = 1
    Replies = {"sent", "timeout"}
    Events = {}
INVARIANTS
    NoDuplicateMessage
CHECK_DEADLOCK FALSE
