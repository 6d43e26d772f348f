\* Two groups, two accounts, no interruption: does the run drain?
SPECIFICATION FairSpec
CONSTANTS
    Accounts = {a1, a2}
    Items = {1, 2}
    NoAccount = NoAccount
    NoItem = NoItem
    LeaseTime = 1
    RetryDelay = 1
    ClaimBound = 3
    Window = 2
    Limits = {1}
    MaxAttempts = 1
    Replies = {"denied", "temporary", "network"}
    Events = {}
PROPERTIES
    RunDrains
    RetryServed
CHECK_DEADLOCK FALSE
