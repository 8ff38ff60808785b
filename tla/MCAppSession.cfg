\* Two calls at once, a user who acts at any time, everything fails but a retry.
CONSTANTS
    dashboard = dashboard
    devices = devices
    children = children
    Request = {dashboard, devices}
    maxRetries = 1
    MaxPairs = 2
    Faults = {"server", "lost", "storage", "kill"}
SPECIFICATION FairSpec
CHECK_DEADLOCK FALSE
INVARIANTS
    KeepsSession
    StorageFollows
    LogoutIsFinal
PROPERTY EveryRequestEnds
