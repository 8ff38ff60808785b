\* A retry that fails.
CONSTANTS
    dashboard = dashboard
    devices = devices
    children = children
    Request = {dashboard, devices}
    maxRetries = 1
    MaxPairs = 1
    Faults = {"retry", "server"}
SPECIFICATION FairSpec
CHECK_DEADLOCK FALSE
PROPERTIES
    EveryRequestEnds
