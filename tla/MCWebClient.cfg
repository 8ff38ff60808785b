SPECIFICATION Spec
CONSTANTS
    r1 = r1
    r2 = r2
    e1 = e1
    e2 = e2
    None = None
    Request = {r1, r2}
    List = {"sessions"}
    Sessions = "sessions"
    Entry = {e1}
    MaxOps = 3
    MaxFaults = 1
INVARIANTS
    KeepsSession
    ShownIsServer
PROPERTIES
    EveryCallEnds
CHECK_DEADLOCK FALSE
