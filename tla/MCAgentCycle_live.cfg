\* One device, every failure.
CONSTANTS
    tablet = tablet
    console = console
    a1 = a1
    a2 = a2
    a3 = a3
    g6 = g6
    None = None
    Own6 = g6
    Device = {tablet}
    Addr = {a1, a2}
    Actions = {"THROTTLE", "BLOCK"}
    Address6 <- NoAddress6
    MaxMoves = 2
    Faults = {"guard", "discovery", "report", "policies", "kill", "firewall", "qos", "shaping", "restart"}
SPECIFICATION FairSpec
INVARIANT TypeOK
PROPERTIES
    Settles
