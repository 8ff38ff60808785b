\* Two devices that take over each other's address, discovery that misses them, restarts
\* and stages that fail.
CONSTANTS
    tablet = tablet
    console = console
    a1 = a1
    a2 = a2
    a3 = a3
    g6 = g6
    None = None
    Own6 = g6
    Device = {tablet, console}
    Addr = {a1, a2}
    Actions = {"ALLOW", "BLOCK"}
    Address6 <- NoAddress6
    MaxMoves = 3
    Faults = {"guard", "discovery", "report", "firewall", "restart"}
SPECIFICATION Spec
SYMMETRY Interchangeable
INVARIANTS
    NoEarlyFlowSurvives
    GatewayNeverDropped
    NoCollateralOfSeen
