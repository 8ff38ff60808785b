\* Two subscribers, reports that are late, lost or repeated, restarts.
CONSTANTS
    s1 = s1
    s2 = s2
    ip1 = ip1
    ip2 = ip2
    lan1 = lan1
    lan2 = lan2
    mac1 = mac1
    mac2 = mac2
    bng1 = bng1
    bng2 = bng2
    None = None
    Subscriber = {s1, s2}
    AccessIp = {ip1, ip2}
    LanIp = {lan1}
    Mac = {mac1}
    Bng = {bng1, bng2}
    DefaultBng = bng1
    MaxMoves = 2
    MaxRequests = 2
    Faults = {"lost", "again", "restart"}
SPECIFICATION Spec
SYMMETRY Interchangeable
INVARIANTS
    LeaseIsFiled
    StateIsPolicy
    AppliedIsInForce
