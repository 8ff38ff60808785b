\* Two interfaces, three limits of which two share a class id, every failure.
CONSTANTS
    tablet = tablet
    console = console
    lan = lan
    wan = wan
    Iface = {lan, wan}
    QosIface = {lan}
    Device = {tablet, console}
    Limit <- Limits3
    Faults = {"tc", "clear", "rollback"}
SPECIFICATION Spec
INVARIANTS
    OkMeansShaped
    NoHalfLimit
    OwnRate
