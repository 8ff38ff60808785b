SPECIFICATION Spec
CONSTANTS
    d1 = d1
    d2 = d2
    a1 = a1
    a2 = a2
    None = None
    Device = {d1, d2}
    Address = {a1, a2}
    Home <- const_Home
    SlotOf <- const_Slots
    PluginIds = {"openwrt", "mikrotik", "unifi", "edgerouter", "draytek", "tplink_omada", "keenetic", "fritzbox", "linksys", "other"}
    Scope <- const_Scope
    MaxCalls = 3
    MaxFaults = 2
    MaxEvents = 4
    Faults = {"refused", "unanswered", "ignored", "unread", "unrestored", "reload", "restart", "move", "hand", "overlap", "roam"}
INVARIANTS
    TypeOK
    BlockInForce
    UnblockLifts
    
CHECK_DEADLOCK FALSE
