\* Three commands for one device, any two failures.
CONSTANTS
    tablet = tablet
    Device = {tablet}
    Types = {"BLOCK_DEVICE", "UNBLOCK_DEVICE", "END_GAMING_SESSION", "RESUME_DEVICE"}
    StrategyLists <- Lists
    MaxCommands = 3
    MaxFaults = 2
    Faults = {"refused", "unanswered", "rollback", "ack", "throw", "restart"}
SPECIFICATION FairSpec
INVARIANTS
    BlockHolds
    FailedSessionRestores
PROPERTIES
    EveryCommandAnswered
    NoFalseSuccess
