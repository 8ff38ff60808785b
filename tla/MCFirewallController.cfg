\* Either backend with every failure: commands, snapshots, rollbacks, crashes, reboots.
CONSTANTS
    tablet = tablet
    None = None
    Target <- MCTarget
    Policies <- MCPolicies
    Configs <- MCConfigs
    Faults = {"command", "save", "restore", "crash", "reboot"}
SPECIFICATION ControllerSpec
INVARIANTS
    TypeOK
    SignatureTruthful
    OkMeansEnforced
    NftOkMeansEnforced
    NftRollbackKeepsRules
PROPERTIES
    KeepsContract
    EventuallyInForce
