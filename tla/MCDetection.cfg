SPECIFICATION DetectionSpec
CONSTANTS
    d1 = d1
    Unknown = Unknown
    Target = {d1}
    Flows <- const_Flows
    Configs <- const_Configs
    Reputation = {}
    Ja3Hashes = {}
    MIN_INTERVAL = 2
    MAX_INTERVAL = 6
    PollInterval = 3
    SlowCycles = {4, 8}
    DetectionInterval = 2
    MaxDisturbances = 3
    Box <- const_Box
    Ssdp <- const_Ssdp
    Pages <- const_Pages
    Mdns <- const_Mdns
    Oui <- const_Oui
INVARIANTS
    MetronomeOnly
    Corroborated
    NamesTheRouter
PROPERTIES
    ReportedAtLast
