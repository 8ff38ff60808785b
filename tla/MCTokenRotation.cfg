\* Rotations with lost answers, failed writes and crashes, until things settle.
CONSTANTS
    MaxRotations = 6
    TokenFaults = {"lost", "persist", "crash"}
    Pinned = FALSE
SPECIFICATION TokenFairSpec
INVARIANTS
    TokenTypeOK
    NoLockOut
PROPERTY Adopts
