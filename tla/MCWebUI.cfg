SPECIFICATION FairSpec
CONSTANTS
    Nonces = {1, 2}
    Faults = {"clawops", "drop", "host", "phone", "reboot", "reload", "wg"}
    MaxDetours = 1
    User <- Everything
INVARIANTS
    TypeOK
    LockedBeforeVerification
    PollsUntilStored
PROPERTIES
    
    LocksWhenReset
    StopsClaiming
    StartOffered
