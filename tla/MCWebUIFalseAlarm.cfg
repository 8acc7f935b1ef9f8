SPECIFICATION FairSpec
CONSTANTS
    Nonces = {1, 2}
    Faults = {}
    MaxDetours = 1
    User <- Enrolling
PROPERTIES
    NoFalseAlarm
