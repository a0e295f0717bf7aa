SPECIFICATION FairSpec
CONSTANTS
    None = none
    Main = 0
    Loops = {1, 2}
    LeaseIds = {1, 2, 3, 4}
    TTL = 2
    MaxFaults = 1
INVARIANTS
    HooksCloseAll
    LeaseCoversKey
PROPERTIES
    HeartbeatLives
    Recovers
    Cleanup
