SPECIFICATION FairSpec
CONSTANTS
    SlotsPerEpoch = 2
    Validators = {0, 1}
    MaxEpoch = 2
    MaxJump = 1
    MaxBack = 1
INVARIANTS
    SmoothSchedules
PROPERTIES
    AlarmWhenStale
    EpochHandled
