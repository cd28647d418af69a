CONSTANTS
    Half = 32768
    Base = 4
    Milli = 2
    Second = 2
    DefaultTTL = 3
    MaxItems = 4
    MaxNow <- MCMaxNow
    Calls <- MCCalls
    Slow <- MCSlow
    Embedded <- MCEmbedded
    Keys <- MCKeys
    Values <- MCValues
SPECIFICATION Spec
INVARIANTS
    RemoteAsLocal
    FailedCallChangesNothing
    KeyViewsAgree
    IncrementUndone
    TrimKeepsRange
    FollowerRefusesWrites
