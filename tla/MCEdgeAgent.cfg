SPECIFICATION FairSpec
CONSTANTS
    MaxEvents = 4
    MaxQueueSize = 2
    MaxRestarts = 2
    Loop = loop
    Corrupt = corrupt
    Stops = {s1}
    Poison <- MCPoison
INVARIANTS
    TypeOK
    QueueInOrder
    LossBounded
    NoLossWithoutEviction
    OneSyncAtATime
PROPERTIES
    RefinesBuffer
    EventuallySettled
    ShutdownEnds
