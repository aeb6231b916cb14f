SPECIFICATION Spec
CONSTANTS
    MaxEvents = 4
    MaxQueueSize = 2
    MaxRestarts = 2
    Loop = loop
    Corrupt = corrupt
    Stops = {s1}
    Poison <- MCPoison
PROPERTIES
    OnlySyncedRemoved
