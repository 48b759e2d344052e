\* An answer may come after its deadline: what still holds then.
CONSTANTS
    Total = 3
    Chunk = 2
    Longest = 3
    Spare = 1
    StallLimit = 2
    QueueCap = 2
    StreamAhead = 1
    Faults = {"loss", "late", "length", "unplug"}
SPECIFICATION FairSpec
INVARIANTS NoHoles
PROPERTIES NeverOverwrites ReadEnds
