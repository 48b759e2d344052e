\* Every fault except a late answer, on a ring that can fill.
CONSTANTS
    Total = 7
    Chunk = 2
    Longest = 3
    Spare = 3
    StallLimit = 2
    QueueCap = 2
    StreamAhead = 2
    Faults = {"loss", "length", "reject", "unplug"}
SPECIFICATION Spec
INVARIANTS TypeOK SavedIsThePads NamedForWhatItHolds OneRequestOut GivesUpOnlyWhenFailed NoSendIsWasted
PROPERTIES CopiesFromTheFront
