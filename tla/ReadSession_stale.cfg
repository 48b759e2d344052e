\* The claim that the saved image is the pad's, on a link with late answers.
CONSTANTS
    Total = 5
    Chunk = 2
    Longest = 2
    Spare = 3
    StallLimit = 3
    QueueCap = 3
    StreamAhead = 0
    Faults = {"late"}
SPECIFICATION Spec
INVARIANTS CompleteImageIsThePads
