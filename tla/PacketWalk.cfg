\* One product of each frame and checksum, answers of none, 15, 45 or all the bytes.
CONSTANTS
    Families = {"6012", "2028", "3010", "310a"}
    Lengths = {0, 15}
    Echoes = FALSE
SPECIFICATION Spec
INVARIANTS RequestsAreAllowed PadReadsTheWindow WritesAreRefused AnswersAreTheSection CorruptionIsRefused
INVARIANT JoinsLikeTheRead
