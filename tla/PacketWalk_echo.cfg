\* The pad of docs/firmware.md, which echoes the length dword.
CONSTANTS
    Families = {"6012"}
    Lengths = {}
    Echoes = TRUE
SPECIFICATION Spec
INVARIANTS EchoedAnswersAreTaken
