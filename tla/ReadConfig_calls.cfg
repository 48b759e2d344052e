\* Two calls in one process, with the pad at the port changing at any time
\* except between the search for its node and the opening of it.
CONSTANTS
    p1 = p1
    None = None
    Ports = {p1}
    Pads <- MCPads
    Arguments <- MCArguments
    MaxCalls = 2
    Moves = {"idle", "find", "run"}
SPECIFICATION Spec
INVARIANTS TypeOK SwitchIsConfirmedAndAlone ReadsFitTheirPad FoundUltimateTwoIsRead
INVARIANTS SpokenSessionsAreClosed NothingPlannedIsRefused
INVARIANTS NamedPadOnly OnlyThe2CGetsItsCommands
