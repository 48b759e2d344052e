\* One call; the node may be given by hand.
CONSTANTS
    p1 = p1
    None = None
    Ports = {p1}
    Pads <- MCPads
    Arguments <- MCArguments
    MaxCalls = 1
    Moves = {}
SPECIFICATION Spec
INVARIANT UltimateTwoIsRead
