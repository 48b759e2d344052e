\* Two USB ports and a Bluetooth pad; the tree changes once at most, between
\* the tools or while the second one searches or waits.
CONSTANTS
    None = None
    Usb = {1, 2}
    Bluetooth = {3}
    Devices <- MCDevices
    MaxMoves = 1
    Searches <- MCSearches
    Ring = 2
    Moving = {"found", "device", "done", "search", "interfaces", "open", "wait"}
SPECIFICATION Spec
INVARIANTS TypeOK ScanMissesNothing ListsTheTree ListedIsFound
INVARIANTS ChannelIsPreferred WarnsWithoutChannel ExplainedIsItsReply
