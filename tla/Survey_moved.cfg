\* One USB port, where the dongle's pad may be switched off while identify.py
\* searches for it, or before it opens the node found.
CONSTANTS
    None = None
    Usb = {1}
    Bluetooth = {2}
    Devices <- MovedDevices
    MaxMoves = 1
    Searches <- MovedSearches
    Ring = 1
    Moving = {"search", "interfaces", "open"}
SPECIFICATION Spec
INVARIANT RefusedIsNeverSpokenTo
