\* The image of a pad with its keys at their own value.
CONSTANTS
    Originals <- MCOwnKeys
    Quads <- MCQuads
    Zooms <- MCZooms
    Assignments <- MCAssignments
    MaxPlans = 0
SPECIFICATION Spec
INVARIANT OwnKeysAreShownSo
