\* Four programs in all, two at a time, with one name for their transcripts.
CONSTANTS
    Processes = {a, b}
    Logs = {"log"}
    Total <- MCTotal
    MaxRuns = 4
SYMMETRY Symmetry
SPECIFICATION Spec
INVARIANTS TypeOK WhatLoadsIsWhole NamedForItsPlans
PROPERTY OnlyImagesReplaceImages
