----------------------------- MODULE MCSavedFiles -----------------------------
\* SavedFiles with sections of three and two chunks, one whole number apart.
EXTENDS SavedFiles, TLC

MCTotal == [s \in Sections |-> IF s = "u2" THEN 3 ELSE 2]
Symmetry == Permutations(Processes)
=============================================================================
