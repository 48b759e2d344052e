----------------------------- MODULE MCWritePlan -----------------------------
\* WritePlan over an image with a different byte in every place of a record,
\* and the image of a pad whose keys are its own.
EXTENDS WritePlan

Patterned == [i \in 0 .. 1591 |-> (5 * i + i \div 256) % 256]

OwnKeys ==
    LET mine == {<<p, b>> : p \in Profiles, b \in Buttons \cap Targets}
        entry(k) == ButtonMapAt(k[1], IndexOf(k[2])).offset
        keyAt(i) == {k \in mine : i \in entry(k) .. entry(k) + 3}
    IN  [i \in 0 .. 1591 |->
            IF keyAt(i) = {} THEN 0
            ELSE LET k == CHOOSE k \in keyAt(i) : TRUE
                 IN  Le32(MAP_ENTRY_VALUES[k[2]])[i - entry(k) + 1]]

MCOriginals == {Patterned}
MCOwnKeys == {OwnKeys}
MCQuads == {<<5, 128, 7, 120>>}
MCZooms == {<<0, 0, 0, 63, 0, 0, 128, 62>>}    \* 0.5 and 0.25

To(button, target) == [button |-> button, target |-> target]

\* One key and several; the first and the last key of a profile, a key mapped
\* to its own name, the key without one, and targets of two bits and of two names.
MCAssignments ==
    {<<To("P1", "A"), To("P4", "LS_Up"), To("A", "B")>>, <<To("B", "B")>>, <<To("Menu", "Home"), To("P2", "HitBox_LS_Up")>>}
=============================================================================
