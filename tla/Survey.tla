-------------------------------- MODULE Survey --------------------------------
(***************************************************************************)
(* What README.md (63-76) tells a user to do: run inventory.py, and then   *)
(* the tool that searches for the pad it listed, over one tree that may    *)
(* change at any time between two steps of either.                         *)
(***************************************************************************)
EXTENDS Inventory, Identify

CONSTANT Moving    \* where in either tool (values of ipc or spc) the tree may change

vars == <<sysfsVars, inventoryVars, identifyVars>>

Init == TreeInit /\ InventoryInit /\ IdentifyInit

Inventories == spc = "off" /\ InventoryNext /\ UNCHANGED identifyVars
SearchesOn == ipc \in {"off", "done", "raised"} /\ IdentifyNext /\ UNCHANGED inventoryVars

\* An open node of a device that moves is dead.
Moves(p, d) ==
    /\ (spc = "off" /\ ipc \in Moving) \/ spc \in Moving
    /\ Move(p, d)
    /\ up' = (up /\ p # Found.place)
    /\ UNCHANGED <<inventoryVars, spc, searchVars, command, owed, queue, explained>>

\* The search is over: with an exit, or for read_config.py with its node.
Rest ==
    /\ spc = "exit" \/ (spc = "open" /\ search.tool = "read_config")
    /\ UNCHANGED vars

Next ==
    \/ Inventories \/ SearchesOn
    \/ \E p \in Places, d \in Devices \cup {None} : Moves(p, d)
    \/ Rest

Spec == Init /\ [][Next]_vars

-----------------------------------------------------------------------------

TypeOK ==
    /\ tree \in [Places -> Devices \cup {None}] /\ moves \in 0 .. MaxMoves
    /\ InventoryTypeOK /\ IdentifyTypeOK

Matching == {p \in Places : tree[p] # None /\ tree[p].pid = pid /\ Wanted(search.path, p)}
NodeMissing(p) ==
    \E n \in DOMAIN tree[p].ifaces :
        ScannedPages(tree[p].ifaces[n].data) # {} /\ ~tree[p].ifaces[n].node

\* What is usual of a descriptor: a vendor page takes two bytes and an id of the
\* channel one, as the scan expects.
UsualItems(data) ==
    \A k \in Items(data) :
        /\ IsUsagePage(data, k) /\ VendorPage(ValueAt(data, k)) => SizeAt(data, k) = 2
        /\ IsReportId(data, k) /\ ValueAt(data, k) \in CONFIG_REPORT_IDS => SizeAt(data, k) = 1
UsualDescriptors == \A d \in Devices : \A n \in DOMAIN d.ifaces : UsualItems(d.ifaces[n].data)

\* And of a device: the scan comes on a vendor page only if one is declared.
NoPageByChance ==
    \A d \in Devices :
        (\E n \in DOMAIN d.ifaces : ScannedPages(d.ifaces[n].data) # {}) =>
            \E n \in DOMAIN d.ifaces : DeclaresVendorPage(d.ifaces[n].data)

\* What the inventory calls a config channel candidate, the search finds: if
\* it lists one such device with the id, and the tree stays, the search ends
\* with a node of that device.  But it ends with none, and nothing is opened, if
\* a vendor-page interface of any device with the id, be it one that would not
\* be chosen, has no node (identify.py 214-216).
ListedIsFound ==
    (ipc = "done" /\ moves = 0 /\ spc \in {"open", "write", "wait", "exit"}) =>
        LET here == {l \in listed : l.candidate /\ l.pid = pid /\ Wanted(search.path, l.place)}
        IN  (Cardinality(here) = 1 /\ PidsToChoose(search) = {pid})
            => IF \E p \in Matching : NodeMissing(p)
               THEN spc = "exit" /\ ~up
               ELSE \E l \in here : \E m \in matches : m.place = l.place /\ matches = {m}
=============================================================================
