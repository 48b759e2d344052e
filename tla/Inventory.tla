------------------------------ MODULE Inventory ------------------------------
(***************************************************************************)
(* tools/inventory.py find_devices: one walk of sysfs, the USB places and  *)
(* then the Bluetooth ones, device by device, interface by interface, and  *)
(* item by item through each report descriptor that can be read.  A walk   *)
(* is listed as its devices; what else it prints is left out.              *)
(***************************************************************************)
EXTENDS Sysfs

VARIABLES
    ipc,          \* "off", "walk", "found", "device", "parse", "done", "raised"
    ahead,        \* the places still to visit
    dev,          \* the place visited, its product id, whether a vendor page was found
    left,         \* the interfaces still to describe
    blob, i,      \* parse_descriptor: its data and position
    usage_pages, report_ids, current_page, current_usage, collections,
    short,        \* what it found in items of the usual size: <<"page", p>>, <<"id", n>>
    listed        \* the devices found: place, product id, config_channel_candidate

parseVars == <<blob, i, usage_pages, report_ids, current_page, current_usage, collections, short>>
inventoryVars == <<ipc, ahead, dev, left, parseVars, listed>>

Dev(p, d, candidate) == [place |-> p, pid |-> d, candidate |-> candidate]
NoDev == Dev(0, "", FALSE)

ParserAt0(data) ==
    /\ blob' = data /\ i' = 0
    /\ usage_pages' = {} /\ report_ids' = {} /\ short' = {}
    /\ current_page' = 0 /\ current_usage' = 0 /\ collections' = <<>>

InventoryInit ==
    /\ ipc = "off" /\ ahead = {} /\ dev = NoDev /\ left = {}
    /\ blob = <<>> /\ i = 0
    /\ usage_pages = {} /\ report_ids = {} /\ short = {}
    /\ current_page = 0 /\ current_usage = 0 /\ collections = <<>>
    /\ listed = {}

StartInventory ==
    /\ ipc = "off"
    /\ ipc' = "walk" /\ ahead' = Places
    /\ UNCHANGED <<dev, left, parseVars, listed>>

\* The next place; what is not there, or not 8BitDo, is passed over.
VisitDevice ==
    /\ ipc = "walk" /\ ahead # {}
    /\ \E p \in Lowest(ahead) :
          /\ ahead' = ahead \ {p}
          /\ IF tree[p] = None
             THEN UNCHANGED <<ipc, dev, left>>
             ELSE /\ ipc' = "found"
                  /\ dev' = Dev(p, tree[p].pid, FALSE)
                  /\ UNCHANGED left
    /\ UNCHANGED <<parseVars, listed>>

\* What is at the place now is listed for its interfaces.
ListInterfaces ==
    /\ ipc = "found" /\ tree[dev.place] # None
    /\ ipc' = "device"
    /\ left' = DOMAIN tree[dev.place].ifaces
    /\ UNCHANGED <<ahead, dev, parseVars, listed>>

\* It is gone: on USB the directory cannot be listed, and nothing catches that;
\* a Bluetooth device has no descriptor that can be read.
DeviceGone ==
    /\ ipc = "found" /\ tree[dev.place] = None
    /\ IF dev.place \in Usb
       THEN ipc' = "raised" /\ UNCHANGED left
       ELSE ipc' = "device" /\ left' = {}
    /\ UNCHANGED <<ahead, dev, parseVars, listed>>

\* A descriptor on USB is read through the interface's node; over Bluetooth
\* it is read with or without one.  One that cannot be read has no pages.
Readable(p, n) ==
    HasInterface(p, n) /\ Interface(p, n).data # <<>> /\ (p \in Usb => Interface(p, n).node)

DescribeInterface ==
    /\ ipc = "device" /\ left # {}
    /\ \E n \in Lowest(left) :
          /\ left' = left \ {n}
          /\ IF Readable(dev.place, n)
             THEN ipc' = "parse" /\ ParserAt0(Interface(dev.place, n).data)
             ELSE UNCHANGED <<ipc, parseVars>>
    /\ UNCHANGED <<ahead, dev, listed>>

Parsing == ipc = "parse" /\ i < Len(blob) /\ Whole(blob, i)

SkipLongItem ==
    /\ Parsing /\ Long(blob, i)
    /\ i' = NextAt(blob, i)
    /\ UNCHANGED <<ipc, ahead, dev, left, listed, blob, usage_pages, report_ids, current_page,
                   current_usage, collections, short>>

ParseItem ==
    /\ Parsing /\ ~Long(blob, i)
    /\ i' = NextAt(blob, i)
    /\ LET value == ValueAt(blob, i)
           page == IsUsagePage(blob, i)
           id == IsReportId(blob, i)
       IN  /\ current_page' = IF page THEN value ELSE current_page
           /\ usage_pages' = IF page THEN usage_pages \cup {value} ELSE usage_pages
           /\ report_ids' = IF id THEN report_ids \cup {value} ELSE report_ids
           /\ current_usage' = IF IsUsage(blob, i) THEN value ELSE current_usage
           /\ collections' = IF IsCollection(blob, i)
                             THEN Append(collections, [usage_page |-> current_page,
                                                       usage |-> current_usage])
                             ELSE collections
           /\ short' = short \cup (IF page /\ SizeAt(blob, i) = 2 THEN {<<"page", value>>} ELSE {})
                             \cup (IF id /\ SizeAt(blob, i) = 1 THEN {<<"id", value>>} ELSE {})
    /\ UNCHANGED <<ipc, ahead, dev, left, blob, listed>>

\* The data is at its end, or the item there is cut short.
EndDescriptor ==
    /\ ipc = "parse" /\ ~Parsing
    /\ dev' = [dev EXCEPT !.candidate = @ \/ \E p \in usage_pages : VendorPage(p)]
    /\ ipc' = "device"
    /\ UNCHANGED <<ahead, left, parseVars, listed>>

ListDevice ==
    /\ ipc = "device" /\ left = {}
    /\ listed' = listed \cup {dev}
    /\ ipc' = "walk"
    /\ UNCHANGED <<ahead, dev, left, parseVars>>

EndInventory ==
    /\ ipc = "walk" /\ ahead = {}
    /\ ipc' = "done"
    /\ UNCHANGED <<ahead, dev, left, parseVars, listed>>

InventoryNext ==
    /\ \/ StartInventory \/ VisitDevice \/ ListInterfaces \/ DeviceGone
       \/ DescribeInterface \/ SkipLongItem \/ ParseItem \/ EndDescriptor \/ ListDevice \/ EndInventory
    /\ UNCHANGED sysfsVars

-----------------------------------------------------------------------------

InventoryTypeOK ==
    /\ ipc \in {"off", "walk", "found", "device", "parse", "done", "raised"}
    /\ ahead \subseteq Places
    /\ dev \in [place : Places \cup {0}, pid : Pids, candidate : BOOLEAN]
    /\ left \subseteq Nat
    /\ blob \in Seq(Byte) /\ i \in Nat
    /\ usage_pages \subseteq Nat /\ report_ids \subseteq Nat
    /\ current_page \in Nat /\ current_usage \in Nat
    /\ collections \in Seq([usage_page : Nat, usage : Nat])
    /\ short \subseteq {"page", "id"} \X Nat
    /\ listed \subseteq [place : Places \cup {0}, pid : Pids, candidate : BOOLEAN]

\* identify.py (89-92): the scan of raw bytes may find too much, but never
\* drops a page or an id that is there.  Whatever vendor page and report id
\* the walk of the items comes to, in an item of the usual size, the scan of
\* the same descriptor has.
ScanMissesNothing ==
    \A e \in short :
        /\ e[1] = "page" /\ VendorPage(e[2]) => e[2] \in ScannedPages(blob)
        /\ e[1] = "id" => e[2] \in ScannedIds(blob)

\* inventory.py (293-296): a device is a config channel candidate, or has "no
\* vendor usage page in the descriptors that were readable".  The walk of a
\* tree that stays lists each device once, a candidate if and only if one of
\* its items, of any descriptor that can be read, declares a vendor page.
ListsTheTree ==
    (ipc = "done" /\ moves = 0) =>
        listed = {Dev(p, tree[p].pid,
                      \E n \in DOMAIN tree[p].ifaces :
                          Readable(p, n) /\ DeclaresVendorPage(Interface(p, n).data)) :
                     p \in {p \in Places : tree[p] # None}}
=============================================================================
