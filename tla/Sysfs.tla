-------------------------------- MODULE Sysfs --------------------------------
(***************************************************************************)
(* What the tools see of sysfs: 8BitDo devices at places, which are sorted *)
(* by name, the USB ones first (as both tools walk them).  A USB device    *)
(* has interfaces, a Bluetooth one is a single HID device.  An interface   *)
(* may have a report descriptor (empty: none) and a hidraw node, which is  *)
(* named for its place here: another device there takes the name.          *)
(***************************************************************************)
EXTENDS Descriptors, FiniteSets

CONSTANTS
    Usb, Bluetooth,   \* the places, USB below Bluetooth
    Devices,          \* what may be at one
    None,             \* nothing there; no path given
    MaxMoves          \* bound: changes of the tree

Places == Usb \cup Bluetooth

ASSUME PlacesAssumption ==
    /\ Places \subseteq Nat
    /\ \A u \in Usb, b \in Bluetooth : u < b
    /\ None \notin Places /\ None \notin Devices
    /\ MaxMoves \in Nat
ASSUME DevicesAssumption ==
    \A d \in Devices :
        /\ d.bluetooth \in BOOLEAN /\ d.streams \in BOOLEAN
        /\ d.ifaces \in Seq([data : Seq(Byte), node : BOOLEAN])
        /\ d.bluetooth => Len(d.ifaces) = 1

\* The product ids there may be, and that of no device.
Pids == {""} \cup {d.pid : d \in Devices}

VARIABLES
    tree,    \* the device at each place
    moves    \* how often it changed

sysfsVars == <<tree, moves>>

Fits(d, p) == d # None => d.bluetooth = (p \in Bluetooth)

TreeInit ==
    /\ tree \in [Places -> Devices \cup {None}]
    /\ \A p \in Places : Fits(tree[p], p)
    /\ moves = 0

\* A device is plugged in, pulled out, or comes back as another.
Move(p, d) ==
    /\ moves < MaxMoves /\ tree[p] # d /\ Fits(d, p)
    /\ tree' = [tree EXCEPT ![p] = d]
    /\ moves' = moves + 1

HasInterface(p, n) == tree[p] # None /\ n \in DOMAIN tree[p].ifaces
Interface(p, n) == tree[p].ifaces[n]

\* The first in order, if there is any.
Lowest(numbers) == {p \in numbers : \A q \in numbers : p <= q}
=============================================================================
