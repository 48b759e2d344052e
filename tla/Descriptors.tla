----------------------------- MODULE Descriptors -----------------------------
(***************************************************************************)
(* The two readings of a HID report descriptor.  tools/inventory.py walks  *)
(* its items (parse_descriptor); tools/identify.py scans its raw bytes for *)
(* the two items it wants (descriptor_facts).  A descriptor is a sequence  *)
(* of bytes; positions are the code's, from 0.                             *)
(***************************************************************************)
EXTENDS Integers, Sequences

Byte == 0 .. 255
VendorPage(page) == page >= 65280    \* 0xff00
CONFIG_REPORT_IDS == {129, 2}

-----------------------------------------------------------------------------
(* The scan: a usage page is 06 lo ff, a report id 85 id, wherever it is. *)

ScannedPages(data) ==
    {65280 + data[i + 1] : i \in {i \in 1 .. Len(data) - 2 : data[i] = 6 /\ data[i + 2] = 255}}

\* Mutant: the items are taken to be two bytes each.
ScannedIdsByTwo(data) ==
    {data[i + 1] : i \in {i \in 1 .. Len(data) - 1 : data[i] = 133 /\ i % 2 = 1}}

ScannedIds(data) == {data[i + 1] : i \in {i \in 1 .. Len(data) - 1 : data[i] = 133}}

-----------------------------------------------------------------------------
(* The items.  The prefix of a short item has its size, type and tag; a     *)
(* long item, fe, has its size in the next byte.                            *)

Prefix(data, i) == data[i + 1]
Long(data, i) == Prefix(data, i) = 254
SizeAt(data, i) == <<0, 1, 2, 4>>[(Prefix(data, i) % 4) + 1]
TypeAt(data, i) == (Prefix(data, i) \div 4) % 4
TagAt(data, i) == Prefix(data, i) \div 16

\* The item at i does not end early; a long one's data is not looked at.
Whole(data, i) == IF Long(data, i) THEN i + 3 <= Len(data)
                                   ELSE i + 1 + SizeAt(data, i) <= Len(data)

\* Mutant: the size byte of a long item counts the byte that follows it.
NextAtOneShort(data, i) == IF Long(data, i) THEN i + 2 + data[i + 2]
                                            ELSE i + 1 + SizeAt(data, i)

NextAt(data, i) == IF Long(data, i) THEN i + 3 + data[i + 2]
                                    ELSE i + 1 + SizeAt(data, i)

\* The item's bytes as a little-endian number.
ValueAt(data, i) ==
    CASE SizeAt(data, i) = 0 -> 0
      [] SizeAt(data, i) = 1 -> data[i + 2]
      [] SizeAt(data, i) = 2 -> data[i + 2] + 256 * data[i + 3]
      [] OTHER -> data[i + 2] + 256 * data[i + 3] + 65536 * data[i + 4] + 16777216 * data[i + 5]

Is(data, i, type, tag) == ~Long(data, i) /\ TypeAt(data, i) = type /\ TagAt(data, i) = tag
IsUsagePage(data, i) == Is(data, i, 1, 0)
IsReportId(data, i) == Is(data, i, 1, 8)
IsUsage(data, i) == Is(data, i, 2, 0)
IsCollection(data, i) == Is(data, i, 0, 10)

-----------------------------------------------------------------------------
(* What a descriptor declares, with the lengths of its items taken from the *)
(* HID specification and not from the walk: of a short item one byte and    *)
(* none, one, two or four more; of a long one three and its data.           *)

Needed(b) == IF b = 254 THEN 3 ELSE IF b % 4 = 3 THEN 5 ELSE 1 + (b % 4)
Skipped(data, i) == IF data[i + 1] = 254 THEN data[i + 2] ELSE 0

\* The positions of the items of a descriptor from a position on, up to one that
\* is cut short.
ItemsFrom(data) ==
    LET from[i \in Nat] ==
            IF i >= Len(data) \/ i + Needed(data[i + 1]) > Len(data) THEN {}
            ELSE {i} \cup from[i + Needed(data[i + 1]) + Skipped(data, i)]
    IN  from
Items(data) == ItemsFrom(data)[0]

DeclaresVendorPage(data) ==
    \E i \in Items(data) : IsUsagePage(data, i) /\ VendorPage(ValueAt(data, i))
DeclaresChannel(data) ==
    \A id \in CONFIG_REPORT_IDS : \E i \in Items(data) : IsReportId(data, i) /\ ValueAt(data, i) = id
=============================================================================
