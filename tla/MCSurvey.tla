------------------------------ MODULE MCSurvey ------------------------------
\* Survey over descriptors of docs/firmware.md and tools/test_identify.py,
\* each with what tells the two readings apart and no more.
EXTENDS Survey

Item(data, node) == [data |-> data, node |-> node]
Device(p, streams, ifaces) ==
    [pid |-> p, bluetooth |-> p = "301b", streams |-> streams, ifaces |-> ifaces]

XInput == Item(<<>>, FALSE)
\* Page ff7a with reports 02 and 81.
Config == <<6, 122, 255, 9, 1, 161, 1, 133, 2, 133, 129, 192>>
\* A keyboard; its usage maximum is 6, so that 06 26 ff reads as page ff26.
Keyboard == <<5, 1, 161, 1, 133, 1, 41, 6, 38, 255, 0, 192>>
\* Page ff00 with report 02; the usage 85 before an input item (81) reads as
\* report 81.
Chance == <<6, 0, 255, 161, 1, 133, 2, 9, 133, 129, 2, 192>>
\* The dongle's 6012: page ff00, reports 01 and 05; and the cable's: no
\* vendor page, reports 01, 02 and 81.
Dongle == <<6, 0, 255, 161, 1, 133, 1, 133, 5, 192>>
Gamepad == <<5, 1, 161, 1, 133, 1, 133, 2, 133, 129, 192>>
\* A long item hides two bytes: the first reads as report 27, the second as an
\* item that takes in the page.  The last item is cut short.
Odd == <<254, 2, 0, 133, 39, 6, 160, 255, 133, 2, 133, 129, 5>>

MCDevices ==
    {Device("310a", FALSE, <<XInput, Item(Keyboard, TRUE), Item(Config, TRUE)>>),
     Device("310a", FALSE, <<Item(Chance, TRUE), Item(Config, TRUE)>>),
     Device("6012", TRUE, <<Item(Dongle, TRUE)>>),
     Device("6012", TRUE, <<Item(Gamepad, TRUE)>>),
     Device("310b", FALSE, <<XInput, Item(Odd, TRUE), Item(Config, FALSE)>>),
     Device("301c", FALSE, <<Item(Config, TRUE)>>)}
    \cup
    {Device("301b", s, <<Item(Config, n)>>) : s \in BOOLEAN, n \in BOOLEAN}

For(tool, p, path) == [tool |-> tool, pid |-> p, path |-> path]
MCSearches ==
    {For("identify", "310a", None), For("identify", "301b", None), For("read_config", "auto", None),
     For("read_config", "auto", 1), For("read_config", "310a", 2), For("read_config", "310b", None)}

\* The dongle, with its pad on and idle, each with one interface, as
\* tools/test_identify.py has them.
MovedDevices == {Device(p, FALSE, <<Item(Config, TRUE)>>) : p \in {"310a", "301c"}}
MovedSearches == {For("identify", "310a", None)}

\* What the theorems of SurveyProofs ask of the devices, these have.
ASSUME DevicesAreUsual == UsualDescriptors /\ NoPageByChance
=============================================================================
