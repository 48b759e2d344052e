---------------------------- MODULE MCReadConfig ----------------------------
\* ReadConfig with the pads of docs/device-ids.md that main tells apart.
EXTENDS ReadConfig

CONSTANT p1    \* the port; the path and node arguments name it

Pad(p, usb, named) == [pid |-> p, usb |-> usb, named |-> named]

\* A 2C on USB, an Ultimate 2 under both its ids, another XInput pad, the N64
\* pad, a 2C on Bluetooth, and a bootloader.
MCPads == {Pad("310a", TRUE, FALSE), Pad("6012", TRUE, TRUE), Pad("310b", TRUE, TRUE),
           Pad("310b", TRUE, FALSE), Pad("3019", TRUE, FALSE), Pad("301b", FALSE, FALSE),
           Pad("3208", TRUE, FALSE)}

Plain == [pid |-> "auto", path |-> None, node |-> None, switch |-> FALSE, yes |-> FALSE,
          probes |-> FALSE, unanswered |-> FALSE, skip |-> {}]

\* Reads of the pad found, by id or by path, with and without the options;
\* switches, confirmed or not; and reads of a node given by hand, under the id
\* of what is attached or under an Ultimate 2's.
MCArguments ==
    {[Plain EXCEPT !.pid = p] : p \in {"auto", "310b", "3019"}}
    \cup {[Plain EXCEPT !.path = p1]}
    \cup {[Plain EXCEPT !.probes = TRUE, !.unanswered = u, !.skip = s] :
             u \in BOOLEAN, s \in {{}, {"identify", "u2"}}}
    \cup {[Plain EXCEPT !.switch = TRUE, !.yes = y] : y \in BOOLEAN}
    \cup {[Plain EXCEPT !.node = p1, !.pid = p] : p \in {"auto", "6012"}}
=============================================================================
