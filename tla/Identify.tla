------------------------------ MODULE Identify ------------------------------
(***************************************************************************)
(* tools/identify.py: find_vendor_interface, with choose_pid before it     *)
(* when read_config.py calls it, over a tree that may change between any   *)
(* two devices and interfaces it looks at; and main, which sends the two   *)
(* identify commands to the node found and takes the next report of any id *)
(* for the reply.                                                          *)
(***************************************************************************)
EXTENDS Sysfs, PadIds

CONSTANTS
    Searches,   \* what is searched for: [tool, pid, path]
    Ring        \* bound: reports waiting on the node

ASSUME SearchesAssumption ==
    /\ Searches # {}
    /\ Searches \subseteq [tool : {"identify", "read_config"}, pid : PAD_PIDS \cup {"auto"},
                           path : Places \cup {None}]
    /\ \A s \in Searches : s.tool = "identify" => s.pid \in {"310a", "301b"}
    /\ Ring \in Nat

COMMANDS == <<"get_pid", "init">>

VARIABLES
    spc,         \* "off", "search", "interfaces", "open", "write", "wait", "exit"
    search, pid,
    present,     \* the USB directories that were there when the search began
    todo,        \* the places still to search
    at, rest,    \* the place searched and its interfaces still to look at
    candidates,  \* of that place: [rank, page, iface, ids]
    matches,     \* of all places: [place, iface, ids]
    since,       \* moves when the search began
    up,          \* what is behind the open node is still there
    command,     \* how many commands were answered
    owed, queue, \* commands at the pad; reports in the ring, "input" or the command answered
    explained    \* what was explained as the reply to what

searchVars == <<search, pid, present, todo, at, rest, candidates, matches, since>>
exchangeVars == <<up, command, owed, queue, explained>>
identifyVars == <<spc, searchVars, exchangeVars>>

IdentifyInit ==
    /\ spc = "off" /\ search = (CHOOSE s \in Searches : TRUE) /\ pid = "310a"
    /\ present = {} /\ todo = {} /\ at = 0 /\ rest = {} /\ candidates = {} /\ matches = {} /\ since = 0
    /\ up = FALSE /\ command = 0 /\ owed = <<>> /\ queue = <<>> /\ explained = <<>>

Wanted(path, p) == path = None \/ path = p

PidsToChoose(s) ==
    IF s.pid # "auto" THEN {s.pid}
    ELSE {tree[p].pid : p \in {p \in Places : tree[p] # None /\ tree[p].pid \in PAD_PIDS
                                               /\ Wanted(s.path, p)}}

\* choose_pid returns, or exits on no id or several.
StartSearch(s) ==
    /\ spc = "off"
    /\ search' = s /\ since' = moves /\ present' = {p \in Usb : tree[p] # None}
    /\ IF Cardinality(PidsToChoose(s)) = 1
       THEN spc' = "search" /\ pid' \in PidsToChoose(s) /\ todo' = Places
       ELSE spc' = "exit" /\ UNCHANGED <<pid, todo>>
    /\ UNCHANGED <<at, rest, candidates, matches, exchangeVars>>

\* A device that the walk of the USB directories, or the later one of the
\* Bluetooth devices, comes to.
Listed(p) == tree[p] # None /\ (p \in Usb => p \in present)

\* Mutant: the path is left to choose_pid.
SearchDeviceAnyPath ==
    /\ spc = "search" /\ todo # {}
    /\ \E p \in Lowest(todo) :
          /\ todo' = todo \ {p}
          /\ IF Listed(p) /\ tree[p].pid \in {pid} \ REFUSE
             THEN /\ spc' = "interfaces" /\ at' = p
                  /\ rest' = DOMAIN tree[p].ifaces /\ candidates' = {}
             ELSE UNCHANGED <<spc, at, rest, candidates>>
    /\ UNCHANGED <<search, pid, present, matches, since, exchangeVars>>

\* The ids of a device are read; one that is not wanted is passed over.
SearchDevice ==
    /\ spc = "search" /\ todo # {}
    /\ \E p \in Lowest(todo) :
          /\ todo' = todo \ {p}
          /\ IF Listed(p) /\ tree[p].pid \in {pid} \ REFUSE /\ Wanted(search.path, p)
             THEN /\ spc' = "interfaces" /\ at' = p
                  /\ rest' = DOMAIN tree[p].ifaces /\ candidates' = {}
             ELSE UNCHANGED <<spc, at, rest, candidates>>
    /\ UNCHANGED <<search, pid, present, matches, since, exchangeVars>>

Candidates(data, n) ==
    {[rank |-> IF CONFIG_REPORT_IDS \subseteq ScannedIds(data) THEN 0 ELSE 1,
      page |-> page, iface |-> n, ids |-> ScannedIds(data)] : page \in Lowest(ScannedPages(data))}

\* The interface's descriptor is scanned, and then its node looked up; a
\* vendor page without a node ends the program.
SearchInterface ==
    /\ spc = "interfaces" /\ rest # {}
    /\ \E n \in Lowest(rest) :
          LET data == IF HasInterface(at, n) THEN Interface(at, n).data ELSE <<>>
          IN  /\ rest' = rest \ {n}
              /\ IF ScannedPages(data) = {} THEN UNCHANGED <<spc, candidates>>
                 ELSE IF ~Interface(at, n).node THEN spc' = "exit" /\ UNCHANGED candidates
                 ELSE candidates' = candidates \cup Candidates(data, n) /\ UNCHANGED spc
    /\ UNCHANGED <<search, pid, present, todo, at, matches, since, exchangeVars>>

\* Mutant: sorted by the page alone.
SortsBeforeByPage(c, d) == c.page < d.page \/ (c.page = d.page /\ c.iface <= d.iface)

\* The order of candidates.sort, which keeps equals in theirs.
SortsBefore(c, d) ==
    \/ c.rank < d.rank
    \/ c.rank = d.rank /\ c.page < d.page
    \/ c.rank = d.rank /\ c.page = d.page /\ c.iface <= d.iface

\* Mutant: the ids recorded are those of the first candidate, before the sort.
EndDeviceRecordsFirst ==
    /\ spc = "interfaces" /\ rest = {}
    /\ spc' = "search"
    /\ matches' = matches \cup
           {[place |-> at, iface |-> c.iface,
             ids |-> (CHOOSE d \in candidates : \A e \in candidates : d.iface <= e.iface).ids] :
              c \in {c \in candidates : \A d \in candidates : SortsBefore(c, d)}}
    /\ UNCHANGED <<search, pid, present, todo, at, rest, candidates, since, exchangeVars>>

\* The first candidate is the device's match, its ids are LAST_SELECTION's.
EndDevice ==
    /\ spc = "interfaces" /\ rest = {}
    /\ spc' = "search"
    /\ matches' = matches \cup
           {[place |-> at, iface |-> c.iface, ids |-> c.ids] :
              c \in {c \in candidates : \A d \in candidates : SortsBefore(c, d)}}
    /\ UNCHANGED <<search, pid, present, todo, at, rest, candidates, since, exchangeVars>>

\* The one match is returned; none or several end the program.
EndSearch ==
    /\ spc = "search" /\ todo = {}
    /\ spc' = IF Cardinality(matches) = 1 THEN "open" ELSE "exit"
    /\ UNCHANGED <<searchVars, exchangeVars>>

\* A file of a device that is pulled out between two looks at it: the ids of one
\* that was listed, a descriptor, or the product string of one with a match.
\* Nothing catches the OSError.  (Where the first look already finds nothing,
\* SearchDevice passes the device over, SearchInterface reads no descriptor, and
\* EndDevice no string.)
SearchRaises ==
    /\ \/ spc = "search" /\ \E p \in Lowest(todo) : p \in present /\ tree[p] = None
       \/ spc = "interfaces" /\ \E n \in Lowest(rest) : ~HasInterface(at, n)
       \/ spc = "interfaces" /\ rest = {} /\ candidates # {} /\ at \in Usb /\ tree[at] = None
    /\ spc' = "exit"
    /\ UNCHANGED <<searchVars, exchangeVars>>

Found == CHOOSE m \in matches : TRUE

-----------------------------------------------------------------------------
(* identify.py main, from os.open on. *)

NodeThere == HasInterface(Found.place, Found.iface) /\ Interface(Found.place, Found.iface).node

Open ==
    /\ spc = "open" /\ search.tool = "identify"
    /\ IF NodeThere THEN spc' = "write" /\ up' = TRUE ELSE spc' = "exit" /\ UNCHANGED up
    /\ UNCHANGED <<searchVars, command, owed, queue, explained>>

WriteCommand ==
    /\ spc = "write" /\ up
    /\ owed' = Append(owed, COMMANDS[command + 1])
    /\ spc' = "wait"
    /\ UNCHANGED <<searchVars, up, command, queue, explained>>

\* The pad answers a command, late or soon, or the answer is lost.
PadAnswers ==
    /\ owed # <<>> /\ up
    /\ owed' = Tail(owed)
    /\ \/ Len(queue) < Ring /\ queue' = Append(queue, Head(owed))
       \/ UNCHANGED queue
    /\ UNCHANGED <<spc, searchVars, up, command, explained>>

\* A pad in a gamepad personality sends input reports on the same node.
PadStreams ==
    /\ spc \in {"write", "wait"} /\ up /\ tree[Found.place].streams /\ Len(queue) < Ring
    /\ queue' = Append(queue, "input")
    /\ UNCHANGED <<spc, searchVars, up, command, owed, explained>>

\* Mutant: main goes on to the next command when one is not answered.
ReplyTimesOutGoesOn ==
    /\ spc = "wait" /\ up /\ queue = <<>>
    /\ command' = command + 1
    /\ spc' = IF command + 1 = Len(COMMANDS) THEN "exit" ELSE "write"
    /\ UNCHANGED <<searchVars, up, owed, queue, explained>>

\* select finds nothing in time: main returns, and the node is closed.
ReplyTimesOut ==
    /\ spc = "wait" /\ up /\ queue = <<>>
    /\ spc' = "exit"
    /\ UNCHANGED <<searchVars, exchangeVars>>

\* Mutant: a third command is to be written after the second.
ReadReplyGoesOn ==
    /\ spc = "wait" /\ up /\ queue # <<>>
    /\ explained' = Append(explained, [asked |-> COMMANDS[command + 1], from |-> Head(queue)])
    /\ queue' = Tail(queue)
    /\ command' = command + 1
    /\ spc' = "write"
    /\ UNCHANGED <<searchVars, up, owed>>

ReadReply ==
    /\ spc = "wait" /\ up /\ queue # <<>>
    /\ explained' = Append(explained, [asked |-> COMMANDS[command + 1], from |-> Head(queue)])
    /\ queue' = Tail(queue)
    /\ command' = command + 1
    /\ spc' = IF command + 1 = Len(COMMANDS) THEN "exit" ELSE "write"
    /\ UNCHANGED <<searchVars, up, owed>>

\* The pad is gone: OSError, and the finally closes the node.
Fail ==
    /\ spc \in {"write", "wait"} /\ ~up
    /\ spc' = "exit"
    /\ UNCHANGED <<searchVars, exchangeVars>>

IdentifyNext ==
    /\ \/ \E s \in Searches : StartSearch(s)
       \/ SearchDevice \/ SearchInterface \/ EndDevice \/ EndSearch \/ SearchRaises
       \/ Open \/ WriteCommand \/ PadAnswers \/ PadStreams \/ ReplyTimesOut \/ ReadReply \/ Fail
    /\ UNCHANGED sysfsVars

-----------------------------------------------------------------------------

IdentifyTypeOK ==
    /\ spc \in {"off", "search", "interfaces", "open", "write", "wait", "exit"}
    /\ search \in Searches /\ pid \in PAD_PIDS
    /\ present \subseteq Usb /\ todo \subseteq Places /\ at \in Places \cup {0} /\ rest \subseteq Nat
    /\ candidates \subseteq [rank : {0, 1}, page : Nat, iface : Nat, ids : SUBSET Byte]
    /\ matches \subseteq [place : Places, iface : Nat, ids : SUBSET Byte]
    /\ since \in 0 .. moves
    /\ up \in BOOLEAN
    /\ command \in 0 .. Len(COMMANDS) /\ (spc \in {"write", "wait"} => command < Len(COMMANDS))
    /\ owed \in Seq({"get_pid", "init"})
    /\ queue \in Seq({"get_pid", "init", "input"})
    /\ explained \in Seq([asked : {"get_pid", "init"}, from : {"get_pid", "init", "input"}])

\* While nothing moved since the search began.
Still == moves = since

\* identify.py (217): the config channel declares 81 and 02; prefer it.  The
\* node returned is of a device with the id, at the path if one was given,
\* and if the items of one of its vendor-page interfaces declare the channel,
\* those of the chosen interface do.  What may pass for such an interface is
\* one with the bytes 85 02 and 85 81 by chance (89-92 admit false entries).
ChannelByChance(data) == CONFIG_REPORT_IDS \subseteq ScannedIds(data) /\ ~DeclaresChannel(data)
HasChannel(p) ==
    \E n \in DOMAIN tree[p].ifaces :
        DeclaresVendorPage(Interface(p, n).data) /\ DeclaresChannel(Interface(p, n).data)
FoundData == Interface(Found.place, Found.iface).data
ChannelIsPreferred ==
    spc = "open" /\ Still =>
        /\ tree[Found.place].pid = pid /\ Wanted(search.path, Found.place)
        /\ HasChannel(Found.place) => DeclaresChannel(FoundData) \/ ChannelByChance(FoundData)

\* read_config.py (246-252): a session on an interface without 81 and 02
\* warns that there is no config channel.  A warning is never false: no
\* vendor-page interface of the device declares the channel.  Without one the
\* interface opened declares it, or has its ids by chance.
Warned == ~ (CONFIG_REPORT_IDS \subseteq Found.ids)
WarnsWithoutChannel ==
    spc = "open" /\ Still =>
        IF Warned THEN ~HasChannel(Found.place)
        ELSE DeclaresChannel(FoundData) \/ ChannelByChance(FoundData)

\* On a pad that sends nothing of its own, what is explained as the reply to
\* a command is that command's, however late replies come: main stops at the
\* first that is not there in time.
ExplainedIsItsReply ==
    (up /\ ~tree[Found.place].streams) =>
        \A n \in DOMAIN explained : explained[n].from = explained[n].asked

\* identify.py (9-10): "Refuses the bootloader and the idle dongle."  What the
\* commands go to is none of the devices refused, though it may have been
\* plugged in where the pad was while main searched, or before it opened the node.
RefusedIsNeverSpokenTo ==
    (spc \in {"write", "wait"} /\ up) => tree[Found.place].pid \notin REFUSE
=============================================================================
