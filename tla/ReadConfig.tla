------------------------------ MODULE ReadConfig ------------------------------
(***************************************************************************)
(* tools/read_config.py main (lines 180-291) with what it calls of         *)
(* tools/identify.py: choose_pid, find_vendor_interface, config_family.    *)
(* One process makes several calls, as the tests do: SWITCH_ARMED and      *)
(* LAST_PRODUCT are globals and outlive a call.  Pads come and go.         *)
(*                                                                         *)
(* A port stands for the sysfs name of a device and for the number of its  *)
(* hidraw node, so a pad plugged in where another one was takes its node.  *)
(* Every pad here has one vendor interface, with a node; the search among  *)
(* several is Identify's.  An exchange is its write and its end; what the  *)
(* chunks of a read hold is ReadSession's.                                 *)
(***************************************************************************)
EXTENDS Packets, PadIds, FiniteSets

CONSTANTS
    Ports,
    Pads,       \* what may be plugged in
    Arguments,  \* the argument lists main may be called with
    MaxCalls,   \* bound: calls of main in one process
    Moves,      \* where in main (values of pc) pads may come and go
    None        \* no path, no node, nothing plugged in

\* named: the product string has "Ultimate 2 Wireless" in it.
PadRecords == [pid : PAD_PIDS \cup REFUSE, usb : BOOLEAN, named : BOOLEAN]
ArgumentRecords ==
    [pid : PAD_PIDS \cup {"auto"}, path : Ports \cup {None}, node : Ports \cup {None},
     switch : BOOLEAN, yes : BOOLEAN, probes : BOOLEAN, unanswered : BOOLEAN,
     skip : SUBSET {"identify", "u2", "custom", "crc"}]

PC == {"idle", "find", "open", "run"}

ASSUME PadsAssumption == Pads # {} /\ Pads \subseteq PadRecords /\ None \notin Pads
ASSUME CallsAssumption == /\ Ports # {} /\ None \notin Ports \cup PAD_PIDS
                          /\ Arguments # {} /\ Arguments \subseteq ArgumentRecords
                          /\ MaxCalls \in Nat
                          /\ Moves \subseteq PC

VARIABLES
    attached,      \* the pad at each port
    SWITCH_ARMED,
    LAST_PRODUCT,  \* "" unset, else whether the recorded product is an Ultimate 2's
    recorded,      \* history, for the properties only: the call each entry is from, or 0
    pc, calls,
    args, pid, node,
    steps,         \* what main still has to exchange, chunked reads as one step
    asked,         \* a request is out and its exchange has not returned
    to, up,        \* the pad behind the open fd, and whether it is still there
    sent,          \* this call's requests: what, the pad they reached, the frame's id
    open, spoke    \* calls whose session is open; calls that sent something

products == <<LAST_PRODUCT, recorded>>
callVars == <<args, pid, node, steps, asked, to, sent>>
vars == <<attached, SWITCH_ARMED, products, pc, calls, callVars, up, open, spoke>>

-----------------------------------------------------------------------------
(* Decisions. *)

\* Mutant: only the ids that say so are an Ultimate 2's.
ConfigFamilyById(p, named) == IF p \in {"6012", "6013"} THEN "6012" ELSE None

ConfigFamily(p, named) ==
    IF p \in {"6012", "6013"} \/ (p = "310b" /\ named) THEN "6012" ELSE None

\* Mutant: the 2C's commands are not skipped on the other pads.
SkippedForIdentifyOnly(a, p, family) ==
    a.skip \cup (IF p \in IDENTIFY_ONLY_PIDS /\ ~a.unanswered THEN {"u2", "custom"} ELSE {})
           \cup (IF family = None /\ p \notin IDENTIFY_ONLY_PIDS THEN {"u2"} ELSE {})

\* args.skip after lines 221-230 and 243-245.
Skipped(a, p, family) ==
    a.skip \cup (IF p \in IDENTIFY_ONLY_PIDS /\ ~a.unanswered THEN {"u2", "custom"} ELSE {})
           \cup (IF p # "310a" THEN {"crc", "custom"} ELSE {})
           \cup (IF family = None /\ p \notin IDENTIFY_ONLY_PIDS THEN {"u2"} ELSE {})

When(condition, s) == IF condition THEN s ELSE <<>>

\* The exchanges main makes, in order (lines 259 and 266-288).
Steps(a, p, family) ==
    LET skip == Skipped(a, p, family)
    IN  IF a.switch THEN <<"switch">>
        ELSE When("identify" \notin skip, <<"get_pid", "init">>)
             \o When(a.probes /\ p = "310a", <<"is_wired", "get_rf_address", "probe_pid">>)
             \o When("u2" \notin skip, <<"u2">>)
             \o When("custom" \notin skip, <<"custom">>)
             \o When("crc" \notin skip, <<"crc">>)

Whats == {"switch", "get_pid", "init", "is_wired", "get_rf_address", "probe_pid",
          "u2", "custom", "crc"}
Chunked == {"u2", "custom"}
TwoCOnly == {"is_wired", "get_rf_address", "probe_pid", "custom", "crc"}

\* The (first) packet of a step, framed for the product id f.
WireOf(what, f) ==
    CASE what = "switch" -> PadReport(SWITCH_TO_DINPUT)
      [] what = "get_pid" -> PadReport(IDENTIFY_GET_PID)
      [] what = "init" -> PadReport(IDENTIFY_INIT)
      [] what = "is_wired" -> PadReport(PROBE_IS_WIRED)
      [] what = "get_rf_address" -> PadReport(PROBE_GET_RF_ADDRESS)
      [] what = "probe_pid" -> PadReport(PROBE_GET_PID)
      [] what = "u2" -> PadReport(Pro2ReadChunk(0, ULTIMATE2_TOTAL, FrameFor(f)))
      [] what = "custom" -> PadReport(CustomInfoChunk(0))
      [] what = "crc" -> ReadCrc

Wire == [what \in Whats |-> [f \in PAD_PIDS |-> WireOf(what, f)]]

Family == ConfigFamily(pid, LAST_PRODUCT[node] = "ultimate2")
FramedFor == IF Family = None THEN pid ELSE Family
OnTheList == Allowed(Wire[Head(steps)][FramedFor], SWITCH_ARMED)

-----------------------------------------------------------------------------
Init ==
    /\ attached \in [Ports -> Pads \cup {None}]
    /\ SWITCH_ARMED = FALSE
    /\ LAST_PRODUCT = [p \in Ports |-> ""]
    /\ recorded = [p \in Ports |-> 0]
    /\ pc = "idle" /\ calls = 0
    /\ args = (CHOOSE a \in Arguments : TRUE)
    /\ pid = "310a" /\ node = (CHOOSE p \in Ports : TRUE)
    /\ steps = <<>> /\ asked = FALSE /\ sent = {}
    /\ to = (CHOOSE d \in Pads : TRUE) /\ up = FALSE
    /\ open = {} /\ spoke = {}

Plug(p, d) ==
    /\ pc \in Moves /\ attached[p] = None
    /\ attached' = [attached EXCEPT ![p] = d]
    /\ UNCHANGED <<SWITCH_ARMED, products, pc, calls, callVars, up, open, spoke>>

\* The node goes with the pad, and what has it open gets errors from now on.
Unplug(p) ==
    /\ pc \in Moves /\ attached[p] # None
    /\ attached' = [attached EXCEPT ![p] = None]
    /\ up' = (up /\ node # p)
    /\ UNCHANGED <<SWITCH_ARMED, products, pc, calls, callVars, open, spoke>>

PortsOf(ids, path) ==
    {p \in Ports : attached[p] # None /\ attached[p].pid \in ids /\ (path = None \/ path = p)}

\* The ids choose_pid has to choose from: one, or it exits.
Choices(a) ==
    IF a.pid # "auto" THEN {a.pid} ELSE {attached[p].pid : p \in PortsOf(PAD_PIDS, a.path)}

\* The command line is parsed and choose_pid returns or exits (218-219).
Call(a) ==
    /\ pc = "idle" /\ calls < MaxCalls
    /\ calls' = calls + 1
    /\ args' = a /\ sent' = {}
    /\ IF Cardinality(Choices(a)) = 1
       THEN pc' = "find" /\ pid' \in Choices(a)
       ELSE pc' = "idle" /\ UNCHANGED pid
    /\ UNCHANGED <<attached, SWITCH_ARMED, products, node, steps, asked, to, up, open, spoke>>

\* Mutant: any pad of the table will do.
MatchesAnyPad == PortsOf(PAD_PIDS \ REFUSE, args.path)

Matches == PortsOf({pid} \ REFUSE, args.path)

\* The entries of the ports in S are read from what is attached there.
RecordFrom(S) ==
    /\ LAST_PRODUCT' = [p \in Ports |->
          IF p \in S THEN IF attached[p].named THEN "ultimate2" ELSE "other"
                     ELSE LAST_PRODUCT[p]]
    /\ recorded' = [p \in Ports |-> IF p \in S THEN calls ELSE recorded[p]]

\* Mutant: the product string recorded first is kept.
RecordOnce == RecordFrom({p \in Matches : attached[p].usb /\ LAST_PRODUCT[p] = ""})

\* Every match of the USB walk leaves its product string, the Bluetooth ones none.
Record == RecordFrom({p \in Matches : attached[p].usb})

\* --node is taken as it is (235).
TakeNode ==
    /\ pc = "find" /\ args.node # None
    /\ node' = args.node /\ pc' = "open"
    /\ UNCHANGED <<attached, SWITCH_ARMED, products, calls, args, pid, steps, asked, to, sent,
                   up, open, spoke>>

\* find_vendor_interface returns the one match, or exits on none or several.
FindInterface ==
    /\ pc = "find" /\ args.node = None
    /\ Record
    /\ IF Cardinality(Matches) = 1
       THEN pc' = "open" /\ node' \in Matches
       ELSE pc' = "idle" /\ UNCHANGED node
    /\ UNCHANGED <<attached, SWITCH_ARMED, calls, args, pid, steps, asked, to, sent, up, open, spoke>>

\* os.open fails: nothing is at the node any more, or it may not be opened.
OpenFails ==
    /\ pc = "open"
    /\ pc' = "idle"
    /\ UNCHANGED <<attached, SWITCH_ARMED, products, calls, callVars, up, open, spoke>>

Opened ==
    /\ pc = "open" /\ attached[node] # None
    /\ to' = attached[node]
    /\ open' = open \cup {calls}

\* --switch-to-dinput without --yes exits with the session open (253-255).
Unconfirmed ==
    /\ Opened
    /\ args.switch /\ ~args.yes
    /\ pc' = "idle"
    /\ UNCHANGED <<attached, SWITCH_ARMED, products, calls, args, pid, node, steps, asked, sent,
                   up, spoke>>

\* The session is open; a confirmed switch arms the allowlist (235-257).
Start ==
    /\ Opened
    /\ args.switch => args.yes
    /\ up' = TRUE
    /\ SWITCH_ARMED' = (args.switch \/ SWITCH_ARMED)
    /\ steps' = Steps(args, pid, Family)
    /\ asked' = FALSE /\ pc' = "run"
    /\ UNCHANGED <<attached, products, calls, args, pid, node, sent, spoke>>

\* exchange passes the allowlist and writes the next request.
Send ==
    /\ pc = "run" /\ ~asked /\ steps # <<>> /\ up
    /\ OnTheList
    /\ sent' = sent \cup {[what |-> Head(steps), to |-> to, framed |-> FramedFor]}
    /\ spoke' = spoke \cup {calls}
    /\ asked' = TRUE
    /\ UNCHANGED <<attached, SWITCH_ARMED, products, pc, calls, args, pid, node, steps, to, up, open>>

\* Mutant: the request stays out when its exchange is over.
ReturnStillAsked ==
    /\ pc = "run" /\ asked
    /\ steps' = Tail(steps)
    /\ UNCHANGED <<attached, SWITCH_ARMED, products, pc, calls, args, pid, node, asked, to, sent,
                   up, open, spoke>>

\* exchange returns a reply or nothing, and main goes on to the next step or,
\* in a chunked read, to another chunk.
Return ==
    /\ pc = "run" /\ asked
    /\ asked' = FALSE
    /\ \/ steps' = Tail(steps)
       \/ Head(steps) \in Chunked /\ UNCHANGED steps
    /\ UNCHANGED <<attached, SWITCH_ARMED, products, pc, calls, args, pid, node, to, sent, up,
                   open, spoke>>

\* Mutant: the switch stays armed.
CloseArmed ==
    /\ open' = open \ {calls}
    /\ pc' = "idle" /\ up' = FALSE
    /\ UNCHANGED SWITCH_ARMED

\* The finally blocks (261-263, 289-290).
Close ==
    /\ open' = open \ {calls}
    /\ pc' = "idle" /\ up' = FALSE
    /\ SWITCH_ARMED' = (SWITCH_ARMED /\ ~args.switch)

Finish ==
    /\ pc = "run" /\ ~asked /\ steps = <<>>
    /\ Close
    /\ UNCHANGED <<attached, products, calls, callVars, spoke>>

\* Mutant: an error leaves main past its finally.
RaiseUnhandled ==
    /\ pc = "run" /\ steps # <<>>
    /\ ~up \/ (~asked /\ ~OnTheList)
    /\ pc' = "idle" /\ up' = FALSE
    /\ UNCHANGED <<attached, SWITCH_ARMED, products, calls, callVars, open, spoke>>

\* OSError from a pad that is gone, or the refusal of a packet off the list.
Raise ==
    /\ pc = "run" /\ steps # <<>>
    /\ ~up \/ (~asked /\ ~OnTheList)
    /\ Close
    /\ UNCHANGED <<attached, products, calls, callVars, spoke>>

\* The process has made its calls.
Rest == pc = "idle" /\ calls = MaxCalls /\ UNCHANGED vars

Next ==
    \/ \E p \in Ports, d \in Pads : Plug(p, d)
    \/ \E p \in Ports : Unplug(p)
    \/ \E a \in Arguments : Call(a)
    \/ TakeNode \/ FindInterface \/ OpenFails \/ Unconfirmed \/ Start
    \/ Send \/ Return \/ Finish \/ Raise \/ Rest

Spec == Init /\ [][Next]_vars

-----------------------------------------------------------------------------
(* Properties. *)

TypeOK ==
    /\ attached \in [Ports -> Pads \cup {None}]
    /\ SWITCH_ARMED \in BOOLEAN
    /\ LAST_PRODUCT \in [Ports -> {"", "ultimate2", "other"}]
    /\ recorded \in [Ports -> 0 .. MaxCalls]
    /\ pc \in PC
    /\ calls \in 0 .. MaxCalls
    /\ args \in Arguments
    /\ pid \in PAD_PIDS
    /\ node \in Ports
    /\ steps \in Seq(Whats)
    /\ asked \in BOOLEAN /\ (asked => steps # <<>>)
    /\ to \in Pads
    /\ up \in BOOLEAN
    /\ sent \subseteq [what : Whats, to : Pads, framed : PAD_PIDS]
    /\ open \subseteq 0 .. MaxCalls
    /\ spoke \subseteq 0 .. MaxCalls

\* The reboot into DInput goes out only from a call with both flags, and then
\* alone (192-193); the allowlist is armed for it at no other time, whatever
\* ends the call, and so not in a later call of the process (51, 256-263).
SwitchIsConfirmedAndAlone ==
    /\ (\E m \in sent : m.what = "switch") =>
          args.switch /\ args.yes /\ \A m \in sent : m.what = "switch"
    /\ SWITCH_ARMED => pc = "run" /\ args.switch /\ args.yes

\* Nothing is sent to another pad than the one named or chosen, and so never
\* to a bootloader or an idle dongle (docstring 11-13), unless --node names
\* the device or another one takes its node between find and open.
NamedPadOnly == args.node = None => \A m \in sent : m.to.pid = pid

\* readCRC, the probes and the custom_info read reach the 2C alone (225-230),
\* on the same terms: a pad the search found, that stays until it is opened.
OnlyThe2CGetsItsCommands ==
    args.node = None => \A m \in sent : m.what \in TwoCOnly => m.to.pid = "310a"

SpeaksUltimate2(d) == d.pid \in {"6012", "6013"} \/ (d.pid = "310b" /\ d.named)
FitsUltimate2(m) ==
    /\ m.what = "u2"
    /\ TakesSection(Wire[m.what][m.framed], FALSE)
    /\ FrameFor(m.framed).checksum

\* An entry of LAST_PRODUCT from an earlier call of the process.
StaleRecord == recorded[node] \in 1 .. calls - 1

\* How a pad that is no Ultimate 2 comes to be taken for one: --node names it
\* under an Ultimate 2's own id, or it shows 310b and the product string that
\* line 240 looks up is an earlier call's, because --node or a pad on
\* Bluetooth leaves the entry of its node as it was (222-223, 235).
MistakenFor(d) ==
    \/ args.node # None /\ pid \in {"6012", "6013"}
    \/ (args.node # None \/ ~d.usb) /\ pid = "310b" /\ StaleRecord

\* Without --unanswered every chunked read is the Ultimate 2's, in its frame
\* and with its checksum, and goes to an Ultimate 2, whichever of its ids it
\* shows and whatever earlier calls recorded.  In no other way than the two
\* above does it reach another pad; that a pad takes the node between the
\* search and the opening is left out of the run (Moves).
ReadsFitTheirPad ==
    ~args.unanswered =>
        \A m \in sent : m.what \in Chunked =>
            FitsUltimate2(m) /\ (SpeaksUltimate2(m.to) \/ MistakenFor(m.to))

\* README.md: the tool tells an Ultimate 2 from anything else by its product
\* string.  A call that comes to its end on one, under its id, has asked for
\* its image unless told to skip it.
UltimateTwoIsRead ==
    (pc = "run" /\ steps = <<>> /\ ~args.switch /\ "u2" \notin args.skip
        /\ to.pid = pid /\ SpeaksUltimate2(to))
    => \E m \in sent : FitsUltimate2(m)

\* The same of a pad that find_vendor_interface found.
FoundUltimateTwoIsRead == args.node = None => UltimateTwoIsRead

\* Every session that sent something is closed when its call is over,
\* whatever ended it (261-263, 289-290).
SpokenSessionsAreClosed == pc = "idle" => open \cap spoke = {}

\* No call is stopped by its own allowlist: all that main and the frames of
\* every product come to send is on it.
NothingPlannedIsRefused == (pc = "run" /\ ~asked /\ steps # <<>>) => OnTheList
=============================================================================
