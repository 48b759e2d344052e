--------------------------- MODULE ReadConfigProofs ---------------------------
(***************************************************************************)
(* Proofs about ReadConfig, for any ports, pads, argument lists and number *)
(* of calls.                                                               *)
(***************************************************************************)
EXTENDS ReadConfig, PacketProofs

USE DEF products

(* What main may exchange in a call with arguments a, product id p and      *)
(* family f: the switch alone, or anything else within its conditions.     *)
Planned(a, p, f) ==
    {what \in Whats : /\ a.switch <=> what = "switch"
                      /\ what \in TwoCOnly => p = "310a"
                      /\ (what \in Chunked /\ ~a.unanswered) => what = "u2" /\ f # None}

\* Concatenation stays in a set of sequences.
LEMMA SeqConcat ==
    ASSUME NEW S, NEW s \in Seq(S), NEW t \in Seq(S) PROVE s \o t \in Seq(S)
OBVIOUS

\* A conditional sequence stays in a set of sequences.
LEMMA SeqWhen ==
    ASSUME NEW S, NEW c, NEW s, c => s \in Seq(S) PROVE When(c, s) \in Seq(S)
<1>1. <<>> \in Seq(S)
  OBVIOUS
<1>. QED BY <1>1, Zenon DEF When

\* The steps main lists are planned ones (lines 219-288).
LEMMA StepsArePlanned ==
    ASSUME NEW a \in ArgumentRecords, NEW p \in PAD_PIDS, NEW f
    PROVE  Steps(a, p, f) \in Seq(Planned(a, p, f))
<1>. DEFINE S == Planned(a, p, f)
            skip == Skipped(a, p, f)
            s1 == When("identify" \notin skip, <<"get_pid", "init">>)
            s2 == When(a.probes /\ p = "310a", <<"is_wired", "get_rf_address", "probe_pid">>)
            s3 == When("u2" \notin skip, <<"u2">>)
            s4 == When("custom" \notin skip, <<"custom">>)
            s5 == When("crc" \notin skip, <<"crc">>)
<1>1. CASE a.switch
  <2>1. "switch" \in S
    BY <1>1 DEF Planned, Whats, TwoCOnly, Chunked
  <2>2. Steps(a, p, f) = <<"switch">>
    BY <1>1, Zenon DEF Steps
  <2>. HIDE DEF S
  <2>3. <<"switch">> \in Seq(S)
    BY <2>1
  <2>. QED BY <2>2, <2>3 DEF S
<1>2. CASE ~a.switch
  <2>1. {"get_pid", "init"} \subseteq S
    BY <1>2 DEF Planned, Whats, TwoCOnly, Chunked
  <2>2. p = "310a" => {"is_wired", "get_rf_address", "probe_pid"} \subseteq S
    BY <1>2 DEF Planned, Whats, TwoCOnly, Chunked
  <2>3. "u2" \notin skip => "u2" \in S
    <3>1. SUFFICES ASSUME "u2" \notin skip, ~a.unanswered PROVE f # None
      BY <1>2 DEF Planned, Whats, TwoCOnly, Chunked
    <3>. QED BY <3>1 DEF Skipped
  <2>4. "custom" \notin skip => "custom" \in S
    <3>1. SUFFICES ASSUME "custom" \notin skip PROVE p = "310a" /\ a.unanswered
      BY <1>2 DEF Planned, Whats, TwoCOnly, Chunked
    <3>. QED BY <3>1 DEF Skipped, IDENTIFY_ONLY_PIDS
  <2>5. "crc" \notin skip => "crc" \in S
    <3>1. SUFFICES ASSUME "crc" \notin skip PROVE p = "310a"
      BY <1>2 DEF Planned, Whats, TwoCOnly, Chunked
    <3>. QED BY <3>1 DEF Skipped
  <2>6. Steps(a, p, f) = s1 \o s2 \o s3 \o s4 \o s5
    BY <1>2, Zenon DEF Steps
  <2>. HIDE DEF S, skip
  <2>7. s1 \in Seq(S)
    <3>1. <<"get_pid", "init">> \in Seq(S)
      BY <2>1
    <3>. QED BY <3>1, SeqWhen, Zenon
  <2>8. s2 \in Seq(S)
    <3>1. p = "310a" => <<"is_wired", "get_rf_address", "probe_pid">> \in Seq(S)
      BY <2>2
    <3>2. (a.probes /\ p = "310a") => <<"is_wired", "get_rf_address", "probe_pid">> \in Seq(S)
      BY <3>1, Zenon
    <3>. QED BY <3>2, SeqWhen, Zenon
  <2>9. s3 \in Seq(S)
    <3>1. "u2" \notin skip => <<"u2">> \in Seq(S)
      BY <2>3
    <3>. QED BY <3>1, SeqWhen, Zenon
  <2>10. s4 \in Seq(S)
    <3>1. "custom" \notin skip => <<"custom">> \in Seq(S)
      BY <2>4
    <3>. QED BY <3>1, SeqWhen, Zenon
  <2>11. s5 \in Seq(S)
    <3>1. "crc" \notin skip => <<"crc">> \in Seq(S)
      BY <2>5
    <3>. QED BY <3>1, SeqWhen, Zenon
  <2>. HIDE DEF s1, s2, s3, s4, s5
  <2>12. s1 \o s2 \in Seq(S)
    BY <2>7, <2>8, SeqConcat, Zenon
  <2>13. s1 \o s2 \o s3 \in Seq(S)
    BY <2>9, <2>12, SeqConcat, Zenon
  <2>14. s1 \o s2 \o s3 \o s4 \in Seq(S)
    BY <2>10, <2>13, SeqConcat, Zenon
  <2>15. s1 \o s2 \o s3 \o s4 \o s5 \in Seq(S)
    BY <2>11, <2>14, SeqConcat, Zenon
  <2>. QED BY <2>6, <2>15, Zenon DEF S
<1>. QED BY <1>1, <1>2

\* A report that starts with an allowed prefix and is not the switch passes.
LEMMA PrefixIsAllowed ==
    ASSUME NEW p, NEW prefix \in ALLOWED_PREFIXES, StartsWith(p, prefix), p[0] = REPORT_OUT,
           p # PadReport(SWITCH_TO_DINPUT), NEW armed
    PROVE  Allowed(p, armed)
BY DEF Allowed, OnReadList

\* The bytes by which the switch differs from what else is sent.
LEMMA SwitchBytes ==
    LET p == PadReport(SWITCH_TO_DINPUT) IN p[0] = 129 /\ p[1] = 5 /\ p[2] = 0 /\ p[3] = 81
BY DEF PadReport, SWITCH_TO_DINPUT, Size

\* The whole packet of a payload is an allowed one if the list has it.
LEMMA WholeIsAllowed ==
    ASSUME NEW payload \in {IDENTIFY_INIT, PROBE_IS_WIRED, PROBE_GET_RF_ADDRESS, PROBE_GET_PID},
           NEW armed
    PROVE  Allowed(PadReport(payload), armed)
<1>. DEFINE p == PadReport(payload)
<1>1. CASE payload = IDENTIFY_INIT
  <2>1. StartsWith(p, IDENTIFY_INIT \o Zeros(60))
    BY <1>1 DEF StartsWith, PadReport, IDENTIFY_INIT, Zeros, Size
  <2>2. p[0] = 129 /\ p[2] = 193
    BY <1>1 DEF PadReport, IDENTIFY_INIT, Size
  <2>. HIDE DEF p
  <2>. QED BY <2>1, <2>2, SwitchBytes, PrefixIsAllowed DEF ALLOWED_PREFIXES, REPORT_OUT, p
<1>2. CASE payload = PROBE_IS_WIRED
  <2>1. StartsWith(p, PROBE_IS_WIRED \o Zeros(59))
    BY <1>2 DEF StartsWith, PadReport, PROBE_IS_WIRED, Zeros, Size
  <2>2. p[0] = 129 /\ p[3] = 49
    BY <1>2 DEF PadReport, PROBE_IS_WIRED, Size
  <2>. HIDE DEF p
  <2>. QED BY <2>1, <2>2, SwitchBytes, PrefixIsAllowed DEF ALLOWED_PREFIXES, REPORT_OUT, p
<1>3. CASE payload = PROBE_GET_RF_ADDRESS
  <2>1. StartsWith(p, PROBE_GET_RF_ADDRESS \o Zeros(59))
    BY <1>3 DEF StartsWith, PadReport, PROBE_GET_RF_ADDRESS, Zeros, Size
  <2>2. p[0] = 129 /\ p[2] = 102
    BY <1>3 DEF PadReport, PROBE_GET_RF_ADDRESS, Size
  <2>. HIDE DEF p
  <2>. QED BY <2>1, <2>2, SwitchBytes, PrefixIsAllowed DEF ALLOWED_PREFIXES, REPORT_OUT, p
<1>4. CASE payload = PROBE_GET_PID
  <2>1. StartsWith(p, PROBE_GET_PID \o Zeros(60))
    BY <1>4 DEF StartsWith, PadReport, PROBE_GET_PID, Zeros, Size
  <2>2. p[0] = 129 /\ p[2] = 8
    BY <1>4 DEF PadReport, PROBE_GET_PID, Size
  <2>. HIDE DEF p
  <2>. QED BY <2>1, <2>2, SwitchBytes, PrefixIsAllowed DEF ALLOWED_PREFIXES, REPORT_OUT, p
<1>. QED BY <1>1, <1>2, <1>3, <1>4

\* The three other packets: getcurrentpid, readCRC and the armed switch.
LEMMA OthersAreAllowed ==
    ASSUME NEW armed
    PROVE  /\ Allowed(PadReport(IDENTIFY_GET_PID), armed)
           /\ Allowed(ReadCrc, armed)
           /\ armed => Allowed(PadReport(SWITCH_TO_DINPUT), armed)
<1>1. Allowed(PadReport(IDENTIFY_GET_PID), armed)
  <2>. DEFINE p == PadReport(IDENTIFY_GET_PID)
  <2>1. StartsWith(p, IDENTIFY_GET_PID)
    BY DEF StartsWith, PadReport, IDENTIFY_GET_PID, Size
  <2>2. p[0] = 129 /\ p[3] = 33
    BY DEF PadReport, IDENTIFY_GET_PID, Size
  <2>. HIDE DEF p
  <2>. QED BY <2>1, <2>2, SwitchBytes, PrefixIsAllowed DEF ALLOWED_PREFIXES, REPORT_OUT, p
<1>2. Allowed(ReadCrc, armed)
  <2>1. StartsWith(ReadCrc, <<129, 5, 195, 0, 0, 0, 12, 0, 0, 0>>)
    BY DEF ReadCrc, Class05, REPORT_OUT, StartsWith, PadReport, Size
  <2>2. ReadCrc[0] = 129 /\ ReadCrc[2] = 195
    BY DEF ReadCrc, Class05, REPORT_OUT, PadReport, Size
  <2>. QED BY <2>1, <2>2, SwitchBytes, PrefixIsAllowed DEF ALLOWED_PREFIXES, REPORT_OUT
<1>3. armed => Allowed(PadReport(SWITCH_TO_DINPUT), armed)
  BY SwitchBytes, Zenon DEF Allowed, REPORT_OUT
<1>. QED BY <1>1, <1>2, <1>3

\* Arming takes nothing off the list.
LEMMA UnarmedIsAllowed ==
    ASSUME NEW p, Allowed(p, FALSE), NEW armed PROVE Allowed(p, armed)
BY Zenon DEF Allowed

\* Every packet main can come to send passes the list, the switch if armed.
LEMMA WireIsAllowed ==
    ASSUME NEW what \in Whats, NEW f \in PAD_PIDS, NEW armed, what = "switch" => armed
    PROVE  Allowed(Wire[what][f], armed)
<1>1. Wire[what][f] = WireOf(what, f)
  BY DEF Wire
<1>2. CASE what = "switch"
  BY <1>1, <1>2, OthersAreAllowed DEF WireOf
<1>3. CASE what = "get_pid"
  BY <1>1, <1>3, OthersAreAllowed DEF WireOf
<1>4. CASE what = "crc"
  BY <1>1, <1>4, OthersAreAllowed DEF WireOf
<1>5. CASE what = "init"
  BY <1>1, <1>5, WholeIsAllowed DEF WireOf
<1>6. CASE what = "is_wired"
  BY <1>1, <1>6, WholeIsAllowed DEF WireOf
<1>7. CASE what = "get_rf_address"
  BY <1>1, <1>7, WholeIsAllowed DEF WireOf
<1>8. CASE what = "probe_pid"
  BY <1>1, <1>8, WholeIsAllowed DEF WireOf
<1>9. CASE what = "u2"
  <2>1. FrameFor(f) \in Frames /\ 0 \in 0 .. ULTIMATE2_TOTAL /\ ULTIMATE2_TOTAL \in Nat
    BY DEF FrameFor, Frames, ULTIMATE2_TOTAL
  <2>2. Allowed(PadReport(Pro2ReadChunk(0, ULTIMATE2_TOTAL, FrameFor(f))), FALSE)
    BY <2>1, ReadsAreAllowed
  <2>3. Wire[what][f] = PadReport(Pro2ReadChunk(0, ULTIMATE2_TOTAL, FrameFor(f)))
    BY <1>1, <1>9 DEF WireOf
  <2>. QED BY <2>2, <2>3, UnarmedIsAllowed, Zenon
<1>10. CASE what = "custom"
  <2>1. 0 \in 0 .. CUSTOM_INFO_TOTAL
    BY DEF CUSTOM_INFO_TOTAL
  <2>2. Allowed(PadReport(CustomInfoChunk(0)), FALSE)
    BY <2>1, CustomInfoReadsAreAllowed
  <2>3. Wire[what][f] = PadReport(CustomInfoChunk(0))
    BY <1>1, <1>10 DEF WireOf
  <2>. QED BY <2>2, <2>3, UnarmedIsAllowed, Zenon
<1>. QED
  BY <1>2, <1>3, <1>4, <1>5, <1>6, <1>7, <1>8, <1>9, <1>10 DEF Whats

-----------------------------------------------------------------------------
(* Types. *)

\* The head and the tail of a sequence that is not empty.
LEMMA HeadOf ==
    ASSUME NEW S, NEW s \in Seq(S), s # <<>> PROVE Head(s) \in S /\ Tail(s) \in Seq(S)
OBVIOUS

\* The family of a pad is the Ultimate 2's or none.
LEMMA FamilyType == ConfigFamily(pid, LAST_PRODUCT[node] = "ultimate2") \in {"6012", None}
BY DEF ConfigFamily

\* A request is framed for an id of the table.
LEMMA FramedType == pid \in PAD_PIDS => FramedFor \in PAD_PIDS
BY FamilyType DEF FramedFor, Family, PAD_PIDS

\* A match is a port with a pad of the id on it.
LEMMA PortsOfType ==
    ASSUME NEW ids, NEW path
    PROVE  \A p \in PortsOf(ids, path) : p \in Ports /\ attached[p] # None /\ attached[p].pid \in ids
BY DEF PortsOf

\* choose_pid returns an id of the table.
LEMMA ChoicesType == ASSUME NEW a \in Arguments PROVE Choices(a) \subseteq PAD_PIDS
<1>1. a.pid \in PAD_PIDS \cup {"auto"}
  BY CallsAssumption DEF ArgumentRecords
<1>2. \A p \in PortsOf(PAD_PIDS, a.path) : attached[p].pid \in PAD_PIDS
  BY PortsOfType, Zenon
<1>. QED BY <1>1, <1>2, Zenon DEF Choices

\* The bound is a number.
LEMMA MaxCallsType == MaxCalls \in Nat
BY CallsAssumption, Zenon

\* Every step keeps TypeOK.
LEMMA TypeStep == TypeOK /\ [Next]_vars => TypeOK'
<1>. SUFFICES ASSUME TypeOK, [Next]_vars PROVE TypeOK'
  OBVIOUS
<1>. USE DEF TypeOK, PC
<1>1. ASSUME NEW p \in Ports, NEW d \in Pads, Plug(p, d) PROVE TypeOK'
  BY <1>1 DEF Plug, callVars
<1>2. ASSUME NEW p \in Ports, Unplug(p) PROVE TypeOK'
  BY <1>2 DEF Unplug, callVars
<1>3. ASSUME NEW a \in Arguments, Call(a) PROVE TypeOK'
  <2>1. Choices(a) \subseteq PAD_PIDS
    BY <1>3, ChoicesType
  <2>2. calls < MaxCalls /\ calls' = calls + 1 /\ args' = a /\ sent' = {}
    BY <1>3, Zenon DEF Call
  <2>3. calls' \in 0 .. MaxCalls
    <3>1. calls \in 0 .. MaxCalls
      BY Zenon DEF TypeOK
    <3>. HIDE DEF TypeOK
    <3>. QED BY <2>2, <3>1, MaxCallsType
  <2>4. pc' \in {"idle", "find"} /\ pid' \in PAD_PIDS
    <3>. HIDE DEF TypeOK
    <3>. QED BY <1>3, <2>1 DEF Call, TypeOK
  <2>. QED BY <1>3, <2>2, <2>3, <2>4 DEF Call
<1>4. CASE TakeNode
  BY <1>4, CallsAssumption DEF TakeNode, ArgumentRecords
<1>5. CASE FindInterface
  <2>1. Matches \subseteq Ports
    BY PortsOfType DEF Matches
  <2>2. LAST_PRODUCT' \in [Ports -> {"", "ultimate2", "other"}]
    BY <1>5 DEF FindInterface, Record, RecordFrom
  <2>3. recorded' \in [Ports -> 0 .. MaxCalls]
    BY <1>5 DEF FindInterface, Record, RecordFrom
  <2>. QED BY <1>5, <2>1, <2>2, <2>3 DEF FindInterface
<1>6. CASE OpenFails
  BY <1>6 DEF OpenFails, callVars
<1>7. CASE Unconfirmed
  <2>1. attached[node] \in Pads
    BY <1>7 DEF Unconfirmed, Opened
  <2>2. calls \in 0 .. MaxCalls /\ open' = open \cup {calls} /\ to' = attached[node]
    BY <1>7 DEF Unconfirmed, Opened
  <2>. QED BY <1>7, <2>1, <2>2 DEF Unconfirmed
<1>8. CASE Start
  <2>1. attached[node] \in Pads
    BY <1>8 DEF Start, Opened
  <2>2. calls \in 0 .. MaxCalls /\ open' = open \cup {calls} /\ to' = attached[node]
    BY <1>8 DEF Start, Opened
  <2>3. steps' \in Seq(Whats)
    <3>1. steps' \in Seq(Planned(args, pid, Family))
      BY <1>8, CallsAssumption, StepsArePlanned DEF Start
    <3>2. Planned(args, pid, Family) \subseteq Whats
      BY DEF Planned
    <3>. HIDE DEF TypeOK
    <3>. QED BY <3>1, <3>2
  <2>4. SWITCH_ARMED' \in BOOLEAN
    BY <1>8 DEF Start
  <2>5. asked' = FALSE /\ pc' = "run" /\ up' = TRUE
    BY <1>8 DEF Start
  <2>. QED BY <1>8, <2>1, <2>2, <2>3, <2>4, <2>5 DEF Start
<1>9. CASE Send
  <2>1. Head(steps) \in Whats
    BY <1>9, HeadOf, Zenon DEF Send, TypeOK
  <2>2. FramedFor \in PAD_PIDS
    BY FramedType, Zenon DEF TypeOK
  <2>3. sent' \subseteq [what : Whats, to : Pads, framed : PAD_PIDS]
    <3>1. sent' = sent \cup {[what |-> Head(steps), to |-> to, framed |-> FramedFor]}
      BY <1>9, Zenon DEF Send
    <3>2. to \in Pads /\ sent \subseteq [what : Whats, to : Pads, framed : PAD_PIDS]
      BY Zenon DEF TypeOK
    <3>. HIDE DEF TypeOK
    <3>. QED BY <2>1, <2>2, <3>1, <3>2
  <2>4. spoke' \subseteq 0 .. MaxCalls
    BY <1>9 DEF Send
  <2>5. steps' # <<>> /\ asked' = TRUE
    BY <1>9, Zenon DEF Send
  <2>. QED BY <1>9, <2>3, <2>4, <2>5, Zenon DEF Send
<1>10. CASE Return
  <2>1. steps' \in Seq(Whats) /\ asked' = FALSE
    <3>1. steps \in Seq(Whats) /\ steps # <<>>
      BY <1>10, Zenon DEF Return, TypeOK
    <3>2. Tail(steps) \in Seq(Whats)
      BY <3>1, HeadOf, Zenon
    <3>. QED BY <1>10, <3>1, <3>2, Zenon DEF Return
  <2>. QED BY <1>10, <2>1, Zenon DEF Return
<1>11. CASE Finish
  BY <1>11 DEF Finish, Close, callVars
<1>12. CASE Raise
  BY <1>12 DEF Raise, Close, callVars
<1>13. CASE UNCHANGED vars
  BY <1>13 DEF vars, callVars
<1>. QED
  BY <1>1, <1>2, <1>3, <1>4, <1>5, <1>6, <1>7, <1>8, <1>9, <1>10, <1>11, <1>12, <1>13
  DEF Next, Rest

\* TypeOK holds at first.
LEMMA TypeInit == Init => TypeOK
<1>. SUFFICES ASSUME Init PROVE TypeOK
  OBVIOUS
<1>1. args \in Arguments /\ node \in Ports /\ to \in Pads
  BY PadsAssumption, CallsAssumption DEF Init
<1>2. LAST_PRODUCT \in [Ports -> {"", "ultimate2", "other"}]
  BY DEF Init
<1>3. calls \in 0 .. MaxCalls /\ recorded \in [Ports -> 0 .. MaxCalls]
  <2>1. calls = 0 /\ recorded = [p \in Ports |-> 0]
    BY Zenon DEF Init
  <2>. QED BY <2>1, MaxCallsType
<1>4. steps \in Seq(Whats) /\ asked = FALSE
  <2>1. steps = <<>> /\ asked = FALSE
    BY Zenon DEF Init
  <2>. QED BY <2>1
<1>5. pc \in PC /\ pid \in PAD_PIDS
  BY DEF Init, PC, PAD_PIDS
<1>. QED BY <1>1, <1>2, <1>3, <1>4, <1>5 DEF Init, TypeOK

\* TypeOK, for every set of ports, pads and argument lists.
THEOREM TypeCorrect == Spec => []TypeOK
BY TypeInit, TypeStep, PTL DEF Spec

-----------------------------------------------------------------------------
(* The inductive invariant. *)

\* The allowlist is armed in the run of a call that switches, and such a call
\* runs only if it is confirmed.
SwitchInv ==
    /\ SWITCH_ARMED <=> (pc = "run" /\ args.switch)
    /\ (pc = "run" \/ sent # {}) => (args.switch => args.yes)

\* What a call has sent, and has still to send, is planned for its arguments,
\* its product id and the family it took the pad for.
PlanInv ==
    /\ pc \in {"find", "open"} => sent = {}
    /\ pc = "run" => steps \in Seq(Planned(args, pid, Family))
    /\ \A m \in sent : /\ m.what \in Planned(args, pid, Family)
                       /\ m.framed = FramedFor /\ m.to = to

\* A call that has sent something is over with its session closed, or runs.
SpokeInv ==
    /\ spoke \subseteq 0 .. calls
    /\ pc \in {"find", "open"} => calls \notin spoke
    /\ open \cap spoke \subseteq (IF pc = "run" THEN {calls} ELSE {})

\* An entry of LAST_PRODUCT is dated by a call, and by an earlier one until
\* this call's search.
DatedInv ==
    \A p \in Ports : /\ recorded[p] <= calls
                     /\ pc = "find" => recorded[p] < calls
                     /\ LAST_PRODUCT[p] # "" => recorded[p] >= 1

\* No pad moves between the search for its node and the opening of it.
Still == "open" \notin Moves

\* The generic XInput id is a USB id.
XInputOnUSB == \A d \in Pads : d.pid = "310b" => d.usb

\* A pad the search found has the id it was searched by; a pad taken for an
\* Ultimate 2 is one, or mistaken for it; and one that the search found is
\* taken for one.
Fits(d) ==
    /\ args.node = None => d.pid = pid
    /\ Family # None => SpeaksUltimate2(d) \/ MistakenFor(d)
    /\ (XInputOnUSB /\ args.node = None /\ SpeaksUltimate2(d)) => Family # None
FoundInv ==
    /\ (pc = "open" /\ attached[node] # None) => Fits(attached[node])
    /\ (pc = "run" \/ sent # {}) => Fits(to)

\* Every step keeps SwitchInv.
LEMMA SwitchStep == TypeOK /\ SwitchInv /\ [Next]_vars => SwitchInv'
<1>. SUFFICES ASSUME TypeOK, SwitchInv, [Next]_vars PROVE SwitchInv'
  OBVIOUS
<1>. USE DEF SwitchInv
<1>1. ASSUME NEW p \in Ports, NEW d \in Pads, Plug(p, d) PROVE SwitchInv'
  BY <1>1 DEF Plug, callVars
<1>2. ASSUME NEW p \in Ports, Unplug(p) PROVE SwitchInv'
  BY <1>2 DEF Unplug, callVars
<1>3. ASSUME NEW a \in Arguments, Call(a) PROVE SwitchInv'
  BY <1>3 DEF Call
<1>4. CASE TakeNode
  BY <1>4 DEF TakeNode
<1>5. CASE FindInterface
  BY <1>5 DEF FindInterface
<1>6. CASE OpenFails
  BY <1>6 DEF OpenFails, callVars
<1>7. CASE Unconfirmed
  BY <1>7 DEF Unconfirmed, Opened
<1>8. CASE Start
  BY <1>8 DEF Start, Opened
<1>9. CASE Send
  BY <1>9 DEF Send
<1>10. CASE Return
  BY <1>10 DEF Return
<1>11. CASE Finish
  BY <1>11 DEF Finish, Close, callVars
<1>12. CASE Raise
  BY <1>12 DEF Raise, Close, callVars
<1>13. CASE UNCHANGED vars
  BY <1>13 DEF vars, callVars
<1>. QED
  BY <1>1, <1>2, <1>3, <1>4, <1>5, <1>6, <1>7, <1>8, <1>9, <1>10, <1>11, <1>12, <1>13
  DEF Next, Rest

\* Every step keeps SpokeInv.
LEMMA SpokeStep == TypeOK /\ SpokeInv /\ [Next]_vars => SpokeInv'
<1>. SUFFICES ASSUME TypeOK, SpokeInv, [Next]_vars PROVE SpokeInv'
  OBVIOUS
<1>0. calls \in Nat
  <2>1. calls \in 0 .. MaxCalls
    BY Zenon DEF TypeOK
  <2>. QED BY <2>1, MaxCallsType
<1>. USE DEF SpokeInv
<1>1. ASSUME NEW p \in Ports, NEW d \in Pads, Plug(p, d) PROVE SpokeInv'
  BY <1>1 DEF Plug, callVars
<1>2. ASSUME NEW p \in Ports, Unplug(p) PROVE SpokeInv'
  BY <1>2 DEF Unplug, callVars
<1>3. ASSUME NEW a \in Arguments, Call(a) PROVE SpokeInv'
  BY <1>0, <1>3 DEF Call
<1>4. CASE TakeNode
  BY <1>4 DEF TakeNode
<1>5. CASE FindInterface
  BY <1>5 DEF FindInterface
<1>6. CASE OpenFails
  BY <1>6 DEF OpenFails, callVars
<1>7. CASE Unconfirmed
  BY <1>0, <1>7 DEF Unconfirmed, Opened
<1>8. CASE Start
  BY <1>0, <1>8 DEF Start, Opened
<1>9. CASE Send
  BY <1>0, <1>9 DEF Send
<1>10. CASE Return
  BY <1>10 DEF Return
<1>11. CASE Finish
  BY <1>11 DEF Finish, Close, callVars
<1>12. CASE Raise
  BY <1>12 DEF Raise, Close, callVars
<1>13. CASE UNCHANGED vars
  BY <1>13 DEF vars, callVars
<1>. QED
  BY <1>1, <1>2, <1>3, <1>4, <1>5, <1>6, <1>7, <1>8, <1>9, <1>10, <1>11, <1>12, <1>13
  DEF Next, Rest

\* The family of a call's pad depends on these alone.
LEMMA FamilyStays ==
    UNCHANGED <<args, pid, node, LAST_PRODUCT>> =>
        /\ Family' = Family /\ FramedFor' = FramedFor
        /\ Planned(args, pid, Family)' = Planned(args, pid, Family)
BY DEF Family, FramedFor, Planned

\* Every step keeps PlanInv: sent is empty until a call runs.
LEMMA PlanStep == TypeOK /\ PlanInv /\ [Next]_vars => PlanInv'
<1>. SUFFICES ASSUME TypeOK, PlanInv, [Next]_vars PROVE PlanInv'
  OBVIOUS
<1>. DEFINE S == Planned(args, pid, Family)
<1>1. ASSUME UNCHANGED <<args, pid, node, LAST_PRODUCT, pc, steps, to, sent>> PROVE PlanInv'
  BY <1>1, FamilyStays DEF PlanInv
<1>2. ASSUME pc' # "run", sent' = {} PROVE PlanInv'
  BY <1>2 DEF PlanInv
<1>3. ASSUME UNCHANGED <<args, pid, node, LAST_PRODUCT, to, sent>>, pc = "run", pc' = "idle"
      PROVE  PlanInv'
  BY <1>3, FamilyStays DEF PlanInv
<1>4. ASSUME NEW p \in Ports, NEW d \in Pads, Plug(p, d) PROVE PlanInv'
  BY <1>1, <1>4 DEF Plug, callVars
<1>5. ASSUME NEW p \in Ports, Unplug(p) PROVE PlanInv'
  BY <1>1, <1>5 DEF Unplug, callVars
<1>6. ASSUME NEW a \in Arguments, Call(a) PROVE PlanInv'
  BY <1>2, <1>6 DEF Call
<1>7. CASE TakeNode \/ FindInterface \/ OpenFails \/ Unconfirmed
  BY <1>2, <1>7 DEF TakeNode, FindInterface, OpenFails, Unconfirmed, Opened, callVars, PlanInv
<1>8. CASE Start
  <2>1. sent' = {}
    BY <1>8 DEF Start, Opened, PlanInv
  <2>2. UNCHANGED <<args, pid, node, LAST_PRODUCT>> /\ steps' = Steps(args, pid, Family)
    BY <1>8, Zenon DEF Start
  <2>3. args \in ArgumentRecords /\ pid \in PAD_PIDS
    BY CallsAssumption DEF TypeOK
  <2>4. steps' \in Seq(S)
    BY <2>2, <2>3, StepsArePlanned, Zenon
  <2>5. Planned(args, pid, Family)' = S
    BY <2>2, FamilyStays, Zenon
  <2>6. pc' = "run"
    BY <1>8, Zenon DEF Start
  <2>. HIDE DEF S
  <2>. QED BY <2>1, <2>4, <2>5, <2>6 DEF PlanInv
<1>9. CASE Send
  <2>1. UNCHANGED <<args, pid, node, LAST_PRODUCT, pc, steps, to>> /\ pc = "run" /\ steps # <<>>
    BY <1>9, Zenon DEF Send
  <2>2. Head(steps) \in S
    BY <2>1, HeadOf, Zenon DEF PlanInv
  <2>3. sent' = sent \cup {[what |-> Head(steps), to |-> to, framed |-> FramedFor]}
    BY <1>9, Zenon DEF Send
  <2>4. Planned(args, pid, Family)' = S /\ FramedFor' = FramedFor
    BY <2>1, FamilyStays, Zenon
  <2>5. \A m \in sent' : m.what \in S /\ m.framed = FramedFor /\ m.to = to
    <3>. HIDE DEF S
    <3>. QED BY <2>2, <2>3 DEF PlanInv, S
  <2>. HIDE DEF S
  <2>. QED BY <2>1, <2>4, <2>5 DEF PlanInv, S
<1>10. CASE Return
  <2>1. UNCHANGED <<args, pid, node, LAST_PRODUCT, pc, to, sent>> /\ pc = "run" /\ asked
    BY <1>10, Zenon DEF Return
  <2>2. steps' \in Seq(S)
    <3>1. steps \in Seq(S) /\ steps # <<>>
      BY <2>1, Zenon DEF PlanInv, TypeOK
    <3>2. Tail(steps) \in Seq(S)
      BY <3>1, HeadOf, Zenon
    <3>. QED BY <1>10, <3>1, <3>2, Zenon DEF Return
  <2>3. Planned(args, pid, Family)' = S /\ FramedFor' = FramedFor
    BY <2>1, FamilyStays, Zenon
  <2>. HIDE DEF S
  <2>. QED BY <2>1, <2>2, <2>3 DEF PlanInv, S
<1>11. CASE Finish \/ Raise
  BY <1>3, <1>11 DEF Finish, Raise, Close, callVars
<1>12. CASE UNCHANGED vars
  BY <1>1, <1>12 DEF vars, callVars
<1>. QED
  BY <1>4, <1>5, <1>6, <1>7, <1>8, <1>9, <1>10, <1>11, <1>12 DEF Next, Rest

\* The orders of the dates.
LEMMA LaterCall ==
    ASSUME NEW m \in Nat, NEW n \in Nat
    PROVE  /\ m <= n => m < n + 1 /\ m <= n + 1
           /\ m < n => m <= n /\ n >= 1
           /\ m >= 1 /\ m < n => m \in 1 .. n - 1
OBVIOUS

\* Every step keeps DatedInv.
LEMMA DatedStep == TypeOK /\ DatedInv /\ [Next]_vars => DatedInv'
<1>. SUFFICES ASSUME TypeOK, DatedInv, [Next]_vars PROVE DatedInv'
  OBVIOUS
<1>1. calls \in Nat /\ \A p \in Ports : recorded[p] \in Nat
  <2>1. calls \in 0 .. MaxCalls /\ recorded \in [Ports -> 0 .. MaxCalls]
    BY Zenon DEF TypeOK
  <2>. QED BY <2>1, MaxCallsType
<1>2. ASSUME UNCHANGED <<products, calls>>, pc' = "find" => pc = "find" PROVE DatedInv'
  BY <1>2 DEF DatedInv
<1>3. ASSUME NEW p \in Ports, NEW d \in Pads, Plug(p, d) PROVE DatedInv'
  BY <1>2, <1>3 DEF Plug
<1>4. ASSUME NEW p \in Ports, Unplug(p) PROVE DatedInv'
  BY <1>2, <1>4 DEF Unplug
<1>5. ASSUME NEW a \in Arguments, Call(a) PROVE DatedInv'
  <2>1. UNCHANGED products /\ calls' = calls + 1
    BY <1>5 DEF Call
  <2>2. ASSUME NEW p \in Ports PROVE recorded[p] <= calls /\ (LAST_PRODUCT[p] # "" => recorded[p] >= 1)
    BY Zenon DEF DatedInv
  <2>3. ASSUME NEW p \in Ports PROVE recorded[p] < calls + 1 /\ recorded[p] <= calls + 1
    BY <1>1, <2>2, LaterCall, Zenon
  <2>. QED BY <2>1, <2>2, <2>3, Zenon DEF DatedInv
<1>6. CASE FindInterface
  <2>1. calls' = calls /\ pc = "find" /\ pc' # "find" /\ Record
    BY <1>6 DEF FindInterface
  <2>2. ASSUME NEW p \in Ports
        PROVE  recorded'[p] = calls \/ (recorded'[p] = recorded[p] /\ LAST_PRODUCT'[p] = LAST_PRODUCT[p])
    BY <2>1 DEF Record, RecordFrom
  <2>3. calls >= 1
    <3>1. PICK p : p \in Ports
      BY CallsAssumption
    <3>2. recorded[p] < calls
      BY <2>1, <3>1, Zenon DEF DatedInv
    <3>. QED BY <1>1, <3>1, <3>2, LaterCall, Zenon
  <2>4. ASSUME NEW p \in Ports
        PROVE  recorded'[p] <= calls /\ (LAST_PRODUCT'[p] # "" => recorded'[p] >= 1)
    <3>1. recorded[p] <= calls /\ (LAST_PRODUCT[p] # "" => recorded[p] >= 1)
      BY Zenon DEF DatedInv
    <3>2. CASE recorded'[p] = calls
      <4>1. calls <= calls
        BY <1>1
      <4>. QED BY <2>3, <3>2, <4>1, Zenon
    <3>3. CASE recorded'[p] = recorded[p] /\ LAST_PRODUCT'[p] = LAST_PRODUCT[p]
      BY <3>1, <3>3, Zenon
    <3>. QED BY <2>2, <3>2, <3>3
  <2>. QED BY <2>1, <2>4, Zenon DEF DatedInv
<1>7. CASE TakeNode \/ OpenFails \/ Unconfirmed \/ Start
  BY <1>2, <1>7 DEF TakeNode, OpenFails, Unconfirmed, Start, Opened, callVars
<1>8. CASE Send \/ Return \/ Finish \/ Raise
  BY <1>2, <1>8 DEF Send, Return, Finish, Raise, Close, callVars
<1>9. CASE UNCHANGED vars
  BY <1>2, <1>9 DEF vars, callVars
<1>. QED
  BY <1>3, <1>4, <1>5, <1>6, <1>7, <1>8, <1>9 DEF Next, Rest

\* Every step keeps FoundInv, if pads stay still between find and open.
LEMMA FoundStep == Still /\ TypeOK /\ PlanInv /\ DatedInv /\ FoundInv /\ [Next]_vars => FoundInv'
<1>. SUFFICES ASSUME Still, TypeOK, PlanInv, DatedInv, FoundInv, [Next]_vars PROVE FoundInv'
  OBVIOUS
<1>0. ASSUME UNCHANGED <<args, pid, node, products, calls>>, NEW d PROVE Fits(d)' <=> Fits(d)
  BY <1>0, FamilyStays DEF Fits, MistakenFor, StaleRecord
<1>1. ASSUME UNCHANGED <<args, pid, node, products, calls, to>>, sent' # {} => pc = "run" \/ sent # {},
             pc' = "run" => pc = "run", pc' # "open"
      PROVE  FoundInv'
  BY <1>1, <1>0 DEF FoundInv
<1>2. ASSUME pc' \notin {"open", "run"}, sent' = {} PROVE FoundInv'
  BY <1>2 DEF FoundInv
<1>3. ASSUME NEW p \in Ports, NEW d \in Pads, Plug(p, d) PROVE FoundInv'
  BY <1>1, <1>3 DEF Plug, callVars, Still
<1>4. ASSUME NEW p \in Ports, Unplug(p) PROVE FoundInv'
  BY <1>1, <1>4 DEF Unplug, callVars, Still
<1>5. ASSUME NEW a \in Arguments, Call(a) PROVE FoundInv'
  BY <1>2, <1>5 DEF Call
<1>6. ASSUME pc = "find", NEW n \in Ports, LAST_PRODUCT[n] = "ultimate2"
      PROVE  recorded[n] \in 1 .. calls - 1
  <2>1. calls \in 0 .. MaxCalls /\ recorded[n] \in 0 .. MaxCalls
    BY Zenon DEF TypeOK
  <2>2. recorded[n] < calls /\ recorded[n] >= 1
    BY <1>6 DEF DatedInv
  <2>. QED BY <2>1, <2>2, MaxCallsType
<1>7. None # "6012"
  BY CallsAssumption DEF PAD_PIDS
<1>8. CASE TakeNode
  <2>1. /\ pc = "find" /\ pc' = "open" /\ node' = args.node /\ args.node # None
        /\ UNCHANGED <<attached, args, pid, products, calls, sent>>
    BY <1>8 DEF TakeNode
  <2>2. node' \in Ports /\ sent' = {}
    BY <2>1, CallsAssumption DEF TypeOK, ArgumentRecords, PlanInv
  <2>3. Family' = ConfigFamily(pid, LAST_PRODUCT[node'] = "ultimate2")
    BY <2>1, Zenon DEF Family
  <2>4. Family' # None => pid \in {"6012", "6013"}
                          \/ (pid = "310b" /\ recorded[node'] \in 1 .. calls - 1)
    BY <1>6, <2>1, <2>2, <2>3 DEF ConfigFamily
  <2>5. Family' # None => MistakenFor(attached[node])'
    BY <2>1, <2>4 DEF MistakenFor, StaleRecord
  <2>6. Fits(attached[node])'
    BY <2>1, <2>5 DEF Fits
  <2>. QED BY <2>1, <2>2, <2>6 DEF FoundInv
<1>9. CASE FindInterface
  <2>1. CASE Cardinality(Matches) # 1
    BY <1>2, <1>9, <2>1 DEF FindInterface, PlanInv
  <2>2. CASE Cardinality(Matches) = 1
    <3>0. /\ pc = "find" /\ pc' = "open" /\ sent' = {} /\ args.node = None
          /\ UNCHANGED <<attached, args, pid, calls>> /\ Record
      BY <1>9, <2>2 DEF FindInterface, PlanInv
    <3>1. PICK n \in Matches : node' = n
      BY <1>9, <2>2 DEF FindInterface
    <3>. DEFINE d == attached[n]
    <3>2. n \in Ports /\ d # None /\ d.pid = pid
      BY <3>1, PortsOfType DEF Matches
    <3>3. d \in Pads /\ d \in PadRecords
      BY <3>2, PadsAssumption DEF TypeOK
    <3>4. Family' = ConfigFamily(pid, LAST_PRODUCT'[n] = "ultimate2")
      BY <3>0, <3>1, Zenon DEF Family
    <3>5. d.usb => (LAST_PRODUCT'[n] = "ultimate2" <=> d.named)
      <4>1. ASSUME d.usb PROVE LAST_PRODUCT'[n] = IF d.named THEN "ultimate2" ELSE "other"
        BY <3>0, <3>2, <4>1 DEF Record, RecordFrom
      <4>. QED BY <4>1
    <3>6. ~d.usb => LAST_PRODUCT'[n] = LAST_PRODUCT[n] /\ recorded'[n] = recorded[n]
      BY <3>0, <3>2 DEF Record, RecordFrom
    <3>7. Family' # None => SpeaksUltimate2(d) \/ MistakenFor(d)'
      <4>1. CASE pid \in {"6012", "6013"}
        BY <3>2, <4>1 DEF SpeaksUltimate2
      <4>2. CASE pid \notin {"6012", "6013"}
        <5>. SUFFICES ASSUME Family' # None PROVE SpeaksUltimate2(d) \/ MistakenFor(d)'
          OBVIOUS
        <5>1. pid = "310b" /\ LAST_PRODUCT'[n] = "ultimate2"
          BY <3>4, <4>2 DEF ConfigFamily
        <5>2. CASE d.usb
          BY <3>2, <3>5, <5>1, <5>2 DEF SpeaksUltimate2
        <5>3. CASE ~d.usb
          <6>1. recorded'[n] \in 1 .. calls' - 1
            BY <1>6, <3>0, <3>2, <3>6, <5>1, <5>3
          <6>2. (~d.usb)' /\ pid' = "310b" /\ StaleRecord'
            BY <3>0, <3>1, <5>1, <5>3, <6>1 DEF StaleRecord
          <6>. QED BY <6>2, Zenon DEF MistakenFor
        <5>. QED BY <5>2, <5>3
      <4>. QED BY <4>1, <4>2
    <3>8. (XInputOnUSB /\ SpeaksUltimate2(d)) => Family' # None
      BY <1>7, <3>2, <3>3, <3>4, <3>5 DEF XInputOnUSB, SpeaksUltimate2, ConfigFamily
    <3>9. Fits(attached[node])'
      <4>1. attached[node]' = d /\ d' = d /\ pid' = pid /\ args' = args
        BY <3>0, <3>1
      <4>2. Fits(d)'
        BY <3>2, <3>7, <3>8, <4>1, Zenon DEF Fits, SpeaksUltimate2, XInputOnUSB
      <4>. QED BY <4>1, <4>2, Zenon DEF Fits, MistakenFor, SpeaksUltimate2
    <3>. QED BY <3>0, <3>9 DEF FoundInv
  <2>. QED BY <2>1, <2>2
<1>10. CASE OpenFails
  BY <1>2, <1>10 DEF OpenFails, callVars, PlanInv
<1>11. CASE Unconfirmed
  BY <1>2, <1>11 DEF Unconfirmed, Opened, PlanInv
<1>12. CASE Start
  <2>1. UNCHANGED <<args, pid, node, products, calls>> /\ pc = "open" /\ pc' = "run"
        /\ attached[node] # None /\ to' = attached[node]
    BY <1>12 DEF Start, Opened
  <2>2. Fits(to')
    BY <2>1 DEF FoundInv
  <2>. QED BY <1>0, <2>1, <2>2 DEF FoundInv
<1>13. CASE Send \/ Return
  BY <1>1, <1>13 DEF Send, Return
<1>14. CASE Finish \/ Raise
  BY <1>1, <1>14 DEF Finish, Raise, Close, callVars
<1>15. CASE UNCHANGED vars
  <2>1. UNCHANGED <<args, pid, node, products, calls, attached, to, sent, pc>>
    BY <1>15 DEF vars, callVars
  <2>. QED BY <1>0, <2>1 DEF FoundInv
<1>. QED
  BY <1>3, <1>4, <1>5, <1>8, <1>9, <1>10, <1>11, <1>12, <1>13, <1>14, <1>15 DEF Next, Rest

\* The invariants hold at first.
LEMMA InvInit == Init => SwitchInv /\ SpokeInv /\ PlanInv /\ DatedInv /\ FoundInv
<1>. SUFFICES ASSUME Init PROVE SwitchInv /\ SpokeInv /\ PlanInv /\ DatedInv /\ FoundInv
  OBVIOUS
<1>1. pc = "idle" /\ sent = {} /\ spoke = {} /\ SWITCH_ARMED = FALSE
  BY Zenon DEF Init
<1>2. calls = 0 /\ \A p \in Ports : LAST_PRODUCT[p] = "" /\ recorded[p] = 0
  BY DEF Init
<1>3. 0 <= calls
  <2>1. calls = 0
    BY <1>2, Zenon
  <2>. QED BY <2>1
<1>4. DatedInv
  <2>1. ASSUME NEW p \in Ports
        PROVE  recorded[p] <= calls /\ pc # "find" /\ LAST_PRODUCT[p] = ""
    <3>1. recorded[p] = 0 /\ LAST_PRODUCT[p] = ""
      BY <1>2, Zenon
    <3>2. pc # "find"
      BY <1>1
    <3>. QED BY <1>3, <3>1, <3>2, Zenon
  <2>. QED BY <2>1, Zenon DEF DatedInv
<1>. QED BY <1>1, <1>4 DEF SwitchInv, SpokeInv, PlanInv, FoundInv

-----------------------------------------------------------------------------
(* What follows from it. *)

\* The reboot into DInput only ever goes out of a call that was given both
\* flags, and alone; the list is armed in no other call.
THEOREM SwitchingIsConfirmed == Spec => []SwitchIsConfirmedAndAlone
<1>1. TypeOK /\ SwitchInv /\ PlanInv => SwitchIsConfirmedAndAlone
  BY DEF SwitchInv, PlanInv, Planned, SwitchIsConfirmedAndAlone
<1>. QED BY <1>1, TypeInit, TypeStep, InvInit, SwitchStep, PlanStep, PTL DEF Spec

\* No session that sent anything is left open by a call that is over.
THEOREM SessionsAreClosed == Spec => []SpokenSessionsAreClosed
<1>1. SpokeInv => SpokenSessionsAreClosed
  BY DEF SpokeInv, SpokenSessionsAreClosed
<1>. QED BY <1>1, TypeInit, TypeStep, InvInit, SpokeStep, PTL DEF Spec

\* Whatever main plans for whichever pad, its allowlist lets through.
THEOREM PlansAreAllowed == Spec => []NothingPlannedIsRefused
<1>1. TypeOK /\ SwitchInv /\ PlanInv => NothingPlannedIsRefused
  <2>. SUFFICES ASSUME TypeOK, SwitchInv, PlanInv, pc = "run", steps # <<>> PROVE OnTheList
    BY DEF NothingPlannedIsRefused
  <2>1. Head(steps) \in Planned(args, pid, Family)
    BY HeadOf, Zenon DEF PlanInv
  <2>2. Head(steps) \in Whats /\ (Head(steps) = "switch" => args.switch)
    BY <2>1 DEF Planned
  <2>3. Head(steps) = "switch" => SWITCH_ARMED
    BY <2>2, Zenon DEF SwitchInv
  <2>4. FramedFor \in PAD_PIDS
    BY FramedType, Zenon DEF TypeOK
  <2>. QED BY <2>2, <2>3, <2>4, WireIsAllowed, Zenon DEF OnTheList
<1>. QED BY <1>1, TypeInit, TypeStep, InvInit, SwitchStep, PlanStep, PTL DEF Spec

\* Only the pad named or chosen is sent anything, if none moves between the
\* search and the opening.
THEOREM OnlyNamedPads ==
    ASSUME Still
    PROVE  Spec => []NamedPadOnly
<1>1. FoundInv /\ PlanInv => NamedPadOnly
  BY DEF FoundInv, PlanInv, Fits, NamedPadOnly
<1>2. TypeOK /\ PlanInv /\ DatedInv /\ FoundInv /\ [Next]_vars => FoundInv'
  BY FoundStep
<1>. QED BY <1>1, <1>2, TypeInit, TypeStep, InvInit, PlanStep, DatedStep, PTL DEF Spec

\* On the same terms the 2C's commands reach a 2C alone.
THEOREM OnlyThe2C ==
    ASSUME Still
    PROVE  Spec => []OnlyThe2CGetsItsCommands
<1>1. FoundInv /\ PlanInv => OnlyThe2CGetsItsCommands
  BY DEF FoundInv, PlanInv, Planned, Fits, OnlyThe2CGetsItsCommands
<1>2. TypeOK /\ PlanInv /\ DatedInv /\ FoundInv /\ [Next]_vars => FoundInv'
  BY FoundStep
<1>. QED BY <1>1, <1>2, TypeInit, TypeStep, InvInit, PlanStep, DatedStep, PTL DEF Spec

\* The chunked read for an Ultimate 2 has the frame and checksum of one.
LEMMA UltimateTwoFits ==
    ASSUME NEW m, m.what = "u2", m.framed = "6012"
    PROVE  FitsUltimate2(m)
<1>. DEFINE frame == FrameFor("6012")
<1>1. frame \in Frames /\ ~frame.size_byte /\ frame.checksum
  BY DEF FrameFor, Frames, CRC_PIDS, NO_SIZE_BYTE_PIDS
<1>2. Wire["u2"]["6012"] = WireOf("u2", "6012")
  BY DEF Wire, Whats, PAD_PIDS
<1>3. WireOf("u2", "6012") = PadReport(Pro2ReadChunk(0, ULTIMATE2_TOTAL, frame))
  BY DEF WireOf
<1>4. ULTIMATE2_TOTAL \in Nat /\ 0 \in 0 .. ULTIMATE2_TOTAL
  BY DEF ULTIMATE2_TOTAL
<1>. DEFINE p == PadReport(Pro2ReadChunk(0, ULTIMATE2_TOTAL, frame))
<1>. HIDE DEF frame
<1>5. p[0] = REPORT_OUT /\ p[1] = SECTION
  BY <1>1, <1>4, ReadChunkBytes, Zenon
<1>. HIDE DEF p
<1>6. TakesSection(p, FALSE)
  BY <1>5 DEF TakesSection, HeaderAt
<1>. QED BY <1>1, <1>2, <1>3, <1>6, Zenon DEF FitsUltimate2, p, frame

\* A pad taken for an Ultimate 2 gets the frame of 6012.
LEMMA FamilyFits == Family # None => FramedFor = "6012"
BY FamilyType DEF FramedFor, Family

\* On the same terms, and without --unanswered, every chunked read is an
\* Ultimate 2's and goes to one, but for a node given by hand under its id and
\* for a 310b pad at a node whose product string an earlier call recorded.
THEOREM ReadsFit ==
    ASSUME Still
    PROVE  Spec => []ReadsFitTheirPad
<1>1. FoundInv /\ PlanInv => ReadsFitTheirPad
  <2>. SUFFICES ASSUME FoundInv, PlanInv, ~args.unanswered,
                       NEW m \in sent, m.what \in Chunked
                PROVE  FitsUltimate2(m) /\ (SpeaksUltimate2(m.to) \/ MistakenFor(m.to))
    BY DEF ReadsFitTheirPad
  <2>1. m.what = "u2" /\ Family # None /\ m.framed = FramedFor /\ m.to = to
    BY DEF PlanInv, Planned
  <2>2. SpeaksUltimate2(m.to) \/ MistakenFor(m.to)
    BY <2>1 DEF FoundInv, Fits
  <2>. QED BY <2>1, <2>2, FamilyFits, UltimateTwoFits, Zenon
<1>2. TypeOK /\ PlanInv /\ DatedInv /\ FoundInv /\ [Next]_vars => FoundInv'
  BY FoundStep
<1>. QED BY <1>1, <1>2, TypeInit, TypeStep, InvInit, PlanStep, DatedStep, PTL DEF Spec

-----------------------------------------------------------------------------
(* Every step is made: what is planned is sent before a call comes to its   *)
(* end.                                                                     *)

Elements(s) == {s[i] : i \in 1 .. Len(s)}
ReadPlanned == ~args.switch /\ "u2" \notin Skipped(args, pid, Family)
ReadSent == \E m \in sent : m.what = "u2"

\* A request that is out is the next step's; the read that is planned is still
\* to come, or sent.
ProgressInv ==
    pc = "run" => /\ asked => \E m \in sent : m.what = Head(steps)
                  /\ ReadPlanned => "u2" \in Elements(steps) \/ ReadSent

\* An element of a sequence is its head or in its tail.
LEMMA HeadAndTail ==
    ASSUME NEW S, NEW s \in Seq(S), s # <<>>, NEW e \in Elements(s)
    PROVE  e = Head(s) \/ e \in Elements(Tail(s))
<1>1. PICK i \in 1 .. Len(s) : e = s[i]
  BY DEF Elements
<1>2. CASE i = 1
  BY <1>1, <1>2
<1>3. CASE i # 1
  <2>1. i - 1 \in 1 .. Len(Tail(s)) /\ Tail(s)[i - 1] = s[i]
    BY <1>1, <1>3
  <2>. QED BY <1>1, <2>1 DEF Elements
<1>. QED BY <1>2, <1>3

\* The elements of a concatenation include those of its parts.
LEMMA ElementsOfParts ==
    ASSUME NEW s, NEW t, s \in Seq(Whats), t \in Seq(Whats)
    PROVE  Elements(s) \subseteq Elements(s \o t) /\ Elements(t) \subseteq Elements(s \o t)
<1>1. /\ Len(s \o t) = Len(s) + Len(t) /\ Len(s) \in Nat /\ Len(t) \in Nat
      /\ \A i \in 1 .. Len(s) : (s \o t)[i] = s[i]
      /\ \A i \in 1 .. Len(t) : (s \o t)[Len(s) + i] = t[i]
  OBVIOUS
<1>. DEFINE u == s \o t
<1>. HIDE DEF u
<1>2. /\ Len(u) = Len(s) + Len(t)
      /\ \A i \in 1 .. Len(s) : u[i] = s[i]
      /\ \A i \in 1 .. Len(t) : u[Len(s) + i] = t[i]
  BY <1>1, Zenon DEF u
<1>3. ASSUME NEW i \in 1 .. Len(s) PROVE s[i] \in Elements(u)
  BY <1>1, <1>2, <1>3 DEF Elements
<1>4. ASSUME NEW i \in 1 .. Len(t) PROVE t[i] \in Elements(u)
  <2>1. Len(s) + i \in 1 .. Len(u) /\ u[Len(s) + i] = t[i]
    BY <1>1, <1>2, <1>4
  <2>. QED BY <2>1 DEF Elements
<1>. QED BY <1>3, <1>4 DEF Elements, u

\* The read is among the steps unless it is skipped.
LEMMA ReadIsListed ==
    ASSUME NEW a, NEW p, NEW f, ~a.switch, "u2" \notin Skipped(a, p, f)
    PROVE  "u2" \in Elements(Steps(a, p, f))
<1>. DEFINE skip == Skipped(a, p, f)
            s1 == When("identify" \notin skip, <<"get_pid", "init">>)
            s2 == When(a.probes /\ p = "310a", <<"is_wired", "get_rf_address", "probe_pid">>)
            s3 == When("u2" \notin skip, <<"u2">>)
            s4 == When("custom" \notin skip, <<"custom">>)
            s5 == When("crc" \notin skip, <<"crc">>)
<1>1. Steps(a, p, f) = s1 \o s2 \o s3 \o s4 \o s5
  BY Zenon DEF Steps
<1>2. s3 = <<"u2">>
  BY Zenon DEF When
<1>3. "u2" \in Elements(s3)
  BY <1>2 DEF Elements
<1>4. /\ <<"get_pid", "init">> \in Seq(Whats) /\ <<"custom">> \in Seq(Whats)
      /\ <<"is_wired", "get_rf_address", "probe_pid">> \in Seq(Whats)
      /\ <<"u2">> \in Seq(Whats) /\ <<"crc">> \in Seq(Whats)
  BY DEF Whats
<1>5. /\ s1 \in Seq(Whats) /\ s2 \in Seq(Whats) /\ s3 \in Seq(Whats)
      /\ s4 \in Seq(Whats) /\ s5 \in Seq(Whats)
  BY <1>4, SeqWhen, Zenon
<1>. HIDE DEF s1, s2, s3, s4, s5
<1>6. s1 \o s2 \in Seq(Whats)
  BY <1>5, SeqConcat, Zenon
<1>7. "u2" \in Elements(s1 \o s2 \o s3) /\ s1 \o s2 \o s3 \in Seq(Whats)
  BY <1>3, <1>5, <1>6, SeqConcat, ElementsOfParts, Zenon
<1>8. "u2" \in Elements(s1 \o s2 \o s3 \o s4) /\ s1 \o s2 \o s3 \o s4 \in Seq(Whats)
  BY <1>5, <1>7, SeqConcat, ElementsOfParts, Zenon
<1>. QED BY <1>1, <1>5, <1>8, ElementsOfParts, Zenon

\* Every step keeps ProgressInv.
LEMMA ProgressStep == TypeOK /\ ProgressInv /\ [Next]_vars => ProgressInv'
<1>. SUFFICES ASSUME TypeOK, ProgressInv, [Next]_vars PROVE ProgressInv'
  OBVIOUS
<1>1. UNCHANGED <<args, pid, node, LAST_PRODUCT>> => ReadPlanned' = ReadPlanned
  BY DEF ReadPlanned, Family, Skipped
<1>2. ASSUME UNCHANGED <<args, pid, node, LAST_PRODUCT, pc, steps, asked, sent>>
      PROVE  ProgressInv'
  BY <1>1, <1>2 DEF ProgressInv, ReadSent
<1>3. ASSUME pc' # "run" PROVE ProgressInv'
  BY <1>3 DEF ProgressInv
<1>4. ASSUME NEW p \in Ports, NEW d \in Pads, Plug(p, d) PROVE ProgressInv'
  BY <1>2, <1>4 DEF Plug, callVars
<1>5. ASSUME NEW p \in Ports, Unplug(p) PROVE ProgressInv'
  BY <1>2, <1>5 DEF Unplug, callVars
<1>6. ASSUME NEW a \in Arguments, Call(a) PROVE ProgressInv'
  BY <1>3, <1>6 DEF Call
<1>7. CASE TakeNode \/ FindInterface \/ OpenFails \/ Unconfirmed \/ Finish \/ Raise
  BY <1>3, <1>7 DEF TakeNode, FindInterface, OpenFails, Unconfirmed, Finish, Raise, Close
<1>8. CASE Start
  <2>1. UNCHANGED <<args, pid, node, LAST_PRODUCT>> /\ steps' = Steps(args, pid, Family)
        /\ asked' = FALSE
    BY <1>8, Zenon DEF Start
  <2>2. ReadPlanned => "u2" \in Elements(Steps(args, pid, Family))
    BY ReadIsListed, Zenon DEF ReadPlanned
  <2>. QED BY <1>1, <2>1, <2>2, Zenon DEF ProgressInv
<1>9. CASE Send
  <2>1. UNCHANGED <<args, pid, node, LAST_PRODUCT, pc, steps>> /\ pc = "run"
    BY <1>9, Zenon DEF Send
  <2>2. sent' = sent \cup {[what |-> Head(steps), to |-> to, framed |-> FramedFor]}
    BY <1>9, Zenon DEF Send
  <2>3. (\E m \in sent' : m.what = Head(steps)) /\ (ReadSent => ReadSent')
    <3>. DEFINE r == [what |-> Head(steps), to |-> to, framed |-> FramedFor]
    <3>1. r.what = Head(steps)
      OBVIOUS
    <3>2. sent' = sent \cup {r}
      BY <2>2, Zenon
    <3>. HIDE DEF r
    <3>3. r \in sent' /\ sent \subseteq sent'
      BY <3>2, Zenon
    <3>. QED BY <3>1, <3>3, Zenon DEF ReadSent
  <2>. QED BY <1>1, <2>1, <2>3, Zenon DEF ProgressInv
<1>10. CASE Return
  <2>1. UNCHANGED <<args, pid, node, LAST_PRODUCT, pc, sent>> /\ pc = "run" /\ asked /\ asked' = FALSE
        /\ (steps' = Tail(steps) \/ steps' = steps)
    BY <1>10, Zenon DEF Return
  <2>2. steps \in Seq(Whats) /\ steps # <<>>
    BY <2>1, Zenon DEF TypeOK
  <2>3. ("u2" \in Elements(steps)) => ReadSent \/ "u2" \in Elements(Tail(steps))
    <3>1. "u2" \in Elements(steps) => "u2" = Head(steps) \/ "u2" \in Elements(Tail(steps))
      BY <2>2, HeadAndTail, Zenon
    <3>. QED BY <2>1, <3>1, Zenon DEF ProgressInv, ReadSent
  <2>4. ReadSent' = ReadSent
    BY <2>1, Zenon DEF ReadSent
  <2>. QED BY <1>1, <2>1, <2>3, <2>4, Zenon DEF ProgressInv
<1>11. CASE UNCHANGED vars
  BY <1>2, <1>11 DEF vars, callVars
<1>. QED
  BY <1>4, <1>5, <1>6, <1>7, <1>8, <1>9, <1>10, <1>11 DEF Next, Rest

\* On the same terms, the XInput id being a USB one, an Ultimate 2 that the
\* search found is asked for its image, in its own frame, by every call that comes to its end.
THEOREM UltimateTwosAreRead ==
    ASSUME Still, XInputOnUSB
    PROVE  Spec => []FoundUltimateTwoIsRead
<1>1. TypeOK /\ FoundInv /\ PlanInv /\ ProgressInv => FoundUltimateTwoIsRead
  <2>. SUFFICES ASSUME TypeOK, FoundInv, PlanInv, ProgressInv, args.node = None,
                       pc = "run", steps = <<>>, ~args.switch, "u2" \notin args.skip,
                       to.pid = pid, SpeaksUltimate2(to)
                PROVE  \E m \in sent : FitsUltimate2(m)
    BY DEF FoundUltimateTwoIsRead, UltimateTwoIsRead
  <2>1. Family # None
    BY DEF FoundInv, Fits
  <2>2. pid \in {"6012", "6013", "310b"}
    BY DEF SpeaksUltimate2
  <2>3. ReadPlanned
    BY <2>1, <2>2 DEF ReadPlanned, Skipped, IDENTIFY_ONLY_PIDS
  <2>4. "u2" \notin Elements(steps)
    BY DEF Elements
  <2>5. PICK m \in sent : m.what = "u2"
    BY <2>3, <2>4 DEF ProgressInv, ReadSent
  <2>6. m.framed = FramedFor
    BY DEF PlanInv
  <2>. QED BY <2>1, <2>5, <2>6, FamilyFits, UltimateTwoFits, Zenon
<1>2. TypeOK /\ PlanInv /\ DatedInv /\ FoundInv /\ [Next]_vars => FoundInv'
  BY FoundStep
<1>3. Init => ProgressInv
  BY DEF Init, ProgressInv
<1>. QED
  BY <1>1, <1>2, <1>3, TypeInit, TypeStep, InvInit, PlanStep, DatedStep, ProgressStep, PTL DEF Spec

=============================================================================
