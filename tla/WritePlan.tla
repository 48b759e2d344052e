------------------------------ MODULE WritePlan ------------------------------
(***************************************************************************)
(* tools/u2_plan.py: one Plan over an image read from an Ultimate 2, and   *)
(* any sequence of its planners (plan_stick, plan_trigger, plan_vibration, *)
(* plan_map, plan_full), which change the image and append the chunks that *)
(* V2 would write for it.  Nothing is sent: held is what the chunks, taken *)
(* as reports by a pad (docs/firmware.md, the write handler of 6012),      *)
(* would leave in its memory.                                              *)
(***************************************************************************)
EXTENDS ImageLayout

CONSTANTS
    Originals,    \* the images that were read
    Quads,        \* four bytes of a stick or trigger record
    Zooms,        \* the two floats of a vibration record, eight bytes
    Assignments,  \* of --map: [button, target] in the order of the dict
    MaxPlans      \* bound: planners called on one Plan

TOTAL == ULTIMATE2_SIZE
Image == [0 .. TOTAL - 1 -> Byte]
Profiles == 0 .. PROFILES - 1

ASSUME PlanAssumption ==
    /\ Originals # {} /\ Originals \subseteq Image
    /\ Quads \subseteq [1 .. 4 -> Byte]
    /\ Zooms \subseteq [1 .. 8 -> Byte]
    /\ Assignments \subseteq Seq([button : Buttons, target : Targets]) \ {<<>>}
    /\ \A a \in Assignments : \A m, n \in DOMAIN a : a[m].button = a[n].button => m = n
    /\ MaxPlans \in Nat

VARIABLES
    original, image, chunks,
    pc,        \* "ready", or inside plan_map or plan_full
    record,    \* the record the last planner was called for: its name, its profile
    keys,      \* of plan_map: its assignments
    at,        \* of plan_map: the keys done; of plan_full: its offset
    plans,     \* planners called
    held       \* what the pad would hold; Unknown where nothing is known

vars == <<original, image, chunks, pc, record, keys, at, plans, held>>

Unknown == 256
Record(name, p) == [name |-> name, profile |-> p]
SIX == [checksum |-> TRUE, size_byte |-> FALSE]    \* the frame of 6012

Put(bytes, offset, data) ==
    [i \in DOMAIN bytes |->
        IF i \in offset .. offset + Len(data) - 1 THEN data[i - offset + 1] ELSE bytes[i]]

Slice(offset, length) == [i \in 1 .. length |-> image[offset + i - 1]]

\* The pad copies a write's chunk into its image, if the checksum is right.
PadTakes(report) ==
    LET length == LengthOf(report, FALSE)
        data == Bytes(report, HeaderAt(FALSE) + 16, length)
    IN  IF /\ TakesSection(report, FALSE) /\ RequestOf(report, FALSE) = PRO2_WRITE
           /\ Word(report, HeaderAt(FALSE) + 6) = crc16_modbus(data)
        THEN Put(held, OffsetOf(report, FALSE), data)
        ELSE held

-----------------------------------------------------------------------------
Init ==
    /\ original \in Originals /\ image = original /\ held = original
    /\ chunks = <<>>
    /\ pc = "ready" /\ record = Record("crc_value", 0) /\ keys = <<>> /\ at = 0
    /\ plans = 0

\* One chunk of data at an offset joins the plan.
Append1(chunk) ==
    /\ chunks' = Append(chunks, chunk)
    /\ held' = PadTakes(PadReport(chunk))

\* The bytes go into the image and into a chunk of their own.
Write(offset, data) ==
    /\ image' = Put(image, offset, data)
    /\ Append1(Pro2WriteChunk(offset, TOTAL, data, Len(data), SIX))

Begin ==
    /\ pc = "ready" /\ plans < MaxPlans
    /\ plans' = plans + 1
    /\ UNCHANGED original

FieldChunk(name, p, bytes) ==
    /\ Begin
    /\ Len(bytes) = FieldAt(name, p).size
    /\ Write(FieldAt(name, p).offset, bytes)
    /\ record' = Record(name, p)
    /\ UNCHANGED <<pc, keys, at>>

PlanStick(p, values) == FieldChunk("stick", p, StickRecord(values, ENABLE_MARK))
PlanTrigger(p, values) == FieldChunk("trigger", p, TriggerRecord(values, ENABLE_MARK))
PlanVibration(p, zooms) == FieldChunk("vibration", p, VibrationRecord(zooms, ENABLE_MARK))

\* plan_map: the profile's flag, and then every key in turn.
PlanMap(p, assignments) ==
    /\ Begin
    /\ Write(MapFlagAt(p).offset, Le32(ENABLE_MARK))
    /\ pc' = "map" /\ record' = Record("map", p) /\ keys' = assignments /\ at' = 0

MapKey ==
    /\ pc = "map"
    /\ LET a == keys[at + 1]
       IN  Write(ButtonMapAt(record.profile, IndexOf(a.button)).offset, Le32(MAP_ENTRY_VALUES[a.target]))
    /\ at' = at + 1
    /\ pc' = IF at' = Len(keys) THEN "ready" ELSE "map"
    /\ UNCHANGED <<original, record, keys, plans>>

\* plan_full: crc_value is sealed, and then every chunk of the image follows.
\* The pad that takes a full save need not be the one the image is from.
PlanFull ==
    /\ Begin
    /\ image' = Put(image, 12, Le32(crc16_modbus(Slice(0, TOTAL))))
    /\ pc' = "full" /\ record' = Record("crc_value", 0) /\ at' = 0
    /\ held' = [i \in DOMAIN held |-> Unknown]
    /\ UNCHANGED <<chunks, keys>>

\* Mutants: the loop ends before the short chunk; the offset goes up by whole
\* chunks.
FullChunkWhole ==
    /\ pc = "full"
    /\ Append1(Pro2WriteChunk(at, TOTAL, Slice(at, ChunkLength(at, TOTAL)),
                              ChunkLength(at, TOTAL), SIX))
    /\ at' = at + CUSTOM_INFO_CHUNK
    /\ pc' = IF at' + CUSTOM_INFO_CHUNK < TOTAL THEN "full" ELSE "ready"
    /\ UNCHANGED <<original, image, record, keys, plans>>
FullChunkStride ==
    /\ pc = "full"
    /\ Append1(Pro2WriteChunk(at, TOTAL, Slice(at, ChunkLength(at, TOTAL)),
                              ChunkLength(at, TOTAL), SIX))
    /\ at' = at + CUSTOM_INFO_CHUNK
    /\ pc' = IF at' < TOTAL THEN "full" ELSE "ready"
    /\ UNCHANGED <<original, image, record, keys, plans>>

FullChunk ==
    /\ pc = "full"
    /\ LET length == ChunkLength(at, TOTAL)
       IN  /\ Append1(Pro2WriteChunk(at, TOTAL, Slice(at, length), length, SIX))
           /\ at' = at + length
    /\ pc' = IF at' < TOTAL THEN "full" ELSE "ready"
    /\ UNCHANGED <<original, image, record, keys, plans>>

\* The caller is done with the plan.
Rest == pc = "ready" /\ plans = MaxPlans /\ UNCHANGED vars

Next ==
    \/ \E p \in Profiles :
          \/ \E values \in Quads : PlanStick(p, values) \/ PlanTrigger(p, values)
          \/ \E zooms \in Zooms : PlanVibration(p, zooms)
          \/ \E assignments \in Assignments : PlanMap(p, assignments)
    \/ MapKey \/ PlanFull \/ FullChunk \/ Rest

Spec == Init /\ [][Next]_vars

\* Plan.packets: every chunk as its report, and the commit last.
Reports == [n \in 1 .. Len(chunks) + 1 |->
               PadReport(IF n <= Len(chunks) THEN chunks[n] ELSE Pro2Commit(FALSE))]

-----------------------------------------------------------------------------
(* Properties. *)

TypeOK ==
    /\ original \in Originals
    /\ image \in Image
    /\ chunks \in Seq(Seq(Byte))
    /\ pc \in {"ready", "map", "full"}
    /\ record \in [name : {"stick", "trigger", "vibration", "map", "crc_value"}, profile : Profiles]
    /\ keys \in Assignments \cup {<<>>}
    /\ at \in Nat /\ (record.name = "crc_value" => at <= TOTAL)
    /\ pc = "map" => record.name = "map" /\ at < Len(keys)
    /\ pc = "full" => record.name = "crc_value" /\ at < TOTAL
    /\ plans \in 0 .. MaxPlans
    /\ held \in [0 .. TOTAL - 1 -> Byte \cup {Unknown}]

\* A pad that takes the packets of a plan holds the planned image, byte for
\* byte: the one it was read from after any field writes, and any pad at all
\* after a full save.  The image printed and saved is what would be written.
PadHoldsThePlan == pc = "ready" => held = image

\* No packet of a plan, and no commit, passes the allowlist of read_config.py,
\* armed or not: no tool here sends a write (docstring 6-7).
PlansAreNeverSent ==
    \A n \in DOMAIN Reports, armed \in BOOLEAN : ~Allowed(Reports[n], armed)

\* spec/protocol.md (116): the image is one struct, its members in this order
\* with nothing between them.
Struct == <<[name |-> "name", size |-> 4, count |-> 3],
            [name |-> "crc_value", size |-> 4, count |-> 1],
            [name |-> "gamepad_mode", size |-> 2, count |-> 1],
            [name |-> "cur_slot", size |-> 2, count |-> 1],
            [name |-> "file_name", size |-> 32, count |-> 3],
            [name |-> "vibration", size |-> 12, count |-> 3],
            [name |-> "stick", size |-> 8, count |-> 3],
            [name |-> "trigger", size |-> 8, count |-> 3],
            [name |-> "special", size |-> 8, count |-> 3],
            [name |-> "map", size |-> 92, count |-> 3],
            [name |-> "macro", size |-> 216, count |-> 3],
            [name |-> "x_rumble", size |-> 8, count |-> 3],
            [name |-> "sixaxis", size |-> 12, count |-> 3],
            [name |-> "dynamic", size |-> 12, count |-> 3],
            [name |-> "hotwheel", size |-> 16, count |-> 3],
            [name |-> "single", size |-> 100, count |-> 3]>>
Ends[n \in 0 .. Len(Struct)] == IF n = 0 THEN 0 ELSE Ends[n - 1] + Struct[n].size * Struct[n].count
MemberAt(name, index) ==
    LET n == CHOOSE n \in 1 .. Len(Struct) : Struct[n].name = name
    IN  At(Ends[n - 1] + index * Struct[n].size, Struct[n].size)

InsideRecord ==
    LET m == MemberAt(record'.name, record'.profile)
    IN  \A i \in DOMAIN image : image'[i] # image[i] => i \in m.offset .. m.offset + m.size - 1

\* Each planner changes bytes of its own record of its own profile alone, in
\* the struct that the layout was read from.
PlansStayInTheirRecord == [][InsideRecord]_vars

\* A key's line of the summary: none if its target is the button's own, or its
\* target (by the first name of its value).
ShownAs(line, a) ==
    IF a.button \in Targets /\ MAP_ENTRY_VALUES[a.target] = MAP_ENTRY_VALUES[a.button]
    THEN a.button \notin DOMAIN line
    ELSE /\ a.button \in DOMAIN line
         /\ \E t \in Targets : /\ line[a.button] = {t}
                               /\ MAP_ENTRY_VALUES[t] = MAP_ENTRY_VALUES[a.target]
MapIsShown ==
    (pc = "map" /\ pc' = "ready") =>
        /\ MapEnabled(image', record'.profile)
        /\ \A n \in DOMAIN keys : ShownAs(MapLine(image', record'.profile), keys[n])
OthersAreShownAsBefore ==
    pc = "map" =>
        \A p \in Profiles :
            LET before == MapLine(image, p)
                after == MapLine(image', p)
            IN  \A b \in Buttons : (p = record.profile /\ b = keys[at + 1].button)
                    \/ IF b \in DOMAIN before THEN b \in DOMAIN after /\ after[b] = before[b]
                                              ELSE b \notin DOMAIN after

\* What u2_summary.py says of the planned image is the map that was asked for.
\* When plan_map is done the profile is shown enabled, and each button with
\* its target (or the target's first name), or not at all if that is its own,
\* whatever the keys planned after it; and a key's step changes how no other
\* button of any profile is shown.
SummaryShowsTheMap == [][MapIsShown /\ OthersAreShownAsBefore]_vars

\* u2_summary.py (84): a profile whose buttons hold the values of their own
\* names is shown as "all keys at their own value".
OwnKeysAreShownSo ==
    \A p \in Profiles :
        (\A b \in Buttons \cap Targets :
            Dword(image, ButtonMapAt(p, IndexOf(b)).offset) = MAP_ENTRY_VALUES[b])
        => Remapped(image, p) = {}
=============================================================================
