----------------------------- MODULE ImageLayout -----------------------------
(***************************************************************************)
(* tools/ultimate2_image.py: where the settings of an Ultimate 2 lie in    *)
(* its 1592-byte image, the records and button-map values stored there,    *)
(* and what tools/u2_summary.py reads back of a button map.                *)
(*                                                                         *)
(* An image is a function from 0 .. ULTIMATE2_SIZE - 1 to bytes.           *)
(***************************************************************************)
EXTENDS Packets

ULTIMATE2_SIZE == 1592
ENABLE_MARK == 538970385      \* 0x20200911
PROFILES == 3

Field(base, stride, size) == [base |-> base, stride |-> stride, size |-> size]

FIELDS ==
    [name |-> Field(0, 4, 4), file_name |-> Field(20, 32, 32), vibration |-> Field(116, 12, 12),
     stick |-> Field(152, 8, 8), trigger |-> Field(176, 8, 8), special |-> Field(200, 8, 8),
     macro |-> Field(500, 216, 216), x_rumble |-> Field(1148, 8, 8),
     sixaxis |-> Field(1172, 12, 12), dynamic |-> Field(1208, 12, 12),
     hotwheel |-> Field(1244, 16, 16), single |-> Field(1292, 100, 100)]

MAP_BASE == 228
MAP_PROFILE_STRIDE == 92
MAP_ENTRY == 4

MAP_KEY_NAMES ==
    <<"A", "B", "X", "Y", "L1", "R1", "L2", "R2", "L3", "R3", "Select", "Start", "Menu", "Home",
      "Up", "Down", "Left", "Right", "P1", "P2", "P3", "P4">>
Buttons == {MAP_KEY_NAMES[i] : i \in 1 .. Len(MAP_KEY_NAMES)}
IndexOf(button) == (CHOOSE i \in 1 .. Len(MAP_KEY_NAMES) : MAP_KEY_NAMES[i] = button) - 1

At(offset, size) == [offset |-> offset, size |-> size]

FieldAt(name, index) ==
    At(FIELDS[name].base + index * FIELDS[name].stride, FIELDS[name].size)

\* Mutant: the profiles' flags are not counted.
ButtonMapAtPacked(profile, button) ==
    At(MAP_BASE + profile * Len(MAP_KEY_NAMES) * MAP_ENTRY + button * MAP_ENTRY, MAP_ENTRY)

ButtonMapAt(profile, button) ==
    At(MAP_BASE + profile * MAP_PROFILE_STRIDE + button * MAP_ENTRY, MAP_ENTRY)

\* Mutant: the flag is the first dword of the keys.
MapFlagAtBase(profile) == At(MAP_BASE + profile * MAP_PROFILE_STRIDE, 4)

\* The profile's flag, before its keys.
MapFlagAt(profile) == At(MAP_BASE - 4 + profile * MAP_PROFILE_STRIDE, 4)

\* The records; the four bytes, or the two floats, follow the flag.
StickRecord(values, flag) == Le32(flag) \o values
TriggerRecord(values, flag) == StickRecord(values, flag)
VibrationRecord(zooms, flag) == Le32(flag) \o zooms

\* What an entry holds to send the button of that name.
MAP_ENTRY_VALUES ==
    [N |-> 0, Start |-> 1, L3 |-> 2, R3 |-> 4, Select |-> 8, X |-> 16, Y |-> 32, Right |-> 64,
     Left |-> 128, Down |-> 256, Up |-> 512, L1 |-> 1024, R1 |-> 2048, B |-> 4096, A |-> 8192,
     L2 |-> 16384, R2 |-> 32768, Turbo |-> 65536, Home |-> 131072, BT_CON |-> 262144,
     ScreenShot |-> 4194304, Turbo_3 |-> 8388608, Turbo_Auto |-> 16777216, P1 |-> 33554432,
     P2 |-> 67108864, P3 |-> 2097152, P4 |-> 1073741824, P5 |-> 1048576, Swap |-> 134217728,
     RS_Up |-> 134217729, RS_Down |-> 134217730, RS_Left |-> 134217732, RS_Right |-> 134217736,
     LS_Up |-> 134217744, LS_Down |-> 134217760, LS_Left |-> 134217792, LS_Right |-> 134217856,
     HitBox_LS_Left |-> 524288, HitBox_LS_Up |-> 1048576, HitBox_LS_Right |-> 268435456,
     HitBox_LS_Down |-> 536870912]
Targets == DOMAIN MAP_ENTRY_VALUES

\* The little-endian dword of an image at an offset, as a signed number.
Dword(image, offset) ==
    image[offset] + 256 * image[offset + 1] + 65536 * image[offset + 2]
        + 16777216 * (((image[offset + 3] + 128) % 256) - 128)

\* The buttons u2_summary.py lists for a profile: those that do not hold the
\* value of their own name, and those that have none.
Remapped(image, profile) ==
    {b \in Buttons :
        \/ b \notin Targets
        \/ Dword(image, ButtonMapAt(profile, IndexOf(b)).offset) # MAP_ENTRY_VALUES[b]}
MapEnabled(image, profile) ==
    Dword(image, MAP_BASE + profile * MAP_PROFILE_STRIDE - 4) = ENABLE_MARK

MAP_ENTRY_MISSING == 255
Has(value, bit) == (value \div bit) % 2 = 1

\* Mutant: the bits come first.
EntryNamesByBits(value) ==
    LET bits == {t \in Targets : \E k \in 0 .. 30 : MAP_ENTRY_VALUES[t] = 2 ^ k /\ Has(value, 2 ^ k)}
    IN  IF value = MAP_ENTRY_MISSING THEN {"missing"}
        ELSE IF bits # {} THEN bits
        ELSE {t \in Targets : MAP_ENTRY_VALUES[t] = value}

\* What map_entry_name makes of a value: its name, the first in the table (P5
\* and HitBox_LS_Up share one), or those of its single bits; none: a number.
EntryNames(value) ==
    LET named == {t \in Targets \ {"HitBox_LS_Up"} : MAP_ENTRY_VALUES[t] = value}
    IN  IF value = MAP_ENTRY_MISSING THEN {"missing"}
        ELSE IF named # {} THEN named
        ELSE {t \in Targets : \E k \in 0 .. 30 : MAP_ENTRY_VALUES[t] = 2 ^ k /\ Has(value, 2 ^ k)}

\* A profile's line of the summary: what each listed button is shown to be.
MapLine(image, profile) ==
    [b \in Remapped(image, profile) |->
        EntryNames(Dword(image, ButtonMapAt(profile, IndexOf(b)).offset))]
=============================================================================
