---------------------------- MODULE WritePlanProofs ----------------------------
(***************************************************************************)
(* WritePlan for every image, every record and map, and any number of      *)
(* planners called on one Plan.                                            *)
(***************************************************************************)
EXTENDS WritePlan, PacketProofs

LEMMA SixIsAFrame == SIX \in Frames /\ SIX.checksum = TRUE /\ SIX.size_byte = FALSE
BY DEF SIX, Frames

LEMMA InsideIsHalf ==
    ASSUME NEW offset \in Nat, offset < TOTAL
    PROVE  offset \in Half
<1>1. offset <= 2000
  BY DEF TOTAL, ULTIMATE2_SIZE
<1>. QED BY <1>1, SmallIsHalf

\* The chunk of bytes at an offset, as the planners build it.
ChunkOf(offset, data) == Pro2WriteChunk(offset, TOTAL, data, Len(data), SIX)

\* The pad takes such a chunk for just those bytes at that offset.
LEMMA ChunkIsTaken ==
    ASSUME NEW offset \in Nat, offset < TOTAL, NEW data \in Seq(Byte), Len(data) <= 45
    PROVE  PadTakes(PadReport(ChunkOf(offset, data))) = Put(held, offset, data)
<1>. DEFINE report == PadReport(ChunkOf(offset, data))
<1>1. offset \in Half /\ TOTAL \in Nat
  BY InsideIsHalf DEF TOTAL, ULTIMATE2_SIZE
<1>2. ReadsAs(report, SIX.size_byte, PRO2_WRITE, offset, data, Checked(data, SIX.checksum))
  BY <1>1, SixIsAFrame, WriteChunkIsRead, Zenon DEF ChunkOf
<1>. HIDE DEF report
<1>3. /\ TakesSection(report, FALSE) /\ RequestOf(report, FALSE) = PRO2_WRITE
      /\ OffsetOf(report, FALSE) = offset /\ LengthOf(report, FALSE) = Len(data)
      /\ Word(report, HeaderAt(FALSE) + 6) = crc16_modbus(data)
      /\ Bytes(report, HeaderAt(FALSE) + 16, Len(data)) = data
  BY <1>2, SixIsAFrame, Zenon DEF ReadsAs, Checked
<1>4. PadTakes(report) = Put(held, offset, data)
  BY <1>3, Zenon DEF PadTakes
<1>. QED BY <1>4, Zenon DEF report

\* It is a packet of bytes that the allowlist refuses.
LEMMA ChunkIsRefused ==
    ASSUME NEW offset \in Nat, offset < TOTAL, NEW data \in Seq(Byte), Len(data) <= 45
    PROVE  /\ ChunkOf(offset, data) \in Seq(Byte)
           /\ \A armed \in BOOLEAN : ~Allowed(PadReport(ChunkOf(offset, data)), armed)
<1>1. offset \in Half /\ TOTAL \in Nat
  BY InsideIsHalf DEF TOTAL, ULTIMATE2_SIZE
<1>. DEFINE section == Section(PRO2_WRITE, TOTAL, offset, data, SIX.checksum)
            header == <<REPORT_OUT, SECTION>>
<1>2. Len(data) \in Nat
  OBVIOUS
<1>3. Len(data) \in Half /\ PRO2_WRITE \in Half
  BY <1>2, SmallIsHalf DEF PRO2_WRITE
<1>4. section \in Seq(Byte)
  BY <1>1, <1>3, SixIsAFrame, SectionFields, ZenonT(30) DEF HasFields
<1>5. SubSeq(data, 1, Len(data)) = data
  OBVIOUS
<1>6. ChunkOf(offset, data) = header \o section
  BY <1>5, SixIsAFrame, Zenon DEF ChunkOf, Pro2WriteChunk, WrapSection
<1>7. header \in Seq(Byte)
  BY DEF REPORT_OUT, SECTION, Byte
<1>. HIDE DEF section, header
<1>8. header \o section \in Seq(Byte)
  BY <1>4, <1>7, ConcatBytes, Zenon
<1>9. \A armed \in BOOLEAN : ~Allowed(PadReport(ChunkOf(offset, data)), armed)
  BY <1>1, SixIsAFrame, WritesAreNeverAllowed, Zenon DEF ChunkOf
<1>. QED BY <1>6, <1>8, <1>9, Zenon

\* What putting bytes into an image leaves.
LEMMA PutType ==
    ASSUME NEW S, Byte \subseteq S, NEW bytes \in [0 .. TOTAL - 1 -> S],
           NEW offset \in Nat, NEW data \in Seq(Byte)
    PROVE  Put(bytes, offset, data) \in [0 .. TOTAL - 1 -> S]
<1>1. DOMAIN bytes = 0 .. TOTAL - 1
  OBVIOUS
<1>2. ASSUME NEW i \in 0 .. TOTAL - 1, i \in offset .. offset + Len(data) - 1
      PROVE  data[i - offset + 1] \in S
  <2>1. Len(data) \in Nat
    OBVIOUS
  <2>2. i - offset + 1 \in 1 .. Len(data)
    BY <1>2, <2>1
  <2>3. \A j \in 1 .. Len(data) : data[j] \in Byte
    OBVIOUS
  <2>. QED BY <2>2, <2>3
<1>. QED BY <1>1, <1>2 DEF Put

LEMMA PutAt ==
    ASSUME NEW bytes, NEW offset, NEW data, NEW i \in DOMAIN bytes
    PROVE  Put(bytes, offset, data)[i] =
             IF i \in offset .. offset + Len(data) - 1 THEN data[i - offset + 1] ELSE bytes[i]
BY Zenon DEF Put

LEMMA SliceBytes ==
    ASSUME image \in Image, NEW offset \in Nat, NEW length \in Nat, offset + length <= TOTAL
    PROVE  /\ Slice(offset, length) \in Seq(Byte) /\ Len(Slice(offset, length)) = length
           /\ \A i \in 1 .. length : Slice(offset, length)[i] = image[offset + i - 1]
<1>1. ASSUME NEW i \in 1 .. length PROVE image[offset + i - 1] \in Byte
  <2>1. offset + i - 1 \in 0 .. TOTAL - 1
    BY DEF TOTAL, ULTIMATE2_SIZE
  <2>. QED BY <2>1 DEF Image
<1>. QED BY <1>1 DEF Slice

-----------------------------------------------------------------------------
(* The layout. *)

LEMMA ButtonsAreIndexed ==
    ASSUME NEW b \in Buttons
    PROVE  IndexOf(b) \in 0 .. 21
<1>1. Len(MAP_KEY_NAMES) = 22
  BY DEF MAP_KEY_NAMES
<1>2. PICK i \in 1 .. Len(MAP_KEY_NAMES) : MAP_KEY_NAMES[i] = b
  BY Zenon DEF Buttons
<1>. DEFINE k == CHOOSE n \in 1 .. Len(MAP_KEY_NAMES) : MAP_KEY_NAMES[n] = b
<1>3. k \in 1 .. Len(MAP_KEY_NAMES)
  BY <1>2, Zenon
<1>4. IndexOf(b) = k - 1
  BY DEF IndexOf
<1>. HIDE DEF k
<1>. QED BY <1>1, <1>3, <1>4

LEMMA EntriesAreNumbers == \A t \in Targets : MAP_ENTRY_VALUES[t] \in Nat
BY DEF Targets, MAP_ENTRY_VALUES

-----------------------------------------------------------------------------
(* The invariant. *)

\* Below the offset that a full save has come to, the pad holds the image.
HeldInv ==
    /\ pc = "full" => \A i \in 0 .. TOTAL - 1 : i < at => held[i] = image[i]
    /\ pc # "full" => held = image
RefusedInv == \A n \in 1 .. Len(chunks), armed \in BOOLEAN : ~Allowed(PadReport(chunks[n]), armed)
IInv == TypeOK /\ HeldInv /\ RefusedInv

LEMMA InitIInv == Init => IInv
<1>. SUFFICES ASSUME Init PROVE IInv
  OBVIOUS
<1>1. TypeOK
  <2>1. original \in Originals /\ image \in Image /\ held \in [0 .. TOTAL - 1 -> Byte \cup {Unknown}]
    <3>1. original \in Image
      BY PlanAssumption DEF Init
    <3>. QED BY <3>1 DEF Init, Image
  <2>2. chunks \in Seq(Seq(Byte)) /\ pc = "ready" /\ keys = <<>> /\ at = 0 /\ plans = 0
    BY DEF Init
  <2>3. record = [name |-> "crc_value", profile |-> 0]
    BY DEF Init, Record
  <2>4. record \in [name : {"stick", "trigger", "vibration", "map", "crc_value"}, profile : Profiles]
        /\ record.name = "crc_value"
    BY <2>3 DEF Profiles, PROFILES
  <2>5. at \in Nat /\ at <= TOTAL /\ at < TOTAL
    BY <2>2 DEF TOTAL, ULTIMATE2_SIZE
  <2>6. plans \in 0 .. MaxPlans /\ pc # "map" /\ pc \in {"ready", "map", "full"}
    BY <2>2, PlanAssumption
  <2>. QED BY <2>1, <2>2, <2>4, <2>5, <2>6, Zenon DEF TypeOK
<1>2. HeldInv /\ RefusedInv
  BY DEF Init, HeldInv, RefusedInv
<1>. QED BY <1>1, <1>2 DEF IInv

\* A chunk that joins the plan is refused like the others.
LEMMA AppendedIsRefused ==
    ASSUME TypeOK, RefusedInv, NEW offset \in Nat, offset < TOTAL,
           NEW data \in Seq(Byte), Len(data) <= 45, Append1(ChunkOf(offset, data))
    PROVE  /\ chunks' \in Seq(Seq(Byte)) /\ RefusedInv'
           /\ held' = Put(held, offset, data)
<1>. DEFINE chunk == ChunkOf(offset, data)
<1>1. chunk \in Seq(Byte) /\ \A armed \in BOOLEAN : ~Allowed(PadReport(chunk), armed)
  BY ChunkIsRefused, Zenon
<1>2. held' = Put(held, offset, data)
  BY ChunkIsTaken, Zenon DEF Append1
<1>. HIDE DEF chunk
<1>3. chunks' = Append(chunks, chunk) /\ chunks \in Seq(Seq(Byte))
  BY Zenon DEF Append1, TypeOK, chunk
<1>4. chunks' \in Seq(Seq(Byte)) /\ Len(chunks') = Len(chunks) + 1 /\ Len(chunks) \in Nat
  BY <1>1, <1>3
<1>5. \A n \in 1 .. Len(chunks') : chunks'[n] = IF n <= Len(chunks) THEN chunks[n] ELSE chunk
  BY <1>1, <1>3
<1>6. ASSUME NEW n \in 1 .. Len(chunks'), NEW armed \in BOOLEAN
      PROVE  ~Allowed(PadReport(chunks'[n]), armed)
  <2>1. CASE n <= Len(chunks)
    <3>1. n \in 1 .. Len(chunks)
      BY <1>4, <2>1
    <3>2. ~Allowed(PadReport(chunks[n]), armed)
      BY <3>1, Zenon DEF RefusedInv
    <3>. QED BY <1>5, <2>1, <3>2, Zenon
  <2>2. CASE ~(n <= Len(chunks))
    BY <1>1, <1>5, <2>2, Zenon
  <2>. QED BY <2>1, <2>2
<1>7. RefusedInv'
  BY <1>6, Zenon DEF RefusedInv
<1>. QED BY <1>2, <1>4, <1>7

\* A write leaves the pad and the image alike.
LEMMA WriteKeepsThemAlike ==
    ASSUME TypeOK, RefusedInv, held = image, NEW offset \in Nat, offset < TOTAL,
           NEW data \in Seq(Byte), Len(data) <= 45, Write(offset, data)
    PROVE  /\ chunks' \in Seq(Seq(Byte)) /\ RefusedInv'
           /\ image' \in Image /\ held' = image'
           /\ held' \in [0 .. TOTAL - 1 -> Byte \cup {Unknown}]
<1>1. Append1(ChunkOf(offset, data)) /\ image' = Put(image, offset, data)
  BY Zenon DEF Write, ChunkOf
<1>2. chunks' \in Seq(Seq(Byte)) /\ RefusedInv' /\ held' = Put(held, offset, data)
  BY <1>1, AppendedIsRefused, Zenon
<1>3. image' \in Image
  <2>1. image \in [0 .. TOTAL - 1 -> Byte] /\ Byte \subseteq Byte
    BY Zenon DEF TypeOK, Image
  <2>. QED BY <1>1, <2>1, PutType, Zenon DEF Image
<1>4. held' \in [0 .. TOTAL - 1 -> Byte \cup {Unknown}]
  <2>1. held' = image'
    BY <1>1, <1>2, Zenon
  <2>. QED BY <1>3, <2>1 DEF Image
<1>. QED BY <1>1, <1>2, <1>3, <1>4, Zenon

LEMMA FieldChunkKeeps ==
    ASSUME IInv, NEW name \in {"stick", "trigger", "vibration"}, NEW p \in Profiles,
           NEW data \in Seq(Byte), Len(data) <= 45, FieldChunk(name, p, data)
    PROVE  IInv'
<1>1. /\ pc = "ready" /\ pc' = pc /\ keys' = keys /\ at' = at /\ original' = original
      /\ plans < MaxPlans /\ plans' = plans + 1
      /\ Write(FieldAt(name, p).offset, data) /\ record' = Record(name, p)
  BY Zenon DEF FieldChunk, Begin
<1>2. FieldAt(name, p).offset \in Nat /\ FieldAt(name, p).offset < TOTAL
  <2>1. p \in {0, 1, 2}
    BY DEF Profiles, PROFILES
  <2>2. CASE name = "stick"
    BY <2>1, <2>2 DEF FieldAt, FIELDS, Field, At, TOTAL, ULTIMATE2_SIZE
  <2>3. CASE name = "trigger"
    BY <2>1, <2>3 DEF FieldAt, FIELDS, Field, At, TOTAL, ULTIMATE2_SIZE
  <2>4. CASE name = "vibration"
    BY <2>1, <2>4 DEF FieldAt, FIELDS, Field, At, TOTAL, ULTIMATE2_SIZE
  <2>. QED BY <2>2, <2>3, <2>4
<1>3. TypeOK /\ RefusedInv /\ held = image
  BY <1>1 DEF IInv, HeldInv
<1>4. /\ chunks' \in Seq(Seq(Byte)) /\ RefusedInv' /\ image' \in Image /\ held' = image'
      /\ held' \in [0 .. TOTAL - 1 -> Byte \cup {Unknown}]
  BY <1>1, <1>2, <1>3, WriteKeepsThemAlike, Zenon
<1>5. TypeOK'
  <2>1. /\ record' \in [name : {"stick", "trigger", "vibration", "map", "crc_value"}, profile : Profiles]
        /\ record'.name # "crc_value"
    BY <1>1 DEF Record
  <2>2. original' \in Originals /\ keys' \in Assignments \cup {<<>>} /\ at' \in Nat
    BY <1>1, <1>3, Zenon DEF TypeOK
  <2>3. plans' \in 0 .. MaxPlans
    BY <1>1, <1>3, PlanAssumption DEF TypeOK
  <2>. QED BY <1>1, <1>4, <2>1, <2>2, <2>3 DEF TypeOK
<1>6. HeldInv'
  BY <1>1, <1>4 DEF HeldInv
<1>. QED BY <1>4, <1>5, <1>6 DEF IInv

LEMMA FlaggedRecord ==
    ASSUME NEW values \in Seq(Byte), Len(values) \in {4, 8}
    PROVE  Le32(ENABLE_MARK) \o values \in Seq(Byte) /\ Len(Le32(ENABLE_MARK) \o values) <= 45
<1>. DEFINE flag == Le32(ENABLE_MARK)
            s == flag \o values
<1>1. ENABLE_MARK \in Nat
  BY DEF ENABLE_MARK
<1>2. flag \in Seq(Byte) /\ Len(flag) = 4
  BY <1>1, Le32Bytes, Zenon
<1>. HIDE DEF flag
<1>3. s \in Seq(Byte) /\ Len(s) = Len(flag) + Len(values)
  BY <1>2, ConcatBytes, Zenon
<1>. HIDE DEF s
<1>4. Len(s) <= 45
  <2>0. \A n \in {4, 8} : n \in Nat /\ n <= 8
    OBVIOUS
  <2>1. Len(values) \in Nat /\ Len(values) <= 8
    BY <2>0, Zenon
  <2>. QED BY <1>2, <1>3, <2>1
<1>. QED BY <1>3, <1>4, Zenon DEF s, flag

LEMMA PlanMapKeeps ==
    ASSUME IInv, NEW p \in Profiles, NEW assignments \in Assignments,
           PlanMap(p, assignments)
    PROVE  IInv'
<1>1. /\ pc = "ready" /\ pc' = "map" /\ keys' = assignments /\ at' = 0 /\ original' = original
      /\ plans < MaxPlans /\ plans' = plans + 1
      /\ Write(MapFlagAt(p).offset, Le32(ENABLE_MARK)) /\ record' = Record("map", p)
  BY Zenon DEF PlanMap, Begin
<1>2. MapFlagAt(p).offset \in Nat /\ MapFlagAt(p).offset < TOTAL
  BY DEF MapFlagAt, At, MAP_BASE, MAP_PROFILE_STRIDE, Profiles, PROFILES, TOTAL, ULTIMATE2_SIZE
<1>3. Le32(ENABLE_MARK) \in Seq(Byte) /\ Len(Le32(ENABLE_MARK)) <= 45
  <2>1. ENABLE_MARK \in Nat
    BY DEF ENABLE_MARK
  <2>2. Le32(ENABLE_MARK) \in Seq(Byte) /\ Len(Le32(ENABLE_MARK)) = 4
    BY <2>1, Le32Bytes, Zenon
  <2>. QED BY <2>2
<1>4. TypeOK /\ RefusedInv /\ held = image
  BY <1>1 DEF IInv, HeldInv
<1>5. /\ chunks' \in Seq(Seq(Byte)) /\ RefusedInv' /\ image' \in Image /\ held' = image'
      /\ held' \in [0 .. TOTAL - 1 -> Byte \cup {Unknown}]
  BY <1>1, <1>2, <1>3, <1>4, WriteKeepsThemAlike, Zenon
<1>6. TypeOK'
  <2>1. /\ record' \in [name : {"stick", "trigger", "vibration", "map", "crc_value"}, profile : Profiles]
        /\ record'.name = "map"
    BY <1>1 DEF Record
  <2>2. original' \in Originals /\ keys' \in Assignments \cup {<<>>}
    BY <1>1, <1>4, Zenon DEF TypeOK
  <2>3. at' \in Nat /\ at' < Len(keys')
    <3>1. assignments \in Seq([button : Buttons, target : Targets]) /\ assignments # <<>>
      BY PlanAssumption, Zenon
    <3>2. \A s \in Seq([button : Buttons, target : Targets]) : s # <<>> => Len(s) > 0
      OBVIOUS
    <3>3. Len(assignments) > 0
      BY <3>1, <3>2, Zenon
    <3>. QED BY <1>1, <3>3
  <2>4. plans' \in 0 .. MaxPlans
    BY <1>1, <1>4, PlanAssumption DEF TypeOK
  <2>. QED BY <1>1, <1>5, <2>1, <2>2, <2>3, <2>4 DEF TypeOK
<1>7. HeldInv'
  BY <1>1, <1>5 DEF HeldInv
<1>. QED BY <1>5, <1>6, <1>7 DEF IInv

\* The key that plan_map is at is one of its assignments.
LEMMA KeyIsAnAssignment ==
    ASSUME TypeOK, pc = "map"
    PROVE  /\ Len(keys) \in Nat /\ at + 1 \in 1 .. Len(keys) /\ keys \in Assignments
           /\ \A n \in 1 .. Len(keys) : keys[n].button \in Buttons /\ keys[n].target \in Targets
           /\ keys[at + 1].button \in Buttons /\ keys[at + 1].target \in Targets
<1>. DEFINE E == [button : Buttons, target : Targets]
<1>1. at \in Nat /\ at < Len(keys) /\ keys \in Assignments \cup {<<>>}
  BY DEF TypeOK
<1>2. keys \in Seq(E)
  <2>1. <<>> \in Seq(E)
    OBVIOUS
  <2>. QED BY <1>1, <2>1, PlanAssumption, Zenon
<1>3. keys # <<>>
  BY <1>1
<1>4. \A e \in E : e.button \in Buttons /\ e.target \in Targets
  OBVIOUS
<1>. HIDE DEF E
<1>5. Len(keys) \in Nat /\ at + 1 \in 1 .. Len(keys) /\ \A n \in 1 .. Len(keys) : keys[n] \in E
  BY <1>1, <1>2
<1>. QED BY <1>1, <1>3, <1>4, <1>5, Zenon

LEMMA MapKeyKeeps ==
    ASSUME IInv, MapKey
    PROVE  IInv'
<1>. DEFINE a == keys[at + 1]
            entry == ButtonMapAt(record.profile, IndexOf(a.button)).offset
            value == Le32(MAP_ENTRY_VALUES[a.target])
<1>1. /\ pc = "map" /\ at' = at + 1 /\ pc' = (IF at' = Len(keys) THEN "ready" ELSE "map")
      /\ original' = original /\ record' = record /\ keys' = keys /\ plans' = plans
      /\ Write(entry, value)
  BY Zenon DEF MapKey
<1>2. TypeOK /\ RefusedInv /\ held = image
  BY <1>1 DEF IInv, HeldInv
<1>3. /\ at \in Nat /\ at < Len(keys) /\ record.name = "map" /\ record.profile \in Profiles
      /\ keys \in Assignments \cup {<<>>}
  BY <1>1, <1>2 DEF TypeOK
<1>4. Len(keys) \in Nat
  BY <1>1, <1>2, KeyIsAnAssignment
<1>5. a.button \in Buttons /\ a.target \in Targets
  BY <1>1, <1>2, KeyIsAnAssignment, Zenon
<1>6. entry \in Nat /\ entry < TOTAL
  <2>1. IndexOf(a.button) \in 0 .. 21
    BY <1>5, ButtonsAreIndexed, Zenon
  <2>2. ASSUME NEW p \in Profiles, NEW i \in 0 .. 21
        PROVE  ButtonMapAt(p, i).offset \in Nat /\ ButtonMapAt(p, i).offset < TOTAL
    BY DEF ButtonMapAt, At, MAP_BASE, MAP_PROFILE_STRIDE, MAP_ENTRY, Profiles, PROFILES, TOTAL,
       ULTIMATE2_SIZE
  <2>. QED BY <1>3, <2>1, <2>2, Zenon
<1>7. value \in Seq(Byte) /\ Len(value) <= 45
  <2>1. MAP_ENTRY_VALUES[a.target] \in Nat
    BY <1>5, EntriesAreNumbers, Zenon
  <2>2. value \in Seq(Byte) /\ Len(value) = 4
    BY <2>1, Le32Bytes, Zenon
  <2>. HIDE DEF value
  <2>. QED BY <2>2
<1>. HIDE DEF a, entry, value
<1>8. /\ chunks' \in Seq(Seq(Byte)) /\ RefusedInv' /\ image' \in Image /\ held' = image'
      /\ held' \in [0 .. TOTAL - 1 -> Byte \cup {Unknown}]
  BY <1>1, <1>2, <1>6, <1>7, WriteKeepsThemAlike, Zenon
<1>9. TypeOK'
  <2>1. /\ original' \in Originals /\ keys' \in Assignments \cup {<<>>} /\ plans' \in 0 .. MaxPlans
        /\ record' \in [name : {"stick", "trigger", "vibration", "map", "crc_value"}, profile : Profiles]
    BY <1>1, <1>2, Zenon DEF TypeOK
  <2>2. record'.name = "map" /\ at' \in Nat /\ (pc' = "map" => at' < Len(keys')) /\ pc' \in {"ready", "map"}
    BY <1>1, <1>3, <1>4
  <2>. QED BY <1>8, <2>1, <2>2 DEF TypeOK
<1>10. HeldInv'
  BY <1>1, <1>8 DEF HeldInv
<1>. QED BY <1>8, <1>9, <1>10 DEF IInv

LEMMA PlanFullKeeps ==
    ASSUME IInv, PlanFull
    PROVE  IInv'
<1>1. /\ pc = "ready" /\ pc' = "full" /\ keys' = keys /\ at' = 0 /\ original' = original
      /\ chunks' = chunks /\ plans < MaxPlans /\ plans' = plans + 1
      /\ image' = Put(image, 12, Le32(crc16_modbus(Slice(0, TOTAL))))
      /\ record' = Record("crc_value", 0) /\ held' = [i \in DOMAIN held |-> Unknown]
  BY Zenon DEF PlanFull, Begin
<1>2. TypeOK /\ RefusedInv
  BY DEF IInv
<1>3. image' \in Image
  <2>1. 0 \in Nat /\ TOTAL \in Nat /\ 0 + TOTAL <= TOTAL /\ 12 \in Nat
    BY DEF TOTAL, ULTIMATE2_SIZE
  <2>2. image \in Image
    BY <1>2 DEF TypeOK
  <2>3. Slice(0, TOTAL) \in Seq(Byte)
    BY <2>1, <2>2, SliceBytes, Zenon
  <2>4. crc16_modbus(Slice(0, TOTAL)) \in Nat
    BY <2>3, HalfIsNat, CrcIsAWord, Zenon
  <2>. DEFINE data == Le32(crc16_modbus(Slice(0, TOTAL)))
  <2>5. data \in Seq(Byte)
    BY <2>4, Le32Bytes, Zenon
  <2>. HIDE DEF data
  <2>6. Put(image, 12, data) \in [0 .. TOTAL - 1 -> Byte]
    BY <2>1, <2>2, <2>5, PutType DEF Image
  <2>. QED BY <1>1, <2>6, Zenon DEF Image, data
<1>4. TypeOK'
  <2>1. /\ record' \in [name : {"stick", "trigger", "vibration", "map", "crc_value"}, profile : Profiles]
        /\ record'.name = "crc_value"
    BY <1>1 DEF Record, Profiles, PROFILES
  <2>2. original' \in Originals /\ keys' \in Assignments \cup {<<>>} /\ chunks' \in Seq(Seq(Byte))
    BY <1>1, <1>2, Zenon DEF TypeOK
  <2>3. plans' \in 0 .. MaxPlans
    BY <1>1, <1>2, PlanAssumption DEF TypeOK
  <2>4. held' \in [0 .. TOTAL - 1 -> Byte \cup {Unknown}]
    <3>1. DOMAIN held = 0 .. TOTAL - 1
      BY <1>2 DEF TypeOK
    <3>. QED BY <1>1, <3>1
  <2>. QED BY <1>1, <1>3, <2>1, <2>2, <2>3, <2>4 DEF TypeOK, TOTAL, ULTIMATE2_SIZE
<1>5. HeldInv'
  BY <1>1 DEF HeldInv
<1>6. RefusedInv'
  BY <1>1, <1>2, Zenon DEF RefusedInv
<1>. QED BY <1>4, <1>5, <1>6 DEF IInv

LEMMA FullChunkKeeps ==
    ASSUME IInv, FullChunk
    PROVE  IInv'
<1>. DEFINE length == ChunkLength(at, TOTAL)
            data == Slice(at, length)
<1>1. /\ pc = "full" /\ Append1(Pro2WriteChunk(at, TOTAL, data, length, SIX))
      /\ at' = at + length /\ pc' = (IF at' < TOTAL THEN "full" ELSE "ready")
      /\ original' = original /\ image' = image /\ record' = record /\ keys' = keys /\ plans' = plans
  BY Zenon DEF FullChunk
<1>2. TypeOK /\ RefusedInv /\ HeldInv
  BY DEF IInv
<1>3. at \in Nat /\ at < TOTAL /\ record.name = "crc_value" /\ image \in Image
  BY <1>1, <1>2 DEF TypeOK
<1>4. TOTAL \in Nat
  BY DEF TOTAL, ULTIMATE2_SIZE
<1>5. length \in Nat /\ length > 0 /\ length <= 45 /\ at + length <= TOTAL
  BY <1>3, <1>4 DEF ChunkLength, Min2, CUSTOM_INFO_CHUNK
<1>. HIDE DEF length
<1>6. /\ data \in Seq(Byte) /\ Len(data) = length
      /\ \A i \in 1 .. length : data[i] = image[at + i - 1]
  BY <1>3, <1>5, SliceBytes, Zenon
<1>. HIDE DEF data
<1>7. Len(data) <= 45
  BY <1>5, <1>6
<1>8. chunks' \in Seq(Seq(Byte)) /\ RefusedInv' /\ held' = Put(held, at, data)
  <2>1. Append1(ChunkOf(at, data))
    BY <1>1, <1>6, Zenon DEF ChunkOf
  <2>. QED BY <1>2, <1>3, <1>6, <1>7, <2>1, AppendedIsRefused, Zenon
<1>9. held \in [0 .. TOTAL - 1 -> Byte \cup {Unknown}] /\ DOMAIN held = 0 .. TOTAL - 1
  BY <1>2 DEF TypeOK
<1>10. held' \in [0 .. TOTAL - 1 -> Byte \cup {Unknown}]
  <2>1. Byte \subseteq Byte \cup {Unknown}
    OBVIOUS
  <2>. QED BY <1>3, <1>6, <1>8, <1>9, <2>1, PutType, Zenon
<1>11. ASSUME NEW i \in 0 .. TOTAL - 1, i < at'
       PROVE  held'[i] = image[i]
  <2>1. held'[i] = IF i \in at .. at + Len(data) - 1 THEN data[i - at + 1] ELSE held[i]
    BY <1>8, <1>9, PutAt, Zenon
  <2>2. CASE i < at
    <3>1. held[i] = image[i]
      BY <1>1, <1>2, <2>2 DEF HeldInv
    <3>2. i \notin at .. at + Len(data) - 1
      BY <1>3, <2>2
    <3>. QED BY <2>1, <3>1, <3>2, Zenon
  <2>3. CASE ~(i < at)
    <3>. DEFINE j == i - at + 1
    <3>1. j \in 1 .. length /\ at + j - 1 = i /\ i \in at .. at + Len(data) - 1
      BY <1>1, <1>3, <1>4, <1>5, <1>6, <1>11, <2>3
    <3>. HIDE DEF j
    <3>2. data[j] = image[i]
      BY <1>6, <3>1, Zenon
    <3>. QED BY <2>1, <3>1, <3>2, Zenon DEF j
  <2>. QED BY <2>2, <2>3
<1>12. TypeOK'
  <2>1. /\ original' \in Originals /\ keys' \in Assignments \cup {<<>>} /\ plans' \in 0 .. MaxPlans
        /\ record' \in [name : {"stick", "trigger", "vibration", "map", "crc_value"}, profile : Profiles]
        /\ record'.name = "crc_value" /\ image' \in Image
    BY <1>1, <1>2, <1>3, Zenon DEF TypeOK
  <2>2. at' \in Nat /\ at' <= TOTAL /\ (pc' = "full" => at' < TOTAL) /\ pc' \in {"ready", "full"}
    BY <1>1, <1>3, <1>5
  <2>. QED BY <1>8, <1>10, <2>1, <2>2 DEF TypeOK
<1>13. HeldInv'
  <2>1. CASE pc' = "full"
    BY <1>1, <1>11, <2>1 DEF HeldInv
  <2>2. CASE pc' # "full"
    <3>1. at' = TOTAL
      BY <1>1, <1>3, <1>4, <1>5, <2>2
    <3>2. \A i \in 0 .. TOTAL - 1 : held'[i] = image[i]
      BY <1>4, <1>11, <3>1
    <3>3. image \in [0 .. TOTAL - 1 -> Byte]
      BY <1>3 DEF Image
    <3>4. held' = [i \in 0 .. TOTAL - 1 |-> held'[i]] /\ image = [i \in 0 .. TOTAL - 1 |-> image[i]]
      BY <1>10, <3>3
    <3>5. [i \in 0 .. TOTAL - 1 |-> held'[i]] = [i \in 0 .. TOTAL - 1 |-> image[i]]
      BY <3>2, Zenon
    <3>6. held' = image
      BY <3>4, <3>5, Zenon
    <3>. QED BY <1>1, <2>2, <3>6 DEF HeldInv
  <2>. QED BY <2>1, <2>2
<1>. QED BY <1>8, <1>12, <1>13 DEF IInv

LEMMA FunctionIsASequence ==
    ASSUME NEW n \in Nat, NEW s \in [1 .. n -> Byte]
    PROVE  s \in Seq(Byte) /\ Len(s) = n
<1>. DEFINE f == [i \in 1 .. n |-> s[i]]
<1>1. f \in Seq(Byte) /\ Len(f) = n
  <2>1. \A i \in 1 .. n : s[i] \in Byte
    OBVIOUS
  <2>. QED BY <2>1
<1>2. s = f
  OBVIOUS
<1>. QED BY <1>1, <1>2, Zenon

\* The records of the planners' fields.
LEMMA QuadIsARecord ==
    ASSUME NEW values \in Quads
    PROVE  Le32(ENABLE_MARK) \o values \in Seq(Byte) /\ Len(Le32(ENABLE_MARK) \o values) <= 45
<1>1. values \in [1 .. 4 -> Byte] /\ 4 \in Nat /\ 4 \in {4, 8}
  BY PlanAssumption
<1>. QED BY <1>1, FunctionIsASequence, FlaggedRecord, Zenon

LEMMA ZoomIsARecord ==
    ASSUME NEW zooms \in Zooms
    PROVE  Le32(ENABLE_MARK) \o zooms \in Seq(Byte) /\ Len(Le32(ENABLE_MARK) \o zooms) <= 45
<1>1. zooms \in [1 .. 8 -> Byte] /\ 8 \in Nat /\ 8 \in {4, 8}
  BY PlanAssumption
<1>. QED BY <1>1, FunctionIsASequence, FlaggedRecord, Zenon

LEMMA NextIInv == IInv /\ [Next]_vars => IInv'
<1>. SUFFICES ASSUME IInv, [Next]_vars PROVE IInv'
  OBVIOUS
<1>3. ASSUME NEW p \in Profiles, NEW values \in Quads, PlanStick(p, values) \/ PlanTrigger(p, values)
      PROVE  IInv'
  <2>. DEFINE data == Le32(ENABLE_MARK) \o values
  <2>2. data \in Seq(Byte) /\ Len(data) <= 45
    BY QuadIsARecord, Zenon
  <2>3. FieldChunk("stick", p, data) \/ FieldChunk("trigger", p, data)
    BY <1>3, Zenon DEF PlanStick, PlanTrigger, TriggerRecord, StickRecord
  <2>. HIDE DEF data
  <2>4. "stick" \in {"stick", "trigger", "vibration"} /\ "trigger" \in {"stick", "trigger", "vibration"}
    OBVIOUS
  <2>. QED BY <2>2, <2>3, <2>4, FieldChunkKeeps, Zenon
<1>4. ASSUME NEW p \in Profiles, NEW zooms \in Zooms, PlanVibration(p, zooms)
      PROVE  IInv'
  <2>. DEFINE data == Le32(ENABLE_MARK) \o zooms
  <2>2. data \in Seq(Byte) /\ Len(data) <= 45
    BY ZoomIsARecord, Zenon
  <2>3. FieldChunk("vibration", p, data)
    BY <1>4, Zenon DEF PlanVibration, VibrationRecord
  <2>. HIDE DEF data
  <2>4. "vibration" \in {"stick", "trigger", "vibration"}
    OBVIOUS
  <2>. QED BY <2>2, <2>3, <2>4, FieldChunkKeeps, Zenon
<1>5. ASSUME NEW p \in Profiles, NEW assignments \in Assignments, PlanMap(p, assignments)
      PROVE  IInv'
  BY <1>5, PlanMapKeeps, Zenon
<1>6. CASE MapKey
  BY <1>6, MapKeyKeeps
<1>7. CASE PlanFull
  BY <1>7, PlanFullKeeps
<1>8. CASE FullChunk
  BY <1>8, FullChunkKeeps
<1>9. CASE Rest \/ UNCHANGED vars
  <2>1. /\ original' = original /\ image' = image /\ chunks' = chunks /\ pc' = pc /\ record' = record
        /\ keys' = keys /\ at' = at /\ plans' = plans /\ held' = held
    BY <1>9, Zenon DEF Rest, vars
  <2>2. TypeOK' /\ HeldInv'
    BY <2>1, Zenon DEF IInv, TypeOK, HeldInv
  <2>3. RefusedInv'
    BY <2>1, Zenon DEF IInv, RefusedInv
  <2>. QED BY <2>2, <2>3 DEF IInv
<1>. QED BY <1>3, <1>4, <1>5, <1>6, <1>7, <1>8, <1>9, Zenon DEF Next

LEMMA SpecIInv == Spec => []IInv
<1>1. IInv /\ [Next]_vars => IInv'
  BY NextIInv
<1>. QED BY <1>1, InitIInv, PTL DEF Spec

-----------------------------------------------------------------------------
(* What follows from it. *)

\* A plan is well typed after any planners, and a full save's offset never
\* goes past the image.
THEOREM PlanTypeOK == Spec => []TypeOK
<1>1. IInv => TypeOK
  BY DEF IInv
<1>. QED BY <1>1, SpecIInv, PTL

\* Whatever image was read, whatever is planned on it and however often, a pad
\* that takes the plan's packets holds the image that is printed and saved.
THEOREM PlanIsHeld == Spec => []PadHoldsThePlan
<1>1. IInv => PadHoldsThePlan
  BY DEF IInv, HeldInv, PadHoldsThePlan
<1>. QED BY <1>1, SpecIInv, PTL

\* No packet of any plan, and no commit, passes the allowlist, armed or not.
THEOREM PlanIsNeverSent == Spec => []PlansAreNeverSent
<1>1. ASSUME IInv PROVE PlansAreNeverSent
  <2>1. Len(chunks) \in Nat
    BY <1>1 DEF IInv, TypeOK
  <2>. SUFFICES ASSUME NEW n \in 1 .. Len(chunks) + 1, NEW armed \in BOOLEAN
                PROVE  ~Allowed(Reports[n], armed)
    BY Zenon DEF PlansAreNeverSent, Reports
  <2>2. Reports[n] = PadReport(IF n <= Len(chunks) THEN chunks[n] ELSE Pro2Commit(FALSE))
    BY Zenon DEF Reports
  <2>3. CASE n <= Len(chunks)
    <3>1. n \in 1 .. Len(chunks)
      BY <2>1, <2>3
    <3>. QED BY <1>1, <2>2, <2>3, <3>1, Zenon DEF IInv, RefusedInv
  <2>4. CASE ~(n <= Len(chunks))
    <3>. DEFINE commit == PadReport(Pro2Commit(FALSE))
    <3>1. commit \in Packet /\ TakesSection(commit, FALSE) /\ RequestOf(commit, FALSE) = PRO2_COMMIT
      BY CommitIsRead, Zenon
    <3>. HIDE DEF commit
    <3>2. ~Allowed(commit, armed)
      BY <3>1, OtherSectionsAreRefused, Zenon
    <3>. QED BY <2>2, <2>4, <3>2, Zenon DEF commit
  <2>. QED BY <2>3, <2>4
<1>. QED BY <1>1, SpecIInv, PTL
-----------------------------------------------------------------------------
(* The struct, and the records the planners write. *)

\* The recursive function of the members' ends exists, and adds them up.
LEMMA EndsAdd ==
    Ends[0] = 0 /\ \A n \in 1 .. 16 : Ends[n] = Ends[n - 1] + Struct[n].size * Struct[n].count
<1>. DEFINE L == Len(Struct)
            grow(n) == Struct[n].size * Struct[n].count
            Body(f, n) == IF n = 0 THEN 0 ELSE f[n - 1] + Struct[n].size * Struct[n].count
            Defines(f) == f = [n \in 0 .. L |-> Body(f, n)]
            g == [n \in 1 .. L |-> [x \in Nat |-> x + grow(n)]]
<1>1. L = 16 /\ \A n \in 1 .. 16 : grow(n) \in Nat
  BY DEF Struct
<1>2. PICK f : IsIteration(f, g, L, Nat, 0)
  <2>1. AreSteps(g, L, Nat)
    <3>. HIDE DEF grow
    <3>1. ASSUME NEW n \in 1 .. L PROVE g[n] \in [Nat -> Nat]
      <4>1. grow(n) \in Nat
        BY <1>1
      <4>. HIDE DEF L
      <4>. QED BY <4>1
    <3>. HIDE DEF g, L
    <3>. QED BY <3>1 DEF AreSteps
  <2>2. L \in Nat /\ 0 \in Nat
    BY <1>1
  <2>. HIDE DEF g, L
  <2>. QED BY <2>1, <2>2, Iterates, Zenon
<1>3. Defines(f)
  <2>. HIDE DEF L, grow
  <2>1. f \in [0 .. L -> Nat] /\ f[0] = 0 /\ \A n \in 1 .. L : f[n] = g[n][f[n - 1]]
    BY <1>2 DEF IsIteration
  <2>2. ASSUME NEW n \in 0 .. L PROVE f[n] = Body(f, n)
    <3>1. CASE n = 0
      BY <2>1, <3>1
    <3>2. CASE n # 0
      <4>1. n \in 1 .. L /\ n - 1 \in 0 .. L
        BY <1>1, <3>2
      <4>2. f[n - 1] \in Nat
        BY <2>1, <4>1
      <4>3. f[n] = f[n - 1] + grow(n)
        BY <2>1, <4>1, <4>2
      <4>. QED BY <3>2, <4>3 DEF grow
    <3>. QED BY <3>1, <3>2
  <2>. HIDE DEF Body
  <2>. QED BY <2>1, <2>2
<1>4. Ends = CHOOSE e : Defines(e)
  BY Zenon DEF Ends
<1>5. Defines(Ends)
  BY <1>3, <1>4, Zenon
<1>6. \A n \in 0 .. L : Ends[n] = Body(Ends, n)
  <2>. HIDE DEF Body
  <2>. QED BY <1>5
<1>7. 0 \in 0 .. L /\ \A n \in 1 .. 16 : n \in 0 .. L /\ n # 0
  BY <1>1
<1>. QED BY <1>6, <1>7, Zenon

\* Where the members begin that the planners write.
LEMMA MemberEnds == Ends[1] = 12 /\ Ends[5] = 116 /\ Ends[6] = 152 /\ Ends[7] = 176 /\ Ends[9] = 224
<1>. DEFINE grow(n) == Struct[n].size * Struct[n].count
<1>1. /\ grow(1) = 12 /\ grow(2) = 4 /\ grow(3) = 2 /\ grow(4) = 2 /\ grow(5) = 96
      /\ grow(6) = 36 /\ grow(7) = 24 /\ grow(8) = 24 /\ grow(9) = 24
  BY DEF Struct
<1>2. \A n \in 1 .. 9 : Ends[n] = Ends[n - 1] + grow(n)
  BY EndsAdd
<1>. HIDE DEF grow
<1>3. Ends[0] = 0 /\ Ends[1] = Ends[0] + grow(1) /\ Ends[2] = Ends[1] + grow(2) /\ Ends[3] = Ends[2] + grow(3)
      /\ Ends[4] = Ends[3] + grow(4) /\ Ends[5] = Ends[4] + grow(5) /\ Ends[6] = Ends[5] + grow(6)
      /\ Ends[7] = Ends[6] + grow(7) /\ Ends[8] = Ends[7] + grow(8) /\ Ends[9] = Ends[8] + grow(9)
  BY <1>2, EndsAdd
<1>. QED BY <1>1, <1>3

\* The records of the planners' fields, of their maps and of crc_value.
LEMMA Members ==
    ASSUME NEW p \in Profiles
    PROVE  /\ \A name \in {"stick", "trigger", "vibration"} : MemberAt(name, p) = FieldAt(name, p)
           /\ MemberAt("map", p) = At(224 + 92 * p, 92)
           /\ MemberAt("crc_value", 0) = At(12, 4)
<1>. DEFINE the(name) == CHOOSE n \in 1 .. Len(Struct) : Struct[n].name = name
<1>1. /\ the("vibration") = 6 /\ the("stick") = 7 /\ the("trigger") = 8 /\ the("map") = 10
      /\ the("crc_value") = 2
  <2>. DEFINE names == <<"name", "crc_value", "gamepad_mode", "cur_slot", "file_name", "vibration",
                         "stick", "trigger", "special", "map", "macro", "x_rumble", "sixaxis",
                         "dynamic", "hotwheel", "single">>
  <2>1. Len(Struct) = 16 /\ \A n \in 1 .. 16 : Struct[n].name = names[n]
    BY DEF Struct
  <2>2. \A n \in 1 .. 16 : /\ names[n] = "vibration" <=> n = 6
                           /\ names[n] = "stick" <=> n = 7
                           /\ names[n] = "trigger" <=> n = 8
                           /\ names[n] = "map" <=> n = 10
                           /\ names[n] = "crc_value" <=> n = 2
    OBVIOUS
  <2>. HIDE DEF names
  <2>3. \A n \in 1 .. 16 : /\ Struct[n].name = "vibration" <=> n = 6
                           /\ Struct[n].name = "stick" <=> n = 7
                           /\ Struct[n].name = "trigger" <=> n = 8
                           /\ Struct[n].name = "map" <=> n = 10
                           /\ Struct[n].name = "crc_value" <=> n = 2
    BY <2>1, <2>2
  <2>. QED BY <2>1, <2>3
<1>2. p \in {0, 1, 2}
  BY DEF Profiles, PROFILES
<1>3. /\ Struct[6].size = 12 /\ Struct[7].size = 8 /\ Struct[8].size = 8 /\ Struct[10].size = 92
      /\ Struct[2].size = 4
  BY DEF Struct
<1>4. \A name, k : MemberAt(name, k) = At(Ends[the(name) - 1] + k * Struct[the(name)].size, Struct[the(name)].size)
  BY Zenon DEF MemberAt
<1>. HIDE DEF the
<1>5. /\ MemberAt("vibration", p) = At(116 + p * 12, 12) /\ MemberAt("stick", p) = At(152 + p * 8, 8)
      /\ MemberAt("trigger", p) = At(176 + p * 8, 8) /\ MemberAt("map", p) = At(224 + p * 92, 92)
      /\ MemberAt("crc_value", 0) = At(12 + 0 * 4, 4)
  <2>1. MemberAt("vibration", p) = At(116 + p * 12, 12)
    BY <1>1, <1>3, <1>4, MemberEnds
  <2>2. MemberAt("stick", p) = At(152 + p * 8, 8)
    BY <1>1, <1>3, <1>4, MemberEnds
  <2>3. MemberAt("trigger", p) = At(176 + p * 8, 8)
    BY <1>1, <1>3, <1>4, MemberEnds
  <2>4. MemberAt("map", p) = At(224 + p * 92, 92)
    BY <1>1, <1>3, <1>4, MemberEnds
  <2>5. MemberAt("crc_value", 0) = At(12 + 0 * 4, 4)
    BY <1>1, <1>3, <1>4, MemberEnds
  <2>. QED BY <2>1, <2>2, <2>3, <2>4, <2>5
<1>6. /\ FieldAt("vibration", p) = At(116 + p * 12, 12) /\ FieldAt("stick", p) = At(152 + p * 8, 8)
      /\ FieldAt("trigger", p) = At(176 + p * 8, 8)
  BY <1>2 DEF FieldAt, FIELDS, Field
<1>7. 224 + p * 92 = 224 + 92 * p /\ 12 + 0 * 4 = 12
  BY <1>2
<1>8. MemberAt("map", p) = At(224 + 92 * p, 92) /\ MemberAt("crc_value", 0) = At(12, 4)
  BY <1>5, <1>7, Zenon
<1>. QED BY <1>5, <1>6, <1>8

\* Bytes put inside a record change no byte outside it.
LEMMA PutInside ==
    ASSUME NEW offset \in Nat, NEW data \in Seq(Byte), image' = Put(image, offset, data),
           NEW from \in Nat, NEW size \in Nat, from <= offset, offset + Len(data) <= from + size,
           MemberAt(record'.name, record'.profile) = At(from, size)
    PROVE  InsideRecord
<1>. SUFFICES ASSUME NEW i \in DOMAIN image, image'[i] # image[i]
              PROVE  i \in from .. from + size - 1
  BY DEF InsideRecord, At
<1>1. i \in offset .. offset + Len(data) - 1
  BY PutAt, Zenon
<1>2. Len(data) \in Nat
  OBVIOUS
<1>. QED BY <1>1, <1>2

\* So every planner changes bytes of its own record alone, in the struct that
\* spec/protocol.md gives.
THEOREM PlanIsInside == Spec => PlansStayInTheirRecord
<1>1. ASSUME NEW name \in {"stick", "trigger", "vibration"}, NEW p \in Profiles, NEW data,
             data \in Seq(Byte), FieldChunk(name, p, data)
      PROVE  InsideRecord
  <2>. DEFINE f == FieldAt(name, p)
  <2>1. /\ image' = Put(image, f.offset, data) /\ Len(data) = f.size
        /\ record' = Record(name, p)
    BY <1>1, Zenon DEF FieldChunk, Write
  <2>2. p \in {0, 1, 2}
    BY DEF Profiles, PROFILES
  <2>3. f.offset \in Nat /\ f.size \in Nat /\ f = At(f.offset, f.size)
    <3>1. CASE name = "stick"
      BY <2>2, <3>1 DEF FieldAt, FIELDS, Field, At
    <3>2. CASE name = "trigger"
      BY <2>2, <3>2 DEF FieldAt, FIELDS, Field, At
    <3>3. CASE name = "vibration"
      BY <2>2, <3>3 DEF FieldAt, FIELDS, Field, At
    <3>. QED BY <3>1, <3>2, <3>3
  <2>4. MemberAt(name, p) = f
    BY Members, Zenon
  <2>5. record'.name = name /\ record'.profile = p
    BY <2>1 DEF Record
  <2>. HIDE DEF f
  <2>6. MemberAt(record'.name, record'.profile) = At(f.offset, f.size)
    BY <2>3, <2>4, <2>5, Zenon
  <2>7. f.offset <= f.offset /\ f.offset + Len(data) <= f.offset + f.size
    BY <2>1, <2>3
  <2>. QED BY <1>1, <2>1, <2>3, <2>6, <2>7, PutInside, Zenon
<1>2. ASSUME NEW p \in Profiles, record'.name = "map", record'.profile = p,
             NEW offset \in Nat, NEW n \in Nat, 224 + 92 * p <= offset, offset + 4 <= 224 + 92 * p + 92,
             image' = Put(image, offset, Le32(n))
      PROVE  InsideRecord
  <2>. DEFINE from == 224 + 92 * p
              data == Le32(n)
  <2>1. from \in Nat /\ 92 \in Nat
    BY DEF Profiles
  <2>2. data \in Seq(Byte) /\ Len(data) = 4
    BY Le32Bytes, Zenon
  <2>3. MemberAt(record'.name, record'.profile) = At(from, 92)
    BY <1>2, Members, ZenonT(30)
  <2>4. from <= offset /\ offset + Len(data) <= from + 92
    BY <1>2, <2>2
  <2>. HIDE DEF from, data
  <2>. QED BY <1>2, <2>1, <2>2, <2>3, <2>4, PutInside, Zenon DEF data
<1>3. ASSUME NEW p \in Profiles, NEW assignments \in Assignments, PlanMap(p, assignments)
      PROVE  InsideRecord
  <2>1. record'.name = "map" /\ record'.profile = p
    BY <1>3 DEF PlanMap, Record
  <2>2. image' = Put(image, MapFlagAt(p).offset, Le32(ENABLE_MARK))
    BY <1>3, Zenon DEF PlanMap, Write
  <2>3. MapFlagAt(p).offset = 224 + 92 * p /\ 224 + 92 * p \in Nat /\ 224 + 92 * p + 4 <= 224 + 92 * p + 92
    BY DEF MapFlagAt, At, MAP_BASE, MAP_PROFILE_STRIDE, Profiles
  <2>4. ENABLE_MARK \in Nat /\ 224 + 92 * p <= 224 + 92 * p
    BY <2>3 DEF ENABLE_MARK
  <2>. QED BY <1>2, <2>1, <2>2, <2>3, <2>4, ZenonT(30)
<1>4. ASSUME IInv, MapKey
      PROVE  InsideRecord
  <2>. DEFINE a == keys[at + 1]
              k == IndexOf(a.button)
              value == MAP_ENTRY_VALUES[a.target]
  <2>1. record.name = "map" /\ record.profile \in Profiles /\ record' = record
        /\ image' = Put(image, ButtonMapAt(record.profile, k).offset, Le32(value))
    BY <1>4, Zenon DEF MapKey, Write, IInv, TypeOK
  <2>2. a.button \in Buttons /\ a.target \in Targets
    <3>1. TypeOK /\ pc = "map"
      BY <1>4, Zenon DEF IInv, MapKey
    <3>. QED BY <3>1, KeyIsAnAssignment, Zenon
  <2>3. k \in 0 .. 21 /\ value \in Nat
    BY <2>2, ButtonsAreIndexed, EntriesAreNumbers, Zenon
  <2>. HIDE DEF k, value
  <2>. DEFINE p == record.profile
              offset == ButtonMapAt(p, k).offset
  <2>4. offset = 228 + p * 92 + k * 4
    BY DEF ButtonMapAt, At, MAP_BASE, MAP_PROFILE_STRIDE, MAP_ENTRY
  <2>5. p \in Nat
    BY <2>1 DEF Profiles
  <2>6. record'.name = "map" /\ record'.profile = p
    BY <2>1
  <2>. HIDE DEF p, offset
  <2>7. offset \in Nat /\ 224 + 92 * p <= offset /\ offset + 4 <= 224 + 92 * p + 92
    BY <2>3, <2>4, <2>5
  <2>8. image' = Put(image, offset, Le32(value)) /\ p \in Profiles
    BY <2>1, Zenon DEF offset, p
  <2>. QED BY <1>2, <2>3, <2>6, <2>7, <2>8, Zenon
<1>5. ASSUME IInv, PlanFull
      PROVE  InsideRecord
  <2>. DEFINE crc == crc16_modbus(Slice(0, TOTAL))
              data == Le32(crc)
  <2>1. image' = Put(image, 12, data) /\ record' = Record("crc_value", 0)
    BY <1>5, Zenon DEF PlanFull
  <2>2. crc \in Nat
    <3>1. 0 \in Nat /\ TOTAL \in Nat /\ 0 + TOTAL <= TOTAL
      BY DEF TOTAL, ULTIMATE2_SIZE
    <3>2. image \in Image
      BY <1>5 DEF IInv, TypeOK
    <3>3. Slice(0, TOTAL) \in Seq(Byte)
      BY <3>1, <3>2, SliceBytes, Zenon
    <3>. QED BY <3>3, HalfIsNat, CrcIsAWord, Zenon
  <2>. HIDE DEF crc
  <2>3. data \in Seq(Byte) /\ Len(data) = 4
    BY <2>2, Le32Bytes, Zenon
  <2>. HIDE DEF data
  <2>4. 0 \in Profiles
    BY DEF Profiles, PROFILES
  <2>5. record'.name = "crc_value" /\ record'.profile = 0
    BY <2>1 DEF Record
  <2>6. MemberAt(record'.name, record'.profile) = At(12, 4)
    BY <2>4, <2>5, Members, Zenon
  <2>7. 12 \in Nat /\ 4 \in Nat /\ 12 <= 12 /\ 12 + Len(data) <= 12 + 4
    BY <2>3
  <2>. QED BY <2>1, <2>3, <2>6, <2>7, PutInside, Zenon
<1>6. ASSUME image' = image
      PROVE  InsideRecord
  BY <1>6 DEF InsideRecord
<1>7. ASSUME IInv, [Next]_vars
      PROVE  [InsideRecord]_vars
  <2>1. ASSUME NEW p \in Profiles, NEW values \in Quads, PlanStick(p, values) \/ PlanTrigger(p, values)
        PROVE  InsideRecord
    <3>. DEFINE data == Le32(ENABLE_MARK) \o values
    <3>1. data \in Seq(Byte)
      BY QuadIsARecord, Zenon
    <3>2. FieldChunk("stick", p, data) \/ FieldChunk("trigger", p, data)
      BY <2>1, Zenon DEF PlanStick, PlanTrigger, TriggerRecord, StickRecord
    <3>. HIDE DEF data
    <3>. QED BY <1>1, <3>1, <3>2
  <2>2. ASSUME NEW p \in Profiles, NEW zooms \in Zooms, PlanVibration(p, zooms)
        PROVE  InsideRecord
    <3>. DEFINE data == Le32(ENABLE_MARK) \o zooms
    <3>1. data \in Seq(Byte)
      BY ZoomIsARecord, Zenon
    <3>2. FieldChunk("vibration", p, data)
      BY <2>2, Zenon DEF PlanVibration, VibrationRecord
    <3>. HIDE DEF data
    <3>. QED BY <1>1, <3>1, <3>2
  <2>3. ASSUME FullChunk \/ Rest \/ UNCHANGED vars
        PROVE  InsideRecord
    <3>1. image' = image
      BY <2>3, Zenon DEF FullChunk, Rest, vars
    <3>. QED BY <1>6, <3>1
  <2>4. InsideRecord
    <3>1. CASE MapKey
      BY <1>4, <1>7, <3>1
    <3>2. CASE PlanFull
      BY <1>5, <1>7, <3>2
    <3>3. ASSUME NEW p \in Profiles,
                 \/ \E values \in Quads : PlanStick(p, values) \/ PlanTrigger(p, values)
                 \/ \E zooms \in Zooms : PlanVibration(p, zooms)
                 \/ \E assignments \in Assignments : PlanMap(p, assignments)
          PROVE  InsideRecord
      <4>1. CASE \E values \in Quads : PlanStick(p, values) \/ PlanTrigger(p, values)
        BY <2>1, <4>1, Zenon
      <4>2. CASE \E zooms \in Zooms : PlanVibration(p, zooms)
        BY <2>2, <4>2, Zenon
      <4>3. CASE \E assignments \in Assignments : PlanMap(p, assignments)
        BY <1>3, <4>3, Zenon
      <4>. QED BY <3>3, <4>1, <4>2, <4>3, Zenon
    <3>. QED BY <1>7, <2>3, <3>1, <3>2, <3>3, Zenon DEF Next
  <2>. QED BY <2>4
<1>. QED BY <1>7, SpecIInv, PTL DEF Spec, PlansStayInTheirRecord
-----------------------------------------------------------------------------
(* What u2_summary.py reads back of a planned map. *)

\* The numbers of a signed dword that are not negative; and four bytes as one.
Signed == 2147483648
Weighed(d) == d[1] + 256 * d[2] + 65536 * d[3] + 16777216 * d[4]

\* The four bytes of a number below 2^31, and the dword they are read back as.
LEMMA Le32Reads ==
    ASSUME NEW n \in Nat, n < Signed, NEW d, d = Le32(n)
    PROVE  /\ d[1] \in Byte /\ d[2] \in Byte /\ d[3] \in Byte /\ d[4] \in 0 .. 127
           /\ Weighed(d) = n
<1>. DEFINE m == n % 65536
            k == n \div 65536
            low == Le16(m)
            high == Le16(k)
<1>1. m \in Nat /\ m < 65536 /\ k \in Nat /\ n = m + 65536 * k
  <2>1. m \in Nat /\ m < 65536
    BY SMT
  <2>2. k \in Nat
    BY SMT
  <2>3. n = m + 65536 * k
    BY Z3
  <2>. QED BY <2>1, <2>2, <2>3
<1>2. k < 32768
  BY <1>1 DEF Signed
<1>3. d = low \o high
  BY DEF Le32
<1>. HIDE DEF m, k
<1>4. m \in Half /\ k \in Half
  BY <1>1, <1>2 DEF Half
<1>5. m \in Nat /\ k \in Nat
  BY <1>1
<1>6. /\ low \in Seq(Byte) /\ Len(low) = 2 /\ low[1] + 256 * low[2] = m
      /\ high \in Seq(Byte) /\ Len(high) = 2 /\ high[1] + 256 * high[2] = k
  BY <1>4, <1>5, Le16Bytes
<1>. HIDE DEF low, high
<1>7. /\ \A i \in 1 .. Len(low) : d[i] = low[i]
      /\ \A i \in 1 .. Len(high) : d[Len(low) + i] = high[i]
  <2>1. /\ \A i \in 1 .. Len(low) : (low \o high)[i] = low[i]
        /\ \A i \in 1 .. Len(high) : (low \o high)[Len(low) + i] = high[i]
    BY <1>6, ConcatBytes
  <2>. QED BY <1>3, <2>1
<1>8. d[1] = low[1] /\ d[2] = low[2] /\ d[3] = high[1] /\ d[4] = high[2]
  BY <1>6, <1>7
<1>9. low[1] \in Byte /\ low[2] \in Byte /\ high[1] \in Byte /\ high[2] \in Byte
  BY <1>6
<1>10. Weighed(d) = n /\ high[2] \in 0 .. 127
  <2>. DEFINE a == low[1]
              b == low[2]
              e == high[1]
              f == high[2]
  <2>1. a \in 0 .. 255 /\ b \in 0 .. 255 /\ e \in 0 .. 255 /\ f \in 0 .. 255
    BY <1>9 DEF Byte
  <2>2. a + 256 * b = m /\ e + 256 * f = k
    BY <1>6
  <2>3. Weighed(d) = a + 256 * b + 65536 * e + 16777216 * f
    BY <1>8 DEF Weighed
  <2>. HIDE DEF a, b, e, f
  <2>4. f \in 0 .. 127
    BY <1>2, <2>1, <2>2
  <2>5. a + 256 * b + 65536 * e + 16777216 * f = n
    BY <1>1, <2>1, <2>2
  <2>6. Weighed(d) = n
    BY <2>3, <2>5
  <2>. QED BY <2>4, <2>6 DEF f
<1>. QED BY <1>8, <1>9, <1>10

\* Putting a number's four bytes at an offset makes it the dword there, and
\* leaves every dword that lies apart from it.
LEMMA DwordPut ==
    ASSUME NEW bytes \in Image, NEW offset \in Nat, offset + 4 <= TOTAL,
           NEW n \in Nat, n < Signed
    PROVE  /\ Dword(Put(bytes, offset, Le32(n)), offset) = n
           /\ \A o \in Nat : (o + 4 <= TOTAL /\ (o + 4 <= offset \/ offset + 4 <= o)) =>
                Dword(Put(bytes, offset, Le32(n)), o) = Dword(bytes, o)
<1>. DEFINE d == Le32(n)
            after == Put(bytes, offset, d)
<1>1. Len(d) = 4
  BY Le32Bytes, Zenon
<1>2. /\ d[1] \in Byte /\ d[2] \in Byte /\ d[3] \in Byte /\ d[4] \in 0 .. 127
      /\ Weighed(d) = n
  BY Le32Reads, Zenon
<1>. HIDE DEF d
<1>3. \A i \in 0 .. TOTAL - 1 :
         after[i] = IF i \in offset .. offset + 3 THEN d[i - offset + 1] ELSE bytes[i]
  <2>1. DOMAIN bytes = 0 .. TOTAL - 1
    BY DEF Image
  <2>2. offset + Len(d) - 1 = offset + 3
    BY <1>1
  <2>3. ASSUME NEW i \in 0 .. TOTAL - 1
        PROVE  after[i] = IF i \in offset .. offset + Len(d) - 1 THEN d[i - offset + 1] ELSE bytes[i]
    BY <2>1, PutAt, Zenon
  <2>. QED BY <2>2, <2>3, Zenon
<1>. HIDE DEF after
<1>4. TOTAL \in Nat
  BY DEF TOTAL, ULTIMATE2_SIZE
<1>5. /\ after[offset] = d[1] /\ after[offset + 1] = d[2]
      /\ after[offset + 2] = d[3] /\ after[offset + 3] = d[4]
  <2>1. ASSUME NEW j \in 0 .. 3 PROVE after[offset + j] = d[j + 1]
    <3>1. offset + j \in 0 .. TOTAL - 1 /\ offset + j \in offset .. offset + 3 /\ offset + j - offset + 1 = j + 1
      BY <1>4
    <3>2. after[offset + j] = d[offset + j - offset + 1]
      BY <1>3, <3>1
    <3>. QED BY <3>1, <3>2
  <2>. QED BY <2>1
<1>6. Dword(after, offset) = n
  <2>. DEFINE e == ((d[4] + 128) % 256) - 128
  <2>1. e = d[4]
    BY <1>2, Z3
  <2>2. Dword(after, offset) = d[1] + 256 * d[2] + 65536 * d[3] + 16777216 * e
    BY <1>5, Z3 DEF Dword
  <2>. HIDE DEF e
  <2>. QED BY <1>2, <2>1, <2>2 DEF Weighed
<1>7. ASSUME NEW o \in Nat, o + 4 <= TOTAL, o + 4 <= offset \/ offset + 4 <= o
      PROVE  Dword(after, o) = Dword(bytes, o)
  <2>1. ASSUME NEW j \in 0 .. 3 PROVE after[o + j] = bytes[o + j]
    <3>1. o + j \in 0 .. TOTAL - 1 /\ ~(o + j \in offset .. offset + 3)
      BY <1>4, <1>7
    <3>. QED BY <1>3, <3>1, Zenon
  <2>2. after[o] = bytes[o] /\ after[o + 1] = bytes[o + 1] /\ after[o + 2] = bytes[o + 2] /\ after[o + 3] = bytes[o + 3]
    BY <2>1
  <2>. QED BY <2>2, Z3 DEF Dword
<1>. QED BY <1>6, <1>7, Zenon DEF after, d

\* Each button of a profile has an entry of its own, and so has its flag.
LEMMA EntriesLieApart ==
    ASSUME NEW p \in Profiles, NEW q \in Profiles, NEW i \in 0 .. 21, NEW j \in 0 .. 21
    PROVE  /\ ButtonMapAt(p, i).offset \in Nat /\ ButtonMapAt(p, i).offset + 4 <= TOTAL
           /\ MapFlagAt(p).offset \in Nat /\ MapFlagAt(p).offset + 4 <= TOTAL
           /\ \/ MapFlagAt(p).offset + 4 <= ButtonMapAt(q, j).offset
              \/ ButtonMapAt(q, j).offset + 4 <= MapFlagAt(p).offset
           /\ ~(p = q /\ i = j) =>
                \/ ButtonMapAt(p, i).offset + 4 <= ButtonMapAt(q, j).offset
                \/ ButtonMapAt(q, j).offset + 4 <= ButtonMapAt(p, i).offset
BY DEF ButtonMapAt, MapFlagAt, At, MAP_BASE, MAP_PROFILE_STRIDE, MAP_ENTRY, Profiles, PROFILES, TOTAL, ULTIMATE2_SIZE

\* The values of the table are small, and all but two of its names have one of
\* their own.
LEMMA EntriesAreSmall ==
    ASSUME NEW t \in Targets
    PROVE  MAP_ENTRY_VALUES[t] \in Nat /\ MAP_ENTRY_VALUES[t] < Signed /\ MAP_ENTRY_VALUES[t] # 255
BY SMTT(100) DEF Targets, MAP_ENTRY_VALUES, Signed

LEMMA EntriesDiffer ==
    ASSUME NEW t \in Targets \ {"HitBox_LS_Up"}, NEW u \in Targets \ {"HitBox_LS_Up"},
           MAP_ENTRY_VALUES[t] = MAP_ENTRY_VALUES[u]
    PROVE  t = u
BY SMTT(100) DEF Targets, MAP_ENTRY_VALUES

LEMMA TwoShareAnEntry ==
    /\ "P5" \in Targets \ {"HitBox_LS_Up"} /\ "HitBox_LS_Up" \in Targets
    /\ MAP_ENTRY_VALUES["HitBox_LS_Up"] = MAP_ENTRY_VALUES["P5"]
BY DEF Targets, MAP_ENTRY_VALUES

\* So an entry's value is read back as one name, which has that value.
LEMMA EntryIsNamed ==
    ASSUME NEW t \in Targets
    PROVE  \E u \in Targets : /\ EntryNames(MAP_ENTRY_VALUES[t]) = {u}
                              /\ MAP_ENTRY_VALUES[u] = MAP_ENTRY_VALUES[t]
<1>. DEFINE V == MAP_ENTRY_VALUES
            named(value) == {u \in Targets \ {"HitBox_LS_Up"} : V[u] = value}
<1>1. ASSUME NEW u \in Targets \ {"HitBox_LS_Up"} PROVE EntryNames(V[u]) = {u}
  <2>1. V[u] # 255
    BY EntriesAreSmall
  <2>2. named(V[u]) = {u}
    BY EntriesDiffer, Zenon
  <2>3. EntryNames(V[u]) = named(V[u])
    <3>1. named(V[u]) # {}
      BY <2>2, Zenon
    <3>. QED BY <2>1, <3>1, Zenon DEF EntryNames, MAP_ENTRY_MISSING
  <2>. QED BY <2>2, <2>3, Zenon
<1>. HIDE DEF V
<1>2. CASE t # "HitBox_LS_Up"
  BY <1>1, <1>2, Zenon DEF V
<1>3. CASE t = "HitBox_LS_Up"
  BY <1>1, <1>3, TwoShareAnEntry, Zenon DEF V
<1>. QED BY <1>2, <1>3

\* A button whose entry holds its target's value is shown with that target.
LEMMA HeldIsShown ==
    ASSUME NEW im, NEW p, NEW a, a.button \in Buttons, a.target \in Targets,
           Dword(im, ButtonMapAt(p, IndexOf(a.button)).offset) = MAP_ENTRY_VALUES[a.target]
    PROVE  ShownAs(MapLine(im, p), a)
<1>. DEFINE b == a.button
            line == MapLine(im, p)
            own == b \in Targets /\ MAP_ENTRY_VALUES[a.target] = MAP_ENTRY_VALUES[b]
<1>1. b \in Remapped(im, p) <=> ~own
  BY Zenon DEF Remapped
<1>2. DOMAIN line = Remapped(im, p)
  BY Zenon DEF MapLine
<1>3. b \in Remapped(im, p) => line[b] = EntryNames(MAP_ENTRY_VALUES[a.target])
  BY Zenon DEF MapLine
<1>4. PICK u \in Targets : /\ EntryNames(MAP_ENTRY_VALUES[a.target]) = {u}
                           /\ MAP_ENTRY_VALUES[u] = MAP_ENTRY_VALUES[a.target]
  BY EntryIsNamed, Zenon
<1>. QED BY <1>1, <1>2, <1>3, <1>4, Zenon DEF ShownAs

\* Buttons have different places in the list of names.
LEMMA PlaceTellsTheButton ==
    ASSUME NEW b \in Buttons, NEW c \in Buttons, IndexOf(b) = IndexOf(c)
    PROVE  b = c
<1>1. ASSUME NEW d \in Buttons PROVE MAP_KEY_NAMES[IndexOf(d) + 1] = d
  <2>1. PICK i \in 1 .. Len(MAP_KEY_NAMES) : MAP_KEY_NAMES[i] = d
    BY Zenon DEF Buttons
  <2>. DEFINE k == CHOOSE n \in 1 .. Len(MAP_KEY_NAMES) : MAP_KEY_NAMES[n] = d
  <2>2. Len(MAP_KEY_NAMES) = 22
    BY DEF MAP_KEY_NAMES
  <2>3. k \in 1 .. Len(MAP_KEY_NAMES) /\ MAP_KEY_NAMES[k] = d
    BY <2>1, Zenon
  <2>4. IndexOf(d) = k - 1
    BY DEF IndexOf
  <2>. HIDE DEF k
  <2>5. IndexOf(d) + 1 = k
    BY <2>2, <2>3, <2>4
  <2>. QED BY <2>3, <2>5
<1>. QED BY <1>1, Zenon

-----------------------------------------------------------------------------
(* plan_map, key by key. *)

\* The entry of a button holds the value of a target.
EntryHolds(im, p, a) ==
    Dword(im, ButtonMapAt(p, IndexOf(a.button)).offset) = MAP_ENTRY_VALUES[a.target]

\* Within plan_map the profile is enabled, and the keys done hold their targets.
MapInv == pc = "map" => /\ MapEnabled(image, record.profile)
                        /\ \A n \in 1 .. at : EntryHolds(image, record.profile, keys[n])

LEMMA FlagEnables ==
    ASSUME NEW p \in Profiles, NEW im
    PROVE  MapEnabled(im, p) <=> Dword(im, MapFlagAt(p).offset) = ENABLE_MARK
<1>1. MAP_BASE + p * MAP_PROFILE_STRIDE - 4 = MapFlagAt(p).offset
  BY DEF MapFlagAt, At, MAP_BASE, MAP_PROFILE_STRIDE, Profiles
<1>. QED BY <1>1, Zenon DEF MapEnabled

\* A key's step: its entry takes its target, and the flag and every other
\* entry of every profile stay what they were.
LEMMA MapKeySets ==
    ASSUME IInv, MapKey
    PROVE  /\ record.profile \in Profiles
           /\ EntryHolds(image', record.profile, keys[at + 1])
           /\ MapEnabled(image, record.profile) => MapEnabled(image', record.profile)
           /\ \A q \in Profiles, b \in Buttons :
                 \/ q = record.profile /\ b = keys[at + 1].button
                 \/ Dword(image', ButtonMapAt(q, IndexOf(b)).offset)
                      = Dword(image, ButtonMapAt(q, IndexOf(b)).offset)
<1>. DEFINE a == keys[at + 1]
            p == record.profile
            k == IndexOf(a.button)
            entry == ButtonMapAt(p, k).offset
            value == MAP_ENTRY_VALUES[a.target]
<1>1. image' = Put(image, entry, Le32(value))
  BY Zenon DEF MapKey, Write
<1>2. p \in Profiles /\ image \in Image
  BY Zenon DEF MapKey, IInv, TypeOK
<1>3. a.button \in Buttons /\ a.target \in Targets
  <2>1. TypeOK /\ pc = "map"
    BY Zenon DEF IInv, MapKey
  <2>. QED BY <2>1, KeyIsAnAssignment, Zenon
<1>4. k \in 0 .. 21 /\ value \in Nat /\ value < Signed
  BY <1>3, ButtonsAreIndexed, EntriesAreSmall
<1>. HIDE DEF a, p, k, entry, value
<1>5. entry \in Nat /\ entry + 4 <= TOTAL
  BY <1>2, <1>4, EntriesLieApart, Zenon DEF entry
<1>6. /\ Dword(image', entry) = value
      /\ \A o \in Nat : (o + 4 <= TOTAL /\ (o + 4 <= entry \/ entry + 4 <= o)) =>
            Dword(image', o) = Dword(image, o)
  <2>. DEFINE after == Put(image, entry, Le32(value))
  <2>1. Dword(after, entry) = value
    BY <1>2, <1>4, <1>5, DwordPut, Zenon
  <2>2. \A o \in Nat : (o + 4 <= TOTAL /\ (o + 4 <= entry \/ entry + 4 <= o)) =>
              Dword(after, o) = Dword(image, o)
    BY <1>2, <1>4, <1>5, DwordPut, Z3
  <2>3. image' = after
    BY <1>1
  <2>. HIDE DEF after
  <2>. QED BY <2>1, <2>2, <2>3, Zenon
<1>7. EntryHolds(image', p, a)
  BY <1>6, Zenon DEF EntryHolds, entry, k, value
<1>8. ASSUME MapEnabled(image, p) PROVE MapEnabled(image', p)
  <2>. DEFINE flag == MapFlagAt(p).offset
  <2>1. flag \in Nat /\ flag + 4 <= TOTAL /\ (flag + 4 <= entry \/ entry + 4 <= flag)
    BY <1>2, <1>4, EntriesLieApart, Zenon DEF entry
  <2>2. Dword(image', flag) = Dword(image, flag)
    BY <1>6, <2>1, Zenon
  <2>. HIDE DEF flag
  <2>. QED BY <1>2, <1>8, <2>2, FlagEnables, Zenon DEF flag
<1>9. ASSUME NEW q \in Profiles, NEW b \in Buttons, ~(q = p /\ b = a.button)
      PROVE  Dword(image', ButtonMapAt(q, IndexOf(b)).offset) = Dword(image, ButtonMapAt(q, IndexOf(b)).offset)
  <2>. DEFINE j == IndexOf(b)
              o == ButtonMapAt(q, j).offset
  <2>1. j \in 0 .. 21
    BY ButtonsAreIndexed, Zenon
  <2>2. ~(q = p /\ j = k)
    BY <1>3, <1>9, PlaceTellsTheButton, Zenon DEF k
  <2>. HIDE DEF j
  <2>3. o \in Nat /\ o + 4 <= TOTAL /\ (o + 4 <= entry \/ entry + 4 <= o)
    BY <1>2, <1>4, <2>1, <2>2, EntriesLieApart, Zenon DEF entry
  <2>. HIDE DEF o
  <2>4. Dword(image', o) = Dword(image, o)
    BY <1>6, <2>3, Zenon
  <2>. QED BY <2>4, Zenon DEF o, j
<1>. QED BY <1>2, <1>7, <1>8, <1>9, Zenon DEF a, p

\* The keys done before hold their targets after a key's step too.
LEMMA MapKeyDone ==
    ASSUME IInv, MapInv, MapKey
    PROVE  /\ record' = record /\ keys' = keys /\ at' = at + 1
           /\ MapEnabled(image', record.profile)
           /\ \A n \in 1 .. at + 1 : EntryHolds(image', record.profile, keys[n])
<1>1. /\ TypeOK /\ pc = "map" /\ record' = record /\ keys' = keys /\ at' = at + 1
      /\ MapEnabled(image, record.profile)
      /\ \A n \in 1 .. at : EntryHolds(image, record.profile, keys[n])
  BY Zenon DEF MapKey, IInv, MapInv
<1>2. /\ record.profile \in Profiles
      /\ EntryHolds(image', record.profile, keys[at + 1]) /\ MapEnabled(image', record.profile)
      /\ \A b \in Buttons :
            \/ b = keys[at + 1].button
            \/ Dword(image', ButtonMapAt(record.profile, IndexOf(b)).offset)
                 = Dword(image, ButtonMapAt(record.profile, IndexOf(b)).offset)
  BY <1>1, MapKeySets, Zenon
<1>3. /\ Len(keys) \in Nat /\ at + 1 \in 1 .. Len(keys) /\ keys \in Assignments
      /\ \A n \in 1 .. Len(keys) : keys[n].button \in Buttons
  BY <1>1, KeyIsAnAssignment, Zenon
<1>4. at \in Nat
  BY <1>1 DEF TypeOK
<1>5. ASSUME NEW n \in 1 .. at PROVE EntryHolds(image', record.profile, keys[n])
  <2>1. n \in 1 .. Len(keys) /\ n # at + 1
    BY <1>3, <1>4
  <2>2. DOMAIN keys = 1 .. Len(keys)
    <3>1. keys \in Seq([button : Buttons, target : Targets])
      BY <1>3, PlanAssumption, Zenon
    <3>. QED BY <3>1
  <2>3. keys[n].button # keys[at + 1].button
    BY <1>3, <2>1, <2>2, PlanAssumption, Zenon
  <2>4. keys[n].button \in Buttons
    BY <1>3, <2>1, Zenon
  <2>5. EntryHolds(image, record.profile, keys[n])
    BY <1>1, Zenon
  <2>. QED BY <1>2, <2>3, <2>4, <2>5, Zenon DEF EntryHolds
<1>6. \A n \in 1 .. at + 1 : n \in 1 .. at \/ n = at + 1
  BY <1>4
<1>. QED BY <1>1, <1>2, <1>5, <1>6, Zenon

LEMMA SpecMapInv == Spec => []MapInv
<1>1. Init => MapInv
  BY DEF Init, MapInv
<1>2. ASSUME IInv, MapInv, [Next]_vars PROVE MapInv'
  <2>1. CASE MapKey
    BY <1>2, <2>1, MapKeyDone, Zenon DEF MapInv
  <2>2. ASSUME NEW p \in Profiles, NEW assignments \in Assignments, PlanMap(p, assignments)
        PROVE  MapInv'
    <3>. DEFINE flag == MapFlagAt(p).offset
    <3>1. image' = Put(image, flag, Le32(ENABLE_MARK)) /\ record' = Record("map", p) /\ at' = 0
      BY <2>2, Zenon DEF PlanMap, Write
    <3>2. flag \in Nat /\ flag + 4 <= TOTAL /\ image \in Image
      <4>1. 0 \in 0 .. 21
        OBVIOUS
      <4>2. image \in Image
        BY <1>2, Zenon DEF IInv, TypeOK
      <4>. QED BY <4>1, <4>2, EntriesLieApart, Zenon
    <3>3. ENABLE_MARK \in Nat /\ ENABLE_MARK < Signed
      BY DEF ENABLE_MARK, Signed
    <3>. HIDE DEF flag
    <3>4. Dword(image', flag) = ENABLE_MARK
      BY <3>1, <3>2, <3>3, DwordPut, Zenon
    <3>5. record'.profile = p
      BY <3>1 DEF Record
    <3>6. MapEnabled(image', record'.profile)
      BY <3>4, <3>5, FlagEnables, Zenon DEF flag
    <3>7. \A n \in 1 .. at' : FALSE
      BY <3>1
    <3>. QED BY <3>6, <3>7, Zenon DEF MapInv
  <2>3. ASSUME pc' # "map" PROVE MapInv'
    BY <2>3 DEF MapInv
  <2>4. CASE UNCHANGED vars
    BY <1>2, <2>4, Zenon DEF vars, MapInv, EntryHolds, MapEnabled
  <2>5. ASSUME NEW p \in Profiles, NEW values \in Quads, PlanStick(p, values) \/ PlanTrigger(p, values)
        PROVE  pc' # "map"
    BY <2>5 DEF PlanStick, PlanTrigger, FieldChunk, Begin
  <2>6. ASSUME NEW p \in Profiles, NEW zooms \in Zooms, PlanVibration(p, zooms)
        PROVE  pc' # "map"
    BY <2>6 DEF PlanVibration, FieldChunk, Begin
  <2>7. ASSUME PlanFull \/ FullChunk \/ Rest PROVE pc' # "map"
    BY <2>7 DEF PlanFull, FullChunk, Rest, vars
  <2>. QED BY <1>2, <2>1, <2>2, <2>3, <2>4, <2>5, <2>6, <2>7, Zenon DEF Next
<1>. QED BY <1>1, <1>2, SpecIInv, PTL DEF Spec

\* So what the summary says of an image that plan_map is done with is the map
\* that was asked for, and no key's step changes how another is shown.
THEOREM PlanShowsTheMap == Spec => SummaryShowsTheMap
<1>1. ASSUME IInv, MapInv, MapKey PROVE MapIsShown
  <2>. SUFFICES ASSUME pc = "map", pc' = "ready"
                PROVE  /\ MapEnabled(image', record'.profile)
                       /\ \A n \in DOMAIN keys : ShownAs(MapLine(image', record'.profile), keys[n])
    BY DEF MapIsShown
  <2>1. /\ record' = record /\ keys' = keys /\ at' = at + 1
        /\ MapEnabled(image', record.profile)
        /\ \A n \in 1 .. at + 1 : EntryHolds(image', record.profile, keys[n])
    BY <1>1, MapKeyDone, Zenon
  <2>2. at' = Len(keys)
    <3>1. pc' = (IF at' = Len(keys) THEN "ready" ELSE "map")
      BY <1>1 DEF MapKey
    <3>. QED BY <3>1
  <2>3. /\ keys \in Assignments /\ \A n \in 1 .. Len(keys) : keys[n].button \in Buttons /\ keys[n].target \in Targets
    BY <1>1, KeyIsAnAssignment, Zenon DEF IInv
  <2>4. DOMAIN keys = 1 .. Len(keys)
    <3>1. keys \in Seq([button : Buttons, target : Targets])
      BY <2>3, PlanAssumption, Zenon
    <3>. QED BY <3>1
  <2>5. ASSUME NEW n \in 1 .. Len(keys)
        PROVE  ShownAs(MapLine(image', record.profile), keys[n])
    <3>1. EntryHolds(image', record.profile, keys[n])
      BY <2>1, <2>2, Zenon
    <3>. QED BY <2>3, <3>1, HeldIsShown, Zenon DEF EntryHolds
  <2>. QED BY <2>1, <2>4, <2>5, Zenon
<1>2. ASSUME NEW im, NEW other, NEW p \in Profiles, NEW b \in Buttons,
             Dword(other, ButtonMapAt(p, IndexOf(b)).offset) = Dword(im, ButtonMapAt(p, IndexOf(b)).offset)
      PROVE  IF b \in DOMAIN MapLine(im, p)
             THEN b \in DOMAIN MapLine(other, p) /\ MapLine(other, p)[b] = MapLine(im, p)[b]
             ELSE b \notin DOMAIN MapLine(other, p)
  <2>1. b \in Remapped(other, p) <=> b \in Remapped(im, p)
    BY <1>2, Zenon DEF Remapped
  <2>2. DOMAIN MapLine(im, p) = Remapped(im, p) /\ DOMAIN MapLine(other, p) = Remapped(other, p)
    BY Zenon DEF MapLine
  <2>3. /\ b \in Remapped(im, p) => MapLine(im, p)[b] = EntryNames(Dword(im, ButtonMapAt(p, IndexOf(b)).offset))
        /\ b \in Remapped(other, p) => MapLine(other, p)[b] = EntryNames(Dword(other, ButtonMapAt(p, IndexOf(b)).offset))
    BY Zenon DEF MapLine
  <2>. QED BY <1>2, <2>1, <2>2, <2>3, Zenon
<1>3. ASSUME IInv, MapKey PROVE OthersAreShownAsBefore
  <2>1. \A q \in Profiles, b \in Buttons :
           \/ q = record.profile /\ b = keys[at + 1].button
           \/ Dword(image', ButtonMapAt(q, IndexOf(b)).offset) = Dword(image, ButtonMapAt(q, IndexOf(b)).offset)
    BY <1>3, MapKeySets, Zenon
  <2>. QED BY <1>2, <2>1, Zenon DEF OthersAreShownAsBefore
<1>4. ASSUME pc # "map" PROVE MapIsShown /\ OthersAreShownAsBefore
  BY <1>4, Zenon DEF MapIsShown, OthersAreShownAsBefore
<1>5. ASSUME IInv, [Next]_vars, pc = "map" PROVE MapKey \/ UNCHANGED vars
  BY <1>5 DEF Next, PlanStick, PlanTrigger, PlanVibration, FieldChunk, PlanMap, PlanFull, FullChunk,
     Rest, Begin
<1>6. ASSUME IInv, MapInv, [Next]_vars
      PROVE  [MapIsShown /\ OthersAreShownAsBefore]_vars
  BY <1>1, <1>3, <1>4, <1>5, <1>6, Zenon
<1>. QED BY <1>6, SpecIInv, SpecMapInv, PTL DEF Spec, SummaryShowsTheMap
=============================================================================
