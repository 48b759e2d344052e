---------------------------- MODULE PacketProofs ----------------------------
(***************************************************************************)
(* The allowlist over every 64-byte report and the checksum over every     *)
(* data, which no run can enumerate.                                       *)
(***************************************************************************)
EXTENDS Packets, Iteration, TLAPS

\* The first bytes of a report that starts with an allowed prefix.
LEMMA PrefixBytes ==
    ASSUME NEW p \in Packet, NEW prefix \in ALLOWED_PREFIXES, StartsWith(p, prefix)
    PROVE  \/ p[1] = 5 /\ p[2] = 0 /\ p[3] = 33 /\ p[4] = 1
           \/ p[1] = 5 /\ p[2] = 193 /\ p[3] = 0 /\ p[4] = 0 /\ p[5] = 0
           \/ p[1] = 5 /\ p[2] = 195
           \/ p[1] = 5 /\ p[2] = 0 /\ p[3] = 49 /\ p[4] = 1
           \/ p[1] = 0 /\ p[2] = 102 /\ p[3] = 170 /\ p[4] = 99
           \/ p[1] = 5 /\ p[2] = 8
<1>1. CASE prefix = IDENTIFY_GET_PID
  BY <1>1 DEF StartsWith, IDENTIFY_GET_PID
<1>2. CASE prefix = IDENTIFY_INIT \o Zeros(60)
  <2>1. Len(prefix) = 64 /\ prefix[2] = 5 /\ prefix[3] = 193 /\ prefix[4] = 0
        /\ prefix[5] = 0 /\ prefix[6] = 0
    BY <1>2 DEF IDENTIFY_INIT, Zeros
  <2>2. p[1] = prefix[2] /\ p[2] = prefix[3] /\ p[3] = prefix[4] /\ p[4] = prefix[5]
        /\ p[5] = prefix[6]
    BY <2>1 DEF StartsWith
  <2>. QED BY <2>1, <2>2
<1>3. CASE prefix = <<129, 5, 195, 0, 0, 0, 12, 0, 0, 0>>
  BY <1>3 DEF StartsWith
<1>4. CASE prefix = PROBE_IS_WIRED \o Zeros(59)
  <2>1. Len(prefix) = 64 /\ prefix[2] = 5 /\ prefix[3] = 0 /\ prefix[4] = 49 /\ prefix[5] = 1
    BY <1>4 DEF PROBE_IS_WIRED, Zeros
  <2>2. p[1] = prefix[2] /\ p[2] = prefix[3] /\ p[3] = prefix[4] /\ p[4] = prefix[5]
    BY <2>1 DEF StartsWith
  <2>. QED BY <2>1, <2>2
<1>5. CASE prefix = PROBE_GET_RF_ADDRESS \o Zeros(59)
  <2>1. Len(prefix) = 64 /\ prefix[2] = 0 /\ prefix[3] = 102 /\ prefix[4] = 170
        /\ prefix[5] = 99
    BY <1>5 DEF PROBE_GET_RF_ADDRESS, Zeros
  <2>2. p[1] = prefix[2] /\ p[2] = prefix[3] /\ p[3] = prefix[4] /\ p[4] = prefix[5]
    BY <2>1 DEF StartsWith
  <2>. QED BY <2>1, <2>2
<1>6. CASE prefix = PROBE_GET_PID \o Zeros(60)
  <2>1. Len(prefix) = 64 /\ prefix[2] = 5 /\ prefix[3] = 8
    BY <1>6 DEF PROBE_GET_PID, Zeros
  <2>2. p[1] = prefix[2] /\ p[2] = prefix[3]
    BY <2>1 DEF StartsWith
  <2>. QED BY <2>1, <2>2
<1>. QED BY <1>1, <1>2, <1>3, <1>4, <1>5, <1>6 DEF ALLOWED_PREFIXES

\* What an allowed report looks like in the bytes the pads decide by.
LEMMA AllowedBytes ==
    ASSUME NEW p \in Packet, OnReadList(p)
    PROVE  \/ p[1] = 5 /\ p[2] = 0 /\ p[3] \in {33, 49}
           \/ p[1] = 5 /\ p[2] = 193 /\ p[5] = 0
           \/ p[1] = 5 /\ p[2] \in {195, 8}
           \/ p[1] = 0 /\ p[2] = 102 /\ p[4] = 99
           \/ p[2] = 4 /\ p[3] \in {2, 12}
           \/ p[1] = 4 /\ p[2] = 2 /\ p[3] = 0
<1>1. p[2] \in Byte /\ p[3] \in Byte /\ p[4] \in Byte
  BY DEF Packet, Size, Byte
<1>2. ASSUME NEW a \in Byte, NEW b \in Byte, a + 256 * b = 2
      PROVE  a = 2 /\ b = 0
  BY <1>2 DEF Byte
<1>3. CASE \E prefix \in ALLOWED_PREFIXES : StartsWith(p, prefix)
  BY <1>3, PrefixBytes
<1>4. CASE ReadsCustomInfo(p)
  BY <1>4 DEF ReadsCustomInfo, SECTION, CUSTOM_INFO_REQUEST
<1>5. CASE ReadsSized(p)
  <2>1. p[2] = 4 /\ p[3] + 256 * p[4] = 2
    BY <1>5 DEF ReadsSized, Word, SECTION, PRO2_READ
  <2>. QED BY <2>1, <1>1, <1>2
<1>6. CASE ReadsUnsized(p)
  <2>1. p[1] = 4 /\ p[2] + 256 * p[3] = 2
    BY <1>6 DEF ReadsUnsized, Word, SECTION, PRO2_READ
  <2>. QED BY <2>1, <1>1, <1>2
<1>. QED BY <1>3, <1>4, <1>5, <1>6 DEF OnReadList

\* No allowed report is a section-04 write or commit, whichever frame the pad
\* that receives it reads.
LEMMA AllowedDoesNotWrite ==
    ASSUME NEW p \in Packet, OnReadList(p)
    PROVE  ~WritesOrCommits(p)
<1>1. p[2] \in Byte /\ p[3] \in Byte /\ p[4] \in Byte
  BY DEF Packet, Size, Byte
<1>2. ASSUME NEW a \in Byte, NEW b \in Byte, a + 256 * b \in {1, 6}
      PROVE  a \in {1, 6} /\ b = 0
  BY <1>2 DEF Byte
<1>3. ~(p[1] = 4 /\ p[2] + 256 * p[3] \in {1, 6})
  BY <1>1, <1>2, AllowedBytes
<1>4. ~(p[2] = 4 /\ p[3] + 256 * p[4] \in {1, 6})
  BY <1>1, <1>2, AllowedBytes
<1>. QED
  BY <1>3, <1>4 DEF WritesOrCommits, TakesSection, RequestOf, HeaderAt, Word, SECTION,
     PRO2_WRITE, PRO2_COMMIT

\* No allowed report starts like one of the other state-changing packets.
LEMMA AllowedIsNotListed ==
    ASSUME NEW p \in Packet, OnReadList(p), NEW prefix \in STATE_CHANGING
    PROVE  ~StartsWith(p, prefix)
<1>1. SUFFICES ASSUME StartsWith(p, prefix) PROVE FALSE
  OBVIOUS
<1>2. CASE prefix \in {<<129, 5, 102, 170, 99>>, <<129, 0, 102, 170, 100>>}
  <2>1. p[1] = prefix[2] /\ p[2] = prefix[3] /\ p[4] = prefix[5]
    BY <1>1, <1>2 DEF StartsWith
  <2>. QED BY <1>2, <2>1, AllowedBytes
<1>3. CASE prefix \in {<<129, 5, 0, 97, 1>>, <<129, 17, 4, 8, 0>>}
  <2>1. p[1] = prefix[2] /\ p[2] = prefix[3] /\ p[3] = prefix[4]
    BY <1>1, <1>3 DEF StartsWith
  <2>. QED BY <1>3, <2>1, AllowedBytes
<1>4. CASE prefix \in {<<129, 5, 0, 54>>, <<129, 5, 0, 56>>, <<129, 5, 196, 0>>,
                       <<129, 5, 4, 0>>, <<129, 5, 7, 0>>}
  <2>1. p[1] = prefix[2] /\ p[2] = prefix[3] /\ p[3] = prefix[4]
    BY <1>1, <1>4 DEF StartsWith
  <2>. QED BY <1>4, <2>1, AllowedBytes
<1>5. CASE prefix = <<129, 5, 193, 0, 0, 128>>
  <2>1. p[1] = prefix[2] /\ p[2] = prefix[3] /\ p[5] = prefix[6]
    BY <1>1, <1>5 DEF StartsWith
  <2>. QED BY <1>5, <2>1, AllowedBytes
<1>. QED BY <1>2, <1>3, <1>4, <1>5 DEF STATE_CHANGING

\* Whatever 64 bytes it is given, exchange sends nothing that writes, commits
\* or changes a mode unless the switch was armed (read_config.py 38-70).
THEOREM AllowedIsReadOnly == \A p \in Packet : Allowed(p, FALSE) => ~ChangesState(p)
<1>. SUFFICES ASSUME NEW p \in Packet, OnReadList(p) PROVE ~ChangesState(p)
  BY DEF Allowed
<1>. QED BY AllowedDoesNotWrite, AllowedIsNotListed DEF ChangesState

\* Arming adds the one switch packet and nothing else.
THEOREM ArmingAddsTheSwitch ==
    \A p \in Packet : Allowed(p, TRUE) => Allowed(p, FALSE) \/ p = PadReport(SWITCH_TO_DINPUT)
BY DEF Allowed
-----------------------------------------------------------------------------
(* The checksum of a section. *)

\* What two bytes can hold.
Half == {n \in Nat : n < 65536}

\* The values of the register.
Registers == SUBSET (0 .. 15)

\* The polynomial and the first value are registers.
LEMMA ConstantRegisters == POLY \in Registers /\ INITIAL \in Registers
BY DEF POLY, INITIAL, Registers

\* So are the bits of a byte.
LEMMA BitsAreARegister == ASSUME NEW byte PROVE Bits(byte) \in Registers
BY DEF Bits, Registers

\* Exclusive or makes a register of two.
LEMMA XorType == ASSUME NEW a \in Registers, NEW b \in Registers PROVE Xor(a, b) \in Registers
BY DEF Xor, Registers

\* A shift makes a register of one.
LEMMA ShiftType == ASSUME NEW crc \in Registers PROVE Shift(crc) \in Registers
<1>. DEFINE low == {k - 1 : k \in crc \ {0}}
<1>1. \A k \in 0 .. 15 : k # 0 => k - 1 \in 0 .. 15
  OBVIOUS
<1>2. low \in Registers
  BY <1>1 DEF Registers
<1>. HIDE DEF low
<1>3. Xor(low, POLY) \in Registers
  BY <1>2, XorType, ConstantRegisters
<1>. QED BY <1>2, <1>3, Zenon DEF Shift, low

\* Exclusive or loses nothing of either side.
LEMMA XorTells ==
    ASSUME NEW a, NEW b, NEW c
    PROVE  /\ Xor(a, c) = Xor(b, c) => a = b
           /\ Xor(c, a) = Xor(c, b) => a = b
<1>1. ASSUME NEW x PROVE /\ x \in Xor(a, c) <=> (x \in a <=> x \notin c)
                         /\ x \in Xor(b, c) <=> (x \in b <=> x \notin c)
                         /\ x \in Xor(c, a) <=> (x \in a <=> x \notin c)
                         /\ x \in Xor(c, b) <=> (x \in b <=> x \notin c)
  BY DEF Xor
<1>2. ASSUME Xor(a, c) = Xor(b, c) PROVE a = b
  <2>1. \A x : x \in a <=> x \in b
    BY <1>1, <1>2, Zenon
  <2>. QED BY <2>1, SetExtensionality, Zenon
<1>3. ASSUME Xor(c, a) = Xor(c, b) PROVE a = b
  <2>1. \A x : x \in a <=> x \in b
    BY <1>1, <1>3, Zenon
  <2>. QED BY <2>1, SetExtensionality, Zenon
<1>. QED BY <1>2, <1>3

\* A shift loses nothing: the bit that falls out is the highest of the result.
LEMMA ShiftTells ==
    ASSUME NEW c \in Registers, NEW d \in Registers, Shift(c) = Shift(d)
    PROVE  c = d
<1>. DEFINE low(r) == {k - 1 : k \in r \ {0}}
<1>1. ASSUME NEW r \in Registers PROVE 15 \notin low(r) /\ (15 \in Shift(r) <=> 0 \in r)
  <2>1. \A k \in 0 .. 15 : k - 1 # 15
    OBVIOUS
  <2>2. 15 \notin low(r)
    BY <2>1 DEF Registers
  <2>. HIDE DEF low
  <2>3. Shift(r) = IF 0 \in r THEN Xor(low(r), POLY) ELSE low(r)
    BY DEF Shift, low
  <2>. QED BY <2>2, <2>3 DEF Xor, POLY
<1>2. 0 \in c <=> 0 \in d
  BY <1>1
<1>3. low(c) = low(d)
  <2>. HIDE DEF low
  <2>1. Shift(c) = IF 0 \in c THEN Xor(low(c), POLY) ELSE low(c)
    BY DEF Shift, low
  <2>2. Shift(d) = IF 0 \in d THEN Xor(low(d), POLY) ELSE low(d)
    BY DEF Shift, low
  <2>. QED BY <2>1, <2>2, <1>2, XorTells
<1>4. ASSUME NEW r \in Registers, NEW k \in 1 .. 15 PROVE k \in r <=> k - 1 \in low(r)
  <2>1. \A j \in 0 .. 15 : j - 1 = k - 1 => j = k
    OBVIOUS
  <2>. QED BY <2>1 DEF Registers
<1>. HIDE DEF low
<1>5. \A k \in 0 .. 15 : k \in c <=> k \in d
  <2>1. \A k \in 1 .. 15 : k \in c <=> k \in d
    BY <1>3, <1>4
  <2>2. \A k \in 0 .. 15 : k = 0 \/ k \in 1 .. 15
    OBVIOUS
  <2>. QED BY <2>1, <2>2, <1>2
<1>. QED BY <1>5 DEF Registers

\* Bits that are the same are the same byte's.
LEMMA BitsTell ==
    ASSUME NEW a \in Byte, NEW b \in Byte, Bits(a) = Bits(b)
    PROVE  a = b
<1>. DEFINE bit(n, k) == (n \div <<1, 2, 4, 8, 16, 32, 64, 128>>[k + 1]) % 2
<1>1. ASSUME NEW k \in 0 .. 7 PROVE bit(a, k) = 1 <=> bit(b, k) = 1
  BY Zenon DEF Bits
<1>2. /\ (a \div 1) % 2 = 1 <=> (b \div 1) % 2 = 1
      /\ (a \div 2) % 2 = 1 <=> (b \div 2) % 2 = 1
      /\ (a \div 4) % 2 = 1 <=> (b \div 4) % 2 = 1
      /\ (a \div 8) % 2 = 1 <=> (b \div 8) % 2 = 1
      /\ (a \div 16) % 2 = 1 <=> (b \div 16) % 2 = 1
      /\ (a \div 32) % 2 = 1 <=> (b \div 32) % 2 = 1
      /\ (a \div 64) % 2 = 1 <=> (b \div 64) % 2 = 1
      /\ (a \div 128) % 2 = 1 <=> (b \div 128) % 2 = 1
  BY <1>1
<1>. QED BY <1>2, Z3T(30) DEF Byte

\* So does the step of a byte.
LEMMA StepType ==
    ASSUME NEW crc \in Registers, NEW byte
    PROVE  Step(crc, byte) \in Registers
<1>1. Xor(crc, Bits(byte)) \in Registers
  BY XorType, BitsAreARegister
<1>. QED BY <1>1, ShiftType DEF Step

\* A step tells two registers apart, and two bytes.
LEMMA StepTells ==
    ASSUME NEW c \in Registers, NEW d \in Registers, NEW a \in Byte, NEW b \in Byte,
           Step(c, a) = Step(d, b)
    PROVE  (a = b => c = d) /\ (c = d => a = b)
<1>1. Xor(c, Bits(a)) \in Registers /\ Xor(d, Bits(b)) \in Registers
  BY XorType, BitsAreARegister
<1>2. Xor(c, Bits(a)) = Xor(d, Bits(b))
  BY <1>1, ShiftType, ShiftTells DEF Step
<1>. QED BY <1>2, XorTells, BitsTell

\* The registers a run over bytes goes through, from a start to its last.
PassesThrough(start, bytes, f) ==
    /\ f \in [0 .. Len(bytes) -> Registers] /\ f[0] = start
    /\ \A n \in 1 .. Len(bytes) : f[n] = Step(f[n - 1], bytes[n])

\* The register after more bytes is the last of such a run: the recursive
\* function exists.
LEMMA AfterPasses ==
    ASSUME NEW start \in Registers, NEW bytes \in Seq(Byte)
    PROVE  \E f : PassesThrough(start, bytes, f) /\ After(start, bytes) = f[Len(bytes)]
<1>. DEFINE L == Len(bytes)
            Body(crc, n) == IF n = 0 THEN start
                            ELSE CHOOSE c \in {Step(sofar, bytes[n]) : sofar \in {crc[n - 1]}} : TRUE
            Defines(crc) == crc = [n \in 0 .. L |-> Body(crc, n)]
            run == CHOOSE crc : Defines(crc)
            g == [n \in 1 .. L |-> [c \in Registers |-> Step(c, bytes[n])]]
<1>1. L \in Nat
  OBVIOUS
<1>2. ASSUME NEW f, NEW n \in 1 .. L PROVE Body(f, n) = Step(f[n - 1], bytes[n])
  <2>1. {Step(sofar, bytes[n]) : sofar \in {f[n - 1]}} = {Step(f[n - 1], bytes[n])}
    BY Zenon
  <2>2. Body(f, n) = CHOOSE c \in {Step(f[n - 1], bytes[n])} : TRUE
    BY <2>1
  <2>. QED BY <2>2
<1>3. PICK f : IsIteration(f, g, L, Registers, start)
  <2>1. AreSteps(g, L, Registers)
    BY StepType DEF AreSteps
  <2>. HIDE DEF g, L
  <2>. QED BY <1>1, <2>1, Iterates, Zenon
<1>. USE DEF IsIteration
<1>4. Defines(f)
  <2>1. ASSUME NEW n \in 0 .. L PROVE f[n] = Body(f, n)
    <3>1. CASE n = 0
      BY <3>1, <1>3
    <3>2. CASE n # 0
      <4>1. n \in 1 .. L /\ n - 1 \in 0 .. L
        BY <3>2, <1>1
      <4>2. f[n] = Step(f[n - 1], bytes[n])
        BY <4>1, <1>3
      <4>. QED BY <4>1, <4>2, <1>2
    <3>. QED BY <3>1, <3>2
  <2>. HIDE DEF Body
  <2>. QED BY <2>1, <1>3
<1>5. Defines(run)
  BY <1>4, Zenon
<1>6. After(start, bytes) = run[L]
  BY Zenon DEF After
<1>. HIDE DEF run
<1>7. run[0] = start /\ \A n \in 1 .. L : run[n] = Step(run[n - 1], bytes[n])
  <2>1. \A n \in 0 .. L : run[n] = Body(run, n)
    <3>. HIDE DEF Body
    <3>. QED BY <1>5
  <2>2. 0 \in 0 .. L /\ \A n \in 1 .. L : n \in 0 .. L
    BY <1>1
  <2>. QED BY <2>1, <2>2, <1>2
<1>8. \A n \in 0 .. L : n \in {k \in 0 .. L : run[k] \in Registers}
  <2>. DEFINE T == {k \in 0 .. L : run[k] \in Registers}
  <2>1. 0 \in T
    BY <1>1, <1>7
  <2>2. \A n \in 1 .. L : n - 1 \in T => n \in T
    BY <1>7, StepType
  <2>. HIDE DEF T
  <2>3. \A n \in 0 .. L : n \in T
    BY <1>1, <2>1, <2>2, UpTo
  <2>. QED BY <2>3 DEF T
<1>9. run \in [0 .. L -> Registers]
  <2>1. run = [n \in 0 .. L |-> run[n]]
    <3>. HIDE DEF Body
    <3>. QED BY <1>5
  <2>. QED BY <2>1, <1>8
<1>. QED BY <1>6, <1>7, <1>9 DEF PassesThrough

\* The registers between the blocks.
Blocks(data) == Len(data) \div 64 + 1
PassesBlocks(data, f) ==
    /\ f \in [0 .. Blocks(data) -> Registers] /\ f[0] = INITIAL
    /\ \A n \in 1 .. Blocks(data) : f[n] = After(f[n - 1], Block(data, n))

\* A block is bytes of the data, 64 of them but for the last.
LEMMA BlockType ==
    ASSUME NEW data \in Seq(Byte), NEW n \in 1 .. Blocks(data)
    PROVE  /\ Block(data, n) \in Seq(Byte)
           /\ Len(Block(data, n)) = IF 64 * n < Len(data) THEN 64 ELSE Len(data) - (64 * n - 64)
           /\ \A k \in 1 .. Len(Block(data, n)) : /\ 64 * n - 64 + k \in 1 .. Len(data)
                                                  /\ Block(data, n)[k] = data[64 * n - 64 + k]
<1>1. n \in Nat /\ n >= 1 /\ 64 * n - 64 <= Len(data)
  BY Z3 DEF Blocks
<1>. DEFINE last == IF 64 * n < Len(data) THEN 64 * n ELSE Len(data)
<1>2. 64 * n - 63 \in 1 .. Len(data) + 1 /\ last \in 64 * n - 64 .. Len(data)
  BY <1>1
<1>. HIDE DEF last
<1>3. Block(data, n) = SubSeq(data, 64 * n - 63, last)
  BY DEF Block, last
<1>. DEFINE m == 64 * n - 63
<1>4. m \in Nat /\ m >= 1 /\ last \in Nat /\ last <= Len(data) /\ last >= m - 1
  BY <1>1, <1>2
<1>. HIDE DEF m
<1>5. SubSeq(data, m, last) \in Seq(Byte) /\ Len(SubSeq(data, m, last)) = last - m + 1
      /\ \A k \in 1 .. last - m + 1 : SubSeq(data, m, last)[k] = data[m + k - 1]
  BY <1>4
<1>6. last - m + 1 = IF 64 * n < Len(data) THEN 64 ELSE Len(data) - (64 * n - 64)
  <2>1. Len(data) \in Nat
    OBVIOUS
  <2>. HIDE DEF last
  <2>2. last = IF 64 * n < Len(data) THEN 64 * n ELSE Len(data)
    BY DEF last
  <2>3. CASE 64 * n < Len(data)
    <3>1. last = 64 * n
      BY <2>2, <2>3
    <3>. QED BY <1>1, <2>1, <2>3, <3>1 DEF m
  <2>4. CASE ~ (64 * n < Len(data))
    <3>1. last = Len(data)
      BY <2>2, <2>4
    <3>. QED BY <1>1, <2>1, <2>4, <3>1 DEF m
  <2>. QED BY <2>3, <2>4
<1>7. Block(data, n) = SubSeq(data, m, last)
  BY <1>3 DEF m
<1>8. ASSUME NEW k \in 1 .. last - m + 1
      PROVE  64 * n - 64 + k \in 1 .. Len(data) /\ m + k - 1 = 64 * n - 64 + k
  BY <1>1, <1>4 DEF m
<1>. QED BY <1>5, <1>6, <1>7, <1>8

\* The register after more bytes is a register.
LEMMA AfterType ==
    ASSUME NEW start \in Registers, NEW bytes \in Seq(Byte)
    PROVE  After(start, bytes) \in Registers
<1>1. PICK f : PassesThrough(start, bytes, f) /\ After(start, bytes) = f[Len(bytes)]
  BY AfterPasses
<1>. QED BY <1>1 DEF PassesThrough

\* The register of the data is the last of such a run over the blocks.
LEMMA RegisterPasses ==
    ASSUME NEW data \in Seq(Byte)
    PROVE  \E f : PassesBlocks(data, f) /\ Register(data) = f[Blocks(data)]
<1>. DEFINE L == Blocks(data)
            Body(crc, n) == IF n = 0 THEN INITIAL
                            ELSE CHOOSE c \in {After(sofar, Block(data, n)) : sofar \in {crc[n - 1]}} : TRUE
            Defines(crc) == crc = [n \in 0 .. L |-> Body(crc, n)]
            run == CHOOSE crc : Defines(crc)
            g == [n \in 1 .. L |-> [c \in Registers |-> After(c, Block(data, n))]]
<1>1. L \in Nat
  BY Z3 DEF Blocks
<1>2. ASSUME NEW f, NEW n \in 1 .. L PROVE Body(f, n) = After(f[n - 1], Block(data, n))
  <2>1. {After(sofar, Block(data, n)) : sofar \in {f[n - 1]}} = {After(f[n - 1], Block(data, n))}
    BY Zenon
  <2>2. Body(f, n) = CHOOSE c \in {After(f[n - 1], Block(data, n))} : TRUE
    <3>1. n # 0
      BY <1>1
    <3>. QED BY <2>1, <3>1
  <2>. QED BY <2>2
<1>3. PICK f : IsIteration(f, g, L, Registers, INITIAL)
  <2>1. AreSteps(g, L, Registers)
    BY AfterType, BlockType DEF AreSteps
  <2>. HIDE DEF g, L
  <2>. QED BY <1>1, <2>1, ConstantRegisters, Iterates, Zenon
<1>. USE DEF IsIteration
<1>4. Defines(f)
  <2>1. ASSUME NEW n \in 0 .. L PROVE f[n] = Body(f, n)
    <3>1. CASE n = 0
      BY <3>1, <1>3
    <3>2. CASE n # 0
      <4>1. n \in 1 .. L /\ n - 1 \in 0 .. L
        BY <3>2, <1>1
      <4>2. f[n] = After(f[n - 1], Block(data, n))
        BY <4>1, <1>3
      <4>. QED BY <4>1, <4>2, <1>2
    <3>. QED BY <3>1, <3>2
  <2>. HIDE DEF Body
  <2>. QED BY <2>1, <1>3
<1>5. Defines(run)
  BY <1>4, Zenon
<1>6. Register(data) = run[L]
  BY Zenon DEF Register, Blocks
<1>. HIDE DEF run
<1>7. run[0] = INITIAL /\ \A n \in 1 .. L : run[n] = After(run[n - 1], Block(data, n))
  <2>1. \A n \in 0 .. L : run[n] = Body(run, n)
    <3>. HIDE DEF Body
    <3>. QED BY <1>5
  <2>2. 0 \in 0 .. L /\ \A n \in 1 .. L : n \in 0 .. L
    BY <1>1
  <2>. QED BY <2>1, <2>2, <1>2
<1>8. \A n \in 0 .. L : n \in {k \in 0 .. L : run[k] \in Registers}
  <2>. DEFINE T == {k \in 0 .. L : run[k] \in Registers}
  <2>1. 0 \in T
    BY <1>1, <1>7, ConstantRegisters
  <2>2. \A n \in 1 .. L : n - 1 \in T => n \in T
    BY <1>1, <1>7, AfterType, BlockType
  <2>. HIDE DEF T
  <2>3. \A n \in 0 .. L : n \in T
    BY <1>1, <2>1, <2>2, UpTo
  <2>. QED BY <2>3 DEF T
<1>9. run \in [0 .. L -> Registers]
  <2>1. run = [n \in 0 .. L |-> run[n]]
    <3>. HIDE DEF Body
    <3>. QED BY <1>5
  <2>. QED BY <2>1, <1>8
<1>. QED BY <1>6, <1>7, <1>9 DEF PassesBlocks

\* The register of the data is a register.
LEMMA RegisterType ==
    ASSUME NEW data \in Seq(Byte)
    PROVE  Register(data) \in Registers
<1>1. PICK f : PassesBlocks(data, f) /\ Register(data) = f[Blocks(data)]
  BY RegisterPasses
<1>2. Blocks(data) \in 0 .. Blocks(data)
  BY Z3 DEF Blocks
<1>. QED BY <1>1, <1>2 DEF PassesBlocks

\* Eight bits are a byte.
LEMMA ByteOfType == ASSUME NEW r, NEW from PROVE ByteOf(r, from) \in Byte
BY DEF ByteOf, Byte

\* The checksum of any data is a number of two bytes.
LEMMA CrcIsAWord == \A s \in Seq(Byte) : crc16_modbus(s) \in Half
<1>. TAKE s \in Seq(Byte)
<1>. DEFINE low == ByteOf(Register(s), 0)
            high == ByteOf(Register(s), 8)
<1>1. low \in 0 .. 255 /\ high \in 0 .. 255
  BY ByteOfType DEF Byte
<1>2. crc16_modbus(s) = low + 256 * high
  BY DEF crc16_modbus
<1>. HIDE DEF low, high
<1>. QED BY <1>1, <1>2 DEF Half

\* Sequences that differ in one place, k.
OneApart(s, t, k) ==
    Len(s) = Len(t) /\ k \in 1 .. Len(s) /\ s[k] # t[k]
    /\ \A n \in 1 .. Len(s) : n # k => s[n] = t[n]

\* The same bytes keep registers apart.
LEMMA AfterKeepsApart ==
    ASSUME NEW a \in Registers, NEW b \in Registers, a # b, NEW s \in Seq(Byte)
    PROVE  After(a, s) # After(b, s)
<1>1. PICK f : PassesThrough(a, s, f) /\ After(a, s) = f[Len(s)]
  BY AfterPasses
<1>2. PICK h : PassesThrough(b, s, h) /\ After(b, s) = h[Len(s)]
  BY AfterPasses
<1>. DEFINE T == {n \in 0 .. Len(s) : f[n] # h[n]}
<1>3. 0 \in T
  BY <1>1, <1>2 DEF PassesThrough
<1>4. ASSUME NEW n \in 1 .. Len(s), n - 1 \in T PROVE n \in T
  <2>1. n - 1 \in 0 .. Len(s) /\ s[n] \in Byte
    OBVIOUS
  <2>2. f[n - 1] \in Registers /\ h[n - 1] \in Registers /\ f[n - 1] # h[n - 1]
    BY <1>1, <1>2, <1>4, <2>1 DEF PassesThrough
  <2>3. f[n] = Step(f[n - 1], s[n]) /\ h[n] = Step(h[n - 1], s[n])
    BY <1>1, <1>2 DEF PassesThrough
  <2>. QED BY <2>1, <2>2, <2>3, StepTells
<1>. HIDE DEF T
<1>5. Len(s) \in Nat /\ Len(s) \in 0 .. Len(s)
  OBVIOUS
<1>6. \A n \in 0 .. Len(s) : n \in T
  BY <1>3, <1>4, <1>5, UpTo
<1>7. Len(s) \in T
  BY <1>5, <1>6
<1>. QED BY <1>1, <1>2, <1>7 DEF T

\* From one register, bytes one of which differs lead apart.
LEMMA AfterTells ==
    ASSUME NEW a \in Registers, NEW s \in Seq(Byte), NEW t \in Seq(Byte), NEW k, OneApart(s, t, k)
    PROVE  After(a, s) # After(a, t)
<1>. USE DEF OneApart
<1>1. PICK f : PassesThrough(a, s, f) /\ After(a, s) = f[Len(s)]
  BY AfterPasses
<1>2. PICK h : PassesThrough(a, t, h) /\ After(a, t) = h[Len(t)]
  BY AfterPasses
<1>. DEFINE T == {n \in 0 .. Len(s) : f[n] = h[n] <=> n < k}
<1>3. 0 \in T
  BY <1>1, <1>2 DEF PassesThrough
<1>4. ASSUME NEW n \in 1 .. Len(s), n - 1 \in T PROVE n \in T
  <2>1. n - 1 \in 0 .. Len(s) /\ s[n] \in Byte /\ t[n] \in Byte
    OBVIOUS
  <2>2. f[n - 1] \in Registers /\ h[n - 1] \in Registers /\ (f[n - 1] = h[n - 1] <=> n - 1 < k)
    BY <1>1, <1>2, <1>4, <2>1 DEF PassesThrough
  <2>3. f[n] = Step(f[n - 1], s[n]) /\ h[n] = Step(h[n - 1], t[n])
    BY <1>1, <1>2 DEF PassesThrough
  <2>4. CASE n < k
    BY <2>1, <2>2, <2>3, <2>4
  <2>5. CASE n = k
    BY <2>1, <2>2, <2>3, <2>5, StepTells
  <2>6. CASE n > k
    <3>1. s[n] = t[n] /\ f[n - 1] # h[n - 1]
      BY <2>2, <2>6
    <3>2. f[n] # h[n]
      BY <2>1, <2>2, <2>3, <3>1, StepTells
    <3>. QED BY <2>6, <3>2
  <2>. QED BY <2>4, <2>5, <2>6
<1>. HIDE DEF T
<1>5. Len(s) \in Nat /\ Len(s) \in 0 .. Len(s)
  OBVIOUS
<1>6. \A n \in 0 .. Len(s) : n \in T
  BY <1>3, <1>4, <1>5, UpTo
<1>7. Len(s) \in T
  BY <1>5, <1>6
<1>. QED BY <1>1, <1>2, <1>7 DEF T

\* Sequences of the same elements are the same.
LEMMA SameSequence ==
    ASSUME NEW S, NEW s \in Seq(S), NEW t \in Seq(S), Len(s) = Len(t), \A i \in 1 .. Len(s) : s[i] = t[i]
    PROVE  s = t
OBVIOUS

\* The blocks of sequences that differ in one place: the one with the place
\* differs, the others do not.
LEMMA BlocksApart ==
    ASSUME NEW s \in Seq(Byte), NEW t \in Seq(Byte), NEW k, OneApart(s, t, k)
    PROVE  \E m \in 1 .. Blocks(s) :
              /\ \E j : OneApart(Block(s, m), Block(t, m), j)
              /\ \A n \in 1 .. Blocks(s) : n # m => Block(s, n) = Block(t, n)
<1>. USE DEF OneApart
<1>1. Len(s) \in Nat /\ k \in Nat /\ k >= 1 /\ k <= Len(s)
  OBVIOUS
<1>. DEFINE m == (k - 1) \div 64 + 1
            j == k - (64 * m - 64)
<1>2. m \in Nat /\ 1 <= m /\ 64 * m - 64 < k /\ k <= 64 * m /\ m <= Blocks(s)
  <2>. DEFINE L == Len(s)
              K == k - 1
              a == K \div 64
              b == L \div 64
  <2>1. L \in Nat /\ K \in Nat /\ K < L
    BY <1>1
  <2>. HIDE DEF L, K
  <2>2. a \in Nat /\ b \in Nat /\ 64 * a <= K /\ K < 64 * a + 64 /\ 64 * b <= L /\ L < 64 * b + 64
    BY <2>1, Z3
  <2>. HIDE DEF a, b
  <2>3. m = a + 1 /\ Blocks(s) = b + 1 /\ K = k - 1
    BY DEF a, b, K, L, Blocks
  <2>. HIDE DEF m
  <2>. QED BY <1>1, <2>1, <2>2, <2>3
<1>3. Blocks(s) \in Nat /\ Blocks(s) = Blocks(t)
  BY <1>1, Z3 DEF Blocks
<1>. HIDE DEF m
<1>4. m \in 1 .. Blocks(s)
  BY <1>2, <1>3
<1>5. ASSUME NEW n \in 1 .. Blocks(s)
      PROVE  /\ Block(s, n) \in Seq(Byte) /\ Block(t, n) \in Seq(Byte)
             /\ Len(Block(s, n)) = Len(Block(t, n))
             /\ \A i \in 1 .. Len(Block(s, n)) : /\ 64 * n - 64 + i \in 1 .. Len(s)
                                                 /\ Block(s, n)[i] = s[64 * n - 64 + i]
                                                 /\ Block(t, n)[i] = t[64 * n - 64 + i]
  <2>1. n \in 1 .. Blocks(t) /\ Len(s) = Len(t)
    BY <1>3
  <2>2. Len(Block(s, n)) = Len(Block(t, n))
    <3>. DEFINE length(l) == IF 64 * n < l THEN 64 ELSE l - (64 * n - 64)
    <3>1. Len(Block(s, n)) = length(Len(s))
      BY BlockType
    <3>2. Len(Block(t, n)) = length(Len(t))
      BY <2>1, BlockType
    <3>. HIDE DEF length
    <3>. QED BY <2>1, <3>1, <3>2
  <2>3. /\ Block(s, n) \in Seq(Byte)
        /\ \A i \in 1 .. Len(Block(s, n)) : /\ 64 * n - 64 + i \in 1 .. Len(s)
                                            /\ Block(s, n)[i] = s[64 * n - 64 + i]
    BY BlockType, Zenon
  <2>4. /\ Block(t, n) \in Seq(Byte)
        /\ \A i \in 1 .. Len(Block(t, n)) : /\ 64 * n - 64 + i \in 1 .. Len(t)
                                            /\ Block(t, n)[i] = t[64 * n - 64 + i]
    BY <2>1, BlockType, Zenon
  <2>. QED BY <2>2, <2>3, <2>4, Zenon
<1>6. OneApart(Block(s, m), Block(t, m), j)
  <2>1. Len(Block(s, m)) = IF 64 * m < Len(s) THEN 64 ELSE Len(s) - (64 * m - 64)
    BY <1>4, BlockType
  <2>2. j \in 1 .. Len(Block(s, m))
    <3>1. CASE 64 * m < Len(s)
      BY <1>1, <1>2, <2>1, <3>1
    <3>2. CASE ~ (64 * m < Len(s))
      <4>1. Len(Block(s, m)) = Len(s) - (64 * m - 64)
        BY <2>1, <3>2
      <4>. QED BY <1>1, <1>2, <4>1
    <3>. QED BY <3>1, <3>2
  <2>3. 64 * m - 64 + j = k
    BY <1>1, <1>2
  <2>4. Block(s, m)[j] # Block(t, m)[j]
    <3>. HIDE DEF j
    <3>1. Block(s, m)[j] = s[64 * m - 64 + j] /\ Block(t, m)[j] = t[64 * m - 64 + j]
      BY <1>4, <1>5, <2>2, Zenon
    <3>. QED BY <2>3, <3>1, Zenon
  <2>5. ASSUME NEW i \in 1 .. Len(Block(s, m)), i # j PROVE Block(s, m)[i] = Block(t, m)[i]
    <3>1. 64 * m - 64 + i # k
      BY <1>1, <1>2, <2>5
    <3>2. /\ 64 * m - 64 + i \in 1 .. Len(s)
          /\ Block(s, m)[i] = s[64 * m - 64 + i]
          /\ Block(t, m)[i] = t[64 * m - 64 + i]
      BY <1>4, <1>5, Zenon
    <3>. QED BY <3>1, <3>2, Zenon
  <2>. QED BY <1>4, <1>5, <2>2, <2>4, <2>5
<1>7. ASSUME NEW n \in 1 .. Blocks(s), n # m PROVE Block(s, n) = Block(t, n)
  <2>1. ASSUME NEW i \in 1 .. Len(Block(s, n)) PROVE Block(s, n)[i] = Block(t, n)[i]
    <3>1. Len(Block(s, n)) = IF 64 * n < Len(s) THEN 64 ELSE Len(s) - (64 * n - 64)
      BY BlockType
    <3>2. Len(Block(s, n)) <= 64
      <4>1. CASE 64 * n < Len(s)
        BY <3>1, <4>1
      <4>2. CASE ~ (64 * n < Len(s))
        <5>1. Len(Block(s, n)) = Len(s) - (64 * n - 64)
          BY <3>1, <4>2
        <5>. QED BY <1>1, <1>3, <4>2, <5>1
      <4>. QED BY <4>1, <4>2
    <3>3. Len(Block(s, n)) \in Nat
      BY <1>5
    <3>4. 64 * n - 64 + i # k
      BY <1>1, <1>2, <1>3, <1>7, <3>2, <3>3
    <3>5. 64 * n - 64 + i \in 1 .. Len(s) /\ Block(s, n)[i] = s[64 * n - 64 + i]
          /\ Block(t, n)[i] = t[64 * n - 64 + i]
      BY <1>5, Zenon
    <3>. QED BY <3>4, <3>5, Zenon
  <2>. QED BY <1>5, <2>1, SameSequence, Zenon
<1>. HIDE DEF OneApart, j
<1>. QED BY <1>4, <1>6, <1>7, Zenon

\* Data that differ in one place leave different registers.
LEMMA RegisterTells ==
    ASSUME NEW s \in Seq(Byte), NEW t \in Seq(Byte), NEW k, OneApart(s, t, k)
    PROVE  Register(s) # Register(t)
<1>1. PICK f : PassesBlocks(s, f) /\ Register(s) = f[Blocks(s)]
  BY RegisterPasses
<1>2. PICK h : PassesBlocks(t, h) /\ Register(t) = h[Blocks(t)]
  BY RegisterPasses
<1>3. Blocks(s) \in Nat /\ Blocks(s) = Blocks(t)
  <2>1. Len(s) \in Nat /\ Len(s) = Len(t)
    BY DEF OneApart
  <2>. QED BY <2>1, Z3 DEF Blocks
<1>4. PICK m \in 1 .. Blocks(s) :
         /\ \E j : OneApart(Block(s, m), Block(t, m), j)
         /\ \A n \in 1 .. Blocks(s) : n # m => Block(s, n) = Block(t, n)
  BY BlocksApart
<1>. DEFINE T == {n \in 0 .. Blocks(s) : f[n] = h[n] <=> n < m}
<1>5. 0 \in T
  BY <1>1, <1>2, <1>3 DEF PassesBlocks
<1>6. ASSUME NEW n \in 1 .. Blocks(s), n - 1 \in T PROVE n \in T
  <2>1. n - 1 \in 0 .. Blocks(s) /\ Block(s, n) \in Seq(Byte) /\ Block(t, n) \in Seq(Byte)
    BY <1>3, BlockType
  <2>2. f[n - 1] \in Registers /\ h[n - 1] \in Registers /\ (f[n - 1] = h[n - 1] <=> n - 1 < m)
    BY <1>1, <1>2, <1>3, <1>6, <2>1 DEF PassesBlocks
  <2>3. f[n] = After(f[n - 1], Block(s, n)) /\ h[n] = After(h[n - 1], Block(t, n))
    BY <1>1, <1>2, <1>3 DEF PassesBlocks
  <2>4. CASE n < m
    <3>1. Block(s, n) = Block(t, n) /\ f[n - 1] = h[n - 1]
      BY <1>3, <1>4, <2>2, <2>4
    <3>. QED BY <2>3, <2>4, <3>1
  <2>5. CASE n = m
    <3>1. f[n - 1] = h[n - 1]
      BY <1>3, <2>2, <2>5
    <3>2. f[n] # h[n]
      BY <1>4, <2>1, <2>2, <2>3, <2>5, <3>1, AfterTells
    <3>. QED BY <2>5, <3>2
  <2>6. CASE n > m
    <3>1. Block(s, n) = Block(t, n) /\ f[n - 1] # h[n - 1]
      BY <1>3, <1>4, <2>2, <2>6
    <3>2. f[n] # h[n]
      BY <2>1, <2>2, <2>3, <3>1, AfterKeepsApart
    <3>. QED BY <2>6, <3>2
  <2>. QED BY <1>3, <2>4, <2>5, <2>6
<1>. HIDE DEF T
<1>7. \A n \in 0 .. Blocks(s) : n \in T
  BY <1>3, <1>5, <1>6, UpTo
<1>8. Blocks(s) \in T
  BY <1>3, <1>7
<1>. QED BY <1>1, <1>2, <1>3, <1>8 DEF T

\* A number tells its lowest binary digit and the rest.
LEMMA DigitTells ==
    ASSUME NEW x \in {0, 1}, NEW y \in {0, 1}, NEW m \in Int, NEW n \in Int, x + 2 * m = y + 2 * n
    PROVE  x = y /\ m = n
OBVIOUS

\* A number of eight binary digits tells them all.
LEMMA DigitsTell ==
    ASSUME NEW x0 \in {0, 1}, NEW x1 \in {0, 1}, NEW x2 \in {0, 1}, NEW x3 \in {0, 1},
           NEW x4 \in {0, 1}, NEW x5 \in {0, 1}, NEW x6 \in {0, 1}, NEW x7 \in {0, 1},
           NEW y0 \in {0, 1}, NEW y1 \in {0, 1}, NEW y2 \in {0, 1}, NEW y3 \in {0, 1},
           NEW y4 \in {0, 1}, NEW y5 \in {0, 1}, NEW y6 \in {0, 1}, NEW y7 \in {0, 1},
           x0 + 2 * x1 + 4 * x2 + 8 * x3 + 16 * x4 + 32 * x5 + 64 * x6 + 128 * x7
           = y0 + 2 * y1 + 4 * y2 + 8 * y3 + 16 * y4 + 32 * y5 + 64 * y6 + 128 * y7
    PROVE  x0 = y0 /\ x1 = y1 /\ x2 = y2 /\ x3 = y3
           /\ x4 = y4 /\ x5 = y5 /\ x6 = y6 /\ x7 = y7
<1>. DEFINE m6 == x6 + 2 * x7
            m5 == x5 + 2 * m6
            m4 == x4 + 2 * m5
            m3 == x3 + 2 * m4
            m2 == x2 + 2 * m3
            m1 == x1 + 2 * m2
            n6 == y6 + 2 * y7
            n5 == y5 + 2 * n6
            n4 == y4 + 2 * n5
            n3 == y3 + 2 * n4
            n2 == y2 + 2 * n3
            n1 == y1 + 2 * n2
<1>1. m6 \in Int /\ n6 \in Int
  OBVIOUS
<1>2. m5 \in Int /\ n5 \in Int
  <2>. HIDE DEF m6, n6
  <2>. QED BY <1>1
<1>3. m4 \in Int /\ n4 \in Int
  <2>. HIDE DEF m5, n5
  <2>. QED BY <1>2
<1>4. m3 \in Int /\ n3 \in Int
  <2>. HIDE DEF m4, n4
  <2>. QED BY <1>3
<1>5. m2 \in Int /\ n2 \in Int
  <2>. HIDE DEF m3, n3
  <2>. QED BY <1>4
<1>6. m1 \in Int /\ n1 \in Int
  <2>. HIDE DEF m2, n2
  <2>. QED BY <1>5
<1>7. x0 + 2 * m1 = y0 + 2 * n1
  OBVIOUS
<1>8. x0 = y0 /\ m1 = n1
  <2>. HIDE DEF m1, n1
  <2>. QED BY <1>6, <1>7, DigitTells
<1>9. x1 + 2 * m2 = y1 + 2 * n2
  <2>. HIDE DEF m2, n2
  <2>. QED BY <1>8
<1>10. x1 = y1 /\ m2 = n2
  <2>. HIDE DEF m2, n2
  <2>. QED BY <1>5, <1>9, DigitTells
<1>11. x2 + 2 * m3 = y2 + 2 * n3
  <2>. HIDE DEF m3, n3
  <2>. QED BY <1>10
<1>12. x2 = y2 /\ m3 = n3
  <2>. HIDE DEF m3, n3
  <2>. QED BY <1>4, <1>11, DigitTells
<1>13. x3 + 2 * m4 = y3 + 2 * n4
  <2>. HIDE DEF m4, n4
  <2>. QED BY <1>12
<1>14. x3 = y3 /\ m4 = n4
  <2>. HIDE DEF m4, n4
  <2>. QED BY <1>3, <1>13, DigitTells
<1>15. x4 + 2 * m5 = y4 + 2 * n5
  <2>. HIDE DEF m5, n5
  <2>. QED BY <1>14
<1>16. x4 = y4 /\ m5 = n5
  <2>. HIDE DEF m5, n5
  <2>. QED BY <1>2, <1>15, DigitTells
<1>17. x5 + 2 * m6 = y5 + 2 * n6
  <2>. HIDE DEF m6, n6
  <2>. QED BY <1>16
<1>18. x5 = y5 /\ m6 = n6
  <2>. HIDE DEF m6, n6
  <2>. QED BY <1>1, <1>17, DigitTells
<1>19. x6 = y6 /\ x7 = y7
  BY <1>18, DigitTells
<1>. QED BY <1>8, <1>10, <1>12, <1>14, <1>16, <1>18, <1>19

\* The number of a register tells its bits.
LEMMA ByteOfTells ==
    ASSUME NEW a, NEW b, NEW from \in {0, 8}, ByteOf(a, from) = ByteOf(b, from)
    PROVE  \A k \in 0 .. 7 : from + k \in a <=> from + k \in b
<1>. DEFINE bit(r, k) == IF from + k \in r THEN 1 ELSE 0
<1>1. \A r, k : bit(r, k) \in {0, 1} /\ (bit(r, k) = 1 <=> from + k \in r)
  OBVIOUS
<1>2. \A r : ByteOf(r, from) = bit(r, 0) + 2 * bit(r, 1) + 4 * bit(r, 2) + 8 * bit(r, 3)
                    + 16 * bit(r, 4) + 32 * bit(r, 5) + 64 * bit(r, 6) + 128 * bit(r, 7)
  BY DEF ByteOf
<1>. HIDE DEF bit
<1>3. /\ bit(a, 0) = bit(b, 0) /\ bit(a, 1) = bit(b, 1) /\ bit(a, 2) = bit(b, 2)
      /\ bit(a, 3) = bit(b, 3) /\ bit(a, 4) = bit(b, 4) /\ bit(a, 5) = bit(b, 5)
      /\ bit(a, 6) = bit(b, 6) /\ bit(a, 7) = bit(b, 7)
  <2>1. \A k \in 0 .. 7 : bit(a, k) \in {0, 1} /\ bit(b, k) \in {0, 1}
    BY <1>1
  <2>. QED BY <1>2, <2>1, DigitsTell, SMTT(30)
<1>4. \A k \in 0 .. 7 : bit(a, k) = bit(b, k)
  BY <1>3
<1>. QED BY <1>1, <1>4

\* One byte that changes, whatever the length of the data and the place of
\* the byte, changes the checksum.
THEOREM CrcTellsOneByte ==
    \A s, t \in Seq(Byte) : \A k : OneApart(s, t, k) => crc16_modbus(s) # crc16_modbus(t)
<1>. SUFFICES ASSUME NEW s \in Seq(Byte), NEW t \in Seq(Byte), NEW k, OneApart(s, t, k),
                     crc16_modbus(s) = crc16_modbus(t)
              PROVE  FALSE
  BY Zenon
<1>. DEFINE a == Register(s)
            b == Register(t)
<1>1. a \in Registers /\ b \in Registers /\ a # b
  BY RegisterType, RegisterTells
<1>2. /\ ByteOf(a, 0) \in 0 .. 255 /\ ByteOf(a, 8) \in 0 .. 255
      /\ ByteOf(b, 0) \in 0 .. 255 /\ ByteOf(b, 8) \in 0 .. 255
  BY ByteOfType DEF Byte
<1>3. ByteOf(a, 0) + 256 * ByteOf(a, 8) = ByteOf(b, 0) + 256 * ByteOf(b, 8)
  BY DEF crc16_modbus
<1>. HIDE DEF a, b
<1>4. ByteOf(a, 0) = ByteOf(b, 0) /\ ByteOf(a, 8) = ByteOf(b, 8)
  <2>. DEFINE x == ByteOf(a, 0)
              y == ByteOf(b, 0)
              m == ByteOf(a, 8)
              n == ByteOf(b, 8)
  <2>1. x \in 0 .. 255 /\ y \in 0 .. 255 /\ m \in 0 .. 255 /\ n \in 0 .. 255
    BY <1>2
  <2>2. x + 256 * m = y + 256 * n
    BY <1>3
  <2>. HIDE DEF x, y, m, n
  <2>3. x = y /\ m = n
    BY <2>1, <2>2, Z3
  <2>. QED BY <2>3 DEF x, y, m, n
<1>5. \A k1 \in 0 .. 7 : /\ k1 \in a <=> k1 \in b
                         /\ 8 + k1 \in a <=> 8 + k1 \in b
  <2>1. \A k1 \in 0 .. 7 : 0 + k1 = k1
    OBVIOUS
  <2>. QED BY <1>4, <2>1, ByteOfTells
<1>6. \A n \in 0 .. 15 : n \in 0 .. 7 \/ (n - 8 \in 0 .. 7 /\ 8 + (n - 8) = n)
  OBVIOUS
<1>7. \A n \in 0 .. 15 : n \in a <=> n \in b
  BY <1>5, <1>6
<1>. QED BY <1>1, <1>7 DEF Registers
-----------------------------------------------------------------------------
(* What the tools build, for every offset and frame. *)

Frames == [checksum : BOOLEAN, size_byte : BOOLEAN]

\* The sequence s begins with a and b.
Begins(s, a, b) == s \in Seq(Nat) /\ Len(s) >= 2 /\ s[1] = a /\ s[2] = b

\* Appending keeps what is there, and the appended elements follow it.
LEMMA Concat ==
    ASSUME NEW s \in Seq(Nat), NEW t \in Seq(Nat)
    PROVE  /\ s \o t \in Seq(Nat) /\ Len(s \o t) = Len(s) + Len(t)
           /\ \A i \in 1 .. Len(s) : (s \o t)[i] = s[i]
           /\ \A i \in 1 .. Len(t) : (s \o t)[Len(s) + i] = t[i]
OBVIOUS

\* What a sequence begins with stays when it grows.
LEMMA StillBegins ==
    \A s, t, a, b : Begins(s, a, b) /\ t \in Seq(Nat) => Begins(s \o t, a, b)
<1>. SUFFICES ASSUME NEW s, NEW t, NEW a, NEW b, Begins(s, a, b), t \in Seq(Nat)
              PROVE  Begins(s \o t, a, b)
  BY Zenon
<1>1. s \in Seq(Nat) /\ Len(s) >= 2 /\ s[1] = a /\ s[2] = b
  BY Zenon DEF Begins
<1>2. 1 \in 1 .. Len(s) /\ 2 \in 1 .. Len(s) /\ Len(s) + Len(t) >= 2
  BY <1>1
<1>. QED BY <1>1, <1>2, Concat, Zenon DEF Begins

\* The words are sequences of numbers.
LEMMA Le16Numbers == \A n \in Nat : Le16(n) \in Seq(Nat)
<1>1. \A n \in Nat : n % 256 \in Nat /\ (n \div 256) % 256 \in Nat
  OBVIOUS
<1>. QED BY <1>1 DEF Le16

\* So are the double words.
LEMMA Le32Numbers == \A n \in Nat : Le32(n) \in Seq(Nat)
<1>1. \A n \in Nat : n % 65536 \in Nat /\ n \div 65536 \in Nat
  OBVIOUS
<1>2. ASSUME NEW n \in Nat PROVE Le32(n) \in Seq(Nat)
  <2>. DEFINE low == Le16(n % 65536)
              high == Le16(n \div 65536)
  <2>1. low \in Seq(Nat) /\ high \in Seq(Nat)
    BY <1>1, Le16Numbers
  <2>2. Le32(n) = low \o high
    BY DEF Le32
  <2>. HIDE DEF low, high
  <2>. QED BY <2>1, <2>2, Concat, Zenon
<1>. QED BY <1>2, Zenon

\* And the stack fill.
LEMMA FillNumbers == \A n \in Nat : Fill(n) \in Seq(Nat) /\ Fill(n) \in Seq(Byte)
BY DEF Fill, STACK_FILL, Byte

\* A section body begins with the request, low byte first.
LEMMA SectionBegins ==
    ASSUME NEW total \in Nat, NEW offset \in Nat, NEW checksum \in BOOLEAN,
           NEW data \in Seq(Nat), data \in Seq(Byte)
    PROVE  Begins(Section(PRO2_READ, total, offset, data, checksum), 2, 0)
<1>. DEFINE crc == IF checksum THEN crc16_modbus(data) ELSE 0
            w1 == Le16(PRO2_READ)
            w2 == Le16(0)
            w3 == Le16(Len(data))
            w4 == Le16(crc)
            d1 == Le32(total)
            d2 == Le32(offset)
<1>1. crc \in Nat
  <2>1. crc16_modbus(data) \in Nat
    BY CrcIsAWord, SMT DEF Half
  <2>2. CASE checksum
    BY <2>1, <2>2, Zenon
  <2>3. CASE ~checksum
    <3>1. 0 \in Nat
      OBVIOUS
    <3>. QED BY <2>3, <3>1, Zenon
  <2>. QED BY <2>2, <2>3, Zenon
<1>2. Section(PRO2_READ, total, offset, data, checksum)
      = w1 \o w2 \o w3 \o w4 \o d1 \o d2 \o data
  BY Zenon DEF Section
<1>3. Begins(w1, 2, 0)
  BY DEF Le16, PRO2_READ, Begins
<1>. HIDE DEF crc
<1>4. w2 \in Seq(Nat) /\ w3 \in Seq(Nat) /\ w4 \in Seq(Nat)
  <2>1. Len(data) \in Nat
    OBVIOUS
  <2>. QED BY <1>1, <2>1, Le16Numbers
<1>5. d1 \in Seq(Nat) /\ d2 \in Seq(Nat)
  BY Le32Numbers
<1>. HIDE DEF w1, w2, w3, w4, d1, d2
<1>6. Begins(w1 \o w2 \o w3, 2, 0)
  BY <1>3, <1>4, StillBegins, Zenon
<1>7. Begins(w1 \o w2 \o w3 \o w4 \o d1, 2, 0)
  BY <1>4, <1>5, <1>6, StillBegins, Zenon
<1>8. Begins(w1 \o w2 \o w3 \o w4 \o d1 \o d2 \o data, 2, 0)
  BY <1>5, <1>7, StillBegins, Zenon
<1>. QED BY <1>2, <1>8, Zenon

\* Where a section begins in its report, in either frame.
LEMMA SectionInReport ==
    ASSUME NEW body, NEW a, NEW b, Begins(body, a, b), NEW size_byte \in BOOLEAN
    PROVE  LET p == PadReport(WrapSection(body, size_byte))
           IN  /\ p[0] = REPORT_OUT
               /\ size_byte => p[2] = SECTION /\ p[3] = a /\ p[4] = b
               /\ ~size_byte => p[1] = SECTION /\ p[2] = a /\ p[3] = b
<1>1. body \in Seq(Nat) /\ Len(body) >= 2 /\ body[1] = a /\ body[2] = b
  BY Zenon DEF Begins
<1>2. ASSUME NEW header \in Seq(Nat), NEW at \in {2, 3}, Len(header) = at
      PROVE  LET payload == header \o body
                 p == PadReport(payload)
             IN  p[0] = header[1] /\ p[at - 1] = header[at] /\ p[at] = a /\ p[at + 1] = b
  <2>. DEFINE payload == header \o body
              p == PadReport(payload)
  <2>1. /\ payload \in Seq(Nat) /\ Len(payload) = Len(header) + Len(body)
        /\ \A i \in 1 .. Len(header) : payload[i] = header[i]
        /\ \A i \in 1 .. Len(body) : payload[Len(header) + i] = body[i]
    BY <1>1, Concat, Zenon
  <2>. HIDE DEF payload
  <2>2. Len(payload) >= at + 2
    BY <1>1, <1>2, <2>1
  <2>3. \A i \in 0 .. 4 : i < Len(payload) => p[i] = payload[i + 1]
    BY DEF PadReport, Size
  <2>. HIDE DEF p
  <2>4. /\ payload[1] = header[1] /\ payload[at] = header[at]
        /\ payload[at + 1] = a /\ payload[at + 2] = b
    BY <1>1, <1>2, <2>1, SMTT(30)
  <2>5. /\ p[0] = payload[1] /\ p[at - 1] = payload[at]
        /\ p[at] = payload[at + 1] /\ p[at + 1] = payload[at + 2]
    BY <2>2, <2>3
  <2>. QED BY <2>4, <2>5, Zenon DEF p, payload
<1>3. CASE size_byte
  <2>. DEFINE header == <<REPORT_OUT, Len(body) + 1, SECTION>>
              p == PadReport(header \o body)
  <2>1. header \in Seq(Nat) /\ Len(header) = 3 /\ header[1] = REPORT_OUT /\ header[3] = SECTION
    BY <1>1 DEF REPORT_OUT, SECTION
  <2>2. WrapSection(body, size_byte) = header \o body
    BY <1>3, Zenon DEF WrapSection
  <2>. HIDE DEF header
  <2>3. p[0] = header[1] /\ p[3 - 1] = header[3] /\ p[3] = a /\ p[3 + 1] = b
    BY <1>2, <2>1, Zenon
  <2>4. 3 - 1 = 2 /\ 3 + 1 = 4
    OBVIOUS
  <2>. QED BY <1>3, <2>1, <2>2, <2>3, <2>4, Zenon
<1>4. CASE ~size_byte
  <2>. DEFINE header == <<REPORT_OUT, SECTION>>
              p == PadReport(header \o body)
  <2>1. header \in Seq(Nat) /\ Len(header) = 2 /\ header[1] = REPORT_OUT /\ header[2] = SECTION
    BY DEF REPORT_OUT, SECTION
  <2>2. WrapSection(body, size_byte) = header \o body
    BY <1>4, Zenon DEF WrapSection
  <2>. HIDE DEF header
  <2>3. p[0] = header[1] /\ p[2 - 1] = header[2] /\ p[2] = a /\ p[2 + 1] = b
    BY <1>2, <2>1, Zenon
  <2>4. 2 - 1 = 1 /\ 2 + 1 = 3
    OBVIOUS
  <2>. QED BY <1>4, <2>1, <2>2, <2>3, <2>4, Zenon
<1>. QED BY <1>3, <1>4, Zenon

\* A chunk request says request 2 where its frame has the request.
LEMMA ReadChunkBytes ==
    ASSUME NEW total \in Nat, NEW offset \in 0 .. total, NEW frame \in Frames
    PROVE  LET p == PadReport(Pro2ReadChunk(offset, total, frame))
           IN  /\ p[0] = REPORT_OUT
               /\ frame.size_byte => p[2] = SECTION /\ p[3] = 2 /\ p[4] = 0
               /\ ~frame.size_byte => p[1] = SECTION /\ p[2] = 2 /\ p[3] = 0
<1>. DEFINE data == Fill(ChunkLength(offset, total))
            body == Section(PRO2_READ, total, offset, data, frame.checksum)
<1>1. ChunkLength(offset, total) \in Nat
  BY DEF ChunkLength, Min2, CUSTOM_INFO_CHUNK
<1>2. data \in Seq(Nat) /\ data \in Seq(Byte)
  BY <1>1, FillNumbers, Zenon
<1>3. frame.checksum \in BOOLEAN /\ frame.size_byte \in BOOLEAN /\ offset \in Nat
  BY DEF Frames
<1>4. Pro2ReadChunk(offset, total, frame) = WrapSection(body, frame.size_byte)
  BY Zenon DEF Pro2ReadChunk
<1>. HIDE DEF data
<1>5. Begins(body, 2, 0)
  BY <1>2, <1>3, SectionBegins, Zenon
<1>. DEFINE size_byte == frame.size_byte
<1>6. size_byte \in BOOLEAN
  BY <1>3
<1>. HIDE DEF body, size_byte
<1>7. LET p == PadReport(WrapSection(body, size_byte))
      IN  /\ p[0] = REPORT_OUT
          /\ size_byte => p[2] = SECTION /\ p[3] = 2 /\ p[4] = 0
          /\ ~size_byte => p[1] = SECTION /\ p[2] = 2 /\ p[3] = 0
  BY <1>5, <1>6, SectionInReport, Zenon
<1>. QED BY <1>4, <1>7, Zenon DEF size_byte

\* The allowlist lets every chunk request of a read through, at every offset
\* of a section of any size and in every frame (read_config.py 54-70, 275-277).
THEOREM ReadsAreAllowed ==
    ASSUME NEW total \in Nat, NEW offset \in 0 .. total, NEW frame \in Frames
    PROVE  Allowed(PadReport(Pro2ReadChunk(offset, total, frame)), FALSE)
<1>. DEFINE p == PadReport(Pro2ReadChunk(offset, total, frame))
<1>1. /\ p[0] = REPORT_OUT
      /\ \/ p[2] = SECTION /\ p[3] = 2 /\ p[4] = 0
         \/ p[1] = SECTION /\ p[2] = 2 /\ p[3] = 0
  BY ReadChunkBytes, Zenon
<1>. HIDE DEF p
<1>2. OnReadList(p)
  BY <1>1 DEF OnReadList, ReadsSized, ReadsUnsized, Word, PRO2_READ, SECTION
<1>3. p # PadReport(SWITCH_TO_DINPUT)
  <2>1. /\ PadReport(SWITCH_TO_DINPUT)[1] = 5 /\ PadReport(SWITCH_TO_DINPUT)[2] = 0
    BY DEF PadReport, SWITCH_TO_DINPUT, Size
  <2>. QED BY <1>1, <2>1 DEF SECTION
<1>. QED BY <1>1, <1>2, <1>3 DEF Allowed, p

\* The same of the custom_info read (read_config.py 63-65, 284).
THEOREM CustomInfoReadsAreAllowed ==
    ASSUME NEW offset \in 0 .. CUSTOM_INFO_TOTAL
    PROVE  Allowed(PadReport(CustomInfoChunk(offset)), FALSE)
<1>. DEFINE length == ChunkLength(offset, CUSTOM_INFO_TOTAL)
            request == <<CUSTOM_INFO_REQUEST>>
            one == <<length>>
            total == Le16(CUSTOM_INFO_TOTAL)
            at == Le16(offset)
            f1 == Fill(1)
            f2 == Fill(2)
            f7 == Fill(7)
            data == Fill(length)
            body == request \o f7 \o one \o f1 \o total \o at \o f2 \o data
            p == PadReport(WrapSection(body, TRUE))
<1>1. length \in Nat
  BY DEF ChunkLength, Min2, CUSTOM_INFO_CHUNK, CUSTOM_INFO_TOTAL
<1>2. CustomInfoChunk(offset) = WrapSection(body, TRUE)
  BY Zenon DEF CustomInfoChunk
<1>. HIDE DEF length
<1>3. one \in Seq(Nat) /\ total \in Seq(Nat) /\ at \in Seq(Nat)
  <2>1. one \in Seq(Nat)
    BY <1>1
  <2>2. CUSTOM_INFO_TOTAL \in Nat /\ offset \in Nat
    BY DEF CUSTOM_INFO_TOTAL
  <2>. QED BY <2>1, <2>2, Le16Numbers, Zenon
<1>4. f1 \in Seq(Nat) /\ f2 \in Seq(Nat) /\ f7 \in Seq(Nat) /\ data \in Seq(Nat)
  BY <1>1, FillNumbers
<1>5. Len(f7) = 7 /\ f7[1] = STACK_FILL
  BY DEF Fill, STACK_FILL
<1>6. request \in Seq(Nat) /\ Len(request) = 1 /\ request[1] = CUSTOM_INFO_REQUEST
  BY DEF CUSTOM_INFO_REQUEST
<1>. HIDE DEF request, one, total, at, f1, f2, f7, data
<1>7. Begins(request \o f7, CUSTOM_INFO_REQUEST, STACK_FILL)
  <2>1. /\ request \o f7 \in Seq(Nat) /\ Len(request \o f7) = Len(request) + Len(f7)
        /\ \A i \in 1 .. Len(request) : (request \o f7)[i] = request[i]
        /\ \A i \in 1 .. Len(f7) : (request \o f7)[Len(request) + i] = f7[i]
    BY <1>4, <1>6, Concat, Zenon
  <2>2. /\ 1 \in 1 .. Len(request) /\ 1 \in 1 .. Len(f7) /\ Len(request) + 1 = 2
        /\ Len(request) + Len(f7) >= 2
    BY <1>5, <1>6
  <2>3. (request \o f7)[1] = CUSTOM_INFO_REQUEST /\ (request \o f7)[2] = STACK_FILL
    <3>1. (request \o f7)[1] = request[1] /\ (request \o f7)[Len(request) + 1] = f7[1]
      BY <2>1, <2>2, Zenon
    <3>. QED BY <1>5, <1>6, <2>2, <3>1, Zenon
  <2>. QED BY <2>1, <2>2, <2>3, Zenon DEF Begins
<1>8. Begins(body, CUSTOM_INFO_REQUEST, STACK_FILL)
  <2>1. Begins(request \o f7 \o one \o f1, CUSTOM_INFO_REQUEST, STACK_FILL)
    BY <1>3, <1>4, <1>7, StillBegins, Zenon
  <2>2. Begins(request \o f7 \o one \o f1 \o total \o at, CUSTOM_INFO_REQUEST, STACK_FILL)
    BY <1>3, <2>1, StillBegins, Zenon
  <2>. QED BY <1>4, <2>2, StillBegins, Zenon
<1>. HIDE DEF body
<1>9. p[0] = REPORT_OUT /\ p[2] = SECTION /\ p[3] = CUSTOM_INFO_REQUEST /\ p[4] = STACK_FILL
  BY <1>8, SectionInReport
<1>. HIDE DEF p
<1>10. p # PadReport(SWITCH_TO_DINPUT)
  <2>1. PadReport(SWITCH_TO_DINPUT)[2] = 0
    BY DEF PadReport, SWITCH_TO_DINPUT, Size
  <2>. QED BY <1>9, <2>1 DEF SECTION
<1>. QED
  BY <1>2, <1>9, <1>10 DEF Allowed, OnReadList, ReadsCustomInfo, CUSTOM_INFO_REQUEST, STACK_FILL, p
-----------------------------------------------------------------------------
(* What is read in a report that carries a section, by a pad or by a parser. *)

LEMMA HalfIsNat == 0 \in Half /\ 0 \in Nat /\ \A n \in Half : n \in Nat
BY Z3 DEF Half

LEMMA SmallIsHalf == \A n \in Nat : n <= 2000 => n \in Half
BY Z3 DEF Half

\* A number of two bytes is the sum of its bytes.
LEMMA HalfSplits ==
    ASSUME NEW n \in Half
    PROVE  (n % 256) + 256 * ((n \div 256) % 256) = n
<1>. DEFINE q == n \div 256
            r == n % 256
<1>1. n \in Nat /\ n < 65536
  BY SMT DEF Half
<1>2. q \in Nat /\ q < 256
  BY <1>1, Z3
<1>3. r = n - 256 * q
  BY <1>1, Z3
<1>. HIDE DEF q, r
<1>4. q % 256 = q
  BY <1>2, Z3
<1>. QED BY <1>1, <1>2, <1>3, <1>4, SMT DEF q, r

\* Two bytes, low first, and the number they stand for.
LEMMA Le16Bytes ==
    ASSUME NEW n \in Nat
    PROVE  /\ Le16(n) \in Seq(Byte) /\ Len(Le16(n)) = 2
           /\ n \in Half => Le16(n)[1] + 256 * Le16(n)[2] = n
<1>1. n % 256 \in Byte /\ (n \div 256) % 256 \in Byte
  BY DEF Byte
<1>2. n \in Half => (n % 256) + 256 * ((n \div 256) % 256) = n
  BY HalfSplits
<1>. QED BY <1>1, <1>2 DEF Le16

\* One sequence of bytes after another.
LEMMA ConcatBytes ==
    ASSUME NEW s \in Seq(Byte), NEW t \in Seq(Byte)
    PROVE  /\ s \o t \in Seq(Byte) /\ Len(s \o t) = Len(s) + Len(t)
           /\ \A i \in 1 .. Len(s) : (s \o t)[i] = s[i]
           /\ \A i \in 1 .. Len(t) : (s \o t)[Len(s) + i] = t[i]
OBVIOUS

\* A word after a sequence.
LEMMA WordFollows ==
    ASSUME NEW s \in Seq(Byte), NEW t \in Seq(Byte), Len(t) >= 2
    PROVE  /\ s \o t \in Seq(Byte) /\ Len(s \o t) = Len(s) + Len(t)
           /\ \A i \in 1 .. Len(s) : (s \o t)[i] = s[i]
           /\ (s \o t)[Len(s) + 1] = t[1] /\ (s \o t)[Len(s) + 2] = t[2]
<1>1. 1 \in 1 .. Len(t) /\ 2 \in 1 .. Len(t)
  OBVIOUS
<1>. DEFINE r == s \o t
<1>2. /\ r \in Seq(Byte) /\ Len(r) = Len(s) + Len(t)
      /\ \A i \in 1 .. Len(s) : r[i] = s[i]
      /\ \A i \in 1 .. Len(t) : r[Len(s) + i] = t[i]
  BY ConcatBytes, Zenon
<1>. HIDE DEF r
<1>3. r[Len(s) + 1] = t[1] /\ r[Len(s) + 2] = t[2]
  BY <1>1, <1>2
<1>. QED BY <1>2, <1>3, Zenon DEF r

\* Of a double word, the low half is in its first two bytes.
LEMMA Le32Bytes ==
    ASSUME NEW n \in Nat
    PROVE  /\ Le32(n) \in Seq(Byte) /\ Len(Le32(n)) = 4
           /\ n \in Half => Le32(n)[1] + 256 * Le32(n)[2] = n
<1>. DEFINE m == n % 65536
            k == n \div 65536
            low == Le16(m)
            high == Le16(k)
            r == low \o high
<1>1. m \in Nat /\ k \in Nat /\ (n \in Half => m = n)
  <2>1. m \in Nat /\ k \in Nat
    BY SMT
  <2>2. ASSUME n < 65536 PROVE m = n
    BY <2>2, Z3
  <2>3. n \in Half => n < 65536
    BY SMT DEF Half
  <2>. QED BY <2>1, <2>2, <2>3
<1>2. Le32(n) = r
  BY DEF Le32
<1>. HIDE DEF m, k
<1>3. /\ low \in Seq(Byte) /\ Len(low) = 2 /\ high \in Seq(Byte) /\ Len(high) = 2
      /\ n \in Half => low[1] + 256 * low[2] = n
  BY <1>1, Le16Bytes
<1>. HIDE DEF low, high
<1>4. /\ r \in Seq(Byte) /\ Len(r) = Len(low) + Len(high)
      /\ \A i \in 1 .. Len(low) : r[i] = low[i]
  BY <1>3, ConcatBytes, Zenon
<1>. HIDE DEF r
<1>5. r[1] = low[1] /\ r[2] = low[2] /\ Len(r) = 4
  BY <1>3, <1>4
<1>. QED BY <1>2, <1>3, <1>4, <1>5, Zenon

\* Where the words of a header come to lie.
Joined(s, a, b, c, d, f, data) ==
    /\ s \in Seq(Byte) /\ Len(s) = 16 + Len(data)
    /\ s[1] = a[1] /\ s[2] = a[2] /\ s[3] = b[1] /\ s[4] = b[2]
    /\ s[5] = c[1] /\ s[6] = c[2] /\ s[7] = d[1] /\ s[8] = d[2]
    /\ s[13] = f[1] /\ s[14] = f[2]
    /\ \A i \in 1 .. Len(data) : s[16 + i] = data[i]

LEMMA HeaderJoins ==
    ASSUME NEW a \in Seq(Byte), NEW b \in Seq(Byte), NEW c \in Seq(Byte), NEW d \in Seq(Byte),
           NEW e \in Seq(Byte), NEW f \in Seq(Byte), NEW data \in Seq(Byte),
           Len(a) = 2, Len(b) = 2, Len(c) = 2, Len(d) = 2, Len(e) = 4, Len(f) = 4
    PROVE  Joined(a \o b \o c \o d \o e \o f \o data, a, b, c, d, f, data)
<1>. DEFINE s2 == a \o b
            s3 == s2 \o c
            s4 == s3 \o d
            s5 == s4 \o e
            s6 == s5 \o f
            s7 == s6 \o data
<1>0. Len(b) >= 2 /\ Len(c) >= 2 /\ Len(d) >= 2 /\ Len(e) >= 2 /\ Len(f) >= 2
  OBVIOUS
<1>1. /\ s2 \in Seq(Byte) /\ Len(s2) = 4 /\ \A i \in 1 .. 2 : s2[i] = a[i]
      /\ s2[3] = b[1] /\ s2[4] = b[2]
  <2>1. /\ s2 \in Seq(Byte) /\ Len(s2) = Len(a) + Len(b)
        /\ \A i \in 1 .. Len(a) : s2[i] = a[i]
        /\ s2[Len(a) + 1] = b[1] /\ s2[Len(a) + 2] = b[2]
    BY <1>0, WordFollows, Zenon
  <2>. HIDE DEF s2
  <2>. QED BY <2>1
<1>. HIDE DEF s2
<1>2. /\ s3 \in Seq(Byte) /\ Len(s3) = 6 /\ \A i \in 1 .. 4 : s3[i] = s2[i]
      /\ s3[5] = c[1] /\ s3[6] = c[2]
  <2>0. s2 \in Seq(Byte)
    BY <1>1, Zenon
  <2>1. /\ s3 \in Seq(Byte) /\ Len(s3) = Len(s2) + Len(c)
        /\ \A i \in 1 .. Len(s2) : s3[i] = s2[i]
        /\ s3[Len(s2) + 1] = c[1] /\ s3[Len(s2) + 2] = c[2]
    BY <1>0, <2>0, WordFollows, Zenon
  <2>. HIDE DEF s3
  <2>. QED BY <1>1, <2>1
<1>. HIDE DEF s3
<1>3. /\ s4 \in Seq(Byte) /\ Len(s4) = 8 /\ \A i \in 1 .. 6 : s4[i] = s3[i]
      /\ s4[7] = d[1] /\ s4[8] = d[2]
  <2>0. s3 \in Seq(Byte)
    BY <1>2, Zenon
  <2>1. /\ s4 \in Seq(Byte) /\ Len(s4) = Len(s3) + Len(d)
        /\ \A i \in 1 .. Len(s3) : s4[i] = s3[i]
        /\ s4[Len(s3) + 1] = d[1] /\ s4[Len(s3) + 2] = d[2]
    BY <1>0, <2>0, WordFollows, Zenon
  <2>. HIDE DEF s4
  <2>. QED BY <1>2, <2>1
<1>. HIDE DEF s4
<1>4. /\ s5 \in Seq(Byte) /\ Len(s5) = 12 /\ \A i \in 1 .. 8 : s5[i] = s4[i]
      /\ s5[9] = e[1] /\ s5[10] = e[2]
  <2>0. s4 \in Seq(Byte)
    BY <1>3, Zenon
  <2>1. /\ s5 \in Seq(Byte) /\ Len(s5) = Len(s4) + Len(e)
        /\ \A i \in 1 .. Len(s4) : s5[i] = s4[i]
        /\ s5[Len(s4) + 1] = e[1] /\ s5[Len(s4) + 2] = e[2]
    BY <1>0, <2>0, WordFollows, Zenon
  <2>. HIDE DEF s5
  <2>. QED BY <1>3, <2>1
<1>. HIDE DEF s5
<1>5. /\ s6 \in Seq(Byte) /\ Len(s6) = 16 /\ \A i \in 1 .. 12 : s6[i] = s5[i]
      /\ s6[13] = f[1] /\ s6[14] = f[2]
  <2>0. s5 \in Seq(Byte)
    BY <1>4, Zenon
  <2>1. /\ s6 \in Seq(Byte) /\ Len(s6) = Len(s5) + Len(f)
        /\ \A i \in 1 .. Len(s5) : s6[i] = s5[i]
        /\ s6[Len(s5) + 1] = f[1] /\ s6[Len(s5) + 2] = f[2]
    BY <1>0, <2>0, WordFollows, Zenon
  <2>. HIDE DEF s6
  <2>. QED BY <1>4, <2>1
<1>. HIDE DEF s6
<1>6. /\ s7 \in Seq(Byte) /\ Len(s7) = Len(s6) + Len(data)
      /\ \A i \in 1 .. Len(s6) : s7[i] = s6[i]
      /\ \A i \in 1 .. Len(data) : s7[Len(s6) + i] = data[i]
  <2>1. s6 \in Seq(Byte)
    BY <1>5, Zenon
  <2>. QED BY <2>1, ConcatBytes, Zenon
<1>7. s7 = a \o b \o c \o d \o e \o f \o data
  BY Zenon DEF s2, s3, s4, s5, s6
<1>. HIDE DEF s7
<1>8. Len(s6) = 16
  BY <1>5, Zenon
<1>9. /\ s7[1] = a[1] /\ s7[2] = a[2] /\ s7[3] = b[1] /\ s7[4] = b[2]
      /\ s7[5] = c[1] /\ s7[6] = c[2] /\ s7[7] = d[1] /\ s7[8] = d[2]
      /\ s7[13] = f[1] /\ s7[14] = f[2]
  <2>1. \A i \in 1 .. 16 : s7[i] = s6[i]
    BY <1>6, <1>8
  <2>2. \A i \in 1 .. 12 : s7[i] = s5[i]
    <3>1. \A i \in 1 .. 12 : s6[i] = s5[i]
      BY <1>5, Zenon
    <3>. QED BY <2>1, <3>1, SMTT(30)
  <2>3. \A i \in 1 .. 8 : s7[i] = s4[i]
    BY <2>2, <1>4, SMTT(30)
  <2>4. \A i \in 1 .. 6 : s7[i] = s3[i]
    BY <2>3, <1>3
  <2>5. \A i \in 1 .. 4 : s7[i] = s2[i]
    BY <2>4, <1>2
  <2>6. s7[1] = s2[1] /\ s7[2] = s2[2] /\ s7[3] = s2[3] /\ s7[4] = s2[4]
    BY <2>5
  <2>7. s7[5] = s3[5] /\ s7[6] = s3[6]
    BY <2>4
  <2>8. s7[7] = s4[7] /\ s7[8] = s4[8]
    BY <2>3
  <2>9. s7[13] = s6[13] /\ s7[14] = s6[14]
    BY <2>1
  <2>10. s2[1] = a[1] /\ s2[2] = a[2]
    BY <1>1
  <2>. QED BY <1>1, <1>2, <1>3, <1>5, <2>6, <2>7, <2>8, <2>9, <2>10, Zenon
<1>. QED BY <1>6, <1>7, <1>8, <1>9, Zenon DEF Joined

\* The fields of a section.
Checked(data, checksum) == IF checksum THEN crc16_modbus(data) ELSE 0
HasFields(s, request, offset, data, crc) ==
    /\ s \in Seq(Byte) /\ Len(s) = 16 + Len(data)
    /\ s[1] + 256 * s[2] = request
    /\ s[5] + 256 * s[6] = Len(data)
    /\ s[7] + 256 * s[8] = crc
    /\ s[13] + 256 * s[14] = offset
    /\ \A i \in 1 .. Len(data) : s[16 + i] = data[i]

LEMMA CheckedIsAWord ==
    ASSUME NEW data \in Seq(Byte), NEW checksum \in BOOLEAN
    PROVE  Checked(data, checksum) \in Half
<1>1. crc16_modbus(data) \in Half
  BY CrcIsAWord, Zenon
<1>2. CASE checksum
  BY <1>1, <1>2, Zenon DEF Checked
<1>3. CASE ~checksum
  BY <1>3, HalfIsNat, Zenon DEF Checked
<1>. QED BY <1>2, <1>3, Zenon

LEMMA SectionFields ==
    ASSUME NEW request \in Half, NEW total \in Nat, NEW offset \in Half,
           NEW data \in Seq(Byte), Len(data) \in Half, NEW checksum \in BOOLEAN
    PROVE  HasFields(Section(request, total, offset, data, checksum),
                     request, offset, data, Checked(data, checksum))
<1>. DEFINE crc == Checked(data, checksum)
            length == Len(data)
            a == Le16(request)
            b == Le16(0)
            c == Le16(length)
            d == Le16(crc)
            e == Le32(total)
            f == Le32(offset)
            s == a \o b \o c \o d \o e \o f \o data
<1>1. crc \in Half
  BY CheckedIsAWord, Zenon
<1>2. Section(request, total, offset, data, checksum) = s
  BY Zenon DEF Section, Checked
<1>. HIDE DEF crc, length
<1>3. length \in Half
  BY Zenon DEF length
<1>4. /\ a \in Seq(Byte) /\ Len(a) = 2 /\ a[1] + 256 * a[2] = request
      /\ b \in Seq(Byte) /\ Len(b) = 2
      /\ c \in Seq(Byte) /\ Len(c) = 2 /\ c[1] + 256 * c[2] = length
      /\ d \in Seq(Byte) /\ Len(d) = 2 /\ d[1] + 256 * d[2] = crc
  BY <1>1, <1>3, HalfIsNat, Le16Bytes, Zenon
<1>5. e \in Seq(Byte) /\ Len(e) = 4 /\ f \in Seq(Byte) /\ Len(f) = 4
      /\ f[1] + 256 * f[2] = offset
  BY HalfIsNat, Le32Bytes, Zenon
<1>. HIDE DEF a, b, c, d, e, f
<1>6. /\ a \in Seq(Byte) /\ b \in Seq(Byte) /\ c \in Seq(Byte) /\ d \in Seq(Byte)
      /\ e \in Seq(Byte) /\ f \in Seq(Byte)
      /\ Len(a) = 2 /\ Len(b) = 2 /\ Len(c) = 2 /\ Len(d) = 2 /\ Len(e) = 4 /\ Len(f) = 4
  BY <1>4, <1>5, SMT
<1>7. /\ s \in Seq(Byte) /\ Len(s) = 16 + Len(data)
      /\ s[1] = a[1] /\ s[2] = a[2] /\ s[5] = c[1] /\ s[6] = c[2] /\ s[7] = d[1] /\ s[8] = d[2]
      /\ s[13] = f[1] /\ s[14] = f[2]
      /\ \A i \in 1 .. Len(data) : s[16 + i] = data[i]
  <2>1. Joined(s, a, b, c, d, f, data)
    BY <1>6, HeaderJoins, Zenon
  <2>. HIDE DEF s
  <2>. QED BY <2>1, Zenon DEF Joined
<1>. HIDE DEF s
<1>8. s[1] + 256 * s[2] = request /\ s[5] + 256 * s[6] = Len(data)
      /\ s[7] + 256 * s[8] = crc /\ s[13] + 256 * s[14] = offset
  BY <1>4, <1>5, <1>7, Zenon DEF length
<1>. QED BY <1>2, <1>7, <1>8, Zenon DEF crc, HasFields

\* A payload in its report.
LEMMA PayloadInReport ==
    ASSUME NEW payload \in Seq(Byte)
    PROVE  /\ PadReport(payload) \in Packet
           /\ \A i \in 0 .. 63 : i < Len(payload) => PadReport(payload)[i] = payload[i + 1]
<1>1. 0 \in Byte
  BY DEF Byte
<1>2. ASSUME NEW i \in 0 .. 63
      PROVE  (IF i < Len(payload) THEN payload[i + 1] ELSE 0) \in Byte
  BY <1>1
<1>3. PadReport(payload) = [i \in 0 .. 63 |-> IF i < Len(payload) THEN payload[i + 1] ELSE 0]
  BY DEF PadReport, Size
<1>4. Packet = [0 .. 63 -> Byte]
  BY DEF Packet, Size
<1>. QED BY <1>2, <1>3, <1>4

\* A payload of a header and a section.
LEMMA HeaderAndSection ==
    ASSUME NEW s \in Seq(Byte), Len(s) <= 61,
           NEW header \in Seq(Byte), NEW h \in {2, 3}, Len(header) = h
    PROVE  LET p == PadReport(header \o s)
           IN  /\ p \in Packet /\ p[0] = header[1] /\ p[1] = header[2] /\ p[h - 1] = header[h]
               /\ \A i \in 1 .. Len(s) : p[h - 1 + i] = s[i]
<1>. DEFINE payload == header \o s
            p == PadReport(payload)
<1>1. /\ payload \in Seq(Byte) /\ Len(payload) = Len(header) + Len(s)
      /\ \A i \in 1 .. Len(header) : payload[i] = header[i]
      /\ \A i \in 1 .. Len(s) : payload[Len(header) + i] = s[i]
  BY ConcatBytes, Zenon
<1>. HIDE DEF payload
<1>2. p \in Packet /\ \A i \in 0 .. 63 : i < Len(payload) => p[i] = payload[i + 1]
  BY <1>1, PayloadInReport, Zenon
<1>. HIDE DEF p
<1>3. Len(s) \in Nat /\ Len(payload) = h + Len(s)
  BY <1>1
<1>4. p[0] = payload[1] /\ p[1] = payload[2] /\ p[h - 1] = payload[h]
  <2>1. 0 \in 0 .. 63 /\ 1 \in 0 .. 63 /\ h - 1 \in 0 .. 63
        /\ 0 < Len(payload) /\ 1 < Len(payload) /\ h - 1 < Len(payload)
        /\ 0 + 1 = 1 /\ 1 + 1 = 2 /\ (h - 1) + 1 = h
    BY <1>3
  <2>. QED BY <1>2, <2>1
<1>5. payload[1] = header[1] /\ payload[2] = header[2] /\ payload[h] = header[h]
  <2>1. 1 \in 1 .. Len(header) /\ 2 \in 1 .. Len(header) /\ h \in 1 .. Len(header)
    OBVIOUS
  <2>. QED BY <1>1, <2>1, Zenon
<1>6. ASSUME NEW i \in 1 .. Len(s) PROVE p[h - 1 + i] = s[i]
  <2>1. h - 1 + i \in 0 .. 63 /\ h - 1 + i < Len(payload) /\ (h - 1 + i) + 1 = h + i
    BY <1>3
  <2>2. p[h - 1 + i] = payload[h + i]
    BY <1>2, <2>1
  <2>3. payload[h + i] = s[i]
    BY <1>1, Zenon
  <2>. QED BY <2>2, <2>3
<1>. QED BY <1>2, <1>4, <1>5, <1>6, Zenon DEF p, payload

\* A section in its report: its bytes follow the header, in either frame.
Wrapped(p, s, size_byte) ==
    LET h == HeaderAt(size_byte)
    IN  /\ p \in Packet /\ p[0] = REPORT_OUT /\ p[h - 1] = SECTION
        /\ size_byte => p[1] = Len(s) + 1
        /\ \A i \in 1 .. Len(s) : p[h - 1 + i] = s[i]

LEMMA WrappedBytes ==
    ASSUME NEW s \in Seq(Byte), Len(s) <= 61, NEW size_byte \in BOOLEAN
    PROVE  Wrapped(PadReport(WrapSection(s, size_byte)), s, size_byte)
<1>1. REPORT_OUT \in Byte /\ SECTION \in Byte /\ Len(s) + 1 \in Byte
  <2>1. Len(s) \in Nat
    OBVIOUS
  <2>2. ASSUME NEW n \in Nat, n <= 61 PROVE n + 1 \in Byte
    BY <2>2 DEF Byte
  <2>3. REPORT_OUT \in Byte /\ SECTION \in Byte
    BY DEF REPORT_OUT, SECTION, Byte
  <2>. QED BY <2>1, <2>2, <2>3
<1>2. CASE size_byte
  <2>. DEFINE header == <<REPORT_OUT, Len(s) + 1, SECTION>>
  <2>1. header \in Seq(Byte) /\ Len(header) = 3 /\ header[1] = REPORT_OUT
        /\ header[2] = Len(s) + 1 /\ header[3] = SECTION
    BY <1>1
  <2>2. WrapSection(s, size_byte) = header \o s /\ HeaderAt(size_byte) = 3
    BY <1>2, Zenon DEF WrapSection, HeaderAt
  <2>. HIDE DEF header
  <2>3. LET p == PadReport(header \o s)
        IN  /\ p \in Packet /\ p[0] = header[1] /\ p[1] = header[2] /\ p[3 - 1] = header[3]
            /\ \A i \in 1 .. Len(s) : p[3 - 1 + i] = s[i]
    BY <2>1, HeaderAndSection
  <2>. QED BY <2>1, <2>2, <2>3, Zenon DEF Wrapped
<1>3. CASE ~size_byte
  <2>. DEFINE header == <<REPORT_OUT, SECTION>>
  <2>1. header \in Seq(Byte) /\ Len(header) = 2 /\ header[1] = REPORT_OUT /\ header[2] = SECTION
    BY <1>1
  <2>2. WrapSection(s, size_byte) = header \o s /\ HeaderAt(size_byte) = 2
    BY <1>3, Zenon DEF WrapSection, HeaderAt
  <2>. HIDE DEF header
  <2>3. LET p == PadReport(header \o s)
        IN  /\ p \in Packet /\ p[0] = header[1] /\ p[1] = header[2] /\ p[2 - 1] = header[2]
            /\ \A i \in 1 .. Len(s) : p[2 - 1 + i] = s[i]
    BY <2>1, HeaderAndSection
  <2>. QED BY <1>3, <2>1, <2>2, <2>3, Zenon DEF Wrapped
<1>. QED BY <1>2, <1>3, Zenon

\* What a pad of its frame reads in a section's report.
ReadsAs(p, size_byte, request, offset, data, crc) ==
    /\ p \in Packet /\ TakesSection(p, size_byte)
    /\ RequestOf(p, size_byte) = request
    /\ OffsetOf(p, size_byte) = offset
    /\ LengthOf(p, size_byte) = Len(data)
    /\ Word(p, HeaderAt(size_byte) + 6) = crc
    /\ Bytes(p, HeaderAt(size_byte) + 16, Len(data)) = data

LEMMA WrappedIsRead ==
    ASSUME NEW s, NEW request, NEW offset, NEW data \in Seq(Byte), NEW crc,
           HasFields(s, request, offset, data, crc),
           NEW size_byte \in BOOLEAN, NEW p, Wrapped(p, s, size_byte)
    PROVE  ReadsAs(p, size_byte, request, offset, data, crc)
<1>. DEFINE h == HeaderAt(size_byte)
<1>1. h \in {2, 3}
  BY DEF HeaderAt
<1>. HIDE DEF h
<1>2. /\ p \in Packet /\ p[0] = REPORT_OUT /\ p[h - 1] = SECTION
      /\ \A i \in 1 .. Len(s) : p[h - 1 + i] = s[i]
  BY Zenon DEF Wrapped, h
<1>3. Len(s) = 16 + Len(data) /\ Len(data) \in Nat
  <2>1. Len(s) = 16 + Len(data)
    BY Zenon DEF HasFields
  <2>. QED BY <2>1
<1>4. p[h] = s[1] /\ p[h + 1] = s[2] /\ p[h + 4] = s[5] /\ p[h + 5] = s[6]
      /\ p[h + 6] = s[7] /\ p[h + 7] = s[8] /\ p[h + 12] = s[13] /\ p[h + 13] = s[14]
  <2>1. ASSUME NEW i \in 1 .. 16
        PROVE  p[h - 1 + i] = s[i]
    BY <1>2, <1>3
  <2>2. h - 1 + 1 = h /\ h - 1 + 2 = h + 1 /\ h - 1 + 5 = h + 4 /\ h - 1 + 6 = h + 5
        /\ h - 1 + 7 = h + 6 /\ h - 1 + 8 = h + 7 /\ h - 1 + 13 = h + 12 /\ h - 1 + 14 = h + 13
    BY <1>1
  <2>. QED BY <2>1, <2>2
<1>5. Word(p, h) = request
  <2>1. s[1] + 256 * s[2] = request
    BY Zenon DEF HasFields
  <2>. QED BY <1>4, <2>1, Zenon DEF Word
<1>6. Word(p, h + 4) = Len(data) /\ Word(p, h + 6) = crc /\ Word(p, h + 12) = offset
  <2>1. h + 4 + 1 = h + 5 /\ h + 6 + 1 = h + 7 /\ h + 12 + 1 = h + 13
    BY <1>1
  <2>2. s[5] + 256 * s[6] = Len(data) /\ s[7] + 256 * s[8] = crc /\ s[13] + 256 * s[14] = offset
    BY Zenon DEF HasFields
  <2>. QED BY <1>4, <2>1, <2>2, ZenonT(30) DEF Word
<1>7. Bytes(p, h + 16, Len(data)) = data
  <2>1. \A i \in 1 .. Len(data) : s[16 + i] = data[i]
    BY Zenon DEF HasFields
  <2>2. ASSUME NEW i \in 1 .. Len(data)
        PROVE  p[h + 16 + i - 1] = data[i]
    <3>1. 16 + i \in 1 .. Len(s) /\ h - 1 + (16 + i) = h + 16 + i - 1
      BY <1>1, <1>3
    <3>2. p[h - 1 + (16 + i)] = s[16 + i]
      BY <1>2, <3>1, Zenon
    <3>. QED BY <2>1, <3>1, <3>2, Zenon
  <2>3. data = [i \in 1 .. Len(data) |-> data[i]]
    OBVIOUS
  <2>. QED BY <2>2, <2>3, Zenon DEF Bytes
<1>. QED
  BY <1>2, <1>5, <1>6, <1>7, Zenon DEF ReadsAs, TakesSection, RequestOf, OffsetOf, LengthOf, h

LEMMA SectionIsRead ==
    ASSUME NEW request \in Half, NEW total \in Nat, NEW offset \in Half,
           NEW data \in Seq(Byte), Len(data) <= 45, NEW checksum \in BOOLEAN, NEW size_byte \in BOOLEAN
    PROVE  ReadsAs(PadReport(WrapSection(Section(request, total, offset, data, checksum), size_byte)),
                   size_byte, request, offset, data, Checked(data, checksum))
<1>. DEFINE s == Section(request, total, offset, data, checksum)
            p == PadReport(WrapSection(s, size_byte))
            crc == Checked(data, checksum)
<1>1. Len(data) \in Nat
  OBVIOUS
<1>2. Len(data) \in Half
  BY <1>1, SmallIsHalf
<1>3. HasFields(s, request, offset, data, crc)
  BY <1>2, SectionFields, Zenon
<1>. HIDE DEF s, crc
<1>4. s \in Seq(Byte) /\ Len(s) = 16 + Len(data)
  BY <1>3, Zenon DEF HasFields
<1>5. Len(s) <= 61
  BY <1>1, <1>4
<1>6. Wrapped(p, s, size_byte)
  BY <1>4, <1>5, WrappedBytes, Zenon
<1>. HIDE DEF p
<1>7. ReadsAs(p, size_byte, request, offset, data, crc)
  BY <1>3, <1>6, WrappedIsRead, Zenon
<1>. QED BY <1>7, Zenon DEF s, p, crc

\* A report that carries a write or a commit, whatever else is in it, is refused.
LEMMA OtherSectionsAreRefused ==
    ASSUME NEW p \in Packet, NEW size_byte \in BOOLEAN, TakesSection(p, size_byte),
           RequestOf(p, size_byte) \in {PRO2_WRITE, PRO2_COMMIT},
           NEW armed \in BOOLEAN
    PROVE  ~Allowed(p, armed)
<1>1. WritesOrCommits(p)
  BY Zenon DEF WritesOrCommits
<1>2. ~OnReadList(p)
  BY <1>1, AllowedDoesNotWrite
<1>3. p # PadReport(SWITCH_TO_DINPUT)
  <2>1. /\ PadReport(SWITCH_TO_DINPUT)[1] = 5 /\ PadReport(SWITCH_TO_DINPUT)[2] = 0
    BY DEF PadReport, SWITCH_TO_DINPUT, Size
  <2>. QED BY <2>1 DEF TakesSection, HeaderAt, SECTION
<1>. QED BY <1>2, <1>3 DEF Allowed

\* The bytes of a commit in its report.
LEMMA CommitIsRead ==
    ASSUME NEW size_byte \in BOOLEAN
    PROVE  LET p == PadReport(Pro2Commit(size_byte))
           IN  p \in Packet /\ TakesSection(p, size_byte) /\ RequestOf(p, size_byte) = PRO2_COMMIT
<1>. DEFINE a == Le16(PRO2_COMMIT)
            b == Le16(PRO2_COMMIT_ARG)
            c == Zeros(12)
            s == a \o b \o c
            h == HeaderAt(size_byte)
            p == PadReport(WrapSection(s, size_byte))
<1>1. PRO2_COMMIT \in Nat /\ PRO2_COMMIT \in Half /\ PRO2_COMMIT_ARG \in Nat
  BY DEF PRO2_COMMIT, PRO2_COMMIT_ARG, Half
<1>2. /\ a \in Seq(Byte) /\ Len(a) = 2 /\ a[1] + 256 * a[2] = PRO2_COMMIT
      /\ b \in Seq(Byte) /\ Len(b) = 2
  BY <1>1, Le16Bytes, Zenon
<1>3. c \in Seq(Byte) /\ Len(c) = 12
  BY DEF Zeros, Byte
<1>4. Pro2Commit(size_byte) = WrapSection(s, size_byte)
  BY Zenon DEF Pro2Commit
<1>. HIDE DEF a, b, c
<1>5. /\ a \o b \in Seq(Byte) /\ Len(a \o b) = Len(a) + Len(b)
      /\ \A i \in 1 .. Len(a) : (a \o b)[i] = a[i]
  BY <1>2, ConcatBytes, Zenon
<1>. DEFINE ab == a \o b
<1>6. ab \in Seq(Byte) /\ Len(ab) = 4 /\ ab[1] = a[1] /\ ab[2] = a[2]
  BY <1>2, <1>5
<1>7. s = ab \o c
  OBVIOUS
<1>. HIDE DEF ab, s
<1>8. /\ s \in Seq(Byte) /\ Len(s) = Len(ab) + Len(c)
      /\ \A i \in 1 .. Len(ab) : s[i] = ab[i]
  BY <1>3, <1>6, <1>7, ConcatBytes, Zenon
<1>9. Len(s) = 16 /\ s[1] = a[1] /\ s[2] = a[2]
  BY <1>3, <1>6, <1>8
<1>10. Wrapped(p, s, size_byte)
  <2>1. Len(s) <= 61
    BY <1>9
  <2>. QED BY <1>8, <2>1, WrappedBytes, Zenon
<1>. HIDE DEF p, h
<1>11. h \in {2, 3}
  BY DEF HeaderAt, h
<1>12. /\ p \in Packet /\ p[0] = REPORT_OUT /\ p[h - 1] = SECTION
       /\ \A i \in 1 .. Len(s) : p[h - 1 + i] = s[i]
  BY <1>10, Zenon DEF Wrapped, h
<1>13. p[h] = a[1] /\ p[h + 1] = a[2]
  <2>1. p[h - 1 + 1] = s[1] /\ p[h - 1 + 2] = s[2]
    BY <1>9, <1>12
  <2>2. h - 1 + 1 = h /\ h - 1 + 2 = h + 1
    BY <1>11
  <2>. QED BY <1>9, <2>1, <2>2
<1>14. TakesSection(p, size_byte) /\ RequestOf(p, size_byte) = PRO2_COMMIT
  BY <1>2, <1>12, <1>13, Zenon DEF TakesSection, RequestOf, Word, h
<1>. QED BY <1>4, <1>12, <1>14, Zenon DEF p

\* The data of a write chunk is what it is given of the section.
LEMMA WriteChunkIsRead ==
    ASSUME NEW total \in Nat, NEW offset \in Half,
           NEW data \in Seq(Byte), Len(data) <= 45, NEW frame \in Frames
    PROVE  LET c == Pro2WriteChunk(offset, total, data, Len(data), frame)
           IN  ReadsAs(PadReport(c), frame.size_byte, PRO2_WRITE, offset, data,
                       Checked(data, frame.checksum))
<1>. DEFINE checksum == frame.checksum
            size_byte == frame.size_byte
            section == Section(PRO2_WRITE, total, offset, data, checksum)
<1>1. checksum \in BOOLEAN /\ size_byte \in BOOLEAN
  BY DEF Frames
<1>2. SubSeq(data, 1, Len(data)) = data
  OBVIOUS
<1>3. Pro2WriteChunk(offset, total, data, Len(data), frame) = WrapSection(section, size_byte)
  BY <1>2, Zenon DEF Pro2WriteChunk
<1>4. PRO2_WRITE \in Half
  BY DEF PRO2_WRITE, Half
<1>. HIDE DEF checksum, size_byte
<1>5. ReadsAs(PadReport(WrapSection(section, size_byte)), size_byte, PRO2_WRITE, offset, data,
              Checked(data, checksum))
  BY <1>1, <1>4, SectionIsRead, Zenon
<1>. QED BY <1>3, <1>5, Zenon DEF checksum, size_byte

\* No write chunk and no commit passes the allowlist, armed or not, in either
\* frame, with or without a checksum (read_config.py 9-11 and 54-70).
THEOREM WritesAreNeverAllowed ==
    ASSUME NEW armed \in BOOLEAN, NEW frame \in Frames,
           NEW total \in Nat, NEW offset \in Half, NEW data \in Seq(Byte), Len(data) <= 45
    PROVE  /\ ~Allowed(PadReport(Pro2Commit(frame.size_byte)), armed)
           /\ ~Allowed(PadReport(Pro2WriteChunk(offset, total, data, Len(data), frame)), armed)
<1>. DEFINE size_byte == frame.size_byte
            commit == PadReport(Pro2Commit(size_byte))
            write == PadReport(Pro2WriteChunk(offset, total, data, Len(data), frame))
<1>1. size_byte \in BOOLEAN
  BY DEF Frames
<1>2. ReadsAs(write, size_byte, PRO2_WRITE, offset, data, Checked(data, frame.checksum))
  BY WriteChunkIsRead, Zenon
<1>. HIDE DEF size_byte, write
<1>3. write \in Packet /\ TakesSection(write, size_byte) /\ RequestOf(write, size_byte) = PRO2_WRITE
  BY <1>2, Zenon DEF ReadsAs
<1>4. /\ commit \in Packet /\ TakesSection(commit, size_byte)
      /\ RequestOf(commit, size_byte) = PRO2_COMMIT
  BY <1>1, CommitIsRead, Zenon
<1>. HIDE DEF commit
<1>5. ~Allowed(write, armed)
  BY <1>1, <1>3, OtherSectionsAreRefused, Zenon
<1>6. ~Allowed(commit, armed)
  BY <1>1, <1>4, OtherSectionsAreRefused, Zenon
<1>. QED BY <1>5, <1>6, Zenon DEF size_byte, commit, write

\* What a pad reads in the request of a read.
LEMMA ReadChunkIsRead ==
    ASSUME NEW total \in Nat, NEW offset \in Half, offset <= total, NEW frame \in Frames
    PROVE  LET data == Fill(ChunkLength(offset, total))
           IN  /\ data \in Seq(Byte) /\ Len(data) = ChunkLength(offset, total)
               /\ ReadsAs(PadReport(Pro2ReadChunk(offset, total, frame)), frame.size_byte, PRO2_READ,
                          offset, data, Checked(data, frame.checksum))
<1>. DEFINE length == ChunkLength(offset, total)
            data == Fill(length)
            checksum == frame.checksum
            size_byte == frame.size_byte
            section == Section(PRO2_READ, total, offset, data, checksum)
<1>1. checksum \in BOOLEAN /\ size_byte \in BOOLEAN
  BY DEF Frames
<1>2. length \in 0 .. 45
  <2>1. offset \in Nat
    BY HalfIsNat, Zenon
  <2>. QED BY <2>1 DEF ChunkLength, Min2, CUSTOM_INFO_CHUNK
<1>. HIDE DEF length
<1>3. data \in Seq(Byte) /\ Len(data) = length
  BY <1>2 DEF Fill, STACK_FILL, Byte
<1>4. Pro2ReadChunk(offset, total, frame) = WrapSection(section, size_byte)
  BY Zenon DEF Pro2ReadChunk, length
<1>5. PRO2_READ \in Half
  BY DEF PRO2_READ, Half
<1>. HIDE DEF data, checksum, size_byte
<1>6. Len(data) <= 45
  BY <1>2, <1>3
<1>7. ReadsAs(PadReport(WrapSection(section, size_byte)), size_byte, PRO2_READ, offset, data,
              Checked(data, checksum))
  BY <1>1, <1>3, <1>5, <1>6, SectionIsRead, Zenon
<1>. QED BY <1>3, <1>4, <1>7, Zenon DEF checksum, size_byte, data, length

\* The request of a custom_info read is a report of bytes.
LEMMA CustomInfoIsBytes ==
    ASSUME NEW offset \in 0 .. CUSTOM_INFO_TOTAL
    PROVE  PadReport(CustomInfoChunk(offset)) \in Packet
<1>. DEFINE length == ChunkLength(offset, CUSTOM_INFO_TOTAL)
            request == <<CUSTOM_INFO_REQUEST>>
            one == <<length>>
            total == Le16(CUSTOM_INFO_TOTAL)
            at == Le16(offset)
            f1 == Fill(1)
            f2 == Fill(2)
            f7 == Fill(7)
            data == Fill(length)
            body == request \o f7 \o one \o f1 \o total \o at \o f2 \o data
            header == <<REPORT_OUT, Len(body) + 1, SECTION>>
<1>1. length \in 0 .. 45
  BY DEF ChunkLength, Min2, CUSTOM_INFO_CHUNK, CUSTOM_INFO_TOTAL
<1>2. CustomInfoChunk(offset) = header \o body
  BY Zenon DEF CustomInfoChunk, WrapSection
<1>. HIDE DEF length
<1>3. /\ request \in Seq(Byte) /\ Len(request) = 1 /\ one \in Seq(Byte) /\ Len(one) = 1
      /\ f1 \in Seq(Byte) /\ Len(f1) = 1 /\ f2 \in Seq(Byte) /\ Len(f2) = 2
      /\ f7 \in Seq(Byte) /\ Len(f7) = 7 /\ data \in Seq(Byte) /\ Len(data) = length
  <2>1. STACK_FILL \in Byte /\ CUSTOM_INFO_REQUEST \in Byte /\ length \in Byte /\ length \in Nat
    BY <1>1 DEF STACK_FILL, CUSTOM_INFO_REQUEST, Byte
  <2>2. \A n \in Nat : Fill(n) \in Seq(Byte) /\ Len(Fill(n)) = n
    BY <2>1 DEF Fill
  <2>3. request \in Seq(Byte) /\ Len(request) = 1 /\ one \in Seq(Byte) /\ Len(one) = 1
    BY <2>1
  <2>. QED BY <2>1, <2>2, <2>3
<1>4. total \in Seq(Byte) /\ Len(total) = 2 /\ at \in Seq(Byte) /\ Len(at) = 2
  <2>1. CUSTOM_INFO_TOTAL \in Nat /\ offset \in Nat
    BY DEF CUSTOM_INFO_TOTAL
  <2>. QED BY <2>1, Le16Bytes, Zenon
<1>. HIDE DEF request, one, total, at, f1, f2, f7, data
<1>. DEFINE b1 == request \o f7
            b2 == b1 \o one
            b3 == b2 \o f1
            b4 == b3 \o total
            b5 == b4 \o at
            b6 == b5 \o f2
            b7 == b6 \o data
<1>5. b1 \in Seq(Byte) /\ Len(b1) = 8
  <2>1. request \in Seq(Byte) /\ f7 \in Seq(Byte)
    BY <1>3, SMT
  <2>2. b1 \in Seq(Byte) /\ Len(b1) = Len(request) + Len(f7)
    BY <2>1, ConcatBytes, Zenon
  <2>. HIDE DEF b1
  <2>. QED BY <1>3, <2>2
<1>. HIDE DEF b1
<1>6. b2 \in Seq(Byte) /\ Len(b2) = 9
  <2>1. b1 \in Seq(Byte) /\ one \in Seq(Byte)
    BY <1>3, <1>5, SMT
  <2>2. b2 \in Seq(Byte) /\ Len(b2) = Len(b1) + Len(one)
    BY <2>1, ConcatBytes, Zenon
  <2>. HIDE DEF b2
  <2>. QED BY <1>3, <1>5, <2>2
<1>. HIDE DEF b2
<1>7. b3 \in Seq(Byte) /\ Len(b3) = 10
  <2>1. b2 \in Seq(Byte) /\ f1 \in Seq(Byte)
    BY <1>3, <1>6, SMT
  <2>2. b3 \in Seq(Byte) /\ Len(b3) = Len(b2) + Len(f1)
    BY <2>1, ConcatBytes, Zenon
  <2>. HIDE DEF b3
  <2>. QED BY <1>3, <1>6, <2>2
<1>. HIDE DEF b3
<1>8. b4 \in Seq(Byte) /\ Len(b4) = 12
  <2>1. b3 \in Seq(Byte) /\ total \in Seq(Byte)
    BY <1>4, <1>7, SMT
  <2>2. b4 \in Seq(Byte) /\ Len(b4) = Len(b3) + Len(total)
    BY <2>1, ConcatBytes, Zenon
  <2>. HIDE DEF b4
  <2>. QED BY <1>4, <1>7, <2>2
<1>. HIDE DEF b4
<1>9. b5 \in Seq(Byte) /\ Len(b5) = 14
  <2>1. b4 \in Seq(Byte) /\ at \in Seq(Byte)
    BY <1>4, <1>8, SMT
  <2>2. b5 \in Seq(Byte) /\ Len(b5) = Len(b4) + Len(at)
    BY <2>1, ConcatBytes, Zenon
  <2>. HIDE DEF b5
  <2>. QED BY <1>4, <1>8, <2>2
<1>. HIDE DEF b5
<1>10. b6 \in Seq(Byte) /\ Len(b6) = 16
  <2>1. b5 \in Seq(Byte) /\ f2 \in Seq(Byte)
    BY <1>3, <1>9, SMT
  <2>2. b6 \in Seq(Byte) /\ Len(b6) = Len(b5) + Len(f2)
    BY <2>1, ConcatBytes, Zenon
  <2>. HIDE DEF b6
  <2>. QED BY <1>3, <1>9, <2>2
<1>. HIDE DEF b6
<1>11. b7 \in Seq(Byte) /\ Len(b7) = 16 + length
  <2>1. b6 \in Seq(Byte) /\ data \in Seq(Byte)
    BY <1>3, <1>10, SMT
  <2>2. b7 \in Seq(Byte) /\ Len(b7) = Len(b6) + Len(data)
    BY <2>1, ConcatBytes, Zenon
  <2>. HIDE DEF b7
  <2>. QED BY <1>3, <1>10, <2>2, <1>1
<1>12. b7 = body
  BY Zenon DEF b1, b2, b3, b4, b5, b6
<1>. HIDE DEF b7, body
<1>13. REPORT_OUT \in Byte /\ SECTION \in Byte /\ Len(body) + 1 \in Byte
  <2>1. ASSUME NEW n \in 0 .. 45 PROVE 16 + n + 1 \in Byte
    BY DEF Byte
  <2>2. REPORT_OUT \in Byte /\ SECTION \in Byte
    BY DEF REPORT_OUT, SECTION, Byte
  <2>. QED BY <1>1, <1>11, <1>12, <2>1, <2>2
<1>14. header \in Seq(Byte)
  BY <1>13
<1>. HIDE DEF header
<1>15. header \o body \in Seq(Byte)
  BY <1>11, <1>12, <1>14, ConcatBytes, Zenon
<1>. QED BY <1>2, <1>15, PayloadInReport, Zenon
=============================================================================
