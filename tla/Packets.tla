------------------------------- MODULE Packets -------------------------------
(***************************************************************************)
(* tools/packets.py: the 64-byte reports the tools build and take apart,   *)
(* and the allowlist of tools/read_config.py (allowed, lines 54-70) that   *)
(* every report passes before it is written.                               *)
(*                                                                         *)
(* A report is a function from 0 .. 63 to bytes, as in the code; payloads, *)
(* bodies and chunks are sequences of bytes.  Product ids are strings.     *)
(***************************************************************************)
EXTENDS Crc16

Byte == 0 .. 255
Size == 64
Packet == [0 .. Size - 1 -> Byte]

REPORT_OUT == 129    \* 0x81
SECTION == 4         \* 0x04
STACK_FILL == 204    \* 0xcc
CUSTOM_INFO_TOTAL == 560
CUSTOM_INFO_CHUNK == 45
CUSTOM_INFO_REQUEST == 12
ULTIMATE2_TOTAL == 1592
PRO2_READ == 2
PRO2_WRITE == 1
PRO2_COMMIT == 6
PRO2_COMMIT_ARG == 291

Min2(a, b) == IF a < b THEN a ELSE b

\* The integer in two bytes of a report, low byte first; and back.
Word(p, i) == p[i] + 256 * p[i + 1]
Le16(n) == <<n % 256, (n \div 256) % 256>>
Le32(n) == Le16(n % 65536) \o Le16(n \div 65536)
Zeros(n) == [i \in 1 .. n |-> 0]
Fill(n) == [i \in 1 .. n |-> STACK_FILL]

-----------------------------------------------------------------------------
(* Reports out. *)

\* pad_report: zeros up to 64 bytes.
PadReport(payload) ==
    [i \in 0 .. Size - 1 |-> IF i < Len(payload) THEN payload[i + 1] ELSE 0]

Class05(tail) == PadReport(<<REPORT_OUT, 5>> \o tail)

IDENTIFY_GET_PID == <<129, 5, 0, 33, 1>>
IDENTIFY_INIT == <<129, 5, 193, 0>>
PROBE_IS_WIRED == <<129, 5, 0, 49, 1>>
PROBE_GET_RF_ADDRESS == <<129, 0, 102, 170, 99>>
PROBE_GET_PID == <<129, 5, 8, 0>>
SWITCH_TO_DINPUT == <<129, 5, 0, 81, 0>>
ReadCrc == Class05(<<195, 0, 0, 0, 12, 0, 0, 0>>)
InitDevice1 == Class05(<<193, 0, 0, 128>>)

CRC_PIDS == {"6006", "3010", "3011", "6007", "3109", "6009", "6012", "600f", "600b", "2062"}
NO_SIZE_BYTE_PIDS == {"6009", "2028", "6012", "600f", "600b", "2062"}

FrameFor(pid) == [checksum |-> pid \in CRC_PIDS, size_byte |-> pid \notin NO_SIZE_BYTE_PIDS]

WrapSection(body, size_byte) ==
    IF size_byte THEN <<REPORT_OUT, Len(body) + 1, SECTION>> \o body
                 ELSE <<REPORT_OUT, SECTION>> \o body

ChunkLength(offset, total) == Min2(CUSTOM_INFO_CHUNK, total - offset)

\* The zero-flag custom_info read; header bytes the DLL does not set keep
\* the stack fill.
CustomInfoChunk(offset) ==
    LET length == ChunkLength(offset, CUSTOM_INFO_TOTAL)
    IN  WrapSection(<<CUSTOM_INFO_REQUEST>> \o Fill(7) \o <<length>> \o Fill(1)
                    \o Le16(CUSTOM_INFO_TOTAL) \o Le16(offset) \o Fill(2) \o Fill(length),
                    TRUE)

\* Sixteen header bytes and the data, as both chunk builders lay them out.
Section(request, total, offset, data, checksum) ==
    Le16(request) \o Le16(0) \o Le16(Len(data)) \o Le16(IF checksum THEN crc16_modbus(data) ELSE 0)
    \o Le32(total) \o Le32(offset) \o data

\* Mutant: the frame forms are swapped.
Pro2ReadChunkSwapped(offset, total, frame) ==
    WrapSection(Section(PRO2_READ, total, offset, Fill(ChunkLength(offset, total)),
                        frame.checksum),
                ~frame.size_byte)

Pro2ReadChunk(offset, total, frame) ==
    WrapSection(Section(PRO2_READ, total, offset, Fill(ChunkLength(offset, total)),
                        frame.checksum),
                frame.size_byte)

\* data is at least nbytes long; the natural chunk length bounds nbytes.
Pro2WriteChunk(offset, total, data, nbytes, frame) ==
    WrapSection(Section(PRO2_WRITE, total, offset, SubSeq(data, 1, nbytes), frame.checksum),
                frame.size_byte)

Pro2Commit(size_byte) ==
    WrapSection(Le16(PRO2_COMMIT) \o Le16(PRO2_COMMIT_ARG) \o Zeros(12), size_byte)

-----------------------------------------------------------------------------
(* Replies in.  A parser returns [ok, chunk]; ok = FALSE stands for its     *)
(* ValueError.                                                              *)

Refuse == [ok |-> FALSE, chunk |-> <<>>]
Bytes(reply, from, length) == [i \in 1 .. length |-> reply[from + i - 1]]

\* Mutant: the chunk is cut one byte early.
AcceptOneEarly(reply, length) == [ok |-> TRUE, chunk |-> Bytes(reply, 17, length)]

\* The chunk lies at byte 0x12 in both reply forms.
Accept(reply, length) == [ok |-> TRUE, chunk |-> Bytes(reply, 18, length)]

ParseCustomInfoReply(reply) ==
    IF /\ reply[0] = 2 /\ reply[1] = SECTION /\ reply[2] = 4
       /\ Word(reply, 6) = CUSTOM_INFO_REQUEST /\ Word(reply, 8) = 0
       /\ 18 + reply[10] <= Size
    THEN Accept(reply, reply[10])
    ELSE Refuse

\* Mutant: the checksum is read and not compared.
ParsePro2ReadReplyUnchecked(reply, checksum) ==
    IF /\ reply[0] = 2 /\ reply[1] = SECTION
       /\ Word(reply, 2) = 4 /\ Word(reply, 4) = PRO2_READ
       /\ Word(reply, 6) <= CUSTOM_INFO_CHUNK /\ 18 + Word(reply, 6) <= Size
    THEN Accept(reply, Word(reply, 6))
    ELSE Refuse

\* The offset the pad echoes at 14 is not looked at.
ParsePro2ReadReply(reply, checksum) ==
    IF /\ reply[0] = 2 /\ reply[1] = SECTION
       /\ Word(reply, 2) = 4 /\ Word(reply, 4) = PRO2_READ
       /\ Word(reply, 6) <= CUSTOM_INFO_CHUNK /\ 18 + Word(reply, 6) <= Size
       /\ checksum => Word(reply, 8) = crc16_modbus(Bytes(reply, 18, Word(reply, 6)))
    THEN Accept(reply, Word(reply, 6))
    ELSE Refuse

\* parse_write_ack: what acknowledges a write chunk or a commit.
WriteAckAccepted(reply, request) ==
    /\ reply[0] = 2 /\ reply[1] = SECTION
    /\ Word(reply, 2) = 4 /\ Word(reply, 4) = request

-----------------------------------------------------------------------------
(* The allowlist of read_config.py. *)

StartsWith(p, prefix) == \A i \in 1 .. Len(prefix) : p[i - 1] = prefix[i]

ALLOWED_PREFIXES ==
    {IDENTIFY_GET_PID,
     IDENTIFY_INIT \o Zeros(60),
     <<129, 5, 195, 0, 0, 0, 12, 0, 0, 0>>,
     PROBE_IS_WIRED \o Zeros(59),
     PROBE_GET_RF_ADDRESS \o Zeros(59),
     PROBE_GET_PID \o Zeros(60)}

ReadsCustomInfo(p) ==
    p[2] = SECTION /\ p[3] = CUSTOM_INFO_REQUEST /\ p[4] = STACK_FILL
ReadsSized(p) == p[2] = SECTION /\ Word(p, 3) = PRO2_READ
ReadsUnsized(p) == p[1] = SECTION /\ Word(p, 2) = PRO2_READ

\* Mutants: any section-04 packet is let through; only the size-byte frame is.
OnReadListSections(p) ==
    \/ \E prefix \in ALLOWED_PREFIXES : StartsWith(p, prefix)
    \/ p[2] = SECTION \/ p[1] = SECTION
OnReadListSized(p) ==
    \/ \E prefix \in ALLOWED_PREFIXES : StartsWith(p, prefix)
    \/ ReadsCustomInfo(p) \/ ReadsSized(p)

\* What is sent without arming (lines 59-70).
OnReadList(p) ==
    \/ \E prefix \in ALLOWED_PREFIXES : StartsWith(p, prefix)
    \/ ReadsCustomInfo(p) \/ ReadsSized(p) \/ ReadsUnsized(p)

Allowed(p, armed) ==
    /\ p[0] = REPORT_OUT
    /\ IF p = PadReport(SWITCH_TO_DINPUT) THEN armed ELSE OnReadList(p)

-----------------------------------------------------------------------------
(* How the pads read a report (docs/firmware.md, and FakeUltimate2 of       *)
(* tools/test_loopback.py): section 04 is byte 1 on the products without a  *)
(* size byte and byte 2 on the others; the header follows.                  *)

HeaderAt(size_byte) == IF size_byte THEN 3 ELSE 2
TakesSection(p, size_byte) == p[0] = REPORT_OUT /\ p[HeaderAt(size_byte) - 1] = SECTION
RequestOf(p, size_byte) == Word(p, HeaderAt(size_byte))
LengthOf(p, size_byte) == Word(p, HeaderAt(size_byte) + 4)
OffsetOf(p, size_byte) == Word(p, HeaderAt(size_byte) + 12)

\* What changes a pad's settings through section 04, in either frame.
WritesOrCommits(p) ==
    \E size_byte \in BOOLEAN :
        /\ TakesSection(p, size_byte)
        /\ RequestOf(p, size_byte) \in {PRO2_WRITE, PRO2_COMMIT}

\* The other packets tools/test_read_config.py lists as changing state.
STATE_CHANGING ==
    {<<129, 5, 102, 170, 99>>, <<129, 0, 102, 170, 100>>, <<129, 5, 0, 97, 1>>,
     <<129, 5, 0, 54>>, <<129, 5, 0, 56>>, <<129, 17, 4, 8, 0>>, <<129, 5, 193, 0, 0, 128>>,
     <<129, 5, 196, 0>>, <<129, 5, 4, 0>>, <<129, 5, 7, 0>>}
ChangesState(p) ==
    WritesOrCommits(p) \/ \E prefix \in STATE_CHANGING : StartsWith(p, prefix)
=============================================================================
