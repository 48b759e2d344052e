------------------------------ MODULE PacketWalk ------------------------------
(***************************************************************************)
(* A chunked read packet by packet, with the bytes: at every offset the    *)
(* read comes to, the request chunked_read builds, the report a pad makes  *)
(* of its section, and what the parser takes from it.  ReadSession has the *)
(* order and the faults of such a read; this module has its encoding.      *)
(* Beside a custom_info read runs assemble_custom_info, the library's own  *)
(* way to join such answers, reply by reply.                               *)
(***************************************************************************)
EXTENDS Packets

CONSTANTS
    Families,   \* product ids whose frame is read with request 2
    Lengths,    \* lengths of the answers below the one asked for
    Echoes      \* the pad sends the length dword back as it received it

ASSUME LengthsAssumption == Lengths \subseteq 0 .. CUSTOM_INFO_CHUNK

VARIABLES
    kind,       \* "u2" (request 2, 0x638 bytes) or "custom" (0x0c, 0x230 bytes)
    family,     \* the product id the frame is chosen by
    offset,
    phase,      \* "ask", "asked", "answered"
    packet,     \* the report last on the wire
    joined,     \* assemble_custom_info: the image below its offset, cut at 560
    tries       \* the replies it was given; bound: 31 stands for more than its 30

vars == <<kind, family, offset, phase, packet, joined, tries>>

Total == IF kind = "u2" THEN ULTIMATE2_TOTAL ELSE CUSTOM_INFO_TOTAL
Frame == FrameFor(family)

\* The pad's section; the pattern repeats no chunk.
PadBytes(from, length) == [i \in 1 .. length |-> (7 * (from + i) + (from + i) \div 256) % 256]

\* The build and parse arguments main gives chunked_read (read_config.py 273-286).
Request == PadReport(IF kind = "u2" THEN Pro2ReadChunk(offset, Total, Frame)
                                    ELSE CustomInfoChunk(offset))
Parsed(reply) == IF kind = "u2" THEN ParsePro2ReadReply(reply, Frame.checksum)
                                ELSE ParseCustomInfoReply(reply)

\* A pad's answer with the next length bytes: the request's header with the
\* length dword of the data sent, or, with Echoes, of the data received.
Answer(length) ==
    LET data == PadBytes(offset, length)
        high == IF ~Frame.checksum THEN 0
                ELSE IF Echoes THEN Word(packet, HeaderAt(Frame.size_byte) + 6) ELSE crc16_modbus(data)
    IN  PadReport(
          IF kind = "u2"
          THEN <<2, SECTION>>
               \o (Le16(4) \o Le16(PRO2_READ) \o Le16(length) \o Le16(high)
                   \o Le32(Total) \o Le32(offset) \o data)
          ELSE <<2, SECTION, 4, 0, 0, 0>> \o Le32(CUSTOM_INFO_REQUEST) \o <<length>> \o Zeros(7)
               \o data)

Init ==
    /\ \/ kind = "u2" /\ family \in Families
       \/ kind = "custom" /\ family = "310a"
    /\ offset = 0 /\ phase = "ask" /\ packet = PadReport(IDENTIFY_INIT)
    /\ joined = <<>> /\ tries = 0

Ask ==
    /\ phase = "ask" /\ offset < Total
    /\ packet' = Request
    /\ phase' = "asked"
    /\ UNCHANGED <<kind, family, offset, joined, tries>>

\* With a chunk of the usual size the pad may go past the end of the section.
AnswerLengths == Lengths \cup {CUSTOM_INFO_CHUNK, ChunkLength(offset, Total)}

PadAnswers ==
    /\ phase = "asked"
    /\ \E length \in AnswerLengths : packet' = Answer(length)
    /\ phase' = "answered"
    /\ UNCHANGED <<kind, family, offset, joined, tries>>

\* Mutant: the chunk that goes past the end is kept whole.
JoinWhole(chunk) ==
    IF kind = "u2" \/ tries >= 30 \/ Len(joined) >= CUSTOM_INFO_TOTAL THEN UNCHANGED joined
    ELSE joined' = joined \o chunk

\* One turn of assemble_custom_info's loop; the 30th is its last.
Join(chunk) ==
    IF kind = "u2" \/ tries >= 30 \/ Len(joined) >= CUSTOM_INFO_TOTAL THEN UNCHANGED joined
    ELSE joined' = LET all == joined \o chunk
                   IN  IF Len(all) > CUSTOM_INFO_TOTAL THEN SubSeq(all, 1, CUSTOM_INFO_TOTAL) ELSE all

Take ==
    /\ phase = "answered"
    /\ LET got == Parsed(packet)
           chunk == IF got.ok THEN got.chunk ELSE <<>>
       IN  offset' = offset + Len(chunk) /\ Join(chunk)
    /\ phase' = "ask"
    /\ tries' = IF kind = "u2" \/ tries = 31 THEN tries ELSE tries + 1
    /\ UNCHANGED <<kind, family, packet>>

Finished == phase = "ask" /\ offset >= Total /\ UNCHANGED vars

Next == Ask \/ PadAnswers \/ Take \/ Finished

Spec == Init /\ [][Next]_vars

-----------------------------------------------------------------------------
(* Properties. *)

\* Every request a chunked read comes to build passes the allowlist, at every
\* offset short answers lead to and in every frame (read_config.py 54-70).
RequestsAreAllowed == phase = "asked" => Allowed(packet, FALSE)

\* A pad of the family takes the request as a read of the very window that
\* the tool is at, inside the section, with the checksum it wants; a pad that
\* reads the other frame takes no write or commit from it.
PadReadsTheWindow ==
    phase = "asked" =>
        /\ ~ChangesState(packet)
        /\ kind = "u2" =>
              LET s == Frame.size_byte
                  length == LengthOf(packet, s)
                  data == Bytes(packet, HeaderAt(s) + 16, length)
              IN  /\ TakesSection(packet, s) /\ RequestOf(packet, s) = PRO2_READ
                  /\ OffsetOf(packet, s) = offset
                  /\ length = ChunkLength(offset, Total) /\ length > 0
                  /\ Word(packet, HeaderAt(s) + 6) = IF Frame.checksum THEN crc16_modbus(data) ELSE 0

\* The write chunk of the same window, whole or cut, and the commit are
\* refused in both frames, and initDevice1 too, armed or not (docstring 9-11).
WritesAreRefused ==
    (phase = "asked" /\ kind = "u2") =>
        \A armed \in BOOLEAN, size_byte \in BOOLEAN :
            /\ ~Allowed(InitDevice1, armed)
            /\ ~Allowed(PadReport(Pro2Commit(size_byte)), armed)
            /\ \A n \in {0, 1, ChunkLength(offset, Total)} :
                 ~Allowed(PadReport(Pro2WriteChunk(offset, Total, PadBytes(offset, 45), n,
                                    [checksum |-> Frame.checksum, size_byte |-> size_byte])),
                          armed)

\* A whole answer is taken, and gives the section's bytes at the offset; it
\* acknowledges neither a write nor a commit.
AnswersAreTheSection ==
    phase = "answered" =>
        LET got == Parsed(packet)
        IN  /\ got.ok /\ got.chunk = PadBytes(offset, Len(got.chunk))
            /\ Len(got.chunk) \in AnswerLengths
            /\ \A request \in {PRO2_WRITE, PRO2_COMMIT} : ~WriteAckAccepted(packet, request)

\* assemble_custom_info and chunked_read have read the same of the same
\* answers, empty, short and long ones among them, up to the 30th; after it
\* the one is done or has less than an image, and raises (packets.py 299-303).
JoinsLikeTheRead ==
    (kind = "custom" /\ phase = "ask") =>
        LET stored == IF offset < Total THEN offset ELSE Total
        IN  /\ joined = PadBytes(0, Len(joined))
            /\ IF tries <= 30 THEN Len(joined) = stored ELSE Len(joined) <= stored

\* On a CRC product an answer with one byte changed, in the data or in the
\* checksum, is refused.
CorruptionIsRefused ==
    (phase = "answered" /\ kind = "u2" /\ Frame.checksum) =>
        \A at \in {8, 9} \cup {17 + n : n \in {1, Word(packet, 6)} \cap 1 .. Word(packet, 6)},
           flip \in {1, 128} :
            ~ParsePro2ReadReply([packet EXCEPT ![at] = (@ + flip) % 256], TRUE).ok

\* docs/firmware.md: the pad's reply has the length dword as it was received,
\* and the answer to a read is taken all the same.
EchoedAnswersAreTaken == phase = "answered" => Parsed(packet).ok
=============================================================================
