--------------------------- MODULE PacketWalkProofs ---------------------------
(***************************************************************************)
(* PacketWalk for every family, every set of lengths of answers up to a    *)
(* chunk, and any bytes of an answer that change on their way.             *)
(***************************************************************************)
EXTENDS PacketWalk, PacketProofs

\* The window of a chunked read: its offset is inside an image.
LEMMA TotalIsANumber == Total \in Half /\ Total \in Nat
<1>1. ULTIMATE2_TOTAL \in Nat /\ CUSTOM_INFO_TOTAL \in Nat /\ ULTIMATE2_TOTAL <= 2000 /\ CUSTOM_INFO_TOTAL <= 2000
  BY DEF ULTIMATE2_TOTAL, CUSTOM_INFO_TOTAL
<1>. QED BY <1>1, SmallIsHalf DEF Total

LEMMA OffsetIsHalf ==
    ASSUME offset \in Nat, offset < Total
    PROVE  offset \in Half
<1>1. Total \in {1592, 560}
  BY DEF Total, ULTIMATE2_TOTAL, CUSTOM_INFO_TOTAL
<1>2. offset <= 2000
  BY <1>1
<1>. QED BY <1>2, SmallIsHalf

LEMMA FrameIsAFrame == Frame \in Frames
BY DEF Frame, Frames, FrameFor

\* A pad sends at most a chunk, and no byte of it is out of range.
LEMMA LengthsAreSmall ==
    ASSUME offset \in Nat, offset < Total, NEW length \in AnswerLengths
    PROVE  length \in 0 .. 45
<1>1. Total \in Nat
  BY TotalIsANumber
<1>. QED
  BY <1>1, LengthsAssumption DEF AnswerLengths, CUSTOM_INFO_CHUNK, ChunkLength, Min2

LEMMA PadBytesAreBytes ==
    ASSUME NEW from \in Nat, NEW length \in Nat
    PROVE  PadBytes(from, length) \in Seq(Byte) /\ Len(PadBytes(from, length)) = length
<1>1. ASSUME NEW i \in 1 .. length
      PROVE  (7 * (from + i) + (from + i) \div 256) % 256 \in Byte
  <2>1. \A m \in Nat : m \div 256 \in Nat /\ m % 256 \in 0 .. 255
    OBVIOUS
  <2>2. from + i \in Nat
    OBVIOUS
  <2>3. 7 * (from + i) + (from + i) \div 256 \in Nat
    BY <2>1, <2>2
  <2>. QED BY <2>1, <2>3 DEF Byte
<1>. QED BY <1>1 DEF PadBytes

-----------------------------------------------------------------------------
(* The bytes of an answer. *)

\* What the parsers read in an answer: the data follow at byte 18.
AnswerTo(p, isU2, length, data, crc) ==
    /\ p \in Packet /\ p[0] = 2 /\ p[1] = SECTION
    /\ isU2 => /\ Word(p, 2) = 4 /\ Word(p, 4) = PRO2_READ
               /\ Word(p, 6) = length /\ Word(p, 8) = crc
    /\ ~isU2 => /\ p[2] = 4 /\ Word(p, 4) = 0 /\ Word(p, 6) = CUSTOM_INFO_REQUEST
                /\ Word(p, 8) = 0 /\ p[10] = length
    /\ Bytes(p, 18, length) = data

\* The two forms a pad's answer has.
U2Answer(data, crc, total, at) ==
    PadReport(<<2, SECTION>>
              \o (Le16(4) \o Le16(PRO2_READ) \o Le16(Len(data)) \o Le16(crc)
                  \o Le32(total) \o Le32(at) \o data))
CustomAnswer(data) ==
    PadReport(<<2, SECTION, 4, 0, 0, 0>> \o Le32(CUSTOM_INFO_REQUEST) \o <<Len(data)>> \o Zeros(7)
              \o data)

LEMMA U2AnswerIsRead ==
    ASSUME NEW data \in Seq(Byte), Len(data) <= 45, NEW crc \in Nat,
           NEW total \in Nat, NEW at \in Nat
    PROVE  /\ U2Answer(data, crc, total, at) \in Packet
           /\ crc \in Half => AnswerTo(U2Answer(data, crc, total, at), TRUE, Len(data), data, crc)
<1>. DEFINE a == Le16(4)
            b == Le16(PRO2_READ)
            c == Le16(Len(data))
            d == Le16(crc)
            e == Le32(total)
            f == Le32(at)
            s == a \o b \o c \o d \o e \o f \o data
            header == <<2, SECTION>>
            p == PadReport(header \o s)
<1>1. Len(data) \in Nat /\ 4 \in Nat /\ PRO2_READ \in Nat
  BY DEF PRO2_READ
<1>2. Len(data) \in Half /\ 4 \in Half /\ PRO2_READ \in Half
  <2>1. Len(data) <= 2000 /\ 4 <= 2000 /\ PRO2_READ <= 2000
    BY <1>1 DEF PRO2_READ
  <2>. QED BY <1>1, <2>1, SmallIsHalf
<1>3. /\ a \in Seq(Byte) /\ Len(a) = 2 /\ a[1] + 256 * a[2] = 4
      /\ b \in Seq(Byte) /\ Len(b) = 2 /\ b[1] + 256 * b[2] = PRO2_READ
      /\ c \in Seq(Byte) /\ Len(c) = 2 /\ c[1] + 256 * c[2] = Len(data)
      /\ d \in Seq(Byte) /\ Len(d) = 2 /\ (crc \in Half => d[1] + 256 * d[2] = crc)
  BY <1>1, <1>2, Le16Bytes, Zenon
<1>4. e \in Seq(Byte) /\ Len(e) = 4 /\ f \in Seq(Byte) /\ Len(f) = 4
  BY Le32Bytes, Zenon
<1>5. header \in Seq(Byte) /\ Len(header) = 2 /\ header[1] = 2 /\ header[2] = SECTION
  BY DEF SECTION, Byte
<1>. HIDE DEF a, b, c, d, e, f, header
<1>6. Joined(s, a, b, c, d, f, data)
  BY <1>3, <1>4, HeaderJoins, Zenon
<1>. HIDE DEF s
<1>7. /\ s \in Seq(Byte) /\ Len(s) = 16 + Len(data)
      /\ s[1] = a[1] /\ s[2] = a[2] /\ s[3] = b[1] /\ s[4] = b[2]
      /\ s[5] = c[1] /\ s[6] = c[2] /\ s[7] = d[1] /\ s[8] = d[2]
      /\ \A i \in 1 .. Len(data) : s[16 + i] = data[i]
  BY <1>6, Zenon DEF Joined
<1>8. Len(s) <= 61
  BY <1>1, <1>7
<1>9. /\ p \in Packet /\ p[0] = header[1] /\ p[1] = header[2]
      /\ \A i \in 1 .. Len(s) : p[2 - 1 + i] = s[i]
  <2>1. 2 \in {2, 3}
    OBVIOUS
  <2>. QED BY <1>5, <1>7, <1>8, <2>1, HeaderAndSection, Zenon
<1>. HIDE DEF p
<1>10. p = U2Answer(data, crc, total, at)
  BY Zenon DEF U2Answer, p, s, a, b, c, d, e, f, header
<1>11. ASSUME crc \in Half PROVE AnswerTo(p, TRUE, Len(data), data, crc)
  <2>1. \A i \in 1 .. Len(s) : p[1 + i] = s[i]
    BY <1>9
  <2>2. p[2] = s[1] /\ p[3] = s[2] /\ p[4] = s[3] /\ p[5] = s[4]
        /\ p[6] = s[5] /\ p[7] = s[6] /\ p[8] = s[7] /\ p[9] = s[8]
    BY <1>1, <1>7, <2>1
  <2>3. Word(p, 2) = a[1] + 256 * a[2] /\ Word(p, 4) = b[1] + 256 * b[2]
        /\ Word(p, 6) = c[1] + 256 * c[2] /\ Word(p, 8) = d[1] + 256 * d[2]
    BY <1>7, <2>2 DEF Word
  <2>4. Bytes(p, 18, Len(data)) = data
    <3>1. ASSUME NEW i \in 1 .. Len(data)
          PROVE  p[18 + i - 1] = data[i]
      <4>1. 16 + i \in 1 .. Len(s) /\ 1 + (16 + i) = 18 + i - 1
        BY <1>1, <1>7
      <4>. QED BY <1>7, <2>1, <4>1, Zenon
    <3>2. data = [i \in 1 .. Len(data) |-> data[i]]
      OBVIOUS
    <3>. QED BY <3>1, <3>2, Zenon DEF Bytes
  <2>. QED BY <1>3, <1>5, <1>9, <1>11, <2>3, <2>4, Zenon DEF AnswerTo
<1>. QED BY <1>9, <1>10, <1>11, Zenon

LEMMA CustomAnswerIsRead ==
    ASSUME NEW data \in Seq(Byte), Len(data) <= 45, NEW crc
    PROVE  /\ CustomAnswer(data) \in Packet
           /\ AnswerTo(CustomAnswer(data), FALSE, Len(data), data, crc)
<1>1. Len(data) \in 0 .. 45
  <2>1. Len(data) \in Nat
    OBVIOUS
  <2>2. \A n \in Nat : n <= 45 => n \in 0 .. 45
    OBVIOUS
  <2>. QED BY <2>1, <2>2, Zenon
<1>. DEFINE a == <<2, SECTION, 4, 0, 0, 0>>
            b == Le32(CUSTOM_INFO_REQUEST)
            c == <<Len(data)>>
            d == Zeros(7)
            ab == a \o b
            abc == ab \o c
            header == abc \o d
            s == header \o data
            p == PadReport(s)
<1>2. /\ a \in Seq(Byte) /\ Len(a) = 6 /\ a[1] = 2 /\ a[2] = SECTION /\ a[3] = 4
      /\ a[5] = 0 /\ a[6] = 0
  BY DEF SECTION, Byte
<1>3. /\ b \in Seq(Byte) /\ Len(b) = 4 /\ b[1] = 12 /\ b[2] = 0 /\ b[3] = 0 /\ b[4] = 0
  <2>. DEFINE low == 12 % 65536
              high == 12 \div 65536
  <2>1. low = 12 /\ high = 0
    BY Z3
  <2>2. b = Le16(low) \o Le16(high)
    BY DEF Le32, CUSTOM_INFO_REQUEST
  <2>. HIDE DEF low, high, b
  <2>3. Le16(low) = <<12, 0>> /\ Le16(high) = <<0, 0>>
    BY <2>1 DEF Le16
  <2>4. b = <<12, 0>> \o <<0, 0>>
    BY <2>2, <2>3, Zenon
  <2>. QED BY <2>4 DEF Byte
<1>4. c \in Seq(Byte) /\ Len(c) = 1 /\ c[1] = Len(data)
  BY <1>1 DEF Byte
<1>5. d \in Seq(Byte) /\ Len(d) = 7
  BY DEF Zeros, Byte
<1>. HIDE DEF a, b, c, d
<1>6. /\ ab \in Seq(Byte) /\ Len(ab) = Len(a) + Len(b)
      /\ \A i \in 1 .. Len(a) : ab[i] = a[i]
      /\ \A i \in 1 .. Len(b) : ab[Len(a) + i] = b[i]
  BY <1>2, <1>3, ConcatBytes, Zenon
<1>. HIDE DEF ab
<1>7. /\ abc \in Seq(Byte) /\ Len(abc) = Len(ab) + Len(c)
      /\ \A i \in 1 .. Len(ab) : abc[i] = ab[i]
      /\ \A i \in 1 .. Len(c) : abc[Len(ab) + i] = c[i]
  BY <1>4, <1>6, ConcatBytes, Zenon
<1>. HIDE DEF abc
<1>8. /\ header \in Seq(Byte) /\ Len(header) = Len(abc) + Len(d)
      /\ \A i \in 1 .. Len(abc) : header[i] = abc[i]
  BY <1>5, <1>7, ConcatBytes, Zenon
<1>. HIDE DEF header
<1>9. /\ s \in Seq(Byte) /\ Len(s) = Len(header) + Len(data)
      /\ \A i \in 1 .. Len(header) : s[i] = header[i]
      /\ \A i \in 1 .. Len(data) : s[Len(header) + i] = data[i]
  BY <1>8, ConcatBytes, Zenon
<1>. HIDE DEF s
<1>10. Len(ab) = 10 /\ Len(abc) = 11 /\ Len(header) = 18 /\ Len(s) = 18 + Len(data)
  BY <1>1, <1>2, <1>3, <1>4, <1>5, <1>6, <1>7, <1>8, <1>9
<1>11. \A i \in 1 .. 10 : s[i] = ab[i]
  BY <1>7, <1>8, <1>9, <1>10
<1>12. s[1] = a[1] /\ s[2] = a[2] /\ s[3] = a[3] /\ s[5] = a[5] /\ s[6] = a[6]
  BY <1>2, <1>6, <1>11
<1>13. s[7] = b[1] /\ s[8] = b[2] /\ s[9] = b[3] /\ s[10] = b[4]
  <2>1. ASSUME NEW i \in 1 .. 4 PROVE s[6 + i] = b[i]
    BY <1>2, <1>3, <1>6, <1>11
  <2>. QED BY <2>1
<1>14. s[11] = c[1]
  <2>1. abc[11] = c[1]
    BY <1>4, <1>7, <1>10
  <2>. QED BY <1>8, <1>9, <1>10, <2>1
<1>15. p \in Packet /\ \A i \in 0 .. 63 : i < Len(s) => p[i] = s[i + 1]
  BY <1>9, PayloadInReport, Zenon
<1>. HIDE DEF p
<1>16. /\ p[0] = s[1] /\ p[1] = s[2] /\ p[2] = s[3] /\ p[4] = s[5] /\ p[5] = s[6] /\ p[6] = s[7] /\ p[7] = s[8]
       /\ p[8] = s[9] /\ p[9] = s[10] /\ p[10] = s[11]
  <2>1. ASSUME NEW i \in 0 .. 10 PROVE p[i] = s[i + 1]
    <3>1. i \in 0 .. 63 /\ i < Len(s)
      BY <1>1, <1>10
    <3>. QED BY <1>15, <3>1
  <2>. QED BY <2>1
<1>17. Bytes(p, 18, Len(data)) = data
  <2>1. ASSUME NEW i \in 1 .. Len(data)
        PROVE  p[18 + i - 1] = data[i]
    <3>1. 18 + i - 1 \in 0 .. 63 /\ 18 + i - 1 < Len(s) /\ 18 + i - 1 + 1 = 18 + i
      BY <1>1, <1>10
    <3>2. s[18 + i] = data[i]
      BY <1>9, <1>10
    <3>. QED BY <1>15, <3>1, <3>2
  <2>2. data = [i \in 1 .. Len(data) |-> data[i]]
    OBVIOUS
  <2>. QED BY <2>1, <2>2, Zenon DEF Bytes
<1>18. Word(p, 6) = CUSTOM_INFO_REQUEST /\ Word(p, 8) = 0 /\ Word(p, 4) = 0
  BY <1>2, <1>3, <1>12, <1>13, <1>16 DEF Word, CUSTOM_INFO_REQUEST
<1>19. p = CustomAnswer(data)
  BY Zenon DEF CustomAnswer, p, s, header, abc, ab, a, b, c, d
<1>. QED
  BY <1>2, <1>4, <1>12, <1>14, <1>15, <1>16, <1>17, <1>18, <1>19, Zenon DEF AnswerTo

-----------------------------------------------------------------------------
(* The answers of a walk, and what is parsed of them. *)

LEMMA WordsAreNumbers ==
    ASSUME packet \in Packet
    PROVE  \A i \in 0 .. 62 : packet[i] \in Nat /\ Word(packet, i) \in Nat
<1>1. \A i \in 0 .. 63 : packet[i] \in 0 .. 255
  BY DEF Packet, Size, Byte
<1>2. ASSUME NEW i \in 0 .. 62
      PROVE  packet[i] \in Nat /\ Word(packet, i) \in Nat
  <2>1. i \in 0 .. 63 /\ i + 1 \in 0 .. 63
    OBVIOUS
  <2>2. packet[i] \in 0 .. 255 /\ packet[i + 1] \in 0 .. 255
    BY <1>1, <2>1, Zenon
  <2>3. \A a, b \in 0 .. 255 : a \in Nat /\ a + 256 * b \in Nat
    OBVIOUS
  <2>. QED BY <2>2, <2>3, Zenon DEF Word
<1>. QED BY <1>2

\* What the parser has before it, with a pad that echoes nothing.
AnswersWith(p, length) ==
    AnswerTo(p, kind = "u2", length, PadBytes(offset, length),
             Checked(PadBytes(offset, length), Frame.checksum))

LEMMA AnswerIsRead ==
    ASSUME kind \in {"u2", "custom"}, offset \in Nat, offset < Total,
           packet \in Packet, NEW length \in AnswerLengths
    PROVE  /\ Answer(length) \in Packet
           /\ (kind = "custom" \/ ~Echoes) => AnswersWith(Answer(length), length)
<1>. DEFINE data == PadBytes(offset, length)
            high == IF ~Frame.checksum THEN 0
                    ELSE IF Echoes THEN Word(packet, HeaderAt(Frame.size_byte) + 6) ELSE crc16_modbus(data)
<1>1. length \in 0 .. 45
  BY LengthsAreSmall
<1>2. data \in Seq(Byte) /\ Len(data) = length
  <2>1. length \in Nat
    BY <1>1
  <2>. QED BY <2>1, PadBytesAreBytes, Zenon
<1>3. Len(data) <= 45
  BY <1>1, <1>2
<1>4. Frame.checksum \in BOOLEAN /\ Frame.size_byte \in BOOLEAN
  BY FrameIsAFrame DEF Frames
<1>5. high \in Nat
  <2>1. Word(packet, HeaderAt(Frame.size_byte) + 6) \in Nat
    <3>1. \A i \in 0 .. 62 : Word(packet, i) \in Nat
      BY WordsAreNumbers
    <3>2. HeaderAt(Frame.size_byte) + 6 \in 0 .. 62
      BY DEF HeaderAt
    <3>. QED BY <3>1, <3>2, Zenon
  <2>2. crc16_modbus(data) \in Nat
    BY <1>2, HalfIsNat, CrcIsAWord, Zenon
  <2>. QED BY <2>1, <2>2, HalfIsNat, Zenon
<1>6. ~Echoes => high = Checked(data, Frame.checksum)
  BY <1>4, Zenon DEF Checked
<1>7. Checked(data, Frame.checksum) \in Half
  BY <1>2, <1>4, CheckedIsAWord, Zenon
<1>8. CASE kind = "u2"
  <2>1. Answer(length) = U2Answer(data, high, Total, offset)
    BY <1>2, <1>8, Zenon DEF Answer, U2Answer
  <2>. HIDE DEF data, high
  <2>2. /\ U2Answer(data, high, Total, offset) \in Packet
        /\ high \in Half => AnswerTo(U2Answer(data, high, Total, offset), TRUE, Len(data), data, high)
    BY <1>2, <1>3, <1>5, TotalIsANumber, U2AnswerIsRead, Zenon
  <2>3. ASSUME ~Echoes PROVE AnswersWith(Answer(length), length)
    <3>1. AnswerTo(Answer(length), TRUE, length, data, Checked(data, Frame.checksum))
      BY <1>2, <1>6, <1>7, <2>1, <2>2, <2>3, Zenon
    <3>. QED BY <1>8, <3>1, Zenon DEF AnswersWith, AnswerTo, data
  <2>4. kind # "custom"
    BY <1>8
  <2>. QED BY <2>1, <2>2, <2>3, <2>4, Zenon
<1>9. CASE kind = "custom"
  <2>0. kind # "u2"
    BY <1>9
  <2>1. Answer(length) = CustomAnswer(data)
    BY <1>2, <2>0, Zenon DEF Answer, CustomAnswer
  <2>. HIDE DEF data, high
  <2>2. /\ CustomAnswer(data) \in Packet
        /\ AnswerTo(CustomAnswer(data), FALSE, Len(data), data, Checked(data, Frame.checksum))
    BY <1>2, <1>3, CustomAnswerIsRead, Zenon
  <2>3. AnswersWith(Answer(length), length)
    BY <1>2, <2>0, <2>1, <2>2, Zenon DEF AnswersWith, AnswerTo, data
  <2>. QED BY <2>1, <2>2, <2>3, Zenon
<1>. QED BY <1>8, <1>9

\* A whole answer is taken, for what it carries.
LEMMA WholeAnswerIsTaken ==
    ASSUME kind \in {"u2", "custom"}, offset \in Nat, offset < Total,
           NEW length \in AnswerLengths, AnswersWith(packet, length)
    PROVE  /\ Parsed(packet) = [ok |-> TRUE, chunk |-> PadBytes(offset, length)]
           /\ Len(PadBytes(offset, length)) = length /\ length \in Nat
           /\ \A request \in {PRO2_WRITE, PRO2_COMMIT} : ~WriteAckAccepted(packet, request)
<1>. DEFINE data == PadBytes(offset, length)
<1>1. length \in 0 .. 45
  BY LengthsAreSmall
<1>2. length \in Nat /\ length <= 45 /\ 18 + length <= Size
  BY <1>1 DEF Size
<1>3. Len(data) = length
  BY <1>2, PadBytesAreBytes, Zenon
<1>. HIDE DEF data
<1>4. Accept(packet, length) = [ok |-> TRUE, chunk |-> data]
  BY Zenon DEF AnswersWith, AnswerTo, Accept, data
<1>5. Frame.checksum \in BOOLEAN
  BY FrameIsAFrame DEF Frames
<1>6. CASE kind = "u2"
  <2>1. /\ packet[0] = 2 /\ packet[1] = SECTION /\ Word(packet, 2) = 4
        /\ Word(packet, 4) = PRO2_READ /\ Word(packet, 6) = length
        /\ Word(packet, 8) = Checked(data, Frame.checksum) /\ Bytes(packet, 18, length) = data
    BY <1>6, Zenon DEF AnswersWith, AnswerTo, data
  <2>2. Frame.checksum => Word(packet, 8) = crc16_modbus(Bytes(packet, 18, Word(packet, 6)))
    BY <2>1, Zenon DEF Checked
  <2>3. Word(packet, 6) <= CUSTOM_INFO_CHUNK /\ 18 + Word(packet, 6) <= Size
    BY <1>2, <2>1 DEF CUSTOM_INFO_CHUNK
  <2>4. Parsed(packet) = Accept(packet, length)
    BY <1>6, <2>1, <2>2, <2>3, Zenon DEF Parsed, ParsePro2ReadReply
  <2>5. Word(packet, 4) \notin {PRO2_WRITE, PRO2_COMMIT}
    BY <2>1 DEF PRO2_READ, PRO2_WRITE, PRO2_COMMIT
  <2>. QED BY <1>2, <1>3, <1>4, <2>4, <2>5, Zenon DEF WriteAckAccepted, data
<1>7. CASE kind = "custom"
  <2>0. kind # "u2"
    BY <1>7
  <2>1. /\ packet[0] = 2 /\ packet[1] = SECTION /\ packet[2] = 4 /\ Word(packet, 4) = 0
        /\ Word(packet, 6) = CUSTOM_INFO_REQUEST /\ Word(packet, 8) = 0 /\ packet[10] = length
    BY <2>0, Zenon DEF AnswersWith, AnswerTo
  <2>2. 18 + packet[10] <= Size
    BY <1>2, <2>1
  <2>3. Parsed(packet) = Accept(packet, length)
    BY <2>0, <2>1, <2>2, Zenon DEF Parsed, ParseCustomInfoReply
  <2>4. Word(packet, 4) \notin {PRO2_WRITE, PRO2_COMMIT}
    BY <2>1 DEF PRO2_WRITE, PRO2_COMMIT
  <2>. QED BY <1>2, <1>3, <1>4, <2>3, <2>4, Zenon DEF WriteAckAccepted, data
<1>. QED BY <1>6, <1>7

\* Whatever is in a report, what is taken from it has a length.
LEMMA TakenHasALength ==
    ASSUME packet \in Packet, Parsed(packet).ok
    PROVE  Len(Parsed(packet).chunk) \in Nat
<1>1. ASSUME NEW n \in Nat PROVE Len(Bytes(packet, 18, n)) = n
  BY DEF Bytes
<1>2. packet[10] \in Nat /\ Word(packet, 6) \in Nat
  <2>1. 10 \in 0 .. 62 /\ 6 \in 0 .. 62
    OBVIOUS
  <2>. QED BY <2>1, WordsAreNumbers, Zenon
<1>3. \A n \in Nat : Len(Accept(packet, n).chunk) \in Nat
  BY <1>1, Zenon DEF Accept
<1>4. Parsed(packet) \in {Refuse, Accept(packet, packet[10]), Accept(packet, Word(packet, 6))}
  BY Zenon DEF Parsed, ParsePro2ReadReply, ParseCustomInfoReply
<1>5. Parsed(packet) # Refuse
  BY DEF Refuse
<1>. QED BY <1>2, <1>3, <1>4, <1>5, Zenon

-----------------------------------------------------------------------------
(* The section in pieces. *)

LEMMA SameBytes ==
    ASSUME NEW s \in Seq(Byte), NEW t \in Seq(Byte), Len(s) = Len(t),
           \A i \in 1 .. Len(s) : s[i] = t[i]
    PROVE  s = t
OBVIOUS

LEMMA CutBytes ==
    ASSUME NEW s \in Seq(Byte), NEW n \in Nat, n <= Len(s)
    PROVE  SubSeq(s, 1, n) \in Seq(Byte) /\ Len(SubSeq(s, 1, n)) = n
OBVIOUS

LEMMA PadByte ==
    ASSUME NEW from \in Nat, NEW length \in Nat, NEW i \in 1 .. length
    PROVE  PadBytes(from, length)[i] = (7 * (from + i) + (from + i) \div 256) % 256
BY Zenon DEF PadBytes

LEMMA SectionJoins ==
    ASSUME NEW n \in Nat, NEW length \in Nat
    PROVE  PadBytes(0, n) \o PadBytes(n, length) = PadBytes(0, n + length)
<1>. DEFINE byte(m) == (7 * m + m \div 256) % 256
            s == PadBytes(0, n)
            t == PadBytes(n, length)
            u == PadBytes(0, n + length)
            st == s \o t
<1>1. 0 \in Nat /\ n + length \in Nat
  OBVIOUS
<1>2. /\ s \in Seq(Byte) /\ Len(s) = n
      /\ t \in Seq(Byte) /\ Len(t) = length
      /\ u \in Seq(Byte) /\ Len(u) = n + length
  BY <1>1, PadBytesAreBytes, Zenon
<1>3. \A i \in 1 .. n : s[i] = byte(0 + i)
  BY <1>1, PadByte, ZenonT(30)
<1>4. \A i \in 1 .. length : t[i] = byte(n + i)
  BY PadByte, ZenonT(30)
<1>5. \A i \in 1 .. n + length : u[i] = byte(0 + i)
  BY <1>1, PadByte, ZenonT(30)
<1>. HIDE DEF byte, s, t, u
<1>6. /\ st \in Seq(Byte) /\ Len(st) = Len(s) + Len(t)
      /\ \A i \in 1 .. Len(s) : st[i] = s[i]
      /\ \A i \in 1 .. Len(t) : st[Len(s) + i] = t[i]
  BY <1>2, ConcatBytes, Zenon
<1>. HIDE DEF st
<1>7. Len(st) = Len(u)
  BY <1>2, <1>6
<1>8. ASSUME NEW i \in 1 .. Len(st) PROVE st[i] = u[i]
  <2>1. i \in 1 .. n + length
    BY <1>2, <1>7
  <2>2. CASE i <= n
    <3>1. i \in 1 .. n /\ i \in 1 .. Len(s)
      BY <1>2, <2>1, <2>2
    <3>. QED BY <1>3, <1>5, <1>6, <2>1, <3>1, Zenon
  <2>3. CASE ~(i <= n)
    <3>. DEFINE j == i - n
    <3>1. j \in 1 .. length /\ j \in 1 .. Len(t) /\ n + j = 0 + i /\ Len(s) + j = i
      BY <1>2, <2>1, <2>3
    <3>. HIDE DEF j
    <3>. QED BY <1>4, <1>5, <1>6, <2>1, <3>1, Zenon
  <2>. QED BY <2>2, <2>3
<1>9. st = u
  BY <1>2, <1>6, <1>7, <1>8, SameBytes, Zenon
<1>. QED BY <1>9, Zenon DEF st, s, t, u

LEMMA SectionIsCut ==
    ASSUME NEW n \in Nat, NEW m \in Nat, m <= n
    PROVE  SubSeq(PadBytes(0, n), 1, m) = PadBytes(0, m)
<1>. DEFINE byte(k) == (7 * k + k \div 256) % 256
            s == PadBytes(0, n)
            u == PadBytes(0, m)
<1>1. s \in Seq(Byte) /\ Len(s) = n /\ u \in Seq(Byte) /\ Len(u) = m
  BY HalfIsNat, PadBytesAreBytes, Zenon
<1>2. \A i \in 1 .. n : s[i] = byte(0 + i)
  BY HalfIsNat, PadByte, ZenonT(30)
<1>3. \A i \in 1 .. m : u[i] = byte(0 + i)
  BY HalfIsNat, PadByte, ZenonT(30)
<1>. HIDE DEF byte, s, u
<1>. DEFINE c == SubSeq(s, 1, m)
<1>4. c \in Seq(Byte) /\ Len(c) = m /\ \A i \in 1 .. m : c[i] = s[i]
  BY <1>1
<1>. HIDE DEF c
<1>5. ASSUME NEW i \in 1 .. Len(c) PROVE c[i] = u[i]
  <2>1. i \in 1 .. m /\ i \in 1 .. n
    BY <1>4
  <2>. QED BY <1>2, <1>3, <1>4, <2>1, Zenon
<1>6. c = u
  BY <1>1, <1>4, <1>5, SameBytes, Zenon
<1>. QED BY <1>6, Zenon DEF c, s, u

-----------------------------------------------------------------------------
(* The invariant. *)

Stored == IF offset < Total THEN offset ELSE Total

\* The packet before the pad is the request of this very offset, and the one
\* before the parser is the answer to it.
TypeInv ==
    /\ kind \in {"u2", "custom"} /\ offset \in Nat
    /\ phase \in {"ask", "asked", "answered"} /\ packet \in Packet
AskedInv == phase # "ask" => offset < Total /\ (phase = "asked" => packet = Request)
WholeInv ==
    (phase = "answered" /\ (kind = "custom" \/ ~Echoes)) =>
        \E length \in AnswerLengths : AnswersWith(packet, length)

\* What assemble_custom_info has is the section's first bytes, as many as the
\* read has, until it has had its thirty replies.
JoinInv ==
    kind = "custom" =>
        /\ tries \in 0 .. 31
        /\ \E n \in Nat : /\ joined = PadBytes(0, n)
                          /\ n <= Stored /\ (tries <= 30 => n = Stored)
IInv == TypeInv /\ AskedInv /\ WholeInv /\ JoinInv

LEMMA RequestIsBytes ==
    ASSUME offset \in Nat, offset < Total, kind \in {"u2", "custom"}
    PROVE  Request \in Packet
<1>1. CASE kind = "u2"
  <2>1. offset \in Half /\ offset <= Total
    BY OffsetIsHalf, TotalIsANumber
  <2>2. Total \in Nat /\ Frame \in Frames
    BY TotalIsANumber, FrameIsAFrame
  <2>3. PadReport(Pro2ReadChunk(offset, Total, Frame)) \in Packet
    BY <2>1, <2>2, ReadChunkIsRead, Zenon DEF ReadsAs
  <2>. QED BY <1>1, <2>3, Zenon DEF Request
<1>2. CASE kind = "custom"
  <2>1. offset \in 0 .. CUSTOM_INFO_TOTAL /\ kind # "u2"
    BY <1>2 DEF Total, CUSTOM_INFO_TOTAL
  <2>2. PadReport(CustomInfoChunk(offset)) \in Packet
    BY <2>1, CustomInfoIsBytes, Zenon
  <2>. QED BY <2>1, <2>2, Zenon DEF Request
<1>. QED BY <1>1, <1>2

LEMMA InitIInv == Init => IInv
<1>. SUFFICES ASSUME Init PROVE IInv
  OBVIOUS
<1>1. TypeInv
  <2>1. IDENTIFY_INIT \in Seq(Byte)
    BY DEF IDENTIFY_INIT, Byte
  <2>2. PadReport(IDENTIFY_INIT) \in Packet
    BY <2>1, PayloadInReport, Zenon
  <2>3. kind \in {"u2", "custom"} /\ offset = 0 /\ phase = "ask" /\ packet = PadReport(IDENTIFY_INIT)
    BY Zenon DEF Init
  <2>. QED BY <2>2, <2>3 DEF TypeInv
<1>2. AskedInv /\ WholeInv
  BY DEF Init, AskedInv, WholeInv
<1>3. JoinInv
  <2>1. PadBytes(0, 0) = <<>>
    BY DEF PadBytes
  <2>2. Stored = 0
    BY TotalIsANumber DEF Init, Stored
  <2>3. joined = <<>> /\ tries = 0
    BY DEF Init
  <2>. QED BY <2>1, <2>2, <2>3 DEF JoinInv
<1>. QED BY <1>1, <1>2, <1>3 DEF IInv

LEMMA TakeJoins ==
    ASSUME IInv, Take, kind = "custom"
    PROVE  JoinInv'
<1>1. kind # "u2" /\ phase = "answered" /\ kind' = kind
  BY Zenon DEF Take
<1>2. /\ kind \in {"u2", "custom"} /\ offset \in Nat /\ offset < Total /\ tries \in 0 .. 31
  BY <1>1, Zenon DEF IInv, TypeInv, AskedInv, JoinInv
<1>3. PICK length \in AnswerLengths : AnswersWith(packet, length)
  BY <1>1, Zenon DEF IInv, WholeInv
<1>4. /\ Parsed(packet) = [ok |-> TRUE, chunk |-> PadBytes(offset, length)]
      /\ Len(PadBytes(offset, length)) = length /\ length \in Nat
  BY <1>2, <1>3, WholeAnswerIsTaken, Zenon
<1>5. PICK n \in Nat : joined = PadBytes(0, n) /\ n <= Stored /\ (tries <= 30 => n = Stored)
  BY <1>1, Zenon DEF IInv, JoinInv
<1>. DEFINE chunk == PadBytes(offset, length)
<1>6. /\ offset' = offset + length
      /\ Join(chunk)
      /\ tries' = IF tries = 31 THEN tries ELSE tries + 1
  BY <1>1, <1>4 DEF Take
<1>. HIDE DEF chunk
<1>7. Total = 560 /\ Total' = 560 /\ CUSTOM_INFO_TOTAL = 560
  BY <1>1 DEF Total, CUSTOM_INFO_TOTAL
<1>8. Stored = offset /\ Stored' = IF offset + length < 560 THEN offset + length ELSE 560
  BY <1>2, <1>6, <1>7 DEF Stored
<1>9. tries' \in 0 .. 31 /\ (tries' <= 30 => tries < 30)
  BY <1>2, <1>6
<1>10. Len(joined) = n
  BY <1>5, HalfIsNat, PadBytesAreBytes, Zenon
<1>11. CASE tries >= 30
  <2>1. joined' = joined
    BY <1>6, <1>11 DEF Join
  <2>2. n <= Stored' /\ ~(tries' <= 30)
    BY <1>2, <1>4, <1>5, <1>7, <1>8, <1>9, <1>11
  <2>. QED BY <1>5, <1>9, <2>1, <2>2 DEF JoinInv
<1>12. CASE ~(tries >= 30)
  <2>1. n = offset
    BY <1>2, <1>5, <1>8, <1>12
  <2>. DEFINE all == joined \o chunk
  <2>2. joined' = IF Len(all) > 560 THEN SubSeq(all, 1, 560) ELSE all
    <3>1. ~(Len(joined) >= CUSTOM_INFO_TOTAL)
      BY <1>2, <1>7, <1>10, <2>1
    <3>2. joined' = IF Len(all) > CUSTOM_INFO_TOTAL THEN SubSeq(all, 1, CUSTOM_INFO_TOTAL) ELSE all
      BY <1>1, <1>6, <1>12, <3>1, Zenon DEF Join
    <3>. HIDE DEF all
    <3>. QED BY <1>7, <3>2
  <2>3. all = PadBytes(0, n + length)
    BY <1>4, <1>5, <2>1, SectionJoins, Zenon DEF chunk
  <2>. HIDE DEF all
  <2>4. Len(all) = n + length /\ n + length \in Nat
    <3>1. n + length \in Nat
      BY <1>4
    <3>. QED BY <2>3, <3>1, HalfIsNat, PadBytesAreBytes, Zenon
  <2>5. CASE n + length > 560
    <3>. DEFINE whole == n + length
                most == 560
    <3>1. most \in Nat /\ whole \in Nat /\ most <= whole /\ all = PadBytes(0, whole)
      BY <2>3, <2>4, <2>5
    <3>2. joined' = SubSeq(all, 1, most)
      BY <2>2, <2>4, <2>5
    <3>3. Stored' = most
      BY <1>4, <1>8, <2>1, <2>5
    <3>. HIDE DEF whole, most
    <3>4. joined' = PadBytes(0, most)
      BY <3>1, <3>2, SectionIsCut, Zenon
    <3>. QED BY <1>9, <3>1, <3>3, <3>4 DEF JoinInv, whole, most
  <2>6. CASE ~(n + length > 560)
    <3>1. joined' = PadBytes(0, n + length)
      BY <2>2, <2>3, <2>4, <2>6
    <3>2. Stored' = n + length
      BY <1>4, <1>8, <2>1, <2>6
    <3>. QED BY <1>9, <2>4, <3>1, <3>2 DEF JoinInv
  <2>. QED BY <2>5, <2>6
<1>. QED BY <1>11, <1>12

LEMMA NextIInv == IInv /\ [Next]_vars => IInv'
<1>. SUFFICES ASSUME IInv, [Next]_vars PROVE IInv'
  OBVIOUS
<1>1. /\ kind \in {"u2", "custom"} /\ offset \in Nat
      /\ phase \in {"ask", "asked", "answered"} /\ packet \in Packet
  BY Zenon DEF IInv, TypeInv
<1>2. CASE Ask
  <2>1. /\ offset < Total /\ packet' = Request /\ phase' = "asked"
        /\ kind' = kind /\ family' = family /\ offset' = offset /\ joined' = joined /\ tries' = tries
    BY <1>2, Zenon DEF Ask
  <2>2. Total' = Total /\ Frame' = Frame
    BY <2>1, Zenon DEF Total, Frame
  <2>3. Request' = Request
    BY <2>1, <2>2, Zenon DEF Request
  <2>4. TypeInv'
    BY <1>1, <2>1, RequestIsBytes DEF TypeInv
  <2>5. AskedInv' /\ WholeInv'
    BY <2>1, <2>2, <2>3 DEF AskedInv, WholeInv
  <2>6. JoinInv'
    <3>1. Stored' = Stored
      BY <2>1, <2>2, Zenon DEF Stored
    <3>. QED BY <2>1, <3>1, Zenon DEF IInv, JoinInv
  <2>. QED BY <2>4, <2>5, <2>6 DEF IInv
<1>3. CASE PadAnswers
  <2>1. PICK length \in AnswerLengths : packet' = Answer(length)
    BY <1>3, Zenon DEF PadAnswers
  <2>2. /\ phase = "asked" /\ phase' = "answered"
        /\ kind' = kind /\ family' = family /\ offset' = offset /\ joined' = joined /\ tries' = tries
    BY <1>3, Zenon DEF PadAnswers
  <2>3. Total' = Total /\ Frame' = Frame /\ AnswerLengths' = AnswerLengths
    BY <2>2, Zenon DEF Total, Frame, AnswerLengths
  <2>4. offset < Total
    BY <2>2 DEF IInv, AskedInv
  <2>5. /\ Answer(length) \in Packet
        /\ (kind = "custom" \/ ~Echoes) => AnswersWith(Answer(length), length)
    BY <1>1, <2>4, AnswerIsRead, Zenon
  <2>6. TypeInv'
    BY <1>1, <2>1, <2>2, <2>5 DEF TypeInv
  <2>7. AskedInv'
    BY <2>2, <2>3, <2>4 DEF AskedInv
  <2>8. WholeInv'
    <3>1. AnswersWith(packet, length)' = AnswersWith(Answer(length), length)
      BY <2>1, <2>2, <2>3, Zenon DEF AnswersWith
    <3>. QED BY <2>2, <2>3, <2>5, <3>1, Zenon DEF WholeInv
  <2>9. JoinInv'
    <3>1. Stored' = Stored
      BY <2>2, <2>3, Zenon DEF Stored
    <3>. QED BY <2>2, <3>1, Zenon DEF IInv, JoinInv
  <2>. QED BY <2>6, <2>7, <2>8, <2>9 DEF IInv
<1>4. CASE Take
  <2>. DEFINE got == Parsed(packet)
              chunk == IF got.ok THEN got.chunk ELSE <<>>
  <2>1. /\ offset' = offset + Len(chunk) /\ phase' = "ask"
        /\ kind' = kind /\ packet' = packet
    BY <1>4 DEF Take
  <2>2. Len(chunk) \in Nat
    <3>1. CASE got.ok
      BY <1>1, <3>1, TakenHasALength, Zenon
    <3>2. CASE ~got.ok
      <4>1. chunk = <<>>
        BY <3>2, Zenon
      <4>. HIDE DEF chunk
      <4>. QED BY <4>1
    <3>. QED BY <3>1, <3>2
  <2>. HIDE DEF chunk
  <2>3. TypeInv'
    BY <1>1, <2>1, <2>2 DEF TypeInv
  <2>4. AskedInv' /\ WholeInv'
    BY <2>1 DEF AskedInv, WholeInv
  <2>5. JoinInv'
    <3>1. CASE kind = "custom"
      BY <1>4, <3>1, TakeJoins
    <3>2. CASE kind # "custom"
      BY <2>1, <3>2, Zenon DEF JoinInv
    <3>. QED BY <3>1, <3>2
  <2>. QED BY <2>3, <2>4, <2>5 DEF IInv
<1>5. CASE Finished \/ UNCHANGED vars
  <2>1. /\ kind' = kind /\ family' = family /\ offset' = offset /\ phase' = phase
        /\ packet' = packet /\ joined' = joined /\ tries' = tries
    BY <1>5, Zenon DEF Finished, vars
  <2>2. Total' = Total /\ Frame' = Frame /\ AnswerLengths' = AnswerLengths
    BY <2>1, Zenon DEF Total, Frame, AnswerLengths
  <2>3. Request' = Request /\ Stored' = Stored
    BY <2>1, <2>2, Zenon DEF Request, Stored
  <2>4. TypeInv' /\ AskedInv'
    BY <2>1, <2>2, <2>3, Zenon DEF IInv, TypeInv, AskedInv
  <2>5. WholeInv'
    BY <2>1, <2>2, Zenon DEF IInv, WholeInv, AnswersWith
  <2>6. JoinInv'
    BY <2>1, <2>3, Zenon DEF IInv, JoinInv
  <2>. QED BY <2>4, <2>5, <2>6 DEF IInv
<1>. QED BY <1>2, <1>3, <1>4, <1>5 DEF Next

LEMMA SpecIInv == Spec => []IInv
<1>1. IInv /\ [Next]_vars => IInv'
  BY NextIInv
<1>. QED BY <1>1, InitIInv, PTL DEF Spec

-----------------------------------------------------------------------------
(* What follows from it. *)

\* Whatever lengths the answers have, every request passes the allowlist.
THEOREM WalkRequestsAreAllowed == Spec => []RequestsAreAllowed
<1>1. ASSUME IInv PROVE RequestsAreAllowed
  <2>. SUFFICES ASSUME phase = "asked" PROVE Allowed(packet, FALSE)
    BY DEF RequestsAreAllowed
  <2>1. kind \in {"u2", "custom"} /\ offset \in Nat /\ offset < Total /\ packet = Request
    BY <1>1 DEF IInv, TypeInv, AskedInv
  <2>2. CASE kind = "u2"
    <3>1. Total \in Nat /\ offset \in 0 .. Total /\ Frame \in Frames
      BY <2>1, TotalIsANumber, FrameIsAFrame
    <3>2. Allowed(PadReport(Pro2ReadChunk(offset, Total, Frame)), FALSE)
      BY <3>1, ReadsAreAllowed, Zenon
    <3>. QED BY <2>1, <2>2, <3>2, Zenon DEF Request
  <2>3. CASE kind = "custom"
    <3>1. offset \in 0 .. CUSTOM_INFO_TOTAL /\ kind # "u2"
      BY <2>1, <2>3 DEF Total, CUSTOM_INFO_TOTAL
    <3>2. Allowed(PadReport(CustomInfoChunk(offset)), FALSE)
      BY <3>1, CustomInfoReadsAreAllowed, Zenon
    <3>. QED BY <2>1, <3>1, <3>2, Zenon DEF Request
  <2>. QED BY <2>1, <2>2, <2>3
<1>. QED BY <1>1, SpecIInv, PTL

\* A pad of the request's frame reads in it the window the tool is at, and a
\* pad of the other frame nothing that changes it.
THEOREM WalkReadsTheWindow == Spec => []PadReadsTheWindow
<1>1. ASSUME IInv, RequestsAreAllowed PROVE PadReadsTheWindow
  <2>1. SUFFICES ASSUME phase = "asked" PROVE PadReadsTheWindow
    BY Zenon DEF PadReadsTheWindow
  <2>2. /\ kind \in {"u2", "custom"} /\ offset \in Nat /\ offset < Total
        /\ packet = Request /\ packet \in Packet
    BY <1>1, <2>1 DEF IInv, TypeInv, AskedInv
  <2>3. ~ChangesState(packet)
    BY <1>1, <2>1, <2>2, AllowedIsReadOnly DEF RequestsAreAllowed
  <2>. DEFINE s == Frame.size_byte
              wanted == ChunkLength(offset, Total)
              data == Fill(wanted)
  <2>4. CASE kind = "u2"
    <3>1. offset \in Half /\ offset <= Total /\ Total \in Nat /\ Frame \in Frames
      BY <2>2, OffsetIsHalf, TotalIsANumber, FrameIsAFrame
    <3>2. packet = PadReport(Pro2ReadChunk(offset, Total, Frame))
      BY <2>2, <2>4, Zenon DEF Request
    <3>3. /\ data \in Seq(Byte) /\ Len(data) = wanted
          /\ ReadsAs(packet, s, PRO2_READ, offset, data, Checked(data, Frame.checksum))
      BY <3>1, <3>2, ReadChunkIsRead, Zenon
    <3>4. wanted > 0
      BY <2>2, <3>1 DEF ChunkLength, Min2, CUSTOM_INFO_CHUNK
    <3>. HIDE DEF s, wanted, data
    <3>5. /\ TakesSection(packet, s) /\ RequestOf(packet, s) = PRO2_READ
          /\ OffsetOf(packet, s) = offset /\ LengthOf(packet, s) = wanted
          /\ Word(packet, HeaderAt(s) + 6) = Checked(data, Frame.checksum)
          /\ Bytes(packet, HeaderAt(s) + 16, wanted) = data
      BY <3>3, Zenon DEF ReadsAs
    <3>. QED
      BY <2>3, <3>4, <3>5, Zenon DEF PadReadsTheWindow, Checked, s, wanted
  <2>5. CASE kind # "u2"
    BY <2>3, <2>5, Zenon DEF PadReadsTheWindow
  <2>. QED BY <2>4, <2>5
<1>. QED BY <1>1, SpecIInv, WalkRequestsAreAllowed, PTL

\* The initDevice1 packet, the commits and the write chunks of every window
\* are refused, armed or not, whichever frame they are in.
THEOREM WalkWritesAreRefused == Spec => []WritesAreRefused
<1>1. ASSUME NEW armed \in BOOLEAN PROVE ~Allowed(InitDevice1, armed)
  <2>. DEFINE payload == <<REPORT_OUT, 5>> \o <<193, 0, 0, 128>>
  <2>1. payload \in Seq(Byte) /\ Len(payload) = 6 /\ payload[2] = 5 /\ payload[3] = 193 /\ payload[6] = 128
    BY DEF REPORT_OUT, Byte
  <2>2. InitDevice1 = PadReport(payload)
    BY Zenon DEF InitDevice1, Class05
  <2>. HIDE DEF payload
  <2>3. /\ InitDevice1 \in Packet
        /\ \A i \in 0 .. 63 : i < Len(payload) => InitDevice1[i] = payload[i + 1]
    <3>1. payload \in Seq(Byte)
      BY <2>1
    <3>. QED BY <2>2, <3>1, PayloadInReport, Zenon
  <2>4. InitDevice1[1] = 5 /\ InitDevice1[2] = 193 /\ InitDevice1[5] = 128
    <3>1. ASSUME NEW i \in 0 .. 5 PROVE InitDevice1[i] = payload[i + 1]
      <4>1. i \in 0 .. 63 /\ i < Len(payload)
        BY <2>1
      <4>. QED BY <2>3, <4>1, Zenon
    <3>. QED BY <2>1, <3>1
  <2>5. ~OnReadList(InitDevice1)
    <3>1. InitDevice1 \in Packet
      BY <2>3, Zenon
    <3>. QED BY <2>4, <3>1, AllowedBytes
  <2>6. InitDevice1 # PadReport(SWITCH_TO_DINPUT)
    <3>1. PadReport(SWITCH_TO_DINPUT)[2] = 0
      BY DEF PadReport, SWITCH_TO_DINPUT, Size
    <3>. QED BY <2>4, <3>1
  <2>. QED BY <2>5, <2>6 DEF Allowed
<1>2. ASSUME IInv PROVE WritesAreRefused
  <2>. SUFFICES ASSUME phase = "asked", kind = "u2", NEW armed \in BOOLEAN, NEW size_byte \in BOOLEAN
                PROVE  /\ ~Allowed(InitDevice1, armed)
                       /\ ~Allowed(PadReport(Pro2Commit(size_byte)), armed)
                       /\ \A n \in {0, 1, ChunkLength(offset, Total)} :
                            ~Allowed(PadReport(Pro2WriteChunk(offset, Total, PadBytes(offset, 45), n,
                                     [checksum |-> Frame.checksum, size_byte |-> size_byte])), armed)
    BY Zenon DEF WritesAreRefused
  <2>1. offset \in Nat /\ offset < Total /\ offset \in Half /\ Total \in Nat
    BY <1>2, OffsetIsHalf, TotalIsANumber DEF IInv, TypeInv, AskedInv
  <2>. DEFINE frame == [checksum |-> Frame.checksum, size_byte |-> size_byte]
              data == PadBytes(offset, 45)
  <2>2. frame \in Frames /\ frame.size_byte = size_byte
    BY FrameIsAFrame DEF Frames
  <2>3. data \in Seq(Byte) /\ Len(data) = 45
    <3>1. 45 \in Nat
      OBVIOUS
    <3>. QED BY <2>1, <3>1, PadBytesAreBytes
  <2>. HIDE DEF frame, data
  <2>4. ASSUME NEW n \in {0, 1, ChunkLength(offset, Total)}
        PROVE  /\ ~Allowed(PadReport(Pro2Commit(size_byte)), armed)
               /\ ~Allowed(PadReport(Pro2WriteChunk(offset, Total, data, n, frame)), armed)
    <3>1. n \in 0 .. 45
      BY <2>1 DEF ChunkLength, Min2, CUSTOM_INFO_CHUNK
    <3>. DEFINE sent == SubSeq(data, 1, n)
    <3>2. sent \in Seq(Byte) /\ Len(sent) = n /\ SubSeq(sent, 1, n) = sent
      <4>1. n \in Nat /\ n <= Len(data)
        BY <2>3, <3>1
      <4>2. sent \in Seq(Byte) /\ Len(sent) = n
        BY <2>3, <4>1, CutBytes, Zenon
      <4>. HIDE DEF sent
      <4>3. SubSeq(sent, 1, Len(sent)) = sent
        BY <4>2
      <4>. QED BY <4>2, <4>3, Zenon
    <3>. HIDE DEF sent
    <3>3. Len(sent) <= 45
      BY <3>1, <3>2
    <3>4. Pro2WriteChunk(offset, Total, data, n, frame) = Pro2WriteChunk(offset, Total, sent, Len(sent), frame)
      BY <3>2, Zenon DEF Pro2WriteChunk, sent
    <3>5. /\ ~Allowed(PadReport(Pro2Commit(frame.size_byte)), armed)
          /\ ~Allowed(PadReport(Pro2WriteChunk(offset, Total, sent, Len(sent), frame)), armed)
      BY <2>1, <2>2, <3>2, <3>3, WritesAreNeverAllowed, Zenon
    <3>. QED BY <2>2, <3>4, <3>5, Zenon
  <2>. QED BY <1>1, <2>4, Zenon DEF frame, data
<1>. QED BY <1>2, SpecIInv, PTL

\* With a pad that fills in the dword of its answer, every whole answer is
\* taken for the bytes at the offset, of either frame and of any length.
THEOREM WalkAnswersAreTheSection == ~Echoes => (Spec => []AnswersAreTheSection)
<1>. SUFFICES ASSUME ~Echoes PROVE Spec => []AnswersAreTheSection
  OBVIOUS
<1>1. ASSUME IInv PROVE AnswersAreTheSection
  <2>. SUFFICES ASSUME phase = "answered" PROVE AnswersAreTheSection
    BY Zenon DEF AnswersAreTheSection
  <2>1. kind \in {"u2", "custom"} /\ offset \in Nat /\ offset < Total
    BY <1>1 DEF IInv, TypeInv, AskedInv
  <2>2. PICK length \in AnswerLengths : AnswersWith(packet, length)
    BY <1>1, Zenon DEF IInv, WholeInv
  <2>3. /\ Parsed(packet) = [ok |-> TRUE, chunk |-> PadBytes(offset, length)]
        /\ Len(PadBytes(offset, length)) = length
        /\ \A request \in {PRO2_WRITE, PRO2_COMMIT} : ~WriteAckAccepted(packet, request)
    BY <2>1, <2>2, WholeAnswerIsTaken, Zenon
  <2>4. Parsed(packet).ok /\ Parsed(packet).chunk = PadBytes(offset, length)
    <3>1. \A got, bytes : got = [ok |-> TRUE, chunk |-> bytes] => got.ok /\ got.chunk = bytes
      OBVIOUS
    <3>. QED BY <2>3, <3>1, Zenon
  <2>. QED BY <2>3, <2>4, Zenon DEF AnswersAreTheSection
<1>. QED BY <1>1, SpecIInv, PTL

\* assemble_custom_info has what the read has, of the same answers.
THEOREM WalkJoinsLikeTheRead == Spec => []JoinsLikeTheRead
<1>1. ASSUME IInv PROVE JoinsLikeTheRead
  <2>. SUFFICES ASSUME kind = "custom" PROVE JoinsLikeTheRead
    BY Zenon DEF JoinsLikeTheRead
  <2>1. PICK n \in Nat : joined = PadBytes(0, n) /\ n <= Stored /\ (tries <= 30 => n = Stored)
    BY <1>1, Zenon DEF IInv, JoinInv
  <2>2. Len(joined) = n
    BY <2>1, HalfIsNat, PadBytesAreBytes, Zenon
  <2>. QED BY <2>1, <2>2 DEF JoinsLikeTheRead, Stored
<1>. QED BY <1>1, SpecIInv, PTL
-----------------------------------------------------------------------------
(* What the checksum of an answer is for. *)

\* The bytes of an answer that its checksum is in or is about.
Covered(p) == {8, 9} \cup 18 .. 17 + Word(p, 6)

\* An answer that is taken with its checksum, and with one byte of the data or
\* of the checksum changed to any other, is refused (packets.py 272-274).
THEOREM OneByteIsRefused ==
    ASSUME NEW p \in Packet, ParsePro2ReadReply(p, TRUE).ok,
           NEW at \in Covered(p), NEW b \in Byte, b # p[at]
    PROVE  ~ParsePro2ReadReply([p EXCEPT ![at] = b], TRUE).ok
<1>. DEFINE q == [p EXCEPT ![at] = b]
            n == Word(p, 6)
            s == Bytes(p, 18, n)
            t == Bytes(q, 18, n)
<1>1. /\ n <= CUSTOM_INFO_CHUNK /\ 18 + n <= Size
      /\ Word(p, 8) = crc16_modbus(s)
  BY Zenon DEF ParsePro2ReadReply, Refuse
<1>2. \A i \in 0 .. 63 : p[i] \in 0 .. 255
  BY DEF Packet, Size, Byte
<1>3. n \in 0 .. 45
  <2>1. p[6] \in 0 .. 255 /\ p[7] \in 0 .. 255
    BY <1>2
  <2>2. n = p[6] + 256 * p[7]
    BY DEF Word
  <2>3. n <= 45
    BY <1>1 DEF CUSTOM_INFO_CHUNK
  <2>. DEFINE low == p[6]
              high == p[7]
  <2>4. low \in 0 .. 255 /\ high \in 0 .. 255 /\ n = low + 256 * high
    BY <2>1, <2>2
  <2>. HIDE DEF n, low, high
  <2>. QED BY <2>3, <2>4
<1>4. at \in 0 .. 63 /\ (at \in {8, 9} \/ at \in 18 .. 17 + n)
  BY <1>3 DEF Covered
<1>5. q[at] = b /\ \A i \in 0 .. 63 : i # at => q[i] = p[i]
  BY <1>4 DEF Packet, Size
<1>6. \A i \in 0 .. 63 : q[i] \in 0 .. 255
  BY <1>2, <1>5 DEF Byte
<1>. HIDE DEF q
<1>7. Word(q, 6) = n
  BY <1>4, <1>5 DEF Word
<1>. HIDE DEF n
<1>8. \A i \in 1 .. n : s[i] = p[17 + i] /\ t[i] = q[17 + i] /\ 17 + i \in 0 .. 63
  BY <1>3 DEF Bytes
<1>9. s \in Seq(Byte) /\ t \in Seq(Byte) /\ Len(s) = n /\ Len(t) = n
  <2>1. \A i \in 1 .. n : 18 + i - 1 \in 0 .. 63
    BY <1>3
  <2>2. \A i \in 1 .. n : p[18 + i - 1] \in Byte /\ q[18 + i - 1] \in Byte
    BY <1>2, <1>6, <2>1 DEF Byte
  <2>. QED BY <1>3, <2>2 DEF Bytes
<1>. HIDE DEF s, t
<1>10. Word(q, 8) # crc16_modbus(t)
  <2>1. CASE at \in {8, 9}
    <3>1. \A i \in 1 .. n : s[i] = t[i]
      BY <1>3, <1>5, <1>8, <2>1
    <3>2. s = t
      BY <1>9, <3>1, SameBytes, Zenon
    <3>3. Word(q, 8) # Word(p, 8)
      <4>1. p[8] \in 0 .. 255 /\ p[9] \in 0 .. 255 /\ q[8] \in 0 .. 255 /\ q[9] \in 0 .. 255
        <5>. DEFINE Places == 0 .. 63
                    Values == 0 .. 255
        <5>1. 8 \in Places /\ 9 \in Places
          OBVIOUS
        <5>2. \A i \in Places : p[i] \in Values /\ q[i] \in Values
          BY <1>2, <1>6
        <5>. HIDE DEF Places
        <5>. QED BY <5>1, <5>2
      <4>2. \/ q[8] # p[8] /\ q[9] = p[9]
            \/ q[8] = p[8] /\ q[9] # p[9]
        BY <1>5, <2>1
      <4>3. Word(p, 8) = p[8] + 256 * p[9] /\ Word(q, 8) = q[8] + 256 * q[9]
        BY DEF Word
      <4>. DEFINE low == p[8]
                  high == p[9]
                  low1 == q[8]
                  high1 == q[9]
      <4>4. low + 256 * high # low1 + 256 * high1
        <5>. HIDE DEF low, high, low1, high1
        <5>1. /\ low \in 0 .. 255 /\ high \in 0 .. 255 /\ low1 \in 0 .. 255 /\ high1 \in 0 .. 255
              /\ (low1 # low /\ high1 = high) \/ (low1 = low /\ high1 # high)
          BY <4>1, <4>2 DEF low, high, low1, high1
        <5>. QED BY <5>1, Z3
      <4>. QED BY <4>3, <4>4
    <3>. QED BY <1>1, <3>2, <3>3
  <2>2. CASE at \in 18 .. 17 + n
    <3>. DEFINE k == at - 17
    <3>1. k \in 1 .. n /\ 17 + k = at
      BY <1>3, <2>2
    <3>2. s[k] # t[k]
      BY <1>5, <1>8, <3>1
    <3>3. \A i \in 1 .. n : i # k => s[i] = t[i]
      BY <1>3, <1>5, <1>8, <3>1
    <3>. HIDE DEF k
    <3>4. OneApart(s, t, k)
      BY <1>9, <3>1, <3>2, <3>3 DEF OneApart
    <3>5. crc16_modbus(s) # crc16_modbus(t)
      BY <1>9, <3>4, CrcTellsOneByte, Zenon
    <3>6. Word(q, 8) = Word(p, 8)
      BY <1>5, <2>2 DEF Word
    <3>. QED BY <1>1, <3>5, <3>6
  <2>. QED BY <1>4, <2>1, <2>2
<1>11. ~(Word(q, 8) = crc16_modbus(Bytes(q, 18, Word(q, 6))))
  BY <1>7, <1>10 DEF t
<1>12. ParsePro2ReadReply(q, TRUE) = Refuse
  BY <1>11, Zenon DEF ParsePro2ReadReply
<1>13. ~Refuse.ok
  BY DEF Refuse
<1>. QED BY <1>12, <1>13, Zenon DEF q

\* The corruptions a run tries at every offset are among them.
THEOREM WalkCorruptionIsRefused == ~Echoes => (Spec => []CorruptionIsRefused)
<1>. SUFFICES ASSUME ~Echoes PROVE Spec => []CorruptionIsRefused
  OBVIOUS
<1>1. ASSUME IInv, phase = "answered", kind = "u2", Frame.checksum
      PROVE  /\ packet \in Packet /\ ParsePro2ReadReply(packet, TRUE).ok
             /\ Word(packet, 6) \in Nat /\ Word(packet, 6) <= 45
  <2>1. kind \in {"u2", "custom"} /\ offset \in Nat /\ offset < Total /\ packet \in Packet
    BY <1>1, Zenon DEF IInv, TypeInv, AskedInv
  <2>2. PICK length \in AnswerLengths : AnswersWith(packet, length)
    BY <1>1, Zenon DEF IInv, WholeInv
  <2>3. Parsed(packet) = [ok |-> TRUE, chunk |-> PadBytes(offset, length)]
    BY <2>1, <2>2, WholeAnswerIsTaken, Zenon
  <2>4. Frame.checksum = TRUE
    BY <1>1, FrameIsAFrame DEF Frames
  <2>5. ParsePro2ReadReply(packet, TRUE).ok
    <3>1. Parsed(packet) = ParsePro2ReadReply(packet, TRUE)
      BY <1>1, <2>4, Zenon DEF Parsed
    <3>2. \A got, bytes : got = [ok |-> TRUE, chunk |-> bytes] => got.ok
      OBVIOUS
    <3>. QED BY <2>3, <3>1, <3>2, Zenon
  <2>6. Word(packet, 6) <= 45
    BY <2>5, Zenon DEF ParsePro2ReadReply, Refuse, CUSTOM_INFO_CHUNK
  <2>7. Word(packet, 6) \in Nat
    <3>1. 6 \in 0 .. 62
      OBVIOUS
    <3>. QED BY <2>1, <3>1, WordsAreNumbers, Zenon
  <2>. QED BY <2>1, <2>5, <2>6, <2>7
<1>. DEFINE Taken(at, b) == ParsePro2ReadReply([packet EXCEPT ![at] = b], TRUE).ok
<1>2. ASSUME IInv, phase = "answered", kind = "u2", Frame.checksum
      PROVE  \A at \in Covered(packet) : \A b \in Byte : b # packet[at] => ~Taken(at, b)
  BY <1>1, <1>2, OneByteIsRefused, Zenon
<1>3. ASSUME IInv PROVE CorruptionIsRefused
  <2>. SUFFICES ASSUME phase = "answered", kind = "u2", Frame.checksum,
                       NEW at \in {8, 9} \cup {17 + n : n \in {1, Word(packet, 6)} \cap 1 .. Word(packet, 6)},
                       NEW flip \in {1, 128}
                PROVE  ~ParsePro2ReadReply([packet EXCEPT ![at] = (@ + flip) % 256], TRUE).ok
    BY Zenon DEF CorruptionIsRefused
  <2>. DEFINE b == (packet[at] + flip) % 256
  <2>1. at \in Covered(packet) /\ at \in 0 .. 63
    BY <1>1, <1>3 DEF Covered
  <2>2. b \in Byte /\ b # packet[at]
    <3>1. packet[at] \in 0 .. 255
      BY <1>1, <1>3, <2>1 DEF Packet, Size, Byte
    <3>. QED BY <3>1, Z3 DEF Byte
  <2>. HIDE DEF b, Taken
  <2>3. ~Taken(at, b)
    BY <1>2, <1>3, <2>1, <2>2
  <2>. QED BY <2>3, Zenon DEF b, Taken
<1>. QED BY <1>3, SpecIInv, PTL
=============================================================================
