-------------------------- MODULE ReadSessionProofs --------------------------
(***************************************************************************)
(* What the runs of ReadSession check on small instances, proved for every *)
(* section, chunk and ring size, and every set of faults the statement     *)
(* names.                                                                  *)
(***************************************************************************)
EXTENDS ReadSession, TLAPS

\* The numbers of line 146.
LEMMA CapIsNat == MaxTries \in Nat
<1>. USE SizesAssumption
<1>1. (Total + Chunk - 1) \div Chunk \in Nat
  OBVIOUS
<1>. QED BY <1>1 DEF MaxTries

\* The queue of reports stays a queue when its head is read.
LEMMA TailOfReports ==
    ASSUME TypeOK, inq # <<>>
    PROVE  Head(inq) \in Reports /\ Tail(inq) \in Seq(Reports)
BY DEF TypeOK

LEMMA DeliverIsTyped ==
    ASSUME TypeOK, NEW r \in Reports, Deliver(r)
    PROVE  inq' \in Seq(Reports)
BY DEF TypeOK, Deliver

\* The answers a pad may give to a request are reports.
LEMMA AnswersAreReports ==
    ASSUME NEW req \in Requests
    PROVE  Answers(req) \subseteq Reports
<1>. USE SizesAssumption DEF Reports, Kinds, ChunkOf, Refused
<1>1. CASE req = Identify
  BY <1>1 DEF Answers
<1>2. CASE req # Identify
  <2>1. req \in 0 .. Total - 1
    BY <1>2 DEF Requests, Cells
  <2>2. Least(Chunk, Total - req) \in 0 .. Longest
    BY <2>1 DEF Least
  <2>3. WholeChunk(req) \in Reports
    BY <2>1, <2>2 DEF WholeChunk
  <2>4. \A n \in 0 .. Longest : ChunkOf(req, n) \in Reports
    BY <2>1
  <2>. QED BY <1>2, <2>3, <2>4 DEF Answers
<1>. QED BY <1>1, <1>2

\* What TakeChunk stores is an image again.
LEMMA StoredIsTyped ==
    ASSUME TypeOK, NEW at \in Nat, NEW len \in Nat
    PROVE  Stored(at, len) \in [Cells -> Int]
<1>1. offset \in Nat /\ \A i \in Cells : image[i] \in Int
  BY DEF TypeOK
<1>2. \A i \in Cells : i \in Int
  BY SizesAssumption DEF Cells
<1>3. \A i \in Cells :
        (IF i \in offset .. offset + len - 1 THEN at + (i - offset) ELSE image[i]) \in Int
  BY <1>1, <1>2
<1>. QED BY <1>3, Zenon DEF Stored

-----------------------------------------------------------------------------
(* Type correctness. *)

\* The type invariant is inductive together with what the loop's test and its
\* break guarantee inside it: fewer stalls than the limit, and, once a send
\* is under way, an offset that still lies in the section.
InTry == {"drain", "send", "wait"}
LoopGoesOn ==
    /\ pc \in InTry \cup {"head"} => stalls < StallLimit
    /\ pc \in InTry => offset < Total
TypeInv == TypeOK /\ LoopGoesOn

LEMMA InitTyped == Init => TypeInv
<1>. SUFFICES ASSUME Init PROVE TypeInv
  OBVIOUS
<1>1. 0 \in 0 .. MaxTries /\ 0 \in 0 .. StallLimit
  BY CapIsNat, SizesAssumption
<1>2. flight \in Seq(Requests)
  <2>1. <<>> \in Seq(Requests)
    OBVIOUS
  <2>2. <<Identify>> \in Seq(Requests)
    <3>1. Identify \in Requests
      BY DEF Requests
    <3>. QED BY <3>1
  <2>. QED BY <2>1, <2>2 DEF Init
<1>3. image \in [Cells -> Int]
  BY DEF Init, Blank
<1>4. inq \in Seq(Reports)
  BY DEF Init
<1>5. 0 < StallLimit
  BY SizesAssumption
<1>6. row \in 0 .. faulted /\ faulted \in Nat
  BY DEF Init
<1>. QED BY <1>1, <1>2, <1>3, <1>4, <1>5, <1>6 DEF Init, TypeInv, LoopGoesOn, InTry, TypeOK, PC

LEMMA NextTyped == TypeInv /\ [Next]_vars => TypeInv'
<1>. SUFFICES ASSUME TypeInv, [Next]_vars PROVE TypeInv'
  OBVIOUS
<1>. USE SizesAssumption, CapIsNat DEF TypeInv, LoopGoesOn, InTry, history, AnswerFails
<1>1. CASE PadAnswers
  <2>1. PICK r \in Answers(Head(flight)) : Deliver(r)
    BY <1>1 DEF PadAnswers
  <2>2. Head(flight) \in Requests /\ Tail(flight) \in Seq(Requests)
    BY <1>1 DEF PadAnswers, TypeOK
  <2>3. inq' \in Seq(Reports)
    BY <2>1, <2>2, AnswersAreReports, DeliverIsTyped
  <2>4. faulted' \in Nat /\ row' \in 0 .. faulted'
    BY <1>1 DEF PadAnswers, TypeOK
  <2>. QED BY <1>1, <2>2, <2>3, <2>4 DEF PadAnswers, TypeOK, toolVars
<1>2. CASE LinkLoses
  BY <1>2 DEF LinkLoses, TypeOK, toolVars
<1>3. CASE PadStreams
  <2>1. Input \in Reports
    BY SizesAssumption DEF Input, Reports, Kinds
  <2>2. inq' \in Seq(Reports)
    BY <1>3, <2>1, DeliverIsTyped DEF PadStreams
  <2>. QED BY <1>3, <2>2 DEF PadStreams, TypeOK, toolVars, linkVars
<1>4. CASE Unplug
  <2>1. flight' \in Seq(Requests)
    BY <1>4 DEF Unplug
  <2>. QED BY <1>4, <2>1 DEF Unplug, TypeOK, toolVars
<1>5. CASE DeadlinePasses
  BY <1>5 DEF DeadlinePasses, TypeOK, toolVars
<1>6. CASE BeginTry
  BY <1>6 DEF BeginTry, MoreWanted, TypeOK, linkVars, PC
<1>7. CASE DrainOne
  BY <1>7, TailOfReports DEF DrainOne, TypeOK, toolVars, linkVars
<1>8. CASE DrainEnds
  BY <1>8 DEF DrainEnds, TypeOK, linkVars, PC
<1>9. CASE Send
  <2>1. offset \in Requests
    BY <1>9 DEF Send, TypeOK, Requests, Cells
  <2>2. flight' \in Seq(Requests)
    BY <1>9, <2>1 DEF Send, TypeOK
  <2>. QED BY <1>9, <2>2 DEF Send, TypeOK, PC
<1>10. CASE SkipInput
  BY <1>10, TailOfReports DEF SkipInput, TypeOK, toolVars, linkVars
<1>11. CASE TakeNoBytes
  BY <1>11, TailOfReports DEF TakeNoBytes, NoProgress, TypeOK, linkVars, PC
<1>12. CASE TakeChunk
  <2>1. Head(inq) \in Reports /\ Tail(inq) \in Seq(Reports)
    BY <1>12, TailOfReports DEF TakeChunk
  <2>2. Head(inq).at \in Nat /\ Head(inq).len \in Nat
    BY <2>1 DEF Reports
  <2>3. Stored(Head(inq).at, Head(inq).len) \in [Cells -> Int]
    BY <2>2, StoredIsTyped
  <2>. QED BY <1>12, <2>1, <2>2, <2>3 DEF TakeChunk, TypeOK, linkVars, PC
<1>13. CASE Timeout
  BY <1>13 DEF Timeout, NoProgress, TypeOK, linkVars, PC
<1>14. CASE Raise
  BY <1>14 DEF Raise, TypeOK, linkVars, PC
<1>15. CASE Save
  BY <1>15 DEF Save, TypeOK, linkVars, PC
<1>16. CASE UNCHANGED vars
  BY <1>16 DEF vars, toolVars, linkVars, TypeOK
<1>. QED
  BY <1>1, <1>2, <1>3, <1>4, <1>5, <1>6, <1>7, <1>8, <1>9, <1>10, <1>11,
     <1>12, <1>13, <1>14, <1>15, <1>16 DEF Next, Tool, World, Link, Rest

\* Every variable of the tool, the ring and the link keeps its range.
THEOREM TypeCorrect == Spec => []TypeOK
<1>1. TypeInv => TypeOK
  BY DEF TypeInv
<1>. QED BY InitTyped, NextTyped, <1>1, PTL DEF Spec

-----------------------------------------------------------------------------
(* What holds under every fault, late answers included. *)

\* Only an accepted chunk touches the image and the offset.
LEMMA OnlyTakeChunkStores ==
    ASSUME [Next]_vars, ~TakeChunk
    PROVE  UNCHANGED <<image, offset>>
BY DEF Next, Tool, World, Link, Rest, PadAnswers, LinkLoses, PadStreams, Unplug,
   DeadlinePasses, BeginTry, DrainOne, DrainEnds, Send, SkipInput, TakeNoBytes,
   NoProgress, Timeout, Raise, Save, vars, toolVars

\* The cells below the offset are exactly the stored ones.
LEMMA InitHoleless == Init => NoHoles
BY SizesAssumption DEF Init, NoHoles, Cells, Blank

LEMMA NextHoleless == TypeInv /\ NoHoles /\ [Next]_vars => NoHoles'
<1>. SUFFICES ASSUME TypeInv, NoHoles, [Next]_vars PROVE NoHoles'
  OBVIOUS
<1>1. CASE TakeChunk
  <2>1. Head(inq).at \in Nat /\ Head(inq).len \in Nat
    BY <1>1, TailOfReports DEF TakeChunk, TypeInv, Reports
  <2>2. offset \in Nat /\ offset' = offset + Head(inq).len
    BY <1>1 DEF TakeChunk, TypeInv, TypeOK
  <2>3. ASSUME NEW i \in Cells
        PROVE  image'[i] = IF i \in offset .. offset + Head(inq).len - 1
                           THEN Head(inq).at + (i - offset) ELSE image[i]
    BY <1>1, Zenon DEF TakeChunk, Stored
  <2>4. ASSUME NEW i \in Cells
        PROVE  image'[i] # Blank <=> i < offset'
    <3>1. i \in Nat
      BY SizesAssumption DEF Cells
    <3>2. image[i] # Blank <=> i < offset
      BY DEF NoHoles
    <3>. QED BY <2>1, <2>2, <2>3, <3>1, <3>2 DEF Blank
  <2>. QED BY <2>4 DEF NoHoles
<1>2. CASE ~TakeChunk
  <2>1. UNCHANGED <<image, offset>>
    BY <1>2, OnlyTakeChunkStores
  <2>. QED BY <2>1 DEF NoHoles
<1>. QED BY <1>1, <1>2

\* Whatever the replies, the bytes stored are the first ones, without a hole.
THEOREM Holeless == Spec => []NoHoles
<1>1. Init => TypeInv /\ NoHoles
  BY InitTyped, InitHoleless
<1>2. TypeInv /\ NoHoles /\ [Next]_vars => (TypeInv /\ NoHoles)'
  BY NextTyped, NextHoleless
<1>. QED BY <1>1, <1>2, PTL DEF Spec

\* No reply, however late, overwrites a byte that was stored before.
THEOREM StoredOnce == Spec => NeverOverwrites
<1>1. Init => TypeInv /\ NoHoles
  BY InitTyped, InitHoleless
<1>2. TypeInv /\ NoHoles /\ [Next]_vars => (TypeInv /\ NoHoles)'
  BY NextTyped, NextHoleless
<1>3. ASSUME TypeInv, NoHoles, [Next]_vars
      PROVE  [\A i \in Cells : image[i] # Blank => image'[i] = image[i]]_vars
  <2>1. CASE TakeChunk
    <3>1. offset \in Nat /\ \A i \in Cells : i \in Int
      BY <1>3, SizesAssumption DEF TypeInv, TypeOK, Cells
    <3>2. ASSUME NEW i \in Cells, image[i] # Blank
          PROVE  image'[i] = image[i]
      <4>1. i < offset
        BY <1>3, <3>2 DEF NoHoles
      <4>2. i \notin offset .. offset + Head(inq).len - 1
        BY <3>1, <4>1
      <4>. QED BY <2>1, <4>2, Zenon DEF TakeChunk, Stored
    <3>. QED BY <3>2
  <2>2. CASE ~TakeChunk
    <3>1. UNCHANGED image
      BY <1>3, <2>2, OnlyTakeChunkStores
    <3>. QED BY <3>1
  <2>. QED BY <2>1, <2>2
<1>. QED BY <1>1, <1>2, <1>3, PTL DEF Spec, NeverOverwrites

\* The verdict matches the offset, and there is none before the end.
VerdictFits ==
    /\ saved # "nothing" => pc = "done"
    /\ saved = "complete" => offset >= Total
    /\ saved = "partial" => offset \in 1 .. Total - 1
    /\ pc = "done" /\ saved = "nothing" => offset = 0

LEMMA NextVerdict ==
    ASSUME TypeInv, VerdictFits, [Next]_vars
    PROVE  VerdictFits'
<1>1. TypeOK /\ VerdictFits
  BY DEF TypeInv
<1>2. CASE Save
  BY <1>1, <1>2, SizesAssumption DEF Save, VerdictFits, TypeOK
<1>3. CASE TakeChunk
  BY <1>1, <1>3 DEF TakeChunk, VerdictFits
<1>4. CASE ~Save /\ ~TakeChunk
  <2>1. UNCHANGED <<offset, saved>>
    BY <1>4, OnlyTakeChunkStores DEF Next, Tool, World, Link, Rest, PadAnswers, LinkLoses,
       PadStreams, Unplug, DeadlinePasses, BeginTry, DrainOne, DrainEnds, Send, SkipInput,
       TakeNoBytes, NoProgress, Timeout, Raise, vars, toolVars
  <2>2. pc' = "done" <=> pc = "done"
    BY <1>1, <1>4 DEF Next, Tool, World, Link, Rest, PadAnswers, LinkLoses,
       PadStreams, Unplug, DeadlinePasses, BeginTry, DrainOne, DrainEnds, Send, SkipInput,
       TakeNoBytes, NoProgress, Timeout, Raise, vars, toolVars
  <2>. QED BY <1>1, <2>1, <2>2 DEF VerdictFits
<1>. QED BY <1>2, <1>3, <1>4

\* A file called complete has no missing byte, one called partial has some
\* and is missing some, under every fault.
THEOREM NamesFit == Spec => []NamedForWhatItHolds
<1> DEFINE Inv == TypeInv /\ NoHoles /\ VerdictFits
<1>1. Init => Inv
  BY InitTyped, InitHoleless DEF Init, VerdictFits
<1>2. Inv /\ [Next]_vars => Inv'
  BY NextTyped, NextHoleless, NextVerdict
<1>3. Inv => NamedForWhatItHolds
  <2>. SUFFICES ASSUME Inv PROVE NamedForWhatItHolds
    OBVIOUS
  <2>1. offset \in Nat /\ 0 \in Cells /\ Total - 1 \in Cells
    BY SizesAssumption DEF TypeInv, TypeOK, Cells
  <2>2. \A i \in Cells : i < Total
    BY SizesAssumption DEF Cells
  <2>3. saved = "complete" => \A i \in Cells : image[i] # Blank
    BY <2>1, <2>2, SizesAssumption DEF VerdictFits, NoHoles, Cells
  <2>4. ASSUME saved = "partial"
        PROVE  image[0] # Blank /\ image[Total - 1] = Blank
    BY <2>1, <2>4, SizesAssumption DEF VerdictFits, NoHoles
  <2>. QED BY <2>1, <2>3, <2>4 DEF NamedForWhatItHolds
<1>. QED BY <1>1, <1>2, <1>3, PTL DEF Spec

-----------------------------------------------------------------------------
(* What a timely link adds: an exchange never outlives its answer.  Outside *)
(* an exchange nothing is owed and the ring holds input reports only;       *)
(* inside one, either the request is still out or its answer is the one     *)
(* reply in the ring, and a chunk in it was read from the tool's offset.    *)
OnlyInputs(q) == \A k \in DOMAIN q : q[k].kind = "input"
OneReply(q) == \A j, k \in DOMAIN q :
                  q[j].kind # "input" /\ q[k].kind # "input" => j = k
FromOffset(q) == \A k \in DOMAIN q : q[k].kind = "chunk" => q[k].at = offset

Asked == flight = <<offset>> /\ ~expired /\ OnlyInputs(inq)
Answered == flight = <<>> /\ OneReply(inq) /\ FromOffset(inq)
Quiet == flight = <<>> /\ OnlyInputs(inq)

AnswersStayInside ==
    /\ pc = "wait" => Asked \/ Answered
    /\ pc # "wait" => Quiet
    /\ ~plugged => flight = <<>>

PrefixIsThePads == \A i \in Cells : i < offset => image[i] = i

TimelyInv == TypeInv /\ AnswersStayInside /\ VerdictFits /\ PrefixIsThePads

LEMMA InitTimely == ASSUME Timely PROVE Init => TimelyInv
<1>. SUFFICES ASSUME Init PROVE TimelyInv
  OBVIOUS
<1>1. TypeInv
  BY InitTyped
<1>2. AnswersStayInside
  BY DEF Init, AnswersStayInside, Quiet, OnlyInputs
<1>3. VerdictFits /\ PrefixIsThePads
  BY SizesAssumption DEF Init, VerdictFits, PrefixIsThePads, Cells
<1>. QED BY <1>1, <1>2, <1>3 DEF TimelyInv

\* The queue facts a report's arrival and a read preserve.
LEMMA OnlyInputsTail ==
    ASSUME TypeOK, inq # <<>>, OneReply(inq), Head(inq).kind # "input"
    PROVE  OnlyInputs(Tail(inq))
<1>1. inq \in Seq(Reports) /\ Len(inq) \in Nat /\ DOMAIN inq = 1 .. Len(inq)
  BY DEF TypeOK
<1>2. ASSUME NEW k \in DOMAIN Tail(inq)
      PROVE  Tail(inq)[k].kind = "input"
  <2>1. k \in 1 .. Len(inq) - 1 /\ Tail(inq)[k] = inq[k + 1]
    BY <1>1
  <2>2. Head(inq) = inq[1] /\ 1 \in DOMAIN inq /\ k + 1 \in DOMAIN inq /\ k + 1 # 1
    BY <1>1, <2>1
  <2>. QED BY <2>1, <2>2 DEF OneReply
<1>. QED BY <1>2 DEF OnlyInputs

LEMMA TailKeeps ==
    ASSUME TypeOK, inq # <<>>
    PROVE  /\ OnlyInputs(inq) => OnlyInputs(Tail(inq))
           /\ OneReply(inq) => OneReply(Tail(inq))
           /\ FromOffset(inq) => FromOffset(Tail(inq))
<1>1. inq \in Seq(Reports) /\ Len(inq) \in Nat /\ DOMAIN inq = 1 .. Len(inq)
  BY DEF TypeOK
<1>2. ASSUME NEW k \in DOMAIN Tail(inq)
      PROVE  k + 1 \in DOMAIN inq /\ Tail(inq)[k] = inq[k + 1] /\ k \in Nat
  BY <1>1
<1>3. OnlyInputs(inq) => OnlyInputs(Tail(inq))
  BY <1>2 DEF OnlyInputs
<1>4. ASSUME OneReply(inq), NEW j \in DOMAIN Tail(inq), NEW k \in DOMAIN Tail(inq),
             Tail(inq)[j].kind # "input", Tail(inq)[k].kind # "input"
      PROVE  j = k
  <2>1. j + 1 = k + 1
    BY <1>2, <1>4 DEF OneReply
  <2>. QED BY <2>1, <1>2
<1>5. FromOffset(inq) => FromOffset(Tail(inq))
  BY <1>2 DEF FromOffset
<1>. QED BY <1>3, <1>4, <1>5 DEF OneReply

LEMMA AppendKeeps ==
    ASSUME TypeOK, NEW r \in Reports, Deliver(r)
    PROVE  /\ r.kind = "input" =>
                 /\ OnlyInputs(inq) => OnlyInputs(inq')
                 /\ OneReply(inq) => OneReply(inq')
                 /\ FromOffset(inq) => FromOffset(inq')
           /\ OnlyInputs(inq) =>
                 /\ OneReply(inq')
                 /\ (r.kind = "chunk" => r.at = offset) => FromOffset(inq')
<1>1. inq \in Seq(Reports) /\ Len(inq) \in Nat /\ DOMAIN inq = 1 .. Len(inq)
  BY DEF TypeOK
<1>2. CASE inq' = inq
  BY <1>2 DEF OnlyInputs, OneReply, FromOffset
<1>3. CASE inq' = Append(inq, r)
  <2>1. DOMAIN inq' = 1 .. Len(inq) + 1 /\ inq'[Len(inq) + 1] = r
        /\ \A k \in DOMAIN inq : inq'[k] = inq[k]
    BY <1>1, <1>3
  <2>2. DOMAIN inq' = DOMAIN inq \cup {Len(inq) + 1}
    BY <1>1, <2>1
  <2>. QED BY <2>1, <2>2 DEF OnlyInputs, OneReply, FromOffset
<1>. QED BY <1>2, <1>3 DEF Deliver

LEMMA NextAnswers ==
    ASSUME Timely, TimelyInv, [Next]_vars
    PROVE  AnswersStayInside'
<1>. USE DEF AnswersStayInside, Asked, Answered, Quiet
<1>1. TypeOK /\ AnswersStayInside
  BY DEF TimelyInv, TypeInv
<1>2. CASE PadAnswers
  <2>1. pc = "wait" /\ flight = <<offset>> /\ ~expired /\ OnlyInputs(inq)
    BY <1>1, <1>2 DEF PadAnswers
  <2>2. offset \in Requests /\ offset # Identify
    BY <1>1, <2>1 DEF TypeOK, TimelyInv, TypeInv, LoopGoesOn, InTry, Requests, Cells, Identify
  <2>3. PICK r \in Answers(offset) : Deliver(r)
    BY <1>2, <2>1 DEF PadAnswers
  <2>4. r \in Reports
    BY <2>2, <2>3, AnswersAreReports
  <2>5. r.kind = "chunk" => r.at = offset
    BY <2>2, <2>3 DEF Answers, WholeChunk, ChunkOf, Refused
  <2>6. OneReply(inq') /\ FromOffset(inq')
    BY <1>1, <2>1, <2>3, <2>4, <2>5, AppendKeeps
  <2>7. pc' = "wait" /\ offset' = offset /\ flight' = <<>>
    BY <1>2, <2>1 DEF PadAnswers, toolVars
  <2>. QED BY <1>1, <2>6, <2>7 DEF FromOffset, OneReply
<1>3. CASE LinkLoses
  <2>1. flight # <<>> /\ flight' = Tail(flight)
        /\ UNCHANGED <<pc, offset, inq, expired, plugged>>
    BY <1>3 DEF LinkLoses, toolVars
  <2>2. pc = "wait" /\ flight = <<offset>> /\ OnlyInputs(inq)
    BY <1>1, <2>1 DEF AnswersStayInside, Asked, Answered, Quiet
  <2>3. flight' = <<>> /\ OneReply(inq') /\ FromOffset(inq')
    BY <2>1, <2>2 DEF OnlyInputs, OneReply, FromOffset
  <2>. QED BY <2>1, <2>2, <2>3 DEF AnswersStayInside, Answered, OneReply, FromOffset
<1>4. CASE PadStreams
  <2>1. Input \in Reports /\ Input.kind = "input" /\ Deliver(Input)
    BY <1>4, SizesAssumption DEF Input, Reports, Kinds, PadStreams
  <2>2. /\ OnlyInputs(inq) => OnlyInputs(inq')
        /\ OneReply(inq) => OneReply(inq')
        /\ FromOffset(inq) => FromOffset(inq')
    BY <1>1, <2>1, AppendKeeps
  <2>3. UNCHANGED <<pc, offset, flight, expired, plugged>>
    BY <1>4 DEF PadStreams, toolVars, linkVars
  <2>. QED BY <1>1, <2>2, <2>3 DEF OnlyInputs, OneReply, FromOffset
<1>5. CASE Unplug
  BY <1>1, <1>5 DEF Unplug, toolVars, OnlyInputs, OneReply, FromOffset
<1>6. CASE DeadlinePasses
  BY <1>1, <1>6 DEF DeadlinePasses, toolVars, OnlyInputs, OneReply, FromOffset
<1>7. CASE DrainOne \/ SkipInput
  <2>1. UNCHANGED <<pc, offset, flight, expired, plugged>> /\ inq # <<>> /\ inq' = Tail(inq)
    BY <1>7 DEF DrainOne, SkipInput, toolVars, linkVars
  <2>2. /\ OnlyInputs(inq) => OnlyInputs(inq')
        /\ OneReply(inq) => OneReply(inq')
        /\ FromOffset(inq) => FromOffset(inq')
    BY <1>1, <2>1, TailKeeps
  <2>. QED BY <1>1, <2>1, <2>2 DEF OnlyInputs, OneReply, FromOffset
<1>8. CASE Send
  <2>1. flight' = <<offset>> /\ UNCHANGED <<inq, offset>> /\ pc' = "wait" /\ ~expired' /\ plugged'
    BY <1>1, <1>8 DEF Send
  <2>. QED BY <1>1, <1>8, <2>1 DEF Send, OnlyInputs
<1>9. CASE TakeNoBytes \/ TakeChunk
  <2>1. pc = "wait" /\ inq # <<>> /\ Head(inq).kind # "input" /\ inq' = Tail(inq)
        /\ pc' # "wait" /\ UNCHANGED <<flight, plugged>>
    BY <1>9 DEF TakeNoBytes, NoProgress, TakeChunk, linkVars
  <2>2. ~OnlyInputs(inq)
    <3>1. 1 \in DOMAIN inq /\ Head(inq) = inq[1]
      BY <1>1, <2>1 DEF TypeOK
    <3>. QED BY <2>1, <3>1 DEF OnlyInputs
  <2>3. Answered
    BY <1>1, <2>1, <2>2
  <2>4. OnlyInputs(inq')
    BY <1>1, <2>1, <2>3, OnlyInputsTail
  <2>. QED BY <2>1, <2>3, <2>4 DEF OnlyInputs
<1>10. CASE Timeout
  <2>1. inq = <<>> /\ flight = <<>> /\ pc' # "wait" /\ UNCHANGED <<inq, flight, plugged>>
    BY <1>1, <1>10 DEF Timeout, NoProgress, linkVars
  <2>. QED BY <2>1 DEF OnlyInputs
<1>11. CASE Raise
  <2>1. UNCHANGED <<inq, flight, offset, plugged>> /\ pc' = "raised"
    BY <1>11 DEF Raise, linkVars
  <2>2. CASE pc = "wait"
    <3>1. inq = <<>> /\ flight = <<>>
      BY <1>1, <1>11, <2>2 DEF Raise
    <3>. QED BY <2>1, <3>1 DEF OnlyInputs
  <2>3. CASE pc # "wait"
    BY <1>1, <2>1, <2>3 DEF OnlyInputs
  <2>. QED BY <2>2, <2>3
<1>12. CASE BeginTry \/ DrainEnds \/ Save
  <2>1. pc # "wait" /\ pc' # "wait" /\ UNCHANGED <<inq, flight, plugged>>
    BY <1>12 DEF BeginTry, DrainEnds, Save, linkVars
  <2>. QED BY <1>1, <2>1 DEF OnlyInputs
<1>13. CASE UNCHANGED vars
  BY <1>1, <1>13 DEF vars, toolVars, linkVars, history, OnlyInputs, OneReply, FromOffset
<1>. QED
  BY <1>2, <1>3, <1>4, <1>5, <1>6, <1>7, <1>8, <1>9, <1>10, <1>11, <1>12, <1>13
     DEF Next, Tool, World, Link, Rest

LEMMA NextPrefix ==
    ASSUME TimelyInv, [Next]_vars
    PROVE  PrefixIsThePads'
<1>1. TypeOK /\ AnswersStayInside /\ PrefixIsThePads
  BY DEF TimelyInv, TypeInv
<1>2. CASE TakeChunk
  <2>1. Head(inq) \in Reports /\ Head(inq).kind = "chunk" /\ Head(inq).at = offset
    <3>1. 1 \in DOMAIN inq /\ Head(inq) = inq[1]
      BY <1>1, <1>2 DEF TakeChunk, TypeOK
    <3>2. Answered
      BY <1>1, <1>2, <3>1 DEF AnswersStayInside, Asked, OnlyInputs, TakeChunk
    <3>. QED BY <1>1, <1>2, <3>1, <3>2, TailOfReports DEF TakeChunk, Answered, FromOffset
  <2>2. offset \in Nat /\ Head(inq).len \in Nat /\ offset' = offset + Head(inq).len
    BY <1>1, <1>2, <2>1 DEF TakeChunk, TypeOK, Reports
  <2>3. ASSUME NEW i \in Cells
        PROVE  image'[i] = IF i \in offset .. offset + Head(inq).len - 1
                           THEN offset + (i - offset) ELSE image[i]
    BY <1>2, <2>1, Zenon DEF TakeChunk, Stored
  <2>4. ASSUME NEW i \in Cells, i < offset'
        PROVE  image'[i] = i
    <3>1. i \in Nat
      BY SizesAssumption DEF Cells
    <3>2. i < offset => image[i] = i
      BY <1>1 DEF PrefixIsThePads
    <3>. QED BY <2>2, <2>3, <2>4, <3>1, <3>2
  <2>. QED BY <2>4 DEF PrefixIsThePads
<1>3. CASE ~TakeChunk
  BY <1>1, <1>3, OnlyTakeChunkStores DEF PrefixIsThePads
<1>. QED BY <1>2, <1>3

LEMMA TimelyInductive ==
    ASSUME Timely
    PROVE  TimelyInv /\ [Next]_vars => TimelyInv'
<1>. SUFFICES ASSUME TimelyInv, [Next]_vars PROVE TimelyInv'
  OBVIOUS
<1>1. TypeInv'
  BY NextTyped DEF TimelyInv
<1>2. VerdictFits'
  BY NextVerdict DEF TimelyInv
<1>. QED BY <1>1, <1>2, NextAnswers, NextPrefix DEF TimelyInv

\* On a timely link every file the read leaves, complete or partial, holds
\* the pad's bytes at their own offsets.
THEOREM SavedBytesAreThePads == Timely => (Spec => []SavedIsThePads)
<1>. SUFFICES ASSUME Timely PROVE Spec => []SavedIsThePads
  OBVIOUS
<1>1. Init => TimelyInv
  BY InitTimely
<1>2. TimelyInv /\ [Next]_vars => TimelyInv'
  BY TimelyInductive
<1>3. TimelyInv => SavedIsThePads
  BY DEF TimelyInv, PrefixIsThePads, SavedIsThePads
<1>. QED BY <1>1, <1>2, <1>3, PTL DEF Spec

\* On a timely link the tool never has two requests out, and sends none while
\* an answer is in the ring.
THEOREM RequestsAreSequential == Timely => (Spec => []OneRequestOut)
<1>. SUFFICES ASSUME Timely PROVE Spec => []OneRequestOut
  OBVIOUS
<1>1. Init => TimelyInv
  BY InitTimely
<1>2. TimelyInv /\ [Next]_vars => TimelyInv'
  BY TimelyInductive
<1>3. ASSUME TimelyInv PROVE OneRequestOut
  <2>1. flight = <<>> \/ flight = <<offset>>
    BY <1>3 DEF TimelyInv, AnswersStayInside, Asked, Answered, Quiet
  <2>2. Len(<<>>) = 0 /\ Len(<<offset>>) = 1
    OBVIOUS
  <2>. QED BY <1>3, <2>1, <2>2 DEF TimelyInv, AnswersStayInside, Quiet, OnlyInputs, OneRequestOut
<1>. QED BY <1>1, <1>2, <1>3, PTL DEF Spec

-----------------------------------------------------------------------------
(* The account of sends on a timely link.  Every send but the faulted ones  *)
(* brought a whole chunk, so k of them paid for at least k chunks.  Inside  *)
(* a try the last send is not paid for yet: its answer is still to come, or *)
(* it is known to have failed and then it is among the faulted ones.        *)
ChunksOfTotal == (Total + Chunk - 1) \div Chunk
Paid(k) == k * Chunk <= offset

\* The exchange can no more bring the whole chunk it asked for.
Failed ==
    /\ pc = "wait" /\ flight = <<>>
    /\ plugged \/ ~OnlyInputs(inq)
    /\ \A k \in DOMAIN inq : inq[k] # WholeChunk(offset)

AccountInv ==
    /\ pc \in {"head", "save", "done"} =>
          IF offset < Total THEN Paid(tries - faulted) ELSE tries - faulted <= ChunksOfTotal
    /\ pc \in InTry => Paid(tries - faulted - 1)
    /\ stalls <= row
    /\ Failed => Paid(tries - faulted) /\ stalls < row
    /\ pc = "save" => stalls >= StallLimit
    /\ pc = "done" => offset >= Total \/ row >= StallLimit
                        \/ (tries = MaxTries /\ faulted > Spare)

\* The chunks of a section cover it.
LEMMA ChunksCover == ChunksOfTotal \in Nat /\ ChunksOfTotal * Chunk >= Total
<1>. USE SizesAssumption
<1>1. Total + Chunk - 1 \in Nat
  OBVIOUS
<1>2. ChunksOfTotal \in Nat
  BY <1>1 DEF ChunksOfTotal
<1>3. ASSUME NEW a \in Nat
      PROVE  (a \div Chunk) * Chunk > a - Chunk
  OBVIOUS
<1>. QED BY <1>1, <1>2, <1>3 DEF ChunksOfTotal

LEMMA FewerChunks ==
    ASSUME NEW k \in Int, k * Chunk < Total
    PROVE  k < ChunksOfTotal
<1>. SUFFICES ASSUME k >= ChunksOfTotal PROVE FALSE
  BY ChunksCover
<1>1. ASSUME NEW c \in Nat, NEW m \in Nat, k >= m
      PROVE  k * c >= m * c
  BY <1>1
<1>2. k * Chunk >= ChunksOfTotal * Chunk
  BY <1>1, ChunksCover, SizesAssumption
<1>. QED BY <1>2, ChunksCover, SizesAssumption

\* One send less or one chunk more keeps an account paid.
LEMMA PaidSteps ==
    ASSUME NEW k \in Int
    PROVE  /\ k * Chunk \in Int
           /\ (k - 1) * Chunk = k * Chunk - Chunk
BY SizesAssumption

LEMMA InitAccount == Init => AccountInv
<1>. SUFFICES ASSUME Init PROVE AccountInv
  OBVIOUS
<1>1. (0 - 0) * Chunk = 0 /\ Total > 0
  BY SizesAssumption
<1>. QED BY <1>1 DEF Init, AccountInv, Paid, Failed, InTry

\* The accounts' numbers.
LEMMA AccountTypes ==
    ASSUME TypeOK
    PROVE  /\ tries \in Int /\ faulted \in Nat /\ row \in Nat /\ offset \in Nat /\ stalls \in Nat
           /\ tries - faulted \in Int /\ tries - faulted - 1 \in Int
BY CapIsNat, SizesAssumption DEF TypeOK

\* What is taken off a ring with one reply leaves no other.
LEMMA HeadIsTheReply ==
    ASSUME TypeOK, inq # <<>>, Head(inq).kind # "input"
    PROVE  /\ ~OnlyInputs(inq)
           /\ OneReply(inq) /\ Head(inq) # WholeChunk(offset)
                => \A k \in DOMAIN inq : inq[k] # WholeChunk(offset)
<1>1. 1 \in DOMAIN inq /\ Head(inq) = inq[1]
  BY DEF TypeOK
<1>2. WholeChunk(offset).kind = "chunk"
  BY DEF WholeChunk, ChunkOf
<1>. QED BY <1>1, <1>2 DEF OnlyInputs, OneReply

\* What a step that only moves the ring or the pad leaves of the account.
LEMMA AccountRests ==
    ASSUME AccountInv, UNCHANGED <<pc, offset, stalls, tries, faulted, row>>, Failed' => Failed
    PROVE  AccountInv'
BY DEF AccountInv, Paid, InTry

\* A send that failed is counted at once.
LEMMA AccountOfAFault ==
    ASSUME TypeOK, AccountInv, pc = "wait", AnswerFails,
           UNCHANGED <<pc, offset, stalls, tries>>
    PROVE  AccountInv'
<1>1. tries' - faulted' = tries - faulted - 1
  BY AccountTypes DEF AnswerFails
<1>2. (tries - faulted - 1 - 1) * Chunk <= (tries - faulted - 1) * Chunk
  BY AccountTypes, PaidSteps, SizesAssumption
<1>3. (tries - faulted - 1) * Chunk <= offset
  BY DEF AccountInv, InTry, Paid
<1>4. (tries' - faulted' - 1) * Chunk <= offset'
  BY <1>1, <1>2, <1>3, AccountTypes, PaidSteps
<1>5. (tries' - faulted') * Chunk <= offset'
  BY <1>1, <1>3
<1>6. stalls' < row'
  BY AccountTypes DEF AccountInv, AnswerFails
<1>7. pc' = "wait" /\ Paid(tries - faulted)' /\ Paid(tries - faulted - 1)'
  BY <1>4, <1>5 DEF Paid
<1>8. stalls' <= row'
  BY <1>6, AccountTypes DEF AnswerFails
<1>. QED BY <1>6, <1>7, <1>8 DEF AccountInv, InTry

LEMMA NextAccount ==
    ASSUME Timely, TimelyInv, AccountInv, [Next]_vars
    PROVE  AccountInv'
<1>1. TypeOK /\ LoopGoesOn /\ AnswersStayInside /\ AccountInv
  BY DEF TimelyInv, TypeInv
<1>2. inq \in Seq(Reports) /\ DOMAIN inq = 1 .. Len(inq)
  BY <1>1 DEF TypeOK
<1>3. CASE PadAnswers
  <2>1. pc = "wait" /\ flight = <<offset>> /\ OnlyInputs(inq)
    BY <1>1, <1>3 DEF PadAnswers, AnswersStayInside, Asked, Answered, Quiet
  <2>2. Head(flight) = offset /\ UNCHANGED <<pc, offset, stalls, tries, plugged>>
    BY <1>3, <2>1 DEF PadAnswers, toolVars
  <2>3. PICK r \in Answers(offset) :
            /\ Deliver(r)
            /\ IF r = WholeChunk(offset) /\ Len(inq) < QueueCap
               THEN UNCHANGED history ELSE AnswerFails
    BY <1>3, <2>2 DEF PadAnswers
  <2>4. CASE r = WholeChunk(offset) /\ Len(inq) < QueueCap
    <3>1. UNCHANGED <<faulted, row>> /\ inq' = Append(inq, WholeChunk(offset))
      BY <2>3, <2>4 DEF Deliver, history
    <3>2. Len(inq) + 1 \in DOMAIN inq' /\ inq'[Len(inq) + 1] = WholeChunk(offset)
      BY <1>2, <3>1
    <3>3. WholeChunk(offset') = WholeChunk(offset)
      BY <2>2 DEF WholeChunk
    <3>4. ~Failed'
      BY <3>2, <3>3 DEF Failed
    <3>. QED BY <1>1, <2>2, <3>1, <3>4, AccountRests
  <2>5. CASE ~(r = WholeChunk(offset) /\ Len(inq) < QueueCap)
    BY <1>1, <2>1, <2>2, <2>3, <2>5, AccountOfAFault
  <2>. QED BY <2>4, <2>5
<1>4. CASE LinkLoses
  <2>1. pc = "wait"
    BY <1>1, <1>4 DEF LinkLoses, AnswersStayInside, Quiet
  <2>. QED BY <1>1, <1>4, <2>1, AccountOfAFault DEF LinkLoses, toolVars
<1>5. CASE PadStreams
  <2>1. UNCHANGED <<pc, offset, stalls, tries, faulted, row, flight, plugged>>
        /\ inq' \in {inq, Append(inq, Input)} /\ plugged
    BY <1>5 DEF PadStreams, Deliver, toolVars, linkVars, history
  <2>2. \A k \in DOMAIN inq : k \in DOMAIN inq' /\ inq'[k] = inq[k]
    BY <1>2, <2>1
  <2>3. Failed' => Failed
    BY <2>1, <2>2 DEF Failed, WholeChunk
  <2>. QED BY <1>1, <2>1, <2>3, AccountRests
<1>6. CASE Unplug
  <2>1. UNCHANGED <<pc, offset, stalls, tries, faulted, row, inq>> /\ plugged
    BY <1>6 DEF Unplug, toolVars, history
  <2>2. OnlyInputs(inq') = OnlyInputs(inq) /\ ~plugged'
    BY <1>6, <2>1 DEF OnlyInputs, Unplug
  <2>3. Failed' => Failed
    BY <1>1, <2>1, <2>2 DEF Failed, WholeChunk, AnswersStayInside, Asked, Answered
  <2>. QED BY <1>1, <2>1, <2>3, AccountRests
<1>7. CASE DeadlinePasses
  <2>1. UNCHANGED <<pc, offset, stalls, tries, faulted, row, inq, flight, plugged>>
    BY <1>7 DEF DeadlinePasses, toolVars, history
  <2>2. Failed' => Failed
    BY <2>1 DEF Failed, WholeChunk, OnlyInputs
  <2>. QED BY <1>1, <2>1, <2>2, AccountRests
<1>8. CASE BeginTry
  <2>1. pc = "head" /\ pc' = "drain" /\ offset < Total /\ tries' = tries + 1
        /\ UNCHANGED <<offset, stalls, faulted, row>>
    BY <1>8 DEF BeginTry, MoreWanted, linkVars, history
  <2>2. Paid(tries - faulted)
    BY <1>1, <2>1 DEF AccountInv
  <2>3. tries' - faulted' - 1 = tries - faulted
    BY <1>1, <2>1, AccountTypes
  <2>. QED BY <1>1, <2>1, <2>2, <2>3 DEF AccountInv, Paid, InTry, Failed
<1>9. CASE DrainOne \/ DrainEnds
  <2>1. UNCHANGED <<offset, stalls, tries, faulted, row>> /\ pc \in InTry /\ pc' \in {"drain", "send"}
    BY <1>9 DEF DrainOne, DrainEnds, toolVars, linkVars, history, InTry
  <2>. QED BY <1>1, <2>1 DEF AccountInv, Paid, InTry, Failed
<1>10. CASE Send
  <2>1. UNCHANGED <<offset, stalls, tries, faulted, row>> /\ pc \in InTry /\ pc' = "wait"
    BY <1>10 DEF Send, InTry, history
  <2>2. flight' # <<>>
    BY <1>1, <1>10 DEF Send, TypeOK
  <2>. QED BY <1>1, <2>1, <2>2 DEF AccountInv, Paid, InTry, Failed
<1>11. CASE SkipInput
  <2>1. UNCHANGED <<pc, offset, stalls, tries, faulted, row, flight, plugged>>
        /\ inq # <<>> /\ Head(inq).kind = "input" /\ inq' = Tail(inq)
    BY <1>11 DEF SkipInput, toolVars, linkVars, history
  <2>2. OnlyInputs(inq) => OnlyInputs(inq')
    BY <1>1, <2>1, TailKeeps
  <2>3. ASSUME NEW k \in DOMAIN inq, \A j \in DOMAIN inq' : inq'[j] # WholeChunk(offset)
        PROVE  inq[k] # WholeChunk(offset)
    <3>1. CASE k = 1
      BY <1>2, <2>1, <3>1 DEF WholeChunk, ChunkOf
    <3>2. CASE k # 1
      <4>1. k - 1 \in DOMAIN inq' /\ inq'[k - 1] = inq[k]
        BY <1>2, <2>1, <3>2
      <4>. QED BY <2>3, <4>1
    <3>. QED BY <3>1, <3>2
  <2>4. WholeChunk(offset') = WholeChunk(offset)
    BY <2>1 DEF WholeChunk
  <2>5. Failed' => Failed
    BY <2>1, <2>2, <2>3, <2>4 DEF Failed
  <2>. QED BY <1>1, <2>1, <2>5, AccountRests
<1>12. CASE TakeNoBytes \/ Timeout
  <2>1. pc = "wait" /\ offset \in 0 .. Total - 1
    BY <1>1, <1>12, SizesAssumption DEF TakeNoBytes, Timeout, LoopGoesOn, InTry, TypeOK
  <2>2. UNCHANGED <<offset, tries, faulted, row>> /\ stalls' = stalls + 1
        /\ pc' = IF stalls + 1 >= StallLimit THEN "save" ELSE "head"
    BY <1>12 DEF TakeNoBytes, Timeout, NoProgress, linkVars, history
  <2>3. Failed
    <3>1. CASE TakeNoBytes
      <4>1. inq # <<>> /\ Head(inq).kind # "input"
        BY <3>1 DEF TakeNoBytes
      <4>2. Head(inq) # WholeChunk(offset)
        BY <2>1, <3>1, SizesAssumption DEF TakeNoBytes, WholeChunk, ChunkOf, Least
      <4>3. ~OnlyInputs(inq)
        BY <1>1, <4>1, HeadIsTheReply
      <4>4. Answered
        BY <1>1, <2>1, <4>3 DEF AnswersStayInside, Asked
      <4>. QED BY <1>1, <2>1, <4>1, <4>2, <4>3, <4>4, HeadIsTheReply DEF Failed, Answered
    <3>2. CASE Timeout
      <4>1. inq = <<>> /\ plugged /\ flight = <<>>
        BY <1>1, <3>2 DEF Timeout, AnswersStayInside, Asked, Answered
      <4>. QED BY <2>1, <4>1 DEF Failed
    <3>. QED BY <1>12, <3>1, <3>2
  <2>4. Paid(tries - faulted) /\ stalls < row
    BY <1>1, <2>3 DEF AccountInv
  <2>5. Paid(tries - faulted)'
    BY <2>2, <2>4 DEF Paid
  <2>6. stalls' <= row' /\ (pc' = "save" => stalls' >= StallLimit)
    BY <1>1, <2>2, <2>4, AccountTypes, SizesAssumption
  <2>. QED BY <2>1, <2>2, <2>5, <2>6, SizesAssumption DEF AccountInv, InTry, Failed
<1>13. CASE TakeChunk
  <2>1. pc = "wait" /\ pc' = "head" /\ offset \in 0 .. Total - 1
        /\ inq # <<>> /\ Head(inq).kind # "input" /\ Head(inq).len \in Nat
    BY <1>1, <1>13, TailOfReports, SizesAssumption
       DEF TakeChunk, LoopGoesOn, InTry, TypeOK, Reports
  <2>2. UNCHANGED <<tries, faulted>> /\ stalls' = 0 /\ row' = 0 /\ offset' = offset + Head(inq).len
    BY <1>13 DEF TakeChunk, linkVars, history
  <2>3. ~OnlyInputs(inq) /\ Answered
    BY <1>1, <2>1, HeadIsTheReply DEF AnswersStayInside, Asked
  <2>4. (tries - faulted - 1) * Chunk <= offset
    BY <1>1, <2>1 DEF AccountInv, InTry, Paid
  <2>5. tries - faulted \in Int /\ tries - faulted - 1 \in Int /\ faulted \in Nat
    BY <1>1, AccountTypes
  <2>6. tries - faulted - 1 < ChunksOfTotal
    <3>1. (tries - faulted - 1) * Chunk < Total
      BY <2>1, <2>4, <2>5, PaidSteps, SizesAssumption
    <3>. QED BY <2>5, <3>1, FewerChunks
  <2>7. tries' - faulted' <= ChunksOfTotal
    BY <2>2, <2>5, <2>6, ChunksCover
  <2>8. offset' < Total => (tries - faulted) * Chunk <= offset'
    <3>1. CASE Head(inq) = WholeChunk(offset)
      <4>1. Head(inq).len = IF Chunk < Total - offset THEN Chunk ELSE Total - offset
        BY <3>1 DEF WholeChunk, ChunkOf, Least
      <4>2. offset' < Total => offset' = offset + Chunk
        BY <2>1, <2>2, <4>1, SizesAssumption
      <4>. QED BY <2>1, <2>4, <2>5, <4>2, PaidSteps, SizesAssumption
    <3>2. CASE Head(inq) # WholeChunk(offset)
      <4>1. Failed
        BY <1>1, <2>1, <2>3, <3>2, HeadIsTheReply DEF Failed, Answered
      <4>2. (tries - faulted) * Chunk <= offset
        BY <1>1, <4>1 DEF AccountInv, Paid
      <4>3. (tries - faulted) * Chunk \in Int
        BY <2>5, PaidSteps
      <4>4. offset \in Int /\ offset' \in Int /\ offset <= offset'
        BY <2>1, <2>2
      <4>. QED BY <4>2, <4>3, <4>4
    <3>. QED BY <3>1, <3>2
  <2>. QED BY <2>1, <2>2, <2>5, <2>7, <2>8 DEF AccountInv, Paid, InTry, Failed
<1>14. CASE Raise
  <2>1. pc' = "raised" /\ UNCHANGED <<stalls, faulted, row>>
    BY <1>14 DEF Raise, linkVars, history
  <2>. QED BY <1>1, <2>1 DEF AccountInv, InTry, Failed
<1>15. CASE Save
  <2>1. pc' = "done" /\ UNCHANGED <<offset, stalls, tries, faulted, row>> /\ pc \in {"head", "save"}
    BY <1>15 DEF Save, linkVars, history
  <2>2. tries \in 0 .. MaxTries /\ MaxTries = ChunksOfTotal + Spare /\ Spare \in Nat /\ ChunksOfTotal \in Nat
    BY <1>1, CapIsNat, ChunksCover, SizesAssumption DEF MaxTries, ChunksOfTotal, TypeOK
  <2>3. offset >= Total \/ row >= StallLimit \/ (tries = MaxTries /\ faulted > Spare)
    <3>1. CASE pc = "save"
      BY <1>1, <3>1, AccountTypes, SizesAssumption DEF AccountInv
    <3>2. CASE offset < Total /\ ~(tries < MaxTries) /\ pc = "head"
      <4>1. (tries - faulted) * Chunk < Total
        BY <1>1, <3>2, AccountTypes, PaidSteps, SizesAssumption DEF AccountInv, Paid
      <4>2. tries - faulted < ChunksOfTotal
        BY <1>1, <4>1, AccountTypes, FewerChunks
      <4>. QED BY <1>1, <2>2, <3>2, <4>2, AccountTypes
    <3>3. CASE offset >= Total
      BY <3>3
    <3>. QED BY <1>1, <1>15, <3>1, <3>2, <3>3, AccountTypes, SizesAssumption DEF Save, MoreWanted
  <2>. QED BY <1>1, <2>1, <2>3 DEF AccountInv, Paid, InTry, Failed
<1>16. CASE UNCHANGED vars
  <2>1. UNCHANGED <<pc, offset, stalls, tries, faulted, row, inq, flight, plugged>>
    BY <1>16 DEF vars, toolVars, linkVars, history
  <2>2. Failed' => Failed
    BY <2>1 DEF Failed, WholeChunk, OnlyInputs
  <2>. QED BY <1>1, <2>1, <2>2, AccountRests
<1>. QED
  BY <1>3, <1>4, <1>5, <1>6, <1>7, <1>8, <1>9, <1>10, <1>11, <1>12, <1>13, <1>14, <1>15, <1>16
     DEF Next, Tool, World, Link, Rest

LEMMA AccountInductive ==
    ASSUME Timely
    PROVE  /\ Init => TimelyInv /\ AccountInv
           /\ TimelyInv /\ AccountInv /\ [Next]_vars => (TimelyInv /\ AccountInv)'
BY InitTimely, TimelyInductive, InitAccount, NextAccount

\* On a timely link a read that stops short of the section met StallLimit
\* failed answers with no byte stored between them, or used every send with
\* more failures than the cap has to spare: neither input reports nor
\* failures that stored bytes separate end it on a pad that answers.
THEOREM OnlyFailuresEndIt == Timely => (Spec => []GivesUpOnlyWhenFailed)
<1>. SUFFICES ASSUME Timely PROVE Spec => []GivesUpOnlyWhenFailed
  OBVIOUS
<1>1. ASSUME TimelyInv, AccountInv PROVE GivesUpOnlyWhenFailed
  <2>1. offset \in Nat
    BY <1>1 DEF TimelyInv, TypeInv, TypeOK
  <2>. QED BY <1>1, <2>1, SizesAssumption DEF AccountInv, GivesUpOnlyWhenFailed
<1>. QED BY <1>1, AccountInductive, PTL DEF Spec

\* On a timely link a read that ends complete sent one request for each chunk
\* and one for each answer that was lost, refused or not the whole chunk.
THEOREM SendsAreAccountedFor == Timely => (Spec => []NoSendIsWasted)
<1>. SUFFICES ASSUME Timely PROVE Spec => []NoSendIsWasted
  OBVIOUS
<1>1. ASSUME TimelyInv, AccountInv PROVE NoSendIsWasted
  <2>1. TypeOK /\ VerdictFits
    BY <1>1 DEF TimelyInv, TypeInv
  <2>2. ASSUME saved = "complete"
        PROVE  tries <= ChunksOfTotal + faulted
    <3>1. pc = "done" /\ offset >= Total
      BY <2>1, <2>2 DEF VerdictFits
    <3>2. tries - faulted <= ChunksOfTotal
      BY <1>1, <2>1, <3>1, AccountTypes, SizesAssumption DEF AccountInv
    <3>. QED BY <2>1, <3>2, AccountTypes, ChunksCover
  <2>. QED BY <2>2 DEF NoSendIsWasted, ChunksOfTotal
<1>. QED BY <1>1, AccountInductive, PTL DEF Spec

-----------------------------------------------------------------------------
(* Refinement: an accepted chunk is a Grow, the end of the read a Publish,  *)
(* the lost pad's OSError an Abandon, everything else a stutter.            *)

LEMMA InitCopies == Init => Copy!Init
BY SizesAssumption DEF Init, Copy!Init, Copy!NoFile, Copy!PadBytes, Held, Least, Over

LEMMA NextCopies ==
    ASSUME TimelyInv, TimelyInv', [Next]_vars
    PROVE  [Copy!Next]_(Copy!cvars)
<1>. DEFINE File == [i \in 0 .. (IF saved = "nothing" THEN 0 ELSE Held) - 1 |-> image[i]]
<1>1. TypeOK /\ LoopGoesOn /\ VerdictFits /\ PrefixIsThePads
  BY DEF TimelyInv, TypeInv
<1>2. Held \in 0 .. Total
  BY <1>1, SizesAssumption DEF TypeOK, Held, Least
<1>3. CASE TakeChunk
  <2>1. Head(inq).len \in 1 .. Longest
    BY <1>1, <1>3, TailOfReports DEF TakeChunk, Reports
  <2>2. offset \in 0 .. Total - 1 /\ offset' = offset + Head(inq).len
    BY <1>1, <1>3, SizesAssumption DEF TakeChunk, TypeOK, LoopGoesOn, InTry
  <2>3. Held' \in Held + 1 .. Total /\ Held' <= Held + Longest
    BY <2>1, <2>2, SizesAssumption DEF Held, Least
  <2>4. ~Over /\ Over' = Over
    BY <1>3 DEF TakeChunk, Over
  <2>5. saved = "nothing" /\ saved' = "nothing"
    BY <1>1, <1>3 DEF TakeChunk, VerdictFits
  <2>6. File' = File
    BY <2>5
  <2>7. \E n \in Held + 1 .. Total : n <= Held + Longest /\ Held' = n
    BY <2>3
  <2>8. Copy!Grow
    BY <2>4, <2>6, <2>7 DEF Copy!Grow
  <2>. QED BY <2>8 DEF Copy!Next
<1>4. CASE Save
  <2>1. UNCHANGED Held /\ ~Over /\ Over'
    BY <1>4 DEF Save, Over, Held
  <2>2. File' = Copy!PadBytes(Held)
    <3>1. \A i \in 0 .. Held - 1 : image[i] = i
      BY <1>1, <1>2, SizesAssumption DEF PrefixIsThePads, Cells, Held, Least, TypeOK
    <3>2. CASE saved' = "nothing"
      <4>1. Held = 0
        BY <1>1, <1>4, <3>2, SizesAssumption DEF Save, Held, Least, TypeOK
      <4>. QED BY <3>2, <4>1 DEF Copy!PadBytes
    <3>3. CASE saved' # "nothing"
      <4>1. File' = [i \in 0 .. Held - 1 |-> image[i]]
        BY <2>1, <3>3, <1>4 DEF Save
      <4>. QED BY <3>1, <4>1 DEF Copy!PadBytes
    <3>. QED BY <3>2, <3>3
  <2>. QED BY <2>1, <2>2 DEF Copy!Next, Copy!Publish
<1>5. CASE Raise
  <2>1. UNCHANGED <<Held, File>>
    BY <1>5 DEF Raise, Held
  <2>2. ~Over /\ Over'
    BY <1>5 DEF Raise, Over
  <2>. QED BY <2>1, <2>2 DEF Copy!Next, Copy!Abandon
<1>6. CASE ~TakeChunk /\ ~Save /\ ~Raise
  <2>1. UNCHANGED <<offset, image, saved>>
    BY <1>6, OnlyTakeChunkStores DEF Next, Tool, World, Link, Rest, PadAnswers, LinkLoses,
       PadStreams, Unplug, DeadlinePasses, BeginTry, DrainOne, DrainEnds, Send, SkipInput,
       TakeNoBytes, NoProgress, Timeout, vars, toolVars
  <2>2. UNCHANGED <<Held, File>>
    BY <2>1 DEF Held
  <2>3. UNCHANGED Over
    BY <1>6 DEF Next, Tool, World, Link, Rest, PadAnswers, LinkLoses,
       PadStreams, Unplug, DeadlinePasses, BeginTry, DrainOne, DrainEnds, Send, SkipInput,
       TakeNoBytes, NoProgress, Timeout, vars, toolVars, Over
  <2>. QED BY <2>2, <2>3 DEF Copy!cvars
<1>. QED BY <1>3, <1>4, <1>5, <1>6

\* On a timely link the read implements ChunkedCopy: a reader of the directory
\* sees at most one file appear, and in it the pad's first bytes.
THEOREM ReadCopiesFromTheFront == Timely => (Spec => CopiesFromTheFront)
<1>. SUFFICES ASSUME Timely PROVE Spec => CopiesFromTheFront
  OBVIOUS
<1>1. Init => TimelyInv
  BY InitTimely
<1>2. TimelyInv /\ [Next]_vars => TimelyInv'
  BY TimelyInductive
<1>3. TimelyInv /\ TimelyInv' /\ [Next]_vars => [Copy!Next]_(Copy!cvars)
  BY NextCopies
<1>. QED BY <1>1, <1>2, <1>3, InitCopies, PTL DEF Spec, CopiesFromTheFront, Copy!Spec
=============================================================================
