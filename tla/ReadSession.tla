----------------------------- MODULE ReadSession -----------------------------
(***************************************************************************)
(* One chunked read of tools/read_config.py: chunked_read (lines 138-177)  *)
(* on top of Session.drain and Session.exchange (95-131), against the      *)
(* kernel's hidraw ring, the link and a pad.                               *)
(*                                                                         *)
(* The tool keeps at most one request outstanding from its own point of    *)
(* view: drain what is pending, write the request, then wait for a report  *)
(* with id 02 until a deadline.  The reply is stored at the tool's current *)
(* offset; the parser does not look at the offset the pad echoes.          *)
(*                                                                         *)
(* Byte i of the pad's section is represented by the number i, so an image *)
(* cell is right exactly when it holds its own index.                      *)
(***************************************************************************)
EXTENDS Integers, Sequences, FiniteSets

CONSTANTS
    Total,        \* bytes in the section (0x638, or 0x230 for custom_info)
    Chunk,        \* bytes asked for at a time (CUSTOM_INFO_CHUNK, 0x2d)
    Longest,      \* bytes a parser lets through: 45 (request 2) or 46 (custom_info)
    Spare,        \* sends allowed beyond one per chunk (30)
    StallLimit,   \* consecutive sends without progress that end the read (3)
    QueueCap,     \* reports the hidraw ring holds
    StreamAhead,  \* unread input reports the pad gets ahead of the tool; 0: it sends none
    Faults        \* what the link and the pad may do wrong

FaultKinds == {"loss", "late", "length", "reject", "unplug"}

ASSUME SizesAssumption == /\ Total \in Nat \ {0}
                          /\ Chunk \in Nat \ {0}
                          /\ Longest \in Nat /\ Chunk <= Longest
                          /\ Spare \in Nat
                          /\ StallLimit \in Nat \ {0}
ASSUME LinkAssumption == /\ QueueCap \in Nat \ {0}
                         /\ StreamAhead \in Nat
                         /\ Faults \subseteq FaultKinds

VARIABLES
    pc,       \* where the tool is
    offset,   \* chunked_read's offset: it may pass Total on an oversized tail
    stalls,   \* consecutive sends without progress
    tries,    \* sends so far
    image,    \* the bytearray; Blank where nothing was stored
    saved,    \* what the read left on disk
    inq,      \* reports in the hidraw ring, oldest first
    flight,   \* requests the pad has not answered yet, oldest first
    expired,  \* the deadline of the current exchange has passed
    plugged,  \* the pad is still attached
    \* History, for the properties only: answers that were lost, refused or
    \* not the whole chunk, in the whole read and since the last stored bytes.
    faulted, row

toolVars == <<pc, offset, stalls, tries, image, saved>>
history == <<faulted, row>>
linkVars == <<flight, expired, plugged, history>>
vars == <<toolVars, inq, linkVars>>

Cells == 0 .. Total - 1
Blank == -1
Identify == -1             \* the answer still owed to main's last identify
Requests == Cells \cup {Identify}

Least(a, b) == IF a < b THEN a ELSE b

\* Line 146.
MaxTries == (Total + Chunk - 1) \div Chunk + Spare

PC == {"head", "drain", "send", "wait", "save", "done", "raised"}

(* A report in the ring: an input report (id other than 02), a reply the   *)
(* parser refuses, or a chunk of len bytes read from at.                   *)
Kinds == {"input", "refused", "chunk"}
Reports == [kind : Kinds, at : Nat, len : 0 .. Longest]
Input == [kind |-> "input", at |-> 0, len |-> 0]
Refused == [kind |-> "refused", at |-> 0, len |-> 0]
ChunkOf(at, len) == [kind |-> "chunk", at |-> at, len |-> len]

Timely == "late" \notin Faults

-----------------------------------------------------------------------------
Init ==
    /\ pc = "head" /\ offset = 0 /\ stalls = 0 /\ tries = 0
    /\ image = [i \in Cells |-> Blank]
    /\ saved = "nothing"
    /\ inq = <<>>
    /\ flight \in IF Timely THEN {<<>>} ELSE {<<>>, <<Identify>>}
    /\ expired = FALSE /\ plugged = TRUE
    /\ faulted = 0 /\ row = 0

(* The pad, the link and the kernel. *)

\* A report that finds the ring full is dropped by the kernel.
Deliver(r) == inq' = IF Len(inq) < QueueCap THEN Append(inq, r) ELSE inq

WholeChunk(req) == ChunkOf(req, Least(Chunk, Total - req))

\* What a pad may answer: the chunk asked for, or, with faults, a shorter,
\* empty or overlong one, or something the parser refuses.
Answers(req) ==
    IF req = Identify
    THEN {Refused}
    ELSE {WholeChunk(req)}
         \cup {ChunkOf(req, n) : n \in IF "length" \in Faults THEN 0 .. Longest ELSE {}}
         \cup (IF "reject" \in Faults THEN {Refused} ELSE {})

AnswerFails == faulted' = faulted + 1 /\ row' = row + 1

PadAnswers ==
    /\ flight # <<>>
    /\ \E r \in Answers(Head(flight)) :
          /\ Deliver(r)
          /\ IF r = WholeChunk(Head(flight)) /\ Len(inq) < QueueCap
             THEN UNCHANGED history ELSE AnswerFails
    /\ flight' = Tail(flight)
    /\ UNCHANGED <<toolVars, expired, plugged>>

LinkLoses ==
    /\ "loss" \in Faults
    /\ flight # <<>>
    /\ flight' = Tail(flight)
    /\ AnswerFails
    /\ UNCHANGED <<toolVars, inq, expired, plugged>>

Unread(kind) == Cardinality({k \in DOMAIN inq : inq[k].kind = kind})

PadStreams ==
    /\ plugged
    /\ Unread("input") < StreamAhead
    /\ Deliver(Input)
    /\ UNCHANGED <<toolVars, linkVars>>

Unplug ==
    /\ "unplug" \in Faults
    /\ plugged
    /\ plugged' = FALSE
    /\ flight' = <<>>
    /\ UNCHANGED <<toolVars, inq, expired, history>>

\* On a timely link an answer that comes at all comes before the deadline.
DeadlinePasses ==
    /\ pc = "wait"
    /\ ~expired
    /\ Timely => flight = <<>>
    /\ expired' = TRUE
    /\ UNCHANGED <<toolVars, inq, flight, plugged, history>>

-----------------------------------------------------------------------------
(* The tool. *)

MoreWanted == offset < Total /\ tries < MaxTries

\* The head of the loop, up to the call of exchange.
BeginTry ==
    /\ pc = "head" /\ MoreWanted
    /\ tries' = tries + 1
    /\ pc' = "drain"
    /\ UNCHANGED <<offset, stalls, image, saved, inq, linkVars>>

\* drain: one report that was pending is read and only logged.
DrainOne ==
    /\ pc = "drain" /\ inq # <<>>
    /\ inq' = Tail(inq)
    /\ UNCHANGED <<toolVars, linkVars>>

\* drain: select finds nothing and drain returns.
DrainEnds ==
    /\ pc = "drain" /\ inq = <<>> /\ plugged
    /\ pc' = "send"
    /\ UNCHANGED <<offset, stalls, tries, image, saved, inq, linkVars>>

\* The request for the current offset goes out and the deadline is set.
Send ==
    /\ pc = "send" /\ plugged
    /\ flight' = Append(flight, offset)
    /\ expired' = FALSE
    /\ pc' = "wait"
    /\ UNCHANGED <<offset, stalls, tries, image, saved, inq, plugged, history>>

\* Mutants: an input report is taken for a refused reply, or restarts the wait.
SkipInputEndsTry ==
    /\ pc = "wait" /\ inq # <<>>
    /\ Head(inq).kind = "input"
    /\ inq' = Tail(inq)
    /\ stalls' = stalls + 1
    /\ pc' = IF stalls + 1 >= StallLimit THEN "save" ELSE "head"
    /\ UNCHANGED <<offset, tries, image, saved, linkVars>>
SkipInputRestartsWait ==
    /\ pc = "wait" /\ inq # <<>>
    /\ Head(inq).kind = "input"
    /\ inq' = Tail(inq)
    /\ expired' = FALSE
    /\ UNCHANGED <<toolVars, flight, plugged, history>>

\* A report with another id than 02 is counted and skipped, past the deadline too.
SkipInput ==
    /\ pc = "wait" /\ inq # <<>>
    /\ Head(inq).kind = "input"
    /\ inq' = Tail(inq)
    /\ UNCHANGED <<toolVars, linkVars>>

\* Mutant: only the cap ends a read of a silent pad.
NoProgressUncounted ==
    /\ stalls' = stalls + 1
    /\ pc' = "head"
    /\ UNCHANGED <<offset, tries, image, saved>>

\* What chunked_read does with a send that brought no bytes.
NoProgress ==
    /\ stalls' = stalls + 1
    /\ pc' = IF stalls + 1 >= StallLimit THEN "save" ELSE "head"
    /\ UNCHANGED <<offset, tries, image, saved>>

\* A report with id 02 ends the exchange, whatever request it answers.
TakeNoBytes ==
    /\ pc = "wait" /\ inq # <<>>
    /\ \/ Head(inq).kind = "refused"
       \/ Head(inq).kind = "chunk" /\ Head(inq).len = 0
    /\ inq' = Tail(inq)
    /\ NoProgress
    /\ UNCHANGED linkVars

\* The image after len bytes that the pad read from at are stored at offset.
Stored(at, len) ==
    [i \in Cells |-> IF i \in offset .. offset + len - 1 THEN at + (i - offset) ELSE image[i]]

\* Mutants: every chunk is taken for a whole one; the offset falls one short.
TakeChunkAsWhole ==
    /\ pc = "wait" /\ inq # <<>>
    /\ Head(inq).kind = "chunk" /\ Head(inq).len > 0
    /\ inq' = Tail(inq)
    /\ stalls' = 0
    /\ image' = Stored(Head(inq).at, Head(inq).len)
    /\ offset' = offset + Chunk
    /\ pc' = "head"
    /\ row' = 0
    /\ UNCHANGED <<tries, saved, flight, expired, plugged, faulted>>
TakeChunkOneShort ==
    /\ pc = "wait" /\ inq # <<>>
    /\ Head(inq).kind = "chunk" /\ Head(inq).len > 0
    /\ inq' = Tail(inq)
    /\ stalls' = 0
    /\ image' = Stored(Head(inq).at, Head(inq).len)
    /\ offset' = offset + Head(inq).len - 1
    /\ pc' = "head"
    /\ row' = 0
    /\ UNCHANGED <<tries, saved, flight, expired, plugged, faulted>>

\* Mutant: stored bytes do not clear the count of stalls.
TakeChunkKeepsStalls ==
    /\ pc = "wait" /\ inq # <<>>
    /\ Head(inq).kind = "chunk" /\ Head(inq).len > 0
    /\ inq' = Tail(inq)
    /\ image' = Stored(Head(inq).at, Head(inq).len)
    /\ offset' = offset + Head(inq).len
    /\ pc' = "head"
    /\ row' = 0
    /\ UNCHANGED <<stalls, tries, saved, flight, expired, plugged, faulted>>

TakeChunk ==
    /\ pc = "wait" /\ inq # <<>>
    /\ Head(inq).kind = "chunk" /\ Head(inq).len > 0
    /\ inq' = Tail(inq)
    /\ stalls' = 0
    /\ image' = Stored(Head(inq).at, Head(inq).len)
    /\ offset' = offset + Head(inq).len
    /\ pc' = "head"
    /\ row' = 0
    /\ UNCHANGED <<tries, saved, flight, expired, plugged, faulted>>

\* Mutant: select does not wait for the deadline.
TimeoutAtOnce ==
    /\ pc = "wait" /\ inq = <<>> /\ plugged
    /\ NoProgress
    /\ UNCHANGED <<inq, linkVars>>

Timeout ==
    /\ pc = "wait" /\ expired /\ inq = <<>> /\ plugged
    /\ NoProgress
    /\ UNCHANGED <<inq, linkVars>>

\* Reading an empty ring of a pad that is gone, or writing to it, raises
\* OSError: nothing catches it but main's finally, which closes the session.
Raise ==
    /\ ~plugged
    /\ \/ pc \in {"drain", "wait"} /\ inq = <<>>
       \/ pc = "send"
    /\ pc' = "raised"
    /\ UNCHANGED <<offset, stalls, tries, image, saved, inq, linkVars>>

\* Mutant: complete is decided one byte early.
SaveOneEarly ==
    /\ pc = "save" \/ (pc = "head" /\ ~MoreWanted)
    /\ saved' = IF offset >= Total - 1 THEN "complete"
                ELSE IF offset > 0 THEN "partial" ELSE "nothing"
    /\ pc' = "done"
    /\ UNCHANGED <<offset, stalls, tries, image, inq, linkVars>>

\* The file chunked_read writes: the image, what there is of it, or none.
Save ==
    /\ pc = "save" \/ (pc = "head" /\ ~MoreWanted)
    /\ saved' = IF offset >= Total THEN "complete"
                ELSE IF offset > 0 THEN "partial" ELSE "nothing"
    /\ pc' = "done"
    /\ UNCHANGED <<offset, stalls, tries, image, inq, linkVars>>

-----------------------------------------------------------------------------
Over == pc \in {"done", "raised"}

\* The read is over; the process goes on elsewhere.
Rest == Over /\ UNCHANGED vars

Link == PadAnswers \/ LinkLoses
Tool == \/ BeginTry \/ DrainOne \/ Send \/ SkipInput \/ TakeNoBytes
        \/ TakeChunk \/ Raise \/ Save
World == Link \/ PadStreams \/ Unplug \/ DeadlinePasses

Next == Tool \/ DrainEnds \/ Timeout \/ World \/ Rest

Spec == Init /\ [][Next]_vars

(* Fairness.  The process runs (WF on its steps), time passes, and a link   *)
(* answers or loses what it carries.  The two selects that must find the   *)
(* ring empty are strongly fair: the tool reads far faster than a pad      *)
(* streams, so if the ring is empty again and again one select sees it so. *)
Fairness ==
    /\ WF_vars(Tool) /\ WF_vars(Link) /\ WF_vars(DeadlinePasses)
    /\ SF_vars(DrainEnds) /\ SF_vars(Timeout)

FairSpec == Spec /\ Fairness

-----------------------------------------------------------------------------
(* Properties. *)

\* Ranges of the tool's variables, the ring and the requests in flight.
TypeOK ==
    /\ pc \in PC
    /\ offset \in Nat
    /\ stalls \in 0 .. StallLimit
    /\ tries \in 0 .. MaxTries
    /\ image \in [Cells -> Int]
    /\ saved \in {"nothing", "partial", "complete"}
    /\ inq \in Seq(Reports)
    /\ flight \in Seq(Requests)
    /\ expired \in BOOLEAN
    /\ plugged \in BOOLEAN
    /\ faulted \in Nat
    /\ row \in 0 .. faulted

\* What chunked_read writes to disk is what the pad holds at those offsets:
\* every byte of a complete image and every byte of a partial one
\* (lines 162-175).  It needs a link on which no answer outlives its exchange.
SavedIsThePads ==
    saved # "nothing" => \A i \in Cells : i < offset => image[i] = i

\* The complete image is the pad's section, byte for byte.
CompleteImageIsThePads == saved = "complete" => \A i \in Cells : image[i] = i

\* A file is named complete only when every byte was stored, and partial
\* only when something and not everything was (lines 165-177).
NamedForWhatItHolds ==
    /\ saved = "complete" => \A i \in Cells : image[i] # Blank
    /\ saved = "partial" => (\E i \in Cells : image[i] = Blank) /\ image[0] # Blank

\* The stored bytes are always the first offset ones, without a hole,
\* whatever replies come and however short (lines 161-164).
NoHoles == \A i \in Cells : image[i] # Blank <=> i < offset

\* A stored byte is never overwritten by a later reply.
NeverOverwrites == [][\A i \in Cells : image[i] # Blank => image'[i] = image[i]]_vars

\* The read gives up on a pad only after StallLimit answers were lost, refused
\* or not the whole chunk with no byte stored between them (143, 156-161), or
\* when every send of the cap is used and more answers failed than the cap
\* has to spare (146): no input report, drain or deadline alone ever ends it,
\* and failures that stored bytes separate never add up to a stall.
GivesUpOnlyWhenFailed ==
    (pc = "done" /\ offset < Total) =>
        row >= StallLimit \/ (tries = MaxTries /\ faulted > Spare)

\* No send is wasted: a read that ends complete sent one request per chunk
\* and one more for each answer that was lost, refused or cut short.
NoSendIsWasted ==
    saved = "complete" => tries <= (Total + Chunk - 1) \div Chunk + faulted

\* At most one request is unanswered at a time on a timely link, and no
\* answer is left in the ring when the next request goes out.
OneRequestOut ==
    /\ Len(flight) <= 1
    /\ pc = "send" => flight = <<>> /\ \A k \in DOMAIN inq : inq[k].kind = "input"

\* The read ends, with a file, without one, or by the OSError of a lost pad.
ReadEnds == <>Over

(* The read implements the abstract copy: got is the part of the offset     *)
(* that lies in the section, the file holds the image's cells.              *)
Held == Least(offset, Total)
Copy == INSTANCE ChunkedCopy WITH
            Chunk <- Longest,
            got <- Held,
            file <- [i \in 0 .. (IF saved = "nothing" THEN 0 ELSE Held) - 1 |-> image[i]],
            over <- Over

\* On a timely link the read is a ChunkedCopy: the file appears once, and
\* holds the pad's first bytes and nothing else.
CopiesFromTheFront == Copy!Spec
=============================================================================
