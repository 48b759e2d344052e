----------------------------- MODULE ChunkedCopy -----------------------------
(***************************************************************************)
(* What a chunked read promises to whoever opens its file: a copy of the   *)
(* pad's section that grows from the front, by at most one reply at a      *)
(* time, and is published at most once, when the read is over.  There are  *)
(* no requests, reports, deadlines or rings here.                          *)
(***************************************************************************)
EXTENDS Integers

CONSTANTS
    Total,   \* bytes in the section
    Chunk    \* the most bytes one reply adds

VARIABLES
    got,    \* bytes copied so far, always the first ones
    file,   \* what was published: the bytes of the copy, in order
    over    \* the read has ended

cvars == <<got, file, over>>

\* The first n bytes of the section; byte i is the number i.
PadBytes(n) == [i \in 0 .. n - 1 |-> i]
NoFile == PadBytes(0)

Init == got = 0 /\ file = NoFile /\ over = FALSE

\* One reply's bytes are appended.
Grow == /\ ~over
        /\ \E n \in got + 1 .. Total : n <= got + Chunk /\ got' = n
        /\ UNCHANGED <<file, over>>

\* The read stops and leaves what it has.
Publish == /\ ~over
           /\ file' = PadBytes(got)
           /\ over' = TRUE
           /\ UNCHANGED got

\* The read is cut off and leaves nothing.
Abandon == /\ ~over
           /\ over' = TRUE
           /\ UNCHANGED <<got, file>>

Next == Grow \/ Publish \/ Abandon

Spec == Init /\ [][Next]_cvars
=============================================================================
