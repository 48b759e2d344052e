------------------------------ MODULE SavedFiles ------------------------------
(***************************************************************************)
(* The image files of one directory: what chunked_read saves there         *)
(* (read_config.py 172-188), and what u2_plan.py loads and writes back     *)
(* beside it.  Several programs run at once, or after one another with the *)
(* same --log, and may end at any point: killed, or by an OSError of the   *)
(* pad or the disk.  u2_plan.py is run without --out.                      *)
(*                                                                         *)
(* An image is the section and the read it comes from, the plans made on   *)
(* it, and its length in chunks.  write_bytes truncates the file and then  *)
(* writes all its bytes by one call, or as many as the disk has room for.  *)
(***************************************************************************)
EXTENDS Integers

CONSTANTS
    Processes,
    Logs,      \* the stems of the transcripts' names
    Total,     \* the chunks of each section
    MaxRuns    \* bound: programs started

Sections == {"u2", "custom"}

ASSUME FilesAssumption ==
    /\ Total \in [Sections -> Nat \ {0}] /\ Total["custom"] < Total["u2"]
    /\ MaxRuns \in Nat

Image(section, read, plans, length) ==
    [section |-> section, read |-> read, plans |-> plans, length |-> length]
Images == [section : Sections, read : Nat, plans : Nat, length : Nat]
Empty == Image("u2", 0, 0, 0)

\* <log>_<section>.bin, with .partial or not, and how often .planned, before .bin.
Name(log, section) == [log |-> log, section |-> section, partial |-> FALSE, planned |-> 0]
Names == [log : Logs, section : Sections, partial : BOOLEAN, planned : Nat]

VARIABLES
    files,      \* what is in the directory: a function of some names
    process,    \* each program's place, the file it is for, and its image
    runs,
    completed   \* the reads of section u2 that came to their end

vars == <<files, process, runs, completed>>

At(pc, out, image) == [pc |-> pc, out |-> out, image |-> image]
Idle == [pc |-> "idle"]

Init ==
    /\ files = [n \in {} |-> Empty]
    /\ process = [p \in Processes |-> Idle]
    /\ runs = 0 /\ completed = {}

Become(p, state) == process' = [process EXCEPT ![p] = state]

-----------------------------------------------------------------------------
(* chunked_read. *)

StartRead(p, log, section) ==
    /\ process[p].pc = "idle" /\ runs < MaxRuns
    /\ runs' = runs + 1
    /\ Become(p, At("read", Name(log, section), Image(section, runs', 0, 0)))
    /\ UNCHANGED <<files, completed>>

Got(p) == process[p].image.length
Missing(p) == Total[process[p].image.section] - Got(p)

TakeChunk(p) ==
    /\ process[p].pc = "read" /\ Missing(p) > 0
    /\ process' = [process EXCEPT ![p].image.length = @ + 1]
    /\ UNCHANGED <<files, runs, completed>>

\* Mutant: the file is opened to be written over, which does not make one.
CompleteReadInPlace(p) ==
    /\ process[p].pc = "read" /\ Missing(p) = 0
    /\ process' = [process EXCEPT ![p].pc = "write"]
    /\ completed' = completed \cup
           (IF process[p].image.section = "u2" THEN {process[p].image.read} ELSE {})
    /\ UNCHANGED <<files, runs>>

CompleteRead(p) ==
    /\ process[p].pc = "read" /\ Missing(p) = 0
    /\ process' = [process EXCEPT ![p].pc = "truncate"]
    /\ completed' = completed \cup
           (IF process[p].image.section = "u2" THEN {process[p].image.read} ELSE {})
    /\ UNCHANGED <<files, runs>>

\* Mutants: the whole buffer is saved, zeros and all; the partial image goes
\* where the complete one would.
StopReadWhole(p) ==
    /\ process[p].pc = "read" /\ Missing(p) > 0 /\ Got(p) > 0
    /\ process' = [process EXCEPT ![p].pc = "truncate", ![p].out.partial = TRUE,
                                  ![p].image.length = Total[process[p].image.section]]
    /\ UNCHANGED <<files, runs, completed>>
StopReadInPlace(p) ==
    /\ process[p].pc = "read" /\ Missing(p) > 0 /\ Got(p) > 0
    /\ process' = [process EXCEPT ![p].pc = "truncate"]
    /\ UNCHANGED <<files, runs, completed>>

\* The read gave up: what there is goes to .partial.bin.
StopRead(p) ==
    /\ process[p].pc = "read" /\ Missing(p) > 0 /\ Got(p) > 0
    /\ process' = [process EXCEPT ![p].pc = "truncate", ![p].out.partial = TRUE]
    /\ UNCHANGED <<files, runs, completed>>

\* write_bytes.
Truncate(p) ==
    /\ process[p].pc = "truncate"
    /\ files' = [n \in DOMAIN files \cup {process[p].out} |->
                    IF n = process[p].out THEN Empty ELSE files[n]]
    /\ process' = [process EXCEPT ![p].pc = "write"]
    /\ UNCHANGED <<runs, completed>>

Write(p) ==
    /\ process[p].pc = "write"
    /\ files' = [files EXCEPT ![process[p].out] = process[p].image]
    /\ Become(p, Idle)
    /\ UNCHANGED <<runs, completed>>

\* The disk is full: what another program has written meanwhile is room
\* enough, and past it the image stops short of its end; the OSError ends the
\* program.
WriteShort(p) ==
    /\ process[p].pc = "write"
    /\ \E length \in files[process[p].out].length .. process[p].image.length - 1 :
          files' = [files EXCEPT ![process[p].out] = [process[p].image EXCEPT !.length = length]]
    /\ Become(p, Idle)
    /\ UNCHANGED <<runs, completed>>

-----------------------------------------------------------------------------
(* u2_plan.py main. *)

\* What load takes, and u2_summary.py: a file of the image's length.
Loads(image) == image.length = Total["u2"]

\* Mutant: the suffix in place of the input's is its own.
PlannedNameSame(name) == name

\* with_suffix(".planned.bin") takes the place of the last suffix, .bin.
PlannedName(name) == [name EXCEPT !.planned = @ + 1]

\* The image is loaded, and a change planned on it before anything is
\* written; a file of another length, or a bad argument, ends the program.
Plan(p, name) ==
    /\ process[p].pc = "idle" /\ runs < MaxRuns
    /\ runs' = runs + 1
    /\ \/ /\ Loads(files[name])
          /\ Become(p, At("truncate", PlannedName(name), [files[name] EXCEPT !.plans = @ + 1]))
       \/ UNCHANGED process
    /\ UNCHANGED <<files, completed>>

-----------------------------------------------------------------------------

\* A program ends where it is; a read with nothing in it ends so too.
End(p) ==
    /\ process[p].pc # "idle"
    /\ Become(p, Idle)
    /\ UNCHANGED <<files, runs, completed>>

Rest == runs = MaxRuns /\ (\A p \in Processes : process[p].pc = "idle") /\ UNCHANGED vars

Next ==
    \/ \E p \in Processes :
          \/ \E log \in Logs, section \in Sections : StartRead(p, log, section)
          \/ TakeChunk(p) \/ CompleteRead(p) \/ StopRead(p)
          \/ Truncate(p) \/ Write(p) \/ WriteShort(p)
          \/ \E name \in DOMAIN files : Plan(p, name)
          \/ End(p)
    \/ Rest

Spec == Init /\ [][Next]_vars

-----------------------------------------------------------------------------
(* Properties. *)

ProcessStates ==
    {Idle} \cup [pc : {"read", "truncate", "write"}, out : Names, image : Images]

TypeOK ==
    /\ DOMAIN files \subseteq Names
    /\ \A n \in DOMAIN files : files[n] \in Images
    /\ process \in [Processes -> ProcessStates]
    /\ \A p \in Processes : process[p].pc = "write" => process[p].out \in DOMAIN files
    /\ runs \in 0 .. MaxRuns
    /\ completed \subseteq 1 .. runs

\* Whatever u2_plan.py and u2_summary.py accept, whoever ended where, is the
\* image of a read of the config section that came to its end, or plans made
\* on one; their only check is the length (u2_plan.py 79, u2_summary.py 54).
WhatLoadsIsWhole ==
    \A n \in DOMAIN files :
        Loads(files[n]) => files[n].section = "u2" /\ files[n].read \in completed

\* A file holds as many plans as its name says: no plan goes into the file
\* it was made from, nor any other that was only read.
NamedForItsPlans ==
    \A n \in DOMAIN files :
        Loads(files[n]) => n.planned = files[n].plans

\* A read that stops early costs no image: one that loads is taken away only
\* for another that does.
OnlyImagesReplaceImages ==
    [][\A n \in DOMAIN files :
          (Loads(files[n]) /\ files'[n] # files[n]) =>
              \E p \in Processes :
                  process[p].pc # "idle" /\ process[p].out = n /\ Loads(process[p].image)]_vars
=============================================================================
