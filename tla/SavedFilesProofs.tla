---------------------------- MODULE SavedFilesProofs ----------------------------
(***************************************************************************)
(* For any number of programs, transcripts and runs, and sections of any   *)
(* lengths of which the custom one is the shorter: what u2_plan.py and     *)
(* u2_summary.py take for an image is one.                                 *)
(***************************************************************************)
EXTENDS SavedFiles, TLAPS

\* The file's name says what the image is, given the reads that came to their end.
Fit(name, image, done) ==
    /\ Loads(image) => /\ image.section = "u2" /\ image.read \in done
                       /\ name.planned = image.plans
    /\ Loads(image) <=> name.section = "u2" /\ ~name.partial
    /\ image.length <= Total["u2"]

\* What is on its way to the disk fits its name, what is there fits it or does
\* not load, and a read's own is what it has so far of its section.
FilesInv == \A n \in DOMAIN files : Loads(files[n]) => Fit(n, files[n], completed)
SavingInv ==
    \A p \in Processes :
        process[p].pc \in {"truncate", "write"} => Fit(process[p].out, process[p].image, completed)
Reads(state, started) ==
    /\ state.image.read \in 1 .. started
    /\ state.out.section = state.image.section
    /\ ~state.out.partial /\ state.out.planned = 0
    /\ state.image.plans = 0
    /\ state.image.length <= Total[state.image.section]
ReadingInv == \A p \in Processes : process[p].pc = "read" => Reads(process[p], runs)

IInv == TypeOK /\ FilesInv /\ SavingInv /\ ReadingInv

-----------------------------------------------------------------------------
(* Types. *)

LEMMA StateType ==
    ASSUME TypeOK, NEW p \in Processes
    PROVE  /\ process[p] \in ProcessStates
           /\ process[p].pc # "idle" =>
                 /\ process[p] \in [pc : {"read", "truncate", "write"}, out : Names, image : Images]
                 /\ process[p].image.section \in Sections
                 /\ process[p].image.length \in Nat
                 /\ Total[process[p].image.section] \in Nat \ {0}
<1>1. process[p] \in ProcessStates
  BY DEF TypeOK
<1>2. ASSUME process[p].pc # "idle"
      PROVE  process[p] \in [pc : {"read", "truncate", "write"}, out : Names, image : Images]
  BY <1>1, <1>2 DEF ProcessStates, Idle
<1>. QED BY <1>1, <1>2, FilesAssumption DEF Images

\* A program that takes a state of its own type leaves the rest of process alone.
LEMMA ProcessType ==
    ASSUME TypeOK, NEW p \in Processes, NEW state \in ProcessStates,
           process' = [process EXCEPT ![p] = state]
    PROVE  process' \in [Processes -> ProcessStates]
BY DEF TypeOK

LEMMA ReadType ==
    ASSUME NEW log \in Logs, NEW section \in Sections, NEW read \in Nat
    PROVE  At("read", Name(log, section), Image(section, read, 0, 0)) \in ProcessStates
BY DEF At, Name, Image, ProcessStates, Names, Images

-----------------------------------------------------------------------------
(* The invariant. *)

\* More reads have ended: what fitted still fits.
LEMMA StillFits ==
    ASSUME NEW name, NEW image, NEW done, NEW more, done \subseteq more, Fit(name, image, done)
    PROVE  Fit(name, image, more)
BY Zenon DEF Fit

\* A step of one program that leaves the files alone.
LEMMA FilesStay ==
    ASSUME IInv, NEW p \in Processes, NEW state \in ProcessStates,
           process' = [process EXCEPT ![p] = state], files' = files,
           completed \subseteq completed', completed' \subseteq 1 .. runs', runs' \in 0 .. MaxRuns,
           state.pc = "write" => state.out \in DOMAIN files,
           state.pc \in {"truncate", "write"} => Fit(state.out, state.image, completed'),
           runs <= runs', state.pc = "read" => Reads(state, runs')
    PROVE  IInv'
<1>1. process' \in [Processes -> ProcessStates]
  BY ProcessType DEF IInv
<1>2. \A q \in Processes : process'[q] = IF q = p THEN state ELSE process[q]
  BY DEF IInv, TypeOK
<1>3. TypeOK'
  BY <1>1, <1>2 DEF IInv, TypeOK
<1>4. FilesInv'
  BY StillFits DEF IInv, FilesInv
<1>5. SavingInv'
  BY <1>2, StillFits DEF IInv, SavingInv
<1>6. ReadingInv'
  <2>1. \A q \in Processes : Reads(process[q], runs) => Reads(process[q], runs')
    BY DEF Reads, IInv, TypeOK
  <2>. QED BY <1>2, <2>1 DEF IInv, ReadingInv
<1>. QED BY <1>3, <1>4, <1>5, <1>6 DEF IInv

\* What an invariant and a program's place give of its state.
LEMMA StateFits ==
    ASSUME IInv, NEW p \in Processes, process[p].pc # "idle"
    PROVE  /\ process[p] \in [pc : {"read", "truncate", "write"}, out : Names, image : Images]
           /\ process[p].image.section \in Sections
           /\ process[p].image.length \in Nat
           /\ Total[process[p].image.section] \in Nat \ {0}
           /\ process[p].pc = "read" => Reads(process[p], runs)
           /\ process[p].pc \in {"truncate", "write"} =>
                 Fit(process[p].out, process[p].image, completed)
BY StateType DEF IInv, SavingInv, ReadingInv

LEMMA CountsStay ==
    ASSUME IInv, UNCHANGED <<runs, completed>>
    PROVE  /\ runs' \in 0 .. MaxRuns /\ runs <= runs'
           /\ completed \subseteq completed' /\ completed' \subseteq 1 .. runs'
BY FilesAssumption DEF IInv, TypeOK

LEMMA StartReadInv ==
    ASSUME IInv, NEW p \in Processes, NEW log \in Logs, NEW section \in Sections,
           StartRead(p, log, section)
    PROVE  IInv'
<1>. DEFINE state == At("read", Name(log, section), Image(section, runs', 0, 0))
<1>1. runs \in Nat /\ runs' = runs + 1 /\ runs' \in 0 .. MaxRuns /\ runs <= runs'
      /\ completed \subseteq 1 .. runs
  BY FilesAssumption DEF IInv, TypeOK, StartRead
<1>2. state \in ProcessStates
  BY <1>1, ReadType
<1>3. state.pc = "read" /\ Reads(state, runs')
  BY <1>1, FilesAssumption DEF Reads, At, Name, Image
<1>4. process' = [process EXCEPT ![p] = state] /\ files' = files /\ completed' = completed
  BY DEF StartRead, Become
<1>5. completed' \subseteq 1 .. runs'
  BY <1>1, <1>4
<1>. HIDE DEF state
<1>. QED BY <1>1, <1>2, <1>3, <1>4, <1>5, FilesStay

LEMMA TakeChunkInv ==
    ASSUME IInv, NEW p \in Processes, TakeChunk(p)
    PROVE  IInv'
<1>. DEFINE state == [process[p] EXCEPT !.image = [process[p].image EXCEPT !.length = @ + 1]]
<1>1. process[p].pc = "read" /\ Missing(p) > 0
  BY DEF TakeChunk
<1>2. /\ process[p] \in [pc : {"read", "truncate", "write"}, out : Names, image : Images]
      /\ Reads(process[p], runs) /\ Total[process[p].image.section] \in Nat
  BY <1>1, StateFits
<1>3. state \in ProcessStates
  BY <1>2 DEF ProcessStates, Images
<1>4. state.pc = "read"
  BY <1>1, <1>2
<1>5. Reads(state, runs)
  BY <1>1, <1>2 DEF Reads, Images, Missing, Got
<1>6. process' = [process EXCEPT ![p] = state] /\ UNCHANGED <<files, runs, completed>>
  BY <1>2 DEF TakeChunk, Images
<1>. HIDE DEF state
<1>. QED BY <1>3, <1>4, <1>5, <1>6, FilesStay, CountsStay

\* The read is complete: the image is the section's whole length, which only
\* the config section's is.
LEMMA CompleteReadInv ==
    ASSUME IInv, NEW p \in Processes, CompleteRead(p)
    PROVE  IInv'
<1>. DEFINE state == [process[p] EXCEPT !.pc = "truncate"]
<1>1. process[p].pc = "read" /\ Missing(p) = 0
  BY DEF CompleteRead
<1>2. /\ process[p] \in [pc : {"read", "truncate", "write"}, out : Names, image : Images]
      /\ Reads(process[p], runs) /\ Total[process[p].image.section] \in Nat
  BY <1>1, StateFits
<1>3. state \in ProcessStates
  BY <1>2 DEF ProcessStates
<1>4. state.pc = "truncate" /\ state.out = process[p].out /\ state.image = process[p].image
  BY <1>2
<1>5. /\ completed \subseteq completed'
      /\ state.image.section = "u2" => state.image.read \in completed'
  BY <1>4 DEF CompleteRead
<1>6. state.image.length = Total[state.image.section] /\ state.image.section \in {"u2", "custom"}
  BY <1>1, <1>2, <1>4 DEF Missing, Got, Images, Sections
<1>7. Fit(state.out, state.image, completed')
  BY <1>2, <1>4, <1>5, <1>6, FilesAssumption DEF Fit, Reads, Loads, Sections
<1>8. process' = [process EXCEPT ![p] = state] /\ UNCHANGED <<files, runs>>
  BY <1>2 DEF CompleteRead
<1>9. completed' \subseteq 1 .. runs' /\ runs' \in 0 .. MaxRuns /\ runs <= runs'
  BY <1>2, <1>8 DEF IInv, TypeOK, CompleteRead, Reads
<1>. HIDE DEF state
<1>. QED BY <1>3, <1>4, <1>5, <1>7, <1>8, <1>9, FilesStay

\* A read that stops early has less than the section, and an image's length in
\* no case.
LEMMA StopReadInv ==
    ASSUME IInv, NEW p \in Processes, StopRead(p)
    PROVE  IInv'
<1>. DEFINE state == [process[p] EXCEPT !.pc = "truncate", !.out = [process[p].out EXCEPT !.partial = TRUE]]
<1>1. process[p].pc = "read" /\ Missing(p) > 0
  BY DEF StopRead
<1>2. /\ process[p] \in [pc : {"read", "truncate", "write"}, out : Names, image : Images]
      /\ Reads(process[p], runs) /\ Total[process[p].image.section] \in Nat
  BY <1>1, StateFits
<1>3. state \in ProcessStates
  BY <1>2 DEF ProcessStates, Names
<1>4. state.pc = "truncate" /\ state.out.partial = TRUE /\ state.image = process[p].image
  BY <1>2 DEF Names
<1>5. ~Loads(state.image)
  BY <1>1, <1>2, <1>4, FilesAssumption DEF Loads, Missing, Got, Images, Sections
<1>6. Fit(state.out, state.image, completed')
  <2>1. state.image.length <= Total["u2"]
    BY <1>2, <1>4, FilesAssumption DEF Reads, Images, Sections
  <2>. QED BY <1>4, <1>5, <2>1 DEF Fit
<1>7. process' = [process EXCEPT ![p] = state] /\ UNCHANGED <<files, runs, completed>>
  BY <1>2 DEF StopRead, Names
<1>. HIDE DEF state
<1>. QED BY <1>3, <1>4, <1>6, <1>7, FilesStay, CountsStay

LEMMA TruncateInv ==
    ASSUME IInv, NEW p \in Processes, Truncate(p)
    PROVE  IInv'
<1>. DEFINE state == [process[p] EXCEPT !.pc = "write"]
<1>1. process[p].pc = "truncate" /\ runs' = runs /\ completed' = completed
  BY DEF Truncate
<1>2. /\ process[p] \in [pc : {"read", "truncate", "write"}, out : Names, image : Images]
      /\ Fit(process[p].out, process[p].image, completed)
  BY <1>1, StateFits
<1>3. state \in ProcessStates
  BY <1>2 DEF ProcessStates
<1>4. state.pc = "write" /\ state.out = process[p].out /\ state.image = process[p].image
  BY <1>2
<1>5. process' = [process EXCEPT ![p] = state]
  BY <1>2 DEF Truncate
<1>. HIDE DEF state
<1>6. \A q \in Processes : process'[q] = IF q = p THEN state ELSE process[q]
  BY <1>5 DEF IInv, TypeOK
<1>7. /\ DOMAIN files' = DOMAIN files \cup {process[p].out}
      /\ \A n \in DOMAIN files' : files'[n] = IF n = process[p].out THEN Empty ELSE files[n]
  BY DEF Truncate
<1>8. Empty \in Images /\ ~Loads(Empty)
  BY FilesAssumption DEF Empty, Image, Images, Loads, Sections
<1>9. TypeOK'
  <2>1. process' \in [Processes -> ProcessStates]
    BY <1>3, <1>5, ProcessType DEF IInv
  <2>. QED BY <1>1, <1>2, <1>4, <1>6, <1>7, <1>8, <2>1 DEF IInv, TypeOK
<1>10. FilesInv'
  BY <1>1, <1>7, <1>8 DEF IInv, FilesInv
<1>11. SavingInv' /\ ReadingInv'
  BY <1>1, <1>2, <1>4, <1>6 DEF IInv, SavingInv, ReadingInv
<1>. QED BY <1>9, <1>10, <1>11 DEF IInv

LEMMA WriteInv ==
    ASSUME IInv, NEW p \in Processes, Write(p)
    PROVE  IInv'
<1>1. process[p].pc = "write" /\ runs' = runs /\ completed' = completed
  BY DEF Write
<1>2. /\ process[p] \in [pc : {"read", "truncate", "write"}, out : Names, image : Images]
      /\ Fit(process[p].out, process[p].image, completed)
  BY <1>1, StateFits
<1>3. process' = [process EXCEPT ![p] = Idle] /\ Idle \in ProcessStates
  BY DEF Write, Become, ProcessStates
<1>4. \A q \in Processes : process'[q] = IF q = p THEN Idle ELSE process[q]
  BY <1>3 DEF IInv, TypeOK
<1>5. /\ DOMAIN files' = DOMAIN files
      /\ \A n \in DOMAIN files : files'[n] = IF n = process[p].out THEN process[p].image ELSE files[n]
  BY DEF Write
<1>6. process' \in [Processes -> ProcessStates]
  BY <1>3, ProcessType DEF IInv
<1>7. TypeOK'
  BY <1>1, <1>2, <1>4, <1>5, <1>6 DEF IInv, TypeOK, Idle
<1>8. FilesInv'
  BY <1>1, <1>2, <1>5 DEF IInv, FilesInv
<1>9. SavingInv' /\ ReadingInv'
  BY <1>1, <1>4 DEF IInv, SavingInv, ReadingInv, Idle
<1>. QED BY <1>7, <1>8, <1>9 DEF IInv

\* What stops short of its end is no image's length.
LEMMA WriteShortInv ==
    ASSUME IInv, NEW p \in Processes, WriteShort(p)
    PROVE  IInv'
<1>1. process[p].pc = "write" /\ runs' = runs /\ completed' = completed
  BY DEF WriteShort
<1>2. /\ process[p] \in [pc : {"read", "truncate", "write"}, out : Names, image : Images]
      /\ Fit(process[p].out, process[p].image, completed)
  BY <1>1, StateFits
<1>3. process[p].out \in DOMAIN files /\ files[process[p].out] \in Images
  BY <1>1 DEF IInv, TypeOK
<1>4. PICK length \in files[process[p].out].length .. process[p].image.length - 1 :
         files' = [files EXCEPT ![process[p].out] = [process[p].image EXCEPT !.length = length]]
  BY DEF WriteShort
<1>. DEFINE short == [process[p].image EXCEPT !.length = length]
<1>5. short \in Images /\ ~Loads(short)
  BY <1>2, <1>3, <1>4, FilesAssumption DEF Images, Fit, Loads, Sections
<1>6. /\ DOMAIN files' = DOMAIN files
      /\ \A n \in DOMAIN files : files'[n] = IF n = process[p].out THEN short ELSE files[n]
  BY <1>4
<1>. HIDE DEF short
<1>7. process' = [process EXCEPT ![p] = Idle] /\ Idle \in ProcessStates
  BY DEF WriteShort, Become, ProcessStates
<1>8. \A q \in Processes : process'[q] = IF q = p THEN Idle ELSE process[q]
  BY <1>7 DEF IInv, TypeOK
<1>9. process' \in [Processes -> ProcessStates]
  BY <1>7, ProcessType DEF IInv
<1>10. TypeOK'
  BY <1>1, <1>5, <1>6, <1>8, <1>9 DEF IInv, TypeOK, Idle
<1>11. FilesInv'
  BY <1>1, <1>5, <1>6 DEF IInv, FilesInv
<1>12. SavingInv' /\ ReadingInv'
  BY <1>1, <1>8 DEF IInv, SavingInv, ReadingInv, Idle
<1>. QED BY <1>10, <1>11, <1>12 DEF IInv

\* What loads keeps its length when planned, and its plan's name counts one more.
LEMMA PlanInv ==
    ASSUME IInv, NEW p \in Processes, NEW name \in DOMAIN files, Plan(p, name)
    PROVE  IInv'
<1>1. /\ runs' \in 0 .. MaxRuns /\ runs <= runs' /\ files' = files /\ completed' = completed
      /\ completed' \subseteq 1 .. runs'
  BY FilesAssumption DEF IInv, TypeOK, Plan
<1>2. name \in Names /\ files[name] \in Images
  BY DEF IInv, TypeOK
<1>3. CASE UNCHANGED process
  <2>1. process \in [Processes -> ProcessStates]
    BY DEF IInv, TypeOK
  <2>2. process' = [process EXCEPT ![p] = process[p]] /\ process[p] \in ProcessStates
    BY <1>3, <2>1
  <2>3. process[p].pc = "idle"
    BY DEF Plan
  <2>. QED BY <1>1, <2>2, <2>3, FilesStay
<1>4. CASE /\ Loads(files[name])
           /\ Become(p, At("truncate", PlannedName(name), [files[name] EXCEPT !.plans = @ + 1]))
  <2>. DEFINE state == At("truncate", PlannedName(name), [files[name] EXCEPT !.plans = @ + 1])
  <2>1. state \in ProcessStates
    BY <1>2 DEF ProcessStates, At, PlannedName, Names, Images
  <2>2. Fit(name, files[name], completed)
    BY <1>4 DEF IInv, FilesInv
  <2>3. state.pc = "truncate" /\ Fit(state.out, state.image, completed')
    BY <1>1, <1>2, <2>2 DEF Fit, Loads, At, PlannedName, Names, Images
  <2>4. process' = [process EXCEPT ![p] = state]
    BY <1>4 DEF Become
  <2>. HIDE DEF state
  <2>. QED BY <1>1, <2>1, <2>3, <2>4, FilesStay
<1>. QED BY <1>3, <1>4 DEF Plan

LEMMA EndInv ==
    ASSUME IInv, NEW p \in Processes, End(p)
    PROVE  IInv'
<1>1. Idle \in ProcessStates /\ Idle.pc = "idle"
  BY DEF ProcessStates, Idle
<1>2. process' = [process EXCEPT ![p] = Idle] /\ UNCHANGED <<files, runs, completed>>
  BY DEF End, Become
<1>. QED BY <1>1, <1>2, FilesStay, CountsStay

LEMMA InitInv == Init => IInv
<1>. SUFFICES ASSUME Init PROVE IInv
  OBVIOUS
<1>1. \A p \in Processes : process[p] = Idle
  BY DEF Init
<1>2. TypeOK
  BY <1>1, FilesAssumption DEF Init, TypeOK, ProcessStates, Idle
<1>3. FilesInv /\ SavingInv /\ ReadingInv
  BY <1>1 DEF Init, Idle, FilesInv, SavingInv, ReadingInv
<1>. QED BY <1>2, <1>3 DEF IInv

LEMMA NextInv == IInv /\ [Next]_vars => IInv'
<1>. SUFFICES ASSUME IInv, [Next]_vars PROVE IInv'
  OBVIOUS
<1>1. ASSUME NEW p \in Processes, NEW log \in Logs, NEW section \in Sections,
             StartRead(p, log, section)
      PROVE  IInv'
  BY <1>1, StartReadInv
<1>2. ASSUME NEW p \in Processes, TakeChunk(p) \/ CompleteRead(p) \/ StopRead(p)
      PROVE  IInv'
  BY <1>2, TakeChunkInv, CompleteReadInv, StopReadInv
<1>3. ASSUME NEW p \in Processes, Truncate(p) \/ Write(p) \/ WriteShort(p) \/ End(p)
      PROVE  IInv'
  BY <1>3, TruncateInv, WriteInv, WriteShortInv, EndInv
<1>4. ASSUME NEW p \in Processes, NEW name \in DOMAIN files, Plan(p, name)
      PROVE  IInv'
  BY <1>4, PlanInv
<1>5. CASE UNCHANGED vars
  BY <1>5 DEF vars, IInv, TypeOK, FilesInv, SavingInv, ReadingInv
<1>. QED BY <1>1, <1>2, <1>3, <1>4, <1>5 DEF Next, Rest

LEMMA InvHolds == Spec => []IInv
BY InitInv, NextInv, PTL DEF Spec

-----------------------------------------------------------------------------

\* The directory and the programs keep their types, and a file being written
\* is there.
THEOREM TypeCorrect == Spec => []TypeOK
<1>1. IInv => TypeOK
  BY DEF IInv
<1>. QED BY <1>1, InvHolds, PTL

\* Whatever loads is the image of a config read that came to its end, or plans
\* made on one, whoever ended where (u2_plan.py 79, u2_summary.py 54).
THEOREM LoadedIsWhole == Spec => []WhatLoadsIsWhole
<1>1. IInv => WhatLoadsIsWhole
  BY DEF IInv, FilesInv, Fit, WhatLoadsIsWhole
<1>. QED BY <1>1, InvHolds, PTL

\* No plan goes into the file it was made from (u2_plan.py 192).
THEOREM NamesCountPlans == Spec => []NamedForItsPlans
<1>1. IInv => NamedForItsPlans
  BY DEF IInv, FilesInv, Fit, NamedForItsPlans
<1>. QED BY <1>1, InvHolds, PTL

\* An image is overwritten by another alone: a partial read has a name of its
\* own (read_config.py 174-185).
THEOREM ImagesReplaceImages == Spec => OnlyImagesReplaceImages
<1>. DEFINE Kept ==
        \A n \in DOMAIN files :
            (Loads(files[n]) /\ files'[n] # files[n]) =>
                \E p \in Processes :
                    process[p].pc # "idle" /\ process[p].out = n /\ Loads(process[p].image)
<1>1. ASSUME IInv, [Next]_vars PROVE Kept
  <2>. SUFFICES ASSUME NEW n \in DOMAIN files, Loads(files[n]), files'[n] # files[n]
                PROVE  \E p \in Processes :
                          process[p].pc # "idle" /\ process[p].out = n /\ Loads(process[p].image)
    OBVIOUS
  <2>1. PICK p \in Processes : Truncate(p) \/ Write(p) \/ WriteShort(p)
    BY <1>1 DEF Next, Rest, vars, StartRead, TakeChunk, CompleteRead, StopRead, Plan, End
  <2>2. process[p].pc \in {"truncate", "write"} /\ process[p].out = n
    BY <2>1 DEF Truncate, Write, WriteShort
  <2>3. Fit(n, files[n], completed) /\ Fit(process[p].out, process[p].image, completed)
    BY <1>1, <2>2 DEF IInv, FilesInv, SavingInv
  <2>4. Loads(process[p].image)
    BY <2>2, <2>3 DEF Fit
  <2>. QED BY <2>2, <2>4
<1>2. IInv /\ [Next]_vars => [Kept]_vars
  BY <1>1
<1>. QED BY <1>2, InvHolds, PTL DEF Spec, OnlyImagesReplaceImages

=============================================================================
