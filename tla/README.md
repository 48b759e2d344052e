# 8bitdo-Linux-Software, specified

TLA+ models of the tools in `tools/`, TLC runs that check them, and proofs of
what the runs show. The tools read the settings of 8BitDo pads over hidraw and
plan, without sending, what the vendor's software would write. What matters is
that a tool never sends what could change a pad, never talks to the wrong
device, and that a file it saves is what the pad held.

## 1. The system

| Part | Code | State | Operations |
| --- | --- | --- | --- |
| Chunked read | `read_config.py` `Session`, `chunked_read` | fd, transcript; `offset`, `stalls`, `tries`, `image` | `drain`, `exchange`, one try, the verdict |
| Saved files | `chunked_read` (172-188), `u2_plan.py` `load`, `main`, `u2_summary.py` `load` | `.bin`, `.partial.bin`, `.planned.bin` files | save, load, save a plan |
| Packets and allowlist | `packets.py`, `read_config.allowed` | none; `SWITCH_ARMED` | builders, parsers, CRC, `allowed` |
| Main | `read_config.main`, `config_family` | `SWITCH_ARMED`, `args` | open, plan the exchanges, switch, close |
| Selection | `identify.choose_pid`, `find_vendor_interface`, `descriptor_facts` | `LAST_PRODUCT`, `LAST_SELECTION` | walk sysfs, scan descriptors, choose an interface |
| `identify.py` as a program | `main`, `read_reply` | fd | search, two commands, the next report for each |
| Inventory | `inventory.py` | none | walk sysfs, `parse_descriptor`, list the devices |
| Image layout | `ultimate2_image.py` | tables | offsets, records, values, names of values |
| Write planner | `u2_plan.py` | `Plan`: original, image, chunks | one planner per setting, `plan_full`, `packets` |
| Image summary | `u2_summary.py` | none | `summarize` |
| Research scripts | `il/*.py` | none | one pass over disassembled files |
| udev rule | `udev/71-8bitdo.rules` | none | permissions |

A user first runs `inventory.py`, which lists what has a config channel, and then a
tool for a pad it listed. `read_config.py`'s `main` chooses a pad in sysfs with
`identify.py`'s functions, opens its hidraw node, and makes exchanges over it.
Each exchange passes its packet through `allowed`. `chunked_read` builds its
packets and takes the answers apart with `packets.py`. Its image goes to a file,
and from there to `u2_summary.py` and to `u2_plan.py`, which makes the packets of a
change with `packets.py` and the layout of `ultimate2_image.py` and saves the
changed image in a file beside it. Between tool and pad stand a kernel ring that
drops what does not fit, a USB or radio link, and a pad that answers when it
likes, may stream input reports on the same node, and may be pulled out at any
time. The tools have no threads: the concurrency is that of the tool with the
pad, the kernel, the user's hands, other programs in the same directory and,
through module globals, with earlier calls in the same process.

What is hard to test, with its lines, is the list of hazards in `PROJECT.json`.
What makes each part correct:

- the read: the file is the pad's section, named for what it holds; the read
  ends; it gives up only after failures in a row or with all its sends used; it wastes no send;
- the files: whatever a later tool accepts is a whole image, with as many plans in it
  as its name says, however programs overlap and wherever they end; no half-done
  read takes an image away;
- the packets: every read is allowed and no write is, in both frames; the pad
  takes the window that was meant; a damaged chunk is refused; both ways of joining
  answers join the same;
- main: only the pad named; each command, and each chunked read, only to a pad it is for,
  whatever earlier calls left in the globals; the reboot command only confirmed, alone, and armed for nothing else; sessions closed;
- selection and inventory: the inventory lists what there is; the scan of raw bytes
  misses nothing that the walk of the items finds; what one tool lists the other
  finds; the interface chosen is the config channel's, and the warning says whether it is;
- `identify.py`: what it explains as the reply to a command is that command's;
- the planner: the packets and the saved image say the same; nothing outside
  the record changes; the summary says what was planned; nothing it makes could be sent.

## 2. The modules

**`ReadSession`** is one call of `chunked_read`. `pc` is the tool's place: `head`
(the loop's test), `drain`, `send`, `wait` (in `exchange`'s loop), `save`, `done`,
`raised`. `offset`, `stalls`, `tries`, `image` are the code's; `saved` says which
file was written. `inq` is the kernel's ring, `flight` the requests not yet answered.
`faulted` and `row` are history variables: the answers that were lost, refused or not the
whole chunk, in the whole read and since bytes were last stored. Byte *i* of the pad's section is the number *i*, so an image is
right where a cell holds its own index. Actions of the tool: `BeginTry`,
`DrainOne`, `DrainEnds`, `Send`, `SkipInput`, `TakeNoBytes`, `TakeChunk`, `Timeout`, `Raise`,
`Save`. Of the world: `PadAnswers`, `LinkLoses`, `PadStreams`, `Unplug`,
`DeadlinePasses`. `Faults` selects what may go wrong: loss, answers after
their deadline, wrong lengths, refused replies, unplugging.

**`ChunkedCopy`** is what a read promises: bytes appended from the front, and at
most one file, at the end. `ReadSession` implements it under the mapping `Copy`.

**`SavedFiles`** is the directory the images are in, with several programs at work.
A read takes its chunks (`TakeChunk`) and saves under the name of its `--log` and section,
`.partial` if it stopped early (`CompleteRead`, `StopRead`); `u2_plan.py` loads any file that
has the length of an image and saves the plan under the name that
`with_suffix` makes (`Plan`). A save is what `write_bytes` does: `Truncate`, then `Write`, or `WriteShort` when the disk is
full: what another program wrote into the file meanwhile is room that is there, the image stops short
past it, and the program ends with the OSError. Any program may `End` at any of these places. An image is the read it comes from, the
number of plans made on it, and its length in chunks.

**`Packets`** has the reports byte for byte, the parsers and the allowlist, and `Crc16`
the checksum, a register being the set of its bits that are one. The code's loop over
the bytes is a recursive function, taken in blocks of 64 bytes so that TLC's
recursion stays shallow on an image. **`PacketWalk`** goes through a chunked read with the bytes:
request, the pad's report, what the parser takes. For the custom section it has
`assemble_custom_info` beside it (`joined`, `Join`), fed the same answers.

**`ReadConfig`** is `main`, several calls in one process. `attached` is the pad at
each port; a port is also its hidraw node, so another pad can take a node's name.
`Call` is argument parsing and `choose_pid`; `FindInterface` is `find_vendor_interface`
with the product strings it records; `Start` opens the session, edits `args.skip`
and arms the switch; `Send` and `Return` are an exchange; `Finish` and `Raise` both
end in the `finally` blocks (`Close`). A chunked read is one step that may repeat: its
inside is `ReadSession`'s; the search is one step on one interface: its inside is
`Identify`'s. `sent` has the packets of the call and the pads they reached. `recorded` is a history variable: the call
each entry of `LAST_PRODUCT` is from.

**`Sysfs`** is the tree both selection and inventory walk: places sorted by name, the
USB ones first, each with a device or none; a device is its id and its
interfaces, each with a descriptor (a byte sequence, empty when there is none)
and a hidraw node or none. `Move` plugs in, pulls out or exchanges a device.
**`Descriptors`** has the two readings of a descriptor: the scan of
`descriptor_facts` for the byte patterns `06 lo ff` and `85 id` (`ScannedPages`, `ScannedIds`), and the
items of `parse_descriptor` with their sizes, types and tags (`ItemsFrom`, `ValueAt`). `PadIds` has the
product ids.

What a descriptor *declares* (`DeclaresVendorPage`, `DeclaresChannel`) is said with item lengths
of their own (`Needed`, `Skipped`), taken from the HID specification, so that the walk's are compared with
something.

**`Inventory`** is `inventory.py`: `VisitDevice`, `ListInterfaces` (or `DeviceGone`, where a USB
device that has left raises and ends the program), `DescribeInterface`, then item by
item (`ParseItem`, `SkipLongItem`, `EndDescriptor`), `ListDevice`. `short` is a history variable, the pages and
ids found in items of the usual size, for which the scan looks.

**`Identify`** is `choose_pid` and `find_vendor_interface` as they go, device by device
(`SearchDevice`) and interface by interface (`SearchInterface`), so that the tree can change
between any two; `EndDevice` sorts a device's candidates and keeps the first with
its report ids (`LAST_SELECTION`); `EndSearch` wants exactly one match. `present` has the USB
directories that were there when the search began: one plugged in later is not walked, and one pulled out
between two looks at its files ends the program with an OSError (`SearchRaises`). Then
`identify.py`'s `main`: `Open`, `WriteCommand`, `ReadReply` or `ReplyTimesOut` for each of its two
commands, with the pad's answers, late or lost, and its own reports in a ring.

**`Survey`** composes the two on one tree: the inventory, then a search by either
tool, with `Moves` at the places a run's `Moving` names. It also names what is
usual of a device (`UsualDescriptors`, `NoPageByChance`), the hypotheses of section 4.

**`ImageLayout`** is the layout, records and values, with `MapLine`, the
summary's line of one profile's buttons, and `EntryNames`, which is
`map_entry_name`. **`WritePlan`** is one `Plan` and any sequence of planners on it. `held` is what a
pad would have in memory after taking the chunks as reports, with the write
handler docs/firmware.md describes (`PadTakes`).

`MC...` modules give constants for TLC; `...Proofs` modules have the theorems, and
`Iteration` the lemmas on induction they share.

## 3. The runs

| Run | Question | Bounds |
| --- | --- | --- |
| `read_faulty` | Is the file the pad's, rightly named, with no send wasted, and is the read a `ChunkedCopy`, under every fault but late answers? | 7 bytes in chunks of 2 (a short last chunk), overlong answers of 3, a ring of 2 that two input reports fill, 2 stalls, 3 spare sends |
| `read_late` | With late answers: no holes, nothing overwritten, and the read ends | 3 bytes, ring of 2, 1 input report ahead, 2 stalls, 1 spare send |
| `read_stale` (violated) | Is a complete image the pad's on a link with late answers? | 5 bytes, nothing else wrong |
| `packet_walk` | Are both reads right in bytes, and joined alike? | the real sizes (1592 and 560 bytes), one product of each frame and checksum, answers of none, 15, 45 or all the bytes left |
| `packet_echo` (violated) | Does the parser take the echo the document describes? | as above, 6012, no short answers |
| `config_calls` | Do globals and sessions survive two calls and pads that move, and is only the right pad spoken to? | one port, 7 kinds of pad, 12 argument lists, 2 calls, moves before, during the search and while it runs |
| `config_node` (violated) | Is an Ultimate 2 given by `--node` read? | one port, one call |
| `write_plan` | Do the packets, the image and the summary agree? | the real image, all records and profiles, 3 map assignments, 2 planners in sequence |
| `plan_summary` (violated) | Is an untouched map shown as one? | the image of a pad with its own keys |
| `survey_moved` (violated) | Do the commands go to no device the tool refuses? | one USB port with a dongle whose pad may be switched off once, one search |
| `survey` | Does the inventory list the tree, do inventory and search agree, is the config channel chosen, and are replies explained as theirs? | 2 USB ports and a Bluetooth place, 10 kinds of device, 6 searches, one change of the tree, a ring of 2 |
| `saved_files` | Is what loads whole, and named for what it is? | 2 processes, 4 programs, one log name, sections of 3 and 2 chunks |

The bounds of `ReadSession` are the smallest in which each case is there: a
last chunk that is short, an answer past the end, a ring full of input when the answer comes. In
`read_faulty` four chunks with three spare sends and two stalls keep the limits apart: two failures that stored
bytes separate are no stall, and a third and fourth use up the cap without one. Nothing in the code depends
on sizes beyond that, and what the safety runs check is also proved for all. Two calls are
enough for a global of one to meet the next (a record of the first call's pad met by a 310b given by
`--node` in the second is in the run); a third sees no value the second could not. `write_plan` has two planners because a record has two
neighbours: what the first leaves is seen by the second. `saved_files` needs two
programs at once for a save inside another's, and four in all for a read, a plan on it,
a plan on the plan, and a read again; its processes are symmetric, and no property
tells them apart. In `survey`, two ports are the fewest for two pads that both match, and the
Bluetooth place is the one whose descriptors are read another way; the
descriptors are those of docs/firmware.md and of `test_identify.py`, cut to what tells the two
readings apart, with a keyboard whose values look like items, an interface whose bytes look like the config
channel beside the one that is, long items that hide what looks like items, one of a length that would take
in the page behind it if it were read a byte too early, and an item cut short. One change is enough to separate any two reads of the
tree. Bounds that are not the code's own: `MaxCalls`, `MaxPlans`, `MaxMoves`, `MaxRuns`,
`Ring`, `QueueCap`, `StreamAhead`, and the count of `assemble_custom_info`'s answers, which
stops at 31 since it looks at 30.

**Fairness** (`FairSpec`, run `read_late` only). The tool's steps are weakly fair: a
process that can run does. So are the deadline and the link: time passes, and what is in
flight arrives or is lost. `DrainEnds` and `Timeout` are strongly fair, since each waits
for a `select` that finds the ring empty. The code has no bound there: a pad
that is faster than the tool for ever would hold it in `drain` or in `exchange`, past
the deadline. The assumption is that the tool reads faster than a pad
streams (milliseconds between reports), so a ring that is empty again and
again is once seen empty.

### Violated claims

1. `read_stale`: a reply after its deadline that misses the next drain is stored
   at the next offset. The parser never compares the offset the pad sends back,
   so the image is wrong and saved as complete. `SavedIsThePads` is
   checked and proved for timely links only.
2. `packet_echo`: docs/firmware.md says the reply echoes the length dword
   with the CRC it was sent. `parse_pro2_read_reply` wants the CRC of the
   chunk in the reply. One of the two is wrong; no capture settles which.
3. `config_node`: `--node` bypasses `find_vendor_interface`, which records the product
   string; a 310b is then not known to be an Ultimate 2, and only identified.
4. `survey_moved`: identify.py (9-10) refuses the idle dongle, and read_config.py (12-14) never opens one, by
   the ids in sysfs; the node is opened later. A dongle whose pad is switched off in between comes back as 301c
   at the same place and gets the commands.
5. `plan_summary`: `Menu` has no value of its own, so "all keys at their own
   value" is never printed.

Two more disagreements have no run. The docstring of `read_config.py` (16) says that on an Ultimate 2, `--pid
6012`, the class 05 commands are not sent; `main` sends both identify commands to every pad (266-268), and
`ReadConfig` follows the code. The docstring of `identify.py` (8-9) and README.md (105) also say that only a 310a with
page ff7a is opened; the code takes 301b too, and any vendor page, and so does `Identify`.

## 4. The proofs

Eight modules, the seven `...Proofs` and `Iteration`, are checked by TLAPS, for every
value of the constants under the named assumptions of the modules (`SizesAssumption`,
`LinkAssumption`, `LengthsAssumption`, `PadsAssumption`, `CallsAssumption`, `FilesAssumption`,
`PlacesAssumption`, `DevicesAssumption`, `SearchesAssumption`, `PlanAssumption`). What stands as a
hypothesis in a theorem that needs it: `Timely` (no late answers), `~Echoes` (the pad fills in the
dword of its answer), `Still` and `XInputOnUSB` of `ReadConfigProofs`, and `UsualDescriptors` and `NoPageByChance`
(all below). The checksum is no hypothesis: what is used of it is proved.

*Induction.* The library's induction theorems take an operator as a parameter and cannot
be instantiated here, but the least-element form of well-foundedness takes a set.
`Iteration` has what follows from it: a set of numbers has a least one (`LeastNat`), one
that has 0 and each successor has them all (`UpTo`), and the iteration of any steps exists
(`Iterates`). A recursive function is a `CHOOSE` of one that satisfies its
equation, so the proofs first show that there is one, value by value, and then may use the equation: for
the checksum's register, for the ends of the struct's members, and for `ItemsFrom`, whose recursion
goes by how much of the data is left.

*The read.* `TypeCorrect` needs one fact beyond the types, `LoopGoesOn`: inside a
try the offset is below the total and the cap was not passed, so the stored window
starts inside the image. `NoHoles`, `NeverOverwrites` and `NamedForWhatItHolds` follow, for all
faults: a chunk is stored from the offset on and nowhere else, and `saved` is decided by
the offset (`VerdictFits`). That the bytes are the pad's needs a timely link:
`TimelyInv` adds `AnswersStayInside` (in `wait` the request for the current offset is in flight or
at most its answer in the ring, never both nor another; elsewhere neither) and `PrefixIsThePads`. The
first is what a late answer breaks. `OnlyFailuresEndIt` and `SendsAreAccountedFor` rest on an
account (`AccountInv`): every send but the faulted ones has brought a whole chunk, and a
try that has come to nothing (`Failed`) was counted as a fault, in all and in its row, before it is counted as a
stall. So the stalls never exceed the row, and a read that stops short without a row of them has used
its cap on more faults than are spare.
`ReadCopiesFromTheFront` is the refinement: initial states map to
initial states, `TakeChunk` maps to `Grow`, `Save` to `Publish`, `Raise` to `Abandon`, the rest stutter.

*The allowlist.* `AllowedIsReadOnly` is about every 64-byte report there is, not only
those a builder makes: what passes unarmed is in neither frame a write or a commit,
and none of the state-changing packets that `test_read_config.py` lists. `WritesAreNeverAllowed` is
about the builders: no write chunk of any window and no commit, in either frame, passes, armed or
not. `ReadsAreAllowed` is the other direction, for every window and frame.

*The checksum.* `CrcTellsOneByte`: of
two sequences of one length that differ in one byte, anywhere, it is different. A shift
loses no information (bit 15 is set if and only if the polynomial was added), so a step tells registers
apart and, from one register, bytes apart: what differs once stays different to the
end. By that, `OneByteIsRefused` is about every report there is, not only
those of the model's pad: if `parse_pro2_read_reply` takes it with its checksum, then it refuses it with any one byte of
data or checksum changed to any other. `WalkCorruptionIsRefused` is what the run checks of it. Two
bytes that change can cancel out, and nothing is claimed of them.

*The walk.* Its invariant says what the two packets are: the one before the pad is the
request of this very offset, the one before the parser the answer to it. From that,
by `SectionIsRead` (the bytes a frame puts at a header are the ones the pad reads there)
and its like for answers, follow `WalkReadsTheWindow`, `WalkAnswersAreTheSection` (for a
pad that does not echo), and, with `JoinInv` (until the 30th answer what is joined is what the read has
stored, and after it no more than that), `WalkJoinsLikeTheRead`.

*The plan.* `PlanIsHeld` is by `HeldInv`: inside a full save the pad holds the image below the
offset the save has come to, and everywhere else at all times; each write chunk, read back by the pad, is the data
at its offset. So it holds for every image, assignment and number of planners.
`PlanIsNeverSent` is `WritesAreNeverAllowed` for every chunk there can be. `PlanIsInside` compares two
layouts: the offsets the planners use, and the struct of spec/protocol.md, whose
members' ends are a recursive sum. `PlanShowsTheMap` is by `MapInv`: while `plan_map` runs, the keys done
hold their targets' values, for the entries of two keys lie apart (`EntriesLieApart`), an entry
written is read back (`DwordPut`), and a value that `u2_plan.py` writes is that of a name which
`map_entry_name` then finds (`EntryIsNamed`).

*Main.* `SwitchInv` (armed only between arming and close, steps of a switch
call are the switch alone), `SpokeInv`, `PlanInv` and `FoundInv` are inductive; the last
says what was found is still at the node, the recorded string is its own, and the steps
are those of the pad's family. It needs `Still`: no pad changes between find and open
(`"open" \notin Moves`), the window between `find_vendor_interface` and `os.open`, which the code cannot
close: with moves there, `NamedPadOnly` fails, as `survey_moved` shows of `identify.py`. `config_calls` makes the
same assumption. `ReadsFit` is not only about pads that were found. It says in which two ways a chunked read
comes to a pad that is no Ultimate 2 (`MistakenFor`): `--node` under an Ultimate 2's own id, which the
code has no means to compare, and a 310b given by `--node` or found over Bluetooth, whose product string is
never read, at a node of which an earlier call has left an entry (`StaleRecord`, by `DatedInv`). In every other
case, earlier calls or not, what is read is an Ultimate 2, in its frame. `UltimateTwosAreRead` is
the other direction for pads that are found; it needs `XInputOnUSB`, that 310b pads are on USB, as
the device table shows them, for over Bluetooth none has a product string.

*The files.* `IInv` says of every file that loads, and of every image on its way to the disk,
that it fits its name (`Fit`: a complete read of the config section, with as many
plans as the name counts; and what would load is never on its way to a `.partial` name,
nor what would not to another of that section), and of a read that its image and its name are its own. An empty,
half-read or half-written file does not load, which is why a program that ends between
`Truncate` and `Write`, or finds the disk full, does no harm to a reader. `OnlyImagesReplaceImages` is an action
property of the same invariant: a file that loads is truncated only by one that brings
an image, so it is the one window in which an image can be lost.

*The survey.* `IInv` joins the invariants of tree, inventory and search. `ScanIsComplete`
is that every item the walk comes to lies in the bytes as the scan looks for
it: a usage page of two bytes has the prefix 06, a vendor page the second byte ff, a report id
of one byte the prefix 85. It holds for every sequence of bytes and every
interleaving. `RepliesAreExplained` is by `ReplyInv`: with a quiet pad one command is out at
most, and its answer is the only report there can be, because `main` stops at the
first that is not there in time.

`TreeIsListed` needs no hypothesis. Its invariant `WalkedInv` has three levels: within a
descriptor, what its items declare was found or is still ahead (`ParsedInv`, by the equation of `ItemsFrom`);
within a device, it is a candidate so far if an interface described makes it one (`DescribedInv`);
between devices, those visited are listed (`ListedInv`).

The search has the same three levels in `SearchedInv`: while the tree stays, `candidates` are those of the
interfaces looked at, and `matches` those of the devices searched, none of which ended the program.
The sort puts one candidate first (`FirstCandidate`, by the least rank, page and interface), so a device has one match at
most, and one that the scan takes for the config channel if there is any (`MatchFacts`). From that
to what the *items* declare it takes `UsualDescriptors`: the scan looks for a vendor page in two
bytes and an id in one. As identify.py (89-92) says of itself, the scan may also find too much, and this is
part of the properties and no hypothesis: `ChannelPreferred` and `WarnsOfNoChannel` say that the
interface opened declares the channel or has the bytes `85 02` and `85 81` by chance (`ChannelByChance`), that it is never
another when the channel is there, and that a warning is never false. In `survey` a device
has both such interfaces, and the one by chance is opened, with no warning. `ListedFoundAgain` also needs
`NoPageByChance`: no device without a vendor page looks to the scan as if it had one, or two devices would
match where the inventory lists one candidate. The descriptors in the documents are usual in this sense, and
so are those of the run: `DevicesAreUsual` in `MCSurvey` has TLC evaluate both. The keyboard among them, which
scans as a vendor page, is on a device that has one.

Only model-checked: `ReadEnds`, which is liveness under fairness.

## 5. Not modelled

- The text that is printed: `explain`, `describe`, the summary's header, profile names,
  records and CRC candidates, the inventory's names, serials and buses; transcripts, which nothing reads back.
- `--out` of `u2_plan.py`: the user may name any file, and overwrite it.
- Usage pages in items of four bytes: the inventory counts them, the scan
  does not look for them; no document shows a pad that has one.
- The macro, six-axis, `x_rumble`, feature and `getKey` tables and builders, which no planner
  uses, and `custom_info_requests`, which no tool calls.
- A section that changes while it is read: thirty-six requests read one image, and nothing in the
  code could notice.
- The moment between `choose_pid`'s walk and the search's: ids and USB directories are listed in one
  step (`StartSearch`), and what changes after it is seen by the rest of the search.
- Argument errors that end a program before it has done anything.
- The `il/*.py` scripts, one pass over text with no state, and the udev rule, whose
  absence is the `PermissionError` that opening a node may raise.

## 6. Plan

1. A refinement of the whole search: `ReadConfig`'s one-step `FindInterface` as the abstraction of
   `Identify`'s steps in a tree that stays, now that `SearchedInv` is proved.
2. An abstract specification of the directory of images (a file appears whole or not
   at all) that `SavedFiles` implements but for the truncation window.
3. The builders of macro and six-axis records, when a planner uses them.
4. A section that changes between two chunks, when the tool has a way to notice.
