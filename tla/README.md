# FM-1 firmware update: specifications, model checks and proofs

This directory holds TLA+ specifications of the programs in this repository,
the TLC configurations that check them on small instances, and TLAPS proofs of
theorems about them. The repository is a reverse-engineering notebook: most of
it is generated listings. The programs with state, order and failure in them
are the ones that update the FM-1's firmware: the client under `tools/`, the
loader in the device, and the vendor's client M-UPGRADE. The scripts that draw
a map of the firmware are modelled by what they compute and by the files they
hand to each other.

## 1. Inventory

### Components

| Component | Source | State it keeps | Operations | Modelled |
|---|---|---|---|---|
| Update session | `tools/fm1_ota.py` (`cmd_flash`, `cmd_serve`, `serve_requests`, `handshake`, `MidiLink`) | which connection (stage) is served, the link, attempts left, seconds since the last request, the last identity block, what each stage ended with | find, open, drain, query, receive, compare, send, exit | `FlashClient` |
| Frame codec, package reader | `tools/fm1_ota.py` (`pack7`, `unpack7`, `build_response`, `parse_request`, `parse_fwsc`, `fwsc_logical`) | none | build, parse, check bounds | `OtaWire`, `Frames`, in part |
| ALSA transport | `tools/alsalib.py` | the kernel's queue, the events libasound already took, the parser's SysEx buffer | `send`, `recv_sysex` | in `FlashClient`, in part |
| Sequencer client | `tools/alsaseq.py`, `find_midi_port` | query buffers of the search; bytes read and not parsed | `find_port` over ioctls, `send`, `recv` | `SeqClient`, in part |
| OTA loader: dispatcher, reads, finish gate | `analysis/device/ota-loader/usb_hid_ota_objdump.txt` (0x0FA2, 0x1362, 0x13EA, 0x1D84, 0x1E70 and the stages they call), `finish-gates.md` | session flag, wait flag, pending read (address, length, destination), page buffer, selection, tries, flash, update record | handle a frame, run a stage, request a read, erase, program, verify, finalize, restart | `OtaLoader` |
| Start-up and restart of the loader | same listing (0x157A, 0x15DC) | which program runs | boot, restart | in `UpdateSystem`, in part |
| Application's side | no program under `src/`; `docs/io/11-ota-protocol.md` | how far its own pull of the package is | identify, refuse, pull, ask, reset | external, in `UpdateSystem` |
| M-UPGRADE: window, probes, upgrade worker | `analysis/host-updater/ota_worker_decomp.c` | connections with reference counts, the flag "in progress", the mode of the next worker, a thread per probe, the worker's place | probe with time limit, start, send, read, reply, signal | `HostUpdater`, `HostSystem`, in part |
| M-UPGRADE: preset update | same listing (`FUN_14000e2e0`) | sectors erased, outcome | erase by sector, write, report | `PresetUpdate` |
| Reflash record verifier | `tools/verify_reflash_record.py` | none | expand a record, check its frames and bounds | `Frames`, in part |
| Loader and image extraction | `scripts/extract_ota_loader.py`, `scripts/extract_binary_strings.py` | none | parse containers, LZ4, find strings | `LoaderImage`, `FunctionMap`, in part |
| Analysis scripts: computations | `scripts/build_db.py`, `build_funcdb.py`, `build_master_index.py`, `build_slices.py`, `export_shards.py`, `harvest_entries.py`, `resolve_strings.py`, `aggregate_classify.py` | none | entries, owners, references, components, tables, shards, locality | `FunctionMap`, `MapResults`, in part |
| Analysis scripts: the two chains | the same and `match_libs.py`, `mech_tag.py`, `aggregate.py`, `disasm_toolchain_libs.sh` | the files handed from script to script | build, match, tag, aggregate, in any order, interrupted anywhere | `Pipeline` |
| Boot code, application listings | `analysis/device/**` | – | generated listings, notes | no |

### How they interact

`flash` makes three connections one after the other: to the running
application, to whatever comes back from its reset (the OTA loader), and to the
firmware that was installed. A connection is a sequencer subscription; frames
wait in the kernel's queue and then in libasound's own buffer. On the first two
connections the client sends the update command and then only answers: the
device pulls the package with read requests and ends with a request for
0xE0000000 (verified) or 0xF0000000 (finished), which the client answers with
`success`. Inside the loader the USB handler runs the dispatcher between any two
steps of the session loop; the loop and the dispatcher share the wait flag, the
pending read and the page buffer, without a lock. Between the connections the
device leaves the bus, resets, and comes back in another mode, at its own pace.
Flash and the update record are the only state that outlives a reset.

The port itself is found by asking the kernel for one client after another
while clients come and go. A `read()` of the sequencer delivers whole events,
each padded by the kernel to cells of 28 bytes, where `alsaseq.py` expects the
padding to 4 that it writes itself.

M-UPGRADE's window owns one connection. A probe lends it to a detached thread
and waits for a limited time; after that the window makes itself another
connection and the thread keeps the first. The workers of an upgrade and of a
preset update have plain pointers to the connection they were started with.
Nothing locks a connection; what keeps the parties apart is the replacement,
the reference counts and the flag "in progress".

The scripts share files. `build_db`, `match_libs`, `mech_tag` and `aggregate`
read `db.json`, add to it and write it back in place; `build_funcdb`,
`match_libs`, `build_master_index` and `aggregate_classify` each write a file
of their own (`README.md:65`-`83`). Nothing records from which inputs a file
was made.

### What is hard about it

* **No retransmission and no time limit on the device.** `0x0FA2` spins until a
  response comes; the client waits for requests. A lost frame stops both, and a
  frame that `select()` does not see is as good as lost.
* **Late answers.** The handshake query is repeated, so a slow device answers
  twice; a reply that does not fit the pending read still ends it.
* **One bank.** The running image is erased before the new one is programmed; a
  power cut, or a restart too early, leaves nothing to boot.
* **The same words for different things.** Verification and finish are the same
  exchange on different connections; an identity block means different things
  before, during and after.
* **Retry loops on both sides.** The gate runs again after any failure; the
  finish request is made up to four times; a user runs the program again while
  the first session is still alive in the device.
* **Waits.** Each wait of the client needs a limit that really is one.
* **A time limit that cancels nothing.** M-UPGRADE's probe goes on after its
  caller gave up, and its result is read twice after the limit.
* **Registries that change under a walk.** Name and port of a sequencer client
  are two ioctls; the number may belong to another client in between.
* **Files changed in place.** A script that is interrupted leaves `db.json` cut
  off; a script that runs twice adds to what it did before.
* **Arithmetic at an edge.** Septets that are full or not, a file that ends with
  a sector, LZ4 lengths that end exactly at 255, entries before the first and
  behind the last function.

### What makes each component correct

| Component | Property |
|---|---|
| client | every data frame carries exactly the bytes asked for (`RepliesExact`); exit code 0 stands on both exchanges, each on its own connection, and on the package's identity afterwards (`OkNeedsEvidence`); every run ends (`Termination`) |
| loader | finish is asked only with the package in flash (`FinishMeansWritten`); the head goes last (`HeadLast`); a reply to another read is never taken (`AnsweredByItsReply`); a failed gate keeps the session (`FailedGateRetries`) |
| system | the exit code says what is true of flash (`KeepsPromise`); no restart into a torn image (`NeverDead`); both sides never wait for each other (`NoMutualWait`); a run ends (`RunEnds`); another model is left alone (`OtherModelLeftAlone`) |
| sequencer client | an FM-1 that was there all the time is not missed (`NotMissed`); the number found had the name (`FoundHadTheName`); the search ends (`SearchEnds`); whatever a read delivers, events are returned whole up to the first whose padding `recv` does not expect (`Reassembled`) |
| M-UPGRADE | one upgrade at a time (`OneUpgrade`); a late probe reaches nobody (`LateProbeHarmless`); replies go to the device that asked (`RepliesToAsker`); the worker tells how it ended, unless it was started in a mode that a failed upgrade left (`WorkerReports`); "done" is true of the presets (`PresetOutcomeIsTrue`) and costs no other sector (`PresetOwnSectors`) |
| codec, verifier, extraction | what the client builds the verifier accepts (`ResponseAccepted`); a damaged request is not another request (`DamageNoticed`); a record passes exactly if it could have been served and asks for no empty read (`RecordServable`); the loader is the image its blocks spell (`Decompressed`) |
| scripts: computations | calls are seen from both ends and both scripts agree on whose they are (`CallsAgree`); components are what calls hold together (`ComponentsWhole`); strings are whole (`StringsWhole`); no address is near two tables (`TablesApart`); every function reaches a reviewer (`EveryFunctionShown`); a guess is not handed on (`LocalityInReach`) |
| scripts: chains | a chain run in order follows its inputs (`RunFollowsInputs`); a review is not overwritten by evidence (`ReviewKept`) |

`PROJECT.json` lists the hazards these are for, each at its line.

## 2. Modules

    OtaWire                      frames and what the two ends branch on
    ├── OtaLoader                the loader, against any client
    │   ├── OtaLoaderProofs      theorems
    │   └── MCOtaLoader
    ├── FlashClient              flash and serve, open to any device
    │   └── FlashClientAlone     ... against a device that may do anything
    │       ├── FlashClientProofs
    │       └── MCFlashClient
    └── UpdateSystem             FlashClient + OtaLoader + application + bus
        ├── (INSTANCE) FlashClient, OtaLoader, PackageUpdate
        ├── UpdateProofs         theorems, and that it implements PackageUpdate
        └── MCUpdateSystem
    PackageUpdate                abstract: what `flash` promises
    HostUpdater                  M-UPGRADE's window, probes, upgrade worker
    PresetUpdate                 its preset worker
    └── HostSystem               HostUpdater + (INSTANCE) PresetUpdate
        ├── HostProofs           theorems
        └── MCHostSystem
    SeqClient                    the sequencer client
    ├── SeqClientProofs          theorems
    └── MCSeqClient
    Bits                         numbers and their digits
    ├── Frames                   the codec, the verifier
    │   └── ByteResults          ... with LoaderImage, and what they should do
    │       └── ByteProofs       theorems (with DataProofs)
    ├── DataProofs               lemmas: induction, folds, digits, sequences
    └── LoaderImage              the container and its decompression
    FunctionMap                  algorithms on listings
    ├── MapResults               ... and what they should compute
    └── Pipeline                 the scripts as steps on shared files
        ├── PipelineProofs       theorems (with MapResults and DataProofs)
        └── MCPipeline
    Results                      the state of one computation: input, result
    └── MapResults, ByteResults
        └── MCAlgorithms         both, on families of inputs

`UpdateSystem` takes every step of `FlashClient` and of `OtaLoader` by INSTANCE,
so the composite, the runs of the parts and the proofs speak of the same
definitions.

**OtaWire.** The unit of addresses and lengths is the 512-byte block that the
loader programs at a time. A payload is the set of image offsets it carries:
"the right bytes" is equality. Python's slice that shortens at the end of the
image is `Slice`; the refusals of `serve_requests` and `build_response` are
`OutOfBounds` and `Buildable`. The 8-to-7 packing, checksums and layout are
abstracted to "a well-formed frame of this kind" and `Malformed`.

**FlashClient.** One step receives one frame (or finds none) and does all that
follows up to the next wait. `pc` is the place in `cmd_flash`/`cmd_serve`:
`find` (`find_rawmidi`, `wait_device*`), `open` (`MidiLink`), `drain`, `query`
and `await` (`handshake`), `check` (the identity tests), `upgrade`, `serve`
(`serve_requests`), `served` (the test of `fin`), `exit`. `rx` is what has
arrived, `held` how much of it libasound has already taken from the kernel:
`select()` in `recv_sysex` sees the rest only. A write to a device that is gone
raises or is swallowed, either way. `FlashClientAlone` adds a device that sends
any frame at any time, vanishes, and shows up in any mode.

**OtaLoader.** `lpc` is the stage of the session loop. A stage reads through
`StartRead` (0x0FA2), which arms the read and queues the request; a later step
is enabled only when the wait flag is clear. `Dispatch` handles one frame of
the client at any time in between. The block loop of 0x4536 is `ProgramRead`
and `Store`, from the top of the region down, the erase is `Erase`, the
read-back of 0x47C0 is `Verify`/`VerifyFails`. A stage may return any status of
`Statuses` (`CheckFails`, `FinalizeFails`); `Fail` is what the gate and the
loop make of it. 0x3F14 stores its plan at 0x1C102AC, and the gate goes on to
0x4536 only when there is one, so the early return of 0x47C0 on an empty plan
is not reached from the full path.

**UpdateSystem.** Adds the application, `Leave` and `Boot` (resets), `PowerCut`,
`Lose` (a queue overrun or a lost frame), `Unheard` (nobody is subscribed) and
`Again` (the user runs the program once more, against whatever the device is in).

**PackageUpdate.** The abstract specification: the installed image is old, torn
or new; a verdict may say "ok" only over "new" and "was not flashed" only when
flash is what the run found when it found the device (`Find`). `KeepsPromise`
instantiates it with a refinement mapping from flash content and exit codes.
"When it found the device" and not "when it was started" matters: a loader that
an earlier run commanded may still be programming then, and finish before the
next run sees the application. With two power cuts TLC shows such a run, which
ends with "image was not flashed" over an image that is newer than its start.

**HostUpdater.** `link` is the port each connection has open, `current` the
window's connection. `window` is the place in `FUN_1400123a0` and
`FUN_140011b50`: `polling` is the wait for a probe, `recheck` lies between the
two reads of its result after the limit, `found` before the flag is looked at.
A connection is alive while the window or a thread refers to it; the worker's
pointer does not count. `thread[t]` is the detached thread of probe t, which
opens the port and asks for the identity. `worker` is the upgrade worker, from
the command to the last reply; `signals` is what the window has not handled.
An identity without an underscore leaves the stored model as it was, as in
the listing. `mode` is the window's field 0xa0, from which a worker is started:
2 is stored before the flag is looked at (`FoundOta`), only the completion of a
second step clears it (`Completed`), and the start of a first step, which the
listing does not show, either sets it or takes what is there (`UserStart`). What
the listing does not show is external: who asks for a probe, the start of the
first step (`FUN_140014150`), the slots other than that of completion.

**PresetUpdate.** One action per command: `EraseSector`, `EraseFails` (with or
without effect), `Write`, `WriteFails` (programs a part of the file). A sector
is `torn` when it was programmed without having been erased.

**HostSystem.** Both, on one set of connections: the preset worker is `linked`
while its connection is alive and open, and a probe may end that at any time
unless `quiet` says that nobody probes during an upgrade.

**SeqClient.** The search makes one ioctl per step (`AskClient`, `AskPort`)
over a `registry` that `Replug` changes; `seen` and `steady` are history. The
receiver is given events as the kernel writes them (`Wire`: header, data, and
`CellPadding` up to whole headers), as many as a read delivers, parses them
(`Parse`, the loop of `recv`, which removes `Padding`) and keeps the rest for
the next call. The two paddings are the same for some lengths only. After an
event for which they are not, `recv` takes padding, kernel pointers and later
events for headers: the buffer is `OutOfStep`. What `recv` makes of such bytes
depends on kernel memory, so from there on the model lets a read append
anything (`Strays`) once there are enough bytes for a header, and no longer
says which of them stay in `rbuf`.

**Bits, Frames, LoaderImage, FunctionMap.** Operators with the names of the
Python functions. A byte has `ByteBits` bits and a septet `SeptetBits`, so that
the same arithmetic runs with small numbers. `Bits` holds what `pack7` and
`unpack7` share: the loop that regroups bits, and the number that digits spell.
`LoaderImage` takes the CRC as a parameter; a Python `while` loop that takes a
byte per turn at least is a fold with as many turns as there are bytes. `FunctionMap` takes a listing as a set of instructions; a loop over
a sequence is a fold of one step (`Line`, `Visit`, `Scan`, `Joined`, `Infer`),
the binary search of `build_db.py` is a recursive function on its two bounds.

**Results, ByteResults, MapResults.** An input is picked, one step stores what
the algorithm makes of it (`Results`). `ByteResults` does so with `Frames` and
`LoaderImage`, `MapResults` with `FunctionMap`; the run `algorithms` takes the
inputs of both. The properties say what the result should be, without the
algorithms: the fields of the request that was sent, the image that literals
and repetitions spell (`Spells`), the last function before an address, the
longest runs, the links from pointer to pointer, the nearest classified
neighbour. `ByteResults` also has the writer of containers (`EncodedBlock`),
which is not in the repository: it says which cells a container with these
operations has.

**Pipeline.** Each script is an action on the contents of the files it reads
and writes; a file is `Unreadable` when it is missing or a write was cut off.
`stage` and `stage2` are history: how far each chain has been run in its order
on the inputs there are. `NewListing`, `DisasmLibs`, `Review` and `Journal`
change the inputs.

## 3. Runs

| Run | Question | Result |
|---|---|---|
| `loader` | Does the loader keep its promises whatever frames come, whatever stage fails, for any number of gates? | pass: `TypeOK`, `FinishMeansWritten`, `HeadLast`, `StageInv`, `AnsweredByItsReply`, `FailedGateRetries` |
| `client` | Does the client, whatever the device does? | pass: `TypeOK`, `RepliesExact`, `OkNeedsEvidence`, `Termination` |
| `update` | Do the two together, with the application, a lost frame, two power cuts, two runs? | pass: `NeverDead`, `NoMutualWait`, `KeepsPromise`, `RunEnds` |
| `other_model` | Does `flash` leave a device of another model alone? | pass: `OtherModelLeftAlone` |
| `host` | M-UPGRADE: do probes, upgrade and preset update keep apart, with devices that come and go? | pass: `SystemTypeOK`, `OneUpgrade`, `LateProbeHarmless`, `RepliesToAsker`, `PresetOutcomeIsTrue`, `PresetOwnSectors`, `WorkerReports` (729,631 states) |
| `seq` | Does the search find what is there, and what does `recv` give back of the events that the kernel writes? | pass: `SeqTypeOK`, `NotMissed`, `FoundHadTheName`, `Reassembled`, `SearchEnds` (393,928 states) |
| `algorithms` | Do the pure algorithms compute what they should, on every input of a family? | pass: `ResponseAccepted`, `DamageNoticed`, `RecordServable`, `Decompressed`, `CallsAgree`, `ComponentsWhole`, `StringsWhole`, `TablesApart`, `EveryFunctionShown`, `LocalityInReach` (107,638 states) |
| `pipeline` | Does a chain of scripts leave what its inputs say, whatever happened before? | pass: `PipelineTypeOK`, `RunFollowsInputs`, `ReviewKept` (737,928 states) |
| `loader_order` | Is the bulk data written ascending, as `docs/io/11-ota-protocol.md:44` says? | violated: descending |
| `client_idle` | Is a step over after `REQ_TIMEOUT` seconds without requests, as `fm1_ota.py:49` says? | violated: other SysEx frames keep it open |
| `serve_other_model` | Does "the client" validate the device's identity (`tools/README.md:19`)? | violated: `serve` does not |
| `buffered_request` | Are requests answered "until they stop" (`fm1_ota.py:287`)? | violated: one that came in with another frame is not seen |

`buffered_request` in words: the query is repeated after a second, so a slow
application answers twice. The second identity block and the first request
reach the kernel's queue together; reading the first of them moves both into
libasound. From then on `select()` reports nothing, the device waits for its
answer and sends no more, and `serve_requests` gives up with the request in
memory.

### Bounds

* Images of three blocks (`loader`) and two (`client`, `update`): with three
  there is a block that is neither head nor top, so every order of programming
  and every position of a stale page occurs.
* `MaxReads` (1): header and directory reads of each stage. Their content does
  not matter to the model; one is enough to have a late reply from an earlier
  stage meet a read of the next.
* `MaxRx` (2): frames not yet taken. Two are needed for a frame to be swallowed
  into libasound behind another one.
* `MaxFrames` (5, `client`): a run of `flash` that ends with "ok" needs five
  frames (three identities, two terminal requests).
* `MaxIdle`, `StopAfter`, `ServeStop`, `WaitMax`, `Attempts`: seconds and polls
  are counted, not measured; the values 1 and 2 keep the time limits of the
  stages apart.
* `MaxRuns` (2), `MaxLoss` (1), `MaxCuts` (1; 2 in `update`): one fault of each
  kind, and one run after it; the second power cut lets a run meet a device that
  was torn by the run before, completed its update alone and was reset again.
  The gate itself is not bounded in any run.
* `Statuses` (`loader`): one fatal status and the ones the stages of the listing
  return (11, 14, 19, 20); 13 is the one the plan lets through. `update` keeps a
  fatal and another one (11, 20).
* `host`: two ports with different devices; two probes (`MaxProbes`), so that
  one can be late while another is waited for; one device moves and makes one
  request (`MaxMoves`, `MaxRequests`). Sectors of two bytes and files of two
  and three: one ends with a sector, one inside; the region of three sectors
  has one that no file touches. One preset update (`MaxUpdates`); that an
  earlier one may have left anything behind is covered by the proof, which
  assumes nothing of the region.
* `seq`: three client numbers and two names, for an earlier name at a later
  number; four looks of a client, with and without name and ports. Streams of
  three events of each kind, with a header of four bytes, which the kernel pads
  to, units of two, which `recv` expects (28 and 4 in the code), and data of
  zero to four bytes: for zero, three and four the two paddings are the same,
  for one and two they are not. An event of either sort comes before, between
  and after the others; reads of one to three events; out of step, a read may
  append nothing or something.
* `algorithms`: bytes of three bits and septets of two (the ratio is not whole,
  as with eight and seven); numbers of two bytes, payloads up to one more than
  fits. LZ4 in base 2 (lengths go on after 1 in the token and 3 in a byte),
  with one and two blocks, offsets that overlap, reach back into the first
  block or before the image.
* `algorithms`, listings: four instructions, each a call, a branch or a load, with
  calls before the entry, behind the code and into RAM; up to eight bytes for
  strings of two or more; six words of which any may be pointers; ten addresses
  for shards, with raw shards that meet, overlap or are missing; six functions
  among eight addresses for locality. The proofs have no bound.
* `pipeline`: two functions, of which one has no signature in one listing; three
  libraries, two of them the baseline, with a name that two files have and a
  signature that two names have; two changes of the inputs (`MaxEdits`). Runs
  of scripts are not bounded.

Deadlock is checked in the runs `loader`, `client` and `pipeline`. The others
say `CHECK_DEADLOCK FALSE`: a program that has exited, a device whose loader
spins, a computation that is done, or a window in which nobody clicks is a
state in which the system does stop.

### Fairness

There is weak fairness of the steps of one thread in each run with a liveness
property, and nothing else.

* The update client (`WF_vars(Step)`, `WF_vars(Run)`): it is one thread, it never waits for
  anything without a limit, and the operating system keeps running it. A step
  that finds nothing within `select()`'s timeout is such a step, so the client
  needs nobody else.
* M-UPGRADE's upgrade worker (`WF(WorkerStep)`): its reads have a limit of
  8000 ms, and `ReadFails` is what it does then.
* The search for a port (`WF(SearchStep)`): a loop of ioctls, none of which
  waits.

Nothing is asked of the device, the bus, the probes' threads or the user.

`Termination` holds against a device that sends finitely many frames
(`MaxFrames`); `client_idle` shows what one that never stops does. `RunEnds`
assumes that the gate is entered finitely often. That is no bound in the code:
a gate that fails every time runs again for ever, reads the package each time,
and each read restarts the client's idle clock. Without the premise TLC shows
that endless session.

## 4. Proofs

`OtaLoaderProofs`, `FlashClientProofs`, `UpdateProofs`, `HostProofs`,
`SeqClientProofs`, `PipelineProofs` and `ByteProofs`, and the lemmas that the
last two share, `DataProofs`, are checked by `tlapm` for every value of the
constants that the named assumptions allow (`WireAssumption`,
`LoaderAssumption`, `ClientAssumption`, `DeviceAssumption`, `SystemAssumption`,
`HostAssumption`, `PresetAssumption`, `SeqAssumption`, `RecvAssumption`,
`FramesAssumption`,
`LoaderImageAssumption`, `ByteAssumption`, `FunctionMapAssumption`,
`MapAssumption`, `PipelineAssumption`; TLC evaluates them in the runs). Every
invariant and every property of steps that a run checks is stated by a theorem.

**Loader.** `FinishMeansWritten` and `HeadLast` are not inductive: that
everything is written when the finish request is made follows from the
read-back before it, and that the head is last follows from where the
programming loop is. `StageInv` says what holds at each stage: while
programming, blocks at and above `cursor` have been stored and those below are
erased; in `store`, the read is still armed for the block under the cursor or
its own reply is in the buffer; in `verify`, no block is old or erased; in
`finalize`, all are the package's. `IInv == TypeOK /\ StageInv /\
FinishMeansWritten /\ HeadLast` is inductive (`InitIInv`, `TypeStep`,
`SafeStep`), with one step per action; `DispatchSafe` shows that no frame of
the client disturbs it, `GateErrorSafe` that no failing stage does.
`AnsweredByItsReply` follows from `StoreInv`. `FailedGateRetries`, a property of
steps, has an invariant of its own: the session flag is set while the gate runs
(`SessionInv`). The theorems: `TypeCorrect`, `FinishCorrect`, `HeadIsLast`,
`StagesCorrect`, `ReplyIdentified`, `SessionKept`.

**Client.** `OkNeedsEvidence` needs what each later stage knows of the earlier
ones: `Evidence` (in `FlashClientProofs`) says that stages 2 and 3 of `flash`
are reached only with `fin[1] = "verify"`, stage 3 only with `fin[2] =
"finish"`. `RepliesExact` rests on `BoundsSuffice`: for every address and
length, a request that passes the bounds check of `serve_requests` has a slice
of exactly the requested length, so `build_response` cannot raise. The theorems:
`BoundsSuffice`, `TypeCorrect`, `ExactReplies`, `OkIsEarned`.

**Whole update.** Each of the three theorems has an invariant of its own, with
client, loader, application and faults in one step relation, for any image
length, time limits, runs, losses and power cuts.
`OtherModelSafe`: while the device is of another model, only queries are ever in
`tx` and only its own identity in `rx`, so the client never gets past `check`
and the device never leaves its application (`OInv`). It takes
`"serve" \notin Verbs`: `serve` does not compare identities. `DeviceAlive`:
while the power stays on, the loader restarts only from the end of a gate, where
flash is consistent: the read-back found the package there, or a package of
parts left flash as it was (`PathInv`, `BootInv`). A gate that fails goes back
to the dispatcher, never to the restart.
`NeverBothWait`: while the loader waits and the client serves on a live
connection, the request is in `rx` or its reply in `tx` (`NothingMissed`). To
keep that, a first run must find the loader idle until its own update command
arrives, so that no request was made before the client listens and drained
(`FirstRun`), and every request within the image must get a well-formed reply
(`InBounds`). `WInv` joins these with the places the client can be in.

**Refinement.** `UpdateKeepsPromise`: for a full package, `UpdateSystem`
implements `PackageUpdate` (`FollowsInit`, `FollowsStep`). The erase and a
read-back that fails are `Tear`, the last store is `Complete`, the step that
sees the device is `Find`, the client's exits are `Report`; everything else
changes nothing there (`OthersFollow`). The reports are where it is hard: what
the client concludes from a terminal request must be true of a device it does
not see. `RInv` says why it is. `WholeInv` carries the loader's stages over to
the composition: past the read-back the package is in flash. `LinkInv` says that
the frames of a live connection come from the program that runs now: a finish
request from a loader past its read-back, a verification request from an
application, an identity block with the loader's mark from a loader. `FinishInv`:
once a finish request is in the queue flash holds the package, and nothing will
change it, as the loader is past its programming or has been reset and no update
command is on its way to it. `FoundInv`: until `flash` sends its second update
command the loader is quiet, so flash is what the run found; from then on a
verification request still proves it, because it comes from an application.
`ClientSteps` reduces the client's steps to three shapes (`Approach`,
`Transfer`, `Concludes`), `LoaderEffects` and `WholeStep` say what the loader's
loop does to flash; each actor has a lemma (`...Places`, `...Kept`) and
`RefinementStep` joins them. Only a full package is promised anything: the
callback path of 0x3E0E asks for the finish without programming.

**M-UPGRADE.** `HInv == HostTypeOK /\ OneUpgrade /\ ThreadInv /\
LateProbeHarmless /\ QuietInv` is inductive (`HostCorrect`). Its core is
`ThreadInv`: the connection a thread uses is older than the thread, so the
connection that the window makes in its place after probe t, number t, is
nobody's; that is why a late probe reaches neither the window nor another
thread, although nothing is locked. `QuietInv` says that without probes the
worker's connection is the window's and stays at the worker's port. The
theorems: `UpgradeAlone`, `LateProbesHarmless`, `RepliesReachAsker`,
`SystemTypesOK`. None of them depends on the window's mode. The preset worker has an invariant of its own (`PInv`): the
sectors below the count were erased by this update, and the count covers every
sector the file touches. The last is arithmetic, for every sector size and
length (`Rounding`, `SectorsCover`). The theorems: `PresetCorrect`,
`PresetOutcomeTrue`, `PresetStaysInFile`.

**Pipeline.** `Chain` and `Chain2` say, for each stage, what each file holds in
terms of the inputs: after `match_libs`, labels and sources are those of the
present libraries; after `mech_tag`, the subsystem of a function without a
review is the first rule's (`FirstRuleDecides`); running a script again changes
nothing (`PassesAgain`); the second chain depends on the baseline libraries
only (`BaselineDecides`), which nothing removes. `RunFollowsInputs` follows
with `MeantIs`. The theorems: `ReviewsTyped`, `ReviewsKept`, `ChainHolds`,
`Chain2Holds`, `ChainsFollowInputs`. They hold for any functions, libraries and
rules and any number of changes.

A readable file is one whole result (`FilesTyped`): `TypeInv` says so row by row
(`DbTyped`), a name has a source because it was found in one (`HitsTyped`), and
the second chain's subsystems are those of `LocalityIs`.

**Sequencer client.** `SearchInv` is inductive under every ioctl and every
`Replug`. `Queried`: what the query buffers hold was seen of the client they
name, and is its present state if it was there all the time. `Unmissed`: a
client that fits and was there all the time is still ahead of the search
(`Ahead`: a later name, or this name and no earlier number). That the search
passes nothing by rests on the kernel's "next client" being the least number
above the last. `RecvInv` has two cases. While `recv` expects the padding of
every event it has read, `rbuf` is empty, because a read delivers whole events
(`ParseAll`), and the data of all of them was returned. From the first other
event on, `rbuf` does not begin with a header and what was returned begins with
the data up to that event, that one included (`ParseUpTo`); there `Parse` stops
(`ParseOut`), and nothing takes back what was returned. That an event other than
these is always noticed is arithmetic: the kernel's padding is the longer one
whenever the two differ (`Paddings`). The stream is a concatenation, whose
theory the prover does not have; places in it are sums of lengths of events
(`Places`), and facts about all events are proved by induction on their number.
The theorems: `SearchCorrect`, `FoundIsNoBystander`, `SteadyNotMissed`,
`RecvCorrect`, `StreamReassembled`, `TypeCorrect`, for any header, any unit that
divides it, and any stream.

**Induction over data (`DataProofs`).** The algorithms are loops: a fold, a
recursive function, a CHOOSE. The induction theorems of the library take a
predicate as a parameter, which no prover here can instantiate. One fact of the
library has none: strict inclusion is well-founded on finite sets
(`SmallestSet`). From it follow least and greatest numbers (`LeastNatural`,
`GreatestNatural`), induction for a set of numbers, of finite sets or of
sequences (`Induct`, `InductSets`, `InductSeq`), and that the functions exist by
which folds and powers are defined (`FoldExists`, `WalkExists`, `PowersExist`).
Instead of a predicate these lemmas take the set of what satisfies it.

**Function map (`PipelineProofs`).** What the scripts compute, for any input.
Every loop has a lemma that it goes step by step (`...Steps`) and an invariant
of its steps:

* `SortedLists`: the sorted list has every number once, as the k-th number is
  the one with k - 1 below it (`RankGrows`, `Ranks`).
* `GroupedParts`: groups are in order, more than the gap apart, and linked
  within (`GroupsOf`). From it `EveryFunctionStaysShown` (a function in no raw
  shard is between the ends of its group; raw shards are cut at multiples,
  `RawShardsPart`) and `TablesStayApart` (a chain of pointers ends where a group
  does, `ChainsStay`, and twice the margin is less than a gap).
* `StringsStayWhole`: between two bytes the scan holds the begin of the present
  run and all earlier runs (`ScanInv`).
* `SearchFinds`: entries in order are cut at one place (`CutOnce`), which is
  that of the half that is searched next (`CutHalf`); the recursive function
  exists, because the range gets smaller (`SearchExists`).
* `AttributedIs`: the function that is kept, the one that is searched for, and
  `Owner` of `build_funcdb.py` are all the last before the address (`OwnerIs`,
  `LineIs`). `build_db.py` has the functions in RAM among its entries as well;
  as they are all below the code, it finds the same function for every line that
  has one, and gives them only lines before the first (`CallsStayAgreed`, with
  `DbCalls`).
* `ComponentsPart`, `ComponentsStayWhole`: each step of a search adds a function
  or none ever does, so that as many steps as there are functions are enough
  (`ComponentIs`); a component is the least closed set, and what is outside of
  one is closed (`ClosedSets`), so components do not meet (`VisitKeeps`) and do
  not fall apart (`ComponentHolds`).
* `LocalityIs`, `LocalityStays`: the pass that writes into the table it reads
  infers what it would infer from the first pass alone (`KnownIsFirst`).

`MapInv` carries them to the properties of `MapResults`.

**Bytes (`ByteProofs`).** What the codec, the verifier and the extractor compute,
for any input, any widths of bytes and septets (a byte the wider), and any base
of LZ4's lengths. `ByteInv` carries the facts about the operators to the
properties of `ByteResults`.

* `RoundTrip`: packing does not change the number that the units spell, it
  writes it in another base. The loop holds the digits it has put out and the
  rest of the number (`RegroupIs`), and digits spell what they are digits of
  (`NumberOfDigits`, `DigitsOfNumber`).
* `ResponsesStayAccepted`: with `RoundTrip`, the verifier's checks find the
  header, the fields and the data where `build_response` put them
  (`FieldSlices`), and the checksum agrees (`Checksums`).
* `DamageStaysNoticed`: exchanging a septet leaves every bit outside its own
  (`DamagedNumber`), so one byte changes, or the upper bits of one and the lower
  bits of the next, together fewer than a byte has (`PlacesBelow`, `PlacesAt`,
  `PlacesAbove`). Such changes do not cancel modulo 256 (`SumTells`).
* `RecordsStayServable`: the verifier's test of a request and the client's
  refusals are the same inequalities but for one (`RequestServed`): the client
  answers a request of no bytes (`fm1_ota.py:315`), the verifier wants a length
  (`verify_reflash_record.py:72`). So it is for each of the requests a record
  expands to (`RecordAccepted`); of a package exactly the last byte of
  each slot is left out (`MarkersLeftOut`).
* `ImagesStayDecompressed`: a turn of the decoder reads one operation
  (`OpTurn`): its token holds both short lengths (`TokenHolds`), a long one ends
  at the first byte that is not full (`LengthsRead`), a match is copied byte by
  byte and so may overlap itself (`Copied`). `Written` is the invariant: what
  has been put out is what the first j operations spell (`WrittenMore`,
  `WrittenAll`). It is carried through a block (`Turned`, with the place `at[k]`
  of every operation) and through the blocks (`Opened`); as each turn gets
  further, as many turns as there are bytes are enough. Of a block that is cut
  off, the decoder may make something without noticing: what the cut leaves of
  the literals, or an operation less. `Stuck` says that this is not accepted,
  because the place it ends at is not the block's size or the bytes are too few
  (`BlockOutcome`, `BoxTurn`); that is what the two sizes before each block are
  for.

**Checked by TLC only.** Liveness (`Termination`, `RunEnds`, `WorkerReports`,
`SearchEnds`), which the prover does not handle. Everything else that a run
checks is proved as well. What the proofs of the algorithms do not say is that
the constants are those of the repository: 8 and 7 bits, 255 and 15 of LZ4 meet
the assumptions, as smaller numbers do in the run.

## 5. What is assumed, and what is left out

* The application is external. It may refuse in silence, pulls one part of the
  package, asks for 0xE0000000 and resets whatever the answer (or, if the
  answer is lost, resets just the same).
* Which program runs after a reset is the boot code's choice. The model assumes
  that a valid update record leads into the loader, also after a power cut, and
  that a session which ended leaves no record behind. Recovery has not been verified
  on hardware (`tools/README.md:20`); `NeverDead` therefore promises nothing
  once the power was cut.
* One region of flash, selected by the package: `Whole` says whether its
  headers select the full path. `KeepsPromise` is checked and proved for full
  packages (`Whole = TRUE`), such as the recorded reflash; on the callback path of 0x3E0E the finish
  request is made without any programming in this model, and what the
  callbacks do is not in it.
* Bytes are abstracted to blocks: a CRC that fits means the right block. What
  the stages compute from package bytes is a free choice of status.
* `PackageUpdate` takes a package that differs from the installed firmware. For
  an update to the version that is already there the identity afterwards shows
  nothing, and success rests on the finish exchange.
* `NoMutualWait` is stated for a first run without a lost frame: a second run
  can meet a loader that still waits for the reply to a request nobody read,
  and nothing in the code ends that wait.
* Time is counted in polls. A process suspended between the test of the clock
  and `select()` (`fm1_ota.py:278`) is not modelled.
* M-UPGRADE's functions that the listing does not show are external:
  `FUN_140014150`, which starts an upgrade, the slots of the other signals, the
  destructor that closes a connection's port.
* `RepliesToAsker` and `WorkerReports` are stated for `quiet`, when nobody
  probes during an upgrade. The listing does not show who asks for a probe. A
  probe during an upgrade closes the worker's connection under it; then a
  reply may go to another device. `PresetOutcomeIsTrue` is stated without that
  premise.
* `WorkerReports` also excepts a worker in mode 2 that has a device in its
  application (`Mistaken`): asked for the end of the first step, it leaves
  without a signal (`ota_worker_decomp.c:186`) and the flag stays set. Mode 2
  is stored whenever a device is found in OTA mode (:579) and cleared by the
  completion of a second step only (:454), so after a second step that failed
  the user's next start may come with it, and the model has such runs. Whether
  the program has them depends on `FUN_140014150`, which may set the mode; the
  model lets it do either.
* The version of an identity is read with `std::stoi`, which nothing catches
  (`ota_worker_decomp.c:1383`): one that is no number ends M-UPGRADE after the
  model's name was stored. In the model every version is a number.
* The worker reports completion although the last reply may not have been sent
  (`ota_worker_decomp.c:199`); the model does so too, and no property says more.
* The search of `SeqClient` promises that the number had the name during the
  search. By the time it is used it may be another client's.
* How the kernel pads what it writes is known from the kernel, not from this
  repository: whole events, data filled up to whole cells of 28 bytes. With it
  `recv` keeps step only after events whose length leaves 0, 25, 26 or 27
  modulo 28; `Reassembled` promises nothing beyond the first other one. Nothing
  in the repository is hurt by that: it reads the device with `alsalib.py` and
  uses of `alsaseq.py` only `find_port` (`fm1_ota.py:205`-`213`;
  `docs/io/11-ota-protocol.md:256` says "port discovery"). `send` is not
  modelled. The error of an overrun queue, which ends `recv` with an exception,
  is not modelled either.
* After a read-back that fits, 0x47C0 writes 32 bytes of a directory head that
  it had put aside (`usb_hid_ota_objdump.txt:6688`-`6730`), and 0x4A5C may enter
  0x4536 again for another region. `Verify` leaves flash unchanged: the head is
  part of a block that is there already, and there is one region.
* `resolve_strings.py:76` keeps the first 40 strings of a function; `Attached`
  keeps all. A review that is withdrawn (a file of `analysis/classified` that
  disappears) is not modelled; reviews are added and changed.
* `jl_crc16` is not part of the repository; `LoaderImage` takes any function.
  The comparison of a record's other fields with the constants of one session
  (`verify_reflash_record.py`) is left out, as is the text of an identity block
  (`parse_handshake_identity`).
* In `match_libs.py` the source of a label is the first file with that name,
  whatever signature it has there (`match_libs.py:59`); a file of `libdis` that
  was cut off is never completed (`disasm_toolchain_libs.sh`). Both are
  modelled as they are; `RunFollowsInputs` speaks of the files there are.
* Text is left out: labels, canonical instruction text, the tables of the index
  documents, and the list of sections in `aggregate.py:57`.
* Not modelled: transports of the loader other than USB-MIDI, flash and clock
  set-up, boot code (only its choice after a reset matters here), and the
  generated listings of the synthesizer application, which no program under
  `src/` runs.

## 6. Plan

1. Done: the update with its client, loader and device (`OtaWire`,
   `FlashClient`, `OtaLoader`, `UpdateSystem`, `PackageUpdate`).
2. Done: M-UPGRADE (`HostUpdater`, `PresetUpdate`, `HostSystem`).
3. Done: the sequencer client (`SeqClient`).
4. Done: the pure algorithms against reference definitions (`Frames`,
   `LoaderImage`, `FunctionMap`).
5. Done: the scripts as steps on files (`Pipeline`).
6. Done: proofs about the loader, the client, the whole update, M-UPGRADE, the
   sequencer client, the function map and the pipeline.
7. Done: the refinement of `PackageUpdate` by `UpdateSystem` (in
   `UpdateProofs`).
8. Done: the codec, the verifier and the container for any widths and lengths
   (`ByteProofs`).
9. Open: liveness, which needs another prover. The transport's frames are
   abstract in the models of the update; a refinement that puts `Frames` under
   `OtaWire` would join the two.
