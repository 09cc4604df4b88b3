----------------------------- MODULE OtaLoader -----------------------------
(***************************************************************************)
(* The FM-1's OTA loader, from the vendor listing of usb_hid_ota.bin: the  *)
(* command dispatcher (0x1D84, 0x1E70), the blocking read request (0xFA2), *)
(* the finish gate (0x1362) with the stages it calls, and the session loop *)
(* around it (0x13EA).                                                     *)
(*                                                                         *)
(* The dispatcher runs from the USB handler, so a frame is handled between *)
(* any two steps of the session loop.  A read request sends one frame and  *)
(* spins on the wait flag with no time limit.  What a stage computes from  *)
(* the bytes it sees is left open (it may return any status); kept are the *)
(* order of the stages, the tests on their statuses, the requests they     *)
(* make and what they leave in flash.  Bytes are abstracted to the block   *)
(* they belong to, so a CRC that fits means that every block is its own.   *)
(***************************************************************************)
EXTENDS OtaWire, Sequences

CONSTANTS
  Statuses,    \* nonzero statuses the stages of the gate return
  MaxReads,    \* bound: header and directory reads made by each stage
  MaxRx        \* bound: frames to the client not yet taken by it

ASSUME LoaderAssumption ==
  /\ Statuses \subseteq 1 .. 32
  /\ MaxReads \in Nat /\ MaxRx \in Nat

Old    == {ImageLen + 1}  \* flash content from before the session
Erased == {ImageLen + 2}  \* flash content after an erase
Junk   == {ImageLen + 3}  \* bytes that belong to no block of the image

Contents == Payloads \cup {Old, Erased, Junk}

\* Nothing armed: length 0, and a null destination at 0x1C103C0 + 40
NoRead == [addr |-> 0, len |-> 0]

VARIABLES
  lpc,      \* where the session loop is
  active,   \* b[0x1C103C0 + 1], set by the upgrade command
  waiting,  \* b[0x1C103C0 + 2], a read request waits for its response
  armed,    \* address and length at 0x1C103C0 + 32 of the pending read
  buf,      \* what the page buffer (in "answer": the stack buffer) holds
  cursor,   \* header reads made in this stage; blocks left to program
  tries,    \* finish requests made, r7 + 5
  full,     \* the selection at [sp + 12] is -1: the whole package
  flash,    \* content of each image block in the application's flash
  final,    \* metadata finalised since flash was last erased
  record,   \* the 80-byte update record in flash has a valid checksum
  rx        \* frames on their way to the client

loop == <<lpc, cursor, tries, full>>
nvm  == <<flash, final, record>>
link == <<waiting, armed, buf>>
vars == <<loop, nvm, link, active, rx>>

Checking == {"inspect", "callbacks", "heads", "plan"}

\* Stages that read headers and directories of the package as they go; the
\* recorded session reads on after the last image block, before the finish.
Reading == Checking \cup {"verify", "finalize"}

Stages == Checking \cup {"poll", "erase", "program", "store", "verify",
                         "finalize", "handshake", "answer", "restart"}

\* Some block of the application has been erased or written since power-on.
Touched == \E b \in Offsets : flash[b] # Old

\* Every block of the application is the package's.
Written == \A b \in Offsets : flash[b] = {b}

\* The RAM of a loader that was just started
Fresh ==
  /\ lpc = "poll" /\ active = FALSE /\ waiting = FALSE
  /\ armed = NoRead /\ buf = Junk /\ cursor = 0 /\ tries = 0
  /\ full = FALSE

Init ==
  /\ Fresh
  /\ flash = [b \in Offsets |-> Old] /\ final = FALSE /\ record = TRUE
  /\ rx = <<>>

----------------------------------------------------------------------------
(* The dispatcher, run by the USB handler on every frame m of the client.  *)

\* 0x1E70: the upgrade command sets the session flag, whatever goes on.
HandleUpgrade(m) ==
  /\ m.kind = "upgrade"
  /\ active' = TRUE
  /\ UNCHANGED <<link, rx>>

\* Command 17, 0x1DF2: the identity block, copied from the boot record.
HandleQuery(m, id) ==
  /\ m.kind = "query" /\ Len(rx) < MaxRx
  /\ rx' = Append(rx, Identity(id))
  /\ UNCHANGED <<active, link>>

\* Mutant: the address is not compared.
FitsLength(m) == armed # NoRead /\ m.len = armed.len

\* 0x1E3C, 0x1E50, 0x1E56: the response is the one the loader waits for.
Fits(m) == armed # NoRead /\ m.addr = armed.addr /\ m.len = armed.len

(***************************************************************************)
(* Command 48, 0x1E26.  The payload is copied and the read disarmed only   *)
(* when address, length and destination fit; the wait flag is cleared      *)
(* either way (0x1E6A), so a response that does not fit also ends the read *)
(* and leaves the buffer as it was.                                        *)
(***************************************************************************)
HandleData(m) ==
  /\ m.kind = "data"
  /\ IF Fits(m) THEN buf' = m.payload /\ armed' = NoRead
                ELSE UNCHANGED <<buf, armed>>
  /\ waiting' = FALSE
  /\ UNCHANGED <<active, rx>>

\* 0x1D98, 0x1DAC: wrong body length or checksum, dropped without a word.
HandleMalformed(m) ==
  /\ m.kind = "malformed"
  /\ UNCHANGED <<active, link, rx>>

Dispatch(m, id) ==
  /\ \/ HandleUpgrade(m)
     \/ HandleQuery(m, id)
     \/ HandleData(m)
     \/ HandleMalformed(m)
  /\ UNCHANGED <<loop, nvm>>

----------------------------------------------------------------------------
(* The session loop and the finish gate.                                   *)

\* 0xFA2: arm the read and send the request; the caller then spins.
StartRead(a, n) ==
  /\ Len(rx) < MaxRx
  /\ waiting' = TRUE
  /\ armed' = [addr |-> a, len |-> n]
  /\ rx' = Append(rx, Request(a, n))

\* 0x101E: the spin is over, and the step at stage s goes on.
At(s) == lpc = s /\ ~waiting

Goto(s) == lpc' = s /\ cursor' = 0

NoRequest == UNCHANGED <<active, link, rx>>

\* 0x4FF8: bitmap 0x003A4807 over the statuses 11 .. 32
IsFatal(e) == e \in {11, 12, 13, 22, 25, 28, 30, 31, 32}

\* Mutant: a failed gate gives the session up.
FailRestarts(e) ==
  /\ Goto("restart")
  /\ record' = record
  /\ UNCHANGED <<tries, full>>

(***************************************************************************)
(* 0x136E: a nonzero status ends the gate with -1 or -2, and the session   *)
(* loop takes both as "run the gate again": the session flag stays set.    *)
(* A fatal status first clears the checksum of the update record, when it  *)
(* finds one behind a valid flash header (0x4AE4).                         *)
(***************************************************************************)
Fail(e) ==
  /\ Goto("poll")
  /\ record' \in IF IsFatal(e) THEN {record, FALSE} ELSE {record}
  /\ UNCHANGED <<tries, full>>

\* 0x13FC: the loop runs the gate while the session flag is set.
EnterGate ==
  /\ At("poll") /\ active
  /\ Goto("inspect")
  /\ UNCHANGED <<tries, full, nvm>> /\ NoRequest

\* A stage reads some part of the package through 0x1024.
CheckRead(a, n) ==
  /\ lpc \in Reading /\ At(lpc) /\ cursor < MaxReads
  /\ cursor' = cursor + 1
  /\ StartRead(a, n)
  /\ UNCHANGED <<lpc, tries, full, nvm, buf, active>>

\* 0x37E2: header inspection yields the selection.
Inspect(f) ==
  /\ At("inspect")
  /\ full' = f
  /\ Goto(IF f THEN "heads" ELSE "callbacks")
  /\ UNCHANGED <<tries, nvm>> /\ NoRequest

\* 0x3E0E: the partition callbacks, then straight to the finish handshake.
Callbacks ==
  /\ At("callbacks")
  /\ Goto("handshake") /\ tries' = 0
  /\ UNCHANGED <<full, nvm>> /\ NoRequest

\* 0x3C1C: the required file heads
Heads ==
  /\ At("heads")
  /\ Goto("plan")
  /\ UNCHANGED <<tries, full, nvm>> /\ NoRequest

\* 0x3F14 with the tests at 0x13CA and 0x13D2: status 0 or 13 and a plan
Plan ==
  /\ At("plan")
  /\ Goto("erase")
  /\ UNCHANGED <<tries, full, nvm>> /\ NoRequest

\* Mutant: the session flag is cleared.
CheckFailsOnce(e) ==
  /\ lpc \in Checking /\ At(lpc)
  /\ Fail(e)
  /\ active' = FALSE
  /\ UNCHANGED <<flash, final, link, rx>>

\* A checking stage fails; in "plan" 13 is let through, and 14 stands for
\* the plan that is missing (0x13E6).
CheckFails(e) ==
  /\ lpc \in Checking /\ At(lpc)
  /\ lpc = "plan" => e # 13
  /\ Fail(e)
  /\ UNCHANGED <<flash, final>> /\ NoRequest

\* 0x3424, called by 0x4536: the region of the application is erased.
Erase ==
  /\ At("erase")
  /\ flash' = [b \in Offsets |-> Erased] /\ final' = FALSE
  /\ lpc' = "program" /\ cursor' = ImageLen
  /\ UNCHANGED <<tries, full, record>> /\ NoRequest

\* Mutant: the block above the one that is stored next
ProgramReadAbove ==
  /\ At("program") /\ cursor > 0
  /\ lpc' = "store"
  /\ StartRead(cursor, 1)
  /\ UNCHANGED <<cursor, tries, full, nvm, buf, active>>

\* 0x46C4: the loop runs down from the top of the region to its head.
ProgramRead ==
  /\ At("program") /\ cursor > 0
  /\ lpc' = "store"
  /\ StartRead(cursor - 1, 1)
  /\ UNCHANGED <<cursor, tries, full, nvm, buf, active>>

\* Mutant: from the head of the region to its top
StoreAscending ==
  /\ At("store")
  /\ flash' = [flash EXCEPT ![ImageLen - cursor] = buf]
  /\ cursor' = cursor - 1 /\ lpc' = "program"
  /\ UNCHANGED <<tries, full, final, record>> /\ NoRequest

\* 0x4706: the page buffer goes to flash, filled by the response or not;
\* 0x1024 returned the length it was asked for in both cases.
Store ==
  /\ At("store")
  /\ flash' = [flash EXCEPT ![cursor - 1] = buf]
  /\ cursor' = cursor - 1 /\ lpc' = "program"
  /\ UNCHANGED <<tries, full, final, record>> /\ NoRequest

ProgramDone ==
  /\ At("program") /\ cursor = 0
  /\ Goto("verify")
  /\ UNCHANGED <<tries, full, nvm>> /\ NoRequest

\* 0x45F4: the region that was written does not check, status 8.
ProgramFails ==
  /\ At("program") /\ cursor = 0
  /\ Fail(8)
  /\ UNCHANGED <<flash, final>> /\ NoRequest

\* Mutant: the read-back is not compared.
VerifyNothing ==
  /\ At("verify")
  /\ Goto("finalize")
  /\ buf' = Junk
  /\ UNCHANGED <<tries, full, nvm, waiting, armed, active, rx>>

\* 0x47C0 reads flash back: the directory and the CRC of every entry fit.
\* What it then writes again, the directory's own 32 bytes, is left out.
Consistent == Written \/ ~Touched

Verify ==
  /\ At("verify") /\ Consistent
  /\ Goto("finalize")
  /\ buf' = Junk
  /\ UNCHANGED <<tries, full, nvm, waiting, armed, active, rx>>

\* 0x4A8A: an entry that does not fit costs the sector of the directory;
\* 0x4808: an unreadable directory is left as it is.
VerifyFails(e) ==
  /\ At("verify")
  /\ \/ e \in {11, 19, 20} /\ flash' = [flash EXCEPT ![0] = Erased]
     \/ e = 19 /\ flash' = flash
  /\ Fail(e)
  /\ buf' = Junk
  /\ UNCHANGED <<final, waiting, armed, active, rx>>

\* 0x4AAE
Finalize ==
  /\ At("finalize")
  /\ final' = TRUE
  /\ Goto("handshake") /\ tries' = 0
  /\ UNCHANGED <<full, flash, record>> /\ NoRequest

FinalizeFails(e) ==
  /\ At("finalize")
  /\ Fail(e)
  /\ UNCHANGED <<flash, final>> /\ NoRequest

\* Mutant: one try more
FinishRequestFive ==
  /\ At("handshake") /\ tries < 5
  /\ tries' = tries + 1 /\ lpc' = "answer"
  /\ StartRead(FINISH, SuccessLen)
  /\ buf' = IF tries = 0 THEN Junk ELSE buf
  /\ UNCHANGED <<cursor, full, nvm, active>>

\* 0x1398: the finish request, into a stack buffer that is not cleared
\* between the tries
FinishRequest ==
  /\ At("handshake") /\ tries < 4
  /\ tries' = tries + 1 /\ lpc' = "answer"
  /\ StartRead(FINISH, SuccessLen)
  /\ buf' = IF tries = 0 THEN Junk ELSE buf
  /\ UNCHANGED <<cursor, full, nvm, active>>

\* 0x13AE: anything but "success" is asked for again.
FinishRetry ==
  /\ At("answer") /\ buf # Success
  /\ lpc' = "handshake"
  /\ UNCHANGED <<cursor, tries, full, nvm>> /\ NoRequest

\* 0x13B0, or 0x1394 after four tries: the gate returns 0 either way, the
\* loop ends (0x140A) and uboot_main resets the chip (0x157A).
FinishGate ==
  /\ \/ At("answer") /\ buf = Success
     \/ At("handshake") /\ tries = 4
  /\ Goto("restart") /\ active' = FALSE
  /\ UNCHANGED <<tries, full, nvm, link, rx>>

GateStep ==
  \/ EnterGate \/ Callbacks \/ Heads \/ Plan
  \/ \E f \in BOOLEAN : Inspect(f)
  \/ Erase \/ ProgramRead \/ Store \/ ProgramDone
  \/ Verify \/ Finalize
  \/ FinishRequest \/ FinishRetry \/ FinishGate

GateError ==
  \/ ProgramFails
  \/ \E e \in Statuses : CheckFails(e) \/ VerifyFails(e) \/ FinalizeFails(e)

----------------------------------------------------------------------------
(* The loader alone, against any client: every frame the client can build  *)
(* arrives at any time, which covers late, repeated and unasked replies.   *)

CONSTANT Ids  \* contents of the identity block

ReadLens == 1 .. MaxData

Replies == {Reply(a, n) : a \in Offsets, n \in ReadLens}
             \cup {SuccessReply(a) : a \in Terminal}

FromClient(m) == \E id \in Ids : Dispatch(m, id)

Client == \E m \in Replies \cup {Query, Upgrade, Malformed} : FromClient(m)

TakeRx ==
  /\ rx # <<>> /\ rx' = Tail(rx)
  /\ UNCHANGED <<loop, nvm, link, active>>

AnyCheckRead == \E a \in Offsets, n \in ReadLens : CheckRead(a, n)

Next == GateStep \/ GateError \/ AnyCheckRead \/ Client \/ TakeRx

Spec == Init /\ [][Next]_vars

----------------------------------------------------------------------------
(* Properties                                                              *)

DeviceFrames == [kind : {"request"}, addr : Nat, len : Nat]
                  \cup [kind : {"identity"}, id : Ids]

FlagsOK ==
  /\ active \in BOOLEAN /\ waiting \in BOOLEAN /\ full \in BOOLEAN
  /\ final \in BOOLEAN /\ record \in BOOLEAN

LoopOK ==
  /\ lpc \in Stages
  /\ cursor \in Nat /\ tries \in 0 .. 4

LinkOK ==
  /\ armed \in [addr : Nat, len : Nat]
  /\ buf \in Payloads \cup {Junk}
  /\ rx \in Seq(DeviceFrames)

\* Every variable stays in its domain.
TypeOK == FlagsOK /\ LoopOK /\ LinkOK /\ flash \in [Offsets -> Contents]

(***************************************************************************)
(* A full update that reaches the finish request has the package in flash, *)
(* block by block, and its metadata finalised, whatever replies came in    *)
(* between: replies that end a read without filling the buffer (0x1E6A)    *)
(* put stale pages into flash, which only the read-back in 0x47C0 catches. *)
(***************************************************************************)
FinishMeansWritten ==
  full /\ lpc \in {"handshake", "answer", "restart"} => Written /\ final

(***************************************************************************)
(* The head of the application is programmed last: while block 0 holds     *)
(* bytes of the package, no other block is old or erased.  A power cut in  *)
(* the middle of the programming pass leaves an image without a head.      *)
(***************************************************************************)
HeadLast ==
  flash[0] \in SUBSET Offsets => \A b \in Offsets : flash[b] \notin {Old, Erased}

(***************************************************************************)
(* A read that ended because its own response came (armed was cleared) has *)
(* that block in the page buffer: a late or repeated reply to another read *)
(* never passes for the answer (0x1E3C, 0x1E50).                           *)
(***************************************************************************)
AnsweredByItsReply ==
  At("store") /\ armed = NoRead => buf = {cursor - 1}

(***************************************************************************)
(* What the loop has established when it gets to each stage, which makes   *)
(* the properties above inductive.                                         *)
(***************************************************************************)
ProgramInv ==
  lpc \in {"program", "store"} =>
    /\ cursor \in 0 .. ImageLen
    /\ \A b \in Offsets :
         IF b < cursor THEN flash[b] = Erased ELSE flash[b] \notin {Old, Erased}

StoreInv ==
  lpc = "store" =>
    /\ cursor > 0
    /\ armed \in {NoRead, [addr |-> cursor - 1, len |-> 1]}
    /\ armed = NoRead => buf = {cursor - 1}

VerifyInv ==
  /\ lpc = "verify" => \A b \in Offsets : flash[b] \notin {Old, Erased}
  /\ lpc = "finalize" => Written

StageInv ==
  /\ lpc = "callbacks" => ~full
  /\ ProgramInv /\ StoreInv /\ VerifyInv

(***************************************************************************)
(* "Then the bulk data ascending" (docs/io/11-ota-protocol.md:44): while   *)
(* the image is programmed, the blocks that are done are the lowest.       *)
(***************************************************************************)
BulkAscending ==
  lpc \in {"program", "store"} =>
    \A b, c \in Offsets : b < c /\ flash[c] # Erased => flash[b] # Erased

(***************************************************************************)
(* A gate that fails leaves the session flag set, so the loop runs it once *)
(* more (0x1408): no status, fatal or not, gives the session up.           *)
(***************************************************************************)
FailedGateRetries == [][lpc # "poll" /\ lpc' = "poll" => active']_vars
=============================================================================
