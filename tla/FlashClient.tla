---------------------------- MODULE FlashClient ----------------------------
(***************************************************************************)
(* The verbs flash and serve of tools/fm1_ota.py, from the search for the  *)
(* device to the exit code.                                                *)
(*                                                                         *)
(* cmd_flash makes three connections, the stages: 1 to the running         *)
(* firmware, 2 to whatever comes back from its reset, 3 to the firmware    *)
(* that was installed; cmd_serve makes only the first.  A connection is    *)
(* MidiLink(), handshake(), the update command and serve_requests().       *)
(*                                                                         *)
(* One step receives one frame and does all that follows from it up to the *)
(* next wait.  Time passes in seconds, counted only where the code tests   *)
(* it: a poll that times out is a step of its own.                         *)
(***************************************************************************)
EXTENDS OtaWire, Sequences

CONSTANTS
  Expected,   \* MODEL_NNN of the package's header
  NoModel,    \* model of an identity that does not parse
  Attempts,   \* attempts of a handshake
  StopAfter,  \* stop_after of each stage, in seconds
  ServeStop,  \* REQ_TIMEOUT, stop_after of cmd_serve
  WaitMax,    \* timeout of wait_device and wait_device_any, in polls
  MaxIdle     \* bound: seconds counted while frames keep coming

ASSUME ClientAssumption ==
  /\ Expected.ota = FALSE /\ Expected.model # NoModel
  /\ Attempts \in Nat \ {0}
  /\ StopAfter \in [1 .. 2 -> Nat \ {0}] /\ ServeStop \in Nat \ {0}
  /\ WaitMax \in Nat /\ MaxIdle \in Nat

VARIABLES
  verb,    \* "flash" or "serve", from the command line
  stage,   \* the connection being made or used
  pc,      \* what the client is doing
  conn,    \* "closed", "live", or "dead": its device has left the bus
  tries,   \* attempts left of the handshake
  idle,    \* seconds since last_req; polls of wait_device
  got,     \* the identity block the last handshake returned
  fin,     \* fin and fin2: what on_finish recorded, per stage
  result,  \* how the run ended
  rx,      \* frames that arrived and were not read yet
  held,    \* how many of them libasound has taken from the kernel
  tx       \* frames written to the device

cvars == <<verb, stage, pc, conn, tries, idle, got, fin, result, rx, held, tx>>

Modes == {"none", "normal", "ota"}  \* what device_is_ota finds in lsusb

Results == {"none", "ok", "fail", "notFlashed", "raised"}

Init ==
  /\ verb \in {"flash", "serve"}
  /\ stage = 1 /\ pc = "find" /\ conn = "closed" /\ tries = 0 /\ idle = 0
  /\ got = [ota |-> FALSE, model |-> NoModel, version |-> 0]
  /\ fin = [s \in 1 .. 2 |-> "none"] /\ result = "none"
  /\ rx = <<>> /\ held = 0 /\ tx = <<>>

----------------------------------------------------------------------------
(* Shared parts *)

\* return, or an exception that leaves main: the process and its link end.
Exit(r) == pc' = "exit" /\ result' = r /\ conn' = "closed"

Stop == IF verb = "serve" THEN ServeStop ELSE StopAfter[stage]

(***************************************************************************)
(* recv_sysex.  select() sees the kernel's queue alone; an event is read    *)
(* through libasound (external), which takes all the kernel has when it    *)
(* holds none and hands out what it holds one call at a time.  So a frame  *)
(* that came in with another one is not seen until a third one comes.      *)
(***************************************************************************)
Readable == held < Len(rx)

Receive ==
  /\ Readable
  /\ rx' = Tail(rx)
  /\ held' = IF held = 0 THEN Len(rx) - 1 ELSE held - 1

\* None: the timeout of select()
ReceiveNothing == ~Readable /\ UNCHANGED <<rx, held>>

ReceiveSysEx == Receive /\ Head(rx).kind # "event"

\* b"": MidiLink.read_sysex and drain take it for None.
ReceiveOther == Receive /\ Head(rx).kind = "event"

(***************************************************************************)
(* MidiLink.write, and what the client does next.  The sequencer refuses a *)
(* destination that is gone, which send() turns into an AssertionError, or *)
(* the frame is taken and goes nowhere; no caller expects either.          *)
(***************************************************************************)
WriteThen(m, next) ==
  \/ /\ conn = "live"
     /\ tx' = Append(tx, m) /\ pc' = next /\ UNCHANGED <<result, conn>>
  \/ /\ conn = "dead" /\ UNCHANGED tx
     /\ \/ pc' = next /\ UNCHANGED <<result, conn>>
        \/ Exit("raised")

----------------------------------------------------------------------------
(* Finding and opening the device *)

\* find_rawmidi, wait_device_any, wait_device: a mode the stage accepts
Suits(mode, port) ==
  CASE stage = 1 -> IF verb = "flash" THEN mode = "normal" ELSE mode # "none"
    [] stage = 2 -> mode # "none" /\ port
    [] stage = 3 -> mode = "normal" /\ port

Find(mode, port) ==
  /\ pc = "find"
  /\ IF Suits(mode, port)
       THEN pc' = "open" /\ idle' = 0 /\ UNCHANGED <<conn, result>>
       ELSE IF stage # 1 /\ idle < WaitMax
         THEN idle' = idle + 1 /\ UNCHANGED <<pc, conn, result>>
         ELSE idle' = 0 /\ Exit("fail")
  /\ UNCHANGED <<verb, stage, tries, got, fin, rx, held, tx>>

\* MidiLink(): the sequencer port is looked up anew, whoever has it now.
Open(port) ==
  /\ pc = "open"
  /\ IF port THEN pc' = "drain" /\ conn' = "live" /\ UNCHANGED result
                  /\ rx' = <<>> /\ held' = 0
             ELSE Exit("raised") /\ UNCHANGED <<rx, held>>
  /\ UNCHANGED <<verb, stage, tries, idle, got, fin, tx>>

----------------------------------------------------------------------------
(* handshake() *)

\* drain(): an empty queue ends it, and so does an event that is no SysEx.
Drain ==
  /\ pc = "drain"
  /\ \/ /\ ReceiveNothing \/ ReceiveOther
        /\ pc' = "query" /\ tries' = Attempts
     \/ ReceiveSysEx /\ UNCHANGED <<pc, tries>>
  /\ UNCHANGED <<verb, stage, conn, idle, got, fin, result, tx>>

\* Every attempt sends the query; the third that fails ends the run, as
\* each caller takes None for a failure.
SendQuery ==
  /\ pc = "query"
  /\ IF tries = 0
       THEN Exit("fail") /\ UNCHANGED <<tries, tx>>
       ELSE WriteThen(Query, "await") /\ tries' = tries - 1
  /\ UNCHANGED <<verb, stage, idle, got, fin, rx, held>>

\* Within the attempt's second: the identity header is all that is tested.
AwaitFrame ==
  /\ pc = "await"
  /\ ReceiveSysEx
  /\ IF Head(rx).kind = "identity"
       THEN got' = Head(rx).id /\ pc' = "check"
       ELSE got' = got /\ pc' \in {"await", "query"}
  /\ UNCHANGED <<verb, stage, conn, tries, idle, fin, result, tx>>

\* read_sysex returns None after a second, or at once for another event.
AwaitNothing ==
  /\ pc = "await"
  /\ ReceiveNothing \/ ReceiveOther
  /\ pc' = "query"
  /\ UNCHANGED <<verb, stage, conn, tries, idle, got, fin, result, tx>>

\* Mutants: the version, the model is not compared.
AcceptsAnyVersion(id) ==
  \/ verb = "serve"
  \/ id.model = Expected.model /\ (stage \in {1, 3} => ~id.ota)

AcceptsAnyModel(id) ==
  \/ verb = "serve"
  \/ /\ stage \in {1, 3} => ~id.ota
     /\ stage = 3 => id.version = Expected.version

(***************************************************************************)
(* What each connection demands of the identity block.  cmd_serve demands  *)
(* nothing of it.  A missing and a wrong identity both end cmd_flash.      *)
(***************************************************************************)
Accepts(id) ==
  \/ verb = "serve"
  \/ /\ id.model = Expected.model
     /\ stage \in {1, 3} => ~id.ota
     /\ stage = 3 => id.version = Expected.version

Check ==
  /\ pc = "check"
  /\ IF Accepts(got)
       THEN IF stage = 3 THEN Exit("ok")
                         ELSE pc' = "upgrade" /\ UNCHANGED <<conn, result>>
       ELSE Exit("fail")
  /\ UNCHANGED <<verb, stage, tries, idle, got, fin, rx, held, tx>>

\* UPGRADE_CMD, START_DELAY, and serve_requests sets last_req
SendUpgrade ==
  /\ pc = "upgrade"
  /\ WriteThen(Upgrade, "serve")
  /\ idle' = 0
  /\ UNCHANGED <<verb, stage, tries, got, fin, rx, held>>

----------------------------------------------------------------------------
(* serve_requests() *)

Serving(kind) == pc = "serve" /\ Receive /\ Head(rx).kind = kind

\* _fin1 lets the finish address pass; _fin2 and _fin stop at either.
Stops(a) == verb = "flash" /\ stage = 1 => a = VERIFY

\* 0xE0000000 and 0xF0000000 get "success", then on_finish decides.
ServeTerminal ==
  /\ Serving("request") /\ Head(rx).addr \in Terminal
  /\ LET a == Head(rx).addr IN
       /\ WriteThen(SuccessReply(a), IF Stops(a) THEN "served" ELSE "serve")
       /\ fin' = IF Stops(a) /\ pc' = "served"
                   THEN [fin EXCEPT ![stage] =
                           IF a = FINISH THEN "finish" ELSE "verify"]
                   ELSE fin
  /\ idle' = 0
  /\ UNCHANGED <<verb, stage, tries, got>>

\* A request within the image is answered from it; build_response would
\* raise ValueError for a payload of another length than was asked for.
ServeData ==
  /\ Serving("request") /\ Head(rx).addr \notin Terminal
  /\ LET a == Head(rx).addr
         n == Head(rx).len
     IN IF OutOfBounds(a, n) THEN Exit("raised") /\ UNCHANGED tx
        ELSE WriteThen(Reply(a, n), "serve")
  /\ idle' = 0
  /\ UNCHANGED <<verb, stage, tries, got, fin>>

\* A SysEx that is no request is passed over, and no clock is looked at.
ServeOther ==
  /\ Serving("noise") \/ Serving("identity")
  /\ idle' \in {idle, idle + 1} /\ idle' <= MaxIdle
  /\ UNCHANGED <<verb, stage, pc, conn, tries, got, fin, result, tx>>

\* Mutant: silence is waited out without a limit.
ServeNothingForever ==
  /\ pc = "serve" /\ ReceiveNothing
  /\ UNCHANGED cvars

\* read_sysex returned None: a second of silence, or another event.
ServeNothing ==
  /\ pc = "serve"
  /\ \/ ReceiveNothing /\ idle' = idle + 1
     \/ ReceiveOther /\ idle' = idle
  /\ pc' = IF idle' >= Stop THEN "served" ELSE "serve"
  /\ UNCHANGED <<verb, stage, conn, tries, got, fin, result, tx>>

\* Mutant: any terminal address counts as the end of the stage.
DoneEither == fin[stage] # "none"

\* Mutant: serve goes on like flash.
ServedOnward ==
  /\ pc = "served" /\ fin[stage] # "none"
  /\ stage' = stage + 1 /\ pc' = "find" /\ conn' = "closed"
  /\ idle' = 0 /\ rx' = <<>> /\ held' = 0
  /\ UNCHANGED <<verb, tries, got, fin, result, tx>>

(***************************************************************************)
(* After serve_requests: cmd_flash goes on to the next stage when on_finish *)
(* saw what the stage ends with, cmd_serve exits with 0 at 0xF0000000.     *)
(* Stage 1 holds the link for VERIFY_DELAY and closes it; the frames that  *)
(* were not read yet go with the link.                                     *)
(***************************************************************************)
Done == fin[stage] = IF verb = "flash" /\ stage = 1 THEN "verify" ELSE "finish"

Served ==
  /\ pc = "served"
  /\ IF ~Done
       THEN /\ Exit(IF verb = "flash" /\ fin[stage] = "verify"
                      THEN "notFlashed" ELSE "fail")
            /\ UNCHANGED stage
       ELSE IF verb = "serve" THEN Exit("ok") /\ UNCHANGED stage
       ELSE /\ stage' = stage + 1 /\ pc' = "find" /\ conn' = "closed"
            /\ UNCHANGED result
  /\ idle' = 0 /\ rx' = <<>> /\ held' = 0
  /\ UNCHANGED <<verb, tries, got, fin, tx>>

ClientStep ==
  \/ Drain \/ SendQuery \/ AwaitFrame \/ AwaitNothing \/ Check \/ SendUpgrade
  \/ ServeTerminal \/ ServeData \/ ServeOther \/ ServeNothing \/ Served
=============================================================================
