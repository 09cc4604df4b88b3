---------------------------- MODULE UpdateSystem ----------------------------
(***************************************************************************)
(* The whole update: FlashClient on the computer, the FM-1 with its        *)
(* application and its OTA loader, and the bus between them.               *)
(*                                                                         *)
(* The client is FlashClient and the loader OtaLoader, every step of both. *)
(* The application (not under src/ as a program) is what fm1_ota.py and    *)
(* docs/io/11-ota-protocol.md expect of it: it names itself, and upon the  *)
(* update command it refuses in silence or pulls some of the package, asks *)
(* for the verification address and resets into the loader.                *)
(*                                                                         *)
(* What goes wrong: the device leaves the bus at any reset, a frame is     *)
(* lost, the power is cut, the sequencer port shows up late, a stage of    *)
(* the loader fails, and the user runs the program again.                  *)
(***************************************************************************)
EXTENDS OtaWire, Sequences

CONSTANTS
  Expected, NoModel, Attempts, StopAfter, ServeStop, WaitMax, MaxIdle,
  Statuses, MaxReads, MaxRx,
  Verbs,      \* verbs the user runs
  Device,     \* identity of the device and its installed firmware
  Whole,      \* the package's headers select the full update (0x37E2)
  MaxRuns,    \* bound: runs of the program
  MaxLoss,    \* bound: frames lost
  MaxCuts     \* bound: power cuts

ASSUME SystemAssumption ==
  /\ Verbs \subseteq {"flash", "serve"}
  /\ Device.ota = FALSE /\ Expected.ota = FALSE
  /\ Whole \in BOOLEAN
  /\ MaxRuns \in Nat /\ MaxLoss \in Nat /\ MaxCuts \in Nat

VARIABLES
  verb, stage, pc, conn, tries, idle, got, fin, result,       \* client
  lpc, active, waiting, armed, buf, cursor, ltries, full, flash,
  final, record,                                              \* loader
  rx, tx,   \* frames to the client and to the device
  held,     \* of rx, in the client's libasound
  dev,      \* "app", "loader", "reset", or "dead": nothing boots
  pull,     \* the application's update: "no", "data", "wait", "ask", "done"
  before,   \* the flash when the run of the program found the device
  runs, losses, cuts

clientVars == <<verb, stage, pc, conn, tries, idle, got, fin, result, held>>
loopVars   == <<lpc, cursor, ltries, full, active, waiting, armed, buf>>
nvmVars    == <<flash, final, record>>
envVars    == <<before, runs, losses, cuts>>
vars == <<clientVars, loopVars, nvmVars, rx, tx, dev, pull, envVars>>

\* What the device calls itself in each mode
OtaName == [ota |-> TRUE, model |-> Device.model, version |-> Device.version]

Client == INSTANCE FlashClient
Loader == INSTANCE OtaLoader WITH tries <- ltries, Ids <- {OtaName}

AppName == IF Loader!Written THEN Expected ELSE Device

Init ==
  /\ Client!Init /\ verb \in Verbs
  /\ Loader!Fresh
  /\ flash = [b \in Offsets |-> Loader!Old] /\ final = FALSE /\ record = FALSE
  /\ dev = "app" /\ pull = "no"
  /\ before = flash /\ runs = 1 /\ losses = 0 /\ cuts = 0

----------------------------------------------------------------------------
(* The client, seeing the device that is on the bus *)

Mode == CASE dev = "app" -> "normal" [] dev = "loader" -> "ota"
          [] OTHER -> "none"

\* The sequencer port may lag behind lsusb, never the other way round.
Ports == IF Mode = "none" THEN {FALSE} ELSE BOOLEAN

Run ==
  /\ \/ Client!ClientStep
     \/ \E port \in Ports : Client!Open(port) \/ Client!Find(Mode, port)
  /\ before' = IF stage = 1 /\ pc = "find" /\ pc' = "open" THEN flash ELSE before
  /\ UNCHANGED <<loopVars, nvmVars, dev, pull, runs, losses, cuts>>

\* The program is started anew; frames already written are on their way.
Again ==
  /\ pc = "exit" /\ runs < MaxRuns
  /\ verb' \in Verbs
  /\ stage' = 1 /\ pc' = "find" /\ conn' = "closed" /\ tries' = 0 /\ idle' = 0
  /\ got' = [ota |-> FALSE, model |-> NoModel, version |-> 0]
  /\ fin' = [s \in 1 .. 2 |-> "none"] /\ result' = "none"
  /\ rx' = <<>> /\ held' = 0
  /\ runs' = runs + 1
  /\ UNCHANGED <<loopVars, nvmVars, tx, dev, pull, before, losses, cuts>>

----------------------------------------------------------------------------
(* The application *)

Answering == dev = "app" /\ tx # <<>> /\ tx' = Tail(tx)

AppSends(f) == Len(rx) < MaxRx /\ rx' = Append(rx, f)

AppRest == UNCHANGED <<clientVars, loopVars, nvmVars, dev, envVars>>

AppQuery ==
  /\ Answering /\ Head(tx).kind = "query"
  /\ AppSends(Identity(AppName))
  /\ UNCHANGED pull /\ AppRest

\* docs/io/11: an update that changes nothing is refused without a word.
AppUpgrade ==
  /\ Answering /\ Head(tx).kind = "upgrade"
  /\ pull' \in IF pull = "no" THEN {"no", "data"} ELSE {pull}
  /\ UNCHANGED rx /\ AppRest

AppPull(a) ==
  /\ dev = "app" /\ pull = "data"
  /\ AppSends(Request(a, 1))
  /\ pull' = "wait"
  /\ UNCHANGED tx /\ AppRest

AppAsk ==
  /\ dev = "app" /\ pull = "ask"
  /\ AppSends(Request(VERIFY, SuccessLen))
  /\ pull' = "done"
  /\ UNCHANGED tx /\ AppRest

AppData ==
  /\ Answering /\ Head(tx).kind \in {"data", "malformed"}
  /\ pull' = IF pull = "wait" THEN "ask" ELSE pull
  /\ UNCHANGED rx /\ AppRest

\* The device leaves the bus: what it was sent and not handled is gone.
Leave ==
  /\ dev' = "reset" /\ tx' = <<>>
  /\ conn' = IF conn = "live" THEN "dead" ELSE conn
  /\ pull' = "no"
  /\ UNCHANGED <<verb, stage, pc, tries, idle, got, fin, result, rx, held>>

\* The boot record is written and the application resets, reply or not.
AppReset ==
  /\ dev = "app" /\ pull = "done"
  /\ Leave /\ record' = TRUE
  /\ UNCHANGED <<loopVars, flash, final, envVars>>

----------------------------------------------------------------------------
(* The loader *)

LoaderRest == UNCHANGED <<clientVars, dev, pull, envVars>>

LoaderHears ==
  /\ dev = "loader" /\ tx # <<>> /\ tx' = Tail(tx)
  /\ Loader!Dispatch(Head(tx), OtaName)
  /\ LoaderRest

LoaderRuns ==
  /\ dev = "loader"
  /\ \/ Loader!GateStep /\ (lpc = "inspect" => full' = Whole)
     \/ Loader!GateError
     \/ Loader!CheckRead(0, 1)
  /\ UNCHANGED tx /\ LoaderRest

\* chip_restart (0x157A).  That a session which ended leaves no update record
\* behind is the boot code's part, and assumed here.
LoaderRestart ==
  /\ dev = "loader" /\ lpc = "restart"
  /\ Leave /\ record' = FALSE
  /\ UNCHANGED <<loopVars, flash, final, envVars>>

\* From reset: into the loader while the update record asks for it, else
\* into an application whose header and body fit.
Boot ==
  /\ dev = "reset"
  /\ dev' = IF record THEN "loader" ELSE IF Loader!Consistent THEN "app" ELSE "dead"
  /\ lpc' = "poll" /\ cursor' = 0 /\ ltries' = 0 /\ full' = FALSE
  /\ active' = FALSE /\ waiting' = FALSE /\ armed' = Loader!NoRead
  /\ buf' = Loader!Junk
  /\ UNCHANGED <<clientVars, nvmVars, rx, tx, pull, envVars>>

----------------------------------------------------------------------------
(* Faults *)

PowerCut ==
  /\ dev \in {"app", "loader"} /\ cuts < MaxCuts
  /\ cuts' = cuts + 1
  /\ Leave
  /\ UNCHANGED <<loopVars, nvmVars, before, runs, losses>>

\* A queue overrun; the kernel's clears all that libasound did not take.
Lose ==
  /\ losses < MaxLoss /\ losses' = losses + 1
  /\ \/ Client!Readable /\ rx' = SubSeq(rx, 1, held) /\ UNCHANGED tx
     \/ tx # <<>> /\ tx' = Tail(tx) /\ UNCHANGED rx
  /\ UNCHANGED <<clientVars, loopVars, nvmVars, dev, pull, before, runs, cuts>>

\* Nobody is subscribed: what the device sends goes nowhere.
Unheard ==
  /\ conn = "closed" /\ rx # <<>> /\ rx' = <<>> /\ held' = 0
  /\ UNCHANGED <<verb, stage, pc, conn, tries, idle, got, fin, result,
                 loopVars, nvmVars, tx, dev, pull, envVars>>

Next ==
  \/ Run \/ Again
  \/ AppQuery \/ AppUpgrade \/ AppAsk \/ AppData \/ AppReset
  \/ \E a \in Offsets : AppPull(a)
  \/ LoaderHears \/ LoaderRuns \/ LoaderRestart \/ Boot
  \/ PowerCut \/ Lose \/ Unheard

\* The client's process is kept running; nothing is asked of the device.
Spec == Init /\ [][Next]_vars /\ WF_vars(Run)

----------------------------------------------------------------------------
(* Properties *)

Installed == IF Loader!Written THEN "new"
             ELSE IF ~Loader!Touched THEN "old" ELSE "torn"

InstalledBefore == IF \A b \in Offsets : before[b] = {b} THEN "new"
                   ELSE IF \A b \in Offsets : before[b] = Loader!Old
                     THEN "old" ELSE "torn"

Verdict == CASE result = "none" /\ stage = 1 /\ pc = "find" -> "searching"
             [] result = "none" /\ ~(stage = 1 /\ pc = "find") -> "pending"
             [] result \in {"ok", "notFlashed"} -> result
             [] OTHER -> "error"

Promise == INSTANCE PackageUpdate
             WITH installed <- Installed, before <- InstalledBefore,
                  verdict <- Verdict

(***************************************************************************)
(* The update keeps what it promises: exit code 0 only with the package in *)
(* flash, "image was not flashed" only when flash still is what this run   *)
(* found, and the old image never comes back once programming began.       *)
(***************************************************************************)
KeepsPromise == Promise!Spec

(***************************************************************************)
(* "The client validates the device identity" (tools/README.md:19): a      *)
(* device of another model is never put into its loader and never written. *)
(***************************************************************************)
OtherModelLeftAlone ==
  Device.model # Expected.model => pull = "no" /\ ~record /\ ~Loader!Touched

(***************************************************************************)
(* A run of the program comes to an end, whatever the device does and      *)
(* whichever frame is lost, unless the loader's gate fails forever: each   *)
(* new gate reads the package again, and each read restarts the idle clock *)
(* of serve_requests, so only the device can end that.                     *)
(***************************************************************************)
RunEnds ==
  <>[][~(lpc = "poll" /\ lpc' = "inspect")]_vars => (pc = "find" ~> pc = "exit")

(***************************************************************************)
(* An update that goes wrong leaves the device in its loader, where it can *)
(* be flashed again: as long as the power stays on, no failed gate, no     *)
(* lost frame and no client that gave up lets the chip restart into a torn *)
(* application.                                                            *)
(***************************************************************************)
NeverDead == dev = "dead" => cuts > 0

(***************************************************************************)
(* Neither side sends a frame twice, so each must never wait for the other *)
(* at the same time: in a first run that loses no frame, the loader spins  *)
(* on a read (0x101E) while serve_requests listens only when a frame is on *)
(* its way or in the client.  A second run can meet a loader that waits    *)
(* for a reply to a request nobody read, and nothing ends that wait.       *)
(***************************************************************************)
NoMutualWait ==
  losses = 0 /\ runs = 1 /\ dev = "loader" /\ waiting /\ pc = "serve" =>
    conn = "dead" \/ rx # <<>> \/ tx # <<>>

(***************************************************************************)
(* "Answer device read requests until they stop" (fm1_ota.py:287): when    *)
(* serve_requests gives up for lack of requests, none has arrived.         *)
(***************************************************************************)
AnswersUntilTheyStop ==
  [][Client!ServeNothing /\ pc' = "served" =>
       \A i \in DOMAIN rx : rx[i].kind # "request"]_vars
=============================================================================
