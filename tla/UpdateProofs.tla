---------------------------- MODULE UpdateProofs ----------------------------
(***************************************************************************)
(* Four promises of the whole update, for every image, time limit and      *)
(* number of runs, lost frames and power cuts: flash leaves a device of    *)
(* another model alone; while the power stays on no device is left with    *)
(* nothing to boot; in a first run that loses no frame the loader and the  *)
(* client never wait for each other; and the update implements             *)
(* PackageUpdate.                                                          *)
(***************************************************************************)
EXTENDS UpdateSystem, FiniteSetTheorems, SequenceTheorems, TLAPS

----------------------------------------------------------------------------
(* A device of another model: the run never gets past the identity check,  *)
(* so nothing but queries is ever sent, and the device stays as it was.    *)

Foreign == Device.model # Expected.model /\ "serve" \notin Verbs

Asking == {"find", "open", "drain", "query", "await", "check", "exit"}

QuietWire ==
  /\ rx \in Seq({Identity(Device)}) /\ held \in Nat
  /\ tx \in Seq({Query})

QuietClient ==
  /\ verb = "flash" /\ stage = 1 /\ pc \in Asking
  /\ pc = "check" => got = Device

QuietDevice ==
  /\ dev \in {"app", "reset"} /\ pull = "no" /\ record = FALSE
  /\ flash = [b \in Offsets |-> Loader!Old]

OInv == QuietWire /\ QuietClient /\ QuietDevice

(***************************************************************************)
(* An untouched application is neither the package's nor torn, and calls   *)
(* itself what it was.                                                     *)
(***************************************************************************)
LEMMA StillOld ==
  ASSUME QuietDevice
  PROVE  ~Loader!Touched /\ Loader!Consistent /\ AppName = Device
<1>1. ~Loader!Touched
  BY DEF QuietDevice, Loader!Touched, Loader!Offsets, Offsets
<1>2. 0 \in Offsets /\ ImageLen + 1 # 0
  BY WireAssumption DEF Offsets
<1>3. flash[0] # {0}
  BY <1>2 DEF QuietDevice, Loader!Old
<1>4. ~Loader!Written
  BY <1>2, <1>3 DEF Loader!Written, Loader!Offsets, Offsets
<1> QED
  BY <1>1, <1>4 DEF Loader!Consistent, AppName

\* What is left of a queue when a frame is taken from it
LEMMA Taken ==
  ASSUME QuietWire, Client!Receive
  PROVE  Head(rx) = Identity(Device) /\ rx' \in Seq({Identity(Device)}) /\ held' \in Nat
<1>1. rx # <<>> /\ Len(rx) \in Nat \ {0}
  BY DEF QuietWire, Client!Receive, Client!Readable
<1> QED
  BY <1>1 DEF QuietWire, Client!Receive

\* What a read that may find nothing leaves in the queue
LEMMA TakenOrNot ==
  ASSUME QuietWire,
         Client!ReceiveNothing \/ Client!ReceiveOther \/ Client!ReceiveSysEx
  PROVE  rx' \in Seq({Identity(Device)}) /\ held' \in Nat
BY Taken DEF QuietWire, Client!ReceiveNothing, Client!ReceiveOther, Client!ReceiveSysEx

(***************************************************************************)
(* No step of the client goes past the check of the identity.              *)
(***************************************************************************)
LEMMA AskingStep ==
  ASSUME Foreign, OInv, Run
  PROVE  QuietWire' /\ QuietClient'
<1> USE DEF OInv, QuietClient, Asking
<1>1. CASE Client!Drain
  BY <1>1, TakenOrNot DEF Client!Drain, QuietWire
<1>2. CASE Client!SendQuery
  <2>1. Client!Query = Query
    BY DEF Client!Query, Query
  <2>2. tx' \in {tx, Append(tx, Query)}
    BY <1>2, <2>1 DEF Client!SendQuery, Client!WriteThen
  <2>3. tx' \in Seq({Query})
    BY <2>2 DEF QuietWire
  <2>4. pc' \in {"await", "exit"}
    BY <1>2 DEF Client!SendQuery, Client!WriteThen, Client!Exit
  <2> QED
    BY <1>2, <2>3, <2>4 DEF Client!SendQuery, QuietWire
<1>3. CASE Client!AwaitFrame
  <2>1. Client!Receive
    BY <1>3 DEF Client!AwaitFrame, Client!ReceiveSysEx
  <2>2. got' = Device
    BY <1>3, <2>1, Taken DEF Client!AwaitFrame, Identity
  <2> QED
    BY <1>3, <2>1, <2>2, Taken DEF Client!AwaitFrame, QuietWire
<1>4. CASE Client!AwaitNothing
  BY <1>4, TakenOrNot DEF Client!AwaitNothing, QuietWire
<1>5. CASE Client!Check
  BY <1>5 DEF Client!Check, Client!Accepts, Client!Exit, Foreign, QuietWire
<1>6. CASE \E port \in Ports : Client!Open(port) \/ Client!Find(Mode, port)
  <2>1. pc' \in {"open", "find", "drain", "exit"} /\ rx' \in {rx, <<>>} /\ held' \in {held, 0}
    BY <1>6 DEF Client!Open, Client!Find, Client!Exit
  <2>2. UNCHANGED <<verb, stage, tx>>
    BY <1>6 DEF Client!Open, Client!Find
  <2>3. <<>> \in Seq({Identity(Device)})
    OBVIOUS
  <2>4. QuietWire'
    <3>1. rx' \in Seq({Identity(Device)})
      BY <2>1, <2>3 DEF QuietWire
    <3>2. held' \in Nat
      BY <2>1 DEF QuietWire
    <3>3. tx' \in Seq({Query})
      BY <2>2 DEF QuietWire
    <3> QED
      BY <3>1, <3>2, <3>3 DEF QuietWire
  <2> QED
    BY <2>1, <2>2, <2>4
<1>7. ~Client!SendUpgrade /\ ~Client!Served
  BY DEF Client!SendUpgrade, Client!Served
<1>8. ~Client!ServeTerminal /\ ~Client!ServeData /\ ~Client!ServeOther /\ ~Client!ServeNothing
  BY DEF Client!ServeTerminal, Client!ServeData, Client!ServeOther, Client!ServeNothing,
         Client!Serving
<1> QED
  BY <1>1, <1>2, <1>3, <1>4, <1>5, <1>6, <1>7, <1>8 DEF Run, Client!ClientStep

(***************************************************************************)
(* Nor does the device leave its application, whatever happens to it.      *)
(***************************************************************************)
LEMMA OtherModelStep ==
  ASSUME Foreign, OInv, [Next]_vars
  PROVE  OInv'
<1> USE DEF OInv
<1>1. CASE UNCHANGED vars
  BY <1>1 DEF vars, clientVars, nvmVars, QuietWire, QuietClient, QuietDevice
<1>2. CASE Run
  BY <1>2, AskingStep DEF Run, nvmVars, QuietDevice
<1>3. CASE Again
  BY <1>3, SystemAssumption
  DEF Again, nvmVars, Foreign, QuietWire, QuietClient, QuietDevice, Asking
<1>4. CASE AppQuery
  <2>1. tx' \in Seq({Query})
    BY <1>4 DEF AppQuery, Answering, QuietWire
  <2>2. rx' \in Seq({Identity(Device)})
    BY <1>4, StillOld DEF AppQuery, AppSends, QuietWire
  <2> QED
    BY <1>4, <2>1, <2>2
    DEF AppQuery, AppRest, clientVars, nvmVars, QuietWire, QuietClient, QuietDevice
<1>5. ~AppUpgrade /\ ~AppData
  <2>1. Answering => Head(tx) = Query
    BY DEF Answering, QuietWire
  <2> QED
    BY <2>1 DEF AppUpgrade, AppData, Query
<1>6. ~AppAsk /\ ~AppReset /\ \A a \in Offsets : ~AppPull(a)
  BY DEF QuietDevice, AppAsk, AppReset, AppPull
<1>7. ~LoaderHears /\ ~LoaderRuns /\ ~LoaderRestart
  BY DEF QuietDevice, LoaderHears, LoaderRuns, LoaderRestart
<1>8. CASE Boot
  BY <1>8, StillOld
  DEF Boot, clientVars, nvmVars, QuietWire, QuietClient, QuietDevice
<1>9. CASE PowerCut
  BY <1>9 DEF PowerCut, Leave, nvmVars, QuietWire, QuietClient, QuietDevice
<1>10. CASE Lose
  <2>1. ASSUME Client!Readable PROVE SubSeq(rx, 1, held) \in Seq({Identity(Device)})
    BY <2>1, SubSeqProperties DEF Client!Readable, QuietWire
  <2>2. tx # <<>> => Tail(tx) \in Seq({Query})
    BY DEF QuietWire
  <2> QED
    BY <1>10, <2>1, <2>2 DEF Lose, clientVars, nvmVars, QuietWire, QuietClient, QuietDevice
<1>11. CASE Unheard
  BY <1>11 DEF Unheard, nvmVars, QuietWire, QuietClient, QuietDevice
<1> QED
  BY <1>1, <1>2, <1>3, <1>4, <1>5, <1>6, <1>7, <1>8, <1>9, <1>10, <1>11 DEF Next

\* A device of another model starts out untouched.
LEMMA OtherModelInit == ASSUME Foreign, Init PROVE OInv
BY SystemAssumption
DEF Init, Client!Init, Foreign, OInv, QuietWire, QuietClient, QuietDevice, Asking

(***************************************************************************)
(* flash, however often it is run, never gets a device of another model to *)
(* pull the package, to leave for its loader or to write its flash.  With  *)
(* the verb serve this is not so.                                          *)
(***************************************************************************)
THEOREM OtherModelSafe ==
  ASSUME "serve" \notin Verbs
  PROVE  Spec => []OtherModelLeftAlone
<1>1. CASE Device.model = Expected.model
  <2>1. OtherModelLeftAlone
    BY <1>1 DEF OtherModelLeftAlone
  <2> QED
    BY <2>1, PTL
<1>2. CASE Device.model # Expected.model
  <2>1. Foreign
    BY <1>2 DEF Foreign
  <2>2. Init => OInv
    BY <2>1, OtherModelInit
  <2>3. OInv /\ [Next]_vars => OInv'
    BY <2>1, OtherModelStep
  <2>4. OInv => OtherModelLeftAlone
    BY StillOld DEF OInv, QuietDevice, OtherModelLeftAlone
  <2> QED
    BY <2>2, <2>3, <2>4, PTL DEF Spec
<1> QED
  BY <1>1, <1>2

----------------------------------------------------------------------------
(* A device that boots: the chip restarts only from the end of a gate, and *)
(* a gate comes to its end only over an application that checks.           *)

\* Stages after the read-back, or after partition callbacks
Ending == {"finalize", "handshake", "answer", "restart"}

\* Stages that a package of parts never gets to
FullOnly == {"heads", "plan", "erase", "program", "store", "verify", "finalize"}

PathInv ==
  /\ lpc \in Ending => Loader!Consistent
  /\ Whole => lpc # "callbacks"
  /\ ~Whole => ~Loader!Touched /\ lpc \notin FullOnly

BootInv ==
  /\ cuts \in Nat
  /\ cuts = 0 => /\ dev # "dead"
                 /\ dev = "reset" /\ ~record => Loader!Consistent

DInv == PathInv /\ BootInv

\* What is in flash decides.
LEMMA SameFlash ==
  ASSUME flash' = flash
  PROVE  Loader!Consistent' = Loader!Consistent /\ Loader!Touched' = Loader!Touched
BY DEF Loader!Consistent, Loader!Touched, Loader!Written

\* A step that changes neither flash nor the loader's place keeps PathInv.
LEMMA SamePath ==
  ASSUME PathInv, flash' = flash, lpc' = lpc
  PROVE  PathInv'
BY SameFlash DEF PathInv

(***************************************************************************)
(* The stages follow one another; programming ends with the read-back.     *)
(***************************************************************************)
LEMMA PathStep ==
  ASSUME PathInv, LoaderRuns
  PROVE  PathInv'
<1> USE DEF Ending, FullOnly
<1>1. CASE Loader!GateStep /\ (lpc = "inspect" => full' = Whole)
  <2>1. CASE Loader!EnterGate
    BY <2>1, SameFlash DEF Loader!EnterGate, Loader!Goto, Loader!nvm, PathInv
  <2>2. CASE Loader!Callbacks
    BY <2>2, SameFlash, SystemAssumption
    DEF Loader!Callbacks, Loader!At, Loader!Goto, Loader!nvm, PathInv, Loader!Consistent
  <2>3. CASE Loader!Heads \/ Loader!Plan
    BY <2>3, SameFlash DEF Loader!Heads, Loader!Plan, Loader!At, Loader!Goto, Loader!nvm, PathInv
  <2>4. CASE \E f \in BOOLEAN : Loader!Inspect(f)
    BY <1>1, <2>4, SameFlash DEF Loader!Inspect, Loader!At, Loader!Goto, Loader!nvm, PathInv
  <2>5. CASE Loader!Erase \/ Loader!Store
    BY <2>5 DEF Loader!Erase, Loader!Store, Loader!At, PathInv
  <2>6. CASE Loader!ProgramRead \/ Loader!ProgramDone
    BY <2>6, SameFlash
    DEF Loader!ProgramRead, Loader!ProgramDone, Loader!At, Loader!Goto, Loader!nvm, PathInv
  <2>7. CASE Loader!Verify
    BY <2>7, SameFlash DEF Loader!Verify, Loader!At, Loader!Goto, Loader!nvm, PathInv
  <2>8. CASE Loader!Finalize
    BY <2>8, SameFlash DEF Loader!Finalize, Loader!At, Loader!Goto, PathInv
  <2>9. CASE Loader!FinishRequest \/ Loader!FinishRetry \/ Loader!FinishGate
    BY <2>9, SameFlash
    DEF Loader!FinishRequest, Loader!FinishRetry, Loader!FinishGate, Loader!At, Loader!Goto,
        Loader!nvm, PathInv
  <2> QED
    BY <1>1, <2>1, <2>2, <2>3, <2>4, <2>5, <2>6, <2>7, <2>8, <2>9 DEF Loader!GateStep
<1>2. CASE Loader!GateError
  <2>1. lpc' = "poll"
    BY <1>2
    DEF Loader!GateError, Loader!ProgramFails, Loader!CheckFails, Loader!VerifyFails,
        Loader!FinalizeFails, Loader!Fail, Loader!Goto
  <2>2. flash' = flash \/ lpc = "verify"
    BY <1>2
    DEF Loader!GateError, Loader!ProgramFails, Loader!CheckFails, Loader!VerifyFails,
        Loader!FinalizeFails, Loader!At
  <2> QED
    BY <2>1, <2>2, SameFlash DEF PathInv
<1>3. CASE Loader!CheckRead(0, 1)
  BY <1>3, SamePath DEF Loader!CheckRead, Loader!nvm
<1> QED
  BY <1>1, <1>2, <1>3 DEF LoaderRuns

(***************************************************************************)
(* While the power stays on, only the end of a gate leads to a reset that  *)
(* finds no update record.                                                 *)
(***************************************************************************)
LEMMA BootStep ==
  ASSUME DInv, [Next]_vars
  PROVE  DInv'
<1> USE DEF DInv
<1>1. CASE UNCHANGED vars
  BY <1>1, SamePath, SameFlash DEF vars, loopVars, nvmVars, envVars, BootInv
<1>2. CASE Run
  BY <1>2, SamePath, SameFlash DEF Run, loopVars, nvmVars, envVars, BootInv
<1>3. CASE Again
  BY <1>3, SamePath, SameFlash DEF Again, loopVars, nvmVars, BootInv
<1>4. CASE AppQuery \/ AppUpgrade \/ AppAsk \/ AppData \/ \E a \in Offsets : AppPull(a)
  <2>1. AppRest
    BY <1>4 DEF AppQuery, AppUpgrade, AppAsk, AppData, AppPull
  <2> QED
    BY <2>1, SamePath, SameFlash DEF AppRest, loopVars, nvmVars, envVars, BootInv
<1>5. CASE AppReset
  BY <1>5, SamePath DEF AppReset, Leave, loopVars, envVars, BootInv
<1>6. CASE LoaderHears
  <2>1. UNCHANGED <<lpc, flash, record, dev, cuts>>
    BY <1>6 DEF LoaderHears, LoaderRest, Loader!Dispatch, Loader!loop, Loader!nvm, envVars
  <2> QED
    BY <2>1, SamePath, SameFlash DEF BootInv
<1>7. CASE LoaderRuns
  <2>1. dev = "loader" /\ UNCHANGED <<dev, cuts>>
    BY <1>7 DEF LoaderRuns, LoaderRest, envVars
  <2> QED
    BY <1>7, <2>1, PathStep DEF BootInv
<1>8. CASE LoaderRestart
  BY <1>8, SamePath, SameFlash
  DEF LoaderRestart, Leave, loopVars, envVars, PathInv, BootInv, Ending
<1>9. CASE Boot
  BY <1>9, SameFlash DEF Boot, nvmVars, envVars, PathInv, BootInv, Ending, FullOnly
<1>10. CASE PowerCut
  BY <1>10, SamePath DEF PowerCut, loopVars, nvmVars, BootInv
<1>11. CASE Lose \/ Unheard
  BY <1>11, SamePath, SameFlash DEF Lose, Unheard, loopVars, nvmVars, envVars, BootInv
<1> QED
  BY <1>1, <1>2, <1>3, <1>4, <1>5, <1>6, <1>7, <1>8, <1>9, <1>10, <1>11 DEF Next

\* At first the old image is whole and no gate is under way.
LEMMA BootInit == Init => DInv
BY SystemAssumption
DEF Init, Loader!Fresh, Loader!Touched, Loader!Offsets, Offsets, DInv, PathInv, BootInv,
    Ending, FullOnly

(***************************************************************************)
(* As long as the power stays on, no failed gate, no lost frame and no     *)
(* client that gave up leaves a device with nothing to boot: for packages  *)
(* of any length, full or in parts, and any number of runs and gates.      *)
(***************************************************************************)
THEOREM DeviceAlive == Spec => []NeverDead
<1>1. DInv => NeverDead
  BY DEF DInv, BootInv, NeverDead
<1> QED
  BY <1>1, BootInit, BootStep, PTL DEF Spec

----------------------------------------------------------------------------
(* Both sides waiting for each other: in a first run a loader is idle until *)
(* the update command of its own connection; from then on the request it   *)
(* waits on is in the queue, or the reply is, or the connection is dead.   *)

Has(queue, kind) == \E i \in DOMAIN queue : queue[i].kind = kind

\* A queue grows by one frame, or loses its first.
LEMMA HasAppend ==
  ASSUME NEW S, NEW q \in Seq(S), NEW m \in S, NEW kind
  PROVE  Has(Append(q, m), kind) <=> Has(q, kind) \/ m.kind = kind
<1>1. DOMAIN Append(q, m) = 1 .. Len(q) + 1 /\ DOMAIN q = 1 .. Len(q) /\ Len(q) \in Nat
  OBVIOUS
<1>2. \A i \in DOMAIN Append(q, m) : Append(q, m)[i] = IF i \in DOMAIN q THEN q[i] ELSE m
  BY <1>1
<1>3. Len(q) + 1 \in DOMAIN Append(q, m) /\ Len(q) + 1 \notin DOMAIN q
  BY <1>1
<1> QED
  BY <1>1, <1>2, <1>3 DEF Has

\* Of the frames in a queue the first is taken.
LEMMA HasTail ==
  ASSUME NEW S, NEW q \in Seq(S), q # <<>>, NEW kind
  PROVE  Has(q, kind) <=> Has(Tail(q), kind) \/ Head(q).kind = kind
<1>1. Len(q) \in Nat \ {0} /\ DOMAIN q = 1 .. Len(q) /\ DOMAIN Tail(q) = 1 .. Len(q) - 1
  OBVIOUS
<1>2. \A i \in DOMAIN Tail(q) : Tail(q)[i] = q[i + 1] /\ i + 1 \in DOMAIN q
  BY <1>1
<1>3. \A i \in DOMAIN q : i = 1 \/ (i - 1 \in DOMAIN Tail(q) /\ (i - 1) + 1 = i)
  BY <1>1
<1>4. 1 \in DOMAIN q /\ Head(q) = q[1]
  BY <1>1
<1> QED
  BY <1>2, <1>3, <1>4 DEF Has

Heard == [kind : {"request"}, addr : Nat, len : Nat] \cup [kind : {"identity"}, id : {OtaName, Device, Expected}]

Sent == {Query, Upgrade, Malformed} \cup [kind : {"data"}, addr : Nat, len : Nat, payload : Payloads]

\* Places before a connection's update command
Pre == {"find", "open", "drain", "query", "await", "check", "upgrade"}
Connected == {"drain", "query", "await", "check", "upgrade", "serve", "served"}

QueueInv ==
  /\ rx \in Seq(Heard) /\ tx \in Seq(Sent) /\ held \in Nat
  /\ cursor \in Nat /\ (lpc = "store" => cursor > 0)
  /\ runs \in Nat \ {0} /\ losses \in Nat

PlaceInv ==
  /\ stage \in 1 .. 3 /\ pc \in Pre \cup {"serve", "served", "exit"}
  /\ conn \in {"closed", "live", "dead"}
  /\ pc \in Connected => conn # "closed"
  /\ pc \in {"upgrade", "serve", "served"} => stage # 3
  /\ conn = "live" => dev \in {"app", "loader"}
  /\ dev \notin {"app", "loader"} => tx = <<>>

Idle == lpc = "poll" /\ active = FALSE /\ waiting = FALSE /\ ~Has(tx, "upgrade")

FirstRun ==
  /\ stage = 1 /\ pc \in Pre =>
       dev # "loader" /\ record = FALSE /\ pull = "no" /\ ~Has(tx, "upgrade")
  /\ stage = 1 /\ conn = "live" => dev = "app"
  /\ dev = "loader" /\ (stage = 1 \/ (stage = 2 /\ pc \in Pre)) => Idle

NothingMissed ==
  dev = "loader" /\ waiting /\ pc = "serve" /\ conn = "live" =>
    Has(rx, "request") \/ Has(tx, "data")

WInv == /\ QueueInv /\ PlaceInv
        /\ runs = 1 => FirstRun
        /\ runs = 1 /\ losses = 0 => NothingMissed

\* The two modules speak of the same frames.
LEMMA SameFrames ==
  /\ Client!Query = Query /\ Client!Upgrade = Upgrade /\ Client!Terminal = Terminal
  /\ \A a : Client!SuccessReply(a) = SuccessReply(a)
  /\ \A a, n : Client!Reply(a, n) = Reply(a, n) /\ Client!OutOfBounds(a, n) = OutOfBounds(a, n)
  /\ \A a, n : Loader!Request(a, n) = Request(a, n)
  /\ \A i : Loader!Identity(i) = Identity(i)
<1>1. Client!Query = Query /\ Client!Upgrade = Upgrade /\ Client!Terminal = Terminal
  BY DEF Client!Query, Query, Client!Upgrade, Upgrade, Client!Terminal, Terminal
<1>2. \A a : Client!SuccessReply(a) = SuccessReply(a)
  BY DEF Client!SuccessReply, SuccessReply, Client!Data, Data, Client!Success, Success
<1>3. ASSUME NEW a, NEW n
      PROVE  Client!Reply(a, n) = Reply(a, n) /\ Client!OutOfBounds(a, n) = OutOfBounds(a, n)
  <2>1. Client!Slice(a, n) = Slice(a, n)
    BY DEF Client!Slice, Slice, Client!Offsets, Offsets
  <2>2. Client!Buildable(a, n) = Buildable(a, n)
    BY <2>1 DEF Client!Buildable, Buildable, Client!Cardinality, Cardinality
  <2>3. Client!Malformed = Malformed /\ \A s : Client!Data(a, n, s) = Data(a, n, s)
    BY DEF Client!Malformed, Malformed, Client!Data, Data
  <2> QED
    BY <2>1, <2>2, <2>3 DEF Client!Reply, Reply, Client!OutOfBounds, OutOfBounds
<1>4. \A a, n : Loader!Request(a, n) = Request(a, n)
  BY DEF Loader!Request, Request
<1>5. \A i : Loader!Identity(i) = Identity(i)
  BY DEF Loader!Identity, Identity
<1> QED
  BY <1>1, <1>2, <1>3, <1>4, <1>5

\* A request within the image gets a reply that is no malformed frame.
LEMMA InBounds ==
  ASSUME NEW a \in Nat, NEW n \in Nat, ~OutOfBounds(a, n)
  PROVE  Reply(a, n) \in Sent /\ Reply(a, n).kind = "data"
<1>1. Slice(a, n) = a .. (a + n - 1)
  BY WireAssumption DEF OutOfBounds, Slice, Offsets
<1>2. Cardinality(a .. (a + n - 1)) = n
  <2>1. a \in Int /\ a + n - 1 \in Int
    OBVIOUS
  <2>2. Cardinality(a .. (a + n - 1)) =
          IF a > a + n - 1 THEN 0 ELSE (a + n - 1) - a + 1
    BY <2>1, FS_Interval
  <2> QED
    BY <2>2
<1>3. Reply(a, n) = Data(a, n, Slice(a, n))
  BY <1>1, <1>2, WireAssumption DEF OutOfBounds, Reply, Buildable
<1>4. Slice(a, n) \in Payloads
  BY DEF Slice, Payloads
<1> QED
  BY <1>3, <1>4 DEF Data, Sent

\* The answer to a terminal request is a data frame.
LEMMA Terminals ==
  ASSUME NEW a \in Terminal
  PROVE  SuccessReply(a) \in Sent /\ SuccessReply(a).kind = "data"
BY WireAssumption DEF Terminal, SuccessReply, Data, Sent, Payloads

\* A frame that the client takes is one the device sends.
LEMMA Received ==
  ASSUME QueueInv, Client!Receive
  PROVE  /\ rx # <<>> /\ Head(rx) \in Heard /\ rx' = Tail(rx)
         /\ rx' \in Seq(Heard) /\ held' \in Nat
<1>1. rx # <<>> /\ Len(rx) \in Nat \ {0}
  BY DEF QueueInv, Client!Receive, Client!Readable
<1> QED
  BY <1>1 DEF QueueInv, Client!Receive

\* What a read that may find nothing leaves in the queue
LEMMA ReceivedOrNot ==
  ASSUME QueueInv,
         Client!ReceiveNothing \/ Client!ReceiveOther \/ Client!ReceiveSysEx
  PROVE  rx' \in Seq(Heard) /\ held' \in Nat
BY Received
DEF QueueInv, Client!ReceiveNothing, Client!ReceiveOther, Client!ReceiveSysEx

\* What is written reaches a device that is there, and no other.
LEMMA Writes ==
  ASSUME QueueInv, PlaceInv, NEW m \in Sent, NEW next, Client!WriteThen(m, next)
  PROVE  /\ tx' \in Seq(Sent)
         /\ conn = "live" => tx' = Append(tx, m) /\ pc' = next /\ conn' = "live"
         /\ conn # "live" => tx' = tx /\ conn' # "live"
         /\ (pc' = next /\ conn' = conn) \/ (pc' = "exit" /\ conn' = "closed")
<1>1. CASE conn = "live"
  <2>1. tx' = Append(tx, m) /\ pc' = next /\ conn' = conn
    BY <1>1 DEF Client!WriteThen
  <2>2. tx' \in Seq(Sent)
    BY <2>1 DEF QueueInv
  <2> QED
    BY <1>1, <2>1, <2>2
<1>2. CASE conn # "live"
  <2>1. conn = "dead" /\ tx' = tx
    BY <1>2 DEF Client!WriteThen
  <2>2. (pc' = next /\ conn' = conn) \/ (pc' = "exit" /\ conn' = "closed")
    BY <1>2, <2>1 DEF Client!WriteThen, Client!Exit
  <2> QED
    BY <2>1, <2>2 DEF QueueInv
<1> QED
  BY <1>1, <1>2

(***************************************************************************)
(* What a step of the client does, by where the client is.                 *)
(***************************************************************************)
Effect ==
  /\ rx' \in Seq(Heard) /\ tx' \in Seq(Sent) /\ held' \in Nat
  /\ conn # "live" => tx' = tx
  /\ conn' \in {"closed", "live", "dead"}
  /\ conn' = "live" => conn = "live" \/ dev \in {"app", "loader"}
  /\ pc' \in Connected => conn' # "closed"

Before ==
  /\ pc \in Pre \ {"upgrade"} /\ stage' = stage /\ pc' \in Pre \cup {"exit"}
  /\ Has(tx', "upgrade") => Has(tx, "upgrade")
  /\ stage = 3 => pc' # "upgrade"

Commands == pc = "upgrade" /\ stage' = stage /\ pc' \in {"serve", "exit"}

Serves ==
  /\ pc = "serve" /\ stage' = stage /\ pc' \in {"serve", "served", "exit"}
  /\ conn' = "live" => conn = "live"
  /\ pc' = "serve" /\ conn = "live" /\ (Has(rx, "request") \/ Has(tx, "data")) =>
       Has(rx', "request") \/ Has(tx', "data")

Leaves ==
  /\ pc = "served" /\ conn' = "closed"
  /\ (pc' = "exit" /\ stage' = stage) \/ (pc' = "find" /\ stage' = stage + 1)

\* Up to the update command: the connection's places, and no other frame than
\* the query is sent.
LEMMA BeforeStep ==
  ASSUME QueueInv, PlaceInv,
         \/ Client!Drain \/ Client!SendQuery \/ Client!AwaitFrame \/ Client!AwaitNothing
         \/ Client!Check \/ \E port \in Ports : Client!Open(port) \/ Client!Find(Mode, port)
  PROVE  Effect /\ Before
<1> USE DEF PlaceInv, Pre, Connected, Effect, Before
<1>1. CASE Client!Drain
  BY <1>1, ReceivedOrNot DEF Client!Drain, QueueInv
<1>2. CASE Client!SendQuery
  <2>1. Query \in Sent /\ Query.kind # "upgrade"
    BY DEF Sent, Query
  <2>2. CASE tries = 0
    BY <1>2, <2>2 DEF Client!SendQuery, Client!Exit, QueueInv
  <2>3. CASE tries # 0
    <3>1. Client!WriteThen(Query, "await")
      BY <1>2, <2>3, SameFrames DEF Client!SendQuery
    <3>2. /\ tx' \in Seq(Sent) /\ (conn # "live" => tx' = tx)
          /\ tx' = tx \/ tx' = Append(tx, Query)
          /\ (pc' = "await" /\ conn' = conn) \/ (pc' = "exit" /\ conn' = "closed")
      BY <3>1, <2>1, Writes
    <3>3. Has(tx', "upgrade") => Has(tx, "upgrade")
      <4>1. Has(Append(tx, Query), "upgrade") <=> Has(tx, "upgrade")
        BY <2>1, HasAppend DEF QueueInv
      <4> QED
        BY <3>2, <4>1
    <3> QED
      BY <1>2, <3>2, <3>3 DEF Client!SendQuery, QueueInv
  <2> QED
    BY <2>2, <2>3
<1>3. CASE Client!AwaitFrame
  BY <1>3, Received DEF Client!AwaitFrame, Client!ReceiveSysEx, QueueInv
<1>4. CASE Client!AwaitNothing
  BY <1>4, ReceivedOrNot DEF Client!AwaitNothing, QueueInv
<1>5. CASE Client!Check
  BY <1>5 DEF Client!Check, Client!Exit, QueueInv
<1>6. CASE \E port \in Ports : Client!Open(port)
  <2>1. PICK port \in Ports : Client!Open(port)
    BY <1>6
  <2>2. port => dev \in {"app", "loader"}
    BY <2>1 DEF Ports, Mode
  <2>3. <<>> \in Seq(Heard)
    OBVIOUS
  <2>4. rx' \in {rx, <<>>} /\ held' \in {held, 0}
    BY <2>1 DEF Client!Open
  <2>5. rx' \in Seq(Heard) /\ held' \in Nat
    <3>1. rx' \in Seq(Heard)
      BY <2>3, <2>4 DEF QueueInv
    <3> QED
      BY <2>4, <3>1 DEF QueueInv
  <2> QED
    BY <2>1, <2>2, <2>5 DEF Client!Open, Client!Exit, QueueInv
<1>7. CASE \E port \in Ports : Client!Find(Mode, port)
  <2>1. PICK port \in Ports : Client!Find(Mode, port)
    BY <1>7
  <2>2. UNCHANGED <<stage, rx, held, tx>>
    BY <2>1 DEF Client!Find
  <2>3. pc = "find"
    BY <2>1 DEF Client!Find
  <2>4. (pc' \in {"open", "find"} /\ conn' = conn) \/ (pc' = "exit" /\ conn' = "closed")
    <3>1. CASE Client!Suits(Mode, port)
      BY <2>1, <3>1 DEF Client!Find
    <3>2. CASE ~Client!Suits(Mode, port)
      BY <2>1, <2>3, <3>2 DEF Client!Find, Client!Exit
    <3> QED
      BY <3>1, <3>2
  <2> QED
    BY <2>2, <2>3, <2>4 DEF QueueInv
<1> QED
  BY <1>1, <1>2, <1>3, <1>4, <1>5, <1>6, <1>7

\* From the update command on: every request is answered.
LEMMA ServeStep ==
  ASSUME QueueInv, PlaceInv,
         \/ Client!SendUpgrade \/ Client!ServeTerminal \/ Client!ServeData
         \/ Client!ServeOther \/ Client!ServeNothing \/ Client!Served
  PROVE  Effect /\ (Commands \/ Serves \/ Leaves)
<1> USE DEF PlaceInv, Connected, Effect
<1>1. CASE Client!SendUpgrade
  <2>1. Upgrade \in Sent /\ Client!WriteThen(Upgrade, "serve")
    BY <1>1, SameFrames DEF Client!SendUpgrade, Sent
  <2>2. /\ tx' \in Seq(Sent) /\ (conn # "live" => tx' = tx)
        /\ (pc' = "serve" /\ conn' = conn) \/ (pc' = "exit" /\ conn' = "closed")
    BY <2>1, Writes
  <2> QED
    BY <1>1, <2>2 DEF Client!SendUpgrade, QueueInv, Commands
<1>2. ASSUME NEW m \in Sent, m.kind = "data", NEW next \in {"serve", "served"},
             pc = "serve", Client!Receive, Client!WriteThen(m, next), stage' = stage
      PROVE  Effect /\ Serves
  <2>1. /\ tx' \in Seq(Sent) /\ (conn # "live" => tx' = tx)
        /\ conn = "live" => tx' = Append(tx, m)
        /\ (pc' = next /\ conn' = conn) \/ (pc' = "exit" /\ conn' = "closed")
    BY <1>2, Writes
  <2>2. Has(Append(tx, m), "data")
    BY <1>2, HasAppend DEF QueueInv
  <2>3. Effect
    BY <1>2, <2>1, Received
  <2> QED
    BY <1>2, <2>1, <2>2, <2>3 DEF Serves
<1>3. CASE Client!ServeTerminal
  <2>1. Head(rx).addr \in Terminal
    BY <1>3, SameFrames DEF Client!ServeTerminal
  <2>2. SuccessReply(Head(rx).addr) \in Sent /\ SuccessReply(Head(rx).addr).kind = "data"
    BY <2>1, Terminals
  <2>3. \E next \in {"serve", "served"} : Client!WriteThen(SuccessReply(Head(rx).addr), next)
    BY <1>3, SameFrames DEF Client!ServeTerminal
  <2>4. pc = "serve" /\ Client!Receive /\ stage' = stage
    BY <1>3 DEF Client!ServeTerminal, Client!Serving
  <2> QED
    BY <1>2, <2>2, <2>3, <2>4
<1>4. CASE Client!ServeData
  <2>1. pc = "serve" /\ Client!Receive /\ Head(rx).kind = "request" /\ stage' = stage
    BY <1>4 DEF Client!ServeData, Client!Serving
  <2>2. Head(rx).addr \in Nat /\ Head(rx).len \in Nat
    BY <2>1, Received DEF Heard
  <2>3. CASE OutOfBounds(Head(rx).addr, Head(rx).len)
    <3>1. Client!Exit("raised") /\ tx' = tx
      BY <1>4, <2>3, SameFrames DEF Client!ServeData
    <3> QED
      BY <2>1, <3>1, Received DEF Client!Exit, QueueInv, Serves
  <2>4. CASE ~OutOfBounds(Head(rx).addr, Head(rx).len)
    <3>1. Client!WriteThen(Reply(Head(rx).addr, Head(rx).len), "serve")
      BY <1>4, <2>4, SameFrames DEF Client!ServeData
    <3>2. /\ Reply(Head(rx).addr, Head(rx).len) \in Sent
          /\ Reply(Head(rx).addr, Head(rx).len).kind = "data"
      BY <2>2, <2>4, InBounds
    <3> QED
      BY <1>2, <2>1, <3>1, <3>2
  <2> QED
    BY <2>3, <2>4
<1>5. CASE Client!ServeOther
  <2>1. pc = "serve" /\ Client!Receive /\ Head(rx).kind # "request"
    BY <1>5 DEF Client!ServeOther, Client!Serving
  <2>2. UNCHANGED <<stage, pc, conn, tx>>
    BY <1>5 DEF Client!ServeOther
  <2>3. Has(rx, "request") => Has(rx', "request")
    BY <2>1, Received, HasTail DEF QueueInv
  <2> QED
    BY <2>1, <2>2, <2>3, Received DEF QueueInv, Serves
<1>6. CASE Client!ServeNothing
  <2>1. pc = "serve" /\ pc' \in {"serve", "served"} /\ UNCHANGED <<stage, conn, tx>>
    BY <1>6 DEF Client!ServeNothing
  <2>2. Has(rx, "request") => Has(rx', "request")
    <3>1. CASE Client!ReceiveNothing
      BY <3>1 DEF Client!ReceiveNothing
    <3>2. CASE Client!ReceiveOther
      BY <3>2, Received, HasTail DEF Client!ReceiveOther, QueueInv
    <3> QED
      BY <1>6, <3>1, <3>2 DEF Client!ServeNothing
  <2>3. rx' \in Seq(Heard) /\ held' \in Nat
    BY <1>6, ReceivedOrNot DEF Client!ServeNothing
  <2> QED
    BY <2>1, <2>2, <2>3 DEF QueueInv, Serves
<1>7. CASE Client!Served
  <2>1. pc = "served" /\ rx' = <<>> /\ held' = 0 /\ tx' = tx /\ conn' = "closed"
    BY <1>7 DEF Client!Served, Client!Exit
  <2>2. (pc' = "exit" /\ stage' = stage) \/ (pc' = "find" /\ stage' = stage + 1)
    BY <1>7 DEF Client!Served, Client!Exit
  <2>3. <<>> \in Seq(Heard)
    OBVIOUS
  <2> QED
    BY <2>1, <2>2, <2>3 DEF QueueInv, Leaves
<1> QED
  BY <1>1, <1>3, <1>4, <1>5, <1>6, <1>7

(***************************************************************************)
(* A step of the client keeps the invariant.                               *)
(***************************************************************************)
LEMMA RunKept ==
  ASSUME WInv, Run
  PROVE  WInv'
<1> USE DEF WInv, PlaceInv
<1>1. UNCHANGED <<dev, lpc, active, waiting, cursor, record, pull, runs, losses>>
  BY DEF Run, loopVars, nvmVars, envVars
<1>2. Effect /\ (Before \/ Commands \/ Serves \/ Leaves)
  BY BeforeStep, ServeStep DEF Run, Client!ClientStep
<1>3. QueueInv'
  BY <1>1, <1>2 DEF QueueInv, Effect
<1>4. PlaceInv'
  BY <1>1, <1>2 DEF Effect, Before, Commands, Serves, Leaves, Pre, Connected
<1>5. ASSUME runs = 1 PROVE FirstRun'
  <2>1. conn # "live" => tx' = tx
    BY <1>2 DEF Effect
  <2>2. CASE Before
    BY <1>1, <1>2, <1>5, <2>1, <2>2 DEF Before, Effect, FirstRun, Idle, Pre, Connected
  <2>3. CASE Commands \/ Serves
    BY <1>1, <1>2, <1>5, <2>1, <2>3 DEF Commands, Serves, Effect, FirstRun, Idle, Pre
  <2>4. CASE Leaves
    BY <1>1, <1>2, <1>5, <2>1, <2>4 DEF Leaves, Effect, FirstRun, Idle, Pre, Connected
  <2> QED
    BY <1>2, <2>2, <2>3, <2>4
<1>6. ASSUME runs = 1, losses = 0 PROVE NothingMissed'
  <2>1. CASE pc = "upgrade"
    BY <1>1, <1>6, <2>1 DEF NothingMissed, FirstRun, Idle, Pre
  <2>2. CASE pc # "upgrade"
    BY <1>1, <1>2, <1>6, <2>2 DEF NothingMissed, Effect, Before, Commands, Serves, Leaves, Pre
  <2> QED
    BY <2>1, <2>2
<1> QED
  BY <1>1, <1>3, <1>4, <1>5, <1>6

(***************************************************************************)
(* The loader waits only after it has queued a request, and an idle one    *)
(* does nothing.                                                           *)
(***************************************************************************)
Asks == \/ rx' = rx /\ waiting' = waiting
        \/ \E a, n \in Nat : rx' = Append(rx, Request(a, n))

\* A read that the loader starts puts its request in the queue.
LEMMA LoaderAsks ==
  ASSUME QueueInv, LoaderRuns
  PROVE  /\ Asks
         /\ cursor' \in Nat /\ (lpc' = "store" => cursor' > 0)
         /\ lpc = "poll" => active
<1> USE DEF Asks, Loader!At, Loader!Goto
<1>1. cursor \in Nat /\ (lpc = "store" => cursor > 0)
  BY DEF QueueInv
<1>2. ImageLen \in Nat /\ FINISH \in Nat /\ SuccessLen \in Nat
  BY WireAssumption
<1>3. ASSUME NEW a \in Nat, NEW n \in Nat, Loader!StartRead(a, n) PROVE Asks
  BY <1>3, SameFrames DEF Loader!StartRead
<1>4. Loader!NoRequest => rx' = rx /\ waiting' = waiting
  BY DEF Loader!NoRequest, Loader!link
<1>5. CASE Loader!EnterGate
  BY <1>4, <1>5 DEF Loader!EnterGate
<1>6. CASE Loader!Callbacks \/ Loader!Heads \/ Loader!Plan \/ \E f \in BOOLEAN : Loader!Inspect(f)
  BY <1>4, <1>6 DEF Loader!Callbacks, Loader!Heads, Loader!Plan, Loader!Inspect
<1>7. CASE Loader!Erase \/ Loader!Store \/ Loader!ProgramDone
  BY <1>1, <1>2, <1>4, <1>7 DEF Loader!Erase, Loader!Store, Loader!ProgramDone
<1>8. CASE Loader!ProgramRead
  <2>1. cursor > 0 /\ cursor - 1 \in Nat /\ Loader!StartRead(cursor - 1, 1)
    BY <1>1, <1>8 DEF Loader!ProgramRead
  <2>2. cursor' = cursor /\ lpc = "program"
    BY <1>8 DEF Loader!ProgramRead
  <2> QED
    BY <1>1, <1>3, <2>1, <2>2
<1>9. CASE Loader!Verify \/ Loader!Finalize
  BY <1>4, <1>9 DEF Loader!Verify, Loader!Finalize
<1>10. CASE Loader!FinishRequest
  BY <1>1, <1>2, <1>3, <1>10 DEF Loader!FinishRequest
<1>11. CASE Loader!FinishRetry \/ Loader!FinishGate
  BY <1>1, <1>4, <1>11 DEF Loader!FinishRetry, Loader!FinishGate, Loader!link
<1>12. CASE Loader!GateError
  <2>1. lpc' = "poll" /\ cursor' = 0 /\ lpc # "poll"
    BY <1>12
    DEF Loader!GateError, Loader!ProgramFails, Loader!CheckFails, Loader!VerifyFails,
        Loader!FinalizeFails, Loader!Fail, Loader!Checking
  <2>2. rx' = rx /\ waiting' = waiting
    BY <1>4, <1>12
    DEF Loader!GateError, Loader!ProgramFails, Loader!CheckFails, Loader!VerifyFails,
        Loader!FinalizeFails
  <2> QED
    BY <2>1, <2>2
<1>13. CASE Loader!CheckRead(0, 1)
  BY <1>1, <1>3, <1>13 DEF Loader!CheckRead, Loader!Reading, Loader!Checking
<1> QED
  BY <1>5, <1>6, <1>7, <1>8, <1>9, <1>10, <1>11, <1>12, <1>13
  DEF LoaderRuns, Loader!GateStep

\* No step of a gate or of a read breaks the invariant.
LEMMA LoaderRunsKept ==
  ASSUME WInv, LoaderRuns
  PROVE  WInv'
<1> USE DEF WInv
<1>1. /\ UNCHANGED <<dev, pc, conn, stage, tx, pull, runs, losses, held>>
      /\ dev = "loader"
  BY DEF LoaderRuns, LoaderRest, clientVars, envVars
<1>2. /\ Asks
      /\ cursor' \in Nat /\ (lpc' = "store" => cursor' > 0)
      /\ lpc = "poll" => active
  BY LoaderAsks
<1>3. \A a, n \in Nat : Request(a, n) \in Heard /\ Request(a, n).kind = "request"
  BY DEF Request, Heard
<1>4. rx' \in Seq(Heard) /\ ((rx' = rx /\ waiting' = waiting) \/ Has(rx', "request"))
  <2>1. CASE rx' = rx /\ waiting' = waiting
    BY <2>1 DEF QueueInv
  <2>2. CASE \E a, n \in Nat : rx' = Append(rx, Request(a, n))
    <3>1. PICK a \in Nat, n \in Nat : rx' = Append(rx, Request(a, n))
      BY <2>2
    <3>2. Has(Append(rx, Request(a, n)), "request")
      BY <1>3, HasAppend DEF QueueInv
    <3> QED
      BY <1>3, <3>1, <3>2 DEF QueueInv
  <2> QED
    BY <1>2, <2>1, <2>2 DEF Asks
<1>5. QueueInv' /\ PlaceInv'
  BY <1>1, <1>2, <1>4 DEF QueueInv, PlaceInv
<1>6. runs = 1 => FirstRun'
  BY <1>1, <1>2 DEF FirstRun, Idle
<1>7. runs = 1 /\ losses = 0 => NothingMissed'
  BY <1>1, <1>4 DEF NothingMissed
<1> QED
  BY <1>1, <1>5, <1>6, <1>7

\* A frame the loader has handled ends the wait if it is a reply.
LEMMA LoaderHearsKept ==
  ASSUME WInv, LoaderHears
  PROVE  WInv'
<1> USE DEF WInv
<1>1. /\ UNCHANGED <<dev, pc, conn, stage, pull, runs, losses, held, lpc, cursor, record>>
      /\ dev = "loader" /\ tx # <<>> /\ tx' = Tail(tx)
  BY DEF LoaderHears, LoaderRest, clientVars, envVars, Loader!Dispatch, Loader!loop, Loader!nvm
<1>2. tx' \in Seq(Sent) /\ \A k : Has(tx, k) <=> Has(tx', k) \/ Head(tx).kind = k
  BY <1>1, HasTail DEF QueueInv
<1>3. /\ rx' = rx \/ rx' = Append(rx, Identity(OtaName))
      /\ (waiting' = waiting /\ Head(tx).kind # "data") \/ waiting' = FALSE
      /\ Head(tx).kind = "upgrade" \/ active' = active
  <2>1. CASE Loader!HandleUpgrade(Head(tx))
    BY <2>1 DEF Loader!HandleUpgrade, Loader!link
  <2>2. CASE Loader!HandleQuery(Head(tx), OtaName)
    BY <2>2, SameFrames DEF Loader!HandleQuery, Loader!link
  <2>3. CASE Loader!HandleData(Head(tx))
    BY <2>3 DEF Loader!HandleData
  <2>4. CASE Loader!HandleMalformed(Head(tx))
    BY <2>4 DEF Loader!HandleMalformed, Loader!link
  <2> QED
    BY <2>1, <2>2, <2>3, <2>4 DEF LoaderHears, Loader!Dispatch
<1>4. Identity(OtaName) \in Heard
  BY DEF Identity, Heard
<1>5. rx' \in Seq(Heard) /\ (Has(rx, "request") => Has(rx', "request"))
  <2>1. CASE rx' = rx
    BY <2>1 DEF QueueInv
  <2>2. CASE rx' = Append(rx, Identity(OtaName))
    <3>1. Has(rx, "request") => Has(Append(rx, Identity(OtaName)), "request")
      BY <1>4, HasAppend DEF QueueInv
    <3>2. Append(rx, Identity(OtaName)) \in Seq(Heard)
      BY <1>4 DEF QueueInv
    <3> QED
      BY <2>2, <3>1, <3>2
  <2> QED
    BY <1>3, <2>1, <2>2
<1>6. QueueInv' /\ PlaceInv'
  BY <1>1, <1>2, <1>5 DEF QueueInv, PlaceInv
<1>7. runs = 1 => FirstRun'
  BY <1>1, <1>2, <1>3 DEF FirstRun, Idle
<1>8. runs = 1 /\ losses = 0 => NothingMissed'
  BY <1>1, <1>2, <1>3, <1>5 DEF NothingMissed
<1> QED
  BY <1>1, <1>6, <1>7, <1>8

\* The application's frames; while it runs, the loader does not.
LEMMA AppKept ==
  ASSUME WInv,
         AppQuery \/ AppUpgrade \/ AppAsk \/ AppData \/ \E a \in Offsets : AppPull(a)
  PROVE  WInv'
<1> USE DEF WInv
<1>1. /\ UNCHANGED <<dev, pc, conn, stage, runs, losses, held, lpc, cursor, record>>
      /\ dev = "app"
  BY DEF AppQuery, AppUpgrade, AppAsk, AppData, AppPull, AppRest, Answering, clientVars,
         loopVars, nvmVars, envVars
<1>2. tx' = tx \/ (tx # <<>> /\ tx' = Tail(tx))
  BY DEF AppQuery, AppUpgrade, AppAsk, AppData, AppPull, Answering
<1>3. tx' \in Seq(Sent) /\ (Has(tx', "upgrade") => Has(tx, "upgrade"))
  <2>1. CASE tx' = tx
    BY <2>1 DEF QueueInv
  <2>2. CASE tx # <<>> /\ tx' = Tail(tx)
    <3>1. Has(Tail(tx), "upgrade") => Has(tx, "upgrade")
      BY <2>2, HasTail DEF QueueInv
    <3>2. Tail(tx) \in Seq(Sent)
      BY <2>2 DEF QueueInv
    <3> QED
      BY <2>2, <3>1, <3>2
  <2> QED
    BY <1>2, <2>1, <2>2
<1>4. \E m \in Heard : rx' = rx \/ rx' = Append(rx, m)
  <2>1. Identity(AppName) \in Heard
    BY DEF Identity, Heard, AppName
  <2>2. Request(VERIFY, SuccessLen) \in Heard /\ \A a \in Offsets : Request(a, 1) \in Heard
    BY WireAssumption DEF Request, Heard, Offsets
  <2> QED
    BY <2>1, <2>2 DEF AppQuery, AppUpgrade, AppAsk, AppData, AppPull, AppSends
<1>5. rx' \in Seq(Heard)
  BY <1>4 DEF QueueInv
<1>6. QueueInv' /\ PlaceInv'
  BY <1>1, <1>3, <1>5 DEF QueueInv, PlaceInv
<1>7. runs = 1 => FirstRun'
  <2>1. ASSUME pull = "no", ~Has(tx, "upgrade") PROVE pull' = "no"
    <3>1. tx # <<>> => Head(tx).kind # "upgrade"
      BY <2>1, HasTail DEF QueueInv
    <3> QED
      BY <2>1, <3>1 DEF AppQuery, AppUpgrade, AppAsk, AppData, AppPull, Answering
  <2> QED
    BY <1>1, <1>3, <2>1 DEF FirstRun
<1>8. NothingMissed'
  BY <1>1 DEF NothingMissed
<1> QED
  BY <1>1, <1>6, <1>7, <1>8

\* A device that leaves the bus takes the connection with it.
LEMMA LeaveKept ==
  ASSUME WInv, AppReset \/ LoaderRestart \/ PowerCut
  PROVE  WInv'
<1> USE DEF WInv
<1>1. Leave /\ UNCHANGED <<lpc, cursor, runs, losses>>
  BY DEF AppReset, LoaderRestart, PowerCut, loopVars, envVars
<1>2. /\ dev' = "reset" /\ tx' = <<>> /\ conn' # "live" /\ pull' = "no"
      /\ conn' \in {conn, "dead"} /\ (conn' = "closed" <=> conn = "closed")
      /\ UNCHANGED <<stage, pc, rx, held>>
  BY <1>1 DEF Leave
<1>3. tx' \in Seq(Sent) /\ ~Has(tx', "upgrade")
  <2>1. <<>> \in Seq(Sent) /\ ~Has(<<>>, "upgrade")
    BY DEF Has
  <2> QED
    BY <1>2, <2>1
<1>4. QueueInv'
  BY <1>1, <1>2, <1>3 DEF QueueInv
<1>5. PlaceInv'
  BY <1>2 DEF PlaceInv
<1>6. runs = 1 => FirstRun'
  <2>1. runs = 1 /\ stage = 1 /\ pc \in Pre => record' = FALSE
    BY DEF AppReset, LoaderRestart, PowerCut, nvmVars, FirstRun
  <2> QED
    BY <1>1, <1>2, <1>3, <2>1 DEF FirstRun
<1>7. NothingMissed'
  BY <1>2 DEF NothingMissed
<1> QED
  BY <1>1, <1>4, <1>5, <1>6, <1>7

\* Each action of the whole update keeps the invariant.
LEMMA WaitStep ==
  ASSUME WInv, [Next]_vars
  PROVE  WInv'
<1> USE DEF WInv
<1>1. CASE UNCHANGED vars
  BY <1>1
  DEF vars, clientVars, loopVars, nvmVars, envVars, QueueInv, PlaceInv, FirstRun, Idle, NothingMissed
<1>2. CASE Again
  <2>1. runs' # 1 /\ runs' \in Nat \ {0}
    BY <1>2 DEF Again, QueueInv
  <2>2. <<>> \in Seq(Heard)
    OBVIOUS
  <2>3. QueueInv'
    BY <1>2, <2>1, <2>2 DEF Again, loopVars, QueueInv
  <2>4. PlaceInv'
    BY <1>2 DEF Again, PlaceInv, Pre, Connected
  <2> QED
    BY <2>1, <2>3, <2>4
<1>3. CASE Boot
  <2>1. /\ dev = "reset" /\ (dev' = "loader" => record = TRUE)
        /\ lpc' = "poll" /\ cursor' = 0 /\ active' = FALSE /\ waiting' = FALSE
        /\ UNCHANGED <<stage, pc, conn, pull, record, rx, tx, held, runs, losses>>
    BY <1>3 DEF Boot, clientVars, nvmVars, envVars
  <2>2. tx = <<>> /\ ~Has(tx, "upgrade")
    BY <2>1 DEF PlaceInv, Has
  <2>3. QueueInv' /\ PlaceInv'
    BY <2>1, <2>2 DEF QueueInv, PlaceInv
  <2>4. runs = 1 => FirstRun'
    BY <2>1, <2>2 DEF FirstRun, PlaceInv, Idle
  <2>5. NothingMissed'
    BY <2>1 DEF NothingMissed
  <2> QED
    BY <2>1, <2>3, <2>4, <2>5
<1>4. CASE Lose
  <2>1. /\ losses' = losses + 1 /\ runs' = runs
        /\ UNCHANGED <<dev, pc, conn, stage, pull, held, lpc, cursor, record, active, waiting>>
    BY <1>4 DEF Lose, clientVars, loopVars, nvmVars
  <2>2. rx' \in Seq(Heard)
    <3>1. Client!Readable => SubSeq(rx, 1, held) \in Seq(Heard)
      BY SubSeqProperties DEF Client!Readable, QueueInv
    <3> QED
      BY <1>4, <3>1 DEF Lose, QueueInv
  <2>3. tx' = tx \/ (tx # <<>> /\ tx' = Tail(tx))
    BY <1>4 DEF Lose
  <2>4. tx' \in Seq(Sent) /\ (Has(tx', "upgrade") => Has(tx, "upgrade"))
    <3>1. CASE tx' = tx
      BY <3>1 DEF QueueInv
    <3>2. CASE tx # <<>> /\ tx' = Tail(tx)
      <4>1. Has(Tail(tx), "upgrade") => Has(tx, "upgrade")
        BY <3>2, HasTail DEF QueueInv
      <4>2. Tail(tx) \in Seq(Sent)
        BY <3>2 DEF QueueInv
      <4> QED
        BY <3>2, <4>1, <4>2
    <3> QED
      BY <2>3, <3>1, <3>2
  <2>5. QueueInv'
    BY <2>1, <2>2, <2>4 DEF QueueInv
  <2>6. PlaceInv'
    BY <2>1, <2>3 DEF PlaceInv
  <2>7. runs = 1 => FirstRun'
    BY <2>1, <2>4 DEF FirstRun, Idle
  <2>8. losses' # 0
    BY <2>1 DEF QueueInv
  <2> QED
    BY <2>1, <2>5, <2>6, <2>7, <2>8
<1>5. CASE Unheard
  <2>1. /\ conn = "closed" /\ rx' = <<>> /\ held' = 0
        /\ UNCHANGED <<dev, pc, conn, stage, tx, pull, lpc, cursor, record, active, waiting, runs, losses>>
    BY <1>5 DEF Unheard, loopVars, nvmVars, envVars
  <2>2. <<>> \in Seq(Heard)
    OBVIOUS
  <2>3. QueueInv' /\ PlaceInv'
    BY <2>1, <2>2 DEF QueueInv, PlaceInv
  <2>4. runs = 1 => FirstRun'
    BY <2>1 DEF FirstRun, Idle
  <2>5. NothingMissed'
    BY <2>1 DEF NothingMissed
  <2> QED
    BY <2>1, <2>3, <2>4, <2>5
<1> QED
  BY <1>1, <1>2, <1>3, <1>4, <1>5, RunKept, LoaderRunsKept, LoaderHearsKept, AppKept, LeaveKept
  DEF Next

\* Nothing is queued and nobody waits at first.
LEMMA WaitInit == Init => WInv
<1> SUFFICES ASSUME Init PROVE WInv
  OBVIOUS
<1>1. <<>> \in Seq(Heard) /\ <<>> \in Seq(Sent) /\ ~Has(<<>>, "upgrade")
  BY DEF Has
<1>2. QueueInv
  BY <1>1 DEF Init, Client!Init, Loader!Fresh, QueueInv
<1>3. PlaceInv
  BY DEF Init, Client!Init, PlaceInv, Pre, Connected
<1>4. FirstRun /\ NothingMissed
  BY <1>1 DEF Init, Client!Init, FirstRun, NothingMissed
<1> QED
  BY <1>2, <1>3, <1>4 DEF WInv

(***************************************************************************)
(* In a first run that loses no frame the loader and serve_requests never  *)
(* wait for each other, for packages of any length, any time limits and    *)
(* any power cuts.                                                         *)
(***************************************************************************)
THEOREM NeverBothWait == Spec => []NoMutualWait
<1>1. WInv => NoMutualWait
  <2>1. ~Has(<<>>, "request") /\ ~Has(<<>>, "data")
    BY DEF Has
  <2> QED
    BY <2>1 DEF WInv, PlaceInv, Connected, NothingMissed, NoMutualWait
<1> QED
  BY <1>1, WaitInit, WaitStep, PTL DEF Spec
----------------------------------------------------------------------------
(***************************************************************************)
(* The whole update implements PackageUpdate, for every full package, any  *)
(* time limits and any number of runs, lost frames and power cuts.         *)
(*                                                                         *)
(* The invariant adds to those above what flash holds at each stage of the *)
(* loader (WholeInv), what the client's places and records mean (RunInv),  *)
(* what the frames that a connection holds say of the device at its other  *)
(* end (LinkInv), and why nothing changes flash any more once a finish     *)
(* request was read (FinishInv), or before the loader has been commanded   *)
(* by this run (FoundInv).                                                 *)
(***************************************************************************)

\* A request for address a is in the queue.
Stated(queue, a) == \E i \in DOMAIN queue : queue[i].kind = "request" /\ queue[i].addr = a

\* A full gate is past its read-back.
Ended == {"handshake", "answer", "restart"}

\* A loader that no update command has reached, and none is on its way to
Quiet == dev = "loader" => lpc = "poll" /\ active = FALSE /\ ~Has(tx, "upgrade")

\* The package is in flash, and nothing goes on that could change it.
Settled == Loader!Written /\ (Quiet \/ lpc \in Ended)

\* The same of what the run found
Untouched == flash = before /\ Quiet

\* What flash and the page buffer hold at each stage of a full gate
WholeInv ==
  /\ buf \in Payloads \cup {Loader!Junk}
  /\ flash \in [Offsets -> Loader!Contents]
  /\ lpc \in {"program", "store"} =>
       /\ cursor \in 0 .. ImageLen
       /\ \A b \in Offsets : IF b < cursor THEN flash[b] = Loader!Erased
                             ELSE flash[b] \notin {Loader!Old, Loader!Erased}
  /\ lpc = "verify" => \A b \in Offsets : flash[b] # Loader!Old
  /\ lpc \in {"finalize"} \cup Ended => Loader!Written

\* Which records go with which places of the client
RunInv ==
  /\ verb \in {"flash", "serve"} /\ (stage # 1 => verb = "flash")
  /\ IF pc = "exit" THEN result \in {"ok", "fail", "notFlashed", "raised"} ELSE result = "none"
  /\ fin \in [1 .. 2 -> {"none", "verify", "finish"}]
  /\ stage = 1 => fin[2] = "none"
  /\ stage \in 1 .. 2 /\ pc \notin {"served", "exit"} => fin[stage] = "none"

\* What waits on a live connection was sent by the program that now runs, and
\* nothing is on its way to a device that left and came back.
LinkInv ==
  /\ conn = "dead" => /\ tx = <<>> /\ pull = "no"
                      /\ dev = "loader" => lpc = "poll" /\ active = FALSE
  /\ conn = "live" =>
       /\ Stated(rx, FINISH) => dev = "loader" /\ lpc \in Ended
       /\ Stated(rx, VERIFY) => dev = "app"
       /\ \A i \in DOMAIN rx : rx[i].kind = "identity" => (rx[i].id.ota <=> dev = "loader")
       /\ pc = "check" => (got.ota <=> dev = "loader")
       /\ pc = "upgrade" /\ verb = "flash" /\ stage = 1 => dev = "app"

\* From a finish request on the package stays in flash.
FinishInv ==
  /\ conn # "closed" /\ Stated(rx, FINISH) => Settled
  /\ pc = "served" /\ fin[stage] = "finish" => Settled
  /\ stage = 3 => Settled

\* Up to its second update command a run of flash has changed nothing; after it
\* the verification request still shows an application, which changes nothing.
FoundInv ==
  verb = "flash" =>
    /\ stage = 1 /\ pc \notin {"find", "exit"} => Untouched
    /\ stage = 2 /\ pc \in Pre => Untouched
    /\ stage = 2 /\ pc = "serve" =>
         /\ conn = "live" /\ dev = "app" => flash = before
         /\ Stated(rx, VERIFY) => Untouched
    /\ stage = 2 /\ pc = "served" /\ fin[2] = "verify" => Untouched

RInv == DInv /\ WInv /\ WholeInv /\ RunInv /\ LinkInv /\ FinishInv /\ FoundInv

----------------------------------------------------------------------------
(* Queues *)

\* Every frame of q was in p.
Within(q, p) == \A i \in DOMAIN q : \E j \in DOMAIN p : q[i] = p[j]

\* A request among fewer frames was among the more.
LEMMA StatedWithin ==
  ASSUME NEW q, NEW p, Within(q, p), NEW a, Stated(q, a)
  PROVE  Stated(p, a)
BY DEF Within, Stated

\* A frame that is put in a queue adds its own request.
LEMMA StatedAppend ==
  ASSUME NEW q \in Seq(Heard), NEW m \in Heard, NEW a
  PROVE  Stated(Append(q, m), a) <=> Stated(q, a) \/ (m.kind = "request" /\ m.addr = a)
<1>1. DOMAIN Append(q, m) = 1 .. Len(q) + 1 /\ DOMAIN q = 1 .. Len(q) /\ Len(q) \in Nat
  OBVIOUS
<1>2. \A i \in DOMAIN Append(q, m) : Append(q, m)[i] = IF i \in DOMAIN q THEN q[i] ELSE m
  BY <1>1
<1>3. Len(q) + 1 \in DOMAIN Append(q, m) /\ Len(q) + 1 \notin DOMAIN q
  BY <1>1
<1> QED
  BY <1>1, <1>2, <1>3 DEF Stated

\* What a read takes, what an overrun leaves and an emptied queue
LEMMA Shorter ==
  ASSUME NEW q \in Seq(Heard)
  PROVE  /\ q # <<>> => Within(Tail(q), q)
         /\ \A n \in 0 .. Len(q) : Within(SubSeq(q, 1, n), q)
         /\ Within(<<>>, q) /\ Within(q, q)
         /\ q # <<>> => 1 \in DOMAIN q /\ Head(q) = q[1]
<1>1. Len(q) \in Nat /\ DOMAIN q = 1 .. Len(q)
  OBVIOUS
<1>2. ASSUME q # <<>> PROVE Within(Tail(q), q)
  <2>1. DOMAIN Tail(q) = 1 .. Len(q) - 1
    BY <1>1, <1>2
  <2>2. \A i \in DOMAIN Tail(q) : i + 1 \in DOMAIN q /\ Tail(q)[i] = q[i + 1]
    BY <1>1, <1>2, <2>1
  <2> QED
    BY <2>2 DEF Within
<1>3. ASSUME NEW n \in 0 .. Len(q) PROVE Within(SubSeq(q, 1, n), q)
  <2>1. DOMAIN SubSeq(q, 1, n) = 1 .. n /\ \A i \in 1 .. n : SubSeq(q, 1, n)[i] = q[i]
    BY <1>1, SubSeqProperties
  <2> QED
    BY <1>1, <2>1 DEF Within
<1>4. Within(<<>>, q) /\ Within(q, q)
  BY DEF Within
<1>5. q # <<>> => 1 \in DOMAIN q /\ Head(q) = q[1]
  BY <1>1
<1> QED
  BY <1>2, <1>3, <1>4, <1>5

\* recv_sysex, whether a frame came or not
LEMMA ReadLeaves ==
  ASSUME QueueInv,
         Client!Receive \/ Client!ReceiveNothing \/ Client!ReceiveOther \/ Client!ReceiveSysEx
  PROVE  Within(rx', rx)
<1>1. rx \in Seq(Heard)
  BY DEF QueueInv
<1>2. CASE Client!Receive
  BY <1>1, <1>2, Received, Shorter
<1>3. CASE rx' = rx
  BY <1>1, <1>3, Shorter
<1> QED
  BY <1>2, <1>3 DEF Client!ReceiveNothing, Client!ReceiveOther, Client!ReceiveSysEx

----------------------------------------------------------------------------
(* What a step of the client may do, by where the client is *)

Same == verb' = verb /\ stage' = stage

Ends(r) == pc' = "exit" /\ conn' = "closed" /\ result' = r

\* Up to the update command
Approach ==
  /\ Same /\ fin' = fin /\ Within(rx', rx)
  /\ pc \in Pre \ {"upgrade"}
  /\ \/ \E r \in {"fail", "raised"} : Ends(r)
     \/ Ends("ok") /\ stage = 3
     \/ result' = result /\ pc' \in Pre /\ conn' = conn
     \/ result' = result /\ pc = "open" /\ pc' = "drain" /\ conn' = "live" /\ rx' = <<>>
  /\ Has(tx', "upgrade") => Has(tx, "upgrade")
  /\ conn # "live" => tx' = tx
  /\ pc' = "find" => pc = "find"
  /\ pc = "find" /\ pc' # "find" /\ pc' # "exit" =>
       pc' = "open" /\ (verb = "flash" /\ stage = 1 => dev = "app")
  /\ pc' = "check" =>
       \E i \in DOMAIN rx : rx[i].kind = "identity" /\ got' = rx[i].id
  /\ pc' = "upgrade" =>
       /\ pc = "check" /\ stage # 3 /\ conn' = conn
       /\ verb = "flash" /\ stage = 1 => ~got.ota

\* The update command and the replies
Transfer ==
  /\ Same /\ Within(rx', rx)
  /\ pc \in {"upgrade", "serve"} /\ stage \in 1 .. 2
  /\ \/ Ends("raised") /\ fin' = fin
     \/ result' = result /\ conn' = conn /\ pc' = "serve" /\ fin' = fin
     \/ result' = result /\ conn' = conn /\ pc' = "served" /\ pc = "serve" /\ fin' = fin
     \/ /\ result' = result /\ conn' = conn /\ pc' = "served" /\ pc = "serve"
        /\ \E a \in Terminal :
             /\ Stated(rx, a)
             /\ fin' = [fin EXCEPT ![stage] = IF a = FINISH THEN "finish" ELSE "verify"]
  /\ conn # "live" => tx' = tx
  /\ pc = "serve" => (Has(tx', "upgrade") => Has(tx, "upgrade"))

\* After serve_requests
Concludes ==
  /\ verb' = verb /\ pc = "served" /\ rx' = <<>> /\ tx' = tx /\ fin' = fin
  /\ \/ Ends("fail") /\ stage' = stage
     \/ /\ Ends("notFlashed") /\ stage' = stage
        /\ verb = "flash" /\ stage = 2 /\ fin[2] = "verify"
     \/ Ends("ok") /\ stage' = stage /\ fin[stage] = "finish"
     \/ /\ verb = "flash" /\ stage' = stage + 1 /\ pc' = "find" /\ conn' = "closed"
        /\ result' = result /\ (stage = 2 => fin[2] = "finish")

\* The places up to the update command
LEMMA ApproachStep ==
  ASSUME QueueInv, PlaceInv, RunInv,
         \/ Client!Drain \/ Client!SendQuery \/ Client!AwaitFrame \/ Client!AwaitNothing
         \/ Client!Check \/ \E port \in Ports : Client!Open(port) \/ Client!Find(Mode, port)
  PROVE  Approach
<1> USE DEF Approach, Same, Ends, Pre
<1>0. rx \in Seq(Heard) /\ Within(rx, rx) /\ Within(<<>>, rx) /\ tx \in Seq(Sent)
  BY Shorter DEF QueueInv
<1>1. CASE Client!Drain
  BY <1>1, ReadLeaves DEF Client!Drain
<1>2. CASE Client!SendQuery
  <2>1. (Has(tx', "upgrade") => Has(tx, "upgrade")) /\ (conn # "live" => tx' = tx)
    BY <1>2, BeforeStep DEF Before, Effect
  <2>2. \/ pc' = "await" /\ conn' = conn /\ result' = result
        \/ \E r \in {"fail", "raised"} : Ends(r)
    BY <1>2 DEF Client!SendQuery, Client!WriteThen, Client!Exit
  <2> QED
    BY <1>0, <1>2, <2>1, <2>2 DEF Client!SendQuery
<1>3. CASE Client!AwaitFrame
  <2>1. Client!Receive /\ Head(rx).kind # "event"
    BY <1>3 DEF Client!AwaitFrame, Client!ReceiveSysEx
  <2>2. Within(rx', rx) /\ 1 \in DOMAIN rx /\ Head(rx) = rx[1]
    BY <1>0, <2>1, ReadLeaves, Received, Shorter
  <2> QED
    BY <1>3, <2>2 DEF Client!AwaitFrame
<1>4. CASE Client!AwaitNothing
  BY <1>4, ReadLeaves DEF Client!AwaitNothing
<1>5. CASE Client!Check
  <2>1. verb = "serve" => stage = 1
    BY DEF RunInv
  <2>2. CASE Client!Accepts(got) /\ stage = 3
    BY <1>0, <1>5, <2>2 DEF Client!Check, Client!Exit
  <2>3. CASE Client!Accepts(got) /\ stage # 3
    BY <1>0, <1>5, <2>3 DEF Client!Check, Client!Accepts
  <2>4. CASE ~Client!Accepts(got)
    BY <1>0, <1>5, <2>4 DEF Client!Check, Client!Exit
  <2> QED
    BY <2>2, <2>3, <2>4
<1>6. CASE \E port \in Ports : Client!Open(port)
  BY <1>0, <1>6 DEF Client!Open, Client!Exit
<1>7. CASE \E port \in Ports : Client!Find(Mode, port)
  <2>1. PICK port \in Ports : Client!Find(Mode, port)
    BY <1>7
  <2>2. CASE Client!Suits(Mode, port)
    <3>1. verb = "flash" /\ stage = 1 => dev = "app"
      BY <2>2 DEF Client!Suits, Mode
    <3> QED
      BY <1>0, <2>1, <2>2, <3>1 DEF Client!Find
  <2>3. CASE ~Client!Suits(Mode, port)
    BY <1>0, <2>1, <2>3 DEF Client!Find, Client!Exit
  <2> QED
    BY <2>2, <2>3
<1> QED
  BY <1>1, <1>2, <1>3, <1>4, <1>5, <1>6, <1>7

\* The update command and serve_requests
LEMMA TransferStep ==
  ASSUME QueueInv, PlaceInv, RunInv,
         \/ Client!SendUpgrade \/ Client!ServeTerminal \/ Client!ServeData
         \/ Client!ServeOther \/ Client!ServeNothing
  PROVE  Transfer
<1> USE DEF Transfer, Same, Ends
<1>0. rx \in Seq(Heard) /\ Within(rx, rx) /\ tx \in Seq(Sent)
  BY Shorter DEF QueueInv
<1>1. pc \in {"upgrade", "serve"} => stage \in 1 .. 2
  BY DEF PlaceInv
<1>2. CASE Client!SendUpgrade
  BY <1>0, <1>1, <1>2 DEF Client!SendUpgrade, Client!WriteThen, Client!Exit
<1>3. ASSUME NEW m \in Sent, m.kind = "data", NEW next, Client!WriteThen(m, next)
      PROVE  /\ \/ pc' = next /\ conn' = conn /\ result' = result
                \/ Ends("raised")
             /\ conn # "live" => tx' = tx
             /\ Has(tx', "upgrade") => Has(tx, "upgrade")
  <2>1. Has(Append(tx, m), "upgrade") => Has(tx, "upgrade")
    BY <1>0, <1>3, HasAppend
  <2> QED
    BY <1>3, <2>1 DEF Client!WriteThen, Client!Exit
<1>4. CASE Client!ServeTerminal
  <2> DEFINE a == Head(rx).addr
             next == IF Client!Stops(a) THEN "served" ELSE "serve"
  <2>1. pc = "serve" /\ Client!Receive /\ Head(rx).kind = "request" /\ a \in Terminal
    BY <1>4, SameFrames DEF Client!ServeTerminal, Client!Serving
  <2>2. Within(rx', rx) /\ Stated(rx, a)
    <3>1. Within(rx', rx)
      BY <2>1, ReadLeaves
    <3>2. 1 \in DOMAIN rx /\ Head(rx) = rx[1]
      BY <1>0, <2>1, Received, Shorter
    <3> QED
      BY <2>1, <3>1, <3>2 DEF Stated
  <2>3. Client!WriteThen(SuccessReply(a), next)
    BY <1>4, SameFrames DEF Client!ServeTerminal
  <2>4. /\ \/ pc' = next /\ conn' = conn /\ result' = result
           \/ Ends("raised")
        /\ conn # "live" => tx' = tx
        /\ Has(tx', "upgrade") => Has(tx, "upgrade")
    BY <1>3, <2>1, <2>3, Terminals
  <2>5. fin' = IF Client!Stops(a) /\ pc' = "served"
                 THEN [fin EXCEPT ![stage] = IF a = FINISH THEN "finish" ELSE "verify"]
                 ELSE fin
    BY <1>4 DEF Client!ServeTerminal
  <2>6. verb' = verb /\ stage' = stage
    BY <1>4 DEF Client!ServeTerminal
  <2> HIDE DEF a
  <2>7. CASE Ends("raised")
    BY <1>1, <2>1, <2>2, <2>4, <2>5, <2>6, <2>7
  <2>8. CASE pc' = next /\ conn' = conn /\ result' = result
    <3>1. CASE Client!Stops(a)
      BY <1>1, <2>1, <2>2, <2>4, <2>5, <2>6, <2>8, <3>1
    <3>2. CASE ~Client!Stops(a)
      BY <1>1, <2>1, <2>2, <2>4, <2>5, <2>6, <2>8, <3>2
    <3> QED
      BY <3>1, <3>2
  <2> QED
    BY <2>4, <2>7, <2>8
<1>5. CASE Client!ServeData
  <2> DEFINE a == Head(rx).addr
             n == Head(rx).len
  <2>1. /\ pc = "serve" /\ Client!Receive /\ Head(rx).kind = "request"
        /\ UNCHANGED <<verb, stage, fin>>
    BY <1>5 DEF Client!ServeData, Client!Serving
  <2>2. Within(rx', rx)
    BY <2>1, ReadLeaves
  <2>3. CASE OutOfBounds(a, n)
    BY <1>1, <1>5, <2>1, <2>2, <2>3, SameFrames DEF Client!ServeData, Client!Exit
  <2>4. CASE ~OutOfBounds(a, n)
    <3>1. a \in Nat /\ n \in Nat
      BY <2>1, Received DEF Heard
    <3>2. Client!WriteThen(Reply(a, n), "serve")
      BY <1>5, <2>4, SameFrames DEF Client!ServeData
    <3> QED
      BY <1>1, <1>3, <2>1, <2>2, <2>4, <3>1, <3>2, InBounds
  <2> QED
    BY <2>3, <2>4
<1>6. CASE Client!ServeOther
  BY <1>1, <1>6, ReadLeaves DEF Client!ServeOther, Client!Serving
<1>7. CASE Client!ServeNothing
  BY <1>1, <1>7, ReadLeaves DEF Client!ServeNothing
<1> QED
  BY <1>2, <1>4, <1>5, <1>6, <1>7

\* The test of what on_finish recorded
LEMMA ConcludeStep ==
  ASSUME PlaceInv, RunInv, Client!Served
  PROVE  Concludes
<1> USE DEF Concludes, Ends
<1>1. stage \in 1 .. 2 /\ verb \in {"flash", "serve"} /\ (verb = "serve" => stage = 1)
  BY DEF Client!Served, PlaceInv, RunInv
<1>2. CASE ~Client!Done
  BY <1>1, <1>2 DEF Client!Served, Client!Done, Client!Exit
<1>3. CASE Client!Done
  BY <1>1, <1>3 DEF Client!Served, Client!Done, Client!Exit
<1> QED
  BY <1>2, <1>3

\* A step of the client is one of the three, and leaves the device alone.
LEMMA ClientSteps ==
  ASSUME RInv, Run
  PROVE  /\ Approach \/ Transfer \/ Concludes
         /\ UNCHANGED <<dev, lpc, active, cursor, buf, flash, record, pull>>
         /\ before' = IF stage = 1 /\ pc = "find" /\ pc' = "open" THEN flash ELSE before
<1>1. QueueInv /\ PlaceInv /\ RunInv
  BY DEF RInv, WInv
<1>2. Approach \/ Transfer \/ Concludes
  BY <1>1, ApproachStep, TransferStep, ConcludeStep DEF Run, Client!ClientStep
<1> QED
  BY <1>2 DEF Run, loopVars, nvmVars

----------------------------------------------------------------------------
(* Each actor keeps the invariant *)

Places == WholeInv /\ RunInv /\ LinkInv /\ FinishInv /\ FoundInv

\* Whether the package is in flash is a matter of flash alone.
LEMMA SameWritten ==
  ASSUME flash' = flash
  PROVE  Loader!Written' = Loader!Written
BY DEF Loader!Written

\* What flash holds at a stage is kept while the loader stands.
LEMMA SameWhole ==
  ASSUME WholeInv, UNCHANGED <<lpc, cursor, buf, flash>>
  PROVE  WholeInv'
BY SameWritten DEF WholeInv, Ended

\* Nobody commands a quiet loader.
LEMMA QuietKept ==
  ASSUME UNCHANGED <<dev, lpc, active, flash>>,
         dev = "loader" /\ Has(tx', "upgrade") => Has(tx, "upgrade")
  PROVE  (Quiet => Quiet') /\ (Settled => Settled')
BY SameWritten DEF Quiet, Settled, Ended

\* A connection in progress: what it learns of the device is true of it.
LEMMA ApproachKept ==
  ASSUME RInv, Run, Approach
  PROVE  Places'
<1> USE DEF RInv, Approach, Same, Ends, Pre
<1>1. /\ UNCHANGED <<dev, lpc, active, cursor, buf, flash, record, pull>>
      /\ before' = IF stage = 1 /\ pc = "find" /\ pc' = "open" THEN flash ELSE before
  BY ClientSteps
<1>2. (Quiet => Quiet') /\ (Settled => Settled')
  BY <1>1, QuietKept
<1>3. RunInv'
  BY DEF RunInv
<1>4. ASSUME conn' # "closed", NEW a, Stated(rx', a) PROVE conn' = conn /\ Stated(rx, a)
  <2>1. Stated(rx, a)
    BY <1>4, StatedWithin
  <2>2. rx' # <<>>
    BY <1>4 DEF Stated
  <2> QED
    BY <1>4, <2>1, <2>2
<1>5. LinkInv'
  <2>1. CASE conn' = "dead"
    BY <1>1, <2>1 DEF LinkInv
  <2>2. CASE conn' = "live" /\ conn' = conn
    <3>1. \A i \in DOMAIN rx' : rx'[i].kind = "identity" => (rx'[i].id.ota <=> dev = "loader")
      BY <2>2 DEF LinkInv, Within
    <3>2. pc' = "check" => (got'.ota <=> dev = "loader")
      BY <2>2 DEF LinkInv
    <3>3. pc' = "upgrade" /\ verb' = "flash" /\ stage' = 1 => dev = "app"
      BY <2>2 DEF LinkInv, WInv, PlaceInv
    <3> QED
      BY <1>1, <1>4, <2>2, <3>1, <3>2, <3>3 DEF LinkInv
  <2>3. CASE conn' = "live" /\ conn' # conn
    <3>1. rx' = <<>> /\ pc' = "drain"
      BY <2>3
    <3>2. \A a : ~Stated(rx', a)
      BY <3>1 DEF Stated
    <3> QED
      BY <2>3, <3>1, <3>2 DEF LinkInv
  <2>4. CASE conn' = "closed"
    BY <2>4 DEF LinkInv
  <2> QED
    BY <2>1, <2>2, <2>3, <2>4 DEF WInv, PlaceInv
<1>6. FinishInv'
  BY <1>2, <1>4 DEF FinishInv
<1>7. FoundInv'
  <2>1. ASSUME verb = "flash", stage = 1, pc' \notin {"find", "exit"} PROVE Untouched'
    <3>1. CASE pc = "find"
      BY <1>1, <2>1, <3>1 DEF Untouched, Quiet
    <3>2. CASE pc # "find"
      BY <1>1, <1>2, <2>1, <3>2 DEF FoundInv, Untouched
    <3> QED
      BY <3>1, <3>2
  <2>2. ASSUME verb = "flash", stage = 2 PROVE Untouched'
    BY <1>1, <1>2, <2>2 DEF FoundInv, Untouched
  <2> QED
    BY <2>1, <2>2 DEF FoundInv
<1> QED
  BY <1>1, <1>3, <1>5, <1>6, <1>7, SameWhole DEF Places

\* Serving: a terminal request is recorded as what the device has reached.
LEMMA TransferKept ==
  ASSUME RInv, Run, Transfer
  PROVE  Places'
<1> USE DEF RInv, Transfer, Same, Ends
<1>1. /\ UNCHANGED <<dev, lpc, active, cursor, buf, flash, record, pull>>
      /\ before' = before
  BY ClientSteps
<1>2. ASSUME pc = "serve" \/ conn # "live" \/ dev # "loader"
      PROVE  (Quiet => Quiet') /\ (Settled => Settled') /\ (Untouched => Untouched')
  <2>1. dev = "loader" /\ Has(tx', "upgrade") => Has(tx, "upgrade")
    BY <1>2
  <2> QED
    BY <1>1, <2>1, QuietKept DEF Untouched
<1>3. RunInv'
  BY DEF RunInv
<1>4. \A a : Stated(rx', a) => Stated(rx, a)
  BY StatedWithin
<1>5. LinkInv'
  <2>1. CASE conn' = "dead"
    BY <1>1, <2>1 DEF LinkInv, WInv, PlaceInv
  <2>2. CASE conn' = "live"
    <3>1. conn = "live"
      BY <2>2
    <3>2. \A i \in DOMAIN rx' : rx'[i].kind = "identity" => (rx'[i].id.ota <=> dev = "loader")
      BY <3>1 DEF LinkInv, Within
    <3> QED
      BY <1>1, <1>4, <2>2, <3>1, <3>2 DEF LinkInv
  <2> QED
    BY <2>1, <2>2 DEF LinkInv
<1>6. ASSUME Stated(rx, FINISH), conn # "closed" PROVE Settled'
  <2>1. Settled
    BY <1>6 DEF FinishInv
  <2>2. CASE conn = "live"
    <3>1. lpc \in Ended
      BY <1>6, <2>2 DEF LinkInv
    <3> QED
      BY <1>1, <2>1, <3>1, SameWritten DEF Settled, Ended
  <2>3. CASE conn # "live"
    BY <1>2, <2>1, <2>3
  <2> QED
    BY <2>2, <2>3
<1>7. pc = "serve" => conn # "closed" /\ fin[stage] = "none"
  BY DEF RunInv, WInv, PlaceInv, Connected
<1>8. FinishInv'
  <2>1. conn' # "closed" /\ Stated(rx', FINISH) => Settled'
    BY <1>4, <1>6
  <2>2. ASSUME pc' = "served", fin'[stage] = "finish" PROVE Settled'
    <3>1. pc = "serve" /\ fin' # fin
      BY <1>7, <2>2
    <3>2. PICK a \in Terminal :
            Stated(rx, a) /\ fin' = [fin EXCEPT ![stage] = IF a = FINISH THEN "finish" ELSE "verify"]
      BY <2>2, <3>1
    <3>3. a = FINISH
      BY <2>2, <3>2 DEF RunInv
    <3> QED
      BY <1>6, <1>7, <3>1, <3>2, <3>3
  <2> QED
    BY <2>1, <2>2 DEF FinishInv
<1>9. ASSUME verb = "flash", stage = 1, pc' \notin {"find", "exit"} PROVE Untouched'
  <2>1. Untouched
    BY <1>9 DEF FoundInv
  <2>2. pc = "upgrade" /\ conn = "live" => dev = "app"
    BY <1>9 DEF LinkInv
  <2> QED
    BY <1>2, <2>1, <2>2
<1>10. ASSUME verb = "flash", stage = 2, pc' \in {"serve", "served"}, Stated(rx, VERIFY)
       PROVE  Untouched'
  <2>1. Untouched
    BY <1>10 DEF FoundInv, Pre
  <2>2. conn = "live" => dev = "app"
    BY <1>10 DEF LinkInv
  <2> QED
    BY <1>2, <2>1, <2>2
<1>11. ASSUME verb = "flash", stage = 2, pc' = "serve", conn' = "live", dev = "app"
       PROVE  flash' = before'
  BY <1>1, <1>11 DEF FoundInv, Untouched, Pre
<1>12. ASSUME verb = "flash", stage = 2, pc' = "served", fin'[2] = "verify" PROVE Untouched'
  <2>1. pc = "serve" /\ fin' # fin
    BY <1>7, <1>12
  <2>2. PICK a \in Terminal :
          Stated(rx, a) /\ fin' = [fin EXCEPT ![stage] = IF a = FINISH THEN "finish" ELSE "verify"]
    BY <1>12, <2>1
  <2>3. a = VERIFY
    BY <1>12, <2>2 DEF RunInv, Terminal
  <2> QED
    BY <1>10, <1>12, <2>2, <2>3
<1>13. FoundInv'
  <2>1. pc' \notin Pre
    BY DEF Pre
  <2> QED
    BY <1>1, <1>4, <1>9, <1>10, <1>11, <1>12, <2>1 DEF FoundInv
<1> QED
  BY <1>1, <1>3, <1>5, <1>8, <1>13, SameWhole DEF Places

\* Leaving: the next connection starts from what the last one showed.
LEMMA ConcludeKept ==
  ASSUME RInv, Run, Concludes
  PROVE  Places'
<1> USE DEF RInv, Concludes, Ends
<1>1. /\ UNCHANGED <<dev, lpc, active, cursor, buf, flash, record, pull>>
      /\ before' = before /\ tx' = tx /\ conn' = "closed"
  BY ClientSteps
<1>2. (Quiet => Quiet') /\ (Settled => Settled') /\ (Untouched => Untouched')
  BY <1>1, QuietKept DEF Untouched
<1>3. stage \in 1 .. 2
  BY DEF WInv, PlaceInv
<1>4. RunInv'
  BY <1>3 DEF RunInv
<1>5. LinkInv'
  BY <1>1 DEF LinkInv
<1>6. FinishInv'
  BY <1>1, <1>2, <1>3 DEF FinishInv
<1>7. FoundInv'
  BY <1>2, <1>3 DEF FoundInv, Pre
<1> QED
  BY <1>1, <1>4, <1>5, <1>6, <1>7, SameWhole DEF Places

----------------------------------------------------------------------------
(* The device *)

\* The application never asks for the finish, nor calls itself a loader.
LEMMA AppPlaces ==
  ASSUME RInv, AppQuery \/ AppUpgrade \/ AppAsk \/ AppData \/ \E a \in Offsets : AppPull(a)
  PROVE  Places'
<1> USE DEF RInv
<1>1. /\ UNCHANGED <<clientVars, loopVars, nvmVars, dev, envVars>> /\ dev = "app"
      /\ dev' = "app"
  BY DEF AppQuery, AppUpgrade, AppAsk, AppData, AppPull, AppRest, Answering
<1> USE DEF clientVars, loopVars, nvmVars, envVars
<1>2. conn # "dead"
  BY DEF LinkInv, AppQuery, AppUpgrade, AppAsk, AppData, AppPull, Answering
<1>3. rx \in Seq(Heard)
  BY DEF WInv, QueueInv
<1>4. \/ rx' = rx
      \/ \E m \in Heard : /\ rx' = Append(rx, m)
                          /\ m.kind = "identity" => ~m.id.ota
                          /\ m.kind = "request" => m.addr # FINISH
  <2>1. CASE AppQuery
    <3>1. Identity(AppName) \in Heard /\ ~Identity(AppName).id.ota
          /\ Identity(AppName).kind = "identity"
      BY SystemAssumption DEF Identity, Heard, AppName
    <3> QED
      BY <2>1, <3>1 DEF AppQuery, AppSends
  <2>2. CASE AppAsk
    <3>1. Request(VERIFY, SuccessLen) \in Heard /\ Request(VERIFY, SuccessLen).kind = "request"
          /\ Request(VERIFY, SuccessLen).addr # FINISH
      BY WireAssumption DEF Request, Heard
    <3> QED
      BY <2>2, <3>1 DEF AppAsk, AppSends
  <2>3. ASSUME NEW a \in Offsets, AppPull(a)
        PROVE  \E m \in Heard : /\ rx' = Append(rx, m)
                                /\ m.kind = "identity" => ~m.id.ota
                                /\ m.kind = "request" => m.addr # FINISH
    <3>1. Request(a, 1) \in Heard /\ Request(a, 1).kind = "request"
          /\ Request(a, 1).addr # FINISH
      BY WireAssumption DEF Request, Heard, Offsets
    <3> QED
      BY <2>3, <3>1 DEF AppPull, AppSends
  <2>4. CASE AppUpgrade \/ AppData
    BY <2>4 DEF AppUpgrade, AppData
  <2> QED
    BY <2>1, <2>2, <2>3, <2>4
<1>5. Stated(rx', FINISH) => Stated(rx, FINISH)
  <2>1. ASSUME NEW m \in Heard, rx' = Append(rx, m), m.kind = "request" => m.addr # FINISH
        PROVE  Stated(rx', FINISH) => Stated(rx, FINISH)
    <3>1. Stated(Append(rx, m), FINISH)
            <=> Stated(rx, FINISH) \/ (m.kind = "request" /\ m.addr = FINISH)
      BY <1>3, StatedAppend
    <3> QED
      BY <2>1, <3>1
  <2> QED
    BY <1>4, <2>1
<1>6. ASSUME conn = "live", NEW i \in DOMAIN rx', rx'[i].kind = "identity"
      PROVE  ~rx'[i].id.ota
  <2>1. CASE rx' = rx
    BY <1>1, <1>6, <2>1 DEF LinkInv
  <2>2. ASSUME NEW m \in Heard, rx' = Append(rx, m), m.kind = "identity" => ~m.id.ota
        PROVE  ~rx'[i].id.ota
    <3>1. rx'[i] = IF i \in DOMAIN rx THEN rx[i] ELSE m
      BY <1>3, <1>6, <2>2
    <3> QED
      BY <1>1, <1>6, <2>2, <3>1 DEF LinkInv
  <2> QED
    BY <1>4, <2>1, <2>2
<1>7. WholeInv' /\ RunInv'
  BY <1>1, SameWhole DEF RunInv
<1>8. LinkInv'
  BY <1>1, <1>2, <1>5, <1>6 DEF LinkInv
<1>9. Quiet' /\ (Settled => Settled') /\ (Untouched => Untouched')
  BY <1>1, SameWritten DEF Quiet, Settled, Untouched
<1>10. FinishInv'
  BY <1>1, <1>5, <1>9 DEF FinishInv
<1>11. FoundInv'
  <2>1. pc = "serve" => conn = "live"
    BY <1>2 DEF WInv, PlaceInv, Connected
  <2> QED
    BY <1>1, <1>9, <2>1 DEF FoundInv, Untouched
<1> QED
  BY <1>7, <1>8, <1>10, <1>11 DEF Places

\* A device that leaves the bus takes no claim back: flash stays.
LEMMA LeavePlaces ==
  ASSUME RInv, AppReset \/ LoaderRestart \/ PowerCut
  PROVE  Places'
<1> USE DEF RInv
<1>1. Leave /\ UNCHANGED <<loopVars, flash, before>>
  BY DEF AppReset, LoaderRestart, PowerCut, envVars, nvmVars
<1>2. /\ UNCHANGED <<verb, stage, pc, got, fin, result, rx, flash, before, lpc, cursor, buf>>
      /\ dev' = "reset" /\ tx' = <<>> /\ pull' = "no" /\ conn' # "live"
      /\ conn' = "closed" <=> conn = "closed"
  BY <1>1 DEF Leave, loopVars
<1>3. Quiet' /\ (Settled => Settled') /\ (Untouched => Untouched')
  BY <1>2, SameWritten DEF Quiet, Settled, Untouched
<1>4. WholeInv' /\ RunInv'
  BY <1>2, SameWhole DEF RunInv
<1>5. LinkInv'
  BY <1>2 DEF LinkInv
<1>6. FinishInv'
  BY <1>2, <1>3 DEF FinishInv
<1>7. FoundInv'
  BY <1>2, <1>3 DEF FoundInv
<1> QED
  BY <1>4, <1>5, <1>6, <1>7 DEF Places

\* A loader that was just started is quiet.
LEMMA BootPlaces ==
  ASSUME RInv, Boot
  PROVE  Places'
<1> USE DEF RInv
<1>1. /\ UNCHANGED <<verb, stage, pc, conn, got, fin, result, rx, tx, pull, flash, before>>
      /\ dev = "reset" /\ lpc' = "poll" /\ active' = FALSE /\ buf' = Loader!Junk
  BY DEF Boot, clientVars, nvmVars, envVars
<1>2. tx = <<>> /\ conn # "live"
  BY <1>1 DEF WInv, PlaceInv
<1>3. Quiet' /\ (Settled => Settled') /\ (Untouched => Untouched')
  <2>1. ~Has(tx', "upgrade")
    BY <1>1, <1>2 DEF Has
  <2> QED
    BY <1>1, <2>1, SameWritten DEF Quiet, Settled, Untouched
<1>4. WholeInv'
  BY <1>1 DEF WholeInv, Ended
<1>5. RunInv' /\ LinkInv'
  BY <1>1, <1>2 DEF RunInv, LinkInv
<1>6. FinishInv'
  BY <1>1, <1>3 DEF FinishInv
<1>7. FoundInv'
  BY <1>1, <1>2, <1>3 DEF FoundInv
<1> QED
  BY <1>4, <1>5, <1>6, <1>7 DEF Places

\* A frame that the loader handles
LEMMA LoaderHearsPlaces ==
  ASSUME RInv, LoaderHears
  PROVE  Places'
<1> USE DEF RInv
<1>1. /\ UNCHANGED <<verb, stage, pc, conn, got, fin, result, pull, before, dev>>
      /\ UNCHANGED <<lpc, cursor, flash>>
      /\ dev = "loader" /\ tx # <<>> /\ tx' = Tail(tx)
  BY DEF LoaderHears, LoaderRest, clientVars, envVars, Loader!Dispatch, Loader!loop, Loader!nvm
<1>2. conn # "dead" /\ rx \in Seq(Heard) /\ tx \in Seq(Sent)
  BY <1>1 DEF LinkInv, WInv, QueueInv
<1>3. /\ rx' = rx \/ rx' = Append(rx, Identity(OtaName))
      /\ Head(tx).kind = "upgrade" \/ active' = active
      /\ buf' = buf \/ (Head(tx).kind = "data" /\ buf' = Head(tx).payload)
  <2>1. CASE Loader!HandleUpgrade(Head(tx))
    BY <2>1 DEF Loader!HandleUpgrade, Loader!link
  <2>2. CASE Loader!HandleQuery(Head(tx), OtaName)
    BY <2>2, SameFrames DEF Loader!HandleQuery, Loader!link
  <2>3. CASE Loader!HandleData(Head(tx))
    BY <2>3 DEF Loader!HandleData
  <2>4. CASE Loader!HandleMalformed(Head(tx))
    BY <2>4 DEF Loader!HandleMalformed, Loader!link
  <2> QED
    BY <2>1, <2>2, <2>3, <2>4 DEF LoaderHears, Loader!Dispatch
<1>4. /\ Has(tx', "upgrade") => Has(tx, "upgrade")
      /\ Head(tx).kind = "upgrade" => Has(tx, "upgrade")
  <2>1. Has(tx, "upgrade") <=> Has(Tail(tx), "upgrade") \/ Head(tx).kind = "upgrade"
    BY <1>1, <1>2, HasTail
  <2> QED
    BY <1>1, <2>1
<1>5. (Quiet => Quiet') /\ (Settled => Settled') /\ (Untouched => Untouched')
  BY <1>1, <1>3, <1>4, SameWritten DEF Quiet, Settled, Untouched
<1>6. Identity(OtaName) \in Heard /\ Identity(OtaName).kind = "identity"
      /\ Identity(OtaName).id.ota
  BY DEF Identity, Heard, OtaName
<1>7. ASSUME NEW a PROVE Stated(rx', a) => Stated(rx, a)
  <2>1. Stated(Append(rx, Identity(OtaName)), a) => Stated(rx, a)
    BY <1>2, <1>6, StatedAppend
  <2> QED
    BY <1>3, <2>1
<1>8. ASSUME conn = "live", NEW i \in DOMAIN rx', rx'[i].kind = "identity"
      PROVE  rx'[i].id.ota
  <2>1. CASE rx' = rx
    BY <1>1, <1>8, <2>1 DEF LinkInv
  <2>2. CASE rx' = Append(rx, Identity(OtaName))
    <3>1. rx'[i] = IF i \in DOMAIN rx THEN rx[i] ELSE Identity(OtaName)
      BY <1>2, <1>8, <2>2
    <3> QED
      BY <1>1, <1>6, <1>8, <3>1 DEF LinkInv
  <2> QED
    BY <1>3, <2>1, <2>2
<1>9. WholeInv'
  <2>1. Head(tx) \in Sent
    BY <1>1, <1>2
  <2>2. buf' \in Payloads \cup {Loader!Junk}
    BY <1>3, <2>1 DEF WholeInv, Sent, Query, Upgrade, Malformed
  <2> QED
    BY <1>1, <2>2, SameWritten DEF WholeInv
<1>10. RunInv'
  BY <1>1 DEF RunInv
<1>11. LinkInv'
  BY <1>1, <1>2, <1>7, <1>8 DEF LinkInv
<1>12. FinishInv'
  BY <1>1, <1>5, <1>7 DEF FinishInv
<1>13. FoundInv'
  BY <1>1, <1>5, <1>7 DEF FoundInv
<1> QED
  BY <1>9, <1>10, <1>11, <1>12, <1>13 DEF Places

(***************************************************************************)
(* What a step of the loader's loop asks for and does to flash, by where   *)
(* the loop is.                                                            *)
(***************************************************************************)
Programs ==
  \/ flash' = flash
  \/ lpc = "erase" /\ flash' = [b \in Offsets |-> Loader!Erased]
  \/ lpc = "store" /\ flash' = [flash EXCEPT ![cursor - 1] = buf]
  \/ lpc = "verify" /\ flash' = [flash EXCEPT ![0] = Loader!Erased]

Requests ==
  \/ rx' = rx
  \/ \E a \in Offsets \cup {FINISH}, n \in Nat :
       rx' = Append(rx, Request(a, n)) /\ (a = FINISH => lpc' \in Ended)

\* Only the erase, the stores and a read-back that fails change flash, and only
\* the end of a gate asks for the finish.
LEMMA LoaderEffects ==
  ASSUME QueueInv, WholeInv, LoaderRuns
  PROVE  Programs /\ Requests /\ (lpc \in Ended => lpc' \in Ended)
<1> USE DEF Programs, Requests, Ended, Loader!At, Loader!Goto
<1>1. cursor \in Nat /\ ImageLen \in Nat \ {0} /\ SuccessLen \in Nat /\ 0 \in Offsets
  BY WireAssumption DEF QueueInv, Offsets
<1>2. ASSUME NEW a \in Offsets \cup {FINISH}, NEW n \in Nat, Loader!StartRead(a, n),
             a = FINISH => lpc' \in Ended
      PROVE  Requests
  BY <1>2, SameFrames DEF Loader!StartRead
<1>3. /\ Loader!NoRequest => rx' = rx
      /\ UNCHANGED Loader!nvm => flash' = flash
  BY DEF Loader!NoRequest, Loader!nvm
<1>4. CASE Loader!EnterGate \/ Loader!Callbacks \/ Loader!Heads \/ Loader!Plan
           \/ \E f \in BOOLEAN : Loader!Inspect(f)
  BY <1>3, <1>4
  DEF Loader!EnterGate, Loader!Callbacks, Loader!Heads, Loader!Plan, Loader!Inspect
<1>5. CASE Loader!Erase
  <2>1. Loader!Offsets = Offsets
    BY DEF Loader!Offsets, Offsets
  <2> QED
    BY <1>3, <1>5, <2>1 DEF Loader!Erase
<1>6. CASE Loader!Store \/ Loader!ProgramDone
  BY <1>3, <1>6 DEF Loader!Store, Loader!ProgramDone
<1>7. CASE Loader!ProgramRead
  <2>1. lpc = "program" /\ cursor - 1 \in Offsets /\ flash' = flash
    BY <1>1, <1>3, <1>7 DEF Loader!ProgramRead, WholeInv, Offsets
  <2>2. Loader!StartRead(cursor - 1, 1) /\ FINISH \notin Offsets
    BY <1>7, WireAssumption DEF Loader!ProgramRead, Offsets
  <2>3. Requests
    BY <1>2, <2>1, <2>2
  <2> QED
    BY <2>1, <2>3
<1>8. CASE Loader!Verify \/ Loader!Finalize
  BY <1>3, <1>8 DEF Loader!Verify, Loader!Finalize
<1>9. CASE Loader!FinishRequest
  <2>1. Loader!StartRead(FINISH, SuccessLen) /\ lpc' = "answer" /\ flash' = flash
    BY <1>3, <1>9 DEF Loader!FinishRequest
  <2>2. Requests
    BY <1>1, <1>2, <2>1
  <2> QED
    BY <2>1, <2>2
<1>10. CASE Loader!FinishRetry \/ Loader!FinishGate
  BY <1>3, <1>10 DEF Loader!FinishRetry, Loader!FinishGate, Loader!link
<1>11. CASE Loader!GateError
  <2>1. lpc \notin Ended
    BY <1>11
    DEF Loader!GateError, Loader!ProgramFails, Loader!CheckFails, Loader!VerifyFails,
        Loader!FinalizeFails, Loader!Checking
  <2>2. rx' = rx
    BY <1>3, <1>11
    DEF Loader!GateError, Loader!ProgramFails, Loader!CheckFails, Loader!VerifyFails,
        Loader!FinalizeFails
  <2>3. flash' = flash \/ (lpc = "verify" /\ flash' = [flash EXCEPT ![0] = Loader!Erased])
    BY <1>11
    DEF Loader!GateError, Loader!ProgramFails, Loader!CheckFails, Loader!VerifyFails,
        Loader!FinalizeFails
  <2> QED
    BY <2>1, <2>2, <2>3
<1>12. CASE Loader!CheckRead(0, 1)
  <2>1. Loader!StartRead(0, 1) /\ FINISH \notin Offsets /\ flash' = flash /\ lpc' = lpc
    BY <1>3, <1>12, WireAssumption DEF Loader!CheckRead, Offsets
  <2>2. Requests
    BY <1>1, <1>2, <2>1
  <2> QED
    BY <2>1, <2>2
<1> QED
  BY <1>4, <1>5, <1>6, <1>7, <1>8, <1>9, <1>10, <1>11, <1>12 DEF LoaderRuns, Loader!GateStep
\* The contents of a block that was programmed, and of one that was not
LEMMA PayloadNotOld ==
  ASSUME NEW c \in Payloads \cup {Loader!Junk}
  PROVE  c \notin {Loader!Old, Loader!Erased} /\ Loader!Old # Loader!Erased
BY WireAssumption
DEF Payloads, Success, Offsets, Loader!Junk, Loader!Old, Loader!Erased

(***************************************************************************)
(* A full update goes through its stages in order, so what WholeInv says   *)
(* of flash at each stage holds at the next.                               *)
(***************************************************************************)
LEMMA WholeStep ==
  ASSUME Whole, PathInv, QueueInv, WholeInv, LoaderRuns
  PROVE  WholeInv'
<1> USE DEF WholeInv, Ended, Loader!At, Loader!Goto
<1>1. /\ cursor \in Nat /\ ImageLen \in Nat \ {0} /\ 0 \in Offsets /\ Loader!Offsets = Offsets
      /\ \A b \in Offsets : b \in Nat /\ b < ImageLen
  BY WireAssumption DEF QueueInv, Offsets, Loader!Offsets
<1>2. /\ Loader!NoRequest => buf' = buf
      /\ UNCHANGED Loader!nvm => flash' = flash
  BY DEF Loader!NoRequest, Loader!nvm, Loader!link
<1>3. Loader!Junk \in Loader!Contents /\ Loader!Erased \in Loader!Contents
      /\ buf \in Loader!Contents
  BY DEF Loader!Contents, Loader!Payloads, Payloads, Loader!Offsets, Offsets, Loader!Success,
         Success
<1>4. CASE Loader!EnterGate \/ Loader!Heads \/ Loader!Plan
  BY <1>2, <1>4, SameWritten DEF Loader!EnterGate, Loader!Heads, Loader!Plan
<1>5. CASE \E f \in BOOLEAN : Loader!Inspect(f)
  BY <1>2, <1>5, SameWritten DEF Loader!Inspect
<1>6. ~Loader!Callbacks
  BY DEF Loader!Callbacks, PathInv
<1>7. CASE Loader!Erase
  <2>1. lpc' = "program" /\ cursor' = ImageLen /\ buf' = buf
        /\ flash' = [b \in Offsets |-> Loader!Erased]
    BY <1>1, <1>2, <1>7 DEF Loader!Erase
  <2> QED
    BY <1>1, <1>3, <2>1
<1>8. CASE Loader!ProgramRead
  <2>1. lpc = "program" /\ lpc' = "store" /\ UNCHANGED <<cursor, buf, flash>>
    BY <1>2, <1>8 DEF Loader!ProgramRead
  <2> QED
    BY <2>1
<1>9. CASE Loader!Store
  <2>1. /\ lpc = "store" /\ lpc' = "program" /\ cursor' = cursor - 1 /\ buf' = buf
        /\ flash' = [flash EXCEPT ![cursor - 1] = buf]
    BY <1>2, <1>9 DEF Loader!Store
  <2>2. cursor > 0 /\ cursor \in 0 .. ImageLen
    BY <2>1 DEF QueueInv
  <2>3. cursor - 1 \in Offsets /\ cursor' \in 0 .. ImageLen
    BY <1>1, <2>1, <2>2 DEF Offsets
  <2>4. flash' \in [Offsets -> Loader!Contents]
    BY <1>3, <2>1, <2>3
  <2>5. ASSUME NEW b \in Offsets
        PROVE  IF b < cursor' THEN flash'[b] = Loader!Erased
               ELSE flash'[b] \notin {Loader!Old, Loader!Erased}
    <3>1. CASE b = cursor - 1
      BY <1>1, <2>1, <2>2, <2>3, <3>1, PayloadNotOld
    <3>2. CASE b # cursor - 1
      BY <1>1, <2>1, <2>2, <3>2
    <3> QED
      BY <3>1, <3>2
  <2> QED
    BY <2>1, <2>3, <2>4, <2>5
<1>10. CASE Loader!ProgramDone
  <2>1. lpc = "program" /\ cursor = 0 /\ lpc' = "verify" /\ UNCHANGED <<buf, flash>>
    BY <1>2, <1>10 DEF Loader!ProgramDone
  <2> QED
    BY <1>1, <2>1
<1>11. CASE Loader!Verify
  <2>1. lpc = "verify" /\ lpc' = "finalize" /\ buf' = Loader!Junk /\ flash' = flash
        /\ Loader!Consistent
    BY <1>2, <1>11 DEF Loader!Verify
  <2>2. Loader!Written
    BY <1>1, <2>1 DEF Loader!Consistent, Loader!Touched
  <2> QED
    BY <2>1, <2>2, SameWritten
<1>12. CASE Loader!Finalize
  BY <1>2, <1>12, SameWritten DEF Loader!Finalize
<1>13. CASE Loader!FinishRequest
  BY <1>2, <1>13, SameWritten DEF Loader!FinishRequest
<1>14. CASE Loader!FinishRetry \/ Loader!FinishGate
  BY <1>2, <1>14, SameWritten DEF Loader!FinishRetry, Loader!FinishGate, Loader!link
<1>15. CASE Loader!GateError
  <2>1. lpc' = "poll" /\ buf' \in {buf, Loader!Junk}
    BY <1>2, <1>15
    DEF Loader!GateError, Loader!ProgramFails, Loader!CheckFails, Loader!VerifyFails,
        Loader!FinalizeFails, Loader!Fail
  <2>2. flash' \in {flash, [flash EXCEPT ![0] = Loader!Erased]}
    BY <1>15
    DEF Loader!GateError, Loader!ProgramFails, Loader!CheckFails, Loader!VerifyFails,
        Loader!FinalizeFails
  <2>3. flash' \in [Offsets -> Loader!Contents]
    BY <1>3, <2>2
  <2> QED
    BY <2>1, <2>3
<1>16. CASE Loader!CheckRead(0, 1)
  <2>1. lpc \in Loader!Reading /\ lpc' = lpc /\ UNCHANGED <<flash, buf>>
    BY <1>2, <1>16 DEF Loader!CheckRead
  <2> QED
    BY <2>1, SameWritten DEF Loader!Reading, Loader!Checking
<1> QED
  BY <1>4, <1>5, <1>6, <1>7, <1>8, <1>9, <1>10, <1>11, <1>12, <1>13, <1>14, <1>15, <1>16
  DEF LoaderRuns, Loader!GateStep

(***************************************************************************)
(* A loader that runs has been commanded, so it is not quiet; what a run   *)
(* relies on then is that the loop is past its read-back.                  *)
(***************************************************************************)
LEMMA LoaderRunsPlaces ==
  ASSUME Whole, RInv, LoaderRuns
  PROVE  Places'
<1> USE DEF RInv
<1>1. /\ UNCHANGED <<verb, stage, pc, conn, got, fin, result, tx, pull, before, dev>>
      /\ dev = "loader"
  BY DEF LoaderRuns, LoaderRest, clientVars, envVars
<1>2. ~Quiet /\ conn # "dead"
  <2>1. lpc = "poll" => active
    BY LoaderAsks DEF WInv
  <2> QED
    BY <1>1, <2>1 DEF Quiet, LinkInv
<1>3. Programs /\ Requests /\ (lpc \in Ended => lpc' \in Ended)
  BY LoaderEffects DEF WInv
<1>4. WholeInv'
  BY WholeStep DEF DInv, WInv
<1>5. Settled => Settled'
  <2>1. Settled => lpc' \in Ended
    BY <1>2, <1>3 DEF Settled
  <2> QED
    BY <1>4, <2>1 DEF WholeInv, Settled
<1>6. ~Untouched
  BY <1>2 DEF Untouched
<1>7. rx \in Seq(Heard)
  BY DEF WInv, QueueInv
<1>8. CASE rx' = rx
  <2>1. RunInv' /\ LinkInv'
    BY <1>1, <1>2, <1>3, <1>8 DEF RunInv, LinkInv
  <2>2. FinishInv'
    BY <1>1, <1>5, <1>8 DEF FinishInv
  <2>3. FoundInv'
    BY <1>1, <1>6, <1>8 DEF FoundInv
  <2> QED
    BY <1>4, <2>1, <2>2, <2>3 DEF Places
<1>9. ASSUME NEW a \in Offsets \cup {FINISH}, NEW n \in Nat,
             rx' = Append(rx, Request(a, n)), a = FINISH => lpc' \in Ended
      PROVE  Places'
  <2>1. /\ Request(a, n) \in Heard /\ Request(a, n).kind = "request"
        /\ Request(a, n).addr = a /\ a # VERIFY
    BY WireAssumption DEF Request, Heard, Offsets
  <2>2. Stated(rx', VERIFY) => Stated(rx, VERIFY)
    <3>1. Stated(Append(rx, Request(a, n)), VERIFY) => Stated(rx, VERIFY)
      BY <1>7, <2>1, StatedAppend
    <3> QED
      BY <1>9, <3>1
  <2>3. Stated(rx', FINISH) => Stated(rx, FINISH) \/ lpc' \in Ended
    <3>1. Stated(Append(rx, Request(a, n)), FINISH) => Stated(rx, FINISH) \/ a = FINISH
      BY <1>7, <2>1, StatedAppend
    <3> QED
      BY <1>9, <3>1
  <2>4. ASSUME NEW i \in DOMAIN rx', rx'[i].kind = "identity"
        PROVE  i \in DOMAIN rx /\ rx'[i] = rx[i]
    <3>1. rx'[i] = IF i \in DOMAIN rx THEN rx[i] ELSE Request(a, n)
      BY <1>7, <1>9, <2>4
    <3> QED
      BY <2>1, <2>4, <3>1
  <2>5. RunInv'
    BY <1>1 DEF RunInv
  <2>6. LinkInv'
    BY <1>1, <1>2, <1>3, <2>2, <2>3, <2>4 DEF LinkInv
  <2>7. FinishInv'
    <3>1. lpc' \in Ended => Settled'
      BY <1>4 DEF WholeInv, Settled
    <3> QED
      BY <1>1, <1>5, <2>3, <3>1 DEF FinishInv
  <2>8. FoundInv'
    BY <1>1, <1>6, <2>2 DEF FoundInv
  <2> QED
    BY <1>4, <2>5, <2>6, <2>7, <2>8 DEF Places
<1> QED
  BY <1>3, <1>8, <1>9 DEF Requests

----------------------------------------------------------------------------
(* Faults and the next run *)

\* Frames that are lost say nothing.
LEMMA LosePlaces ==
  ASSUME RInv, Lose \/ Unheard
  PROVE  Places'
<1> USE DEF RInv
<1>1. /\ UNCHANGED <<verb, stage, pc, conn, got, fin, result, pull, before, dev>>
      /\ UNCHANGED <<lpc, active, cursor, buf, flash>>
  BY DEF Lose, Unheard, clientVars, loopVars, nvmVars, envVars
<1>2. rx \in Seq(Heard) /\ tx \in Seq(Sent) /\ held \in Nat
  BY DEF WInv, QueueInv
<1>3. Within(rx', rx)
  <2>1. Within(rx, rx) /\ Within(<<>>, rx)
    BY <1>2, Shorter
  <2>2. Client!Readable => Within(SubSeq(rx, 1, held), rx)
    <3>1. Client!Readable => held \in 0 .. Len(rx)
      BY <1>2 DEF Client!Readable
    <3> QED
      BY <1>2, <3>1, Shorter
  <2> QED
    BY <2>1, <2>2 DEF Lose, Unheard
<1>4. tx' = tx \/ (tx # <<>> /\ tx' = Tail(tx))
  BY DEF Lose, Unheard
<1>5. Has(tx', "upgrade") => Has(tx, "upgrade")
  <2>1. tx # <<>> => (Has(Tail(tx), "upgrade") => Has(tx, "upgrade"))
    BY <1>2, HasTail
  <2> QED
    BY <1>4, <2>1
<1>6. (Quiet => Quiet') /\ (Settled => Settled') /\ (Untouched => Untouched')
  BY <1>1, <1>5, QuietKept DEF Untouched
<1>7. \A a : Stated(rx', a) => Stated(rx, a)
  BY <1>3, StatedWithin
<1>8. WholeInv' /\ RunInv'
  BY <1>1, SameWhole DEF RunInv
<1>9. LinkInv'
  <2>1. CASE conn = "dead"
    BY <1>1, <1>4, <2>1 DEF LinkInv
  <2>2. CASE conn = "live"
    BY <1>1, <1>3, <1>7, <2>2 DEF LinkInv, Within
  <2>3. CASE conn \notin {"dead", "live"}
    BY <1>1, <2>3 DEF LinkInv
  <2> QED
    BY <2>1, <2>2, <2>3
<1>10. FinishInv'
  BY <1>1, <1>6, <1>7 DEF FinishInv
<1>11. FoundInv'
  BY <1>1, <1>6, <1>7 DEF FoundInv
<1> QED
  BY <1>8, <1>9, <1>10, <1>11 DEF Places

\* The next run has found nothing and claims nothing.
LEMMA AgainPlaces ==
  ASSUME RInv, Again
  PROVE  Places'
<1> USE DEF RInv
<1>1. /\ verb' \in {"flash", "serve"} /\ stage' = 1 /\ pc' = "find" /\ conn' = "closed"
      /\ fin' = [s \in 1 .. 2 |-> "none"] /\ result' = "none"
      /\ UNCHANGED <<lpc, cursor, buf, flash>>
  BY SystemAssumption DEF Again, loopVars, nvmVars
<1>2. WholeInv' /\ RunInv'
  BY <1>1, SameWhole DEF RunInv
<1> QED
  BY <1>1, <1>2 DEF Places, LinkInv, FinishInv, FoundInv

----------------------------------------------------------------------------
(* The invariant *)

\* Each action of the whole update keeps the invariant.
LEMMA RefinementStep ==
  ASSUME Whole, RInv, [Next]_vars
  PROVE  RInv'
<1>1. DInv' /\ WInv'
  BY BootStep, WaitStep DEF RInv
<1>2. Places'
  <2>1. CASE UNCHANGED vars
    <3>1. (Quiet <=> Quiet') /\ (Settled <=> Settled') /\ (Untouched <=> Untouched')
      BY <2>1, SameWritten
      DEF vars, clientVars, loopVars, nvmVars, envVars, Quiet, Settled, Untouched
    <3>2. WholeInv' /\ RunInv'
      BY <2>1, SameWhole DEF vars, clientVars, loopVars, nvmVars, RInv, RunInv
    <3>3. LinkInv' /\ FinishInv' /\ FoundInv'
      BY <2>1, <3>1
      DEF vars, clientVars, loopVars, nvmVars, envVars, RInv, LinkInv, FinishInv, FoundInv, Stated
    <3> QED
      BY <3>2, <3>3 DEF Places
  <2>2. CASE Run
    BY <2>2, ClientSteps, ApproachKept, TransferKept, ConcludeKept
  <2>3. CASE Again \/ Lose \/ Unheard
    BY <2>3, AgainPlaces, LosePlaces
  <2>4. CASE AppQuery \/ AppUpgrade \/ AppAsk \/ AppData \/ \E a \in Offsets : AppPull(a)
    BY <2>4, AppPlaces
  <2>5. CASE AppReset \/ LoaderRestart \/ PowerCut \/ Boot
    BY <2>5, LeavePlaces, BootPlaces
  <2>6. CASE LoaderHears \/ LoaderRuns
    BY <2>6, LoaderHearsPlaces, LoaderRunsPlaces
  <2> QED
    BY <2>1, <2>2, <2>3, <2>4, <2>5, <2>6 DEF Next
<1> QED
  BY <1>1, <1>2 DEF RInv, Places

\* Nothing was found, queued or written at first.
LEMMA RefinementInit == Init => RInv
<1> SUFFICES ASSUME Init PROVE RInv
  OBVIOUS
<1>1. DInv /\ WInv
  BY BootInit, WaitInit
<1>2. verb \in {"flash", "serve"} /\ stage = 1 /\ pc = "find" /\ conn = "closed"
      /\ fin = [s \in 1 .. 2 |-> "none"] /\ result = "none" /\ lpc = "poll"
      /\ buf = Loader!Junk /\ flash = [b \in Offsets |-> Loader!Old]
  BY DEF Init, Client!Init, Loader!Fresh
<1>3. WholeInv
  BY <1>2 DEF WholeInv, Ended, Loader!Contents
<1>4. RunInv /\ LinkInv /\ FinishInv /\ FoundInv
  BY <1>2 DEF RunInv, LinkInv, FinishInv, FoundInv
<1> QED
  BY <1>1, <1>3, <1>4 DEF RInv
----------------------------------------------------------------------------
(* Each step is one of PackageUpdate, or changes nothing there *)

\* Nothing that PackageUpdate speaks of changes.
Kept == Installed' = Installed /\ InstalledBefore' = InstalledBefore /\ Verdict' = Verdict

Follows == Promise!Next \/ Kept

\* What is installed is a matter of flash alone.
LEMMA SameInstalled ==
  /\ Installed \in {"old", "torn", "new"}
  /\ flash' = flash => Installed' = Installed
  /\ before' = before => InstalledBefore' = InstalledBefore
  /\ flash = before => Installed = InstalledBefore
  /\ before' = flash => InstalledBefore' = Installed
BY DEF Installed, InstalledBefore, Loader!Written, Loader!Touched, Loader!Offsets, Offsets

\* The verdict is a matter of where the client is and how it ended.
LEMMA Verdicts ==
  /\ result = "none" => Verdict = IF stage = 1 /\ pc = "find" THEN "searching" ELSE "pending"
  /\ result \in {"ok", "notFlashed"} => Verdict = result
  /\ result \in {"fail", "raised"} => Verdict = "error"
BY DEF Verdict

\* The same of the next state
LEMMA NextVerdicts ==
  /\ result' = "none" =>
       Verdict' = IF stage' = 1 /\ pc' = "find" THEN "searching" ELSE "pending"
  /\ result' \in {"ok", "notFlashed"} => Verdict' = result'
  /\ result' \in {"fail", "raised"} => Verdict' = "error"
BY DEF Verdict

\* A connection in progress finds the device, goes on or reports.
LEMMA ApproachFollows ==
  ASSUME RInv, Run, Approach
  PROVE  Follows
<1> USE DEF RInv, Approach, Same, Ends, Pre, Promise!Next, Promise!Report, Follows, Kept
<1>1. /\ flash' = flash
      /\ before' = IF stage = 1 /\ pc = "find" /\ pc' = "open" THEN flash ELSE before
  BY ClientSteps
<1>2. Installed' = Installed /\ (pc' # "open" => InstalledBefore' = InstalledBefore)
  BY <1>1, SameInstalled
<1>3. Verdict = IF stage = 1 /\ pc = "find" THEN "searching" ELSE "pending"
  BY Verdicts DEF RunInv
<1>4. CASE pc' = "exit" /\ result' \in {"fail", "raised"}
  BY <1>2, <1>3, <1>4, NextVerdicts
<1>5. CASE pc' = "exit" /\ result' = "ok" /\ stage = 3
  <2>1. Installed = "new"
    BY <1>5 DEF FinishInv, Settled, Installed
  <2> QED
    BY <1>2, <1>3, <1>5, <2>1, NextVerdicts
<1>6. CASE pc' # "exit"
  <2>1. result' = "none" /\ stage' = stage
    BY <1>6 DEF RunInv
  <2>2. CASE stage = 1 /\ pc = "find" /\ pc' # "find"
    <3>1. InstalledBefore' = Installed
      BY <1>1, <1>6, <2>2, SameInstalled
    <3>2. Verdict = "searching" /\ Verdict' = "pending"
      BY <1>3, <2>1, <2>2, NextVerdicts
    <3> QED
      BY <1>2, <3>1, <3>2 DEF Promise!Find
  <2>3. CASE ~(stage = 1 /\ pc = "find" /\ pc' # "find")
    <3>1. InstalledBefore' = InstalledBefore
      BY <1>1, <2>3, SameInstalled
    <3>2. Verdict' = Verdict
      BY <1>3, <2>1, <2>3, NextVerdicts
    <3> QED
      BY <1>2, <3>1, <3>2
  <2> QED
    BY <2>2, <2>3
<1> QED
  BY <1>4, <1>5, <1>6

\* While the package is served nothing is reported but an error.
LEMMA TransferFollows ==
  ASSUME RInv, Run, Transfer
  PROVE  Follows
<1> USE DEF RInv, Transfer, Same, Ends, Follows, Kept
<1>1. flash' = flash /\ before' = before
  BY ClientSteps
<1>2. Installed' = Installed /\ InstalledBefore' = InstalledBefore
  BY <1>1, SameInstalled
<1>3. Verdict = "pending"
  BY Verdicts DEF RunInv
<1>4. CASE Ends("raised")
  BY <1>2, <1>3, <1>4, NextVerdicts DEF Promise!Next, Promise!Report
<1>5. CASE ~Ends("raised")
  <2>1. result' = "none" /\ pc' # "find"
    BY <1>5 DEF RunInv
  <2> QED
    BY <1>2, <1>3, <2>1, NextVerdicts
<1> QED
  BY <1>4, <1>5

\* "ok" and "notFlashed" are reported on what the terminal requests showed.
LEMMA ConcludeFollows ==
  ASSUME RInv, Run, Concludes
  PROVE  Follows
<1> USE DEF RInv, Concludes, Ends, Promise!Next, Promise!Report, Follows, Kept
<1>1. flash' = flash /\ before' = before
  BY ClientSteps
<1>2. Installed' = Installed /\ InstalledBefore' = InstalledBefore
  BY <1>1, SameInstalled
<1>3. Verdict = "pending"
  BY Verdicts DEF RunInv
<1>4. CASE result' = "fail"
  BY <1>2, <1>3, <1>4, NextVerdicts
<1>5. CASE result' = "notFlashed" /\ verb = "flash" /\ stage = 2 /\ fin[2] = "verify"
  <2>1. Installed = InstalledBefore
    BY <1>5, SameInstalled DEF FoundInv, Untouched
  <2> QED
    BY <1>2, <1>3, <1>5, <2>1, NextVerdicts
<1>6. CASE result' = "ok" /\ fin[stage] = "finish"
  <2>1. Installed = "new"
    BY <1>6 DEF FinishInv, Settled, Installed
  <2> QED
    BY <1>2, <1>3, <1>6, <2>1, NextVerdicts
<1>7. CASE stage' = stage + 1 /\ result' = result
  <2>1. result' = "none" /\ stage' # 1
    BY <1>7 DEF RunInv, WInv, PlaceInv
  <2> QED
    BY <1>2, <1>3, <2>1, NextVerdicts
<1> QED
  BY <1>4, <1>5, <1>6, <1>7

(***************************************************************************)
(* Of the loader's steps the erase, the stores and the read-back that      *)
(* fails change what is installed: each tears it, or completes it.         *)
(***************************************************************************)
LEMMA LoaderRunsFollows ==
  ASSUME RInv, LoaderRuns
  PROVE  Follows
<1> USE DEF RInv, Follows, Kept
<1>1. InstalledBefore' = InstalledBefore /\ Verdict' = Verdict
  BY SameInstalled DEF LoaderRuns, LoaderRest, clientVars, envVars, Verdict
<1>2. Programs
  BY LoaderEffects DEF WInv
<1>3. /\ 0 \in Offsets /\ Loader!Offsets = Offsets
      /\ \A b \in Offsets : {b} \in Payloads
      /\ Installed \in {"old", "torn", "new"}
  BY WireAssumption, SameInstalled DEF Offsets, Loader!Offsets, Payloads
<1>4. \A b \in Offsets : Loader!Erased # {b} /\ Loader!Old # {b} /\ Loader!Erased # Loader!Old
  BY <1>3, PayloadNotOld
<1>5. Installed' = "torn" \/ Installed' = Installed => Follows
  BY <1>1, <1>3 DEF Promise!Next, Promise!Tear
<1>6. CASE flash' = flash
  BY <1>5, <1>6, SameInstalled
<1>7. CASE flash' = [b \in Offsets |-> Loader!Erased]
  <2>1. flash'[0] = Loader!Erased
    BY <1>3, <1>7
  <2> QED
    BY <1>3, <1>4, <1>5, <2>1 DEF Installed, Loader!Written, Loader!Touched
<1>8. CASE lpc = "store" /\ flash' = [flash EXCEPT ![cursor - 1] = buf]
  <2>1. cursor - 1 \in Offsets /\ cursor - 1 < cursor
    BY <1>8, WireAssumption DEF WholeInv, WInv, QueueInv, Offsets
  <2>2. flash[cursor - 1] = Loader!Erased /\ flash'[cursor - 1] = buf
    BY <1>8, <2>1 DEF WholeInv
  <2>3. buf # Loader!Old
    BY PayloadNotOld DEF WholeInv
  <2>4. Installed = "torn"
    BY <1>3, <1>4, <2>1, <2>2 DEF Installed, Loader!Written, Loader!Touched
  <2>5. Installed' \in {"torn", "new"}
    BY <1>3, <2>1, <2>2, <2>3 DEF Installed, Loader!Touched
  <2> QED
    BY <1>1, <2>4, <2>5 DEF Promise!Next, Promise!Complete
<1>9. CASE flash' = [flash EXCEPT ![0] = Loader!Erased]
  <2>1. flash'[0] = Loader!Erased
    BY <1>3, <1>9 DEF WholeInv
  <2> QED
    BY <1>3, <1>4, <1>5, <2>1 DEF Installed, Loader!Written, Loader!Touched
<1> QED
  BY <1>2, <1>6, <1>7, <1>8, <1>9 DEF Programs

\* Nothing else touches flash or reports.
LEMMA OthersFollow ==
  ASSUME UNCHANGED <<verb, stage, pc, result, flash, before>>
  PROVE  Follows
BY SameInstalled DEF Follows, Kept, Verdict

\* Each step of the whole update is one of the promise's, or none.
LEMMA FollowsStep ==
  ASSUME RInv, [Next]_vars
  PROVE  [Promise!Next]_(Promise!vars)
<1>1. Follows => [Promise!Next]_(Promise!vars)
  BY DEF Follows, Kept, Promise!vars
<1>2. CASE UNCHANGED vars
  BY <1>1, <1>2, OthersFollow DEF vars, clientVars, nvmVars, envVars
<1>3. CASE Run
  BY <1>1, <1>3, ClientSteps, ApproachFollows, TransferFollows, ConcludeFollows
<1>4. CASE Again
  <2>1. Verdict \in {"ok", "notFlashed", "error"}
    BY <1>4, Verdicts DEF Again, RInv, RunInv
  <2>2. Verdict' = "searching" /\ UNCHANGED <<flash, before>>
    BY <1>4, NextVerdicts DEF Again, nvmVars
  <2>3. Promise!Again
    BY <2>1, <2>2, SameInstalled DEF Promise!Again
  <2> QED
    BY <2>3 DEF Promise!Next
<1>5. CASE LoaderRuns
  BY <1>1, <1>5, LoaderRunsFollows
<1>6. CASE LoaderHears
  BY <1>1, <1>6, OthersFollow
  DEF LoaderHears, LoaderRest, Loader!Dispatch, Loader!nvm, clientVars, envVars
<1>7. CASE AppQuery \/ AppUpgrade \/ AppAsk \/ AppData \/ \E a \in Offsets : AppPull(a)
  <2>1. AppRest
    BY <1>7 DEF AppQuery, AppUpgrade, AppAsk, AppData, AppPull
  <2> QED
    BY <1>1, <2>1, OthersFollow DEF AppRest, clientVars, nvmVars, envVars
<1>8. CASE AppReset \/ LoaderRestart \/ PowerCut
  BY <1>1, <1>8, OthersFollow DEF AppReset, LoaderRestart, PowerCut, Leave, nvmVars, envVars
<1>9. CASE Boot \/ Lose \/ Unheard
  BY <1>1, <1>9, OthersFollow DEF Boot, Lose, Unheard, clientVars, nvmVars, envVars
<1> QED
  BY <1>2, <1>3, <1>4, <1>5, <1>6, <1>7, <1>8, <1>9 DEF Next

\* The update begins where the promise does.
LEMMA FollowsInit == Init => Promise!Init
<1> SUFFICES ASSUME Init PROVE Promise!Init
  OBVIOUS
<1>1. /\ flash = [b \in Offsets |-> Loader!Old] /\ before = flash
      /\ stage = 1 /\ pc = "find" /\ result = "none"
  BY DEF Init, Client!Init
<1>2. 0 \in Offsets /\ Loader!Offsets = Offsets /\ Loader!Old # {0}
  BY WireAssumption DEF Offsets, Loader!Offsets, Loader!Old
<1>3. Installed = "old"
  BY <1>1, <1>2 DEF Installed, Loader!Written, Loader!Touched
<1>4. InstalledBefore = "old"
  BY <1>1, <1>3, SameInstalled
<1>5. Verdict = "searching"
  BY <1>1, Verdicts
<1> QED
  BY <1>3, <1>4, <1>5 DEF Promise!Init

(***************************************************************************)
(* The update keeps what it promises, for a package that the loader takes  *)
(* as a whole, of any length, and any number of runs, lost frames, failed  *)
(* gates and power cuts: exit code 0 comes only with the package in flash, *)
(* "image was not flashed" only when flash still is what the run found.    *)
(***************************************************************************)
THEOREM UpdateKeepsPromise ==
  ASSUME Whole
  PROVE  Spec => KeepsPromise
<1>1. Init => RInv
  BY RefinementInit
<1>2. RInv /\ [Next]_vars => RInv'
  BY RefinementStep
<1>3. RInv /\ [Next]_vars => [Promise!Next]_(Promise!vars)
  BY FollowsStep
<1>4. Init => Promise!Init
  BY FollowsInit
<1> QED
  BY <1>1, <1>2, <1>3, <1>4, PTL DEF Spec, KeepsPromise, Promise!Spec
=============================================================================
