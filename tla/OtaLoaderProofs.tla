-------------------------- MODULE OtaLoaderProofs --------------------------
(***************************************************************************)
(* The safety of the OTA loader, for every image length, reply size and    *)
(* set of statuses, against any client.                                    *)
(*                                                                         *)
(* The inductive invariant is TypeOK /\ Safe: StageInv says what holds at  *)
(* each stage, FinishMeansWritten and HeadLast are kept by the stages that *)
(* do not program, and follow from StageInv at those that do.              *)
(***************************************************************************)
EXTENDS OtaLoader, TLAPS

Safe == StageInv /\ FinishMeansWritten /\ HeadLast

IInv == TypeOK /\ Safe

(***************************************************************************)
(* The markers are told apart, and from every payload of the client.       *)
(***************************************************************************)
LEMMA Markers ==
  /\ Old # Erased /\ Old # Junk /\ Erased # Junk
  /\ Old \notin Payloads /\ Erased \notin Payloads
  /\ Old \notin SUBSET Offsets /\ Erased \notin SUBSET Offsets
  /\ Junk \notin Payloads
<1>1. ImageLen \in Nat
  BY WireAssumption
<1>2. ImageLen + 1 \in Old /\ ImageLen + 2 \in Erased /\ ImageLen + 3 \in Junk
  BY DEF Old, Erased, Junk
<1>3. \A k \in Old \cup Erased \cup Junk : k \notin Offsets /\ k # ImageLen
  BY <1>1 DEF Old, Erased, Junk, Offsets
<1>4. Old # Erased /\ Old # Junk /\ Erased # Junk
  BY <1>1 DEF Old, Erased, Junk
<1> QED
  BY <1>2, <1>3, <1>4 DEF Payloads, Success

(***************************************************************************)
(* What a reply of the client carries: a payload; and when it answers the  *)
(* request for one block of the image, that block.                         *)
(***************************************************************************)
LEMMA ReplyData ==
  ASSUME NEW m \in Replies \cup {Query, Upgrade, Malformed}, m.kind = "data"
  PROVE  /\ m.payload \in Payloads
         /\ \A b \in Offsets : m.addr = b /\ m.len = 1 => m.payload = {b}
<1>1. m # Query /\ m # Upgrade /\ m # Malformed
  BY DEF Query, Upgrade, Malformed
<1>2. CASE \E a \in Offsets, n \in ReadLens : m = Reply(a, n)
  <2>1. PICK a \in Offsets, n \in ReadLens : m = Reply(a, n)
    BY <1>2
  <2>2. m = Data(a, n, Slice(a, n))
    BY <1>1, <2>1 DEF Reply
  <2>3. m.payload = Slice(a, n) /\ m.addr = a /\ m.len = n
    BY <2>2 DEF Data
  <2>4. Slice(a, n) \in Payloads
    BY DEF Slice, Payloads
  <2>5. n = 1 => Slice(a, n) = {a}
    BY WireAssumption DEF Slice, Offsets
  <2> QED
    BY <2>3, <2>4, <2>5
<1>3. CASE \E a \in Terminal : m = SuccessReply(a)
  <2>1. PICK a \in Terminal : m = SuccessReply(a)
    BY <1>3
  <2>2. m.payload = Success /\ m.addr = a
    BY <2>1 DEF SuccessReply, Data
  <2>3. a \notin Offsets
    BY WireAssumption DEF Terminal, Offsets
  <2> QED
    BY <2>2, <2>3 DEF Payloads
<1> QED
  BY <1>1, <1>2, <1>3 DEF Replies

(***************************************************************************)
(* The loader starts idle, with the flash of the installed firmware.       *)
(***************************************************************************)
LEMMA InitIInv == Init => IInv
<1> SUFFICES ASSUME Init PROVE IInv
  OBVIOUS
<1>1. TypeOK
  <2>1. FlagsOK
    BY Zenon DEF Init, Fresh, FlagsOK
  <2>2. LoopOK
    BY LoaderAssumption DEF Init, Fresh, LoopOK, Stages
  <2>3. LinkOK
    <3>1. rx \in Seq(DeviceFrames)
      BY DEF Init, Fresh
    <3> QED
      BY <3>1 DEF Init, Fresh, LinkOK, NoRead
  <2>4. flash \in [Offsets -> Contents]
    BY DEF Init, Fresh, Contents
  <2> QED
    BY <2>1, <2>2, <2>3, <2>4 DEF TypeOK
<1>2. Safe
  BY Markers, WireAssumption
  DEF Init, Fresh, Safe, StageInv, ProgramInv, StoreInv, VerifyInv,
      FinishMeansWritten, HeadLast, Offsets
<1> QED
  BY <1>1, <1>2 DEF IInv

USE DEF Goto, At, NoRequest, loop, nvm, link

(***************************************************************************)
(* Requests queued for the client are frames of the device.                *)
(***************************************************************************)
LEMMA RequestQueued ==
  ASSUME LinkOK, NEW a \in Nat, NEW n \in Nat, StartRead(a, n)
  PROVE  /\ rx' \in Seq(DeviceFrames)
         /\ armed' \in [addr : Nat, len : Nat]
         /\ waiting' \in BOOLEAN
<1>1. Request(a, n) \in DeviceFrames
  BY DEF Request, DeviceFrames
<1> QED
  BY <1>1 DEF LinkOK, StartRead

(***************************************************************************)
(* No step of the client's frames or of the loop leaves the domains.       *)
(***************************************************************************)
LEMMA TypeStep == IInv /\ [Next]_vars => TypeOK'
<1> SUFFICES ASSUME IInv, [Next]_vars PROVE TypeOK'
  OBVIOUS
<1> USE DEF IInv, TypeOK
<1>1. CASE UNCHANGED vars
  BY <1>1 DEF vars, FlagsOK, LoopOK, LinkOK
<1>2. ASSUME NEW m \in Replies \cup {Query, Upgrade, Malformed}, NEW id \in Ids,
             Dispatch(m, id)
      PROVE  TypeOK'
  <2>1. LoopOK' /\ flash' \in [Offsets -> Contents]
    BY <1>2 DEF Dispatch, LoopOK
  <2>2. FlagsOK'
    BY <1>2 DEF Dispatch, FlagsOK, HandleUpgrade, HandleQuery, HandleData,
                HandleMalformed
  <2>3. LinkOK'
    <3>1. CASE HandleUpgrade(m) \/ HandleMalformed(m)
      BY <3>1 DEF HandleUpgrade, HandleMalformed, LinkOK
    <3>2. CASE HandleQuery(m, id)
      <4>1. Identity(id) \in DeviceFrames
        BY DEF Identity, DeviceFrames
      <4> QED
        BY <3>2, <4>1 DEF HandleQuery, LinkOK
    <3>3. CASE HandleData(m)
      BY <3>3, ReplyData DEF HandleData, LinkOK, NoRead
    <3> QED
      BY <1>2, <3>1, <3>2, <3>3 DEF Dispatch
  <2> QED
    BY <2>1, <2>2, <2>3
<1>3. CASE TakeRx
  <2>1. LinkOK'
    BY <1>3 DEF TakeRx, LinkOK
  <2> QED
    BY <1>3, <2>1 DEF TakeRx, FlagsOK, LoopOK
<1>4. ASSUME NEW a \in Offsets, NEW n \in ReadLens, CheckRead(a, n)
      PROVE  TypeOK'
  <2>1. LinkOK' /\ waiting' \in BOOLEAN
    BY <1>4, RequestQueued, WireAssumption DEF CheckRead, Offsets, ReadLens, LinkOK
  <2> QED
    BY <1>4, <2>1 DEF CheckRead, FlagsOK, LoopOK
<1>5. CASE GateStep
  <2>1. LoopOK'
    BY <1>5, WireAssumption, LoaderAssumption
    DEF GateStep, EnterGate, Callbacks, Heads, Plan, Inspect, Erase,
        ProgramRead, Store, ProgramDone, Verify, Finalize, FinishRequest,
        FinishRetry, FinishGate, LoopOK, Stages, Checking, Safe, StageInv,
        StoreInv
  <2>2. FlagsOK'
    BY <1>5, Zenon
    DEF GateStep, EnterGate, Callbacks, Heads, Plan, Inspect, Erase,
        ProgramRead, Store, ProgramDone, Verify, Finalize, FinishRequest,
        FinishRetry, FinishGate, FlagsOK, StartRead
  <2>3. LinkOK'
    <3>1. CASE ProgramRead
      BY <3>1, RequestQueued DEF ProgramRead, LinkOK, LoopOK
    <3>2. CASE FinishRequest
      BY <3>2, RequestQueued, WireAssumption DEF FinishRequest, LinkOK
    <3>3. CASE Verify
      BY <3>3 DEF Verify, LinkOK
    <3> QED
      BY <1>5, <3>1, <3>2, <3>3
      DEF GateStep, EnterGate, Callbacks, Heads, Plan, Inspect, Erase, Store,
          ProgramDone, Finalize, FinishRetry, FinishGate, LinkOK
  <2>4. flash' \in [Offsets -> Contents]
    BY <1>5
    DEF GateStep, EnterGate, Callbacks, Heads, Plan, Inspect, Erase,
        ProgramRead, Store, ProgramDone, Verify, Finalize, FinishRequest,
        FinishRetry, FinishGate, Contents, LinkOK
  <2> QED
    BY <2>1, <2>2, <2>3, <2>4
<1>6. CASE GateError
  <2>1. LoopOK'
    <3>1. \A e : Fail(e) => LoopOK'
      BY DEF Fail, LoopOK, Stages
    <3> QED
      BY <1>6, <3>1
      DEF GateError, ProgramFails, CheckFails, VerifyFails, FinalizeFails
  <2>2. FlagsOK'
    <3>1. \A e : Fail(e) => record' \in BOOLEAN
      BY DEF Fail, FlagsOK
    <3> QED
      BY <1>6, <3>1, Zenon
      DEF GateError, ProgramFails, CheckFails, VerifyFails, FinalizeFails,
          Fail, FlagsOK
  <2>3. LinkOK'
    BY <1>6
    DEF GateError, ProgramFails, CheckFails, VerifyFails, FinalizeFails, LinkOK
  <2>4. flash' \in [Offsets -> Contents]
    BY <1>6
    DEF GateError, ProgramFails, CheckFails, VerifyFails, FinalizeFails,
        Contents
  <2> QED
    BY <2>1, <2>2, <2>3, <2>4
<1> QED
  BY <1>1, <1>2, <1>3, <1>4, <1>5, <1>6 DEF Next, Client, FromClient, AnyCheckRead

(***************************************************************************)
(* A step that leaves flash, the buffer and the metadata alone and does    *)
(* not go on to a stage with an invariant of its own keeps Safe.           *)
(***************************************************************************)
LEMMA QuietStep ==
  ASSUME Safe, UNCHANGED <<flash, final>>,
         lpc' \in {"poll", "inspect", "heads", "plan", "erase"}
  PROVE  Safe'
BY DEF Safe, StageInv, ProgramInv, StoreInv, VerifyInv, Written,
       FinishMeansWritten, HeadLast

\* A step that leaves the loop's stage and all it speaks of alone
LEMMA IdleStep ==
  ASSUME Safe, UNCHANGED <<lpc, cursor, full, buf, armed, flash, final>>
  PROVE  Safe'
BY DEF Safe, StageInv, ProgramInv, StoreInv, VerifyInv, Written,
       FinishMeansWritten, HeadLast

(***************************************************************************)
(* No frame of the client breaks the stage invariants: a response fills    *)
(* the buffer of the store stage only with the block that was asked for.   *)
(***************************************************************************)
LEMMA DispatchSafe ==
  ASSUME IInv, NEW m \in Replies \cup {Query, Upgrade, Malformed}, NEW id,
         Dispatch(m, id)
  PROVE  Safe'
<1>1. CASE HandleUpgrade(m) \/ HandleQuery(m, id) \/ HandleMalformed(m)
  BY <1>1, IdleStep
  DEF IInv, HandleUpgrade, HandleQuery, HandleMalformed, Dispatch
<1>2. CASE HandleData(m)
  <2>1. CASE ~Fits(m)
    BY <1>2, <2>1, IdleStep DEF IInv, HandleData, Dispatch
  <2>2. CASE Fits(m)
    <3>1. StoreInv'
      <4> SUFFICES ASSUME lpc = "store" PROVE StoreInv'
        BY DEF Dispatch, StoreInv
      <4>1. armed = [addr |-> cursor - 1, len |-> 1] /\ cursor > 0
        BY <2>2 DEF IInv, Safe, StageInv, StoreInv, Fits
      <4>2. cursor - 1 \in Offsets
        BY <4>1, WireAssumption
        DEF IInv, Safe, StageInv, ProgramInv, TypeOK, LoopOK, Offsets
      <4>3. m.payload = {cursor - 1}
        BY <1>2, <2>2, <4>1, <4>2, ReplyData DEF Fits, HandleData
      <4> QED
        BY <1>2, <2>2, <4>1, <4>3 DEF HandleData, Dispatch, StoreInv
    <3> QED
      BY <1>2, <3>1
      DEF IInv, HandleData, Dispatch, Safe, StageInv, ProgramInv, VerifyInv,
          Written, FinishMeansWritten, HeadLast
  <2> QED
    BY <2>1, <2>2
<1> QED
  BY <1>1, <1>2 DEF Dispatch

(***************************************************************************)
(* Nor does a step of the session loop.                                    *)
(***************************************************************************)
LEMMA GateStepSafe == IInv /\ GateStep => Safe'
<1> SUFFICES ASSUME IInv, GateStep PROVE Safe'
  OBVIOUS
<1> USE DEF IInv
<1>1. CASE EnterGate
  BY <1>1, QuietStep DEF EnterGate
<1>2. CASE Heads
  BY <1>2, QuietStep DEF Heads
<1>3. CASE Plan
  BY <1>3, QuietStep DEF Plan
<1>4. ASSUME NEW f \in BOOLEAN, Inspect(f) PROVE Safe'
  BY <1>4 DEF Inspect, Safe, StageInv, ProgramInv, StoreInv, VerifyInv,
              Written, FinishMeansWritten, HeadLast
<1>5. CASE Callbacks
  BY <1>5 DEF Callbacks, Safe, StageInv, ProgramInv, StoreInv, VerifyInv,
              Written, FinishMeansWritten, HeadLast
<1>6. CASE Erase
  <2>1. ProgramInv'
    BY <1>6, WireAssumption DEF Erase, ProgramInv, Offsets
  <2>2. HeadLast'
    BY <1>6, Markers, WireAssumption DEF Erase, HeadLast, Offsets
  <2> QED
    BY <1>6, <2>1, <2>2
    DEF Erase, Safe, StageInv, StoreInv, VerifyInv, FinishMeansWritten
<1>7. CASE ProgramRead
  <2>1. StoreInv'
    BY <1>7 DEF ProgramRead, StartRead, StoreInv, NoRead
  <2> QED
    BY <1>7, <2>1
    DEF ProgramRead, Safe, StageInv, ProgramInv, VerifyInv, Written,
        FinishMeansWritten, HeadLast
<1>8. CASE Store
  <2>1. cursor - 1 \in Offsets
    BY <1>8, WireAssumption
    DEF Store, Safe, StageInv, ProgramInv, StoreInv, TypeOK, LoopOK, Offsets
  <2>2. buf \notin {Old, Erased}
    BY Markers DEF TypeOK, LinkOK
  <2>3. \A b \in Offsets : flash'[b] = IF b = cursor - 1 THEN buf ELSE flash[b]
    BY <1>8 DEF Store, TypeOK
  <2>4. ProgramInv'
    <3>1. /\ cursor \in 1 .. ImageLen /\ cursor' = cursor - 1
          /\ \A b \in Offsets : IF b < cursor THEN flash[b] = Erased
                                ELSE flash[b] \notin {Old, Erased}
      BY <1>8 DEF Store, Safe, StageInv, ProgramInv, StoreInv
    <3>2. ASSUME NEW b \in Offsets
          PROVE  IF b < cursor' THEN flash'[b] = Erased
                                ELSE flash'[b] \notin {Old, Erased}
      BY <2>2, <2>3, <3>1, WireAssumption DEF Offsets
    <3>3. cursor' \in 0 .. ImageLen
      BY <3>1, WireAssumption
    <3> QED
      BY <3>2, <3>3, Zenon DEF ProgramInv
  <2>5. HeadLast'
    <3>1. 0 \in Offsets
      BY WireAssumption DEF Offsets
    <3>2. CASE cursor = 1
      BY <1>8, <2>4, <3>2 DEF Store, ProgramInv, HeadLast, Offsets
    <3>3. CASE cursor # 1
      <4>1. flash'[0] = Erased
        BY <2>1, <2>3, <3>1, <3>3, <1>8
        DEF Store, Safe, StageInv, ProgramInv, Offsets
      <4> QED
        BY <4>1, Markers DEF HeadLast
    <3> QED
      BY <3>2, <3>3
  <2> QED
    BY <1>8, <2>4, <2>5
    DEF Store, Safe, StageInv, StoreInv, VerifyInv, FinishMeansWritten
<1>9. CASE ProgramDone
  BY <1>9
  DEF ProgramDone, Safe, StageInv, ProgramInv, StoreInv, VerifyInv,
      FinishMeansWritten, HeadLast, Offsets
<1>10. CASE Verify
  <2>1. Written
    BY <1>10, WireAssumption
    DEF Verify, Consistent, Touched, Safe, StageInv, VerifyInv, Offsets
  <2> QED
    BY <1>10, <2>1
    DEF Verify, Safe, StageInv, ProgramInv, StoreInv, VerifyInv, Written,
        FinishMeansWritten, HeadLast
<1>11. CASE Finalize
  BY <1>11
  DEF Finalize, Safe, StageInv, ProgramInv, StoreInv, VerifyInv, Written,
      FinishMeansWritten, HeadLast
<1>12. CASE FinishRequest \/ FinishRetry \/ FinishGate
  BY <1>12
  DEF FinishRequest, FinishRetry, FinishGate, Safe, StageInv, ProgramInv,
      StoreInv, VerifyInv, Written, FinishMeansWritten, HeadLast
<1> QED
  BY <1>1, <1>2, <1>3, <1>4, <1>5, <1>6, <1>7, <1>8, <1>9, <1>10, <1>11, <1>12
  DEF GateStep

(***************************************************************************)
(* Nor does a stage that fails: a verification that fails takes the head.  *)
(***************************************************************************)
LEMMA GateErrorSafe == IInv /\ GateError => Safe'
<1> SUFFICES ASSUME IInv, GateError PROVE Safe'
  OBVIOUS
<1> USE DEF IInv, Fail
<1>1. CASE ProgramFails
  BY <1>1, QuietStep DEF ProgramFails
<1>2. ASSUME NEW e \in Statuses, CheckFails(e) \/ FinalizeFails(e) PROVE Safe'
  BY <1>2, QuietStep DEF CheckFails, FinalizeFails
<1>3. ASSUME NEW e \in Statuses, VerifyFails(e) PROVE Safe'
  <2>1. CASE flash' = flash
    BY <1>3, <2>1, QuietStep DEF VerifyFails
  <2>2. CASE flash' = [flash EXCEPT ![0] = Erased]
    <3>1. HeadLast'
      BY <2>2, Markers, WireAssumption DEF HeadLast, TypeOK, Offsets
    <3> QED
      BY <1>3, <3>1
      DEF VerifyFails, Safe, StageInv, ProgramInv, StoreInv, VerifyInv,
          FinishMeansWritten
  <2> QED
    BY <1>3, <2>1, <2>2 DEF VerifyFails
<1> QED
  BY <1>1, <1>2, <1>3 DEF GateError

\* Each action of the loader and of its client keeps the safety invariants.
LEMMA SafeStep == IInv /\ [Next]_vars => Safe'
<1> SUFFICES ASSUME IInv, [Next]_vars PROVE Safe'
  OBVIOUS
<1>1. CASE UNCHANGED vars
  BY <1>1, IdleStep DEF IInv, vars
<1>2. CASE AnyCheckRead
  <2>1. PICK a \in Offsets, n \in ReadLens : CheckRead(a, n)
    BY <1>2 DEF AnyCheckRead
  <2> QED
    BY <2>1
    DEF IInv, CheckRead, Reading, Checking, Safe, StageInv, ProgramInv,
        StoreInv, VerifyInv, Written, FinishMeansWritten, HeadLast
<1>3. CASE TakeRx
  BY <1>3, IdleStep DEF IInv, TakeRx
<1>4. CASE Client
  BY <1>4, DispatchSafe DEF Client, FromClient
<1> QED
  BY <1>1, <1>2, <1>3, <1>4, GateStepSafe, GateErrorSafe DEF Next

(***************************************************************************)
(* IInv is an invariant of the loader.                                     *)
(***************************************************************************)
LEMMA Invariance == Spec => []IInv
<1>1. IInv /\ [Next]_vars => IInv'
  BY TypeStep, SafeStep DEF IInv
<1> QED
  BY InitIInv, <1>1, PTL DEF Spec

\* The loader's variables stay in their domains.
THEOREM TypeCorrect == Spec => []TypeOK
BY Invariance, PTL DEF IInv

(***************************************************************************)
(* For every image and every client, a full update that reaches the finish *)
(* request or the restart has the whole package in flash (0x47C0 checked   *)
(* before 0x1398 asks).                                                    *)
(***************************************************************************)
THEOREM FinishCorrect == Spec => []FinishMeansWritten
BY Invariance, PTL DEF IInv, Safe

(***************************************************************************)
(* The head of the application is programmed last, so that a power cut in  *)
(* the programming pass (0x46C4) leaves no head in front of a hole.        *)
(***************************************************************************)
THEOREM HeadIsLast == Spec => []HeadLast
BY Invariance, PTL DEF IInv, Safe

(***************************************************************************)
(* A page that is programmed after its own response came is the right one, *)
(* whatever other replies came in between (0x1E26).                        *)
(***************************************************************************)
THEOREM ReplyIdentified == Spec => []AnsweredByItsReply
<1>1. IInv => AnsweredByItsReply
  BY DEF IInv, Safe, StageInv, StoreInv, AnsweredByItsReply
<1> QED
  BY <1>1, Invariance, PTL

(***************************************************************************)
(* What each stage of the gate may rely on, for every image: the callbacks *)
(* start on empty flash, the blocks behind the cursor are programmed and   *)
(* the ones before it are not, and verifying starts on a whole image.      *)
(***************************************************************************)
THEOREM StagesCorrect == Spec => []StageInv
<1>1. IInv => StageInv
  BY DEF IInv, Safe
<1> QED
  BY <1>1, Invariance, PTL

(***************************************************************************)
(* The session flag is set as long as the gate runs: only the gate's own   *)
(* success clears it (0x140C), and no frame does.                          *)
(***************************************************************************)
SessionInv == lpc \notin {"poll", "restart"} => active

\* No step clears the session flag while the gate runs, or when it fails.
LEMMA SessionStep ==
  ASSUME SessionInv, [Next]_vars
  PROVE  SessionInv' /\ (lpc # "poll" /\ lpc' = "poll" => active')
<1> USE DEF SessionInv
<1>1. CASE UNCHANGED vars
  BY <1>1 DEF vars
<1>2. CASE GateStep
  <2>1. CASE EnterGate
    BY <2>1 DEF EnterGate
  <2>2. CASE FinishGate
    BY <2>2 DEF FinishGate
  <2>3. CASE Callbacks \/ Heads \/ Plan \/ \E f \in BOOLEAN : Inspect(f)
    BY <2>3 DEF Callbacks, Heads, Plan, Inspect
  <2>4. CASE Erase \/ ProgramRead \/ Store \/ ProgramDone
    BY <2>4 DEF Erase, ProgramRead, Store, ProgramDone
  <2>5. CASE Verify \/ Finalize \/ FinishRequest \/ FinishRetry
    BY <2>5 DEF Verify, Finalize, FinishRequest, FinishRetry
  <2> QED
    BY <1>2, <2>1, <2>2, <2>3, <2>4, <2>5 DEF GateStep
<1>3. CASE GateError
  BY <1>3 DEF GateError, ProgramFails, CheckFails, VerifyFails,
              FinalizeFails, Fail, Checking
<1>4. CASE AnyCheckRead
  BY <1>4 DEF AnyCheckRead, CheckRead
<1>5. CASE TakeRx
  BY <1>5 DEF TakeRx
<1>6. CASE Client
  BY <1>6 DEF Client, FromClient, Dispatch, HandleUpgrade, HandleQuery,
              HandleData, HandleMalformed
<1> QED
  BY <1>1, <1>2, <1>3, <1>4, <1>5, <1>6 DEF Next

(***************************************************************************)
(* No status, fatal or not, gives the session up: after a gate that failed *)
(* the loop runs it again (0x1408).                                        *)
(***************************************************************************)
THEOREM SessionKept == Spec => FailedGateRetries
<1>1. Init => SessionInv
  BY DEF Init, Fresh, SessionInv
<1>2. SessionInv /\ [Next]_vars
        => SessionInv' /\ [lpc # "poll" /\ lpc' = "poll" => active']_vars
  BY SessionStep
<1> QED
  BY <1>1, <1>2, PTL DEF Spec, FailedGateRetries
=============================================================================
