------------------------- MODULE FlashClientProofs -------------------------
(***************************************************************************)
(* The safety of the update client, for every image, every time limit and  *)
(* every device.  The inductive invariant adds to the properties what each *)
(* stage has already established (Evidence).                               *)
(***************************************************************************)
EXTENDS FlashClientAlone, FiniteSetTheorems, TLAPS

Evidence ==
  /\ verb = "flash" /\ stage \in {2, 3} => fin[1] = "verify"
  /\ stage = 3 => fin[2] = "finish"
  /\ result # "none" => pc = "exit"

IInv == TypeOK /\ Evidence /\ RepliesExact /\ OkNeedsEvidence

(***************************************************************************)
(* A request within the image is answered with exactly its bytes: the      *)
(* bounds check of serve_requests implies the length check of              *)
(* build_response.                                                         *)
(***************************************************************************)
THEOREM BoundsSuffice ==
  ASSUME NEW a \in Nat, NEW n \in Nat, ~OutOfBounds(a, n)
  PROVE  Buildable(a, n)
<1>1. Slice(a, n) = a .. (a + n - 1)
  BY WireAssumption DEF OutOfBounds, Slice, Offsets
<1>2. Cardinality(a .. (a + n - 1)) = n
  <2>1. a \in Int /\ a + n - 1 \in Int
    OBVIOUS
  <2>2. Cardinality(a .. (a + n - 1)) =
          IF a > a + n - 1 THEN 0 ELSE (a + n - 1) - a + 1
    BY <2>1, FS_Interval
  <2> QED
    BY <2>2
<1> QED
  BY <1>1, <1>2, WireAssumption DEF OutOfBounds, Buildable

\* What the device may send as a request
LEMMA RequestFrame ==
  ASSUME NEW f \in Frames, f.kind = "request"
  PROVE  f.addr \in Nat /\ f.len \in Nat
BY DeviceAssumption DEF Frames, AnyRequest, Request, Identity, Noise, Event

\* What the device may call itself
LEMMA IdentityFrame ==
  ASSUME NEW f \in Frames, f.kind = "identity"
  PROVE  f.id \in Reported
BY DEF Frames, AnyRequest, Request, Identity, Noise, Event

\* A frame that is received is of the kinds the queue was filled with.
LEMMA Received ==
  ASSUME DataOK, Receive
  PROVE  Head(rx) \in Frames /\ rx' \in Seq(Frames) /\ held' \in Nat
<1>1. rx \in Seq(Frames) /\ held \in Nat /\ held < Len(rx)
  BY DEF DataOK, Receive, Readable
<1>2. Len(rx) \in Nat \ {0} /\ rx # <<>>
  BY <1>1
<1> QED
  BY <1>1, <1>2 DEF Receive

\* read_sysex with or without a frame
LEMMA ReceivedAny ==
  ASSUME DataOK, ReceiveNothing \/ ReceiveOther \/ ReceiveSysEx
  PROVE  rx' \in Seq(Frames) /\ held' \in Nat
BY Received DEF DataOK, ReceiveNothing, ReceiveOther, ReceiveSysEx

\* What the client writes is of the kinds the device takes.
LEMMA Outgoing ==
  /\ Query \in FramesOut /\ Upgrade \in FramesOut
  /\ \A a \in Terminal : SuccessReply(a) \in FramesOut
  /\ \A a, n \in Nat : Reply(a, n) \in FramesOut
<1>1. \A a \in Terminal : SuccessReply(a) \in FramesOut
  BY WireAssumption DEF FramesOut, SuccessReply, Data, Terminal, Payloads
<1>2. \A a, n \in Nat : Slice(a, n) \in Payloads
  BY DEF Slice, Payloads
<1>3. \A a, n \in Nat : Reply(a, n) \in FramesOut
  BY <1>2 DEF FramesOut, Reply, Data
<1> QED
  BY <1>1, <1>3 DEF FramesOut

(***************************************************************************)
(* Writing a frame: the log grows by it or stays, and the client goes on   *)
(* or ends.                                                                *)
(***************************************************************************)
LEMMA Writing ==
  ASSUME DataOK, RunOK, NEW m \in FramesOut, NEW next, WriteThen(m, next)
  PROVE  /\ tx' \in Seq(FramesOut)
         /\ \/ pc' = next /\ result' = result /\ conn' = conn
            \/ pc' = "exit" /\ result' = "raised" /\ conn' = "closed"
         /\ tx' = tx \/ tx' = Append(tx, m)
<1>1. CASE conn = "live"
  <2>1. tx' = Append(tx, m) /\ pc' = next /\ result' = result /\ conn' = conn
    BY <1>1 DEF WriteThen
  <2> QED
    BY <2>1 DEF DataOK
<1>2. CASE conn = "dead"
  <2>1. tx' = tx
    BY <1>2 DEF WriteThen
  <2> QED
    BY <1>2, <2>1 DEF DataOK, WriteThen, Exit
<1> QED
  BY <1>1, <1>2 DEF WriteThen

\* A frame that is exact keeps the log exact.
LEMMA WritingExact ==
  ASSUME DataOK, RepliesExact, NEW m \in FramesOut, m # Malformed,
         m.kind = "data" /\ m.addr \notin Terminal =>
           m.payload = Slice(m.addr, m.len) /\ Cardinality(m.payload) = m.len,
         tx' = tx \/ tx' = Append(tx, m)
  PROVE  RepliesExact'
<1>1. CASE tx' = tx
  BY <1>1 DEF RepliesExact
<1>2. CASE tx' = Append(tx, m)
  <2>1. DOMAIN tx' = 1 .. (Len(tx) + 1) /\ DOMAIN tx = 1 .. Len(tx)
    BY <1>2 DEF DataOK
  <2>2. \A i \in DOMAIN tx' : tx'[i] = IF i \in DOMAIN tx THEN tx[i] ELSE m
    BY <1>2, <2>1 DEF DataOK
  <2> QED
    BY <2>2 DEF RepliesExact
<1> QED
  BY <1>1, <1>2

\* Nothing was sent or recorded at first.
LEMMA InitIInv == AloneInit => IInv
<1> SUFFICES ASSUME AloneInit PROVE IInv
  OBVIOUS
<1>1. RunOK
  BY DEF AloneInit, Init, RunOK, Results
<1>2. DataOK
  <2>1. got \in Reported
    BY DEF AloneInit, Init, Reported
  <2>2. rx \in Seq(Frames) /\ tx \in Seq(FramesOut)
    BY DEF AloneInit, Init
  <2> QED
    BY <2>1, <2>2 DEF AloneInit, Init, DataOK
<1>3. Evidence /\ RepliesExact /\ OkNeedsEvidence
  BY DEF AloneInit, Init, Evidence, RepliesExact, OkNeedsEvidence
<1> QED
  BY <1>1, <1>2, <1>3 DEF IInv, TypeOK

(***************************************************************************)
(* Every action of the client, one step each: domains, evidence and the    *)
(* log.  Accepts is what links the exit code to the last identity.         *)
(***************************************************************************)
LEMMA ClientStepInv == IInv /\ ClientStep /\ UNCHANGED sent => IInv'
<1> SUFFICES ASSUME IInv, ClientStep, UNCHANGED sent PROVE IInv'
  OBVIOUS
<1> USE DEF IInv, TypeOK
<1>1. CASE Drain
  <2>1. rx' \in Seq(Frames) /\ held' \in Nat
    BY <1>1, ReceivedAny DEF Drain
  <2>2. DataOK'
    BY <1>1, <2>1, ClientAssumption DEF Drain, DataOK
  <2> QED
    BY <1>1, <2>2 DEF Drain, RunOK, Evidence, RepliesExact, OkNeedsEvidence
<1>2. CASE SendQuery
  <2>1. CASE tries = 0
    BY <1>2, <2>1 DEF SendQuery, Exit, RunOK, DataOK, Results, Evidence,
                      RepliesExact, OkNeedsEvidence
  <2>2. CASE tries # 0
    <3>1. WriteThen(Query, "await") /\ tries' = tries - 1
      BY <1>2, <2>2 DEF SendQuery
    <3>2. RepliesExact'
      BY <3>1, Outgoing, Writing, WritingExact DEF Query, Malformed
    <3>3. DataOK'
      BY <1>2, <2>2, <3>1, Outgoing, Writing DEF SendQuery, DataOK
    <3> QED
      BY <1>2, <3>1, <3>2, <3>3, Outgoing, Writing
      DEF SendQuery, RunOK, Results, Evidence, OkNeedsEvidence
  <2> QED
    BY <2>1, <2>2
<1>3. CASE AwaitFrame
  <2>1. rx' \in Seq(Frames) /\ held' \in Nat /\ got' \in Reported
    BY <1>3, Received, IdentityFrame DEF AwaitFrame, ReceiveSysEx, DataOK
  <2>2. DataOK'
    BY <1>3, <2>1 DEF AwaitFrame, DataOK
  <2> QED
    BY <1>3, <2>2 DEF AwaitFrame, RunOK, Evidence, RepliesExact, OkNeedsEvidence
<1>4. CASE AwaitNothing
  <2>1. rx' \in Seq(Frames) /\ held' \in Nat
    BY <1>4, ReceivedAny DEF AwaitNothing
  <2>2. DataOK'
    BY <1>4, <2>1 DEF AwaitNothing, DataOK
  <2> QED
    BY <1>4, <2>2 DEF AwaitNothing, RunOK, Evidence, RepliesExact, OkNeedsEvidence
<1>5. CASE Check
  <2>1. DataOK'
    BY <1>5 DEF Check, DataOK
  <2>2. RunOK'
    BY <1>5 DEF Check, Exit, RunOK, Results
  <2>3. OkNeedsEvidence'
    BY <1>5 DEF Check, Exit, Accepts, RunOK, Evidence, OkNeedsEvidence
  <2> QED
    BY <1>5, <2>1, <2>2, <2>3 DEF Check, Exit, Evidence, RepliesExact
<1>6. CASE SendUpgrade
  <2>1. WriteThen(Upgrade, "serve")
    BY <1>6 DEF SendUpgrade
  <2>2. RepliesExact'
    BY <2>1, Outgoing, Writing, WritingExact DEF Upgrade, Malformed
  <2>3. DataOK'
    BY <1>6, <2>1, Outgoing, Writing DEF SendUpgrade, DataOK
  <2> QED
    BY <1>6, <2>1, <2>2, <2>3, Outgoing, Writing
    DEF SendUpgrade, RunOK, Results, Evidence, OkNeedsEvidence
<1>7. CASE ServeTerminal
  <2> DEFINE a == Head(rx).addr
             next == IF Stops(a) THEN "served" ELSE "serve"
  <2>1. /\ a \in Terminal /\ pc = "serve" /\ Receive
        /\ WriteThen(SuccessReply(a), next)
    BY <1>7 DEF ServeTerminal, Serving
  <2>2. SuccessReply(a) \in FramesOut
    BY <2>1, Outgoing
  <2>3. RepliesExact'
    BY <2>1, <2>2, Writing, WritingExact DEF SuccessReply, Data, Malformed
  <2>4. rx' \in Seq(Frames) /\ held' \in Nat
    BY <2>1, Received
  <2>5. fin' \in [1 .. 2 -> {"none", "verify", "finish"}]
    BY <1>7, <2>1 DEF ServeTerminal, DataOK
  <2>6. DataOK'
    BY <1>7, <2>1, <2>2, <2>4, <2>5, Writing DEF ServeTerminal, DataOK
  <2>7. RunOK' /\ result' # "ok" /\ (result' # "none" => pc' = "exit")
    BY <1>7, <2>1, <2>2, Writing
    DEF ServeTerminal, RunOK, Results, Evidence
  <2>8. \A s \in 1 .. 2 : s # stage => fin'[s] = fin[s]
    BY <1>7 DEF ServeTerminal, DataOK
  <2>9. Evidence'
    BY <1>7, <2>1, <2>7, <2>8 DEF ServeTerminal, RunOK, Evidence
  <2> QED
    BY <2>3, <2>6, <2>7, <2>9 DEF OkNeedsEvidence
<1>8. CASE ServeData
  <2> DEFINE a == Head(rx).addr
             n == Head(rx).len
  <2>1. Receive /\ pc = "serve" /\ Head(rx).kind = "request"
    BY <1>8 DEF ServeData, Serving
  <2>2. a \in Nat /\ n \in Nat /\ rx' \in Seq(Frames) /\ held' \in Nat
    BY <2>1, Received, RequestFrame
  <2>3. CASE OutOfBounds(a, n)
    BY <1>8, <2>2, <2>3
    DEF ServeData, Exit, RunOK, DataOK, Results, Evidence, RepliesExact,
        OkNeedsEvidence
  <2>4. CASE ~OutOfBounds(a, n)
    <3>1. WriteThen(Reply(a, n), "serve")
      BY <1>8, <2>4 DEF ServeData
    <3>2. Buildable(a, n) /\ Reply(a, n) \in FramesOut
      BY <2>2, <2>4, BoundsSuffice, Outgoing
    <3>3. Reply(a, n) = Data(a, n, Slice(a, n))
      BY <3>2 DEF Reply
    <3>4. RepliesExact'
      BY <3>1, <3>2, <3>3, Writing, WritingExact DEF Data, Malformed, Buildable
    <3>5. DataOK'
      BY <1>8, <2>2, <3>1, <3>2, Writing DEF ServeData, DataOK
    <3> QED
      BY <1>8, <2>1, <3>1, <3>2, <3>4, <3>5, Writing
      DEF ServeData, RunOK, Results, Evidence, OkNeedsEvidence
  <2> QED
    BY <2>3, <2>4
<1>9. CASE ServeOther
  <2>1. rx' \in Seq(Frames) /\ held' \in Nat
    BY <1>9, Received DEF ServeOther, Serving
  <2>2. DataOK'
    BY <1>9, <2>1 DEF ServeOther, DataOK
  <2> QED
    BY <1>9, <2>2 DEF ServeOther, RunOK, Evidence, RepliesExact, OkNeedsEvidence
<1>10. CASE ServeNothing
  <2>1. rx' \in Seq(Frames) /\ held' \in Nat
    BY <1>10, ReceivedAny DEF ServeNothing
  <2>2. DataOK'
    BY <1>10, <2>1 DEF ServeNothing, DataOK
  <2> QED
    BY <1>10, <2>2
    DEF ServeNothing, RunOK, Evidence, RepliesExact, OkNeedsEvidence
<1>11. CASE Served
  <2>1. DataOK'
    BY <1>11 DEF Served, DataOK
  <2>2. RunOK'
    BY <1>11 DEF Served, Done, Exit, RunOK, Results
  <2>3. Evidence'
    BY <1>11 DEF Served, Done, Exit, RunOK, Evidence
  <2>4. OkNeedsEvidence'
    BY <1>11 DEF Served, Done, Exit, RunOK, Evidence, OkNeedsEvidence
  <2> QED
    BY <1>11, <2>1, <2>2, <2>3, <2>4 DEF Served, RepliesExact
<1> QED
  BY <1>1, <1>2, <1>3, <1>4, <1>5, <1>6, <1>7, <1>8, <1>9, <1>10, <1>11
  DEF ClientStep

\* Each step of the client or of the device keeps the invariant.
LEMMA StepInv == IInv /\ [Next]_vars => IInv'
<1> SUFFICES ASSUME IInv, [Next]_vars PROVE IInv'
  OBVIOUS
<1> USE DEF IInv, TypeOK
<1>1. CASE ClientStep /\ UNCHANGED sent
  BY <1>1, ClientStepInv
<1>2. ASSUME NEW port \in BOOLEAN, Open(port), UNCHANGED sent PROVE IInv'
  <2>1. <<>> \in Seq(Frames)
    OBVIOUS
  <2>2. DataOK'
    <3>1. \/ rx' = <<>> /\ held' = 0
          \/ rx' = rx /\ held' = held
      BY <1>2 DEF Open
    <3>2. rx' \in Seq(Frames)
      BY <2>1, <3>1 DEF DataOK
    <3>3. held' \in Nat
      BY <3>1 DEF DataOK
    <3> QED
      BY <1>2, <3>2, <3>3 DEF Open, DataOK
  <2>3. RunOK'
    BY <1>2 DEF Open, Exit, RunOK, Results
  <2>4. Evidence' /\ OkNeedsEvidence' /\ RepliesExact'
    BY <1>2 DEF Open, Exit, RunOK, Evidence, RepliesExact, OkNeedsEvidence
  <2> QED
    BY <2>2, <2>3, <2>4
<1>3. ASSUME NEW port \in BOOLEAN, NEW mode \in Modes, Find(mode, port),
             UNCHANGED sent
      PROVE  IInv'
  <2>1. DataOK'
    BY <1>3 DEF Find, DataOK
  <2> QED
    BY <1>3, <2>1 DEF Find, Exit, RunOK, Results, Evidence, RepliesExact,
                      OkNeedsEvidence
<1>4. CASE Vanish
  BY <1>4 DEF Vanish, RunOK, DataOK, Evidence, RepliesExact, OkNeedsEvidence
<1>5. ASSUME NEW f \in Frames, Arrive(f) PROVE IInv'
  <2>1. DataOK'
    BY <1>5 DEF Arrive, DataOK
  <2> QED
    BY <1>5, <2>1 DEF Arrive, RunOK, Evidence, RepliesExact, OkNeedsEvidence
<1>6. CASE UNCHANGED vars
  BY <1>6 DEF vars, cvars, RunOK, DataOK, Evidence, RepliesExact,
              OkNeedsEvidence
<1> QED
  BY <1>1, <1>2, <1>3, <1>4, <1>5, <1>6 DEF Next, Step, Device, Over

\* The invariant holds in every state.
LEMMA Invariance == Spec => []IInv
BY InitIInv, StepInv, PTL DEF Spec

\* The client's variables stay in their domains.
THEOREM TypeCorrect == Spec => []TypeOK
BY Invariance, PTL DEF IInv

(***************************************************************************)
(* Every data frame the client ever writes carries exactly the bytes that  *)
(* were asked for, whatever the device asks (fm1_ota.py:315).              *)
(***************************************************************************)
THEOREM ExactReplies == Spec => []RepliesExact
BY Invariance, PTL DEF IInv

(***************************************************************************)
(* cmd_flash never exits with 0 unless both exchanges were answered on     *)
(* their own connections and the device came back with the identity of the *)
(* package.                                                                *)
(***************************************************************************)
THEOREM OkIsEarned == Spec => []OkNeedsEvidence
BY Invariance, PTL DEF IInv
=============================================================================
