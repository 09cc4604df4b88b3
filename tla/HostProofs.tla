----------------------------- MODULE HostProofs -----------------------------
(***************************************************************************)
(* The safety of M-UPGRADE, for every number of ports, probes and devices, *)
(* every sector size and every set of preset files.                        *)
(*                                                                         *)
(* Two inductive invariants.  HInv is about the window, its probes and the *)
(* upgrade worker: a thread has a connection older than itself, so that    *)
(* the one a probe is replaced with is nobody's, and while nobody probes   *)
(* an upgrade the window rests on the worker's connection.  PInv says how  *)
(* far a preset update has come.                                           *)
(***************************************************************************)
EXTENDS HostSystem, TLAPS

----------------------------------------------------------------------------
(* The window, the probes and the upgrade worker *)

ThreadInv ==
  /\ current <= probes
  /\ window = "polling" \/ window = "recheck" => probes > 0
  /\ \A t \in Threads : Active(t) =>
       t <= probes /\ thread[t].conn < t /\ thread[t].result = "none"
                   /\ thread[t].port \in Ports

QuietInv ==
  quiet /\ worker.pc # "idle" =>
    /\ window = "idle" /\ worker.conn = current
    /\ link[current] \in {worker.port, NoPort}

HInv == HostTypeOK /\ OneUpgrade /\ ThreadInv /\ LateProbeHarmless /\ QuietInv

(***************************************************************************)
(* Nothing is open, nothing runs, and nobody waits.                        *)
(***************************************************************************)
LEMMA HostInit == Init => HInv
<1> SUFFICES ASSUME Init PROVE HInv
  OBVIOUS
<1>1. HostTypeOK
  <2>1. DevicesOK /\ LinksOK
    <3>1. DevicesOK
      BY HostAssumption DEF Init, DevicesOK, Kinds
    <3>2. LinksOK
      BY DEF Init, LinksOK
    <3> QED
      BY <3>1, <3>2
  <2>2. WindowOK
    <3>1. 0 \in Conns /\ 0 \in 0 .. MaxProbes
      BY HostAssumption DEF Conns
    <3>2. current = 0 /\ probes = 0 /\ mode = 1 /\ signals = <<>> /\ window = "idle"
           /\ inProgress = FALSE
      BY Zenon DEF Init
    <3> QED
      BY <3>1, <3>2 DEF WindowOK
  <2>3. ThreadsOK /\ WorkerOK
    BY HostAssumption DEF Init, ThreadsOK, WorkerOK, Conns, Threads, Unborn, Resting
  <2> QED
    BY <2>1, <2>2, <2>3 DEF HostTypeOK
<1>2. OneUpgrade
  BY DEF Init, OneUpgrade, Resting
<1>3. \A t \in Threads : ~Active(t)
  BY DEF Init, Active, Unborn
<1>4. ThreadInv /\ LateProbeHarmless /\ QuietInv
  BY <1>3 DEF Init, ThreadInv, LateProbeHarmless, QuietInv, Resting
<1> QED
  BY <1>1, <1>2, <1>4 DEF HInv

(***************************************************************************)
(* What PresetStart does to the host's state: it opens a port.             *)
(***************************************************************************)
OpensPort ==
  /\ window = "idle" /\ ~inProgress
  /\ \E p \in Ports : link' = [link EXCEPT ![current] = p]
  /\ UNCHANGED <<quiet, device, model, windowVars, thread, worker, signals, boundVars>>

(***************************************************************************)
(* The parts of the type invariant that a step leaves alone stay true.     *)
(***************************************************************************)
LEMMA PartsKept ==
  /\ DevicesOK /\ UNCHANGED <<quiet, device, boundVars>> => DevicesOK'
  /\ LinksOK /\ UNCHANGED linkVars => LinksOK'
  /\ WindowOK /\ UNCHANGED <<windowVars, signals>> => WindowOK'
  /\ ThreadsOK /\ UNCHANGED thread => ThreadsOK'
  /\ WorkerOK /\ UNCHANGED worker => WorkerOK'
BY Zenon DEF DevicesOK, LinksOK, WindowOK, ThreadsOK, WorkerOK, linkVars, windowVars, boundVars,
       Conns, Threads

(***************************************************************************)
(* Connections: a port is opened, or closed, or a model is stored.         *)
(***************************************************************************)
LEMMA LinksStep ==
  ASSUME LinksOK, NEW c \in Conns
  PROVE  /\ Close(c) /\ UNCHANGED model => LinksOK'
         /\ \A p \in Ports : link' = [link EXCEPT ![c] = p] /\ UNCHANGED model => LinksOK'
BY DEF LinksOK, Close

(***************************************************************************)
(* A thread that ends leaves a record of its type.                         *)
(***************************************************************************)
LEMMA EndsOK ==
  ASSUME ThreadsOK, NEW t \in Threads, NEW r \in {"ok", "failed"}, Ends(t, r)
  PROVE  ThreadsOK'
<1>1. 0 \in Conns
  BY HostAssumption DEF Conns
<1> QED
  BY <1>1 DEF ThreadsOK, Ends

(***************************************************************************)
(* Threads keep the types.                                                 *)
(***************************************************************************)
LEMMA ThreadTypeStep ==
  ASSUME HostTypeOK, ThreadInv, NEW t \in Threads, ThreadStep(t)
  PROVE  HostTypeOK'
<1>1. thread[t].conn \in Conns
  BY DEF HostTypeOK, ThreadsOK
<1>2. CASE OpenPort(t)
  <2>1. DevicesOK' /\ WindowOK' /\ WorkerOK'
    BY <1>2, PartsKept DEF OpenPort, HostTypeOK
  <2>2. LinksOK'
    BY <1>1, <1>2, LinksStep DEF OpenPort, HostTypeOK, ThreadInv, Active
  <2>3. ThreadsOK'
    <3>1. CASE thread' = [thread EXCEPT ![t].pc = "asking"]
      BY <3>1 DEF HostTypeOK, ThreadsOK
    <3> QED
      BY <1>2, <3>1, EndsOK DEF OpenPort, HostTypeOK
  <2> QED
    BY <2>1, <2>2, <2>3 DEF HostTypeOK
<1>3. CASE AskIdentity(t)
  <2>1. DevicesOK' /\ WindowOK' /\ WorkerOK'
    BY <1>3, PartsKept DEF AskIdentity, HostTypeOK
  <2>2. ThreadsOK'
    BY <1>3, EndsOK DEF AskIdentity, HostTypeOK
  <2>3. LinksOK'
    <3> DEFINE c == thread[t].conn
    <3>1. CASE Close(c) /\ UNCHANGED model
      BY <1>1, <3>1, LinksStep DEF HostTypeOK
    <3>2. CASE Linked(c) /\ UNCHANGED link
                /\ model' = IF device[link[c]] = "nameless" THEN model
                            ELSE [model EXCEPT ![c] = device[link[c]]]
      <4>1. link[c] \in Ports
        BY <1>1, <3>2 DEF Linked, HostTypeOK, LinksOK
      <4>2. device[link[c]] \in {"none", "app", "ota", "nameless"}
        BY <4>1 DEF HostTypeOK, DevicesOK, Kinds
      <4>3. model' \in [Conns -> {"none", "app", "ota"}]
        BY <1>1, <3>2, <4>2 DEF HostTypeOK, LinksOK
      <4> QED
        BY <3>2, <4>3 DEF HostTypeOK, LinksOK
    <3> QED
      BY <1>3, <3>1, <3>2 DEF AskIdentity
  <2> QED
    BY <2>1, <2>2, <2>3 DEF HostTypeOK
<1> QED
  BY <1>2, <1>3 DEF ThreadStep

(***************************************************************************)
(* The window keeps them, and so does whatever opens a port for it.        *)
(***************************************************************************)
LEMMA WindowTypeStep ==
  ASSUME HostTypeOK, ThreadInv,
         WindowStep \/ OpensPort \/ \E p \in Ports : StartProbe(p) \/ UserStart(p)
  PROVE  HostTypeOK'
<1> USE DEF HostTypeOK
<1>1. current \in Conns
  BY DEF WindowOK
<1>2. CASE \E p \in Ports : StartProbe(p)
  <2>1. PICK p \in Ports : StartProbe(p)
    BY <1>2
  <2>2. probes + 1 \in Threads
    BY <2>1, HostAssumption DEF StartProbe, WindowOK, Threads
  <2>3. ThreadsOK'
    BY <1>1, <2>1, <2>2 DEF StartProbe, ThreadsOK
  <2>4. WindowOK'
    BY <2>1, <2>2 DEF StartProbe, WindowOK, Threads
  <2> QED
    BY <1>1, <2>1, <2>3, <2>4, PartsKept, LinksStep DEF StartProbe
<1>3. CASE ProbeAnswered \/ ProbeTimesOut \/ Recreate
  <2>1. WindowOK'
    BY <1>3 DEF ProbeAnswered, ProbeTimesOut, Recreate, WindowOK, Conns
  <2> QED
    BY <1>3, <2>1, PartsKept DEF ProbeAnswered, ProbeTimesOut, Recreate
<1>4. ASSUME mode' \in {1, 2}, StartUpgrade, LinksOK', UNCHANGED current
      PROVE  WorkerOK'
  BY <1>1, <1>4 DEF StartUpgrade, LinksOK, WorkerOK
<1>5. CASE FoundOta
  <2>1. WindowOK'
    BY <1>5 DEF FoundOta, StartUpgrade, WindowOK
  <2>2. LinksOK'
    BY <1>1, <1>5, LinksStep, PartsKept DEF FoundOta, linkVars
  <2>3. WorkerOK'
    BY <1>4, <1>5, <2>2, PartsKept DEF FoundOta
  <2> QED
    BY <1>5, <2>1, <2>2, <2>3, PartsKept DEF FoundOta
<1>6. CASE FoundOther
  <2>1. WindowOK'
    BY <1>6 DEF FoundOther, WindowOK
  <2> QED
    BY <1>1, <1>6, <2>1, LinksStep, PartsKept DEF FoundOther
<1>7. CASE Completed
  <2>1. PICK s \in {"error", "first", "complete"} : signals = <<s>>
    BY <1>7 DEF Completed, WindowOK
  <2>2. signals' = <<>>
    BY <1>7, <2>1 DEF Completed
  <2>3. inProgress' \in BOOLEAN
    BY <1>7 DEF Completed, WindowOK
  <2>4. WindowOK'
    BY <1>7, <2>2, <2>3 DEF Completed, WindowOK
  <2> QED
    BY <1>7, <2>4, PartsKept DEF Completed
<1>8. CASE \E p \in Ports : UserStart(p)
  <2>1. PICK p \in Ports : UserStart(p)
    BY <1>8
  <2>2. LinksOK'
    BY <1>1, <2>1, LinksStep DEF UserStart
  <2>3. WindowOK'
    BY <2>1 DEF UserStart, StartUpgrade, WindowOK
  <2>4. mode' \in {1, 2}
    BY <2>3 DEF WindowOK
  <2>5. WorkerOK'
    BY <1>4, <2>1, <2>2, <2>4 DEF UserStart
  <2> QED
    BY <2>1, <2>2, <2>3, <2>5, PartsKept DEF UserStart
<1>9. CASE OpensPort
  <2>1. LinksOK'
    BY <1>1, <1>9, LinksStep DEF OpensPort
  <2>2. WindowOK'
    BY <1>9, PartsKept DEF OpensPort, windowVars
  <2> QED
    BY <1>9, <2>1, <2>2, PartsKept DEF OpensPort
<1> QED
  BY <1>2, <1>3, <1>5, <1>6, <1>7, <1>8, <1>9 DEF WindowStep

(***************************************************************************)
(* The worker and the devices keep them.                                   *)
(***************************************************************************)
LEMMA WorkerTypeStep ==
  ASSUME HostTypeOK, OneUpgrade, WorkerStep \/ \E p \in Ports, k \in Kinds : Replug(p, k)
  PROVE  HostTypeOK'
<1> USE DEF HostTypeOK
<1>1. ASSUME NEW s \in {<<>>, <<"error">>, <<"first">>, <<"complete">>}, Leaves(s),
             worker.pc # "idle", UNCHANGED windowVars
      PROVE  WorkerOK' /\ WindowOK'
  <2>1. WorkerOK'
    BY <1>1, HostAssumption DEF Leaves, Resting, WorkerOK, Conns
  <2>2. signals = <<>>
    BY <1>1 DEF OneUpgrade
  <2>3. signals' = s
    BY <1>1, <2>2 DEF Leaves
  <2> QED
    BY <1>1, <2>1, <2>3 DEF WindowOK, windowVars
<1>2. CASE SendUpgrade
  <2>1. CASE worker' = [worker EXCEPT !.pc = "read"] /\ UNCHANGED signals
    BY <1>2, <2>1, PartsKept DEF SendUpgrade, WorkerOK
  <2> QED
    BY <1>1, <1>2, <2>1, PartsKept DEF SendUpgrade
<1>3. CASE ReadRequest
  <2>1. worker'.asked \in {"data", "verify", "finish"} /\ WorkerOK'
    BY <1>3 DEF ReadRequest, Asks, WorkerOK
  <2>2. DevicesOK'
    BY <1>3, HostAssumption DEF ReadRequest, DevicesOK
  <2> QED
    BY <1>3, <2>1, <2>2, PartsKept DEF ReadRequest
<1>4. CASE ReadFails
  BY <1>1, <1>4, PartsKept DEF ReadFails
<1>5. CASE SendReply
  <2>1. CASE worker' = [worker EXCEPT !.pc = "read"] /\ UNCHANGED signals
    BY <1>5, <2>1, PartsKept DEF SendReply, WorkerOK
  <2> QED
    BY <1>1, <1>5, <2>1, PartsKept DEF SendReply
<1>6. CASE \E p \in Ports, k \in Kinds : Replug(p, k)
  <2>1. DevicesOK'
    BY <1>6, HostAssumption DEF Replug, DevicesOK
  <2>2. LinksOK'
    BY <1>6 DEF Replug, LinksOK
  <2> QED
    BY <1>6, <2>1, <2>2, PartsKept DEF Replug
<1> QED
  BY <1>2, <1>3, <1>4, <1>5, <1>6 DEF WorkerStep

(***************************************************************************)
(* A second upgrade never starts: each action that starts one, or that     *)
(* clears the flag, and each way out of the worker.                        *)
(***************************************************************************)
LEMMA OneUpgradeStep ==
  ASSUME HostTypeOK, OneUpgrade, Next \/ OpensPort
  PROVE  OneUpgrade'
<1> USE DEF OneUpgrade
<1>1. CASE \E t \in Threads : ThreadStep(t)
  BY <1>1 DEF ThreadStep, OpenPort, AskIdentity, windowVars
<1>2. CASE ProbeAnswered \/ ProbeTimesOut \/ Recreate \/ FoundOther
  BY <1>2 DEF ProbeAnswered, ProbeTimesOut, Recreate, FoundOther
<1>3. CASE FoundOta
  BY <1>3 DEF FoundOta, StartUpgrade
<1>4. CASE Completed
  <2>1. PICK s \in {"error", "first", "complete"} : signals = <<s>>
    BY <1>4 DEF Completed, HostTypeOK, WindowOK
  <2>2. signals' = <<>>
    BY <1>4, <2>1 DEF Completed
  <2>3. worker'.pc = "idle"
    BY <1>4 DEF Completed
  <2> QED
    BY <2>2, <2>3
<1>5. CASE \E p \in Ports : StartProbe(p)
  BY <1>5 DEF StartProbe
<1>6. CASE \E p \in Ports : UserStart(p)
  BY <1>6 DEF UserStart, StartUpgrade
<1>7. CASE WorkerStep
  <2>1. worker.pc # "idle" /\ signals = <<>> /\ inProgress /\ inProgress' = inProgress
    BY <1>7 DEF WorkerStep, SendUpgrade, ReadRequest, ReadFails, SendReply, windowVars
  <2>2. CASE \E s : Leaves(s)
    BY <2>1, <2>2 DEF Leaves, Resting
  <2>3. CASE UNCHANGED signals
    BY <2>1, <2>3
  <2> QED
    BY <1>7, <2>2, <2>3 DEF WorkerStep, SendUpgrade, ReadRequest, ReadFails, SendReply
<1>8. CASE OpensPort \/ \E p \in Ports, k \in Kinds : Replug(p, k)
  BY <1>8 DEF OpensPort, Replug, windowVars
<1> QED
  BY <1>1, <1>2, <1>3, <1>4, <1>5, <1>6, <1>7, <1>8 DEF Next, WindowStep

Probing == ThreadInv /\ LateProbeHarmless

(***************************************************************************)
(* Steps that leave the threads, the window's connection and its waiting   *)
(* alone say nothing new about probes.                                     *)
(***************************************************************************)
LEMMA ProbingKept ==
  Probing /\ UNCHANGED <<thread, current, probes, window>> => Probing'
BY DEF Probing, ThreadInv, LateProbeHarmless, Active

(***************************************************************************)
(* The window's connection is no other thread's.  A new probe lends it to  *)
(* a thread that is waited for; when the wait is over it is taken back, or *)
(* replaced by one that is younger than every thread's.                    *)
(***************************************************************************)
LEMMA ProbingStep ==
  ASSUME HostTypeOK, Probing, Next \/ OpensPort
  PROVE  Probing'
<1> USE DEF Probing
<1>0. probes \in Nat /\ current \in Nat /\ \A t \in Threads : t \in Nat /\ thread[t].conn \in Nat
  BY HostAssumption DEF HostTypeOK, WindowOK, ThreadsOK, Conns, Threads
<1>1. CASE \E t \in Threads : ThreadStep(t)
  <2>1. PICK t \in Threads : ThreadStep(t)
    BY <1>1
  <2>2. UNCHANGED <<current, probes, window>>
    BY <2>1 DEF ThreadStep, OpenPort, AskIdentity, windowVars
  <2>3. Active(t)
    BY <2>1 DEF ThreadStep, OpenPort, AskIdentity, Active
  <2>4. \A u \in Threads : Active(u)' =>
           /\ Active(u) /\ thread'[u].conn = thread[u].conn
           /\ thread'[u].port = thread[u].port /\ thread'[u].result = thread[u].result
    <3>1. CASE thread' = [thread EXCEPT ![t].pc = "asking"]
      BY <2>3, <3>1 DEF Active, HostTypeOK, ThreadsOK
    <3>2. CASE \E r \in {"ok", "failed"} : Ends(t, r)
      BY <3>2 DEF Active, Ends, HostTypeOK, ThreadsOK
    <3> QED
      BY <2>1, <3>1, <3>2 DEF ThreadStep, OpenPort, AskIdentity
  <2>5. ThreadInv'
    BY <2>2, <2>4 DEF ThreadInv
  <2>6. LateProbeHarmless'
    BY <2>2, <2>4 DEF LateProbeHarmless
  <2> QED
    BY <2>5, <2>6
<1>2. CASE \E p \in Ports : StartProbe(p)
  <2>1. PICK p \in Ports : StartProbe(p)
    BY <1>2
  <2>2. probes + 1 \in Threads
    BY <1>0, <2>1, HostAssumption DEF StartProbe, Threads
  <2>3. /\ probes' = probes + 1 /\ current' = current /\ window' = "polling"
        /\ thread'[probes + 1] = [pc |-> "opening", conn |-> current, port |-> p, result |-> "none"]
        /\ \A u \in Threads \ {probes + 1} : thread'[u] = thread[u]
    BY <2>1, <2>2 DEF StartProbe, HostTypeOK, ThreadsOK
  <2>4. \A u \in Threads : Active(u) => thread[u].conn # current /\ u # probes + 1
    BY <1>0, <2>1 DEF StartProbe, LateProbeHarmless, ThreadInv
  <2>5. ThreadInv'
    BY <1>0, <2>3, <2>4 DEF ThreadInv, Active
  <2>6. LateProbeHarmless'
    BY <2>3, <2>4 DEF LateProbeHarmless, Active
  <2> QED
    BY <2>5, <2>6
<1>3. CASE ProbeAnswered
  <2>1. \A u \in Threads : Active(u) => thread[u].conn # current
    BY <1>3 DEF ProbeAnswered, LateProbeHarmless, ThreadInv
  <2> QED
    BY <1>3, <2>1 DEF ProbeAnswered, ThreadInv, LateProbeHarmless, Active
<1>4. CASE ProbeTimesOut
  BY <1>4 DEF ProbeTimesOut, ThreadInv, LateProbeHarmless, Active
<1>5. CASE Recreate
  <2>1. \A u \in Threads : Active(u) => thread[u].conn # current'
    <3>1. CASE thread[probes].result = "failed"
      BY <1>5, <3>1 DEF Recreate, LateProbeHarmless, ThreadInv
    <3>2. CASE thread[probes].result # "failed"
      BY <1>0, <1>5, <3>2 DEF Recreate, ThreadInv
    <3> QED
      BY <3>1, <3>2
  <2>2. current' <= probes'
    BY <1>0, <1>5 DEF Recreate, ThreadInv
  <2> QED
    BY <1>5, <2>1, <2>2 DEF Recreate, ThreadInv, LateProbeHarmless, Active
<1>6. CASE FoundOta \/ FoundOther
  <2>1. \A u \in Threads : Active(u) => thread[u].conn # current
    BY <1>6 DEF FoundOta, FoundOther, LateProbeHarmless
  <2>2. UNCHANGED <<thread, current, probes>> /\ window' = "idle"
    BY <1>6 DEF FoundOta, FoundOther
  <2> QED
    BY <2>1, <2>2 DEF ThreadInv, LateProbeHarmless, Active
<1>7. CASE Completed \/ (\E p \in Ports : UserStart(p)) \/ WorkerStep
             \/ (\E p \in Ports, k \in Kinds : Replug(p, k)) \/ OpensPort
  <2>1. UNCHANGED <<thread, current, probes>> /\ (window' = window)
    BY <1>7 DEF Completed, UserStart, WorkerStep, SendUpgrade, ReadRequest, ReadFails, SendReply,
                Replug, OpensPort, windowVars
  <2> QED
    BY <2>1, ProbingKept
<1> QED
  BY <1>1, <1>2, <1>3, <1>4, <1>5, <1>6, <1>7 DEF Next, WindowStep

(***************************************************************************)
(* While nobody probes an upgrade, the window stays on the worker's        *)
(* connection, and only the worker's port is ever opened on it.            *)
(***************************************************************************)
LEMMA QuietStep ==
  ASSUME HInv, Next \/ OpensPort
  PROVE  QuietInv'
<1> SUFFICES ASSUME quiet', worker'.pc # "idle"
             PROVE  /\ window' = "idle" /\ worker'.conn = current'
                    /\ link'[current'] \in {worker'.port, NoPort}
  BY DEF QuietInv
<1> USE DEF HInv, HostTypeOK
<1>0. quiet
  BY DEF Next, WindowStep, WorkerStep, ThreadStep, OpenPort, AskIdentity, ProbeAnswered, ProbeTimesOut,
         Recreate, FoundOta, FoundOther, Completed, SendUpgrade, ReadRequest, ReadFails, SendReply,
         StartProbe, UserStart, Replug, OpensPort
<1>1. CASE worker.pc = "idle"
  <2>1. FoundOta \/ \E p \in Ports : UserStart(p)
    BY <1>1 DEF Next, WindowStep, WorkerStep, ThreadStep, OpenPort, AskIdentity, ProbeAnswered,
         ProbeTimesOut, Recreate, FoundOther, Completed, SendUpgrade, ReadRequest, ReadFails, SendReply,
         StartProbe, Replug, OpensPort
  <2>2. window' = "idle" /\ current' = current
    BY <2>1 DEF FoundOta, UserStart
  <2>3. worker'.conn = current /\ worker'.port = link'[current]
    <3>1. StartUpgrade => worker'.conn = current /\ worker'.port = link'[current]
      BY DEF StartUpgrade
    <3>2. StartUpgrade
      BY <1>1, <2>1 DEF FoundOta, UserStart
    <3> QED
      BY <3>1, <3>2
  <2> QED
    BY <2>2, <2>3
<1>2. CASE worker.pc # "idle"
  <2>1. /\ window = "idle" /\ worker.conn = current /\ link[current] \in {worker.port, NoPort}
        /\ inProgress /\ signals = <<>>
    BY <1>0, <1>2 DEF QuietInv, OneUpgrade
  <2>2. current \in Conns
    BY DEF WindowOK
  <2>3. CASE \E t \in Threads : ThreadStep(t)
    <3>1. PICK t \in Threads : ThreadStep(t)
      BY <2>3
    <3>2. Active(t) /\ UNCHANGED <<worker, windowVars>>
      BY <3>1 DEF ThreadStep, OpenPort, AskIdentity, Active
    <3>3. thread[t].conn # current
      BY <2>1, <3>2 DEF LateProbeHarmless
    <3>4. link'[current] = link[current]
      BY <2>2, <3>1, <3>3 DEF ThreadStep, OpenPort, AskIdentity, Close, LinksOK
    <3> QED
      BY <2>1, <3>2, <3>4 DEF windowVars
  <2>4. CASE WorkerStep
    <3>1. worker'.conn = worker.conn /\ worker'.port = worker.port
      <4>1. ~Leaves(<<>>) /\ \A s : ~Leaves(s)
        BY DEF Leaves, Resting
      <4>2. \/ worker' = [worker EXCEPT !.pc = "read"]
            \/ \E r : worker' = [worker EXCEPT !.pc = "reply", !.asked = r]
        BY <2>4, <4>1, Zenon DEF WorkerStep, SendUpgrade, ReadRequest, ReadFails, SendReply
      <4> QED
        BY <4>2 DEF WorkerOK
    <3> QED
      BY <2>1, <2>4, <3>1
      DEF WorkerStep, SendUpgrade, ReadRequest, ReadFails, SendReply, windowVars, linkVars
  <2>5. CASE \E p \in Ports, k \in Kinds : Replug(p, k)
    BY <2>1, <2>2, <2>5 DEF Replug, windowVars
  <2> QED
    BY <1>0, <2>1, <2>3, <2>4, <2>5
    DEF Next, WindowStep, ProbeAnswered, ProbeTimesOut, Recreate, FoundOta, FoundOther, Completed,
        StartProbe, UserStart, OpensPort
<1> QED
  BY <1>1, <1>2

(***************************************************************************)
(* Every step of the window, the probes, the worker and the devices.       *)
(***************************************************************************)
LEMMA HostStepKept ==
  ASSUME HInv, Next \/ OpensPort
  PROVE  HInv'
<1> USE DEF HInv
<1>1. HostTypeOK'
  BY ThreadTypeStep, WindowTypeStep, WorkerTypeStep DEF Next
<1>2. OneUpgrade'
  BY OneUpgradeStep
<1>3. ThreadInv' /\ LateProbeHarmless'
  BY ProbingStep DEF Probing
<1>4. QuietInv'
  BY QuietStep
<1> QED
  BY <1>1, <1>2, <1>3, <1>4

(***************************************************************************)
(* HInv is an invariant of M-UPGRADE: the preset worker changes none of    *)
(* what it is about, except that it is started on a port that is opened.   *)
(***************************************************************************)
THEOREM HostCorrect == SystemSpec => []HInv
<1>1. SystemInit => HInv
  BY HostInit DEF SystemInit
<1>2. HInv /\ [SystemNext]_svars => HInv'
  <2> SUFFICES ASSUME HInv, [SystemNext]_svars PROVE HInv'
    OBVIOUS
  <2>1. CASE HostStep
    BY <2>1, HostStepKept DEF HostStep
  <2>2. CASE \E p \in Ports : PresetStart(p)
    <3>1. OpensPort
      BY <2>2 DEF PresetStart, OpensPort
    <3> QED
      BY <3>1, HostStepKept
  <2>3. CASE UNCHANGED hvars
    BY <2>3 DEF hvars, linkVars, windowVars, boundVars, HInv, HostTypeOK, DevicesOK, LinksOK,
       WindowOK, ThreadsOK, WorkerOK, OneUpgrade, ThreadInv, LateProbeHarmless, QuietInv,
       Active, Conns, Threads
  <2> QED
    BY <2>1, <2>2, <2>3 DEF SystemNext, PresetWorks, svars
<1> QED
  BY <1>1, <1>2, PTL DEF SystemSpec

(***************************************************************************)
(* A second upgrade never starts beside a running one.                     *)
(***************************************************************************)
THEOREM UpgradeAlone == SystemSpec => []OneUpgrade
BY HostCorrect, PTL DEF HInv

(***************************************************************************)
(* A probe that answers late never has the window's connection.            *)
(***************************************************************************)
THEOREM LateProbesHarmless == SystemSpec => []LateProbeHarmless
BY HostCorrect, PTL DEF HInv

(***************************************************************************)
(* While nobody probes, an upgrade's replies reach the port it was started *)
(* on or none: the worker's connection is the window's, so it is alive,    *)
(* and no thread that is waited for has it.                                *)
(***************************************************************************)
THEOREM RepliesReachAsker == SystemSpec => []RepliesToAsker
<1>1. HInv => RepliesToAsker
  BY DEF HInv, QuietInv, LateProbeHarmless, RepliesToAsker, Alive
<1> QED
  BY <1>1, HostCorrect, PTL

----------------------------------------------------------------------------
(* The preset worker *)

PInv ==
  /\ Preset!PresetTypeOK
  /\ ppc # "idle" => length \in Lengths
  /\ ppc = "erase" => /\ sector <= Preset!Sectors(length)
                      /\ \A s \in Preset!Region : s < sector => region[s] = "erased"
  /\ ppc = "write" => \A s \in Preset!Touched(length) : region[s] = "erased"
  /\ Preset!OutcomeIsTrue

(***************************************************************************)
(* Rounding q * d + r bytes up to whole sectors of d bytes.                *)
(***************************************************************************)
LEMMA Rounding ==
  ASSUME NEW d \in Nat \ {0}, NEW q \in Nat, NEW r \in 0 .. d - 1, NEW s \in Nat
  PROVE  s * d < (d * q) + r <=> s < IF r = 0 THEN q ELSE q + 1
<1>1. CASE s < q
  <2>1. s + 1 <= q
    BY <1>1
  <2>2. (s + 1) * d <= q * d
    BY <2>1
  <2> QED
    BY <1>1, <2>2
<1>2. CASE s = q
  BY <1>2
<1>3. CASE s > q
  <2>1. q + 1 <= s
    BY <1>3
  <2>2. (q + 1) * d <= s * d
    BY <2>1
  <2> QED
    BY <1>3, <2>2
<1> QED
  BY <1>1, <1>2, <1>3

(***************************************************************************)
(* The sectors that are erased are those that hold a byte of the file, no  *)
(* more and no less.                                                       *)
(***************************************************************************)
LEMMA SectorsCover ==
  ASSUME NEW n \in Nat, NEW s \in Nat
  PROVE  s * SectorSize < n <=> s < Preset!Sectors(n)
<1>1. SectorSize \in Nat \ {0}
  BY PresetAssumption
<1>2. /\ n \div SectorSize \in Nat /\ n % SectorSize \in 0 .. SectorSize - 1
      /\ n = (SectorSize * (n \div SectorSize)) + (n % SectorSize)
  BY <1>1
<1>3. s * SectorSize < (SectorSize * (n \div SectorSize)) + (n % SectorSize)
        <=> s < IF n % SectorSize = 0 THEN n \div SectorSize ELSE (n \div SectorSize) + 1
  BY <1>1, <1>2, Rounding
<1> QED
  BY <1>2, <1>3 DEF Preset!Sectors

(***************************************************************************)
(* The region has a sector for every one the worker erases.                *)
(***************************************************************************)
LEMMA RegionHasRoom ==
  ASSUME NEW n \in Lengths
  PROVE  n \in Nat /\ Preset!Sectors(n) \in Nat /\ Preset!Sectors(n) < RegionSize
<1>1. n \in Nat /\ n \div SectorSize \in Nat
  BY PresetAssumption
<1> QED
  BY <1>1, PresetAssumption DEF Preset!Sectors

(***************************************************************************)
(* A step of the preset worker, or its start, keeps PInv and touches only  *)
(* sectors of the file.                                                    *)
(***************************************************************************)
LEMMA PresetStepKept ==
  ASSUME PInv, Preset!PresetStep \/ \E n \in Lengths : Preset!Start(n)
  PROVE  /\ PInv'
         /\ \A s \in Preset!Region : region'[s] # region[s] => s * SectorSize < length
<1> USE DEF PInv, Preset!PresetTypeOK, Preset!OutcomeIsTrue
<1>0. Preset!Region \subseteq Nat
  BY PresetAssumption DEF Preset!Region
<1>1. CASE \E n \in Lengths : Preset!Start(n)
  <2>1. PICK n \in Lengths : Preset!Start(n)
    BY <1>1
  <2>2. Preset!Sectors(n) \in Nat /\ updates' \in 0 .. MaxUpdates /\ sector' \in 0 .. RegionSize
    BY <2>1, RegionHasRoom, PresetAssumption DEF Preset!Start
  <2> QED
    BY <1>0, <2>1, <2>2 DEF Preset!Start, Preset!Report
<1>2. CASE Preset!PresetStep
  <2>1. ppc # "idle"
    BY <1>2 DEF Preset!PresetStep, Preset!EraseSector, Preset!EraseFails, Preset!EraseDone,
       Preset!Write, Preset!WriteFails
  <2>2. /\ length \in Lengths /\ length' = length /\ updates' = updates
        /\ length \in Nat /\ Preset!Sectors(length) \in Nat /\ Preset!Sectors(length) < RegionSize
    BY <1>2, <2>1, RegionHasRoom DEF Preset!PresetStep, Preset!EraseSector, Preset!EraseFails,
       Preset!EraseDone, Preset!Write, Preset!WriteFails
  <2>3. \A s \in Preset!Region : s \in Preset!Touched(length) <=> s < Preset!Sectors(length)
    BY <1>0, <2>2, SectorsCover DEF Preset!Touched
  <2>4. CASE Preset!EraseSector
    <3>1. sector \in Preset!Region /\ sector \in Preset!Touched(length)
      BY <1>0, <2>2, <2>3, <2>4, PresetAssumption DEF Preset!EraseSector, Preset!Region
    <3>2. sector * SectorSize < length
      BY <3>1 DEF Preset!Touched
    <3>3. /\ sector' = sector + 1 /\ ppc = "erase" /\ ppc' = ppc /\ outcome' = outcome
          /\ sector' \in 0 .. RegionSize /\ sector' <= Preset!Sectors(length)
      BY <2>2, <2>4, PresetAssumption DEF Preset!EraseSector
    <3>4. region' = [region EXCEPT ![sector] = "erased"]
      BY <2>4 DEF Preset!EraseSector
    <3>5. \A s \in Preset!Region : s < sector' => region'[s] = "erased"
      BY <1>0, <3>1, <3>3, <3>4
    <3> QED
      BY <2>2, <3>1, <3>2, <3>3, <3>4, <3>5
  <2>5. CASE Preset!EraseFails
    <3>1. sector \in Preset!Region /\ sector \in Preset!Touched(length)
      BY <1>0, <2>2, <2>3, <2>5, PresetAssumption DEF Preset!EraseFails, Preset!Region
    <3>2. sector * SectorSize < length
      BY <3>1 DEF Preset!Touched
    <3>3. sector' = sector /\ ppc' = "idle" /\ outcome' = "failed"
      BY <2>5 DEF Preset!EraseFails, Preset!Report
    <3>4. region' = region \/ region' = [region EXCEPT ![sector] = "erased"]
      BY <2>5 DEF Preset!EraseFails
    <3> QED
      BY <2>2, <3>1, <3>2, <3>3, <3>4
  <2>6. CASE Preset!EraseDone
    <3>1. \A s \in Preset!Touched(length) : region[s] = "erased"
      BY <2>3, <2>6 DEF Preset!EraseDone, Preset!Touched
    <3> QED
      BY <2>2, <2>6, <3>1 DEF Preset!EraseDone, Preset!Touched
  <2>7. CASE Preset!Write \/ Preset!WriteFails
    <3>1. PICK which \in SUBSET Preset!Touched(length) :
             /\ region' = Preset!Programmed(which)
             /\ outcome' = "done" => which = Preset!Touched(length)
      BY <2>7 DEF Preset!Write, Preset!WriteFails, Preset!Report
    <3>2. \A s \in Preset!Region :
             region'[s] = IF s \in which THEN "new" ELSE region[s]
      BY <2>7, <3>1 DEF Preset!Programmed, Preset!Touched, Preset!Write, Preset!WriteFails
    <3>3. region' \in [Preset!Region -> {"old", "erased", "new", "torn"}]
      BY <3>1 DEF Preset!Programmed
    <3> QED
      BY <2>2, <2>7, <3>1, <3>2, <3>3 DEF Preset!Write, Preset!WriteFails, Preset!Report, Preset!Touched
  <2> QED
    BY <1>2, <2>4, <2>5, <2>6, <2>7 DEF Preset!PresetStep
<1> QED
  BY <1>1, <1>2

(***************************************************************************)
(* PInv is an invariant of M-UPGRADE, and every step touches only sectors  *)
(* of the file: what the window and its probes do to the worker's          *)
(* connection makes commands fail, no more.                                *)
(***************************************************************************)
LEMMA SystemStepKept ==
  ASSUME PInv, [SystemNext]_svars
  PROVE  /\ PInv'
         /\ \A s \in Preset!Region : region'[s] # region[s] => s * SectorSize < length
<1>1. CASE PresetWorks \/ \E p \in Ports : PresetStart(p)
  BY <1>1, PresetStepKept DEF PresetWorks, PresetStart
<1>2. CASE UNCHANGED pvars
  BY <1>2 DEF pvars, PInv, Preset!PresetTypeOK, Preset!OutcomeIsTrue
<1> QED
  BY <1>1, <1>2 DEF SystemNext, HostStep, svars

(***************************************************************************)
(* No preset update has been started.                                      *)
(***************************************************************************)
LEMMA PresetInit == SystemInit => PInv
BY PresetAssumption DEF SystemInit, Preset!Init, PInv, Preset!PresetTypeOK, Preset!OutcomeIsTrue

(***************************************************************************)
(* How far a preset update has come, at any time.                          *)
(***************************************************************************)
THEOREM PresetCorrect == SystemSpec => []PInv
BY PresetInit, SystemStepKept, PTL DEF SystemSpec

(***************************************************************************)
(* What the window is told of a preset update is true of the device.       *)
(***************************************************************************)
THEOREM PresetOutcomeTrue == SystemSpec => []PresetOutcomeIsTrue
BY PresetCorrect, PTL DEF PInv, PresetOutcomeIsTrue

(***************************************************************************)
(* A preset update destroys no sector beyond the end of its file.          *)
(***************************************************************************)
THEOREM PresetStaysInFile == SystemSpec => PresetOwnSectors
<1>1. PInv /\ [SystemNext]_svars =>
        [\A s \in Preset!Region : region'[s] # region[s] => s * SectorSize < length]_region
  BY SystemStepKept
<1> QED
  BY <1>1, PresetCorrect, PTL DEF SystemSpec, PresetOwnSectors, Preset!OwnSectorsOnly

(***************************************************************************)
(* Every variable of M-UPGRADE keeps its type.                             *)
(***************************************************************************)
THEOREM SystemTypesOK == SystemSpec => []SystemTypeOK
<1>1. SystemInit => presetConn \in Conns
  BY HostAssumption DEF SystemInit, Init, Conns
<1>2. HInv /\ presetConn \in Conns /\ [SystemNext]_svars => (presetConn \in Conns)'
  BY DEF HInv, HostTypeOK, WindowOK, SystemNext, HostStep, PresetWorks, PresetStart, svars, pvars,
         Conns
<1>3. HInv /\ PInv /\ presetConn \in Conns => SystemTypeOK
  BY DEF HInv, PInv, SystemTypeOK
<1> QED
  BY <1>1, <1>2, <1>3, HostCorrect, PresetCorrect, PTL DEF SystemSpec
=============================================================================
