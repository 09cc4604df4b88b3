-------------------------- MODULE FlashClientAlone --------------------------
(***************************************************************************)
(* FlashClient against any device: frames of every kind, requests within   *)
(* and beyond the image among them, in any number and at any time while    *)
(* the link is up; devices of any mode that come, go and hide their port.  *)
(* What was written stays in tx, which is the log the properties read.     *)
(***************************************************************************)
EXTENDS FlashClient

CONSTANTS
  Ids,       \* identities a device may report
  Asked,     \* addresses and lengths a device may ask for
  MaxFrames, \* bound: frames a device sends during a run
  MaxRx      \* bound: frames waiting to be read

ASSUME DeviceAssumption == Asked \subseteq [addr : Nat, len : Nat]

VARIABLE sent  \* frames sent so far

vars == <<cvars, sent>>

Reported == Ids \cup {[ota |-> FALSE, model |-> NoModel, version |-> 0]}

AnyRequest == {Request(q.addr, q.len) : q \in Asked}

Frames == AnyRequest \cup {Identity(i) : i \in Reported} \cup {Noise, Event}

Arrive(f) ==
  /\ conn = "live" /\ sent < MaxFrames /\ Len(rx) < MaxRx
  /\ rx' = Append(rx, f) /\ sent' = sent + 1
  /\ UNCHANGED <<verb, stage, pc, conn, tries, idle, got, fin, result, held, tx>>

\* The device leaves the bus: reset, power loss, a pulled cable.
Vanish ==
  /\ conn = "live" /\ conn' = "dead"
  /\ UNCHANGED <<verb, stage, pc, tries, idle, got, fin, result, rx, held, tx, sent>>

Step ==
  \/ ClientStep /\ UNCHANGED sent
  \/ \E port \in BOOLEAN :
       \/ Open(port) /\ UNCHANGED sent
       \/ \E mode \in Modes : Find(mode, port) /\ UNCHANGED sent

Device == Vanish \/ \E f \in Frames : Arrive(f)

\* The run is over and the process gone.
Over == pc = "exit" /\ UNCHANGED vars

Next == Step \/ Device \/ Over

AloneInit == Init /\ sent = 0

\* The client is one thread that the system keeps running.
Spec == AloneInit /\ [][Next]_vars /\ WF_vars(Step)

----------------------------------------------------------------------------
FramesOut == {Query, Upgrade, Malformed}
               \cup [kind : {"data"}, addr : Nat, len : Nat, payload : Payloads]

RunOK ==
  /\ verb \in {"flash", "serve"} /\ result \in Results
  /\ stage \in 1 .. 3 /\ (stage # 1 => verb = "flash")
  /\ pc \in {"find", "open", "drain", "query", "await", "check", "upgrade",
             "serve", "served", "exit"}
  /\ (stage = 3 => pc \notin {"upgrade", "serve", "served"})
  /\ conn \in {"closed", "live", "dead"}

DataOK ==
  /\ tries \in Nat /\ idle \in Nat /\ held \in Nat
  /\ got \in Reported
  /\ fin \in [1 .. 2 -> {"none", "verify", "finish"}]
  /\ rx \in Seq(Frames) /\ tx \in Seq(FramesOut)
  /\ sent \in Nat

\* Every variable stays in its domain.
TypeOK == RunOK /\ DataOK

(***************************************************************************)
(* The bounds check of serve_requests lets nothing through that the reply  *)
(* could not carry: build_response never gets a slice of another length    *)
(* than was asked for, and never raises ValueError into the update.        *)
(***************************************************************************)
RepliesExact ==
  \A i \in DOMAIN tx :
    /\ tx[i] # Malformed
    /\ tx[i].kind = "data" /\ tx[i].addr \notin Terminal =>
         tx[i].payload = Slice(tx[i].addr, tx[i].len)
           /\ Cardinality(tx[i].payload) = tx[i].len

(***************************************************************************)
(* Exit code 0 of cmd_flash stands on three exchanges made in this order   *)
(* on three connections: verification answered, finish answered, and the   *)
(* expected identity reported by a device that came back.                  *)
(***************************************************************************)
OkNeedsEvidence ==
  result = "ok" =>
    IF verb = "flash"
      THEN /\ stage = 3 /\ fin[1] = "verify" /\ fin[2] = "finish"
           /\ got.model = Expected.model /\ got.version = Expected.version
           /\ ~got.ota
      ELSE fin[1] = "finish"

(***************************************************************************)
(* Once the device has nothing more to say the client comes to an end,     *)
(* whatever it was waiting for: every wait of fm1_ota.py has its timeout.  *)
(***************************************************************************)
Termination == <>(pc = "exit")

(***************************************************************************)
(* The step is done after stop_after seconds without a request, as         *)
(* REQ_TIMEOUT says ("s without requests -> step considered done").        *)
(***************************************************************************)
IdleBounded == pc = "serve" => idle <= Stop
=============================================================================
