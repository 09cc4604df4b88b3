----------------------------- MODULE HostSystem -----------------------------
(***************************************************************************)
(* M-UPGRADE as a whole: the window with its probes, the upgrade worker,   *)
(* and the preset worker, which also has a plain pointer to a connection   *)
(* and loses its device when a probe closes that connection under it.      *)
(***************************************************************************)
EXTENDS HostUpdater

CONSTANTS SectorSize, Lengths, RegionSize, MaxUpdates   \* see PresetUpdate

\* The region has room for every file.
ASSUME PresetAssumption ==
  /\ SectorSize \in Nat \ {0} /\ RegionSize \in Nat /\ MaxUpdates \in Nat
  /\ Lengths \subseteq Nat
  /\ \A n \in Lengths : n \div SectorSize + 1 < RegionSize

VARIABLES
  presetConn,                                       \* the preset worker's connection
  ppc, length, sector, region, outcome, updates     \* see PresetUpdate

pvars == <<presetConn, ppc, length, sector, region, outcome, updates>>
svars == <<hvars, pvars>>

Preset == INSTANCE PresetUpdate WITH linked <- Linked(presetConn)

SystemInit == Init /\ Preset!Init /\ presetConn = current

\* The user (external) starts a preset update on a device that was listed.
PresetStart(p) ==
  /\ window = "idle" /\ ~inProgress
  /\ Free(p) /\ device[p] = "app"
  /\ \E n \in Lengths : Preset!Start(n)
  /\ link' = [link EXCEPT ![current] = p] /\ presetConn' = current
  /\ UNCHANGED <<quiet, device, model, windowVars, thread, worker, signals, boundVars>>

\* The window and everything but the preset worker
HostStep ==
  /\ Next
  /\ quiet /\ ppc # "idle" => probes' = probes /\ inProgress' = inProgress
  /\ UNCHANGED pvars

PresetWorks == Preset!PresetStep /\ UNCHANGED <<hvars, presetConn>>

SystemNext == HostStep \/ PresetWorks \/ \E p \in Ports : PresetStart(p)

SystemSpec ==
  /\ SystemInit /\ [][SystemNext]_svars /\ WF_svars(WorkerStep /\ HostStep)

----------------------------------------------------------------------------
(* Properties *)

\* Type invariant of the whole
SystemTypeOK == HostTypeOK /\ presetConn \in Conns /\ Preset!PresetTypeOK

(***************************************************************************)
(* What the window is told of a preset update is true of the device,       *)
(* whatever probes did to the connection meanwhile.                        *)
(***************************************************************************)
PresetOutcomeIsTrue == Preset!OutcomeIsTrue

(***************************************************************************)
(* A preset update destroys no sector beyond the end of its file.          *)
(***************************************************************************)
PresetOwnSectors == Preset!OwnSectorsOnly
=============================================================================
