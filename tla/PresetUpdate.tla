---------------------------- MODULE PresetUpdate ----------------------------
(***************************************************************************)
(* The preset worker of M-UPGRADE (FUN_14000e2e0): it erases the presets'  *)
(* flash region one sector per command, then writes the file with one      *)
(* call.  Any command may fail, and a command that failed may have been    *)
(* carried out all the same.  The user may try again, with another file.   *)
(***************************************************************************)
EXTENDS Naturals

CONSTANTS
  SectorSize,  \* 4096 in the code
  Lengths,     \* sizes of the files the user picks
  RegionSize,  \* sectors of the region that are looked at
  MaxUpdates   \* bound: updates the user starts

VARIABLES
  linked,   \* whether the worker's connection has its device (not set here)
  ppc,      \* what the worker is doing
  length,   \* size of the file, once the user has picked one
  sector,   \* sectors erased so far
  region,   \* content of each sector: "torn" was programmed over old bytes
  outcome,  \* what the worker has told the window
  updates   \* updates started

presetVars == <<ppc, length, sector, region, outcome, updates>>

Region == 0 .. RegionSize - 1

Init ==
  /\ ppc = "idle" /\ length = 0 /\ sector = 0
  /\ region = [s \in Region |-> "old"]
  /\ outcome = "none" /\ updates = 0

\* Mutants: a rest does not count, or a sector is added in any case.
WholeSectors(n) == n \div SectorSize
SectorsAndOne(n) == n \div SectorSize + 1

\* Sectors to erase: whole ones, and one more for a rest
Sectors(n) == IF n % SectorSize = 0 THEN n \div SectorSize
              ELSE n \div SectorSize + 1

\* Sectors that hold at least one byte of a file of n bytes
Touched(n) == {s \in Region : s * SectorSize < n}

Report(r) == ppc' = "idle" /\ outcome' = r

\* The user picks a file; an empty one is refused before anything is sent.
Start(n) ==
  /\ ppc = "idle" /\ updates < MaxUpdates
  /\ updates' = updates + 1 /\ length' = n /\ sector' = 0
  /\ IF n = 0 THEN Report("failed")
     ELSE ppc' = "erase" /\ outcome' = "none"
  /\ UNCHANGED region

EraseSector ==
  /\ ppc = "erase" /\ sector < Sectors(length) /\ linked
  /\ region' = [region EXCEPT ![sector] = "erased"]
  /\ sector' = sector + 1
  /\ UNCHANGED <<ppc, length, outcome, updates>>

EraseFails ==
  /\ ppc = "erase" /\ sector < Sectors(length)
  /\ \/ UNCHANGED region
     \/ linked /\ region' = [region EXCEPT ![sector] = "erased"]
  /\ Report("failed")
  /\ UNCHANGED <<length, sector, updates>>

EraseDone ==
  /\ ppc = "erase" /\ sector = Sectors(length)
  /\ ppc' = "write"
  /\ UNCHANGED <<length, sector, region, outcome, updates>>

\* Flash after programming the sectors in "which"
Programmed(which) ==
  [s \in Region |-> IF s \notin which THEN region[s]
                    ELSE IF region[s] = "erased" THEN "new" ELSE "torn"]

Write ==
  /\ ppc = "write" /\ linked
  /\ region' = Programmed(Touched(length))
  /\ Report("done")
  /\ UNCHANGED <<length, sector, updates>>

\* The write stops somewhere; the sectors before that place are programmed.
WriteFails ==
  /\ ppc = "write"
  /\ \E k \in 0 .. RegionSize :
       /\ k > 0 => linked
       /\ region' = Programmed(Touched(length) \cap 0 .. k - 1)
  /\ Report("failed")
  /\ UNCHANGED <<length, sector, updates>>

PresetStep == \/ EraseSector \/ EraseFails \/ EraseDone \/ Write \/ WriteFails

----------------------------------------------------------------------------
(* Properties *)

PresetTypeOK ==
  /\ ppc \in {"idle", "erase", "write"}
  /\ length \in Lengths \cup {0} /\ sector \in 0 .. RegionSize
  /\ region \in [Region -> {"old", "erased", "new", "torn"}]
  /\ outcome \in {"none", "done", "failed"} /\ updates \in 0 .. MaxUpdates

(***************************************************************************)
(* What the window is told is true of the device, also when an earlier     *)
(* update failed half way: "done" over sectors that were erased in this    *)
(* update and hold the whole file.  Rounding the number of sectors down    *)
(* would program the last one over old bytes.                              *)
(***************************************************************************)
OutcomeIsTrue ==
  ppc = "idle" /\ outcome = "done" =>
    \A s \in Touched(length) : region[s] = "new"

(***************************************************************************)
(* An update destroys no sector beyond the end of its file: a file that    *)
(* ends with a sector does not cost the next one.                          *)
(***************************************************************************)
OwnSectorsOnly ==
  [][\A s \in Region : region'[s] # region[s] => s * SectorSize < length]_region
=============================================================================
