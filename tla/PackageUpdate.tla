--------------------------- MODULE PackageUpdate ---------------------------
(***************************************************************************)
(* What fm1_ota.py flash promises its user, without frames or stages: the  *)
(* firmware on the device is the old one, a torn one or the package's, and *)
(* the exit code and message of the last run say no more than is true.     *)
(***************************************************************************)
VARIABLES
  installed, \* the application in flash: "old", "torn" or "new"
  before,    \* what it was when the run found the device
  verdict    \* "searching", "pending", then "ok", "notFlashed" or "error"

vars == <<installed, before, verdict>>

Init == installed = "old" /\ before = "old" /\ verdict = "searching"

\* Programming starts: there is no second bank, so the old image is gone.
Tear ==
  /\ installed \in {"old", "new"}
  /\ installed' = "torn"
  /\ UNCHANGED <<before, verdict>>

Complete ==
  /\ installed = "torn"
  /\ installed' = "new"
  /\ UNCHANGED <<before, verdict>>

\* The run finds the device.  What an earlier run left to a loader may have
\* gone on until now.
Find ==
  /\ verdict = "searching"
  /\ verdict' = "pending" /\ before' = installed
  /\ UNCHANGED installed

\* "ok" only with the package in flash, "image was not flashed" only if flash
\* still is what the run found; an error promises nothing.
Report ==
  /\ \/ verdict = "pending" /\ verdict' = "ok" /\ installed = "new"
     \/ verdict = "pending" /\ verdict' = "notFlashed" /\ installed = before
     \/ verdict \in {"searching", "pending"} /\ verdict' = "error"
  /\ UNCHANGED <<installed, before>>

\* The user runs the program once more.
Again ==
  /\ verdict \in {"ok", "notFlashed", "error"}
  /\ verdict' = "searching"
  /\ UNCHANGED <<installed, before>>

Next == Tear \/ Complete \/ Find \/ Report \/ Again

Spec == Init /\ [][Next]_vars
=============================================================================
