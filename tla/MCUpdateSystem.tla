--------------------------- MODULE MCUpdateSystem ---------------------------
(* Values for TLC: the package is version 2 of model FM.                    *)
EXTENDS UpdateSystem

MCExpected == [ota |-> FALSE, model |-> "FM", version |-> 2]

\* The device to update, and one that the package is not for
MCOldDevice   == [ota |-> FALSE, model |-> "FM", version |-> 1]
MCOtherDevice == [ota |-> FALSE, model |-> "other", version |-> 2]

MCStopAfter == <<1, 1>>
=============================================================================
