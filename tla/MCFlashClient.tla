--------------------------- MODULE MCFlashClient ---------------------------
(* Values for TLC: a package FM of version 2, a device that runs version 1, *)
(* 2 or the OTA loader, or is no FM at all; an image of two blocks.         *)
EXTENDS FlashClientAlone

MCExpected == [ota |-> FALSE, model |-> "FM", version |-> 2]

MCIds == { MCExpected,
           [ota |-> FALSE, model |-> "FM", version |-> 1],
           [ota |-> TRUE, model |-> "FM", version |-> 1] }

\* Terminal addresses, requests within the image and just beyond each bound
MCAsked == {[addr |-> VERIFY, len |-> SuccessLen],
            [addr |-> FINISH, len |-> SuccessLen],
            [addr |-> 0, len |-> 2], [addr |-> 2, len |-> 0],
            [addr |-> 0, len |-> 3], [addr |-> 1, len |-> 2],
            [addr |-> 3, len |-> 0]}

MCStopAfter == <<1, 2>>
=============================================================================
