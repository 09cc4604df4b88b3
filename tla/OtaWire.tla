------------------------------ MODULE OtaWire ------------------------------
(***************************************************************************)
(* Frames exchanged by the update client (tools/fm1_ota.py) and the FM-1.  *)
(*                                                                         *)
(* Both directions are MIDI SysEx; the 8-to-7 bit packing and the byte     *)
(* layout are left out, what remains is what the two ends branch on: the   *)
(* frame's kind, the raw address, the requested length and the payload.    *)
(* The unit of addresses and lengths is the 512-byte block the loader      *)
(* programs at a time.  Addresses below ImageLen are offsets into the      *)
(* logical image; VERIFY and FINISH stand for 0xE0000000 and 0xF0000000.   *)
(* A payload is the set of image offsets whose bytes it carries, in order, *)
(* so "the right bytes" is equality of payloads.                           *)
(***************************************************************************)
EXTENDS Naturals, FiniteSets

CONSTANTS
  ImageLen,   \* length of the logical image
  MaxData,    \* MAXDATA, the most one response may carry
  VERIFY,     \* address of the verification-done request
  FINISH,     \* address of the upgrade-done request
  SuccessLen  \* length of the reply "success\0" to either of them

ASSUME WireAssumption ==
  /\ ImageLen \in Nat \ {0}
  /\ MaxData \in Nat \ {0}
  /\ VERIFY \in Nat /\ FINISH \in Nat /\ VERIFY # FINISH
  /\ VERIFY > ImageLen /\ FINISH > ImageLen
  /\ SuccessLen \in Nat \ {0}

Offsets == 0 .. (ImageLen - 1)

Terminal == {VERIFY, FINISH}

\* logical[a : a + n], which Python cuts off at the end of the image
Slice(a, n) == {k \in Offsets : a <= k /\ k < a + n}

\* The payload of the success reply: no slice of the image is equal to it.
Success == {ImageLen}

Payloads == (SUBSET Offsets) \cup {Success}

\* Device to client
Request(a, n) == [kind |-> "request", addr |-> a, len |-> n]
Identity(i)   == [kind |-> "identity", id |-> i]
Noise         == [kind |-> "noise"]  \* a SysEx that is neither of the above
Event         == [kind |-> "event"]  \* a sequencer event that is not SysEx

\* Client to device
Query         == [kind |-> "query"]
Upgrade       == [kind |-> "upgrade"]
Data(a, n, p) == [kind |-> "data", addr |-> a, len |-> n, payload |-> p]
Malformed     == [kind |-> "malformed"]  \* wrong body length or checksum

(***************************************************************************)
(* The reply to a request (build_response, build_success): the address and *)
(* the length of the request are echoed, and build_response refuses a      *)
(* payload that is not exactly the requested length.                       *)
(***************************************************************************)
Buildable(a, n) == n <= MaxData /\ Cardinality(Slice(a, n)) = n

\* Mutant: a full reply loses its last group of bytes.
ReplyCutShort(a, n) ==
  IF Buildable(a, n) /\ n < MaxData THEN Data(a, n, Slice(a, n)) ELSE Malformed

Reply(a, n) == IF Buildable(a, n) THEN Data(a, n, Slice(a, n)) ELSE Malformed

SuccessReply(a) == Data(a, SuccessLen, Success)

\* Mutant: the end of the request is not compared.
StartOutOfBounds(a, n) == n > MaxData \/ a > ImageLen

\* serve_requests' bounds check: the request it refuses with RuntimeError
OutOfBounds(a, n) == n > MaxData \/ a > ImageLen \/ a + n > ImageLen
=============================================================================
