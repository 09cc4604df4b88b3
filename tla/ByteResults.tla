---------------------------- MODULE ByteResults ----------------------------
(***************************************************************************)
(* The algorithms of Frames and LoaderImage, run on any one input, and     *)
(* what they should compute.                                               *)
(*                                                                         *)
(* An input is a response to build; a device's request of which one septet *)
(* was damaged; a package; the record of a stage, with the logical image   *)
(* or without; or the blocks a container is made of, and how many cells    *)
(* are cut off its end.                                                    *)
(***************************************************************************)
EXTENDS Frames, LoaderImage, Results

CONSTANTS ByteInputs

BytesOf(kind) == {i \in ByteInputs : i.kind = kind}

Runs == [addr : Int, len : Int, flashtype : Int, count : Int, stride : Int]

----------------------------------------------------------------------------
(* Containers *)

\* An operation puts literals down, and repeats "length" bytes from "offset" back.
Operation == [lits : Seq(0 .. Full), offset : 0 .. (Full + 1) * (Full + 1) - 1, length : Nat]

\* A block: operations that repeat something, and the literals at its end
Plan == [ops : Seq({o \in Operation : o.length >= MinMatch}), rest : Seq(0 .. Full)]

OpLen(o) == Len(o.lits) + o.length

Operations(block) == Append(block.ops, [lits |-> block.rest, offset |-> 0, length |-> 0])

\* Where operation j begins
Start(ops, j) == Sum([k \in 1 .. j - 1 |-> OpLen(ops[k])])

\* LZ4: what of a length is in the token, and what follows it
InToken(n) == Min({n, Nibble})
LengthBytes(n) ==
  IF n < Nibble THEN <<>>
  ELSE [k \in 1 .. (n - Nibble) \div Full |-> Full] \o <<(n - Nibble) % Full>>

EncodedLits(lits, nibble) ==
  <<(Nibble + 1) * InToken(Len(lits)) + nibble>> \o LengthBytes(Len(lits)) \o lits

EncodedOp(o) ==
  EncodedLits(o.lits, InToken(o.length - MinMatch))
    \o <<o.offset % (Full + 1), o.offset \div (Full + 1)>> \o LengthBytes(o.length - MinMatch)

EncodedBlock(block) ==
  FlattenSeq(Append([k \in 1 .. Len(block.ops) |-> EncodedOp(block.ops[k])],
                    EncodedLits(block.rest, 0)))

Cells(block) ==
  LET bytes == EncodedBlock(block)
  IN <<Len(bytes), Start(Operations(block), Len(block.ops) + 2)>> \o bytes

EncodedCells(blocks) == FlattenSeq([k \in 1 .. Len(blocks) |-> Cells(blocks[k])])

AllOperations(blocks) == FlattenSeq([k \in 1 .. Len(blocks) |-> Operations(blocks[k])])

\* A container of the right layout, with the right CRCs, but perhaps cut off
Container(i) ==
  LET cells == EncodedCells(i.blocks)
      ops == AllOperations(i.blocks)
      image == IF DecompressImage([cells |-> cells]) = {} THEN <<>>
               ELSE CHOOSE o \in DecompressImage([cells |-> cells]) : TRUE
      inner == [innerData |-> Crc(image), imageSize |-> Start(ops, Len(ops) + 1), innerHeader |-> 0,
                outerHeader |-> 0, outerData |-> 0, cells |-> SubSeq(cells, 1, Len(cells) - i.cut),
                offset |-> HeaderLen, length |-> Size - HeaderLen, attr |-> Attribute]
      checked == [inner EXCEPT !.innerHeader = Crc(Inner(inner))]
      outer == [checked EXCEPT !.outerData = Crc(Behind(checked))]
  IN [outer EXCEPT !.outerHeader = Crc(Outer(outer))]

----------------------------------------------------------------------------
ASSUME ByteAssumption ==
  /\ \A i \in ByteInputs : i.kind \in {"response", "request", "package", "record", "container"}
  /\ \A i \in BytesOf("response") : i.addr \in Nat /\ i.flashtype \in Bytes /\ i.data \in Seq(Bytes)
  /\ \A i \in BytesOf("request") :
       /\ i.flashtype \in Bytes /\ i.addr \in Addresses /\ i.len \in Lens /\ i.septet \in Septets
       /\ i.place \in 2 .. Len(DeviceRequest(i.flashtype, i.addr, i.len)) - 1
  /\ \A i \in BytesOf("package") : i.raw \in Seq(Nat)
  /\ \A i \in BytesOf("record") :
       /\ i.runs \in Seq(Runs) /\ i.expected \in Nat /\ i.finish \in Addresses
       /\ i.size \in Nat /\ i.logical \in Seq(Bytes) /\ Len(i.logical) \in {0, i.size}
  /\ \A i \in BytesOf("container") :
       /\ i.blocks \in Seq(Plan) /\ i.cut \in Nat
       /\ i.cut # 0 => i.blocks # <<>> /\ i.cut < Len(Cells(Last(i.blocks)))

Damaged(i) == [DeviceRequest(i.flashtype, i.addr, i.len) EXCEPT ![i.place] = i.septet]

BytesResult(i) ==
  CASE i.kind = "response" -> BuildResponse(i.addr, i.data, Len(i.data), i.flashtype)
    [] i.kind = "request" -> ParseRequest(Damaged(i))
    [] i.kind = "package" -> IF Truncated(i.raw) THEN <<>> ELSE FwscLogical(i.raw)
    [] i.kind = "record" -> <<VerifyStage(i.runs, i.expected, i.finish, i.size, i.logical)>>
    [] i.kind = "container" -> <<DecompressImage(Container(i)), VerifyAll(Container(i))>>

ByteInit == input \in ByteInputs /\ output = <<>> /\ done = FALSE

ComputeBytes == ~done /\ done' = TRUE /\ output' = BytesResult(input) /\ UNCHANGED input

ByteSpec == ByteInit /\ [][ComputeBytes]_mapVars

----------------------------------------------------------------------------
(* Properties *)

(***************************************************************************)
(* A response the client builds is a frame of data septets from which      *)
(* unpack7 and the checks of the record's verifier get that response       *)
(* back; a payload that is too long or a field that does not fit is not    *)
(* sent at all.                                                            *)
(***************************************************************************)
ResponseAccepted ==
  Computed("response") =>
    IF Len(input.data) <= MaxPayload /\ input.addr \in Addresses
    THEN CheckFrame(output, input.addr, input.data, input.flashtype)
    ELSE output = <<>>

(***************************************************************************)
(* A device's request is parsed into its fields; one that lost a septet to *)
(* another is not taken for another request: the checksum covers every     *)
(* field, a septet spans two bytes, and only bits that no byte uses may    *)
(* differ.                                                                 *)
(***************************************************************************)
DamageNoticed ==
  Computed("request") =>
    LET request == <<input.flashtype, input.addr, input.len>> IN
    /\ output \in {<<>>, request}
    /\ Damaged(input) = DeviceRequest(input.flashtype, input.addr, input.len) => output = request

Requests(i) == Front(ExpandRequests(i.runs))

Wire == INSTANCE OtaWire WITH ImageLen <- input.size, MaxData <- MaxPayload,
          VERIFY <- input.finish, FINISH <- input.finish + 1, SuccessLen <- Len(SuccessText)

\* A request of a device, which the client answers with the bytes it asks for;
\* it may ask for none.
Served(r) ==
  /\ r.addr \in Addresses /\ r.len \in Nat /\ r.flashtype \in Bytes
  /\ ~Wire!OutOfBounds(r.addr, r.len)

Empty(r) == r.len = 0

(***************************************************************************)
(* What verify_reflash_record.py accepts the update client would have      *)
(* served: every request in bounds, as many as the stage has, and the      *)
(* completion request at the end.  What the client would have served is    *)
(* refused only if a request in it is for no bytes: the client answers     *)
(* that one, the verifier wants a length.  The client's address k is a     *)
(* byte of the package past the markers before it.                         *)
(***************************************************************************)
RecordServable ==
  /\ Computed("record") =>
       (output = <<TRUE>> <=>
         /\ \A k \in 1 .. Len(input.runs) : input.runs[k].count \in 1 .. MaxCount
         /\ Len(ExpandRequests(input.runs)) = input.expected + 1
         /\ \A r \in ToSet(Requests(input)) : Served(r) /\ ~Empty(r)
         /\ Last(ExpandRequests(input.runs))
              = [addr |-> input.finish, len |-> Len(SuccessText), flashtype |-> 0])
  /\ (Computed("package") /\ ~Truncated(input.raw)) =>
       /\ Len(output) = Len(input.raw) - Slots
       /\ \A k \in 0 .. Len(output) - 1 :
            output[k + 1] = input.raw[k + Min({k \div (SlotSize - 1), Slots}) + 1]

\* The image is the operations' literals, and repeats what is "offset" back.
Spells(image, ops) ==
  /\ Len(image) = Start(ops, Len(ops) + 1)
  /\ \A j \in 1 .. Len(ops) :
       LET from == Start(ops, j)
           behind == from + Len(ops[j].lits)
       IN /\ SubSeq(image, from + 1, behind) = ops[j].lits
          /\ \A m \in behind + 1 .. behind + ops[j].length : image[m] = image[m - ops[j].offset]

\* No operation repeats what lies before the image, or nothing.
Meant(ops) ==
  \A j \in 1 .. Len(ops) :
    ops[j].length > 0 => ops[j].offset \in 1 .. Start(ops, j) + Len(ops[j].lits)

(***************************************************************************)
(* The extracted loader is the image that its blocks spell, matches that   *)
(* overlap what they write and reach back into earlier blocks included; a  *)
(* match that reaches before the image and a container that is cut short   *)
(* are refused, and verify_all accepts the container of the right size.    *)
(***************************************************************************)
Decompressed ==
  Computed("container") =>
    LET ops == AllOperations(input.blocks) IN
    IF Meant(ops) /\ input.cut = 0
    THEN \E image \in output[1] :
           /\ output[1] = {image} /\ Spells(image, ops)
           /\ output[2] = (HeaderLen + 3 + Len(EncodedCells(input.blocks)) = Size)
    ELSE output = <<{}, FALSE>>
=============================================================================
