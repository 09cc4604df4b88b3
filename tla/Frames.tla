------------------------------- MODULE Frames -------------------------------
(***************************************************************************)
(* The byte level that OtaWire leaves out: bits packed eight to seven, the *)
(* frames of tools/fm1_ota.py with their checksum, the logical image of a  *)
(* package, and tools/verify_reflash_record.py, which checks frames field  *)
(* by field and accepts or rejects the record of a session.                *)
(*                                                                         *)
(* Bytes and septets are numbers of ByteBits and SeptetBits bits.  A       *)
(* result of <<>> stands for None and for a ValueError.                    *)
(***************************************************************************)
EXTENDS Bits

CONSTANTS
  ByteBits, SeptetBits,   \* 8 and 7 in the code
  Command,                \* 00 59 30
  LenBytes, AddrBytes,    \* 3 and 4: bytes of a length and an address
  MaxPayload,             \* MAXDATA
  MaxCount,               \* 4096: requests that a run of a record may stand for
  Slots, SlotSize,        \* 20 and 0x30: blocks of a package that end in a marker
  SuccessText             \* success\0, the payload of the last reply of a stage

Byte == Pow2[ByteBits]
Bytes == 0 .. Byte - 1
Septets == 0 .. Pow2[SeptetBits] - 1
Addresses == 0 .. Pow2[ByteBits * AddrBytes] - 1
Lens == 0 .. Pow2[ByteBits * LenBytes] - 1

\* Flash type, address and length of a body
FieldsLen == 1 + AddrBytes + LenBytes

ASSUME FramesAssumption ==
  /\ SeptetBits \in Nat \ {0} /\ ByteBits \in Nat /\ ByteBits > SeptetBits
  /\ LenBytes \in Nat \ {0} /\ AddrBytes \in Nat \ {0}
  /\ Command \in Seq(Bytes) /\ SuccessText \in Seq(Bytes)
  /\ MaxPayload \in Nat /\ MaxPayload + FieldsLen \in Lens /\ Len(SuccessText) <= MaxPayload
  /\ MaxCount \in Nat /\ Slots \in Nat /\ SlotSize \in Nat \ {0, 1}

----------------------------------------------------------------------------
(* Packing *)

\* Mutant: the bits that are left are not flushed.
PackWhole(data) == Regroup(data, ByteBits, SeptetBits).out

Pack(data) ==
  LET r == Regroup(data, ByteBits, SeptetBits)
  IN IF r.nb > 0 THEN Append(r.out, r.acc) ELSE r.out

Unpack(septets) == Regroup(septets, SeptetBits, ByteBits).out

----------------------------------------------------------------------------
(* Frames *)

SysExStart == Byte
SysExEnd == Byte + 1

\* Mutant: the last byte of the body is left out.
ChecksumShort(body) == Byte - 1 - (Sum(Front(body)) % Byte)
Checksum(body) == Byte - 1 - (Sum(body) % Byte)

SysEx(header, body) ==
  <<SysExStart>> \o Pack(header \o body \o <<Checksum(body)>>) \o <<SysExEnd>>

Fields(flashtype, addr, len) ==
  <<flashtype>> \o Digits(addr, AddrBytes, ByteBits) \o Digits(len, LenBytes, ByteBits)

BuildResponse(addr, data, len, flashtype) ==
  IF \/ len \notin 0 .. MaxPayload \/ Len(data) # len
     \/ addr \notin Addresses \/ flashtype \notin Bytes
  THEN <<>>
  ELSE SysEx(Command \o Digits(len + FieldsLen, LenBytes, ByteBits), Fields(flashtype, addr, len) \o data)

\* A device's request (external: as parse_request expects it)
DeviceRequest(flashtype, addr, len) ==
  SysEx(Command \o Digits(FieldsLen, LenBytes, ByteBits), Fields(flashtype, addr, len))

\* Byte "from" to byte "to" of a decoded frame, counted after the command
Field(u, from, to) == Number(SubSeq(u, Len(Command) + from, Len(Command) + to), ByteBits)

ParseRequest(pkt) ==
  LET u == Unpack(SubSeq(pkt, 2, Len(pkt) - 1))
      body == SubSeq(u, Len(Command) + LenBytes + 1, Len(u) - 1)
  IN IF \/ Len(pkt) < 4 \/ pkt[1] # SysExStart \/ Last(pkt) # SysExEnd
        \/ Len(u) # Len(Command) + LenBytes + FieldsLen + 1
        \/ SubSeq(u, 1, Len(Command)) # Command
        \/ Field(u, 1, LenBytes) # FieldsLen
        \/ Last(u) # Checksum(body)
     THEN <<>>
     ELSE <<body[1], Number(SubSeq(body, 2, AddrBytes + 1), ByteBits),
            Number(SubSeq(body, AddrBytes + 2, FieldsLen), ByteBits)>>

----------------------------------------------------------------------------
(* The logical image *)

Truncated(raw) == Len(raw) < Slots * SlotSize

FwscLogical(raw) ==
  FlattenSeq([k \in 1 .. Slots |-> SubSeq(raw, (k - 1) * SlotSize + 1, k * SlotSize - 1)])
    \o SubSeq(raw, Slots * SlotSize + 1, Len(raw))

----------------------------------------------------------------------------
(* verify_reflash_record.py *)

\* A run: address, length and flash type, repeated "count" times with a stride
RunIsValid(r) == 0 < r.count /\ r.count <= MaxCount

ExpandRequests(runs) ==
  FlattenSeq([k \in 1 .. Len(runs) |->
    [i \in 1 .. runs[k].count |->
      [addr |-> runs[k].addr + (i - 1) * runs[k].stride,
       len |-> runs[k].len, flashtype |-> runs[k].flashtype]]])

CheckFrame(frame, addr, data, flashtype) ==
  /\ frame # <<>> /\ frame[1] = SysExStart /\ Last(frame) = SysExEnd
  /\ \A k \in 2 .. Len(frame) - 1 : frame[k] \in Septets
  /\ LET u == Unpack(SubSeq(frame, 2, Len(frame) - 1))
         body == SubSeq(u, Len(Command) + LenBytes + 1, Len(u)) IN
     /\ SubSeq(u, 1, Len(Command)) = Command
     /\ Field(u, 1, LenBytes) = Len(u) - (Len(Command) + LenBytes + 1)
     /\ Field(u, 1, LenBytes) = Len(data) + FieldsLen
     /\ body[1] = flashtype /\ Number(SubSeq(body, 2, AddrBytes + 1), ByteBits) = addr
     /\ Number(SubSeq(body, AddrBytes + 2, FieldsLen), ByteBits) = Len(data)
     /\ SubSeq(body, FieldsLen + 1, Len(body) - 1) = data
     /\ Sum(body) % Byte = Byte - 1

\* Mutant: the end of a request is not compared.
StartInImage(r, size) == 0 <= r.addr /\ 0 < r.len /\ r.len <= MaxPayload /\ r.addr <= size

InImage(r, size) == 0 <= r.addr /\ 0 < r.len /\ r.len <= MaxPayload /\ r.addr + r.len <= size

\* One stage of a record: data requests, then the request that ends it.  With
\* the package at hand the payloads are its bytes, without they are zeros.
VerifyStage(runs, expected, finish, size, logical) ==
  LET reqs == ExpandRequests(runs) IN
  /\ \A k \in 1 .. Len(runs) : RunIsValid(runs[k])
  /\ Len(reqs) - 1 = expected
  /\ Last(reqs) = [addr |-> finish, len |-> Len(SuccessText), flashtype |-> 0]
  /\ \A r \in ToSet(Front(reqs)) :
       /\ InImage(r, size)
       /\ LET data == IF logical # <<>> THEN SubSeq(logical, r.addr + 1, r.addr + r.len)
                      ELSE [i \in 1 .. r.len |-> 0] IN
          CheckFrame(BuildResponse(r.addr, data, r.len, r.flashtype), r.addr, data, r.flashtype)
  /\ CheckFrame(BuildResponse(finish, SuccessText, Len(SuccessText), 0), finish, SuccessText, 0)
=============================================================================
