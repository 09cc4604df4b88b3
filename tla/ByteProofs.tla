----------------------------- MODULE ByteProofs -----------------------------
(***************************************************************************)
(* Proofs about ByteResults: what the algorithms of Frames and LoaderImage *)
(* compute for every input, and not only for those of the run.             *)
(*                                                                         *)
(* Unpacking undoes packing, a frame is understood by both of its readers, *)
(* and a septet that is exchanged changes two bytes at most, which the     *)
(* checksum tells.  The decoder of the loader's container gives back what  *)
(* its blocks spell, or nothing.                                           *)
(***************************************************************************)
EXTENDS ByteResults, DataProofs

----------------------------------------------------------------------------
(* Frames *)

(***************************************************************************)
(* Unpacking gives the bytes of the number that the septets spell.         *)
(***************************************************************************)
LEMMA UnpackIs ==
  ASSUME NEW s \in Seq(Septets)
  PROVE  Unpack(s) = Digits(Number(s, SeptetBits), (SeptetBits * Len(s)) \div ByteBits, ByteBits)
<1>1. SeptetBits \in Nat /\ ByteBits \in Nat \ {0}
  BY FramesAssumption
<1>2. s \in Seq(Nat)
  BY <1>1, NumberBound DEF Septets
<1>3. Regroup(s, SeptetBits, ByteBits) = Regrouped(Number(s, SeptetBits), Len(s), SeptetBits, ByteBits)
  BY <1>1, <1>2, RegroupIs
<1> QED BY <1>3 DEF Unpack, Regrouped

(***************************************************************************)
(* Packing gives the septets of the number that the bytes spell, as many   *)
(* as it needs.                                                            *)
(***************************************************************************)
LEMMA PackIs ==
  ASSUME NEW data \in Seq(Bytes)
  PROVE  \E n \in Nat :
           /\ Pack(data) = Digits(Number(data, ByteBits), n, SeptetBits)
           /\ Number(data, ByteBits) < Pow2[SeptetBits * n]
           /\ (SeptetBits * n) \div ByteBits = Len(data)
<1> DEFINE B == ByteBits
           S == SeptetBits
           L == Len(data)
           a == B * L
           k == a \div S
           nb == a % S
           v == Number(data, B)
           P == Pow2[S * k]
           h == v \div P
<1>1. S \in Nat \ {0} /\ B \in Nat \ {0} /\ S < B /\ L \in Nat
  BY FramesAssumption
<1>2. data \in Seq(Nat) /\ v \in Nat /\ v < Pow2[a]
  <2>1. data \in Seq(Nat) /\ v \in 0 .. Pow2[a] - 1
    BY <1>1, NumberBound DEF Bytes, Byte
  <2>2. a \in Nat
    BY <1>1, Products
  <2> HIDE DEF a
  <2>3. Pow2[a] \in Nat
    BY <2>2, Powers
  <2> QED BY <2>1, <2>3
<1>3. Regroup(data, B, S) = [out |-> Digits(v, k, S), acc |-> h, nb |-> nb]
  <2>1. Regroup(data, B, S) = Regrouped(v, L, B, S)
    BY <1>1, <1>2, RegroupIs
  <2> QED BY <2>1 DEF Regrouped
<1> HIDE DEF B, S, L
<1>4. a \in Nat /\ a = S * k + nb /\ nb \in 0 .. S - 1 /\ k \in Nat
  <2>1. a \in Nat
    BY <1>1, Products
  <2> HIDE DEF a
  <2>2. a = S * (a \div S) + (a % S) /\ (a % S) \in 0 .. S - 1 /\ a \div S \in Nat
    BY <1>1, <2>1, Remainders
  <2> QED BY <2>1, <2>2
<1>5. a = B * L
  OBVIOUS
<1> HIDE DEF a, k, nb, v
<1>6. S * k \in Nat
  BY <1>1, <1>4, Products
<1>7. P \in Nat \ {0} /\ h \in Nat
  BY <1>1, <1>2, <1>4, PlacePowers, Remainders
<1>8. CASE nb = 0
  <2>1. Pack(data) = Digits(v, k, S)
    BY <1>3, <1>8 DEF Pack, B, S
  <2>2. S * k = a
    BY <1>4, <1>6, <1>8
  <2>3. IsQuotient(S * k, B, L, 0)
    BY <1>1, <1>5, <1>6, <2>2 DEF IsQuotient
  <2>4. (S * k) \div B = L
    BY <2>3, Quotient
  <2>5. v < Pow2[S * k]
    BY <1>2, <2>2, Zenon
  <2> QED BY <1>4, <2>1, <2>4, <2>5 DEF B, S, L, v
<1>9. CASE nb # 0
  <2> HIDE DEF P, h
  <2>1. Pack(data) = Append(Digits(v, k, S), h)
    <3>1. nb > 0
      BY <1>4, <1>9
    <3> QED BY <1>3, <3>1 DEF Pack, B, S
  <2>2. S * (k + 1) = S * k + S /\ S * (k + 1) \in Nat /\ S * (k + 1) = B * L + (S - nb) /\ a <= S * (k + 1)
    <3>1. S * (k + 1) = S * k + S
      BY <1>1, <1>4
    <3> HIDE DEF L
    <3> QED BY <1>1, <1>4, <1>5, <1>6, <3>1
  <2>3. IsQuotient(S * (k + 1), B, L, S - nb)
    <3>1. S - nb \in Nat /\ S - nb < B
      BY <1>1, <1>4
    <3> QED BY <1>1, <2>2, <3>1 DEF IsQuotient
  <2>4. (S * (k + 1)) \div B = L
    BY <2>3, Quotient
  <2>5. v < Pow2[S * (k + 1)]
    <3> DEFINE c == S * (k + 1)
    <3>1. c \in Nat /\ a <= c
      BY <2>2
    <3> HIDE DEF c
    <3>2. Pow2[a] <= Pow2[c] /\ Pow2[a] \in Nat /\ Pow2[c] \in Nat
      BY <1>4, <3>1, PowersGrow, Powers
    <3>3. v < Pow2[c]
      BY <1>2, <3>2
    <3> QED BY <3>3 DEF c
  <2>6. h < Pow2[S] /\ Pow2[S] \in Nat \ {0}
    <3> DEFINE Q == Pow2[nb]
    <3>1. nb \in Nat /\ nb <= S
      BY <1>1, <1>4
    <3>2. Q \in Nat \ {0} /\ Pow2[S] \in Nat \ {0} /\ Q <= Pow2[S]
      BY <1>1, <3>1, Powers, PowersGrow
    <3>3. Pow2[a] = P * Q
      BY <1>4, <1>6, <3>1, PowersAdd DEF P
    <3> HIDE DEF Q
    <3>4. v = P * h + (v % P) /\ (v % P) \in 0 .. P - 1
      BY <1>2, <1>7, Remainders DEF h
    <3>5. P * h <= v /\ v < P * Q /\ P * h \in Nat /\ P * Q \in Nat
      <4>1. P * h \in Nat /\ P * Q \in Nat
        BY <1>7, <3>2, Products
      <4> QED BY <1>2, <1>7, <3>3, <3>4, <4>1
    <3>6. ASSUME h >= Q PROVE FALSE
      <4>1. PICK e \in Nat : h = Q + e
        <5>1. h - Q \in Nat /\ h = Q + (h - Q)
          BY <1>7, <3>2, <3>6
        <5> QED BY <5>1
      <4>2. P * h = P * Q + P * e /\ P * e \in Nat
        BY <1>7, <3>2, <4>1
      <4> QED BY <1>2, <3>5, <4>2
    <3> QED BY <1>7, <3>2, <3>6
  <2>7. (h % Pow2[S]) = h
    <3>1. IsQuotient(h, Pow2[S], 0, h)
      BY <1>7, <2>6 DEF IsQuotient
    <3> QED BY <3>1, Quotient
  <2>8. Digits(v, k + 1, S) = Digits(v, k, S) \o Digits(h, 1, S)
    <3>1. S \in Nat /\ 1 \in Nat /\ k \in Nat /\ v \in Nat
      BY <1>1, <1>2, <1>4
    <3>2. Digits(v, k + 1, S) = Digits(v, k, S) \o Digits(v \div Pow2[S * k], 1, S)
      BY ONLY <3>1, DigitsConcat
    <3> QED BY <3>2, Zenon DEF h, P
  <2>9. Digits(h, 1, S) = <<h>>
    BY <1>1, <1>7, <2>7, OneDigit
  <2>10. Append(Digits(v, k, S), h) = Digits(v, k, S) \o <<h>>
    <3>1. Digits(v, k, S) \in Seq(Nat)
      <4>1. 0 .. Pow2[S] - 1 \subseteq Nat
        BY <2>6
      <4> QED BY <1>1, <1>2, <1>4, <4>1, DigitsTyped, SeqMonotonic
    <3> QED BY <1>7, <3>1, AppendIsConcat
  <2>11. Pack(data) = Digits(v, k + 1, S)
    BY <2>1, <2>8, <2>9, <2>10, Zenon
  <2>12. k + 1 \in Nat
    BY <1>4
  <2> QED BY <2>4, <2>5, <2>11, <2>12 DEF B, S, L, v
<1> QED BY <1>8, <1>9

(***************************************************************************)
(* Unpacking undoes packing.                                               *)
(***************************************************************************)
THEOREM RoundTrip ==
  ASSUME NEW data \in Seq(Bytes)
  PROVE  Pack(data) \in Seq(Septets) /\ Unpack(Pack(data)) = data
<1> DEFINE v == Number(data, ByteBits)
<1>1. SeptetBits \in Nat /\ ByteBits \in Nat \ {0} /\ Len(data) \in Nat
  BY FramesAssumption
<1>2. v \in Nat
  <2>1. data \in Seq(Nat)
    BY <1>1, NumberBound DEF Bytes, Byte
  <2> QED BY <1>1, <2>1, NumberAppend
<1> HIDE DEF v
<1>3. PICK n \in Nat : /\ Pack(data) = Digits(v, n, SeptetBits) /\ v < Pow2[SeptetBits * n]
                       /\ (SeptetBits * n) \div ByteBits = Len(data)
  BY PackIs DEF v
<1>4. Pack(data) \in Seq(Septets) /\ Len(Pack(data)) = n
  BY <1>1, <1>2, <1>3, DigitsTyped DEF Septets
<1>5. Number(Pack(data), SeptetBits) = v
  BY <1>1, <1>2, <1>3, NumberOfDigits
<1>6. Unpack(Pack(data)) = Digits(v, Len(data), ByteBits)
  BY <1>3, <1>4, <1>5, UnpackIs
<1>7. Digits(v, Len(data), ByteBits) = data
  BY <1>1, DigitsOfNumber DEF v, Bytes, Byte
<1> QED BY <1>4, <1>6, <1>7

(***************************************************************************)
(* A checksum is a byte, and with it a body adds up to a fixed remainder.  *)
(***************************************************************************)
LEMMA Checksums ==
  ASSUME NEW body \in Seq(Bytes)
  PROVE  /\ Byte \in Nat \ {0} /\ body \in Seq(Nat) /\ Sum(body) \in Nat
         /\ Checksum(body) \in Bytes
         /\ (Sum(body \o <<Checksum(body)>>) % Byte) = Byte - 1
<1>1. Byte \in Nat \ {0}
  BY FramesAssumption, Powers DEF Byte
<1>2. Bytes \subseteq Nat /\ body \in Seq(Nat)
  <2>1. Bytes \subseteq Nat
    BY <1>1 DEF Bytes
  <2> QED BY <2>1, SeqMonotonic
<1> DEFINE s == Sum(body)
           c == Checksum(body)
<1>3. s \in Nat
  BY <1>2, SumAppend
<1> HIDE DEF s
<1>4. s = Byte * (s \div Byte) + (s % Byte) /\ (s % Byte) \in 0 .. Byte - 1 /\ s \div Byte \in Nat
  BY <1>1, <1>3, Remainders
<1>5. c = Byte - 1 - (s % Byte) /\ c \in Bytes /\ c \in Nat
  <2>1. c = Byte - 1 - (s % Byte)
    BY DEF Checksum, s
  <2> HIDE DEF c
  <2>2. c \in 0 .. Byte - 1
    <3>1. \A b, r : b \in Nat \ {0} /\ r \in 0 .. b - 1 => b - 1 - r \in 0 .. b - 1
      OBVIOUS
    <3>2. Byte - 1 - (s % Byte) \in 0 .. Byte - 1
      BY <1>1, <1>4, <3>1, Zenon
    <3> QED BY <2>1, <3>2, Zenon
  <2> QED BY <1>1, <2>1, <2>2 DEF Bytes
<1> HIDE DEF c
<1>6. Sum(body \o <<c>>) = s + c
  <2>1. body \o <<c>> = Append(body, c)
    BY <1>2, <1>5
  <2> QED BY <1>2, <1>5, <2>1, SumAppend DEF s
<1>7. IsQuotient(s + c, Byte, s \div Byte, Byte - 1)
  <2>1. Byte * (s \div Byte) \in Nat
    BY <1>1, <1>4, Products
  <2> QED BY <1>1, <1>3, <1>4, <1>5, <2>1 DEF IsQuotient
<1>8. ((s + c) % Byte) = Byte - 1
  BY <1>7, Quotient
<1> QED BY <1>1, <1>2, <1>3, <1>5, <1>6, <1>8 DEF s, c

(***************************************************************************)
(* A frame is septets between its two ends, and these are unpacked to the  *)
(* header, the body and the checksum.                                      *)
(***************************************************************************)
LEMMA SysExUnpacks ==
  ASSUME NEW header \in Seq(Bytes), NEW body \in Seq(Bytes)
  PROVE  LET f == SysEx(header, body)
             u == header \o body \o <<Checksum(body)>>
         IN /\ u \in Seq(Bytes) /\ Pack(u) \in Seq(Septets)
            /\ Len(f) = Len(Pack(u)) + 2 /\ f # <<>> /\ f \in Seq(Nat)
            /\ f[1] = SysExStart /\ Last(f) = SysExEnd
            /\ SubSeq(f, 2, Len(f) - 1) = Pack(u)
            /\ \A k \in 2 .. Len(f) - 1 : f[k] \in Septets
            /\ Unpack(SubSeq(f, 2, Len(f) - 1)) = u
<1> DEFINE f == SysEx(header, body)
           u == header \o body \o <<Checksum(body)>>
           p == Pack(u)
           x == SysExStart
           y == SysExEnd
<1>1. u \in Seq(Bytes)
  <2>1. Checksum(body) \in Bytes
    BY Checksums
  <2> HIDE DEF u
  <2>2. <<Checksum(body)>> \in Seq(Bytes) /\ header \o body \in Seq(Bytes)
    BY <2>1
  <2>3. (header \o body) \o <<Checksum(body)>> \in Seq(Bytes)
    BY ONLY <2>2, Joins
  <2> QED BY <2>3 DEF u
<1> HIDE DEF u
<1>2. p \in Seq(Septets) /\ Unpack(p) = u
  BY <1>1, RoundTrip
<1>3. x \in Nat /\ y \in Nat /\ Septets \subseteq Nat
  <2>1. Byte \in Nat /\ Pow2[SeptetBits] \in Nat
    BY Powers, FramesAssumption DEF Byte
  <2> QED BY <2>1 DEF SysExStart, SysExEnd, Septets
<1>4. p \in Seq(Nat)
  BY <1>2, <1>3, SeqMonotonic
<1>5. f = (<<x>> \o p) \o <<y>>
  BY DEF SysEx, u
<1> HIDE DEF p, x, y, f
<1>6. /\ f \in Seq(Nat) /\ Len(f) = Len(p) + 2 /\ f[1] = x /\ f[Len(f)] = y
      /\ \A k \in 2 .. Len(f) - 1 : f[k] = p[k - 1]
  BY <1>3, <1>4, <1>5
<1>7. Len(p) \in Nat /\ f # <<>> /\ Last(f) = y
  <2>1. Len(p) \in Nat
    BY <1>4
  <2>2. Len(<<>>) = 0
    OBVIOUS
  <2> QED BY <1>6, <2>1, <2>2 DEF Last
<1>8. SubSeq(f, 2, Len(f) - 1) = p
  <2>1. <<x>> \in Seq(Nat) /\ <<y>> \in Seq(Nat) /\ Len(<<x>>) = 1 /\ 2 = Len(<<x>>) + 1
    BY <1>3
  <2>2. Len(f) - 1 = Len(<<x>>) + Len(p)
    BY <1>6, <1>7, <2>1
  <2>3. SubSeq((<<x>> \o p) \o <<y>>, Len(<<x>>) + 1, Len(<<x>>) + Len(p)) = p
    BY <1>4, <2>1, Middle
  <2> QED BY <1>5, <2>1, <2>2, <2>3, Zenon
<1>9. \A k \in 2 .. Len(f) - 1 : f[k] \in Septets
  <2>1. \A k \in 2 .. Len(f) - 1 : k - 1 \in 1 .. Len(p)
    BY <1>6, <1>7
  <2>2. \A k \in 1 .. Len(p) : p[k] \in Septets
    BY <1>2, ElementOfSeq
  <2> QED BY <1>6, <2>1, <2>2
<1> QED BY <1>1, <1>2, <1>6, <1>7, <1>8, <1>9 DEF f, u, p, x, y

(***************************************************************************)
(* A number that fits its bytes is read back from them.                    *)
(***************************************************************************)
LEMMA ReadBack ==
  ASSUME NEW n \in Nat, NEW v \in 0 .. Pow2[ByteBits * n] - 1
  PROVE  /\ Digits(v, n, ByteBits) \in Seq(Bytes) /\ Len(Digits(v, n, ByteBits)) = n
         /\ Number(Digits(v, n, ByteBits), ByteBits) = v
<1>1. ByteBits \in Nat /\ v \in Nat /\ v < Pow2[ByteBits * n]
  <2>1. ByteBits \in Nat
    BY FramesAssumption
  <2>2. Pow2[ByteBits * n] \in Nat
    BY <2>1, PlacePowers
  <2> QED BY <2>1, <2>2
<1> QED BY <1>1, DigitsTyped, NumberOfDigits DEF Bytes, Byte

(***************************************************************************)
(* The command and the length are read back from the front of a frame.     *)
(***************************************************************************)
LEMMA HeaderSlices ==
  ASSUME NEW n \in Lens, NEW rest \in Seq(Bytes)
  PROVE  LET h == Command \o Digits(n, LenBytes, ByteBits)
             u == h \o rest
         IN /\ h \in Seq(Bytes) /\ Len(h) = Len(Command) + LenBytes
            /\ Len(u) = Len(h) + Len(rest)
            /\ SubSeq(u, 1, Len(Command)) = Command
            /\ Field(u, 1, LenBytes) = n
            /\ SubSeq(u, Len(Command) + LenBytes + 1, Len(u)) = rest
<1> DEFINE d == Digits(n, LenBytes, ByteBits)
           h == Command \o d
           u == h \o rest
           c == Len(Command)
<1>1. LenBytes \in Nat /\ Command \in Seq(Bytes) /\ c \in Nat
  BY FramesAssumption
<1>2. d \in Seq(Bytes) /\ Len(d) = LenBytes /\ Number(d, ByteBits) = n
  BY <1>1, ReadBack DEF Lens
<1> HIDE DEF d
<1>3. h \in Seq(Bytes) /\ Len(h) = c + LenBytes
  <2>1. Command \o d \in Seq(Bytes) /\ Len(Command \o d) = Len(Command) + Len(d)
    BY ONLY <1>1, <1>2, Joins
  <2> QED BY <1>2, <2>1
<1>4. SubSeq(u, 1, c) = Command
  <2>1. (Command \o d) \o rest = Command \o (d \o rest) /\ d \o rest \in Seq(Bytes)
    BY ONLY <1>1, <1>2, rest \in Seq(Bytes), Rejoins
  <2> QED BY <1>1, <2>1, TwoParts
<1>5. SubSeq(u, c + 1, c + LenBytes) = d
  BY <1>1, <1>2, Middle, Zenon
<1>6. Len(u) = Len(h) + Len(rest) /\ SubSeq(u, c + LenBytes + 1, Len(u)) = rest
  <2> HIDE DEF h
  <2>1. SubSeq(h \o rest, Len(h) + 1, Len(h \o rest)) = rest
    BY <1>3, TwoParts
  <2>2. Len(h \o rest) = Len(h) + Len(rest)
    BY ONLY <1>3, rest \in Seq(Bytes), Joins
  <2> QED BY <1>3, <2>1, <2>2, Zenon
<1> HIDE DEF u
<1>7. Field(u, 1, LenBytes) = n
  BY <1>2, <1>5 DEF Field
<1> QED BY <1>3, <1>4, <1>6, <1>7 DEF u, d

\* A body that begins with these fields
HasFields(w, flashtype, addr, len, rest) ==
  /\ Len(w) = FieldsLen + Len(rest) /\ w[1] = flashtype
  /\ Number(SubSeq(w, 2, AddrBytes + 1), ByteBits) = addr
  /\ Number(SubSeq(w, AddrBytes + 2, FieldsLen), ByteBits) = len
  /\ SubSeq(w, FieldsLen + 1, Len(w)) = rest

(***************************************************************************)
(* The fields are read back from the front of a body.                      *)
(***************************************************************************)
LEMMA FieldSlices ==
  ASSUME NEW flashtype \in Bytes, NEW addr \in Addresses, NEW len \in Lens, NEW rest \in Seq(Bytes)
  PROVE  /\ Fields(flashtype, addr, len) \in Seq(Bytes) /\ Len(Fields(flashtype, addr, len)) = FieldsLen
         /\ FieldsLen \in Nat
         /\ HasFields(Fields(flashtype, addr, len) \o rest, flashtype, addr, len, rest)
<1> DEFINE a == Digits(addr, AddrBytes, ByteBits)
           l == Digits(len, LenBytes, ByteBits)
           t == <<flashtype>>
           f == t \o a \o l
           w == f \o rest
<1>1. LenBytes \in Nat /\ AddrBytes \in Nat
  BY FramesAssumption
<1>2. a \in Seq(Bytes) /\ Len(a) = AddrBytes /\ Number(a, ByteBits) = addr
  BY <1>1, ReadBack DEF Addresses
<1>3. l \in Seq(Bytes) /\ Len(l) = LenBytes /\ Number(l, ByteBits) = len
  BY <1>1, ReadBack DEF Lens
<1>4. t \in Seq(Bytes) /\ Len(t) = 1 /\ t[1] = flashtype
  OBVIOUS
<1> HIDE DEF a, l, t
<1>5. f \in Seq(Bytes) /\ Len(f) = FieldsLen /\ FieldsLen \in Nat /\ f[1] = flashtype
  <2>1. t \o a \in Seq(Bytes) /\ Len(t \o a) = 1 + AddrBytes /\ (t \o a)[1] = flashtype
    <3>1. t \o a \in Seq(Bytes) /\ Len(t \o a) = 1 + AddrBytes
      <4>1. t \o a \in Seq(Bytes) /\ Len(t \o a) = Len(t) + Len(a)
        BY ONLY <1>2, <1>4, Joins
      <4> QED BY <1>2, <1>4, <4>1
    <3>2. (t \o a)[1] = flashtype
      <4>1. 1 \in 1 .. Len(t)
        BY <1>4
      <4>2. (t \o a)[1] = t[1]
        <5>1. t \in Seq(Bytes) /\ a \in Seq(Bytes)
          BY <1>2, <1>4
        <5> QED BY ONLY <4>1, <5>1, Joins
      <4> QED BY <1>4, <4>2
    <3> QED BY <3>1, <3>2
  <2>2. f \in Seq(Bytes) /\ Len(f) = FieldsLen /\ FieldsLen \in Nat
    <3>1. (t \o a) \o l \in Seq(Bytes) /\ Len((t \o a) \o l) = Len(t \o a) + Len(l)
      <4>1. t \o a \in Seq(Bytes) /\ l \in Seq(Bytes)
        BY <1>3, <2>1
      <4> QED BY ONLY <4>1, ConcatProperties
    <3>2. Len(t \o a) + Len(l) = FieldsLen /\ FieldsLen \in Nat
      BY <1>1, <1>3, <2>1 DEF FieldsLen
    <3> QED BY <3>1, <3>2
  <2>3. f[1] = flashtype
    <3>1. 1 \in 1 .. Len(t \o a)
      BY <1>1, <2>1
    <3>2. ((t \o a) \o l)[1] = (t \o a)[1]
      <4>1. t \o a \in Seq(Bytes) /\ l \in Seq(Bytes)
        BY <1>3, <2>1
      <4> QED BY ONLY <3>1, <4>1, Joins
    <3> QED BY <2>1, <3>2
  <2> QED BY <2>2, <2>3
<1>6. SubSeq(w, 2, AddrBytes + 1) = a
  <2>1. w = (t \o a) \o (l \o rest) /\ l \o rest \in Seq(Bytes)
    <3>1. t \o a \in Seq(Bytes)
      BY <1>2, <1>4
    <3>2. l \in Seq(Bytes) /\ rest \in Seq(Bytes)
      BY <1>3
    <3>3. \A x, y, z \in Seq(Bytes) : (x \o y) \o z = x \o (y \o z) /\ y \o z \in Seq(Bytes)
      BY ONLY ConcatAssociative, ConcatProperties
    <3> QED BY <3>1, <3>2, <3>3, Zenon
  <2>2. 2 = Len(t) + 1 /\ AddrBytes + 1 = Len(t) + Len(a)
    BY <1>1, <1>2, <1>4
  <2>3. SubSeq((t \o a) \o (l \o rest), Len(t) + 1, Len(t) + Len(a)) = a
    BY <1>2, <1>4, <2>1, Middle
  <2> HIDE DEF w
  <2> QED BY <2>1, <2>2, <2>3, Zenon
<1>7. SubSeq(w, AddrBytes + 2, FieldsLen) = l
  <2>1. t \o a \in Seq(Bytes) /\ Len(t \o a) = 1 + AddrBytes
    <3>1. t \in Seq(Bytes) /\ a \in Seq(Bytes)
      BY <1>2, <1>4
    <3>2. t \o a \in Seq(Bytes) /\ Len(t \o a) = Len(t) + Len(a)
      BY ONLY <3>1, Joins
    <3> QED BY <1>2, <1>4, <3>2
  <2>2. AddrBytes + 2 = Len(t \o a) + 1 /\ FieldsLen = Len(t \o a) + Len(l)
    BY <1>1, <1>3, <2>1 DEF FieldsLen
  <2>3. SubSeq(((t \o a) \o l) \o rest, Len(t \o a) + 1, Len(t \o a) + Len(l)) = l
    BY <1>3, <2>1, Middle
  <2> QED BY <2>2, <2>3, Zenon
<1>8. f = Fields(flashtype, addr, len)
  BY DEF Fields, f, t, a, l
<1>9. Len(w) = FieldsLen + Len(rest) /\ w[1] = flashtype /\ SubSeq(w, FieldsLen + 1, Len(w)) = rest
  <2> HIDE DEF f
  <2>1. SubSeq(f \o rest, Len(f) + 1, Len(f \o rest)) = rest
    BY <1>5, TwoParts
  <2>2. FieldsLen >= 1
    BY <1>1 DEF FieldsLen
  <2>3. 1 \in 1 .. Len(f)
    BY <1>5, <2>2
  <2>4. Len(f \o rest) = Len(f) + Len(rest) /\ (f \o rest)[1] = f[1]
    <3>1. f \in Seq(Bytes)
      BY <1>5
    <3> QED BY ONLY <2>3, <3>1, rest \in Seq(Bytes), Joins
  <2> QED BY <1>5, <2>1, <2>4, Zenon
<1>10. HasFields(w, flashtype, addr, len, rest)
  <2> HIDE DEF w
  <2> QED BY <1>2, <1>3, <1>6, <1>7, <1>9 DEF HasFields
<1> HIDE DEF f
<1> QED BY <1>5, <1>8, <1>10

(***************************************************************************)
(* A response that is built is accepted.                                   *)
(***************************************************************************)
LEMMA ResponseChecked ==
  ASSUME NEW addr \in Addresses, NEW data \in Seq(Bytes), Len(data) <= MaxPayload, NEW flashtype \in Bytes
  PROVE  CheckFrame(BuildResponse(addr, data, Len(data), flashtype), addr, data, flashtype)
<1> DEFINE len == Len(data)
           header == Command \o Digits(len + FieldsLen, LenBytes, ByteBits)
           body == Fields(flashtype, addr, len) \o data
           cs == Checksum(body)
           u == header \o body \o <<cs>>
           w == body \o <<cs>>
           f == SysEx(header, body)
           c == Len(Command)
<1>1. len \in 0 .. MaxPayload /\ len \in Lens /\ len + FieldsLen \in Lens /\ FieldsLen \in Nat
  <2>1. MaxPayload \in Nat /\ FieldsLen \in Nat /\ MaxPayload + FieldsLen \in Lens
    BY FramesAssumption DEF FieldsLen
  <2>2. Pow2[ByteBits * LenBytes] \in Nat
    BY FramesAssumption, PlacePowers
  <2> QED BY <2>1, <2>2 DEF Lens
<1>2. BuildResponse(addr, data, len, flashtype) = f
  BY <1>1 DEF BuildResponse
<1>3. body \in Seq(Bytes) /\ Len(body) = FieldsLen + len
  <2>1. Fields(flashtype, addr, len) \in Seq(Bytes) /\ Len(Fields(flashtype, addr, len)) = FieldsLen
    BY <1>1, FieldSlices
  <2> DEFINE x == Fields(flashtype, addr, len)
  <2> HIDE DEF x
  <2>2. x \in Seq(Bytes) /\ Len(x) = FieldsLen
    BY <2>1 DEF x
  <2>3. x \o data \in Seq(Bytes) /\ Len(x \o data) = Len(x) + Len(data)
    BY ONLY <2>2, data \in Seq(Bytes), Joins
  <2> QED BY <2>2, <2>3 DEF x
<1>4. cs \in Bytes /\ (Sum(w) % Byte) = Byte - 1
  BY <1>3, Checksums
<1>5. w \in Seq(Bytes) /\ Len(w) = FieldsLen + len + 1
  <2> HIDE DEF body, cs
  <2> QED BY <1>1, <1>3, <1>4
<1>6. /\ header \in Seq(Bytes) /\ Len(header) = c + LenBytes
      /\ SubSeq(header \o w, 1, c) = Command
      /\ Field(header \o w, 1, LenBytes) = len + FieldsLen
      /\ SubSeq(header \o w, c + LenBytes + 1, Len(header \o w)) = w
      /\ Len(header \o w) = Len(header) + Len(w)
  <2> HIDE DEF w, len
  <2> QED BY <1>1, <1>5, HeaderSlices
<1>7. u = header \o w
  <2> HIDE DEF header, body, cs
  <2>1. <<cs>> \in Seq(Bytes)
    BY <1>4
  <2>2. header \in Seq(Bytes) /\ body \in Seq(Bytes)
    BY <1>3, <1>6
  <2> QED BY ONLY <2>1, <2>2, ConcatAssociative
<1>8. /\ f # <<>> /\ f[1] = SysExStart /\ Last(f) = SysExEnd
      /\ \A k \in 2 .. Len(f) - 1 : f[k] \in Septets
      /\ Unpack(SubSeq(f, 2, Len(f) - 1)) = u
  <2> HIDE DEF header, body
  <2> QED BY <1>3, <1>6, SysExUnpacks
<1>9. /\ w[1] = flashtype
      /\ Number(SubSeq(w, 2, AddrBytes + 1), ByteBits) = addr
      /\ Number(SubSeq(w, AddrBytes + 2, FieldsLen), ByteBits) = len
  <2> DEFINE fields == Fields(flashtype, addr, len)
  <2>1. fields \in Seq(Bytes)
    BY <1>1, FieldSlices
  <2>2. w = fields \o (data \o <<cs>>) /\ data \o <<cs>> \in Seq(Bytes)
    <3> HIDE DEF fields, cs
    <3>1. <<cs>> \in Seq(Bytes)
      BY <1>4
    <3>2. (fields \o data) \o <<cs>> = fields \o (data \o <<cs>>)
      BY ONLY <2>1, <3>1, data \in Seq(Bytes), ConcatAssociative
    <3>3. data \o <<cs>> \in Seq(Bytes)
      BY ONLY <3>1, data \in Seq(Bytes), ConcatProperties
    <3> QED BY <3>2, <3>3 DEF fields
  <2> HIDE DEF w, len
  <2>3. HasFields(fields \o (data \o <<cs>>), flashtype, addr, len, data \o <<cs>>)
    BY <1>1, <2>2, FieldSlices
  <2> QED BY <2>2, <2>3 DEF HasFields
<1>10. SubSeq(w, FieldsLen + 1, Len(w) - 1) = data
  <2> DEFINE fields == Fields(flashtype, addr, len)
  <2>1. fields \in Seq(Bytes) /\ Len(fields) = FieldsLen
    BY <1>1, FieldSlices
  <2>2. <<cs>> \in Seq(Bytes)
    <3> HIDE DEF cs
    <3> QED BY <1>4
  <2>3. FieldsLen + 1 = Len(fields) + 1 /\ Len(w) - 1 = Len(fields) + Len(data)
    <3> HIDE DEF w, fields
    <3> QED BY <1>1, <1>5, <2>1
  <2> HIDE DEF cs, fields
  <2>4. SubSeq((fields \o data) \o <<cs>>, Len(fields) + 1, Len(fields) + Len(data)) = data
    BY <2>1, <2>2, Middle
  <2>5. w = (fields \o data) \o <<cs>>
    BY DEF fields
  <2> HIDE DEF w
  <2> QED BY <2>3, <2>4, <2>5, Zenon
<1> HIDE DEF f, u, w, header
<1>11. CheckFrame(f, addr, data, flashtype)
  <2>1. Len(u) = c + LenBytes + Len(w) /\ LenBytes \in Nat /\ c \in Nat
    BY <1>6, <1>7, FramesAssumption
  <2>2. Len(u) - (c + LenBytes + 1) = len + FieldsLen
    BY <1>1, <1>5, <2>1
  <2> HIDE DEF len
  <2> QED BY <1>4, <1>6, <1>7, <1>8, <1>9, <1>10, <2>2, Zenon DEF CheckFrame, len
<1> QED BY <1>2, <1>11

----------------------------------------------------------------------------
(* Responses *)

ByteInv == input \in ByteInputs /\ (done => output = BytesResult(input))

(***************************************************************************)
(* The output is what the algorithms make of the input, which does not     *)
(* change.                                                                 *)
(***************************************************************************)
LEMMA BytesAreResult == ByteSpec => []ByteInv
<1>1. ByteInit => ByteInv
  BY DEF ByteInit, ByteInv
<1>2. ByteInv /\ [ComputeBytes]_mapVars => ByteInv'
  <2> SUFFICES ASSUME ByteInv, [ComputeBytes]_mapVars PROVE ByteInv'
    OBVIOUS
  <2>1. CASE ComputeBytes
    BY <2>1 DEF ByteInv, ComputeBytes
  <2>2. CASE UNCHANGED mapVars
    BY <2>2 DEF ByteInv, mapVars
  <2> QED BY <2>1, <2>2
<1> QED BY <1>1, <1>2, PTL DEF ByteSpec

(***************************************************************************)
(* ResponseAccepted, for any payload, address and flash type.              *)
(***************************************************************************)
THEOREM ResponsesStayAccepted == ByteSpec => []ResponseAccepted
<1>1. ByteInv => ResponseAccepted
  <2> SUFFICES ASSUME ByteInv, Computed("response")
               PROVE  IF Len(input.data) <= MaxPayload /\ input.addr \in Addresses
                      THEN CheckFrame(output, input.addr, input.data, input.flashtype)
                      ELSE output = <<>>
    BY DEF ResponseAccepted
  <2> DEFINE data == input.data
             addr == input.addr
             flashtype == input.flashtype
  <2>1. input \in BytesOf("response") /\ output = BuildResponse(addr, data, Len(data), flashtype)
    BY DEF ByteInv, Computed, BytesOf, BytesResult
  <2>2. data \in Seq(Bytes) /\ flashtype \in Bytes /\ Len(data) \in Nat
    BY <2>1, ByteAssumption
  <2>3. MaxPayload \in Nat
    BY FramesAssumption
  <2> HIDE DEF data, addr, flashtype
  <2>4. CASE Len(data) <= MaxPayload /\ addr \in Addresses
    BY <2>1, <2>2, <2>4, ResponseChecked DEF data, addr, flashtype
  <2>5. CASE ~(Len(data) <= MaxPayload /\ addr \in Addresses)
    <3>1. Len(data) \notin 0 .. MaxPayload \/ addr \notin Addresses
      BY <2>2, <2>3, <2>5
    <3> QED BY <2>1, <2>5, <3>1 DEF BuildResponse, data, addr, flashtype
  <2> QED BY <2>4, <2>5
<1> QED BY <1>1, BytesAreResult, PTL

----------------------------------------------------------------------------
(* Damage *)

\* What parse_request makes of an unpacked frame
Recognized(u) ==
  LET body == SubSeq(u, Len(Command) + LenBytes + 1, Len(u) - 1) IN
  IF \/ Len(u) # Len(Command) + LenBytes + FieldsLen + 1
     \/ SubSeq(u, 1, Len(Command)) # Command
     \/ Field(u, 1, LenBytes) # FieldsLen
     \/ Last(u) # Checksum(body)
  THEN <<>>
  ELSE <<body[1], Number(SubSeq(body, 2, AddrBytes + 1), ByteBits),
         Number(SubSeq(body, AddrBytes + 2, FieldsLen), ByteBits)>>

(***************************************************************************)
(* A frame that is long enough and has its ends is unpacked and parsed.    *)
(***************************************************************************)
LEMMA ParsedIs ==
  ASSUME NEW pkt, Len(pkt) \in Nat, Len(pkt) >= 4, pkt[1] = SysExStart, Last(pkt) = SysExEnd
  PROVE  ParseRequest(pkt) = Recognized(Unpack(SubSeq(pkt, 2, Len(pkt) - 1)))
<1>1. ~(Len(pkt) < 4)
  OBVIOUS
<1> QED BY <1>1, Zenon DEF ParseRequest, Recognized

\* Every request begins alike, and ends in the checksum of its fields
RequestHeader == Command \o Digits(FieldsLen, LenBytes, ByteBits)
RequestBytes(body) == RequestHeader \o (body \o <<Checksum(body)>>)

(***************************************************************************)
(* That beginning, and how long it is.                                     *)
(***************************************************************************)
LEMMA RequestHeaderIs ==
  /\ FieldsLen \in Lens /\ FieldsLen \in Nat /\ LenBytes \in Nat /\ Len(Command) \in Nat
  /\ RequestHeader \in Seq(Bytes) /\ Len(RequestHeader) = Len(Command) + LenBytes
<1>1. FieldsLen \in Lens /\ FieldsLen \in Nat /\ LenBytes \in Nat /\ Command \in Seq(Bytes)
  <2>1. MaxPayload \in Nat /\ FieldsLen \in Nat /\ MaxPayload + FieldsLen \in Lens /\ LenBytes \in Nat
    BY FramesAssumption DEF FieldsLen
  <2>2. Pow2[ByteBits * LenBytes] \in Nat
    BY FramesAssumption, PlacePowers
  <2>3. FieldsLen \in Lens
    BY <2>1, <2>2 DEF Lens
  <2> QED BY <2>1, <2>3, FramesAssumption
<1>2. <<>> \in Seq(Bytes)
  OBVIOUS
<1>3. RequestHeader \in Seq(Bytes) /\ Len(RequestHeader) = Len(Command) + LenBytes
  BY <1>1, <1>2, HeaderSlices DEF RequestHeader
<1> QED BY <1>1, <1>3

(***************************************************************************)
(* An undamaged request is parsed into its fields.                         *)
(***************************************************************************)
LEMMA RequestRecognized ==
  ASSUME NEW flashtype \in Bytes, NEW addr \in Addresses, NEW len \in Lens
  PROVE  LET body == Fields(flashtype, addr, len) IN
         /\ body \in Seq(Bytes) /\ RequestBytes(body) \in Seq(Bytes)
         /\ Len(RequestBytes(body)) = Len(Command) + LenBytes + FieldsLen + 1
         /\ Recognized(RequestBytes(body)) = <<flashtype, addr, len>>
<1> DEFINE body == Fields(flashtype, addr, len)
           cs == Checksum(body)
           w == body \o <<cs>>
           u == RequestBytes(body)
           c == Len(Command)
<1>1. body \in Seq(Bytes) /\ Len(body) = FieldsLen
  <2>1. <<>> \in Seq(Bytes)
    OBVIOUS
  <2> QED BY <2>1, FieldSlices
<1>2. HasFields(body, flashtype, addr, len, <<>>)
  <2>1. <<>> \in Seq(Bytes)
    OBVIOUS
  <2>2. HasFields(body \o <<>>, flashtype, addr, len, <<>>)
    BY <2>1, FieldSlices
  <2> HIDE DEF body
  <2>3. body \o <<>> = body
    BY <1>1
  <2> QED BY <2>2, <2>3
<1> HIDE DEF body
<1>3. cs \in Bytes
  BY <1>1, Checksums
<1> HIDE DEF cs
<1>4. w \in Seq(Bytes) /\ Len(w) = FieldsLen + 1 /\ w[Len(w)] = cs
  BY <1>1, <1>3, RequestHeaderIs
<1> HIDE DEF w
<1>5. u = RequestHeader \o w
  BY DEF RequestBytes, w, cs
<1>6. /\ u \in Seq(Bytes) /\ Len(u) = c + LenBytes + FieldsLen + 1
      /\ SubSeq(u, 1, c) = Command /\ Field(u, 1, LenBytes) = FieldsLen
  <2>1. /\ Len(RequestHeader \o w) = Len(RequestHeader) + Len(w)
        /\ SubSeq(RequestHeader \o w, 1, c) = Command
        /\ Field(RequestHeader \o w, 1, LenBytes) = FieldsLen
    BY <1>4, RequestHeaderIs, HeaderSlices DEF RequestHeader
  <2>2. RequestHeader \o w \in Seq(Bytes)
    BY ONLY <1>4, RequestHeaderIs, ConcatProperties
  <2>3. Len(RequestHeader) + Len(w) = c + LenBytes + FieldsLen + 1
    BY <1>4, RequestHeaderIs
  <2> QED BY <1>5, <2>1, <2>2, <2>3, Zenon
<1>7. SubSeq(u, c + LenBytes + 1, Len(u) - 1) = body
  <2>1. <<cs>> \in Seq(Bytes) /\ RequestHeader \in Seq(Bytes)
    BY <1>3, RequestHeaderIs
  <2>2. SubSeq((RequestHeader \o body) \o <<cs>>, Len(RequestHeader) + 1, Len(RequestHeader) + Len(body)) = body
    BY ONLY <1>1, <2>1, Middle
  <2>3. (RequestHeader \o body) \o <<cs>> = RequestHeader \o (body \o <<cs>>)
    BY ONLY <1>1, <2>1, ConcatAssociative
  <2>4. Len(RequestHeader) + 1 = c + LenBytes + 1 /\ Len(RequestHeader) + Len(body) = Len(u) - 1
    <3> HIDE DEF u
    <3> QED BY <1>1, <1>6, RequestHeaderIs
  <2> HIDE DEF u
  <2> QED BY <1>5, <2>2, <2>3, <2>4, Zenon DEF w
<1>8. Last(u) = cs
  <2>1. Len(u) = Len(RequestHeader) + Len(w) /\ Len(w) \in 1 .. Len(w) /\ RequestHeader \in Seq(Bytes)
    <3> HIDE DEF u
    <3> QED BY <1>4, <1>6, RequestHeaderIs
  <2>2. (RequestHeader \o w)[Len(RequestHeader) + Len(w)] = w[Len(w)]
    BY ONLY <1>4, <2>1, Joins
  <2> HIDE DEF u
  <2> QED BY <1>4, <1>5, <2>1, <2>2, Zenon DEF Last
<1> HIDE DEF u
<1>9. Recognized(u) = <<flashtype, addr, len>>
  BY <1>2, <1>6, <1>7, <1>8, Zenon DEF Recognized, HasFields, cs
<1> QED BY <1>1, <1>6, <1>9 DEF body, u

(***************************************************************************)
(* Bytes that are parsed begin like every request, and end in a checksum.  *)
(***************************************************************************)
LEMMA RecognizedIs ==
  ASSUME NEW u \in Seq(Bytes), Recognized(u) # <<>>
  PROVE  \E body \in Seq(Bytes) : u = RequestBytes(body)
<1> DEFINE c == Len(Command)
           n == Len(u)
           l == SubSeq(u, c + 1, c + LenBytes)
           body == SubSeq(u, c + LenBytes + 1, n - 1)
<1>1. /\ n = c + LenBytes + FieldsLen + 1 /\ SubSeq(u, 1, c) = Command
      /\ Field(u, 1, LenBytes) = FieldsLen /\ Last(u) = Checksum(body)
  BY Zenon DEF Recognized
<1>2. /\ c \in Nat /\ LenBytes \in Nat /\ FieldsLen \in Nat \ {0} /\ n \in Nat
      /\ c + LenBytes \in Nat /\ c <= n /\ c + LenBytes <= n - 1 /\ n >= 1
  BY <1>1, RequestHeaderIs, FramesAssumption DEF FieldsLen
<1>3. \A k \in 1 .. n : u[k] \in Bytes
  BY ElementOfSeq
<1>4. l \in Seq(Bytes) /\ Len(l) = LenBytes /\ body \in Seq(Bytes)
  <2>1. \A k \in c + 1 .. c + LenBytes : u[k] \in Bytes
    BY <1>2, <1>3
  <2>2. \A k \in c + LenBytes + 1 .. n - 1 : u[k] \in Bytes
    BY <1>2, <1>3
  <2>3. c + 1 \in Int /\ c + LenBytes \in Int /\ c + LenBytes + 1 \in Int /\ n - 1 \in Int
    BY <1>2
  <2>4. l \in Seq(Bytes) /\ Len(l) = LenBytes
    <3> DEFINE a == c + 1
               b == c + LenBytes
    <3>1. a \in Int /\ b \in Int /\ \A k \in a .. b : u[k] \in Bytes
      BY <2>1, <2>3
    <3>2. (IF a <= b THEN b - a + 1 ELSE 0) = LenBytes
      BY <1>2
    <3>3. l = SubSeq(u, a, b)
      OBVIOUS
    <3> HIDE DEF a, b, l
    <3>4. SubSeq(u, a, b) \in Seq(Bytes) /\ Len(SubSeq(u, a, b)) = IF a <= b THEN b - a + 1 ELSE 0
      BY ONLY <3>1, SubSeqProperties
    <3> QED BY <3>2, <3>3, <3>4, Zenon
  <2>5. body \in Seq(Bytes)
    BY <2>2, <2>3, SubSeqProperties
  <2> QED BY <2>4, <2>5
<1>5. l = Digits(FieldsLen, LenBytes, ByteBits)
  <2>1. Number(l, ByteBits) = FieldsLen
    BY <1>1 DEF Field
  <2>2. ByteBits \in Nat /\ l \in Seq(0 .. Pow2[ByteBits] - 1)
    BY <1>4, FramesAssumption DEF Bytes, Byte
  <2> HIDE DEF l
  <2>3. Digits(Number(l, ByteBits), Len(l), ByteBits) = l
    BY <2>2, DigitsOfNumber
  <2> QED BY <1>4, <2>1, <2>3, Zenon
<1>6. SubSeq(u, 1, c + LenBytes) = RequestHeader
  <2>1. 1 \in 1 .. n + 1 /\ c \in 1 - 1 .. n /\ c + LenBytes \in c .. n
    BY <1>2
  <2>2. SubSeq(u, 1, c) \o SubSeq(u, c + 1, c + LenBytes) = SubSeq(u, 1, c + LenBytes)
    BY <2>1, ConcatAdjacentSubSeq
  <2> HIDE DEF n
  <2> QED BY <1>1, <1>5, <2>2, Zenon DEF RequestHeader
<1>7. SubSeq(u, c + LenBytes + 1, n) = body \o <<Checksum(body)>>
  <2>1. c + LenBytes + 1 \in 1 .. n /\ n \in c + LenBytes + 1 .. n
    BY <1>2
  <2>2. SubSeq(u, c + LenBytes + 1, n) = SubSeq(u, c + LenBytes + 1, n - 1) \o <<u[n]>>
    BY <2>1, SubSeqRecursiveSecond
  <2>3. u[n] = Checksum(body)
    BY <1>1 DEF Last
  <2> HIDE DEF n
  <2> QED BY <2>2, <2>3, Zenon
<1>8. u = SubSeq(u, 1, c + LenBytes) \o SubSeq(u, c + LenBytes + 1, n)
  <2>1. 1 \in 1 .. n + 1 /\ c + LenBytes \in 1 - 1 .. n /\ n \in c + LenBytes .. n
    BY <1>2
  <2>2. SubSeq(u, 1, c + LenBytes) \o SubSeq(u, c + LenBytes + 1, n) = SubSeq(u, 1, n)
    BY <2>1, ConcatAdjacentSubSeq
  <2>3. SubSeq(u, 1, n) = u
    BY SubSeqFull
  <2> QED BY <2>2, <2>3
<1> HIDE DEF body, n, l
<1> QED BY <1>4, <1>6, <1>7, <1>8, Zenon DEF RequestBytes

(***************************************************************************)
(* The bytes of requests have the same sum modulo a byte.                  *)
(***************************************************************************)
LEMMA RequestSums ==
  ASSUME NEW a \in Seq(Bytes), NEW b \in Seq(Bytes)
  PROVE  (Sum(RequestBytes(a)) % Byte) = (Sum(RequestBytes(b)) % Byte)
<1>1. ASSUME NEW t \in Seq(Bytes)
      PROVE  (Sum(RequestBytes(t)) % Byte) = ((Sum(RequestHeader) + (Byte - 1)) % Byte)
  <2> DEFINE cs == Checksum(t)
             w == t \o <<cs>>
             h == Sum(RequestHeader)
             q == Sum(w) \div Byte
  <2>1. Byte \in Nat \ {0} /\ cs \in Bytes /\ (Sum(w) % Byte) = Byte - 1
    BY Checksums
  <2>2. RequestHeader \in Seq(Nat) /\ w \in Seq(Nat)
    <3>1. Bytes \subseteq Nat
      BY <2>1 DEF Bytes
    <3>2. w \in Seq(Bytes)
      <4> HIDE DEF cs
      <4> QED BY <2>1
    <3> HIDE DEF w
    <3>3. w \in Seq(Nat)
      BY ONLY <3>1, <3>2, SeqMonotonic
    <3>4. RequestHeader \in Seq(Nat)
      BY ONLY <3>1, RequestHeaderIs, SeqMonotonic
    <3> QED BY <3>3, <3>4
  <2> HIDE DEF w
  <2>3. Sum(RequestHeader \o w) = h + Sum(w) /\ h \in Nat /\ Sum(w) \in Nat
    BY ONLY <2>2, SumConcat, SumAppend
  <2>4. Sum(w) = Byte * q + (Byte - 1) /\ q \in Nat
    <3>1. Sum(w) = Byte * (Sum(w) \div Byte) + (Sum(w) % Byte) /\ Sum(w) \div Byte \in Nat
      BY <2>1, <2>3, Remainders
    <3> QED BY <2>1, <3>1
  <2> HIDE DEF h, q
  <2>5. IsShifted(h + Sum(w), h + (Byte - 1), Byte, q)
    <3>1. Byte * q \in Nat
      BY <2>1, <2>4
    <3> QED BY <2>1, <2>3, <2>4, <3>1 DEF IsShifted
  <2>6. ((h + Sum(w)) % Byte) = ((h + (Byte - 1)) % Byte)
    BY <2>5, AddMultiple
  <2> QED BY <2>3, <2>6 DEF RequestBytes, w, h
<1> QED BY <1>1

(***************************************************************************)
(* A request of which a septet was exchanged is parsed into its fields, or *)
(* not at all.                                                             *)
(***************************************************************************)
LEMMA DamagedParsed ==
  ASSUME NEW flashtype \in Bytes, NEW addr \in Addresses, NEW len \in Lens,
         NEW i \in 2 .. Len(DeviceRequest(flashtype, addr, len)) - 1, NEW q \in Septets
  PROVE  LET f == DeviceRequest(flashtype, addr, len)
             request == <<flashtype, addr, len>>
         IN /\ ParseRequest(f) = request
            /\ ParseRequest([f EXCEPT ![i] = q]) \in {<<>>, request}
<1> DEFINE f == DeviceRequest(flashtype, addr, len)
           g == [f EXCEPT ![i] = q]
           request == <<flashtype, addr, len>>
           body == Fields(flashtype, addr, len)
           u == RequestBytes(body)
           p == Pack(u)
           r == [p EXCEPT ![i - 1] = q]
           n == (SeptetBits * Len(p)) \div ByteBits
<1>1. body \in Seq(Bytes) /\ u \in Seq(Bytes) /\ Len(u) >= 3 /\ Recognized(u) = request
  <2>1. Len(u) = Len(Command) + LenBytes + FieldsLen + 1
    BY RequestRecognized
  <2>2. LenBytes >= 1 /\ FieldsLen >= 1 /\ Len(Command) >= 0 /\ LenBytes \in Nat /\ FieldsLen \in Nat /\ Len(Command) \in Nat
    BY RequestHeaderIs, FramesAssumption DEF FieldsLen
  <2> QED BY <2>1, <2>2, RequestRecognized
<1>2. f = SysEx(RequestHeader, body)
  BY DEF DeviceRequest, RequestHeader
<1> HIDE DEF body
<1>3. /\ f \in Seq(Nat) /\ Len(f) = Len(p) + 2 /\ f[1] = SysExStart /\ Last(f) = SysExEnd
      /\ p \in Seq(Septets) /\ SubSeq(f, 2, Len(f) - 1) = p /\ Unpack(p) = u
  <2>1. RequestHeader \in Seq(Bytes)
    BY RequestHeaderIs
  <2>2. (RequestHeader \o body) \o <<Checksum(body)>> = u
    <3>1. <<Checksum(body)>> \in Seq(Bytes)
      <4>1. Checksum(body) \in Bytes
        BY <1>1, Checksums
      <4> QED BY <4>1
    <3> QED BY ONLY <1>1, <2>1, <3>1, ConcatAssociative DEF RequestBytes, u
  <2> HIDE DEF f, u
  <2> QED BY <1>1, <1>2, <2>1, <2>2, SysExUnpacks
<1> HIDE DEF f, u, p
<1>4. /\ i - 1 \in 1 .. Len(p) /\ Len(p) \in Nat /\ i \in Nat
      /\ ByteBits \in Nat \ {0} /\ SeptetBits \in Nat \ {0} /\ SeptetBits < ByteBits
  BY <1>3, FramesAssumption DEF f
<1>5. u = Digits(Number(p, SeptetBits), n, ByteBits) /\ n \in Nat
  <2>1. Unpack(p) = Digits(Number(p, SeptetBits), n, ByteBits)
    BY <1>3, UnpackIs
  <2>2. SeptetBits * Len(p) \in Nat
    BY <1>4, Products
  <2> QED BY <1>3, <1>4, <2>1, <2>2, Remainders
<1>6. Len(p) >= 2
  <2>1. p \in Seq(Nat) /\ Number(p, SeptetBits) \in Nat
    <3>1. p \in Seq(0 .. Pow2[SeptetBits] - 1)
      BY <1>3 DEF Septets
    <3>2. p \in Seq(Nat)
      BY <1>4, <3>1, NumberBound
    <3> QED BY <1>4, <3>2, NumberAppend
  <2>2. Len(u) = n
    <3> HIDE DEF n
    <3> QED BY <1>4, <1>5, <2>1, DigitsTyped
  <2>3. SUFFICES ASSUME Len(p) < 2 PROVE FALSE
    BY <1>4
  <2>4. SeptetBits * Len(p) < ByteBits /\ SeptetBits * Len(p) \in Nat
    <3>1. CASE Len(p) = 0
      BY <1>4, <3>1
    <3>2. CASE Len(p) = 1
      BY <1>4, <3>2
    <3> QED BY <1>4, <2>3, <3>1, <3>2
  <2>5. IsQuotient(SeptetBits * Len(p), ByteBits, 0, SeptetBits * Len(p))
    BY <1>4, <2>4 DEF IsQuotient
  <2>6. n = 0
    BY <2>5, Quotient
  <2> QED BY <1>1, <2>2, <2>6
<1>7. ParseRequest(f) = request
  <2>1. Len(f) \in Nat /\ Len(f) >= 4
    BY <1>3, <1>4, <1>6
  <2>2. ParseRequest(f) = Recognized(Unpack(SubSeq(f, 2, Len(f) - 1)))
    BY <1>3, <2>1, ParsedIs
  <2> QED BY <1>1, <1>3, <2>2, Zenon
<1>8. /\ r \in Seq(Septets) /\ Len(r) = Len(p)
      /\ Agree(Number(p, SeptetBits), Number(r, SeptetBits), SeptetBits * ((i - 1) - 1), SeptetBits)
  <2>1. p \in Seq(0 .. Pow2[SeptetBits] - 1) /\ q \in 0 .. Pow2[SeptetBits] - 1
    BY <1>3 DEF Septets
  <2> QED BY <1>4, <2>1, DamagedNumber DEF Septets
<1> HIDE DEF r
<1>9. ParseRequest(g) = Recognized(Unpack(r))
  <2>1. /\ g \in Seq(Nat) /\ Len(g) = Len(f) /\ g[i] = q
        /\ \A k \in (1 .. Len(f)) \ {i} : g[k] = f[k]
    <3>1. q \in Nat
      <4>1. Pow2[SeptetBits] \in Nat
        BY <1>4, Powers
      <4> QED BY <4>1 DEF Septets
    <3> QED BY <1>3, <1>4, <3>1
  <2> HIDE DEF g
  <2>2. /\ Len(g) \in Nat /\ Len(g) >= 4 /\ g[1] = SysExStart /\ Last(g) = SysExEnd
    <3>1. Len(f) \in Nat /\ Len(f) >= 4 /\ 1 \in (1 .. Len(f)) \ {i} /\ Len(f) \in (1 .. Len(f)) \ {i}
      BY <1>3, <1>4, <1>6
    <3> QED BY <1>3, <2>1, <3>1 DEF Last
  <2>3. SubSeq(g, 2, Len(g) - 1) = r
    <3> DEFINE s == SubSeq(g, 2, Len(g) - 1)
               t == SubSeq(f, 2, Len(f) - 1)
               m == Len(f) - 1
    <3>1. m \in Int /\ 2 \in Int /\ 2 <= m /\ m - 2 + 1 = Len(p) /\ m = Len(p) + 1
      BY <1>3, <1>4, <1>6
    <3>2. \A k \in 2 .. m : f[k] \in Nat /\ g[k] \in Nat
      <4>1. \A k \in 2 .. m : k \in 1 .. Len(f) /\ k \in 1 .. Len(g)
        <5>1. Len(f) \in Nat /\ Len(g) = Len(f)
          BY <1>3, <1>4, <2>1
        <5> QED BY ONLY <5>1 DEF m
      <4> QED BY <1>3, <2>1, <4>1, ElementOfSeq
    <3> HIDE DEF m
    <3>3. /\ SubSeq(g, 2, m) \in Seq(Nat) /\ Len(SubSeq(g, 2, m)) = IF 2 <= m THEN m - 2 + 1 ELSE 0
          /\ \A k \in 1 .. m - 2 + 1 : SubSeq(g, 2, m)[k] = g[2 + k - 1]
      BY ONLY <3>1, <3>2, SubSeqProperties
    <3>4. \A k \in 1 .. m - 2 + 1 : SubSeq(f, 2, m)[k] = f[2 + k - 1]
      BY ONLY <3>1, <3>2, SubSeqProperties
    <3>5. s = SubSeq(g, 2, m) /\ p = SubSeq(f, 2, m)
      BY <1>3, <2>1 DEF m
    <3> HIDE DEF s
    <3>6. s \in Seq(Nat) /\ Len(s) = Len(p)
      BY <3>1, <3>3, <3>5
    <3>7. r \in Seq(Nat)
      <4>1. Septets \subseteq Nat
        <5>1. Pow2[SeptetBits] \in Nat
          BY <1>4, Powers
        <5> QED BY <5>1 DEF Septets
      <4> QED BY ONLY <1>8, <4>1, SeqMonotonic
    <3>8. ASSUME NEW k \in 1 .. Len(s) PROVE s[k] = r[k]
      <4>1. k \in 1 .. m - 2 + 1 /\ 2 + k - 1 = k + 1 /\ k + 1 \in 1 .. Len(f) /\ k \in 1 .. Len(p) /\ k \in Nat
        BY <1>3, <1>4, <3>1, <3>6
      <4>2. s[k] = g[k + 1] /\ p[k] = f[k + 1]
        BY <3>3, <3>4, <3>5, <4>1, Zenon
      <4>3. r[k] = IF k = i - 1 THEN q ELSE p[k]
        <5>1. DOMAIN p = 1 .. Len(p)
          BY <1>3
        <5> QED BY <4>1, <5>1 DEF r
      <4>4. CASE k = i - 1
        <5>1. k + 1 = i
          BY <1>4, <4>4
        <5> QED BY <2>1, <4>2, <4>3, <4>4, <5>1, Zenon
      <4>5. CASE k # i - 1
        <5>1. k + 1 \in (1 .. Len(f)) \ {i}
          BY <1>4, <4>1, <4>5
        <5> QED BY <2>1, <4>2, <4>3, <4>5, <5>1, Zenon
      <4> QED BY <4>4, <4>5
    <3>9. s = r
      BY <1>8, <3>6, <3>7, <3>8, SeqEqual
    <3> QED BY <3>9 DEF s
  <2>4. ParseRequest(g) = Recognized(Unpack(SubSeq(g, 2, Len(g) - 1)))
    BY <2>2, ParsedIs
  <2> QED BY <2>3, <2>4, Zenon
<1>10. CASE Recognized(Unpack(r)) = <<>>
  BY <1>7, <1>9, <1>10 DEF f, g
<1>11. CASE Recognized(Unpack(r)) # <<>>
  <2> DEFINE v == Number(p, SeptetBits)
             x == Number(r, SeptetBits)
  <2>1. v \in Nat /\ x \in Nat
    <3>1. p \in Seq(0 .. Pow2[SeptetBits] - 1) /\ r \in Seq(0 .. Pow2[SeptetBits] - 1)
      BY <1>3, <1>8 DEF Septets
    <3>2. p \in Seq(Nat) /\ r \in Seq(Nat)
      BY <1>4, <3>1, NumberBound
    <3> QED BY <1>4, <3>2, NumberAppend
  <2>2. Unpack(r) = Digits(x, n, ByteBits)
    BY <1>8, UnpackIs
  <2> HIDE DEF v, x, n
  <2>3. Unpack(r) \in Seq(Bytes)
    <3>1. Digits(x, n, ByteBits) \in Seq(0 .. Pow2[ByteBits] - 1)
      BY <1>4, <1>5, <2>1, DigitsTyped
    <3> QED BY <2>2, <3>1 DEF Bytes, Byte
  <2>4. PICK y \in Seq(Bytes) : Unpack(r) = RequestBytes(y)
    BY <1>11, <2>3, RecognizedIs
  <2>5. (Sum(Digits(v, n, ByteBits)) % Pow2[ByteBits]) = (Sum(Digits(x, n, ByteBits)) % Pow2[ByteBits])
    <3>1. (Sum(RequestBytes(body)) % Byte) = (Sum(RequestBytes(y)) % Byte)
      BY <1>1, RequestSums
    <3>2. Digits(v, n, ByteBits) = RequestBytes(body) /\ Digits(x, n, ByteBits) = RequestBytes(y)
      BY <1>5, <2>2, <2>4 DEF u, v
    <3> QED BY <3>1, <3>2, Zenon DEF Byte
  <2>6. Digits(v, n, ByteBits) = Digits(x, n, ByteBits)
    <3> DEFINE k == SeptetBits * ((i - 1) - 1)
    <3>1. k \in Nat /\ Agree(v, x, k, SeptetBits)
      <4>1. (i - 1) - 1 \in Nat
        BY <1>4
      <4>2. k \in Nat
        BY <1>4, <4>1, Products
      <4> QED BY <1>8, <4>2 DEF v, x
    <3> HIDE DEF k
    <3> QED BY <1>4, <1>5, <2>1, <2>5, <3>1, SumTells
  <2>7. Unpack(r) = u
    BY <1>5, <2>2, <2>6 DEF v
  <2> QED BY <1>1, <1>7, <1>9, <2>7 DEF f, g
<1> QED BY <1>10, <1>11

(***************************************************************************)
(* DamageNoticed, for any request, any of its septets and any septet.      *)
(***************************************************************************)
THEOREM DamageStaysNoticed == ByteSpec => []DamageNoticed
<1>1. ByteInv => DamageNoticed
  <2> DEFINE request == <<input.flashtype, input.addr, input.len>>
             f == DeviceRequest(input.flashtype, input.addr, input.len)
  <2> SUFFICES ASSUME ByteInv, Computed("request")
               PROVE  output \in {<<>>, request} /\ (Damaged(input) = f => output = request)
    BY DEF DamageNoticed
  <2>1. input \in BytesOf("request") /\ output = ParseRequest(Damaged(input))
    BY DEF ByteInv, Computed, BytesOf, BytesResult
  <2>2. /\ input.flashtype \in Bytes /\ input.addr \in Addresses /\ input.len \in Lens
        /\ input.septet \in Septets /\ input.place \in 2 .. Len(f) - 1
    BY <2>1, ByteAssumption
  <2>3. Damaged(input) = [f EXCEPT ![input.place] = input.septet]
    BY DEF Damaged
  <2>4. ParseRequest(f) = request /\ ParseRequest([f EXCEPT ![input.place] = input.septet]) \in {<<>>, request}
    BY <2>2, DamagedParsed
  <2> QED BY <2>1, <2>3, <2>4, Zenon
<1> QED BY <1>1, BytesAreResult, PTL

----------------------------------------------------------------------------
(* Records *)

Request == [addr : Int, len : Int, flashtype : Int]

(***************************************************************************)
(* Runs stand for requests.                                                *)
(***************************************************************************)
LEMMA ExpandedTyped ==
  ASSUME NEW runs \in Seq(Runs)
  PROVE  ExpandRequests(runs) \in Seq(Request)
<1> DEFINE n == Len(runs)
           one(k) == [i \in 1 .. runs[k].count |->
                        [addr |-> runs[k].addr + (i - 1) * runs[k].stride,
                         len |-> runs[k].len, flashtype |-> runs[k].flashtype]]
<1>1. n \in Nat /\ \A k \in 1 .. n : runs[k] \in Runs
  BY ElementOfSeq
<1>2. ASSUME NEW k \in 1 .. n PROVE one(k) \in Seq(Request)
  <2> DEFINE r == runs[k]
             m == IF r.count > 0 THEN r.count ELSE 0
  <2>1. r.addr \in Int /\ r.len \in Int /\ r.flashtype \in Int /\ r.count \in Int /\ r.stride \in Int
    BY <1>1 DEF Runs
  <2> HIDE DEF r
  <2>2. m \in Nat /\ 1 .. r.count = 1 .. m
    BY <2>1
  <2>3. \A i \in 1 .. m : [addr |-> r.addr + (i - 1) * r.stride, len |-> r.len, flashtype |-> r.flashtype] \in Request
    <3> TAKE i \in 1 .. m
    <3>1. i - 1 \in Int
      BY <2>2
    <3>2. (i - 1) * r.stride \in Int
      BY <2>1, <3>1
    <3>3. r.addr + (i - 1) * r.stride \in Int
      BY <2>1, <3>2
    <3> QED BY <2>1, <3>3 DEF Request
  <2> HIDE DEF m
  <2>4. [i \in 1 .. m |-> [addr |-> r.addr + (i - 1) * r.stride, len |-> r.len, flashtype |-> r.flashtype]] \in Seq(Request)
    BY <2>2, <2>3
  <2> QED BY <2>2, <2>4 DEF r
<1> HIDE DEF one, n
<1>3. [k \in 1 .. n |-> one(k)] \in Seq(Seq(Request))
  BY <1>1, <1>2
<1>4. FlattenSeq([k \in 1 .. n |-> one(k)]) \in Seq(Request)
  BY <1>3, FlattenUnfolds
<1> QED BY <1>4 DEF ExpandRequests, n, one

(***************************************************************************)
(* A request is answered with a frame that is accepted exactly if the      *)
(* update client serves it and it is for some bytes.                       *)
(***************************************************************************)
LEMMA RequestServed ==
  ASSUME ByteInv, Computed("record"), NEW r \in Request
  PROVE  LET logical == input.logical
             data == IF logical # <<>> THEN SubSeq(logical, r.addr + 1, r.addr + r.len)
                     ELSE [i \in 1 .. r.len |-> 0]
         IN /\ InImage(r, input.size)
            /\ CheckFrame(BuildResponse(r.addr, data, r.len, r.flashtype), r.addr, data, r.flashtype)
            <=> Served(r) /\ ~Empty(r)
<1> DEFINE logical == input.logical
           size == input.size
           data == IF logical # <<>> THEN SubSeq(logical, r.addr + 1, r.addr + r.len)
                   ELSE [i \in 1 .. r.len |-> 0]
           frame == BuildResponse(r.addr, data, r.len, r.flashtype)
           checked == CheckFrame(frame, r.addr, data, r.flashtype)
<1>1. size \in Nat /\ logical \in Seq(Bytes) /\ Len(logical) \in {0, size}
  BY ByteAssumption DEF ByteInv, Computed, BytesOf
<1>2. r.addr \in Int /\ r.len \in Int /\ r.flashtype \in Int
  BY DEF Request
<1>3. MaxPayload \in Nat /\ 0 \in Bytes /\ Addresses \subseteq Nat
  <2>1. Byte \in Nat \ {0} /\ Pow2[ByteBits * AddrBytes] \in Nat
    BY FramesAssumption, Powers, PlacePowers DEF Byte
  <2> QED BY <2>1, FramesAssumption DEF Bytes, Addresses
<1>4. ASSUME InImage(r, size), checked PROVE Served(r) /\ ~Empty(r)
  <2>1. frame # <<>>
    BY <1>4 DEF CheckFrame
  <2>2. r.addr \in Addresses /\ r.flashtype \in Bytes
    BY <2>1, Zenon DEF BuildResponse
  <2>3. 0 < r.len /\ r.len <= MaxPayload /\ r.addr + r.len <= size
    BY <1>4 DEF InImage
  <2>4. r.len \in Nat \ {0} /\ ~(r.len > MaxPayload \/ r.addr > size \/ r.addr + r.len > size)
    BY <1>1, <1>2, <1>3, <2>2, <2>3
  <2> QED BY <2>2, <2>4 DEF Served, Empty, Wire!OutOfBounds
<1>5. ASSUME Served(r), ~Empty(r) PROVE InImage(r, size) /\ checked
  <2>1. /\ r.addr \in Addresses /\ r.len \in Nat \ {0} /\ r.flashtype \in Bytes
        /\ ~(r.len > MaxPayload \/ r.addr > size \/ r.addr + r.len > size)
    <3>1. r.len # 0
      BY <1>5 DEF Empty
    <3>2. /\ r.addr \in Addresses /\ r.len \in Nat /\ r.flashtype \in Bytes
          /\ ~(r.len > MaxPayload \/ r.addr > size \/ r.addr + r.len > size)
      BY <1>5 DEF Served, Wire!OutOfBounds
    <3> QED BY <3>1, <3>2
  <2>2. r.addr \in Nat /\ r.len <= MaxPayload /\ r.addr + r.len <= size /\ 0 < r.len
    BY <1>1, <1>2, <1>3, <2>1
  <2>3. InImage(r, size)
    BY <2>2 DEF InImage
  <2>4. data \in Seq(Bytes) /\ Len(data) = r.len
    <3>1. CASE logical = <<>>
      <4>1. [i \in 1 .. r.len |-> 0] \in Seq(Bytes) /\ Len([i \in 1 .. r.len |-> 0]) = r.len
        BY <1>3, <2>1
      <4> QED BY <3>1, <4>1, Zenon
    <3>2. CASE logical # <<>>
      <4> DEFINE a == r.addr + 1
                 b == r.addr + r.len
      <4>1. Len(logical) = size
        BY <1>1, <3>2, EmptySeq
      <4>2. a \in Int /\ b \in Int /\ a <= b /\ b - a + 1 = r.len
        BY <1>2, <2>1, <2>2
      <4>3. \A k \in a .. b : logical[k] \in Bytes
        <5>1. \A k \in a .. b : k \in 1 .. Len(logical)
          BY <1>1, <2>1, <2>2, <4>1
        <5> QED BY <1>1, <5>1, ElementOfSeq
      <4>4. data = SubSeq(logical, a, b)
        BY <3>2
      <4> HIDE DEF a, b, data, logical
      <4>5. SubSeq(logical, a, b) \in Seq(Bytes) /\ Len(SubSeq(logical, a, b)) = IF a <= b THEN b - a + 1 ELSE 0
        BY ONLY <4>2, <4>3, SubSeqProperties
      <4> QED BY <4>2, <4>4, <4>5, Zenon
    <3> QED BY <3>1, <3>2
  <2> HIDE DEF data
  <2>5. CheckFrame(BuildResponse(r.addr, data, Len(data), r.flashtype), r.addr, data, r.flashtype)
    <3>1. Len(data) <= MaxPayload
      BY <2>2, <2>4
    <3> QED BY <2>1, <2>4, <3>1, ResponseChecked
  <2> QED BY <2>3, <2>4, <2>5, Zenon
<1> QED BY <1>4, <1>5

(***************************************************************************)
(* RecordServable, of a record.                                            *)
(***************************************************************************)
LEMMA RecordAccepted ==
  ASSUME ByteInv, Computed("record")
  PROVE  output = <<TRUE>> <=>
           /\ \A k \in 1 .. Len(input.runs) : input.runs[k].count \in 1 .. MaxCount
           /\ Len(ExpandRequests(input.runs)) = input.expected + 1
           /\ \A r \in ToSet(Requests(input)) : Served(r) /\ ~Empty(r)
           /\ Last(ExpandRequests(input.runs))
                = [addr |-> input.finish, len |-> Len(SuccessText), flashtype |-> 0]
<1> DEFINE runs == input.runs
           expected == input.expected
           finish == input.finish
           logical == input.logical
           size == input.size
           reqs == ExpandRequests(runs)
           stage == VerifyStage(runs, expected, finish, size, logical)
           Data(r) == IF logical # <<>> THEN SubSeq(logical, r.addr + 1, r.addr + r.len)
                      ELSE [i \in 1 .. r.len |-> 0]
           answered(r) == InImage(r, size) /\ CheckFrame(BuildResponse(r.addr, Data(r), r.len, r.flashtype), r.addr, Data(r), r.flashtype)
           last == [addr |-> finish, len |-> Len(SuccessText), flashtype |-> 0]
<1>1. input \in BytesOf("record") /\ output = <<stage>>
  BY DEF ByteInv, Computed, BytesOf, BytesResult
<1>2. runs \in Seq(Runs) /\ expected \in Nat /\ finish \in Addresses
  BY <1>1, ByteAssumption
<1>3. reqs \in Seq(Request) /\ Len(reqs) \in Nat
  BY <1>2, ExpandedTyped
<1>4. \A r \in ToSet(Front(reqs)) : answered(r) <=> Served(r) /\ ~Empty(r)
  <2>1. \A k \in 1 .. Len(reqs) - 1 : reqs[k] \in Request
    BY <1>3, ElementOfSeq
  <2>2. 1 \in Int /\ Len(reqs) - 1 \in Int
    BY <1>3
  <2> HIDE DEF reqs
  <2>3. Front(reqs) \in Seq(Request)
    BY <2>1, <2>2, SubSeqProperties DEF Front
  <2>4. ToSet(Front(reqs)) \subseteq Request
    <3> DEFINE s == Front(reqs)
    <3> HIDE DEF s
    <3>1. s \in Seq(Request)
      BY <2>3 DEF s
    <3>2. \A k \in DOMAIN s : s[k] \in Request
      BY <3>1
    <3>3. ToSet(s) \subseteq Request
      BY <3>2 DEF ToSet
    <3> QED BY <3>3 DEF s
  <2>5. ASSUME NEW r \in Request PROVE answered(r) <=> Served(r) /\ ~Empty(r)
    BY RequestServed, Zenon
  <2> HIDE DEF answered
  <2> QED BY <2>4, <2>5
<1>5. CheckFrame(BuildResponse(finish, SuccessText, Len(SuccessText), 0), finish, SuccessText, 0)
  <2>1. 0 \in Bytes
    <3>1. Byte \in Nat \ {0}
      BY FramesAssumption, Powers DEF Byte
    <3> QED BY <3>1 DEF Bytes
  <2>2. SuccessText \in Seq(Bytes) /\ Len(SuccessText) <= MaxPayload
    BY FramesAssumption
  <2> QED BY <1>2, <2>1, <2>2, ResponseChecked
<1>6. \A k \in 1 .. Len(runs) : RunIsValid(runs[k]) <=> runs[k].count \in 1 .. MaxCount
  <2> TAKE k \in 1 .. Len(runs)
  <2>1. runs[k] \in Runs
    BY <1>2, ElementOfSeq
  <2>2. runs[k].count \in Int /\ MaxCount \in Nat
    BY <2>1, FramesAssumption DEF Runs
  <2> QED BY <2>2 DEF RunIsValid
<1>7. Len(reqs) - 1 = expected <=> Len(reqs) = expected + 1
  <2> HIDE DEF reqs
  <2> QED BY <1>2, <1>3
<1>8. stage <=> /\ \A k \in 1 .. Len(runs) : RunIsValid(runs[k])
                /\ Len(reqs) - 1 = expected /\ Last(reqs) = last
                /\ \A r \in ToSet(Front(reqs)) : answered(r)
                /\ CheckFrame(BuildResponse(finish, SuccessText, Len(SuccessText), 0), finish, SuccessText, 0)
  BY Zenon DEF VerifyStage
<1>9. stage \in BOOLEAN
  BY Zenon DEF VerifyStage
<1> HIDE DEF stage, answered, reqs, last
<1>10. output = <<TRUE>> <=> stage
  BY <1>1, <1>9
<1>11. \A r \in ToSet(Requests(input)) : answered(r) <=> Served(r) /\ ~Empty(r)
  BY <1>4, Zenon DEF Requests, reqs, runs
<1>12. stage <=> /\ \A k \in 1 .. Len(runs) : runs[k].count \in 1 .. MaxCount
                 /\ Len(reqs) = expected + 1
                 /\ \A r \in ToSet(Front(reqs)) : Served(r) /\ ~Empty(r)
                 /\ Last(reqs) = last
  BY <1>4, <1>5, <1>6, <1>7, <1>8, Zenon
<1> QED BY <1>10, <1>12, Zenon DEF Requests, reqs, last

----------------------------------------------------------------------------
(* Packages *)

(***************************************************************************)
(* RecordServable, of a package: the markers are left out.                 *)
(***************************************************************************)
LEMMA MarkersLeftOut ==
  ASSUME NEW raw \in Seq(Nat), ~Truncated(raw)
  PROVE  /\ Len(FwscLogical(raw)) = Len(raw) - Slots
         /\ \A k \in 0 .. Len(FwscLogical(raw)) - 1 :
              FwscLogical(raw)[k + 1] = raw[k + Min({k \div (SlotSize - 1), Slots}) + 1]
<1> DEFINE m == SlotSize - 1
           n == Len(raw)
           M == Slots * SlotSize
           block(k) == SubSeq(raw, (k - 1) * SlotSize + 1, k * SlotSize - 1)
           ss == [k \in 1 .. Slots |-> block(k)]
           front == FlattenSeq(ss)
           behind == SubSeq(raw, M + 1, n)
           out == front \o behind
<1>1. /\ m \in Nat \ {0} /\ SlotSize = m + 1 /\ Slots \in Nat /\ n \in Nat /\ M \in Nat /\ M <= n
      /\ \A k \in 1 .. n : raw[k] \in Nat
  <2>1. SlotSize \in Nat \ {0, 1} /\ Slots \in Nat /\ n \in Nat
    BY FramesAssumption
  <2>2. M \in Nat
    BY <2>1, Products
  <2>3. ~(n < M)
    BY DEF Truncated
  <2>4. m \in Nat \ {0} /\ SlotSize = m + 1
    BY <2>1
  <2> QED BY <2>1, <2>2, <2>3, <2>4, ElementOfSeq
<1> HIDE DEF m, n, M
<1>2. ASSUME NEW k \in 1 .. Slots
      PROVE  block(k) \in Seq(Nat) /\ Len(block(k)) = m /\ \A i \in 1 .. m : block(k)[i] = raw[SlotSize * (k - 1) + i]
  <2> DEFINE z == SlotSize * (k - 1)
             a == (k - 1) * SlotSize + 1
             b == k * SlotSize - 1
  <2>1. z \in Nat /\ a = z + 1 /\ b = z + m /\ z + SlotSize <= M
    <3>1. k - 1 \in Nat /\ k \in Nat
      BY <1>1
    <3>2. z \in Nat /\ (k - 1) * SlotSize = z /\ k * SlotSize = z + SlotSize
      BY <1>1, <3>1
    <3>3. PICK e \in Nat : Slots = k + e
      <4>1. Slots - k \in Nat /\ Slots = k + (Slots - k)
        BY <1>1
      <4> QED BY <4>1
    <3>4. (k + e) * SlotSize = k * SlotSize + e * SlotSize /\ e * SlotSize \in Nat /\ k * SlotSize \in Nat
      BY <1>1, <3>1
    <3>5. M = k * SlotSize + e * SlotSize
      BY <3>3, <3>4, Zenon DEF M
    <3>6. z + SlotSize <= M
      BY <1>1, <3>2, <3>4, <3>5
    <3> HIDE DEF z
    <3> QED BY <1>1, <3>2, <3>6
  <2>2. block(k) = SubSeq(raw, a, b)
    OBVIOUS
  <2> HIDE DEF z, a, b
  <2>3. a \in Int /\ b \in Int /\ a <= b /\ b - a + 1 = m
    BY <1>1, <2>1
  <2>4. \A i \in a .. b : raw[i] \in Nat
    <3>1. \A i \in a .. b : i \in 1 .. n
      BY <1>1, <2>1
    <3> QED BY <1>1, <3>1
  <2>5. /\ SubSeq(raw, a, b) \in Seq(Nat) /\ Len(SubSeq(raw, a, b)) = IF a <= b THEN b - a + 1 ELSE 0
        /\ \A i \in 1 .. b - a + 1 : SubSeq(raw, a, b)[i] = raw[a + i - 1]
    BY ONLY <2>3, <2>4, SubSeqProperties
  <2>6. \A i \in 1 .. m : a + i - 1 = z + i
    BY <1>1, <2>1
  <2> HIDE DEF block
  <2>7. block(k) \in Seq(Nat) /\ Len(block(k)) = m /\ \A i \in 1 .. m : block(k)[i] = raw[z + i]
    BY <2>2, <2>3, <2>5, <2>6, Zenon
  <2> QED BY <2>7 DEF z
<1> HIDE DEF block
<1>3. ss \in Seq(Seq(Nat)) /\ Len(ss) = Slots /\ \A k \in 1 .. Slots : ss[k] = block(k)
  BY <1>1, <1>2
<1> HIDE DEF ss
<1>4. /\ front \in Seq(Nat) /\ Len(front) = m * Slots
      /\ \A q \in 0 .. Slots - 1 : \A i \in 1 .. m : front[m * q + i] = raw[SlotSize * q + i]
  <2>1. Even(ss, m)
    BY <1>2, <1>3 DEF Even
  <2>2. IsJoined(front, ss, m)
    BY <1>1, <1>3, <2>1, EvenJoined
  <2>3. front \in Seq(Nat)
    BY <1>3, FlattenUnfolds
  <2>4. ASSUME NEW q \in 0 .. Slots - 1, NEW i \in 1 .. m PROVE front[m * q + i] = raw[SlotSize * q + i]
    <3>1. q + 1 \in 1 .. Slots /\ (q + 1) - 1 = q
      BY <1>1
    <3>2. front[m * q + i] = ss[q + 1][i]
      BY <1>3, <2>2 DEF IsJoined
    <3>3. block(q + 1)[i] = raw[SlotSize * ((q + 1) - 1) + i]
      BY <1>2, <3>1, Zenon
    <3> QED BY <1>3, <3>1, <3>2, <3>3, Zenon
  <2> QED BY <1>3, <2>2, <2>3, <2>4 DEF IsJoined
<1> HIDE DEF front
<1>5. behind \in Seq(Nat) /\ Len(behind) = n - M /\ \A k \in 1 .. n - M : behind[k] = raw[M + k]
  <2>1. M + 1 \in Int /\ n \in Int /\ \A k \in M + 1 .. n : raw[k] \in Nat
    BY <1>1
  <2> DEFINE a == M + 1
  <2>2. /\ SubSeq(raw, a, n) \in Seq(Nat) /\ Len(SubSeq(raw, a, n)) = IF a <= n THEN n - a + 1 ELSE 0
        /\ \A k \in 1 .. n - a + 1 : SubSeq(raw, a, n)[k] = raw[a + k - 1]
    <3>1. a \in Int /\ n \in Int /\ \A k \in a .. n : raw[k] \in Nat
      BY <2>1
    <3> HIDE DEF a
    <3> QED BY ONLY <3>1, SubSeqProperties
  <2>3. n - a + 1 = n - M /\ (IF a <= n THEN n - a + 1 ELSE 0) = n - M /\ \A k \in 1 .. n - M : a + k - 1 = M + k
    BY <1>1
  <2>4. behind = SubSeq(raw, a, n)
    OBVIOUS
  <2> HIDE DEF a, behind
  <2> QED BY <2>2, <2>3, <2>4, Zenon
<1> HIDE DEF behind
<1>6. /\ Len(out) = n - Slots
      /\ \A k \in 1 .. Len(front) : out[k] = front[k]
      /\ \A k \in 1 .. Len(behind) : out[Len(front) + k] = behind[k]
  <2>1. /\ Len(out) = Len(front) + Len(behind)
        /\ \A k \in 1 .. Len(front) : out[k] = front[k]
        /\ \A k \in 1 .. Len(behind) : out[Len(front) + k] = behind[k]
    <3>1. /\ Len(front \o behind) = Len(front) + Len(behind)
          /\ \A k \in 1 .. Len(front) : (front \o behind)[k] = front[k]
          /\ \A k \in 1 .. Len(behind) : (front \o behind)[Len(front) + k] = behind[k]
      <4>1. front \in Seq(Nat) /\ behind \in Seq(Nat)
        BY <1>4, <1>5
      <4> QED BY ONLY <4>1, Joins
    <3> QED BY <3>1, Zenon DEF out
  <2>2. M = m * Slots + Slots /\ m * Slots \in Nat
    <3>1. Slots * (m + 1) = m * Slots + Slots /\ m * Slots \in Nat
      BY <1>1
    <3> QED BY <1>1, <3>1 DEF M
  <2> HIDE DEF out
  <2>3. Len(front) + Len(behind) = n - Slots
    BY <1>1, <1>4, <1>5, <2>2
  <2> QED BY <2>1, <2>3
<1> HIDE DEF out
<1>7. ASSUME NEW k \in 0 .. Len(out) - 1
      PROVE  out[k + 1] = raw[k + Min({k \div m, Slots}) + 1]
  <2> DEFINE q == k \div m
             r == k % m
  <2>1. k = m * q + r /\ r \in 0 .. m - 1 /\ q \in Nat /\ k \in Nat
    <3>1. k \in Nat
      OBVIOUS
    <3> QED BY <1>1, <3>1, Remainders
  <2> HIDE DEF q, r
  <2>2. \A a, b \in Nat : /\ a <= b => Min({a, b}) = a
                          /\ b <= a => Min({a, b}) = b
    <3> TAKE a, b \in Nat
    <3>1. {a, b} \in SUBSET Nat /\ {a, b} # {}
      OBVIOUS
    <3>2. Min({a, b}) \in {a, b} /\ \A e \in {a, b} : Min({a, b}) <= e
      BY ONLY <3>1, MinIsLeast
    <3> QED BY <3>2
  <2>3. CASE q < Slots
    <3>1. Min({q, Slots}) = q
      BY <1>1, <2>1, <2>2, <2>3
    <3>2. q \in 0 .. Slots - 1 /\ r + 1 \in 1 .. m
      BY <1>1, <2>1, <2>3
    <3>3. m * q + (r + 1) = k + 1 /\ SlotSize * q + (r + 1) = k + q + 1 /\ k + 1 \in 1 .. Len(front)
      <4>1. m * q \in Nat /\ SlotSize * q = m * q + q
        BY <1>1, <2>1
      <4>2. m * q + m <= m * Slots /\ m * Slots \in Nat
        <5>1. PICK e \in Nat : Slots = q + 1 + e
          <6>1. Slots - (q + 1) \in Nat /\ Slots = q + 1 + (Slots - (q + 1))
            BY <1>1, <2>1, <2>3
          <6> QED BY <6>1
        <5>2. m * (q + 1 + e) = m * q + m + m * e /\ m * e \in Nat
          BY <1>1, <2>1
        <5>3. m * Slots = m * q + m + m * e
          BY <5>1, <5>2, Zenon
        <5> QED BY <1>1, <4>1, <5>2, <5>3
      <4> DEFINE a == m * q
                 b == m * Slots
                 c == SlotSize * q
      <4>3. /\ a \in Nat /\ b \in Nat /\ c = a + q /\ a + m <= b /\ k = a + r /\ Len(front) = b
            /\ m \in Nat /\ r \in 0 .. m - 1 /\ q \in Nat /\ k \in Nat
        BY <1>1, <1>4, <2>1, <4>1, <4>2
      <4> HIDE DEF a, b, c
      <4>4. a + (r + 1) = k + 1 /\ c + (r + 1) = k + q + 1 /\ k + 1 \in 1 .. Len(front)
        BY ONLY <4>3
      <4> QED BY <4>4 DEF a, c
    <3>4. front[m * q + (r + 1)] = raw[SlotSize * q + (r + 1)]
      BY <1>4, <3>2, Zenon
    <3>5. out[k + 1] = front[k + 1]
      BY <1>6, <3>3, Zenon
    <3> QED BY <3>1, <3>3, <3>4, <3>5, Zenon DEF q
  <2>4. CASE q >= Slots
    <3>1. Min({q, Slots}) = Slots
      BY <1>1, <2>1, <2>2, <2>4
    <3> DEFINE i == k + 1 - Len(front)
    <3>2. i \in 1 .. n - M /\ Len(front) + i = k + 1 /\ M + i = k + Slots + 1
      <4>1. M = m * Slots + Slots /\ m * Slots \in Nat
        <5>1. Slots * (m + 1) = m * Slots + Slots /\ m * Slots \in Nat
          BY <1>1
        <5> QED BY <1>1, <5>1 DEF M
      <4>2. m * Slots <= m * q /\ m * q \in Nat
        <5>1. PICK e \in Nat : q = Slots + e
          <6>1. q - Slots \in Nat /\ q = Slots + (q - Slots)
            BY <1>1, <2>1, <2>4
          <6> QED BY <6>1
        <5>2. m * (Slots + e) = m * Slots + m * e /\ m * e \in Nat
          BY <1>1
        <5> QED BY <4>1, <5>1, <5>2
      <4> DEFINE a == m * q
                 b == m * Slots
                 o == Len(out)
                 g == Len(front)
      <4>3. /\ a \in Nat /\ b \in Nat /\ b <= a /\ k = a + r /\ g = b /\ M = b + Slots /\ M <= n
            /\ o = n - Slots /\ k \in 0 .. o - 1 /\ i = k + 1 - g
            /\ m \in Nat /\ r \in 0 .. m - 1 /\ q \in Nat /\ k \in Nat /\ Slots \in Nat /\ n \in Nat /\ M \in Nat
        BY <1>1, <1>4, <1>6, <2>1, <4>1, <4>2
      <4> HIDE DEF a, b, o, g, i
      <4>4. i \in 1 .. n - M /\ g + i = k + 1 /\ M + i = k + Slots + 1
        BY ONLY <4>3
      <4> QED BY <4>4 DEF g
    <3> HIDE DEF i
    <3>3. out[k + 1] = behind[i] /\ behind[i] = raw[M + i]
      BY <1>5, <1>6, <3>2, Zenon
    <3> QED BY <3>1, <3>2, <3>3, Zenon DEF q
  <2> QED BY <1>1, <2>1, <2>3, <2>4
<1>8. FwscLogical(raw) = out
  BY DEF FwscLogical, out, front, behind, ss, block, M, n
<1> QED BY <1>6, <1>7, <1>8, Zenon DEF m, n

(***************************************************************************)
(* RecordServable, for any record and any package.                         *)
(***************************************************************************)
THEOREM RecordsStayServable == ByteSpec => []RecordServable
<1>1. ByteInv => RecordServable
  <2> SUFFICES ASSUME ByteInv PROVE RecordServable
    OBVIOUS
  <2>1. ASSUME Computed("package"), ~Truncated(input.raw)
        PROVE  /\ Len(output) = Len(input.raw) - Slots
               /\ \A k \in 0 .. Len(output) - 1 :
                    output[k + 1] = input.raw[k + Min({k \div (SlotSize - 1), Slots}) + 1]
    <3>1. input \in BytesOf("package") /\ output = FwscLogical(input.raw)
      BY <2>1 DEF ByteInv, Computed, BytesOf, BytesResult
    <3>2. input.raw \in Seq(Nat)
      BY <3>1, ByteAssumption
    <3> QED BY <2>1, <3>1, <3>2, MarkersLeftOut
  <2> QED BY <2>1, RecordAccepted, Zenon DEF RecordServable
<1> QED BY <1>1, BytesAreResult, PTL

----------------------------------------------------------------------------
(* Lengths and matches *)

\* The fold that copies a match, and what it has behind each of its turns
Another(out, offset) == Append(out, out[Len(out) - offset + 1])

IsCopying(g, out, offset, n) ==
  g = [t \in SUBSET DOMAIN [k \in 1 .. n |-> k] |->
         IF t = {} THEN out ELSE Another(g[t \ {Max(t)}], offset)]

Copies(p, out, offset, n) == p[0] = out /\ \A k \in 1 .. n : p[k] = Another(p[k - 1], offset)

(***************************************************************************)
(* Bytes are copied one by one, ...                                        *)
(***************************************************************************)
LEMMA CopyLoops ==
  ASSUME NEW out, NEW offset, NEW n \in Nat, NEW p, Copies(p, out, offset, n)
  PROVE  Copy(out, offset, n) = p[n]
<1> DEFINE h == CHOOSE g : IsCopying(g, out, offset, n)
           f == [t \in SUBSET (1 .. n) |-> p[Cardinality(t)]]
           S == {t \in SUBSET (1 .. n) : h[t] = p[Cardinality(t)]}
<1>1. FoldLeft(LAMBDA st, k : Append(st, st[Len(st) - offset + 1]), out, [k \in 1 .. n |-> k])
        = h[DOMAIN [k \in 1 .. n |-> k]]
  BY Zenon DEF FoldLeft, MapThenFoldSet, IsCopying, Another
<1>0. p[0] = out /\ \A k \in 1 .. n : p[k] = Another(p[k - 1], offset)
  BY Zenon DEF Copies
<1>2. DOMAIN [k \in 1 .. n |-> k] = 1 .. n /\ IsFiniteSet(1 .. n) /\ {} \in SUBSET (1 .. n)
  BY FS_Interval
<1>3. IsCopying(f, out, offset, n)
  <2>1. ASSUME NEW t \in SUBSET (1 .. n), t # {} PROVE p[Cardinality(t)] = Another(f[t \ {Max(t)}], offset)
    <3>1. Cardinality(t) \in 1 .. n /\ t \ {Max(t)} \in SUBSET (1 .. n)
      BY <2>1, OneLess
    <3>2. f[t \ {Max(t)}] = p[Cardinality(t) - 1]
      BY <2>1, <3>1, OneLess
    <3> QED BY <1>0, <3>1, <3>2, Zenon
  <2>2. p[Cardinality({})] = out
    BY <1>0, FS_EmptySet
  <2>3. f = [t \in SUBSET (1 .. n) |-> IF t = {} THEN out ELSE Another(f[t \ {Max(t)}], offset)]
    BY <2>1, <2>2, Zenon
  <2> HIDE DEF f
  <2> QED BY <1>2, <2>3, Zenon DEF IsCopying
<1>4. \A t \in SUBSET (1 .. n) : h[t] = IF t = {} THEN out ELSE Another(h[t \ {Max(t)}], offset)
  <2>1. IsCopying(h, out, offset, n)
    BY <1>3, Zenon
  <2> HIDE DEF h
  <2>2. h = [t \in SUBSET (1 .. n) |-> IF t = {} THEN out ELSE Another(h[t \ {Max(t)}], offset)]
    BY <1>2, <2>1, Zenon DEF IsCopying
  <2> QED BY <2>2, Zenon
<1> HIDE DEF h
<1>5. {} \in S
  BY <1>0, <1>2, <1>4, FS_EmptySet
<1>6. ASSUME NEW t \in SUBSET (1 .. n), t # {}, t \ {Max(t)} \in S PROVE t \in S
  <2>1. Cardinality(t) \in 1 .. n /\ Cardinality(t \ {Max(t)}) = Cardinality(t) - 1
    BY <1>6, OneLess
  <2>2. h[t \ {Max(t)}] = p[Cardinality(t) - 1]
    BY <1>6, <2>1
  <2>3. h[t] = Another(h[t \ {Max(t)}], offset)
    BY <1>4, <1>6, Zenon
  <2> HIDE DEF f
  <2>4. h[t] = p[Cardinality(t)]
    BY <1>0, <2>1, <2>2, <2>3, Zenon
  <2> QED BY <2>4
<1>7. \A t \in SUBSET (1 .. n) : t # {} => \E x \in t : t \ {x} \in S => t \in S
  <2>1. \A t \in SUBSET (1 .. n) : t # {} => Max(t) \in t
    BY Places
  <2> HIDE DEF S
  <2> QED BY <1>6, <2>1, Zenon
<1>8. SUBSET (1 .. n) \subseteq S
  <2> DEFINE N == 1 .. n
  <2>1. IsFiniteSet(N) /\ \A t \in SUBSET N : t # {} => \E x \in t : t \ {x} \in S => t \in S
    BY <1>2, <1>7, Zenon
  <2> HIDE DEF N, S
  <2>2. SUBSET N \subseteq S
    BY <1>5, <2>1, InductSets
  <2> QED BY <2>2, Zenon DEF N
<1>9. h[1 .. n] = p[Cardinality(1 .. n)]
  BY <1>8
<1>10. Cardinality(1 .. n) = n
  BY OneLess
<1> QED BY <1>1, <1>2, <1>9, <1>10, Zenon DEF Copy

\* The fold that decodes a block, and its states
IsDecoding(g, out, src, n) ==
  g = [t \in SUBSET DOMAIN [k \in 1 .. n |-> k] |->
         IF t = {} THEN State(out, 1) ELSE Sequence(src, g[t \ {Max(t)}])]

Decodes(p, out, src, n) == p[0] = State(out, 1) /\ \A k \in 1 .. n : p[k] = Sequence(src, p[k - 1])

(***************************************************************************)
(* ... a block is decoded one sequence at a time, ...                      *)
(***************************************************************************)
LEMMA DecodedLoops ==
  ASSUME NEW out, NEW src, NEW n \in Nat, n = Len(src), NEW p, Decodes(p, out, src, n)
  PROVE  Decoded(out, src) = p[n]
<1> DEFINE h == CHOOSE g : IsDecoding(g, out, src, n)
           f == [t \in SUBSET (1 .. n) |-> p[Cardinality(t)]]
           S == {t \in SUBSET (1 .. n) : h[t] = p[Cardinality(t)]}
<1>1. FoldLeft(LAMBDA st, k : Sequence(src, st), State(out, 1), [k \in 1 .. n |-> k])
        = h[DOMAIN [k \in 1 .. n |-> k]]
  BY Zenon DEF FoldLeft, MapThenFoldSet, IsDecoding
<1>0. p[0] = State(out, 1) /\ \A k \in 1 .. n : p[k] = Sequence(src, p[k - 1])
  BY Zenon DEF Decodes
<1>2. DOMAIN [k \in 1 .. n |-> k] = 1 .. n /\ IsFiniteSet(1 .. n) /\ {} \in SUBSET (1 .. n)
  BY FS_Interval
<1>3. IsDecoding(f, out, src, n)
  <2>1. ASSUME NEW t \in SUBSET (1 .. n), t # {} PROVE p[Cardinality(t)] = Sequence(src, f[t \ {Max(t)}])
    <3>1. Cardinality(t) \in 1 .. n /\ t \ {Max(t)} \in SUBSET (1 .. n)
      BY <2>1, OneLess
    <3>2. f[t \ {Max(t)}] = p[Cardinality(t) - 1]
      BY <2>1, <3>1, OneLess
    <3> QED BY <1>0, <3>1, <3>2, Zenon
  <2>2. p[Cardinality({})] = State(out, 1)
    BY <1>0, FS_EmptySet
  <2>3. f = [t \in SUBSET (1 .. n) |-> IF t = {} THEN State(out, 1) ELSE Sequence(src, f[t \ {Max(t)}])]
    BY <2>1, <2>2, Zenon
  <2> HIDE DEF f
  <2> QED BY <1>2, <2>3, Zenon DEF IsDecoding
<1>4. \A t \in SUBSET (1 .. n) : h[t] = IF t = {} THEN State(out, 1) ELSE Sequence(src, h[t \ {Max(t)}])
  <2>1. IsDecoding(h, out, src, n)
    BY <1>3, Zenon
  <2> HIDE DEF h
  <2>2. h = [t \in SUBSET (1 .. n) |-> IF t = {} THEN State(out, 1) ELSE Sequence(src, h[t \ {Max(t)}])]
    BY <1>2, <2>1, Zenon DEF IsDecoding
  <2> QED BY <2>2, Zenon
<1> HIDE DEF h
<1>5. {} \in S
  BY <1>0, <1>2, <1>4, FS_EmptySet
<1>6. ASSUME NEW t \in SUBSET (1 .. n), t # {}, t \ {Max(t)} \in S PROVE t \in S
  <2>1. Cardinality(t) \in 1 .. n /\ Cardinality(t \ {Max(t)}) = Cardinality(t) - 1
    BY <1>6, OneLess
  <2>2. h[t \ {Max(t)}] = p[Cardinality(t) - 1]
    BY <1>6, <2>1
  <2>3. h[t] = Sequence(src, h[t \ {Max(t)}])
    BY <1>4, <1>6, Zenon
  <2> HIDE DEF f
  <2>4. h[t] = p[Cardinality(t)]
    BY <1>0, <2>1, <2>2, <2>3, Zenon
  <2> QED BY <2>4
<1>7. \A t \in SUBSET (1 .. n) : t # {} => \E x \in t : t \ {x} \in S => t \in S
  <2>1. \A t \in SUBSET (1 .. n) : t # {} => Max(t) \in t
    BY Places
  <2> HIDE DEF S
  <2> QED BY <1>6, <2>1, Zenon
<1>8. SUBSET (1 .. n) \subseteq S
  <2> DEFINE N == 1 .. n
  <2>1. IsFiniteSet(N) /\ \A t \in SUBSET N : t # {} => \E x \in t : t \ {x} \in S => t \in S
    BY <1>2, <1>7, Zenon
  <2> HIDE DEF N, S
  <2>2. SUBSET N \subseteq S
    BY <1>5, <2>1, InductSets
  <2> QED BY <2>2, Zenon DEF N
<1>9. h[1 .. n] = p[Cardinality(1 .. n)]
  BY <1>8
<1>10. Cardinality(1 .. n) = n
  BY OneLess
<1> QED BY <1>1, <1>2, <1>9, <1>10, Zenon DEF Decoded

\* The fold that decodes a container, and its states
IsUnpacking(g, cells, n) ==
  g = [t \in SUBSET DOMAIN [k \in 1 .. n |-> k] |->
         IF t = {} THEN State(<<>>, 1) ELSE Block(cells, g[t \ {Max(t)}])]

Unpacks(p, cells, n) == p[0] = State(<<>>, 1) /\ \A k \in 1 .. n : p[k] = Block(cells, p[k - 1])

(***************************************************************************)
(* ... and a container one block at a time.                                *)
(***************************************************************************)
LEMMA BlocksLoop ==
  ASSUME NEW cells, NEW n \in Nat, n = Len(cells), NEW p, Unpacks(p, cells, n)
  PROVE  Blocks(cells) = p[n]
<1> DEFINE h == CHOOSE g : IsUnpacking(g, cells, n)
           f == [t \in SUBSET (1 .. n) |-> p[Cardinality(t)]]
           S == {t \in SUBSET (1 .. n) : h[t] = p[Cardinality(t)]}
<1>1. FoldLeft(LAMBDA st, k : Block(cells, st), State(<<>>, 1), [k \in 1 .. n |-> k])
        = h[DOMAIN [k \in 1 .. n |-> k]]
  BY Zenon DEF FoldLeft, MapThenFoldSet, IsUnpacking
<1>0. p[0] = State(<<>>, 1) /\ \A k \in 1 .. n : p[k] = Block(cells, p[k - 1])
  BY Zenon DEF Unpacks
<1>2. DOMAIN [k \in 1 .. n |-> k] = 1 .. n /\ IsFiniteSet(1 .. n) /\ {} \in SUBSET (1 .. n)
  BY FS_Interval
<1>3. IsUnpacking(f, cells, n)
  <2>1. ASSUME NEW t \in SUBSET (1 .. n), t # {} PROVE p[Cardinality(t)] = Block(cells, f[t \ {Max(t)}])
    <3>1. Cardinality(t) \in 1 .. n /\ t \ {Max(t)} \in SUBSET (1 .. n)
      BY <2>1, OneLess
    <3>2. f[t \ {Max(t)}] = p[Cardinality(t) - 1]
      BY <2>1, <3>1, OneLess
    <3> QED BY <1>0, <3>1, <3>2, Zenon
  <2>2. p[Cardinality({})] = State(<<>>, 1)
    BY <1>0, FS_EmptySet
  <2>3. f = [t \in SUBSET (1 .. n) |-> IF t = {} THEN State(<<>>, 1) ELSE Block(cells, f[t \ {Max(t)}])]
    BY <2>1, <2>2, Zenon
  <2> HIDE DEF f
  <2> QED BY <1>2, <2>3, Zenon DEF IsUnpacking
<1>4. \A t \in SUBSET (1 .. n) : h[t] = IF t = {} THEN State(<<>>, 1) ELSE Block(cells, h[t \ {Max(t)}])
  <2>1. IsUnpacking(h, cells, n)
    BY <1>3, Zenon
  <2> HIDE DEF h
  <2>2. h = [t \in SUBSET (1 .. n) |-> IF t = {} THEN State(<<>>, 1) ELSE Block(cells, h[t \ {Max(t)}])]
    BY <1>2, <2>1, Zenon DEF IsUnpacking
  <2> QED BY <2>2, Zenon
<1> HIDE DEF h
<1>5. {} \in S
  BY <1>0, <1>2, <1>4, FS_EmptySet
<1>6. ASSUME NEW t \in SUBSET (1 .. n), t # {}, t \ {Max(t)} \in S PROVE t \in S
  <2>1. Cardinality(t) \in 1 .. n /\ Cardinality(t \ {Max(t)}) = Cardinality(t) - 1
    BY <1>6, OneLess
  <2>2. h[t \ {Max(t)}] = p[Cardinality(t) - 1]
    BY <1>6, <2>1
  <2>3. h[t] = Block(cells, h[t \ {Max(t)}])
    BY <1>4, <1>6, Zenon
  <2> HIDE DEF f
  <2>4. h[t] = p[Cardinality(t)]
    BY <1>0, <2>1, <2>2, <2>3, Zenon
  <2> QED BY <2>4
<1>7. \A t \in SUBSET (1 .. n) : t # {} => \E x \in t : t \ {x} \in S => t \in S
  <2>1. \A t \in SUBSET (1 .. n) : t # {} => Max(t) \in t
    BY Places
  <2> HIDE DEF S
  <2> QED BY <1>6, <2>1, Zenon
<1>8. SUBSET (1 .. n) \subseteq S
  <2> DEFINE N == 1 .. n
  <2>1. IsFiniteSet(N) /\ \A t \in SUBSET N : t # {} => \E x \in t : t \ {x} \in S => t \in S
    BY <1>2, <1>7, Zenon
  <2> HIDE DEF N, S
  <2>2. SUBSET N \subseteq S
    BY <1>5, <2>1, InductSets
  <2> QED BY <2>2, Zenon DEF N
<1>9. h[1 .. n] = p[Cardinality(1 .. n)]
  BY <1>8
<1>10. Cardinality(1 .. n) = n
  BY OneLess
<1> QED BY <1>1, <1>2, <1>9, <1>10, Zenon DEF Blocks

\* r is out and n bytes behind it, each repeated from "offset" back.
IsCopied(r, out, offset, n) ==
  /\ r \in Seq(Nat) /\ Len(r) = Len(out) + n
  /\ \A m \in 1 .. Len(out) : r[m] = out[m]
  /\ \A m \in Len(out) + 1 .. Len(out) + n : r[m] = r[m - offset]

(***************************************************************************)
(* One more byte of a match, ...                                           *)
(***************************************************************************)
LEMMA CopyOne ==
  ASSUME NEW out \in Seq(Nat), NEW offset \in 1 .. Len(out), NEW k \in Nat,
         NEW v, IsCopied(v, out, offset, k)
  PROVE  IsCopied(Another(v, offset), out, offset, k + 1)
<1> DEFINE L == Len(out)
           x == v[Len(v) - offset + 1]
           w == Append(v, x)
<1>1. L \in Nat /\ offset \in Nat /\ 1 <= offset /\ offset <= L
  OBVIOUS
<1>2. /\ v \in Seq(Nat) /\ Len(v) = L + k
      /\ \A m \in 1 .. L : v[m] = out[m]
      /\ \A m \in L + 1 .. L + k : v[m] = v[m - offset]
  BY DEF IsCopied
<1> HIDE DEF L
<1>0. Len(v) = L + k /\ k \in Nat
  BY <1>2
<1>3. Len(v) - offset + 1 \in 1 .. Len(v)
  BY ONLY <1>0, <1>1
<1>4. x \in Nat
  BY <1>2, <1>3
<1> HIDE DEF x
<1>5. /\ w \in Seq(Nat) /\ Len(w) = L + k + 1 /\ w[L + k + 1] = x
      /\ \A m \in 1 .. L + k : w[m] = v[m]
  BY <1>2, <1>4
<1> HIDE DEF w
<1>6. \A m \in 1 .. L : w[m] = out[m]
  <2>1. \A m \in 1 .. L : m \in 1 .. L + k
    BY ONLY <1>0, <1>1
  <2> QED BY <1>2, <1>5, <2>1, Zenon
<1>7. ASSUME NEW m \in L + 1 .. L + (k + 1) PROVE w[m] = w[m - offset]
  <2>1. m - offset \in 1 .. L + k
    BY <1>1
  <2>2. w[m - offset] = v[m - offset]
    BY <1>5, <2>1
  <2>3. CASE m = L + k + 1
    <3>1. m - offset = Len(v) - offset + 1
      BY <1>1, <1>2, <2>3
    <3>2. x = v[m - offset]
      BY <3>1 DEF x
    <3> QED BY <1>5, <2>2, <2>3, <3>2
  <2>4. CASE m # L + k + 1
    <3>1. m \in L + 1 .. L + k /\ m \in 1 .. L + k
      BY <1>1, <2>4
    <3> QED BY <1>2, <1>5, <2>2, <3>1
  <2> QED BY <2>3, <2>4
<1>8. w \in Seq(Nat) /\ Len(w) = L + (k + 1)
  BY <1>1, <1>5
<1> QED BY <1>6, <1>7, <1>8 DEF IsCopied, Another, L, w, x

(***************************************************************************)
(* ... and all of them.                                                    *)
(***************************************************************************)
LEMMA Copied ==
  ASSUME NEW out \in Seq(Nat), NEW offset \in 1 .. Len(out), NEW n \in Nat
  PROVE  IsCopied(Copy(out, offset, n), out, offset, n)
<1> DEFINE States == {o \in Seq(Nat) : Len(o) >= offset}
           step == [o \in States |-> Another(o, offset)]
<1>1. \A o \in States : Another(o, offset) \in States
  <2> SUFFICES ASSUME NEW o \in Seq(Nat), Len(o) >= offset
               PROVE  Another(o, offset) \in Seq(Nat) /\ Len(Another(o, offset)) >= offset
    OBVIOUS
  <2>1. Len(o) - offset + 1 \in 1 .. Len(o) /\ Len(o) \in Nat
    OBVIOUS
  <2>2. o[Len(o) - offset + 1] \in Nat
    BY <2>1
  <2> QED BY <2>1, <2>2 DEF Another
<1>2. step \in [States -> States] /\ out \in States
  <2>1. out \in States
    OBVIOUS
  <2> HIDE DEF States
  <2> QED BY <1>1, <2>1
<1>3. PICK p : IsLoop(p, n, step, out, States)
  <2> HIDE DEF step, States
  <2> QED BY <1>2, LoopExists
<1>4. ASSUME NEW k \in 1 .. n PROVE p[k] = Another(p[k - 1], offset)
  <2>1. k - 1 \in 0 .. n
    OBVIOUS
  <2>2. p[k - 1] \in States /\ p[k] = step[p[k - 1]]
    <3> HIDE DEF States, step
    <3> QED BY <1>3, <2>1 DEF IsLoop
  <2> HIDE DEF States
  <2> QED BY <2>2
<1>5. Copy(out, offset, n) = p[n]
  <2>1. p[0] = out
    BY <1>3, Zenon DEF IsLoop
  <2>2. \A k \in 1 .. n : p[k] = Another(p[k - 1], offset)
    BY <1>4, Zenon
  <2>3. Copies(p, out, offset, n)
    BY <2>1, <2>2, Zenon DEF Copies
  <2> QED BY <2>3, CopyLoops
<1> DEFINE S == {k \in Nat : k <= n => IsCopied(p[k], out, offset, k)}
<1>6. 0 \in S
  <2>1. IsCopied(out, out, offset, 0)
    BY DEF IsCopied
  <2>2. p[0] = out
    BY <1>3, Zenon DEF IsLoop
  <2> QED BY <2>1, <2>2
<1>7. ASSUME NEW k \in Nat, k \in S PROVE k + 1 \in S
  <2> SUFFICES ASSUME k + 1 <= n PROVE IsCopied(p[k + 1], out, offset, k + 1)
    OBVIOUS
  <2>1. k + 1 \in 1 .. n /\ (k + 1) - 1 = k /\ IsCopied(p[k], out, offset, k)
    BY <1>7
  <2>2. p[k + 1] = Another(p[k], offset)
    <3>1. p[k + 1] = Another(p[(k + 1) - 1], offset)
      BY <1>4, <2>1, Zenon
    <3> QED BY <2>1, <3>1, Zenon
  <2> QED BY <2>1, <2>2, CopyOne
<1> HIDE DEF S
<1>8. Nat \subseteq S
  BY <1>6, <1>7, Induct
<1>9. IsCopied(p[n], out, offset, n)
  BY <1>8 DEF S
<1> QED BY <1>5, <1>9

\* Behind d cells, P is there as far as src reaches.
Reads(src, d, P) == \A i \in 1 .. Len(P) : d + i <= Len(src) => src[d + i] = P[i]

\* A length that goes on in q full bytes and a smaller one
IsLong(bytes, n, q, r) ==
  /\ q \in Nat /\ r \in Nat /\ r < Full /\ n = Nibble + Full * q + r
  /\ Len(bytes) = q + 1 /\ bytes[q + 1] = r
  /\ \A i \in 1 .. q : bytes[i] = Full

(***************************************************************************)
(* A length that its token does not hold goes on in full bytes and one     *)
(* that is not.                                                            *)
(***************************************************************************)
LEMMA LengthBytesAre ==
  ASSUME NEW n \in Nat
  PROVE  /\ LengthBytes(n) \in Seq(Nat) /\ InToken(n) \in 0 .. Nibble
         /\ n < Nibble => LengthBytes(n) = <<>> /\ InToken(n) = n
         /\ ~(n < Nibble) => InToken(n) = Nibble /\ \E q, r : IsLong(LengthBytes(n), n, q, r)
<1>1. Nibble \in Nat \ {0} /\ Full \in Nat \ {0}
  BY LoaderImageAssumption
<1>2. InToken(n) = IF n < Nibble THEN n ELSE Nibble
  <2> DEFINE T == {n, Nibble}
  <2>1. T \in SUBSET Nat /\ T # {}
    BY <1>1
  <2>2. Min(T) \in T /\ \A x \in T : Min(T) <= x
    <3> HIDE DEF T
    <3> QED BY <2>1, MinIsLeast
  <2> DEFINE m == Min(T)
  <2>3. (m = n \/ m = Nibble) /\ m <= n /\ m <= Nibble
    BY <2>2
  <2> HIDE DEF m
  <2>4. m = IF n < Nibble THEN n ELSE Nibble
    BY <1>1, <2>3
  <2> QED BY <2>4 DEF InToken, m
<1>3. CASE n < Nibble
  BY <1>1, <1>2, <1>3 DEF LengthBytes
<1>4. CASE ~(n < Nibble)
  <2> DEFINE q == (n - Nibble) \div Full
             r == (n - Nibble) % Full
             front == [k \in 1 .. q |-> Full]
             bytes == front \o <<r>>
  <2>1. n - Nibble \in Nat
    BY <1>1, <1>4
  <2>2. n - Nibble = Full * q + r /\ r \in 0 .. Full - 1 /\ q \in Nat
    BY <1>1, <2>1, Remainders
  <2>3. LengthBytes(n) = bytes
    BY <1>4 DEF LengthBytes
  <2> HIDE DEF q, r
  <2>4. front \in Seq(Nat) /\ Len(front) = q /\ \A i \in 1 .. q : front[i] = Full
    BY <1>1, <2>2
  <2>5. r \in Nat /\ r < Full
    BY <1>1, <2>2
  <2> HIDE DEF front
  <2>6. <<r>> \in Seq(Nat) /\ Len(<<r>>) = 1 /\ <<r>>[1] = r
    BY <2>5
  <2>7. /\ bytes \in Seq(Nat) /\ Len(bytes) = q + 1
        /\ \A i \in 1 .. q : bytes[i] = front[i]
        /\ \A i \in 1 .. 1 : bytes[q + i] = <<r>>[i]
    <3>1. front \in Seq(Nat) /\ <<r>> \in Seq(Nat)
      BY <2>4, <2>6
    <3>2. /\ bytes \in Seq(Nat) /\ Len(bytes) = Len(front) + Len(<<r>>)
          /\ \A i \in 1 .. Len(front) : bytes[i] = front[i]
          /\ \A i \in 1 .. Len(<<r>>) : bytes[Len(front) + i] = <<r>>[i]
      BY ONLY <3>1, Joins
    <3> HIDE DEF bytes
    <3> QED BY <2>4, <2>6, <3>2
  <2> HIDE DEF bytes
  <2>8. n = Nibble + Full * q + r
    <3> DEFINE z == Full * q
    <3>1. z \in Nat
      BY <1>1, <2>2, Products
    <3>2. n - Nibble = z + r
      BY <2>2
    <3> HIDE DEF z
    <3>3. n = Nibble + z + r
      BY <1>1, <2>5, <3>1, <3>2
    <3> QED BY <3>3 DEF z
  <2>9. IsLong(bytes, n, q, r)
    <3>1. bytes[q + 1] = r
      <4>1. 1 \in 1 .. 1
        OBVIOUS
      <4> QED BY <2>6, <2>7, <4>1
    <3>2. \A i \in 1 .. q : bytes[i] = Full
      BY <2>4, <2>7
    <3> QED BY <2>2, <2>5, <2>7, <2>8, <3>1, <3>2 DEF IsLong
  <2>10. InToken(n) = Nibble /\ Nibble \in 0 .. Nibble
    BY <1>1, <1>2, <1>4
  <2> QED BY <1>4, <2>3, <2>7, <2>9, <2>10
<1> QED BY <1>3, <1>4

(***************************************************************************)
(* Lengths reads the length that is written, and none of one that is cut.  *)
(***************************************************************************)
LEMMA LengthsRead ==
  ASSUME NEW src \in Seq(Nat), NEW n \in Nat, NEW d \in Nat, d <= Len(src), Reads(src, d, LengthBytes(n))
  PROVE  LET b == Len(LengthBytes(n))
         IN Lengths(src, d + 1, InToken(n))
              = IF d + b <= Len(src) THEN {[value |-> n, next |-> d + b + 1]} ELSE {}
<1> DEFINE bytes == LengthBytes(n)
           b == Len(bytes)
<1>1. Nibble \in Nat \ {0} /\ Full \in Nat \ {0} /\ Len(src) \in Nat
  BY LoaderImageAssumption
<1>2. CASE n < Nibble
  <2>1. bytes = <<>> /\ InToken(n) = n /\ n # Nibble
    BY <1>1, <1>2, LengthBytesAre
  <2>2. b = 0 /\ d + b = d
    BY <2>1
  <2>3. Lengths(src, d + 1, n) = {[value |-> n, next |-> d + 1]}
    BY <2>1 DEF Lengths
  <2> HIDE DEF bytes
  <2>4. d + b <= Len(src) /\ d + b + 1 = d + 1
    BY <2>2
  <2> HIDE DEF b
  <2> QED BY <2>1, <2>3, <2>4, Zenon DEF b, bytes
<1>3. CASE ~(n < Nibble)
  <2>1. InToken(n) = Nibble
    BY <1>3, LengthBytesAre
  <2>2. PICK q, r : IsLong(bytes, n, q, r)
    BY <1>3, LengthBytesAre
  <2> HIDE DEF bytes
  <2>3. /\ q \in Nat /\ r \in Nat /\ r < Full /\ n = Nibble + Full * q + r
        /\ b = q + 1 /\ bytes[q + 1] = r
        /\ \A i \in 1 .. q : bytes[i] = Full
    BY <2>2 DEF IsLong
  <2> DEFINE last == {j \in d + 1 .. Len(src) : src[j] # Full}
  <2>4. Lengths(src, d + 1, Nibble)
          = IF last = {} THEN {}
            ELSE {[value |-> Nibble + Full * (Min(last) - (d + 1)) + src[Min(last)], next |-> Min(last) + 1]}
    BY DEF Lengths
  <2>5. \A i \in 1 .. q : d + i <= Len(src) => src[d + i] = Full
    <3>1. \A i \in 1 .. q : i \in 1 .. b
      BY <2>3
    <3> QED BY <2>3, <3>1, Zenon DEF Reads, bytes, b
  <2>6. ASSUME NEW j \in d + 1 .. Len(src), j <= d + q PROVE src[j] = Full
    <3>1. j - d \in 1 .. q /\ d + (j - d) = j /\ j <= Len(src)
      BY <1>1, <2>3, <2>6
    <3> QED BY <2>5, <3>1
  <2>7. CASE d + b <= Len(src)
    <3>1. src[d + (q + 1)] = r
      <4>1. q + 1 \in 1 .. b /\ d + (q + 1) <= Len(src)
        BY <2>3, <2>7
      <4>2. src[d + (q + 1)] = bytes[q + 1]
        BY <4>1, Zenon DEF Reads, bytes, b
      <4> QED BY <2>3, <4>2
    <3> DEFINE e == d + (q + 1)
               m == Min(last)
    <3>2. e \in d + 1 .. Len(src) /\ e \in last
      <4>1. e \in d + 1 .. Len(src)
        BY <1>1, <2>3, <2>7
      <4>2. src[e] # Full
        BY <1>1, <2>3, <3>1
      <4> QED BY <4>1, <4>2
    <3>3. last \in SUBSET Nat /\ last # {}
      BY <3>2
    <3>4. m \in last /\ m <= e
      <4> HIDE DEF last
      <4>1. m \in last /\ \A x \in last : m <= x
        BY <3>3, MinIsLeast
      <4> QED BY <3>2, <4>1
    <3>5. m = e
      <4>1. m \in d + 1 .. Len(src) /\ src[m] # Full
        BY <3>4
      <4>2. ~(m <= d + q)
        BY <2>6, <4>1
      <4> HIDE DEF m
      <4> QED BY <2>3, <3>4, <4>1, <4>2
    <3> HIDE DEF m, last
    <3>6. Lengths(src, d + 1, Nibble) = {[value |-> Nibble + Full * (e - (d + 1)) + src[e], next |-> e + 1]}
      BY <2>4, <3>3, <3>5, Zenon DEF m
    <3>7. e - (d + 1) = q /\ e + 1 = d + b + 1
      BY <2>3
    <3>8. Nibble + Full * (e - (d + 1)) + src[e] = n
      BY <2>3, <3>1, <3>7, Zenon
    <3>9. Lengths(src, d + 1, Nibble) = {[value |-> n, next |-> d + b + 1]}
      BY <3>6, <3>7, <3>8, Zenon
    <3> QED BY <2>1, <2>7, <3>9 DEF bytes, b
  <2>8. CASE ~(d + b <= Len(src))
    <3>1. \A j \in d + 1 .. Len(src) : j <= d + q
      BY <1>1, <2>3, <2>8
    <3>2. last = {}
      BY <2>6, <3>1
    <3> QED BY <2>1, <2>4, <2>8, <3>2 DEF bytes, b
  <2> QED BY <2>7, <2>8
<1> QED BY <1>2, <1>3

----------------------------------------------------------------------------
(* Sequences of a block *)

(***************************************************************************)
(* Who reads two parts reads each of them.                                 *)
(***************************************************************************)
LEMMA ReadsBoth ==
  ASSUME NEW src \in Seq(Nat), NEW d \in Nat, NEW a \in Seq(Nat), NEW b \in Seq(Nat), Reads(src, d, a \o b)
  PROVE  Reads(src, d, a) /\ Reads(src, d + Len(a), b)
<1> DEFINE s == a \o b
<1>1. /\ Len(a) \in Nat /\ Len(b) \in Nat /\ Len(s) = Len(a) + Len(b)
      /\ \A i \in 1 .. Len(a) : s[i] = a[i]
      /\ \A i \in 1 .. Len(b) : s[Len(a) + i] = b[i]
  BY Joins
<1>2. \A i \in 1 .. Len(s) : d + i <= Len(src) => src[d + i] = s[i]
  BY DEF Reads
<1> HIDE DEF s
<1>3. ASSUME NEW i \in 1 .. Len(a), d + i <= Len(src) PROVE src[d + i] = a[i]
  <2>1. i \in 1 .. Len(s)
    BY <1>1
  <2> QED BY <1>1, <1>2, <1>3, <2>1
<1>4. ASSUME NEW i \in 1 .. Len(b), (d + Len(a)) + i <= Len(src) PROVE src[(d + Len(a)) + i] = b[i]
  <2>1. Len(a) + i \in 1 .. Len(s) /\ d + (Len(a) + i) = (d + Len(a)) + i
    BY <1>1
  <2>2. src[d + (Len(a) + i)] = s[Len(a) + i]
    BY <1>2, <1>4, <2>1
  <2> QED BY <1>1, <2>1, <2>2
<1> QED BY <1>3, <1>4 DEF Reads

(***************************************************************************)
(* A token holds two numbers.                                              *)
(***************************************************************************)
LEMMA TokenHolds ==
  ASSUME NEW m \in 0 .. Nibble, NEW k \in 0 .. Nibble
  PROVE  LET token == (Nibble + 1) * m + k
         IN token \in Nat /\ token \div (Nibble + 1) = m /\ (token % (Nibble + 1)) = k
<1>1. Nibble \in Nat /\ m \in Nat /\ k \in Nat /\ Nibble + 1 \in Nat \ {0} /\ k < Nibble + 1
  BY LoaderImageAssumption
<1>2. (Nibble + 1) * m \in Nat
  BY <1>1, Products
<1>3. IsQuotient((Nibble + 1) * m + k, Nibble + 1, m, k) /\ (Nibble + 1) * m + k \in Nat
  BY <1>1, <1>2 DEF IsQuotient
<1> QED BY <1>3, Quotient

(***************************************************************************)
(* A slice holds the literals, or as many of them as there are.            *)
(***************************************************************************)
LEMMA ClipReads ==
  ASSUME NEW src \in Seq(Nat), NEW e \in Nat, e <= Len(src), NEW lits \in Seq(Nat), Reads(src, e, lits)
  PROVE  LET part == Clip(src, e + 1, e + Len(lits))
         IN /\ part \in Seq(Nat) /\ Reads(part, 0, lits)
            /\ e + Len(lits) <= Len(src) => part = lits
            /\ ~(e + Len(lits) <= Len(src)) => Len(part) = Len(src) - e
<1> DEFINE l == Len(lits)
           to == Min({e + l, Len(src)})
           part == SubSeq(src, e + 1, to)
<1>1. l \in Nat /\ Len(src) \in Nat
  OBVIOUS
<1>2. to = IF e + l <= Len(src) THEN e + l ELSE Len(src)
  <2> DEFINE T == {e + l, Len(src)}
             m == Min(T)
  <2>1. T \in SUBSET Nat /\ T # {}
    BY <1>1
  <2>2. m \in T /\ \A x \in T : m <= x
    <3> HIDE DEF T
    <3> QED BY <2>1, MinIsLeast
  <2>3. (m = e + l \/ m = Len(src)) /\ m <= e + l /\ m <= Len(src)
    BY <2>2
  <2> HIDE DEF m, l
  <2>4. m = IF e + l <= Len(src) THEN e + l ELSE Len(src)
    BY <1>1, <2>3
  <2> QED BY <2>4 DEF m
<1> HIDE DEF to
<1>3. to \in Nat /\ e <= to /\ to <= Len(src) /\ to <= e + l
  BY <1>1, <1>2
<1>4. \A i \in 1 .. l : e + i <= Len(src) => src[e + i] = lits[i]
  BY DEF Reads
<1>5. part \in Seq(Nat) /\ Len(part) = to - e /\ \A i \in 1 .. to - e : part[i] = src[e + i]
  <2>1. \A i \in e + 1 .. to : src[i] \in Nat
    BY <1>3
  <2>2. e + 1 \in Nat /\ to - (e + 1) + 1 = to - e /\ \A i \in 1 .. to - e : (e + 1) + i - 1 = e + i
    BY <1>3
  <2>3. part \in Seq(Nat)
    BY <1>3, <2>1, <2>2
  <2>4. Len(part) = to - e
    BY <1>3, <2>2
  <2>5. \A i \in 1 .. to - e : part[i] = src[e + i]
    BY <1>3, <2>2
  <2> QED BY <2>3, <2>4, <2>5
<1> HIDE DEF part
<1>8. Reads(part, 0, lits)
  <2>1. ASSUME NEW i \in 1 .. l, i <= Len(part) PROVE part[i] = lits[i]
    <3>1. i \in 1 .. to - e /\ e + i <= Len(src)
      BY <1>1, <1>3, <1>5, <2>1
    <3> QED BY <1>4, <1>5, <3>1, Zenon
  <2>2. \A i \in 1 .. l : 0 + i = i
    BY <1>1
  <2> HIDE DEF l
  <2>3. \A i \in 1 .. l : 0 + i <= Len(part) => part[0 + i] = lits[i]
    BY <2>1, <2>2
  <2> QED BY <2>3 DEF Reads, l
<1>6. CASE e + l <= Len(src)
  <2>1. to - e = l
    BY <1>1, <1>2, <1>6
  <2>2. \A i \in 1 .. l : part[i] = lits[i]
    <3>1. \A i \in 1 .. l : e + i <= Len(src)
      BY <1>1, <1>6
    <3> QED BY <1>4, <1>5, <2>1, <3>1
  <2>3. part = lits
    BY <1>5, <2>1, <2>2, SeqEqual
  <2> QED BY <1>5, <1>6, <1>8, <2>3 DEF Clip, part, to, l
<1>7. CASE ~(e + l <= Len(src))
  <2>1. Len(part) = Len(src) - e
    BY <1>2, <1>5, <1>7
  <2> QED BY <1>5, <1>7, <1>8, <2>1 DEF Clip, part, to, l
<1> QED BY <1>6, <1>7

(***************************************************************************)
(* A sequence begins with a token and its literals, ...                    *)
(***************************************************************************)
LEMMA LitsTurn ==
  ASSUME NEW src \in Seq(Nat), NEW out, NEW d \in Nat, d + 1 <= Len(src),
         NEW lits \in Seq(Nat), NEW nib \in 0 .. Nibble, Reads(src, d, EncodedLits(lits, nib))
  PROVE  LET e == d + 1 + Len(LengthBytes(Len(lits)))
         IN /\ Sequence(src, State(out, d + 1))
                 = IF e <= Len(src)
                   THEN Match(src, State(out \o Clip(src, e + 1, e + Len(lits)), e + Len(lits) + 1), nib)
                   ELSE Failed
            /\ Reads(src, e, lits) /\ e \in Nat /\ d < e
<1> DEFINE l == Len(lits)
           bytes == LengthBytes(l)
           a == Len(bytes)
           e == d + 1 + a
           m == InToken(l)
           token == (Nibble + 1) * m + nib
           part == out \o Clip(src, e + 1, e + l)
<1>1. l \in Nat /\ Len(src) \in Nat
  OBVIOUS
<1> HIDE DEF l
<1>2. bytes \in Seq(Nat) /\ m \in 0 .. Nibble /\ a \in Nat
  <2>1. bytes \in Seq(Nat) /\ m \in 0 .. Nibble
    BY <1>1, LengthBytesAre
  <2> QED BY <2>1
<1> HIDE DEF bytes, m
<1>3. token \in Nat /\ token \div (Nibble + 1) = m /\ (token % (Nibble + 1)) = nib
  BY <1>2, TokenHolds
<1> HIDE DEF token
<1>4. Reads(src, d, <<token>>) /\ Reads(src, d + 1, bytes) /\ Reads(src, e, lits)
  <2>1. EncodedLits(lits, nib) = (<<token>> \o bytes) \o lits
    BY DEF EncodedLits, token, m, bytes, l
  <2>2. <<token>> \in Seq(Nat) /\ Len(<<token>>) = 1
    BY <1>3
  <2>3. <<token>> \o bytes \in Seq(Nat) /\ Len(<<token>> \o bytes) = 1 + a
    BY <1>2, <2>2, Joins
  <2>4. Reads(src, d, <<token>> \o bytes) /\ Reads(src, d + (1 + a), lits)
    <3> DEFINE front == <<token>> \o bytes
    <3>1. front \in Seq(Nat) /\ Reads(src, d, front \o lits) /\ Len(front) = 1 + a
      BY <2>1, <2>3
    <3> HIDE DEF front
    <3>2. Reads(src, d, front) /\ Reads(src, d + Len(front), lits)
      BY ONLY <3>1, ReadsBoth, src \in Seq(Nat), d \in Nat, lits \in Seq(Nat)
    <3> QED BY <3>1, <3>2 DEF front
  <2>5. Reads(src, d, <<token>>) /\ Reads(src, d + 1, bytes)
    <3> DEFINE front == <<token>>
    <3>1. front \in Seq(Nat) /\ Reads(src, d, front \o bytes) /\ Len(front) = 1
      BY <2>2, <2>4
    <3> HIDE DEF front
    <3>2. Reads(src, d, front) /\ Reads(src, d + Len(front), bytes)
      BY ONLY <1>2, <3>1, ReadsBoth, src \in Seq(Nat), d \in Nat
    <3> QED BY <3>1, <3>2 DEF front
  <2>6. d + (1 + a) = e
    BY <1>2
  <2> QED BY <2>4, <2>5, <2>6, Zenon
<1>5. src[d + 1] = token
  <2>1. 1 \in 1 .. Len(<<token>>) /\ <<token>>[1] = token
    OBVIOUS
  <2> QED BY <1>4, <2>1, Zenon DEF Reads
<1>6. Lengths(src, (d + 1) + 1, m) = IF e <= Len(src) THEN {[value |-> l, next |-> e + 1]} ELSE {}
  <2> DEFINE c == d + 1
  <2>1. c \in Nat /\ c <= Len(src)
    OBVIOUS
  <2>2. Reads(src, c, LengthBytes(l))
    BY <1>4 DEF bytes
  <2> HIDE DEF c
  <2>3. Lengths(src, c + 1, InToken(l))
          = IF c + Len(LengthBytes(l)) <= Len(src)
            THEN {[value |-> l, next |-> c + Len(LengthBytes(l)) + 1]} ELSE {}
    BY ONLY <1>1, <2>1, <2>2, LengthsRead, src \in Seq(Nat)
  <2> QED BY <2>3, Zenon DEF m, bytes, a, e, c
<1>7. e \in Nat /\ d < e
  BY <1>2
<1> HIDE DEF e, a
<1> DEFINE st == State(out, d + 1)
           lens == Lengths(src, (d + 1) + 1, m)
           lit == CHOOSE x \in lens : TRUE
<1>8. Sequence(src, st)
        = IF lens = {} THEN Failed
          ELSE Match(src, State(out \o Clip(src, lit.next, lit.next + lit.value - 1), lit.next + lit.value), nib)
  <2>1. st.ok /\ st.at = d + 1 /\ st.out = out /\ st.at <= Len(src)
    BY DEF State
  <2>2. ~(~st.ok \/ st.at > Len(src))
    BY <1>1, <2>1
  <2> HIDE DEF st, lens
  <2>3. lens = Lengths(src, st.at + 1, src[st.at] \div (Nibble + 1)) /\ (src[st.at] % (Nibble + 1)) = nib
    BY <1>3, <1>5, <2>1 DEF lens
  <2>4. st.at \in Nat
    BY <2>1
  <2> DEFINE raw == Lengths(src, st.at + 1, src[st.at] \div (Nibble + 1))
             one == CHOOSE x \in raw : TRUE
  <2>5. Sequence(src, st)
          = IF raw = {} THEN Failed
            ELSE Match(src, State(st.out \o Clip(src, one.next, one.next + one.value - 1), one.next + one.value),
                       src[st.at] % (Nibble + 1))
    BY <1>1, <2>1, <2>2, <2>4 DEF Sequence
  <2> HIDE DEF raw
  <2>6. raw = lens /\ one = lit
    BY <2>3 DEF raw
  <2> QED BY <2>1, <2>3, <2>5, <2>6, Zenon
<1>9. CASE e <= Len(src)
  <2> DEFINE x == [value |-> l, next |-> e + 1]
  <2>1. lens = {x}
    BY <1>6, <1>9
  <2>2. lit = x
    <3> HIDE DEF x, lens
    <3> QED BY <2>1
  <2> HIDE DEF lit, lens
  <2>3. lit.next = e + 1 /\ lit.value = l
    BY <2>2
  <2>4. lit.next + lit.value - 1 = e + l /\ lit.next + lit.value = e + l + 1
    BY <1>1, <1>7, <2>3
  <2>5. Sequence(src, st) = Match(src, State(out \o Clip(src, e + 1, e + l), e + l + 1), nib)
    BY <1>8, <2>1, <2>3, <2>4
  <2> QED BY <1>4, <1>7, <1>9, <2>5 DEF e, a, bytes, l
<1>10. CASE ~(e <= Len(src))
  <2>1. Sequence(src, st) = Failed
    BY <1>6, <1>8, <1>10
  <2> QED BY <1>4, <1>7, <1>10, <2>1 DEF e, a, bytes, l
<1> QED BY <1>9, <1>10

(***************************************************************************)
(* ... and its match follows, unless the block ends there.                 *)
(***************************************************************************)
LEMMA MatchTurn ==
  ASSUME NEW src \in Seq(Nat), NEW out, NEW e \in Nat, NEW n \in Nat,
         NEW offset \in 0 .. (Full + 1) * (Full + 1) - 1,
         Reads(src, e, <<offset % (Full + 1), offset \div (Full + 1)>> \o LengthBytes(n))
  PROVE  LET f == e + 2 + Len(LengthBytes(n))
             st == State(out, e + 1)
         IN Match(src, st, InToken(n))
              = IF e >= Len(src) THEN st
                ELSE IF f <= Len(src) /\ offset \in 1 .. Len(out)
                     THEN State(Copy(out, offset, n + MinMatch), f + 1) ELSE Failed
<1> DEFINE bytes == LengthBytes(n)
           b == Len(bytes)
           f == e + 2 + b
           st == State(out, e + 1)
           lo == offset % (Full + 1)
           hi == offset \div (Full + 1)
           m == InToken(n)
<1>1. Len(src) \in Nat /\ Full \in Nat /\ Full + 1 \in Nat \ {0}
  <2>1. Full \in Nat
    BY LoaderImageAssumption
  <2> QED BY <2>1
<1>2. offset \in Nat
  OBVIOUS
<1>3. offset = lo + (Full + 1) * hi /\ lo \in Nat /\ hi \in Nat
  <2>1. offset = (Full + 1) * hi + lo /\ lo \in 0 .. Full /\ hi \in Nat
    <3> DEFINE d == Full + 1
    <3>1. d \in Nat \ {0}
      BY <1>1
    <3> HIDE DEF d
    <3>2. offset = d * (offset \div d) + (offset % d) /\ offset % d \in 0 .. d - 1 /\ offset \div d \in Nat
      BY ONLY <1>2, <3>1, Remainders
    <3>3. d - 1 = Full
      BY <1>1 DEF d
    <3> QED BY <3>2, <3>3, Zenon DEF d
  <2>2. (Full + 1) * hi \in Nat /\ lo \in Nat
    BY <1>1, <2>1, Products
  <2> DEFINE z == (Full + 1) * hi
  <2> HIDE DEF z, lo, hi
  <2>3. offset = z + lo /\ z \in Nat /\ lo \in Nat
    BY <2>1, <2>2 DEF z
  <2>4. offset = lo + z
    BY <2>3
  <2> QED BY <2>1, <2>2, <2>4 DEF z
<1>4. bytes \in Seq(Nat) /\ b \in Nat
  <2>1. bytes \in Seq(Nat)
    BY LengthBytesAre
  <2> QED BY <2>1
<1> HIDE DEF lo, hi, bytes
<1>5. Reads(src, e, <<lo, hi>>) /\ Reads(src, e + 2, bytes)
  <2> DEFINE front == <<lo, hi>>
  <2>1. front \in Seq(Nat) /\ Reads(src, e, front \o bytes) /\ Len(front) = 2
    BY <1>3 DEF lo, hi, bytes
  <2> HIDE DEF front
  <2>2. Reads(src, e, front) /\ Reads(src, e + Len(front), bytes)
    BY ONLY <1>4, <2>1, ReadsBoth, src \in Seq(Nat), e \in Nat
  <2> QED BY <2>1, <2>2 DEF front
<1>6. st.ok /\ st.at = e + 1 /\ st.out = out
  BY DEF State
<1> HIDE DEF st
<1>7. CASE e >= Len(src)
  <2>1. st.at > Len(src)
    BY <1>1, <1>6, <1>7
  <2>2. Match(src, st, m) = st
    <3>1. st.at \in Nat
      BY <1>6
    <3> QED BY <1>1, <2>1, <3>1 DEF Match
  <2> QED BY <1>7, <2>2 DEF st
<1>8. CASE e + 1 = Len(src)
  <2>1. st.at = Len(src) /\ ~(st.at > Len(src)) /\ ~(e >= Len(src)) /\ ~(f <= Len(src))
    BY <1>1, <1>4, <1>6, <1>8
  <2>2. Match(src, st, m) = Failed
    BY <2>1 DEF Match
  <2> HIDE DEF f
  <2> QED BY <2>1, <2>2 DEF f, st, b, bytes
<1>9. CASE e + 2 <= Len(src)
  <2>1. src[st.at] + (Full + 1) * src[st.at + 1] = offset
    <3>1. 1 \in 1 .. Len(<<lo, hi>>) /\ 2 \in 1 .. Len(<<lo, hi>>) /\ <<lo, hi>>[1] = lo /\ <<lo, hi>>[2] = hi
      OBVIOUS
    <3>2. e + 1 <= Len(src) /\ e + 2 <= Len(src) /\ st.at + 1 = e + 2
      BY <1>1, <1>6, <1>9
    <3>3. src[e + 1] = lo /\ src[e + 2] = hi
      BY <1>5, <3>1, <3>2, Zenon DEF Reads
    <3> QED BY <1>3, <1>6, <3>2, <3>3
  <2>2. Lengths(src, st.at + 2, m) = IF f <= Len(src) THEN {[value |-> n, next |-> f + 1]} ELSE {}
    <3>1. Lengths(src, (e + 2) + 1, m)
            = IF (e + 2) + b <= Len(src) THEN {[value |-> n, next |-> (e + 2) + b + 1]} ELSE {}
      <4> DEFINE d == e + 2
      <4>1. d \in Nat /\ d <= Len(src)
        BY <1>9
      <4>2. Reads(src, d, LengthBytes(n))
        BY <1>5 DEF bytes
      <4> HIDE DEF d
      <4>3. Lengths(src, d + 1, InToken(n))
              = IF d + Len(LengthBytes(n)) <= Len(src)
                THEN {[value |-> n, next |-> d + Len(LengthBytes(n)) + 1]} ELSE {}
        BY ONLY <4>1, <4>2, LengthsRead, src \in Seq(Nat), n \in Nat
      <4> QED BY <4>3, Zenon DEF m, bytes, b, d
    <3>2. st.at + 2 = (e + 2) + 1
      BY <1>6
    <3> QED BY <3>1, <3>2
  <2> DEFINE lens == Lengths(src, st.at + 2, m)
             len == CHOOSE x \in lens : TRUE
  <2>3. Match(src, st, m) = IF offset \notin 1 .. Len(out) \/ lens = {} THEN Failed
                            ELSE State(Copy(out, offset, len.value + MinMatch), len.next)
    <3>1. st.at < Len(src) /\ ~(st.at > Len(src)) /\ st.at # Len(src)
      BY <1>1, <1>6, <1>9
    <3> QED BY <1>6, <2>1, <3>1 DEF Match
  <2>4. ~(e >= Len(src))
    BY <1>1, <1>9
  <2>5. CASE f <= Len(src)
    <3> DEFINE x == [value |-> n, next |-> f + 1]
    <3>1. lens = {x}
      BY <2>2, <2>5
    <3>2. len = x
      <4> HIDE DEF x, lens
      <4> QED BY <3>1
    <3> HIDE DEF len, lens, f
    <3>3. len.next = f + 1 /\ len.value = n
      BY <3>2
    <3>4. Match(src, st, m)
            = IF offset \in 1 .. Len(out) THEN State(Copy(out, offset, n + MinMatch), f + 1) ELSE Failed
      BY <2>3, <3>1, <3>3
    <3> QED BY <2>4, <2>5, <3>4 DEF f, st, b, bytes
  <2>6. CASE ~(f <= Len(src))
    <3>1. Match(src, st, m) = Failed
      BY <2>2, <2>3, <2>6
    <3> HIDE DEF f
    <3> QED BY <2>4, <2>6, <3>1 DEF f, st, b, bytes
  <2> QED BY <2>5, <2>6
<1>10. e >= Len(src) \/ e + 1 = Len(src) \/ e + 2 <= Len(src)
  BY <1>1
<1> QED BY <1>7, <1>8, <1>9, <1>10

(***************************************************************************)
(* Sequences of numbers are joined in any order.                           *)
(***************************************************************************)
LEMMA JoinedCells ==
  ASSUME NEW a \in Seq(Nat), NEW b \in Seq(Nat)
  PROVE  /\ a \o b \in Seq(Nat) /\ Len(a \o b) = Len(a) + Len(b) /\ Len(a) \in Nat /\ Len(b) \in Nat
         /\ \A c \in Seq(Nat) : (a \o b) \o c = a \o (b \o c)
<1>1. /\ Len(a) \in Nat /\ Len(b) \in Nat
      /\ a \o b \in Seq(Nat) /\ Len(a \o b) = Len(a) + Len(b)
  BY ONLY Joins, a \in Seq(Nat), b \in Seq(Nat)
<1>2. ASSUME NEW c \in Seq(Nat) PROVE (a \o b) \o c = a \o (b \o c)
  BY ONLY ConcatAssociative, a \in Seq(Nat), b \in Seq(Nat), c \in Seq(Nat)
<1> QED BY <1>1, <1>2, Zenon

\* What EncodedOp can write
AnyOperation == [lits : Seq(Nat), offset : 0 .. (Full + 1) * (Full + 1) - 1, length : Nat]

\* An offset is written in two bytes.
OffsetBytes(o) == <<o.offset % (Full + 1), o.offset \div (Full + 1)>>

(***************************************************************************)
(* The parts of what is written, and their lengths.                        *)
(***************************************************************************)
LEMMA LitsWritten ==
  ASSUME NEW lits \in Seq(Nat), NEW nib \in 0 .. Nibble
  PROVE  /\ EncodedLits(lits, nib) \in Seq(Nat)
         /\ Len(EncodedLits(lits, nib)) = 1 + Len(LengthBytes(Len(lits))) + Len(lits)
<1> DEFINE l == Len(lits)
           bytes == LengthBytes(l)
           m == InToken(l)
           token == (Nibble + 1) * m + nib
           front == <<token>> \o bytes
<1>1. l \in Nat
  OBVIOUS
<1> HIDE DEF l
<1>2. bytes \in Seq(Nat) /\ m \in 0 .. Nibble
  BY <1>1, LengthBytesAre
<1> HIDE DEF bytes, m
<1>3. token \in Nat
  BY <1>2, TokenHolds
<1> HIDE DEF token
<1>4. <<token>> \in Seq(Nat) /\ Len(<<token>>) = 1
  BY <1>3
<1>5. front \in Seq(Nat) /\ Len(front) = 1 + Len(bytes)
  BY <1>2, <1>4, Joins
<1>6. EncodedLits(lits, nib) = front \o lits
  BY DEF EncodedLits, front, token, m, bytes, l
<1> HIDE DEF front
<1>7. front \o lits \in Seq(Nat) /\ Len(front \o lits) = Len(front) + Len(lits)
  BY <1>5, Joins
<1> QED BY <1>5, <1>6, <1>7 DEF bytes, l

(***************************************************************************)
(* The same of an operation.                                               *)
(***************************************************************************)
LEMMA OpWritten ==
  ASSUME NEW o \in AnyOperation, o.length >= MinMatch
  PROVE  LET front == EncodedLits(o.lits, InToken(o.length - MinMatch))
             behind == OffsetBytes(o) \o LengthBytes(o.length - MinMatch)
         IN /\ InToken(o.length - MinMatch) \in 0 .. Nibble /\ o.length - MinMatch \in Nat
            /\ front \in Seq(Nat) /\ behind \in Seq(Nat)
            /\ EncodedOp(o) = front \o behind
            /\ Len(behind) = 2 + Len(LengthBytes(o.length - MinMatch))
<1> DEFINE n == o.length - MinMatch
           nib == InToken(n)
           front == EncodedLits(o.lits, nib)
           bytes == LengthBytes(n)
           two == OffsetBytes(o)
           behind == two \o bytes
<1>1. /\ o.lits \in Seq(Nat) /\ o.length \in Nat /\ o.offset \in 0 .. (Full + 1) * (Full + 1) - 1
      /\ MinMatch \in Nat
  BY LoaderImageAssumption DEF AnyOperation
<1>2. n \in Nat
  BY <1>1
<1> HIDE DEF n
<1>3. nib \in 0 .. Nibble /\ bytes \in Seq(Nat)
  BY <1>2, LengthBytesAre
<1> HIDE DEF nib, bytes
<1>4. front \in Seq(Nat)
  BY <1>1, <1>3, LitsWritten
<1>5. two \in Seq(Nat) /\ Len(two) = 2
  <2>1. Full + 1 \in Nat \ {0} /\ o.offset \in Nat
    <3>1. Full \in Nat
      BY LoaderImageAssumption
    <3> QED BY <1>1, <3>1
  <2> DEFINE d == Full + 1
  <2> HIDE DEF d
  <2>2. o.offset % d \in 0 .. d - 1 /\ o.offset \div d \in Nat /\ d \in Nat
    BY <2>1, Remainders DEF d
  <2> DEFINE x == o.offset % d
             y == o.offset \div d
  <2>3. x \in Nat /\ y \in Nat
    BY <2>2
  <2>4. two = <<x, y>>
    BY DEF OffsetBytes, d
  <2> HIDE DEF x, y
  <2> QED BY <2>3, <2>4
<1> HIDE DEF front, two
<1>6. behind \in Seq(Nat) /\ Len(behind) = 2 + Len(bytes)
  BY ONLY <1>3, <1>5, JoinedCells
<1>7. EncodedOp(o) = front \o behind
  <2>1. EncodedOp(o) = (front \o two) \o bytes
    BY DEF EncodedOp, front, two, bytes, nib, n, OffsetBytes
  <2>2. (front \o two) \o bytes = front \o (two \o bytes)
    BY ONLY <1>3, <1>4, <1>5, JoinedCells
  <2> QED BY <2>1, <2>2
<1> QED BY <1>2, <1>3, <1>4, <1>6, <1>7 DEF front, two, bytes, nib, n, behind

(***************************************************************************)
(* Behind the end there is no match.                                       *)
(***************************************************************************)
LEMMA NoMatch ==
  ASSUME NEW src \in Seq(Nat), NEW out, NEW at \in Nat, NEW nib, at > Len(src)
  PROVE  Match(src, State(out, at), nib) = State(out, at)
<1> DEFINE st == State(out, at)
<1>1. st.at = at /\ Len(src) \in Nat
  BY DEF State
<1> HIDE DEF st
<1>2. st.at > Len(src) /\ ~(st.at < Len(src)) /\ st.at # Len(src)
  BY <1>1
<1>3. Match(src, st, nib) = st
  BY <1>2 DEF Match
<1> QED BY <1>3 DEF st

\* What is there of an operation ends before it does.
Beyond(turn, src, last) ==
  \E out \in Seq(Nat) : \E at \in Nat : turn = State(out, at) /\ at > Len(src) /\ at <= last

(***************************************************************************)
(* An operation is decoded, or refused, or not there as a whole.           *)
(***************************************************************************)
LEMMA OpTurn ==
  ASSUME NEW src \in Seq(Nat), NEW out \in Seq(Nat), NEW d \in Nat, d + 1 <= Len(src),
         NEW o \in AnyOperation, o.length >= MinMatch, Reads(src, d, EncodedOp(o))
  PROVE  LET end == d + Len(EncodedOp(o))
             turn == Sequence(src, State(out, d + 1))
             whole == out \o o.lits
         IN /\ end \in Nat /\ d < end
            /\ end <= Len(src) => turn = IF o.offset \in 1 .. Len(whole)
                                         THEN State(Copy(whole, o.offset, o.length), end + 1) ELSE Failed
            /\ ~(end <= Len(src)) => turn = Failed \/ Beyond(turn, src, end)
<1> DEFINE n == o.length - MinMatch
           nib == InToken(n)
           front == EncodedLits(o.lits, nib)
           behind == OffsetBytes(o) \o LengthBytes(n)
           end == d + Len(EncodedOp(o))
           turn == Sequence(src, State(out, d + 1))
           whole == out \o o.lits
           l == Len(o.lits)
           a == Len(LengthBytes(l))
           e == d + 1 + a
           b == Len(LengthBytes(n))
           f == (e + l) + 2 + b
           part == Clip(src, e + 1, e + l)
<1>1. /\ o.lits \in Seq(Nat) /\ o.length \in Nat /\ o.offset \in 0 .. (Full + 1) * (Full + 1) - 1
      /\ MinMatch \in Nat /\ l \in Nat /\ Len(src) \in Nat /\ o.offset \in Nat
  <2>1. /\ o.lits \in Seq(Nat) /\ o.length \in Nat /\ o.offset \in 0 .. (Full + 1) * (Full + 1) - 1
        /\ MinMatch \in Nat
    BY LoaderImageAssumption DEF AnyOperation
  <2>2. o.offset \in Nat
    BY <2>1
  <2>3. l \in Nat /\ Len(src) \in Nat
    BY <2>1
  <2> QED BY <2>1, <2>2, <2>3
<1>2. /\ nib \in 0 .. Nibble /\ n \in Nat /\ front \in Seq(Nat) /\ behind \in Seq(Nat)
      /\ EncodedOp(o) = front \o behind /\ Len(behind) = 2 + b
  BY OpWritten
<1>3. Len(front) = 1 + a + l
  BY <1>1, <1>2, LitsWritten
<1>4. a \in Nat /\ b \in Nat
  <2>1. LengthBytes(l) \in Seq(Nat) /\ LengthBytes(n) \in Seq(Nat)
    BY <1>1, <1>2, LengthBytesAre
  <2> QED BY <2>1
<1>5. n + MinMatch = o.length
  BY <1>1, <1>2
<1> HIDE DEF n, nib, front, behind, whole, l, a, b, part
<1>6. Len(EncodedOp(o)) = 3 + a + l + b
  <2>1. Len(front \o behind) = Len(front) + Len(behind)
    BY <1>2, Joins
  <2> QED BY <1>1, <1>2, <1>3, <1>4, <2>1
<1>7. Reads(src, d, front) /\ Reads(src, e + l, behind)
  <2>1. Reads(src, d, front \o behind)
    BY <1>2
  <2>2. Reads(src, d, front) /\ Reads(src, d + Len(front), behind)
    BY ONLY <1>2, <2>1, ReadsBoth, src \in Seq(Nat), d \in Nat
  <2>3. d + Len(front) = e + l
    BY <1>1, <1>3, <1>4
  <2> QED BY <2>2, <2>3
<1>8. /\ turn = IF e <= Len(src) THEN Match(src, State(out \o part, e + l + 1), nib) ELSE Failed
      /\ Reads(src, e, o.lits)
  BY <1>1, <1>2, <1>7, LitsTurn DEF front, l, a, part
<1>9. e \in Nat /\ e + l \in Nat /\ end = f /\ end \in Nat /\ d < end /\ e + l + 2 <= f /\ e + l <= f /\ e <= f
  BY <1>1, <1>4, <1>6
<1> HIDE DEF e, f, end, turn
<1>10. CASE ~(e <= Len(src))
  <2>1. turn = Failed /\ ~(end <= Len(src))
    BY <1>1, <1>8, <1>9, <1>10
  <2> QED BY <1>9, <2>1 DEF end, turn
<1>11. CASE e <= Len(src)
  <2>1. /\ part \in Seq(Nat)
        /\ e + l <= Len(src) => part = o.lits
    BY <1>1, <1>8, <1>9, <1>11, ClipReads DEF part, l
  <2>2. turn = Match(src, State(out \o part, e + l + 1), nib)
    BY <1>8, <1>11
  <2>3. CASE e + l <= Len(src)
    <3>1. turn = Match(src, State(whole, (e + l) + 1), nib)
      BY <2>1, <2>2, <2>3 DEF whole
    <3>2. turn = IF e + l >= Len(src) THEN State(whole, (e + l) + 1)
                 ELSE IF f <= Len(src) /\ o.offset \in 1 .. Len(whole)
                      THEN State(Copy(whole, o.offset, o.length), f + 1) ELSE Failed
      <4>1. Reads(src, e + l, <<o.offset % (Full + 1), o.offset \div (Full + 1)>> \o LengthBytes(n))
        BY <1>7 DEF behind, OffsetBytes
      <4> DEFINE k == e + l
                 st == State(whole, k + 1)
      <4> HIDE DEF k
      <4>2. Match(src, st, InToken(n))
              = IF k >= Len(src) THEN st
                ELSE IF k + 2 + Len(LengthBytes(n)) <= Len(src) /\ o.offset \in 1 .. Len(whole)
                     THEN State(Copy(whole, o.offset, n + MinMatch), k + 2 + Len(LengthBytes(n)) + 1) ELSE Failed
        <5>1. k \in Nat /\ Reads(src, k, <<o.offset % (Full + 1), o.offset \div (Full + 1)>> \o LengthBytes(n))
          BY <1>9, <4>1 DEF k
        <5> DEFINE z == o.offset
        <5>2. z \in 0 .. (Full + 1) * (Full + 1) - 1
              /\ Reads(src, k, <<z % (Full + 1), z \div (Full + 1)>> \o LengthBytes(n))
          BY <1>1, <5>1
        <5> HIDE DEF z
        <5>3. Match(src, st, InToken(n))
                = IF k >= Len(src) THEN st
                  ELSE IF k + 2 + Len(LengthBytes(n)) <= Len(src) /\ z \in 1 .. Len(whole)
                       THEN State(Copy(whole, z, n + MinMatch), k + 2 + Len(LengthBytes(n)) + 1) ELSE Failed
          BY ONLY <1>2, <5>1, <5>2, MatchTurn, src \in Seq(Nat)
        <5> QED BY <5>3 DEF z
      <4> QED BY <1>5, <3>1, <4>2, Zenon DEF k, nib, f, b
    <3>3. CASE e + l >= Len(src)
      <4>1. turn = State(whole, e + l + 1) /\ e + l + 1 \in Nat /\ e + l + 1 > Len(src) /\ e + l + 1 <= end
        BY <1>1, <1>9, <3>2, <3>3
      <4>2. ~(end <= Len(src))
        BY <1>1, <1>9, <4>1
      <4>3. Beyond(turn, src, end)
        <5>1. whole \in Seq(Nat)
          BY ONLY <1>1, JoinedCells, out \in Seq(Nat) DEF whole
        <5> QED BY <4>1, <5>1 DEF Beyond
      <4> QED BY <1>9, <4>2, <4>3 DEF end, turn
    <3>4. CASE ~(e + l >= Len(src))
      <4>1. turn = IF end <= Len(src) /\ o.offset \in 1 .. Len(whole)
                   THEN State(Copy(whole, o.offset, o.length), end + 1) ELSE Failed
        BY <1>9, <3>2, <3>4, Zenon
      <4> QED BY <1>9, <4>1 DEF end, turn, whole
    <3> QED BY <3>3, <3>4
  <2>4. CASE ~(e + l <= Len(src))
    <3>1. e + l + 1 \in Nat /\ e + l + 1 > Len(src) /\ e + l + 1 <= end /\ ~(end <= Len(src))
      BY <1>1, <1>9, <2>4
    <3>2. turn = State(out \o part, e + l + 1)
      BY <2>2, <3>1, NoMatch
    <3>3. out \o part \in Seq(Nat)
      BY ONLY <2>1, JoinedCells, out \in Seq(Nat)
    <3>4. Beyond(turn, src, end)
      BY <3>1, <3>2, <3>3 DEF Beyond
    <3> QED BY <1>9, <3>1, <3>4 DEF end, turn
  <2> QED BY <2>3, <2>4
<1> QED BY <1>10, <1>11

(***************************************************************************)
(* The literals at the end of a block are there, or too few.               *)
(***************************************************************************)
LEMMA LastTurn ==
  ASSUME NEW src \in Seq(Nat), NEW out \in Seq(Nat), NEW d \in Nat, d + 1 <= Len(src),
         NEW lits \in Seq(Nat), Reads(src, d, EncodedLits(lits, 0)),
         Len(src) <= d + Len(EncodedLits(lits, 0))
  PROVE  LET end == d + Len(EncodedLits(lits, 0))
             turn == Sequence(src, State(out, d + 1))
         IN /\ end \in Nat /\ d < end
            /\ end = Len(src) => turn = State(out \o lits, end + 1)
            /\ end # Len(src) =>
                 \/ turn = Failed
                 \/ \E less \in Seq(Nat) : turn = State(less, end + 1) /\ Len(less) < Len(out) + Len(lits)
<1> DEFINE end == d + Len(EncodedLits(lits, 0))
           turn == Sequence(src, State(out, d + 1))
           l == Len(lits)
           a == Len(LengthBytes(l))
           e == d + 1 + a
           part == Clip(src, e + 1, e + l)
<1>1. 0 \in 0 .. Nibble /\ l \in Nat /\ Len(src) \in Nat /\ Len(out) \in Nat
  BY LoaderImageAssumption
<1>2. Len(EncodedLits(lits, 0)) = 1 + a + l
  BY <1>1, LitsWritten
<1>3. a \in Nat
  <2>1. LengthBytes(l) \in Seq(Nat)
    BY <1>1, LengthBytesAre
  <2> QED BY <2>1
<1> HIDE DEF l, a, part
<1>4. /\ turn = IF e <= Len(src) THEN Match(src, State(out \o part, e + l + 1), 0) ELSE Failed
      /\ Reads(src, e, lits)
  BY <1>1, LitsTurn DEF l, a, part
<1>5. e \in Nat /\ end = e + l /\ end \in Nat /\ d < end /\ e + l + 1 > Len(src) /\ e <= end
  <2> DEFINE q == Len(EncodedLits(lits, 0))
  <2>1. q = 1 + a + l /\ end = d + q /\ Len(src) <= d + q
    BY <1>2
  <2> HIDE DEF q, end
  <2> QED BY <1>1, <1>3, <2>1
<1> HIDE DEF e, end, turn
<1>6. CASE ~(e <= Len(src))
  <2>1. turn = Failed /\ end # Len(src)
    BY <1>1, <1>4, <1>5, <1>6
  <2> QED BY <1>5, <2>1 DEF end, turn
<1>7. CASE e <= Len(src)
  <2>1. /\ part \in Seq(Nat)
        /\ e + l <= Len(src) => part = lits
        /\ ~(e + l <= Len(src)) => Len(part) = Len(src) - e
    BY <1>4, <1>5, <1>7, ClipReads DEF part, l
  <2>2. turn = State(out \o part, end + 1)
    <3>1. turn = Match(src, State(out \o part, end + 1), 0)
      BY <1>4, <1>5, <1>7
    <3>2. end + 1 \in Nat /\ end + 1 > Len(src)
      BY <1>5
    <3> QED BY <3>1, <3>2, NoMatch
  <2>3. CASE end = Len(src)
    <3>1. part = lits
      BY <1>1, <1>5, <2>1, <2>3
    <3> QED BY <1>5, <2>2, <2>3, <3>1 DEF end, turn
  <2>4. CASE end # Len(src)
    <3>1. Len(part) = Len(src) - e /\ Len(src) < e + l
      BY <1>1, <1>5, <2>1, <2>4 DEF end
    <3> DEFINE less == out \o part
    <3>2. less \in Seq(Nat) /\ Len(less) = Len(out) + Len(part)
      BY <2>1, Joins
    <3> HIDE DEF less
    <3>3. Len(less) < Len(out) + l
      BY <1>1, <1>5, <3>1, <3>2
    <3>4. turn = State(less, end + 1)
      BY <2>2 DEF less
    <3>5. \E x \in Seq(Nat) : turn = State(x, end + 1) /\ Len(x) < Len(out) + l
      BY <3>2, <3>3, <3>4
    <3> QED BY <1>5, <2>4, <3>5 DEF end, turn, l
  <2> QED BY <2>3, <2>4
<1> QED BY <1>6, <1>7

----------------------------------------------------------------------------
(* Where the parts of a container lie *)

(***************************************************************************)
(* Who reads the whole reads each part.                                    *)
(***************************************************************************)
LEMMA ReadsLaid ==
  ASSUME NEW src \in Seq(Nat), NEW s \in Seq(Nat), NEW ss \in Seq(Seq(Nat)), NEW at, IsLaid(s, ss, at),
         Reads(src, 0, s), NEW k \in 1 .. Len(ss)
  PROVE  Reads(src, at[k], ss[k])
<1>1. /\ at \in [1 .. Len(ss) + 1 -> Nat] /\ Len(s) = at[Len(ss) + 1]
      /\ \A j, h \in 1 .. Len(ss) + 1 : j <= h => at[j] <= at[h]
      /\ at[k + 1] = at[k] + Len(ss[k])
      /\ \A i \in 1 .. Len(ss[k]) : s[at[k] + i] = ss[k][i]
  BY DEF IsLaid
<1>2. Len(ss) \in Nat /\ Len(ss[k]) \in Nat /\ Len(s) \in Nat
  OBVIOUS
<1>3. /\ k \in 1 .. Len(ss) + 1 /\ k + 1 \in 1 .. Len(ss) + 1
      /\ Len(ss) + 1 \in 1 .. Len(ss) + 1 /\ k + 1 <= Len(ss) + 1
  BY <1>2
<1>4. at[k] \in Nat /\ at[k + 1] <= Len(s)
  BY <1>1, <1>3
<1>5. ASSUME NEW i \in 1 .. Len(ss[k]), at[k] + i <= Len(src) PROVE src[at[k] + i] = ss[k][i]
  <2> DEFINE c == at[k]
             l == Len(ss[k])
             z == Len(s)
  <2>0. c \in Nat /\ l \in Nat /\ c + l <= z /\ z \in Nat /\ i \in 1 .. l
    BY <1>1, <1>2, <1>4
  <2> HIDE DEF c, l, z
  <2>1. c + i \in 1 .. z /\ 0 + (c + i) = c + i
    BY ONLY <2>0
  <2> USE DEF c, l, z
  <2>2. 0 + (at[k] + i) <= Len(src) => src[0 + (at[k] + i)] = s[at[k] + i]
    BY <2>1, Zenon DEF Reads
  <2> QED BY <1>1, <1>5, <2>1, <2>2
<1> QED BY <1>5 DEF Reads

(***************************************************************************)
(* An operation begins where the one before ends.                          *)
(***************************************************************************)
LEMMA Starts ==
  ASSUME NEW ops \in Seq(AnyOperation)
  PROVE  /\ Start(ops, 1) = 0
         /\ \A j \in 1 .. Len(ops) : /\ Start(ops, j) \in Nat /\ OpLen(ops[j]) \in Nat
                                     /\ Start(ops, j + 1) = Start(ops, j) + OpLen(ops[j])
         /\ Start(ops, Len(ops) + 1) \in Nat
<1> DEFINE part(j) == [k \in 1 .. j - 1 |-> OpLen(ops[k])]
<1>1. \A j \in 1 .. Len(ops) : OpLen(ops[j]) \in Nat
  <2> SUFFICES ASSUME NEW j \in 1 .. Len(ops) PROVE OpLen(ops[j]) \in Nat
    OBVIOUS
  <2>1. ops[j] \in AnyOperation
    OBVIOUS
  <2>2. ops[j].lits \in Seq(Nat) /\ ops[j].length \in Nat
    BY <2>1 DEF AnyOperation
  <2> QED BY <2>2 DEF OpLen
<1>2. ASSUME NEW j \in 1 .. Len(ops) + 1
      PROVE  /\ part(j) \in Seq(Nat) /\ Start(ops, j) = Sum(part(j))
  <2>1. j - 1 \in Nat /\ \A k \in 1 .. j - 1 : k \in 1 .. Len(ops)
    OBVIOUS
  <2> QED BY <1>1, <2>1 DEF Start
<1>3. ASSUME NEW j \in 1 .. Len(ops)
      PROVE  part(j + 1) = Append(part(j), OpLen(ops[j]))
  <2>1. j - 1 \in Nat /\ (j + 1) - 1 = j /\ (j - 1) + 1 = j
    OBVIOUS
  <2> QED BY <1>1, <2>1
<1>4. \A s \in Seq(Nat), v \in Nat : Sum(Append(s, v)) = Sum(s) + v /\ Sum(s) \in Nat
  BY SumAppend
<1>5. part(1) = <<>> /\ Sum(<<>>) = 0
  BY SumAppend
<1>6. Len(ops) \in Nat
  OBVIOUS
<1> HIDE DEF part
<1>7. Start(ops, 1) = 0
  <2>1. 1 \in 1 .. Len(ops) + 1
    BY <1>6
  <2> QED BY <1>2, <1>5, <2>1
<1>8. ASSUME NEW j \in 1 .. Len(ops) + 1 PROVE Start(ops, j) \in Nat
  BY <1>2, <1>4
<1>9. ASSUME NEW j \in 1 .. Len(ops) PROVE Start(ops, j + 1) = Start(ops, j) + OpLen(ops[j])
  <2>1. j \in 1 .. Len(ops) + 1 /\ j + 1 \in 1 .. Len(ops) + 1
    BY <1>6
  <2> QED BY <1>1, <1>2, <1>3, <1>4, <2>1
<1> QED BY <1>1, <1>6, <1>7, <1>8, <1>9

----------------------------------------------------------------------------
(* What is decoded *)

\* image has the literals of operation j and repeats what it should.
Spelt(image, ops, j) ==
  LET from == Start(ops, j)
      behind == from + Len(ops[j].lits)
  IN /\ SubSeq(image, from + 1, behind) = ops[j].lits
     /\ \A m \in behind + 1 .. behind + ops[j].length : image[m] = image[m - ops[j].offset]

IsMeant(ops, j) == ops[j].length > 0 => ops[j].offset \in 1 .. Start(ops, j) + Len(ops[j].lits)

\* out is what the first j operations spell.
Written(out, ops, j) ==
  /\ out \in Seq(Nat) /\ Len(out) = Start(ops, j + 1)
  /\ \A i \in 1 .. j : Spelt(out, ops, i) /\ IsMeant(ops, i) /\ Start(ops, i + 1) <= Len(out)

(***************************************************************************)
(* A slice, by its elements.                                               *)
(***************************************************************************)
LEMMA SliceIs ==
  ASSUME NEW r \in Seq(Nat), NEW a \in Nat, NEW lits \in Seq(Nat), a + Len(lits) <= Len(r)
  PROVE  SubSeq(r, a + 1, a + Len(lits)) = lits <=> \A i \in 1 .. Len(lits) : r[a + i] = lits[i]
<1> DEFINE l == Len(lits)
           part == SubSeq(r, a + 1, a + l)
<1>1. l \in Nat /\ Len(r) \in Nat
  OBVIOUS
<1>2. part \in Seq(Nat) /\ Len(part) = l /\ \A i \in 1 .. l : part[i] = r[a + i]
  <2>1. \A i \in a + 1 .. a + l : i \in 1 .. Len(r)
    BY <1>1
  <2>2. a + 1 \in Nat /\ (a + l) - (a + 1) + 1 = l /\ \A i \in 1 .. l : (a + 1) + i - 1 = a + i
    BY <1>1
  <2>3. part \in Seq(Nat)
    BY <1>1, <2>1, <2>2
  <2>4. Len(part) = l
    BY <1>1, <2>2
  <2>5. \A i \in 1 .. l : part[i] = r[a + i]
    BY <1>1, <2>2
  <2> QED BY <2>3, <2>4, <2>5
<1> HIDE DEF part
<1>3. part = lits => \A i \in 1 .. l : r[a + i] = lits[i]
  BY <1>2
<1>4. (\A i \in 1 .. l : r[a + i] = lits[i]) => part = lits
  BY <1>2, SeqEqual
<1> QED BY <1>3, <1>4 DEF part

(***************************************************************************)
(* One more operation is written.                                          *)
(***************************************************************************)
LEMMA WrittenMore ==
  ASSUME NEW ops \in Seq(AnyOperation), NEW j \in Nat, j + 1 <= Len(ops), NEW out, Written(out, ops, j),
         NEW r, IsCopied(r, out \o ops[j + 1].lits, ops[j + 1].offset, ops[j + 1].length),
         IsMeant(ops, j + 1)
  PROVE  Written(r, ops, j + 1) /\ Len(r) = Len(out) + OpLen(ops[j + 1])
<1> DEFINE o == ops[j + 1]
           L == Len(out)
           l == Len(o.lits)
           whole == out \o o.lits
           from == Start(ops, j + 1)
<1>1. j + 1 \in 1 .. Len(ops) /\ o \in AnyOperation /\ Len(ops) \in Nat
  OBVIOUS
<1>2. o.lits \in Seq(Nat) /\ o.length \in Nat /\ o.offset \in Nat /\ l \in Nat
  <2>1. o.lits \in Seq(Nat) /\ o.length \in Nat /\ o.offset \in Nat
    BY <1>1 DEF AnyOperation
  <2> QED BY <2>1
<1>3. /\ out \in Seq(Nat) /\ L = from
      /\ \A i \in 1 .. j : Spelt(out, ops, i) /\ IsMeant(ops, i) /\ Start(ops, i + 1) <= L
  BY DEF Written
<1>4. L \in Nat
  BY <1>3
<1>5. /\ Len(whole) = L + l
      /\ \A i \in 1 .. L : whole[i] = out[i]
      /\ \A i \in 1 .. l : whole[L + i] = o.lits[i]
  <2> DEFINE x == o.lits
  <2>1. out \in Seq(Nat) /\ x \in Seq(Nat)
    BY <1>2, <1>3
  <2> HIDE DEF x
  <2>2. /\ Len(out \o x) = Len(out) + Len(x)
        /\ \A i \in 1 .. Len(out) : (out \o x)[i] = out[i]
        /\ \A i \in 1 .. Len(x) : (out \o x)[Len(out) + i] = x[i]
    BY ONLY <2>1, Joins
  <2> QED BY <2>2 DEF x
<1>6. /\ r \in Seq(Nat) /\ Len(r) = (L + l) + o.length
      /\ \A m \in 1 .. L + l : r[m] = whole[m]
      /\ \A m \in (L + l) + 1 .. (L + l) + o.length : r[m] = r[m - o.offset]
  BY <1>5 DEF IsCopied
<1> HIDE DEF whole, L, l, from
<1>7. \A i \in 1 .. L : r[i] = out[i]
  <2>1. \A i \in 1 .. L : i \in 1 .. L + l
    BY <1>2, <1>4
  <2> QED BY <1>5, <1>6, <2>1
<1>8. \A i \in 1 .. l : r[L + i] = o.lits[i]
  <2>1. \A i \in 1 .. l : L + i \in 1 .. L + l
    BY <1>2, <1>4
  <2> QED BY <1>5, <1>6, <2>1
<1>9. Len(r) = L + OpLen(o) /\ Len(r) = Start(ops, (j + 1) + 1) /\ Len(r) \in Nat
  <2>1. OpLen(o) = l + o.length
    BY DEF OpLen, l
  <2>2. Start(ops, (j + 1) + 1) = from + OpLen(o)
    BY <1>1, Starts DEF from
  <2> QED BY <1>2, <1>3, <1>4, <1>6, <2>1, <2>2
<1>10. Spelt(r, ops, j + 1)
  <2>1. SubSeq(r, L + 1, L + l) = o.lits
    <3>1. L + Len(o.lits) <= Len(r)
      BY <1>2, <1>4, <1>6 DEF l
    <3> QED BY <1>2, <1>4, <1>6, <1>8, <3>1, SliceIs DEF l
  <2> QED BY <1>3, <1>6, <2>1 DEF Spelt, from, l
<1>11. ASSUME NEW i \in 1 .. j PROVE Spelt(r, ops, i)
  <2> DEFINE p == ops[i]
             a == Start(ops, i)
             k == Len(p.lits)
             b == a + k
  <2>1. i \in 1 .. Len(ops) /\ p \in AnyOperation
    BY <1>1
  <2>2. p.lits \in Seq(Nat) /\ p.length \in Nat /\ p.offset \in Nat /\ k \in Nat
    <3> HIDE DEF p
    <3>1. p.lits \in Seq(Nat) /\ p.length \in Nat /\ p.offset \in Nat
      BY <2>1 DEF AnyOperation
    <3> QED BY <3>1
  <2>3. a \in Nat /\ Start(ops, i + 1) = a + OpLen(p) /\ OpLen(p) = k + p.length
    BY <2>1, Starts DEF OpLen
  <2>4. b \in Nat /\ b + p.length <= L
    <3> DEFINE z == Start(ops, i + 1)
    <3>1. z <= L /\ z = a + (k + p.length)
      BY <1>3, <2>3
    <3> HIDE DEF z, a, k, p
    <3> QED BY <1>4, <2>2, <2>3, <3>1
  <2>5. /\ SubSeq(out, a + 1, b) = p.lits
        /\ \A m \in b + 1 .. b + p.length : out[m] = out[m - p.offset]
        /\ p.length > 0 => p.offset \in 1 .. b
    BY <1>3 DEF Spelt, IsMeant
  <2> HIDE DEF a, k, p
  <2>6. \A x \in 1 .. k : r[a + x] = p.lits[x]
    <3>1. a + Len(p.lits) <= L /\ \A x \in 1 .. k : a + x \in 1 .. L
      BY <1>4, <2>2, <2>3, <2>4 DEF k
    <3>2. \A x \in 1 .. k : out[a + x] = p.lits[x]
      <4>1. SubSeq(out, a + 1, a + Len(p.lits)) = p.lits
        BY <2>5 DEF k
      <4>2. a + Len(p.lits) <= Len(out)
        BY <3>1 DEF L
      <4> QED BY <1>3, <2>2, <2>3, <4>1, <4>2, SliceIs DEF k
    <3> QED BY <1>7, <3>1, <3>2
  <2>7. SubSeq(r, a + 1, b) = p.lits
    <3>1. a + Len(p.lits) <= Len(r)
      <4> DEFINE z == Len(r)
      <4>1. z = (L + l) + o.length
        BY <1>6
      <4> HIDE DEF z, o
      <4>2. a + k <= z
        BY <1>2, <1>4, <2>2, <2>3, <2>4, <4>1
      <4> QED BY <4>2 DEF k, z
    <3> QED BY <1>6, <2>2, <2>3, <2>6, <3>1, SliceIs DEF k
  <2>8. ASSUME NEW m \in b + 1 .. b + p.length PROVE r[m] = r[m - p.offset]
    <3>1. p.offset \in 1 .. b
      BY <2>2, <2>4, <2>5, <2>8
    <3> HIDE DEF b
    <3>2. m \in 1 .. L /\ m - p.offset \in 1 .. L
      BY <1>4, <2>2, <2>4, <3>1
    <3> QED BY <1>7, <2>5, <3>2
  <2> QED BY <2>7, <2>8 DEF Spelt, a, k, p
<1>12. ASSUME NEW i \in 1 .. j + 1 PROVE Spelt(r, ops, i) /\ IsMeant(ops, i) /\ Start(ops, i + 1) <= Len(r)
  <2>1. CASE i = j + 1
    BY <1>9, <1>10, <2>1
  <2>2. CASE i # j + 1
    <3>1. i \in 1 .. j
      BY <2>2
    <3>2. Start(ops, i + 1) <= L /\ Start(ops, i + 1) \in Nat
      <4>1. i \in 1 .. Len(ops) /\ i + 1 \in 1 .. Len(ops)
        BY <1>1, <3>1
      <4> QED BY <1>3, <3>1, <4>1, Starts
    <3>3. Start(ops, i + 1) <= Len(r)
      BY <1>2, <1>4, <1>6, <3>2
    <3> QED BY <1>3, <1>11, <3>1, <3>3
  <2> QED BY <2>1, <2>2
<1>13. r \in Seq(Nat) /\ Len(r) = Start(ops, (j + 1) + 1)
  BY <1>6, <1>9
<1>14. Len(r) = Len(out) + OpLen(ops[j + 1])
  BY <1>9 DEF L
<1>15. Written(r, ops, j + 1)
  BY <1>12, <1>13 DEF Written
<1> QED BY <1>14, <1>15

(***************************************************************************)
(* When all are written the image is what it should be.                    *)
(***************************************************************************)
LEMMA WrittenAll ==
  ASSUME NEW ops, NEW out, Written(out, ops, Len(ops))
  PROVE  Spells(out, ops) /\ Meant(ops)
<1>1. /\ Len(out) = Start(ops, Len(ops) + 1)
      /\ \A i \in 1 .. Len(ops) : Spelt(out, ops, i) /\ IsMeant(ops, i)
  BY DEF Written
<1>2. Spells(out, ops)
  BY <1>1, Zenon DEF Spells, Spelt
<1>3. Meant(ops)
  BY <1>1, Zenon DEF Meant, IsMeant
<1> QED BY <1>2, <1>3

(***************************************************************************)
(* At the beginning none is.                                               *)
(***************************************************************************)
LEMMA WrittenNone == ASSUME NEW ops \in Seq(AnyOperation) PROVE Written(<<>>, ops, 0)
<1>1. Start(ops, 0 + 1) = 0
  BY Starts
<1> QED BY <1>1 DEF Written

----------------------------------------------------------------------------
(* One block *)

Parts(block) ==
  Append([k \in 1 .. Len(block.ops) |-> EncodedOp(block.ops[k])], EncodedLits(block.rest, 0))

(***************************************************************************)
(* A block is its operations that repeat, and one that does not.           *)
(***************************************************************************)
LEMMA BlockParts ==
  ASSUME NEW block \in Plan
  PROVE  LET n == Len(block.ops) IN
         /\ n \in Nat /\ block.rest \in Seq(Nat) /\ [lits |-> block.rest, offset |-> 0, length |-> 0] \in AnyOperation
         /\ \A k \in 1 .. n : block.ops[k] \in AnyOperation /\ block.ops[k].length >= MinMatch
         /\ Operations(block) \in Seq(AnyOperation) /\ Len(Operations(block)) = n + 1
         /\ Operations(block)[n + 1] = [lits |-> block.rest, offset |-> 0, length |-> 0]
         /\ \A k \in 1 .. n : Operations(block)[k] = block.ops[k]
         /\ Parts(block) \in Seq(Seq(Nat)) /\ Len(Parts(block)) = n + 1
         /\ Parts(block)[n + 1] = EncodedLits(block.rest, 0)
         /\ \A k \in 1 .. n : Parts(block)[k] = EncodedOp(block.ops[k])
         /\ EncodedBlock(block) \in Seq(Nat)
<1> DEFINE n == Len(block.ops)
           last == [lits |-> block.rest, offset |-> 0, length |-> 0]
           front == [k \in 1 .. n |-> EncodedOp(block.ops[k])]
           end == EncodedLits(block.rest, 0)
<1>1. Full \in Nat /\ Nibble \in Nat
  BY LoaderImageAssumption
<1>2. \A s \in Seq(0 .. Full) : s \in Seq(Nat)
  BY <1>1
<1>3. block.ops \in Seq({o \in Operation : o.length >= MinMatch}) /\ block.rest \in Seq(0 .. Full)
  BY DEF Plan
<1>4. n \in Nat /\ block.rest \in Seq(Nat)
  BY <1>2, <1>3
<1>5. ASSUME NEW k \in 1 .. n PROVE block.ops[k] \in AnyOperation /\ block.ops[k].length >= MinMatch
  <2> DEFINE o == block.ops[k]
  <2>1. o \in Operation /\ o.length >= MinMatch
    BY <1>3
  <2> HIDE DEF o
  <2>2. o = [lits |-> o.lits, offset |-> o.offset, length |-> o.length]
    BY <2>1 DEF Operation
  <2>3. o.lits \in Seq(0 .. Full) /\ o.offset \in 0 .. (Full + 1) * (Full + 1) - 1 /\ o.length \in Nat
    BY <2>1 DEF Operation
  <2>4. o.lits \in Seq(Nat)
    BY <1>2, <2>3
  <2> QED BY <2>1, <2>2, <2>3, <2>4 DEF AnyOperation, o
<1>6. last \in AnyOperation
  <2>1. 0 \in 0 .. (Full + 1) * (Full + 1) - 1
    <3>1. Full + 1 \in Nat \ {0}
      BY <1>1
    <3> DEFINE d == Full + 1
    <3> HIDE DEF d
    <3>2. d * d \in Nat /\ d * d >= 1
      <4>1. d \in Nat /\ d >= 1
        BY <3>1 DEF d
      <4>2. d * d \in Nat /\ d * d = d + d * (d - 1) /\ d * (d - 1) \in Nat
        <5>1. d - 1 \in Nat
          BY <4>1
        <5>2. d * (d - 1) \in Nat
          BY <4>1, <5>1, Products
        <5>3. d * d = d + d * (d - 1)
          BY <4>1
        <5> QED BY <4>1, <5>2, <5>3, Products
      <4> QED BY <4>1, <4>2
    <3> DEFINE z == d * d
    <3> HIDE DEF z
    <3>3. 0 \in 0 .. z - 1
      BY <3>2 DEF z
    <3> QED BY <3>3 DEF z, d
  <2> QED BY <1>4, <2>1 DEF AnyOperation
<1>7. /\ Operations(block) \in Seq(AnyOperation) /\ Len(Operations(block)) = n + 1
      /\ Operations(block)[n + 1] = last
      /\ \A k \in 1 .. n : Operations(block)[k] = block.ops[k]
  <2>1. block.ops \in Seq(AnyOperation)
    <3> DEFINE ops == block.ops
    <3>1. ops \in Seq({o \in Operation : o.length >= MinMatch}) /\ \A k \in 1 .. Len(ops) : ops[k] \in AnyOperation
      BY <1>3, <1>5
    <3> HIDE DEF ops
    <3>2. ops \in Seq(AnyOperation)
      BY ONLY <3>1
    <3> QED BY <3>2 DEF ops
  <2> HIDE DEF last
  <2> QED BY <1>6, <2>1 DEF Operations, last
<1>8. end \in Seq(Nat)
  BY <1>1, <1>4, LitsWritten
<1>9. \A k \in 1 .. n : EncodedOp(block.ops[k]) \in Seq(Nat)
  <2> SUFFICES ASSUME NEW k \in 1 .. n PROVE EncodedOp(block.ops[k]) \in Seq(Nat)
    OBVIOUS
  <2> DEFINE o == block.ops[k]
  <2>1. o \in AnyOperation /\ o.length >= MinMatch
    BY <1>5
  <2> HIDE DEF o
  <2> DEFINE a == EncodedLits(o.lits, InToken(o.length - MinMatch))
             b == OffsetBytes(o) \o LengthBytes(o.length - MinMatch)
  <2>2. a \in Seq(Nat) /\ b \in Seq(Nat) /\ EncodedOp(o) = a \o b
    BY <2>1, OpWritten
  <2> HIDE DEF a, b
  <2>3. EncodedOp(o) \in Seq(Nat)
    BY <2>2, JoinedCells
  <2> QED BY <2>3 DEF o
<1>10. /\ Parts(block) \in Seq(Seq(Nat)) /\ Len(Parts(block)) = n + 1
       /\ Parts(block)[n + 1] = end
       /\ \A k \in 1 .. n : Parts(block)[k] = EncodedOp(block.ops[k])
  <2>1. front \in Seq(Seq(Nat)) /\ Len(front) = n /\ \A k \in 1 .. n : front[k] = EncodedOp(block.ops[k])
    BY <1>4, <1>9
  <2>2. Parts(block) = Append(front, end)
    BY DEF Parts
  <2> HIDE DEF front, end, n
  <2> QED BY <1>4, <1>8, <2>1, <2>2
<1>11. EncodedBlock(block) \in Seq(Nat)
  <2>1. EncodedBlock(block) = FlattenSeq(Parts(block))
    BY DEF EncodedBlock, Parts
  <2> QED BY <1>10, <2>1, FlattenLaid
<1> QED BY <1>4, <1>5, <1>6, <1>7, <1>10, <1>11

\* The operations of a block lie in ops behind the first j.
Placed(ops, j, part) ==
  /\ ops \in Seq(AnyOperation) /\ j \in Nat /\ j + Len(part) <= Len(ops)
  /\ \A i \in 1 .. Len(part) : ops[j + i] = part[i]

\* src is what there is of a block, whose parts lie behind at.
IsBlock(block, ops, j, src, at) ==
  /\ block \in Plan /\ Placed(ops, j, Operations(block))
  /\ IsLaid(EncodedBlock(block), Parts(block), at)
  /\ src \in Seq(Nat) /\ Reads(src, 0, EncodedBlock(block)) /\ Len(src) <= Len(EncodedBlock(block))

\* An operation that repeats is there from c to e.
IsThere(o, op, src, c, e) ==
  /\ o \in AnyOperation /\ o.length >= MinMatch /\ op = o
  /\ Reads(src, c, EncodedOp(o)) /\ e = c + Len(EncodedOp(o))

(***************************************************************************)
(* What a turn has to do with.                                             *)
(***************************************************************************)
LEMMA BlockIs ==
  ASSUME NEW block, NEW ops, NEW j, NEW src, NEW at, IsBlock(block, ops, j, src, at)
  PROVE  LET n == Len(block.ops)
             size == Len(EncodedBlock(block))
             last == [lits |-> block.rest, offset |-> 0, length |-> 0]
         IN /\ n \in Nat /\ size \in Nat /\ Len(src) \in Nat /\ Len(src) <= size /\ src \in Seq(Nat)
            /\ ops \in Seq(AnyOperation) /\ j \in Nat /\ j + (n + 1) <= Len(ops)
            /\ at \in [1 .. n + 2 -> Nat] /\ at[1] = 0 /\ at[n + 2] = size
            /\ \A k \in 1 .. n + 2 : at[k] <= size
            /\ \A k \in 1 .. n : IsThere(block.ops[k], ops[j + k], src, at[k], at[k + 1])
            /\ block.rest \in Seq(Nat) /\ ops[j + (n + 1)] = last
            /\ Reads(src, at[n + 1], EncodedLits(block.rest, 0))
            /\ at[n + 2] = at[n + 1] + Len(EncodedLits(block.rest, 0))
<1> DEFINE n == Len(block.ops)
           bytes == EncodedBlock(block)
           parts == Parts(block)
           last == [lits |-> block.rest, offset |-> 0, length |-> 0]
<1>1. /\ block \in Plan /\ Placed(ops, j, Operations(block)) /\ IsLaid(bytes, parts, at)
      /\ src \in Seq(Nat) /\ Reads(src, 0, bytes) /\ Len(src) <= Len(bytes)
  BY DEF IsBlock
<1>2. /\ n \in Nat /\ block.rest \in Seq(Nat)
      /\ \A k \in 1 .. n : block.ops[k] \in AnyOperation /\ block.ops[k].length >= MinMatch
      /\ Len(Operations(block)) = n + 1
      /\ Operations(block)[n + 1] = last
      /\ \A k \in 1 .. n : Operations(block)[k] = block.ops[k]
      /\ parts \in Seq(Seq(Nat)) /\ Len(parts) = n + 1
      /\ parts[n + 1] = EncodedLits(block.rest, 0)
      /\ \A k \in 1 .. n : parts[k] = EncodedOp(block.ops[k])
      /\ bytes \in Seq(Nat)
  BY <1>1, BlockParts
<1> HIDE DEF n, bytes, parts, last
<1>3. /\ ops \in Seq(AnyOperation) /\ j \in Nat /\ j + (n + 1) <= Len(ops)
      /\ \A i \in 1 .. n + 1 : ops[j + i] = Operations(block)[i]
  BY <1>1, <1>2 DEF Placed
<1>4. (n + 1) + 1 = n + 2 /\ \A k \in 1 .. n : k \in 1 .. n + 1 /\ k \in 1 .. n + 2
  BY <1>2
<1>5. /\ at \in [1 .. n + 2 -> Nat] /\ at[1] = 0 /\ Len(bytes) = at[n + 2]
      /\ \A i, k \in 1 .. n + 2 : i <= k => at[i] <= at[k]
      /\ \A k \in 1 .. n + 1 : at[k + 1] = at[k] + Len(parts[k])
  BY <1>1, <1>2, <1>4 DEF IsLaid
<1>6. \A k \in 1 .. n + 1 : Reads(src, at[k], parts[k])
  BY <1>1, <1>2, ReadsLaid
<1>7. n + 1 \in 1 .. n + 1 /\ n + 2 \in 1 .. n + 2 /\ \A k \in 1 .. n + 2 : k <= n + 2
  BY <1>2
<1>8. Len(src) \in Nat /\ Len(bytes) \in Nat
  BY <1>1, <1>2
<1>9. \A k \in 1 .. n + 2 : at[k] <= Len(bytes)
  BY <1>5, <1>7
<1>10. /\ \A k \in 1 .. n : /\ ops[j + k] = block.ops[k]
                            /\ Reads(src, at[k], EncodedOp(block.ops[k]))
                            /\ at[k + 1] = at[k] + Len(EncodedOp(block.ops[k]))
       /\ ops[j + (n + 1)] = last /\ Reads(src, at[n + 1], EncodedLits(block.rest, 0))
       /\ at[(n + 1) + 1] = at[n + 1] + Len(EncodedLits(block.rest, 0))
  BY <1>2, <1>3, <1>4, <1>5, <1>6, <1>7, Zenon
<1>11. \A k \in 1 .. n : IsThere(block.ops[k], ops[j + k], src, at[k], at[k + 1])
  BY <1>2, <1>10, Zenon DEF IsThere
<1> QED BY <1>1, <1>2, <1>3, <1>4, <1>5, <1>8, <1>9, <1>10, <1>11, Zenon DEF n, bytes, last

\* k - 1 operations of the block are decoded.
Going(s, k, ops, j, src, at) ==
  \E x : s = State(x, at[k] + 1) /\ Written(x, ops, (j + k) - 1) /\ at[k] <= Len(src)

\* Nothing more happens, and what there is will not be accepted.
Stuck(s, ops, src, size, end) ==
  \/ s = Failed /\ (Len(src) < size \/ ~Meant(ops))
  \/ /\ Len(src) < size
     /\ \E x \in Seq(Nat) : \E p \in Nat : s = State(x, p) /\ p > Len(src) /\ (p - 1 # size \/ Len(x) # end)

\* After t turns
Turned(s, t, ops, j, src, at, n, size) ==
  \/ \E k \in 1 .. n + 2 : Going(s, k, ops, j, src, at) /\ (at[k] = Len(src) \/ at[k] >= t)
  \/ Stuck(s, ops, src, size, Start(ops, j + (n + 1) + 1))

(***************************************************************************)
(* A turn behind the end, or behind a failure, changes nothing.            *)
(***************************************************************************)
LEMMA NoTurn ==
  ASSUME NEW src \in Seq(Nat)
  PROVE  /\ Sequence(src, Failed) = Failed
         /\ \A x : \A p \in Nat : p > Len(src) => Sequence(src, State(x, p)) = State(x, p)
<1>1. Len(src) \in Nat
  OBVIOUS
<1>2. Sequence(src, Failed) = Failed
  <2>1. Failed.ok = FALSE
    BY DEF Failed
  <2> QED BY <2>1 DEF Sequence
<1>3. ASSUME NEW x, NEW p \in Nat, p > Len(src) PROVE Sequence(src, State(x, p)) = State(x, p)
  <2> DEFINE st == State(x, p)
  <2>1. st.at = p /\ st.ok
    BY DEF State
  <2> HIDE DEF st
  <2>2. st.at > Len(src) /\ ~(st.at <= Len(src))
    BY <1>1, <1>3, <2>1
  <2>3. Sequence(src, st) = st
    BY <2>1, <2>2 DEF Sequence
  <2> QED BY <2>3 DEF st
<1> QED BY <1>2, <1>3

(***************************************************************************)
(* A turn decodes one operation, ...                                       *)
(***************************************************************************)
LEMMA GoesOn ==
  ASSUME NEW block, NEW ops, NEW j, NEW src, NEW at, IsBlock(block, ops, j, src, at),
         NEW k \in 1 .. Len(block.ops), NEW s, Going(s, k, ops, j, src, at), at[k] < Len(src)
  PROVE  LET next == Sequence(src, s)
             n == Len(block.ops)
         IN \/ Going(next, k + 1, ops, j, src, at) /\ at[k] < at[k + 1]
            \/ Stuck(next, ops, src, Len(EncodedBlock(block)), Start(ops, j + (n + 1) + 1))
<1> DEFINE n == Len(block.ops)
           size == Len(EncodedBlock(block))
           o == block.ops[k]
           next == Sequence(src, s)
           i == (j + k) - 1
           stop == Start(ops, j + (n + 1) + 1)
<1>1. /\ n \in Nat /\ size \in Nat /\ Len(src) \in Nat /\ Len(src) <= size /\ src \in Seq(Nat)
      /\ ops \in Seq(AnyOperation) /\ j \in Nat /\ j + (n + 1) <= Len(ops)
      /\ at \in [1 .. n + 2 -> Nat]
      /\ \A h \in 1 .. n + 2 : at[h] <= size
      /\ o \in AnyOperation /\ o.length >= MinMatch /\ ops[j + k] = o
      /\ Reads(src, at[k], EncodedOp(o)) /\ at[k + 1] = at[k] + Len(EncodedOp(o))
  <2>1. /\ n \in Nat /\ size \in Nat /\ Len(src) \in Nat /\ Len(src) <= size /\ src \in Seq(Nat)
        /\ ops \in Seq(AnyOperation) /\ j \in Nat /\ j + (n + 1) <= Len(ops)
        /\ at \in [1 .. n + 2 -> Nat]
        /\ \A h \in 1 .. n + 2 : at[h] <= size
    BY BlockIs
  <2>2. IsThere(o, ops[j + k], src, at[k], at[k + 1])
    BY BlockIs
  <2> HIDE DEF n, size, o
  <2> QED BY <2>1, <2>2, Zenon DEF IsThere
<1>2. MinMatch \in Nat \ {0}
  BY LoaderImageAssumption
<1> HIDE DEF n, size, o
<1>3. PICK x : s = State(x, at[k] + 1) /\ Written(x, ops, i)
  BY DEF Going
<1>4. k \in 1 .. n /\ k \in Nat /\ k \in 1 .. n + 2 /\ k + 1 \in 1 .. n + 2
  <2>1. k \in 1 .. n
    BY DEF n
  <2>2. n \in Nat
    BY <1>1
  <2> QED BY ONLY <2>1, <2>2
<1>5. /\ i \in Nat /\ i + 1 = j + k /\ i + 1 <= Len(ops) /\ i + 1 \in 1 .. Len(ops)
      /\ (j + (k + 1)) - 1 = i + 1 /\ Len(ops) \in Nat
  <2> DEFINE z == Len(ops)
  <2>1. n \in Nat /\ j \in Nat /\ j + (n + 1) <= z /\ z \in Nat
    BY <1>1
  <2> HIDE DEF z
  <2>2. /\ i \in Nat /\ i + 1 = j + k /\ i + 1 <= z /\ i + 1 \in 1 .. z
        /\ (j + (k + 1)) - 1 = i + 1
    BY ONLY <1>4, <2>1
  <2> QED BY <2>1, <2>2 DEF z
<1> HIDE DEF i
<1>6. at[k] \in Nat /\ at[k] + 1 <= Len(src) /\ at[k + 1] \in Nat /\ at[k + 1] <= size
  BY <1>1, <1>4
<1>7. x \in Seq(Nat) /\ Len(x) = Start(ops, i + 1)
  BY <1>3 DEF Written
<1>8. o.lits \in Seq(Nat) /\ o.length \in Nat /\ o.offset \in Nat /\ o.length > 0
  <2>1. o.lits \in Seq(Nat) /\ o.length \in Nat /\ o.offset \in 0 .. (Full + 1) * (Full + 1) - 1
    BY <1>1 DEF AnyOperation
  <2>2. o.offset \in Nat
    BY <2>1
  <2> QED BY <1>1, <1>2, <2>1, <2>2
<1> DEFINE whole == x \o o.lits
           c == at[k]
           e == at[k + 1]
<1>9. whole \in Seq(Nat) /\ Len(whole) = Start(ops, i + 1) + Len(o.lits)
  BY ONLY <1>7, <1>8, JoinedCells
<1>10. ops[i + 1] = o
  BY <1>1, <1>5
<1>11. IsMeant(ops, i + 1) <=> o.offset \in 1 .. Len(whole)
  BY <1>8, <1>9, <1>10 DEF IsMeant
<1> HIDE DEF whole, c, e, next
<1>12. /\ c < e
       /\ e <= Len(src) => next = IF o.offset \in 1 .. Len(whole)
                                  THEN State(Copy(whole, o.offset, o.length), e + 1) ELSE Failed
       /\ ~(e <= Len(src)) => next = Failed \/ Beyond(next, src, e)
  <2>1. c \in Nat /\ c + 1 <= Len(src) /\ Reads(src, c, EncodedOp(o)) /\ e = c + Len(EncodedOp(o))
    BY <1>1, <1>6 DEF c, e
  <2>2. /\ c < c + Len(EncodedOp(o))
        /\ c + Len(EncodedOp(o)) <= Len(src) =>
             Sequence(src, State(x, c + 1)) = IF o.offset \in 1 .. Len(x \o o.lits)
                 THEN State(Copy(x \o o.lits, o.offset, o.length), c + Len(EncodedOp(o)) + 1) ELSE Failed
        /\ ~(c + Len(EncodedOp(o)) <= Len(src)) =>
             \/ Sequence(src, State(x, c + 1)) = Failed
             \/ Beyond(Sequence(src, State(x, c + 1)), src, c + Len(EncodedOp(o)))
    BY ONLY <1>1, <1>7, <2>1, OpTurn
  <2> QED BY <1>3, <2>1, <2>2, Zenon DEF next, whole, c
<1>13. CASE e <= Len(src) /\ o.offset \in 1 .. Len(whole)
  <2> DEFINE r == Copy(whole, o.offset, o.length)
  <2>1. next = State(r, e + 1)
    BY <1>12, <1>13
  <2>2. IsCopied(r, whole, o.offset, o.length)
    BY <1>8, <1>9, <1>13, Copied
  <2> HIDE DEF r
  <2>3. IsCopied(r, x \o ops[i + 1].lits, ops[i + 1].offset, ops[i + 1].length) /\ IsMeant(ops, i + 1)
    BY <1>10, <1>11, <1>13, <2>2 DEF whole
  <2>4. Written(r, ops, i + 1)
    BY <1>1, <1>3, <1>5, <2>3, WrittenMore
  <2>5. Written(r, ops, (j + (k + 1)) - 1)
    BY <1>5, <2>4
  <2>6. Going(next, k + 1, ops, j, src, at)
    BY <1>13, <2>1, <2>5 DEF Going, e
  <2> QED BY <1>12, <2>6 DEF next, c, e
<1>14. CASE e <= Len(src) /\ o.offset \notin 1 .. Len(whole)
  <2>1. next = Failed
    BY <1>12, <1>14
  <2>2. ~Meant(ops)
    <3>1. ~IsMeant(ops, i + 1)
      BY <1>11, <1>14
    <3> QED BY <1>5, <3>1, Zenon DEF Meant, IsMeant
  <2>3. Stuck(next, ops, src, size, stop)
    BY <2>1, <2>2 DEF Stuck
  <2> QED BY <2>3 DEF next, size, n
<1>15. CASE ~(e <= Len(src))
  <2>1. Len(src) < size
    BY <1>1, <1>6, <1>15 DEF e
  <2>2. CASE next = Failed
    <3>1. Stuck(next, ops, src, size, stop)
      BY <2>1, <2>2 DEF Stuck
    <3> QED BY <3>1 DEF next, size, n
  <2>3. CASE Beyond(next, src, e)
    <3>1. PICK y \in Seq(Nat) : \E p \in Nat : next = State(y, p) /\ p > Len(src) /\ p <= e
      BY <2>3 DEF Beyond
    <3>2. PICK p \in Nat : next = State(y, p) /\ p > Len(src) /\ p <= e
      BY <3>1
    <3>3. p - 1 # size
      BY <1>6, <3>2 DEF e
    <3>4. Stuck(next, ops, src, size, stop)
      BY <2>1, <3>2, <3>3, Zenon DEF Stuck
    <3> QED BY <3>4 DEF next, size, n
  <2> QED BY <1>12, <1>15, <2>2, <2>3
<1> QED BY <1>13, <1>14, <1>15

(***************************************************************************)
(* ... and the last one the literals behind it.                            *)
(***************************************************************************)
LEMMA GoesToEnd ==
  ASSUME NEW block, NEW ops, NEW j, NEW src, NEW at, IsBlock(block, ops, j, src, at),
         NEW s, Going(s, Len(block.ops) + 1, ops, j, src, at), at[Len(block.ops) + 1] < Len(src)
  PROVE  LET next == Sequence(src, s)
             n == Len(block.ops)
         IN \/ Going(next, n + 2, ops, j, src, at) /\ at[n + 1] < at[n + 2]
            \/ Stuck(next, ops, src, Len(EncodedBlock(block)), Start(ops, j + (n + 1) + 1))
<1> DEFINE n == Len(block.ops)
           size == Len(EncodedBlock(block))
           lits == block.rest
           next == Sequence(src, s)
           i == j + n
           stop == Start(ops, j + (n + 1) + 1)
           c == at[n + 1]
           e == at[n + 2]
<1>1. /\ n \in Nat /\ size \in Nat /\ Len(src) \in Nat /\ Len(src) <= size /\ src \in Seq(Nat)
      /\ ops \in Seq(AnyOperation) /\ j \in Nat /\ j + (n + 1) <= Len(ops)
      /\ at \in [1 .. n + 2 -> Nat] /\ at[n + 2] = size
      /\ lits \in Seq(Nat) /\ ops[j + (n + 1)] = [lits |-> lits, offset |-> 0, length |-> 0]
      /\ Reads(src, at[n + 1], EncodedLits(lits, 0)) /\ at[n + 2] = at[n + 1] + Len(EncodedLits(lits, 0))
  BY BlockIs
<1> HIDE DEF n, size, lits
<1>2. /\ i \in Nat /\ i + 1 = j + (n + 1) /\ i + 1 <= Len(ops) /\ i + 1 \in 1 .. Len(ops)
      /\ (j + (n + 1)) - 1 = i /\ (j + (n + 2)) - 1 = i + 1 /\ Len(ops) \in Nat /\ n + 1 \in 1 .. n + 2
  <2> DEFINE z == Len(ops)
  <2>1. n \in Nat /\ j \in Nat /\ j + (n + 1) <= z /\ z \in Nat
    BY <1>1
  <2> HIDE DEF z
  <2>2. /\ i \in Nat /\ i + 1 = j + (n + 1) /\ i + 1 <= z /\ i + 1 \in 1 .. z
        /\ (j + (n + 1)) - 1 = i /\ (j + (n + 2)) - 1 = i + 1 /\ n + 1 \in 1 .. n + 2
    BY ONLY <2>1
  <2> QED BY <2>1, <2>2 DEF z
<1>11. Len(src) \in Nat /\ size \in Nat /\ Len(src) <= size
  BY <1>1
<1>3. PICK x : s = State(x, c + 1) /\ Written(x, ops, i)
  BY <1>2 DEF Going, n
<1> HIDE DEF i
<1>4. c \in Nat /\ c + 1 <= Len(src) /\ e = size
  <2>1. c < Len(src)
    BY DEF n
  <2> HIDE DEF c, e
  <2>2. c \in Nat /\ e = size
    BY <1>1, <1>2 DEF c, e
  <2> QED BY ONLY <1>11, <2>1, <2>2
<1>5. x \in Seq(Nat) /\ Len(x) = Start(ops, i + 1)
  BY <1>3 DEF Written
<1> DEFINE o == ops[i + 1]
<1>6. o.lits = lits /\ o.offset = 0 /\ o.length = 0
  <2>1. o = [lits |-> lits, offset |-> 0, length |-> 0]
    BY <1>1, <1>2
  <2> HIDE DEF o
  <2> QED BY <2>1
<1> HIDE DEF o, next, c, e
<1>7. Start(ops, (i + 1) + 1) = Len(x) + Len(lits) /\ Start(ops, (i + 1) + 1) = stop
  <2>1. Start(ops, (i + 1) + 1) = Start(ops, i + 1) + OpLen(o)
    BY <1>1, <1>2, Starts DEF o
  <2>2. OpLen(o) = Len(lits) + 0 /\ Len(lits) \in Nat
    BY <1>1, <1>6 DEF OpLen
  <2>3. stop = Start(ops, (i + 1) + 1)
    BY <1>2
  <2> QED BY <1>5, <2>1, <2>2, <2>3
<1> HIDE DEF stop
<1>8. /\ c < e
      /\ e = Len(src) => next = State(x \o lits, e + 1)
      /\ e # Len(src) =>
           next = Failed \/ \E less \in Seq(Nat) : next = State(less, e + 1) /\ Len(less) < Len(x) + Len(lits)
  <2> DEFINE k == Len(EncodedLits(lits, 0))
  <2>1. Reads(src, c, EncodedLits(lits, 0)) /\ e = c + k
    BY <1>1 DEF c, e
  <2>2. Len(src) <= c + k
    BY <1>1, <1>4, <2>1
  <2>3. /\ c < c + k
        /\ c + k = Len(src) => Sequence(src, State(x, c + 1)) = State(x \o lits, c + k + 1)
        /\ c + k # Len(src) =>
             \/ Sequence(src, State(x, c + 1)) = Failed
             \/ \E less \in Seq(Nat) : /\ Sequence(src, State(x, c + 1)) = State(less, c + k + 1)
                                       /\ Len(less) < Len(x) + Len(lits)
    <3>1. src \in Seq(Nat) /\ x \in Seq(Nat) /\ c \in Nat /\ c + 1 <= Len(src) /\ lits \in Seq(Nat)
      BY <1>1, <1>4, <1>5
    <3> QED BY ONLY <2>1, <2>2, <3>1, LastTurn
  <2> HIDE DEF k
  <2> QED BY <1>3, <2>1, <2>3, Zenon DEF next
<1>9. CASE e = Len(src)
  <2> DEFINE r == x \o lits
  <2>1. next = State(r, e + 1)
    BY <1>8, <1>9
  <2>2. IsCopied(r, r, 0, 0)
    <3>1. r \in Seq(Nat)
      BY ONLY <1>1, <1>5, JoinedCells
    <3> HIDE DEF r
    <3> QED BY <3>1 DEF IsCopied
  <2>3. IsCopied(r, x \o ops[i + 1].lits, ops[i + 1].offset, ops[i + 1].length) /\ IsMeant(ops, i + 1)
    BY <1>6, <2>2 DEF IsMeant, o
  <2> HIDE DEF r
  <2>4. Written(r, ops, i + 1)
    BY <1>1, <1>2, <1>3, <2>3, WrittenMore
  <2>5. Written(r, ops, (j + (n + 2)) - 1)
    BY <1>2, <2>4
  <2>6. e <= Len(src)
    BY <1>1, <1>9
  <2>7. Going(next, n + 2, ops, j, src, at)
    BY <2>1, <2>5, <2>6 DEF Going, e
  <2> QED BY <1>8, <2>7 DEF next, c, e, n
<1>10. CASE e # Len(src)
  <2>1. Len(src) < size
    BY ONLY <1>4, <1>10, <1>11
  <2>2. CASE next = Failed
    <3>1. Stuck(next, ops, src, size, stop)
      BY <2>1, <2>2 DEF Stuck
    <3> QED BY <3>1 DEF next, size, n, stop
  <2>3. CASE next # Failed
    <3>1. PICK less \in Seq(Nat) : next = State(less, e + 1) /\ Len(less) < Len(x) + Len(lits)
      BY <1>8, <1>10, <2>3
    <3>2. e + 1 \in Nat /\ e + 1 > Len(src) /\ Len(less) # stop
      <4>1. Len(less) # stop
        <5> DEFINE y == Len(less)
                   z == Len(x) + Len(lits)
        <5>1. y \in Nat /\ z \in Nat /\ y < z /\ z = stop
          BY <1>1, <1>5, <1>7, <3>1
        <5> HIDE DEF y, z
        <5>2. y # stop
          BY <5>1
        <5> QED BY <5>2 DEF y
      <4>2. e + 1 \in Nat /\ e + 1 > Len(src)
        BY ONLY <1>4, <1>11
      <4> QED BY <4>1, <4>2
    <3>3. Stuck(next, ops, src, size, stop)
      BY <2>1, <3>1, <3>2, Zenon DEF Stuck
    <3> QED BY <3>3 DEF next, size, n, stop
  <2> QED BY <2>2, <2>3
<1> QED BY <1>9, <1>10

(***************************************************************************)
(* A block can be decoded for any number of turns, ...                     *)
(***************************************************************************)
LEMMA DecodingExists ==
  ASSUME NEW out, NEW src, NEW n \in Nat
  PROVE  \E p : Decodes(p, out, src, n)
<1> DEFINE S == {m \in Nat : \E p : Decodes(p, out, src, m)}
<1>1. 0 \in S
  <2> DEFINE p == [k \in {0} |-> State(out, 1)]
  <2>1. p[0] = State(out, 1) /\ \A k \in 1 .. 0 : p[k] = Sequence(src, p[k - 1])
    OBVIOUS
  <2> HIDE DEF p
  <2>2. Decodes(p, out, src, 0)
    BY <2>1, Zenon DEF Decodes
  <2> QED BY <2>2
<1>2. ASSUME NEW m \in Nat, m \in S PROVE m + 1 \in S
  <2>1. PICK p : Decodes(p, out, src, m)
    BY <1>2
  <2> DEFINE x == Sequence(src, p[m])
             q == [k \in 0 .. m + 1 |-> IF k <= m THEN p[k] ELSE x]
  <2>2. p[0] = State(out, 1) /\ \A k \in 1 .. m : p[k] = Sequence(src, p[k - 1])
    BY <2>1, Zenon DEF Decodes
  <2>3. q[m + 1] = x /\ \A k \in 0 .. m : q[k] = p[k]
    <3> HIDE DEF x
    <3> QED OBVIOUS
  <2> HIDE DEF q
  <2>4. ASSUME NEW k \in 1 .. m + 1 PROVE q[k] = Sequence(src, q[k - 1])
    <3>1. CASE k = m + 1
      <4>1. k - 1 = m /\ m \in 0 .. m
        BY <3>1
      <4>2. q[k - 1] = p[m]
        BY <2>3, <4>1, Zenon
      <4> QED BY <2>3, <3>1, <4>2, Zenon
    <3>2. CASE k # m + 1
      <4>1. k \in 1 .. m /\ k \in 0 .. m /\ k - 1 \in 0 .. m
        BY <3>2
      <4>2. q[k] = p[k] /\ q[k - 1] = p[k - 1] /\ p[k] = Sequence(src, p[k - 1])
        BY <2>2, <2>3, <4>1, Zenon
      <4> QED BY <4>2, Zenon
    <3> QED BY <3>1, <3>2
  <2>5. q[0] = State(out, 1)
    <3>1. 0 \in 0 .. m
      OBVIOUS
    <3> QED BY <2>2, <2>3, <3>1, Zenon
  <2>6. Decodes(q, out, src, m + 1)
    BY <2>4, <2>5, Zenon DEF Decodes
  <2> QED BY <2>6
<1> HIDE DEF S
<1>3. Nat \subseteq S
  BY <1>1, <1>2, Induct
<1> QED BY <1>3 DEF S

(***************************************************************************)
(* ... and so can a container.                                             *)
(***************************************************************************)
LEMMA UnpackingExists ==
  ASSUME NEW cells, NEW n \in Nat
  PROVE  \E p : Unpacks(p, cells, n)
<1> DEFINE S == {m \in Nat : \E p : Unpacks(p, cells, m)}
<1>1. 0 \in S
  <2> DEFINE p == [k \in {0} |-> State(<<>>, 1)]
  <2>1. p[0] = State(<<>>, 1) /\ \A k \in 1 .. 0 : p[k] = Block(cells, p[k - 1])
    OBVIOUS
  <2> HIDE DEF p
  <2>2. Unpacks(p, cells, 0)
    BY <2>1, Zenon DEF Unpacks
  <2> QED BY <2>2
<1>2. ASSUME NEW m \in Nat, m \in S PROVE m + 1 \in S
  <2>1. PICK p : Unpacks(p, cells, m)
    BY <1>2
  <2> DEFINE x == Block(cells, p[m])
             q == [k \in 0 .. m + 1 |-> IF k <= m THEN p[k] ELSE x]
  <2>2. p[0] = State(<<>>, 1) /\ \A k \in 1 .. m : p[k] = Block(cells, p[k - 1])
    BY <2>1, Zenon DEF Unpacks
  <2>3. q[m + 1] = x /\ \A k \in 0 .. m : q[k] = p[k]
    <3> HIDE DEF x
    <3> QED OBVIOUS
  <2> HIDE DEF q
  <2>4. ASSUME NEW k \in 1 .. m + 1 PROVE q[k] = Block(cells, q[k - 1])
    <3>1. CASE k = m + 1
      <4>1. k - 1 = m /\ m \in 0 .. m
        BY <3>1
      <4>2. q[k - 1] = p[m]
        BY <2>3, <4>1, Zenon
      <4> QED BY <2>3, <3>1, <4>2, Zenon
    <3>2. CASE k # m + 1
      <4>1. k \in 1 .. m /\ k \in 0 .. m /\ k - 1 \in 0 .. m
        BY <3>2
      <4>2. q[k] = p[k] /\ q[k - 1] = p[k - 1] /\ p[k] = Block(cells, p[k - 1])
        BY <2>2, <2>3, <4>1, Zenon
      <4> QED BY <4>2, Zenon
    <3> QED BY <3>1, <3>2
  <2>5. q[0] = State(<<>>, 1)
    <3>1. 0 \in 0 .. m
      OBVIOUS
    <3> QED BY <2>2, <2>3, <3>1, Zenon
  <2>6. Unpacks(q, cells, m + 1)
    BY <2>4, <2>5, Zenon DEF Unpacks
  <2> QED BY <2>6
<1> HIDE DEF S
<1>3. Nat \subseteq S
  BY <1>1, <1>2, Induct
<1> QED BY <1>3 DEF S

(***************************************************************************)
(* Every turn goes on, or is stuck.                                        *)
(***************************************************************************)
LEMMA TurnedOn ==
  ASSUME NEW block, NEW ops, NEW j, NEW src, NEW at, IsBlock(block, ops, j, src, at), NEW t \in Nat,
         NEW s, Turned(s, t, ops, j, src, at, Len(block.ops), Len(EncodedBlock(block)))
  PROVE  Turned(Sequence(src, s), t + 1, ops, j, src, at, Len(block.ops), Len(EncodedBlock(block)))
<1> DEFINE n == Len(block.ops)
           size == Len(EncodedBlock(block))
           next == Sequence(src, s)
           stop == Start(ops, j + (n + 1) + 1)
<1>1. /\ n \in Nat /\ size \in Nat /\ Len(src) \in Nat /\ Len(src) <= size /\ src \in Seq(Nat)
      /\ at \in [1 .. n + 2 -> Nat] /\ at[n + 2] = size
  BY BlockIs
<1> SUFFICES Turned(next, t + 1, ops, j, src, at, n, size)
  OBVIOUS
<1>2. CASE Stuck(s, ops, src, size, stop)
  <2>1. next = s
    <3>1. CASE s = Failed
      BY <1>1, <3>1, NoTurn
    <3>2. CASE \E x : \E p \in Nat : s = State(x, p) /\ p > Len(src)
      BY <1>1, <3>2, NoTurn
    <3> QED BY <1>2, <3>1, <3>2 DEF Stuck
  <2> HIDE DEF next, stop, n, size
  <2>2. Stuck(next, ops, src, size, stop)
    BY <1>2, <2>1
  <2> QED BY <2>2 DEF Turned, stop
<1>3. CASE \E k \in 1 .. n + 2 : Going(s, k, ops, j, src, at) /\ (at[k] = Len(src) \/ at[k] >= t)
  <2>1. PICK k \in 1 .. n + 2 : Going(s, k, ops, j, src, at) /\ (at[k] = Len(src) \/ at[k] >= t)
    BY <1>3
  <2>2. at[k] \in Nat /\ at[k] <= Len(src)
    BY <1>1, <2>1 DEF Going
  <2>3. CASE at[k] = Len(src)
    <3>1. PICK x : s = State(x, at[k] + 1)
      BY <2>1 DEF Going
    <3>2. at[k] + 1 \in Nat /\ at[k] + 1 > Len(src)
      BY <2>2, <2>3
    <3>3. next = s
      BY <1>1, <3>1, <3>2, NoTurn
    <3> HIDE DEF next, n, size
    <3> QED BY <2>1, <2>3, <3>3 DEF Turned
  <2>4. CASE at[k] < Len(src)
    <3>1. at[k] >= t
      BY <1>1, <2>1, <2>2, <2>4
    <3>2. k # n + 2
      BY <1>1, <2>2, <2>4
    <3>3. k \in 1 .. n \/ k = n + 1
      BY <1>1, <3>2
    <3>4. \/ Going(next, k + 1, ops, j, src, at) /\ at[k] < at[k + 1]
          \/ Stuck(next, ops, src, size, stop)
      <4>1. CASE k \in 1 .. n
        BY <2>1, <2>4, <4>1, GoesOn
      <4>2. CASE k = n + 1
        <5>1. Going(s, Len(block.ops) + 1, ops, j, src, at) /\ at[Len(block.ops) + 1] < Len(src)
          BY <2>1, <2>4, <4>2
        <5>2. k + 1 = n + 2
          BY <1>1, <4>2
        <5>3. \/ Going(next, n + 2, ops, j, src, at) /\ at[n + 1] < at[n + 2]
              \/ Stuck(next, ops, src, size, stop)
          BY <5>1, GoesToEnd
        <5> HIDE DEF next, n, size, stop
        <5> QED BY <4>2, <5>2, <5>3, Zenon
      <4> QED BY <3>3, <4>1, <4>2
    <3> HIDE DEF next, n, size, stop
    <3>5. k + 1 \in 1 .. n + 2
      BY <1>1, <3>2
    <3>6. CASE Going(next, k + 1, ops, j, src, at) /\ at[k] < at[k + 1]
      <4>1. at[k + 1] \in Nat
        BY <1>1, <3>5
      <4>2. at[k + 1] >= t + 1
        BY <2>2, <3>1, <3>6, <4>1
      <4> QED BY <3>5, <3>6, <4>2 DEF Turned
    <3>7. CASE Stuck(next, ops, src, size, stop)
      BY <3>7 DEF Turned, stop
    <3> QED BY <3>4, <3>6, <3>7
  <2>5. at[k] = Len(src) \/ at[k] < Len(src)
    BY <1>1, <2>2
  <2> QED BY <2>3, <2>4, <2>5
<1> QED BY <1>2, <1>3 DEF Turned

\* What is decoded of a block
BlockOutcome(r, ops, j, n, src, size) ==
  \/ Len(src) = size /\ \E x : r = State(x, size + 1) /\ Written(x, ops, j + (n + 1))
  \/ r = Failed /\ (Len(src) < size \/ ~Meant(ops))
  \/ /\ Len(src) < size
     /\ \E x \in Seq(Nat) : \E p \in Nat :
          r = State(x, p) /\ (p - 1 # size \/ Len(x) # Start(ops, j + (n + 1) + 1))

(***************************************************************************)
(* A block is decoded to what its operations spell; of a block that is cut *)
(* off nothing comes that looks like it.                                   *)
(***************************************************************************)
LEMMA BlockDecoded ==
  ASSUME NEW block, NEW ops, NEW j, NEW src, NEW at, IsBlock(block, ops, j, src, at),
         NEW out, Written(out, ops, j)
  PROVE  BlockOutcome(Decoded(out, src), ops, j, Len(block.ops), src, Len(EncodedBlock(block)))
<1> DEFINE n == Len(block.ops)
           size == Len(EncodedBlock(block))
           m == Len(src)
<1>1. /\ n \in Nat /\ size \in Nat /\ m \in Nat /\ m <= size /\ src \in Seq(Nat)
      /\ j \in Nat
      /\ at \in [1 .. n + 2 -> Nat] /\ at[1] = 0 /\ at[n + 2] = size
      /\ \A k \in 1 .. n + 2 : at[k] <= size
      /\ \A k \in 1 .. n : IsThere(block.ops[k], ops[j + k], src, at[k], at[k + 1])
      /\ at[n + 2] = at[n + 1] + Len(EncodedLits(block.rest, 0))
  BY BlockIs
<1>2. PICK p : Decodes(p, out, src, m)
  BY <1>1, DecodingExists
<1>3. Decoded(out, src) = p[m]
  BY <1>1, <1>2, DecodedLoops
<1>4. p[0] = State(out, 1) /\ \A k \in 1 .. m : p[k] = Sequence(src, p[k - 1])
  BY <1>2, Zenon DEF Decodes
<1> DEFINE S == {t \in Nat : t <= m => Turned(p[t], t, ops, j, src, at, n, size)}
<1>5. 0 \in S
  <2>1. 1 \in 1 .. n + 2 /\ at[1] + 1 = 1 /\ at[1] <= m /\ at[1] >= 0 /\ (j + 1) - 1 = j
    BY <1>1
  <2> HIDE DEF n, size
  <2>2. Going(p[0], 1, ops, j, src, at)
    <3>1. p[0] = State(out, at[1] + 1) /\ Written(out, ops, (j + 1) - 1)
      BY <1>4, <2>1
    <3> QED BY <2>1, <3>1 DEF Going
  <2>3. Turned(p[0], 0, ops, j, src, at, n, size)
    BY <2>1, <2>2 DEF Turned
  <2> QED BY <2>3
<1>6. ASSUME NEW t \in Nat, t \in S PROVE t + 1 \in S
  <2> SUFFICES ASSUME t + 1 <= m PROVE Turned(p[t + 1], t + 1, ops, j, src, at, n, size)
    OBVIOUS
  <2>1. t + 1 \in 1 .. m /\ (t + 1) - 1 = t /\ t <= m
    BY <1>1
  <2>2. p[t + 1] = Sequence(src, p[t])
    <3>1. p[t + 1] = Sequence(src, p[(t + 1) - 1])
      BY <1>4, <2>1, Zenon
    <3> QED BY <2>1, <3>1
  <2>3. Turned(p[t], t, ops, j, src, at, n, size)
    BY <1>6, <2>1
  <2> QED BY <2>2, <2>3, TurnedOn
<1> HIDE DEF S
<1>7. Nat \subseteq S
  BY <1>5, <1>6, Induct
<1>8. Turned(p[m], m, ops, j, src, at, n, size)
  BY <1>1, <1>7 DEF S
<1> DEFINE r == p[m]
           stop == Start(ops, j + (n + 1) + 1)
<1>9. CASE Stuck(r, ops, src, size, stop)
  <2> HIDE DEF r, n, size
  <2>1. BlockOutcome(r, ops, j, n, src, size)
    BY <1>9 DEF Stuck, BlockOutcome
  <2> QED BY <1>3, <2>1 DEF r, n, size
<1>10. CASE \E k \in 1 .. n + 2 : Going(r, k, ops, j, src, at) /\ (at[k] = m \/ at[k] >= m)
  <2>1. PICK k \in 1 .. n + 2 : Going(r, k, ops, j, src, at) /\ (at[k] = m \/ at[k] >= m)
    BY <1>10
  <2>2. PICK x : r = State(x, at[k] + 1) /\ Written(x, ops, (j + k) - 1) /\ at[k] <= Len(src)
    BY <2>1 DEF Going
  <2>3. at[k] = m
    <3> DEFINE c == at[k]
    <3>1. c \in Nat
      BY <1>1
    <3>2. (c = m \/ c >= m) /\ c <= m /\ m \in Nat
      BY <1>1, <2>1, <2>2
    <3> HIDE DEF c, m
    <3>3. c = m
      BY ONLY <3>1, <3>2
    <3> QED BY <3>3 DEF c
  <2> HIDE DEF r, n, size, m
  <2>4. CASE m = size
    <3>1. k = n + 2
      <4>1. CASE k \in 1 .. n
        <5> DEFINE o == block.ops[k]
        <5>1. o \in AnyOperation /\ o.length >= MinMatch /\ at[k + 1] = at[k] + Len(EncodedOp(o))
          BY <1>1, <4>1 DEF IsThere
        <5> HIDE DEF o
        <5>2. Len(EncodedOp(o)) \in Nat /\ Len(EncodedOp(o)) > 0
          <6> DEFINE a == EncodedLits(o.lits, InToken(o.length - MinMatch))
                     b == OffsetBytes(o) \o LengthBytes(o.length - MinMatch)
                     c == LengthBytes(o.length - MinMatch)
          <6>1. a \in Seq(Nat) /\ b \in Seq(Nat) /\ EncodedOp(o) = a \o b /\ Len(b) = 2 + Len(c)
                /\ o.length - MinMatch \in Nat
            BY <5>1, OpWritten
          <6>2. c \in Seq(Nat)
            BY <6>1, LengthBytesAre
          <6> HIDE DEF a, b, c
          <6>3. Len(a \o b) = Len(a) + Len(b) /\ Len(a) \in Nat /\ Len(b) \in Nat
            BY ONLY <6>1, JoinedCells
          <6>4. Len(c) \in Nat
            BY <6>2
          <6> QED BY <6>1, <6>3, <6>4
        <5>3. k + 1 \in 1 .. n + 2
          <6>1. n \in Nat
            BY <1>1
          <6> QED BY ONLY <4>1, <6>1
        <5>4. at[k + 1] <= size /\ at[k] \in Nat
          BY <1>1, <5>3
        <5> QED BY <1>1, <2>3, <2>4, <5>1, <5>2, <5>4
      <4>2. CASE k = n + 1
        <5> DEFINE a == EncodedLits(block.rest, 0)
                   c == LengthBytes(Len(block.rest))
        <5>0. block.rest \in Seq(Nat) /\ 0 \in 0 .. Nibble /\ Len(block.rest) \in Nat
          <6>1. block.rest \in Seq(Nat)
            BY BlockIs
          <6> QED BY <6>1, LoaderImageAssumption
        <5>1. Len(a) = 1 + Len(c) + Len(block.rest) /\ c \in Seq(Nat)
          BY <5>0, LitsWritten, LengthBytesAre
        <5>2. Len(a) \in Nat /\ Len(a) > 0
          <6> HIDE DEF a, c
          <6>1. Len(c) \in Nat
            BY <5>1
          <6> DEFINE u == Len(a)
                     v == Len(c)
                     z == Len(block.rest)
          <6>2. u = 1 + v + z /\ v \in Nat /\ z \in Nat
            BY <5>0, <5>1, <6>1
          <6> HIDE DEF u, v, z
          <6>3. u \in Nat /\ u > 0
            BY ONLY <6>2
          <6> QED BY <6>3 DEF u
        <5>3. n + 1 \in 1 .. n + 2
          BY <1>1
        <5>4. at[k] \in Nat /\ size = at[k] + Len(a)
          BY <1>1, <4>2, <5>3
        <5> HIDE DEF a
        <5> QED BY <2>3, <2>4, <5>2, <5>4
      <4>3. k \in 1 .. n \/ k = n + 1 \/ k = n + 2
        BY <1>1
      <4> QED BY <4>1, <4>2, <4>3
    <3>2. (j + k) - 1 = j + (n + 1)
      BY <1>1, <3>1
    <3>3. r = State(x, size + 1) /\ Written(x, ops, j + (n + 1))
      BY <2>2, <2>3, <2>4, <3>2
    <3>4. BlockOutcome(r, ops, j, n, src, size)
      BY <2>4, <3>3 DEF BlockOutcome, m
    <3> QED BY <1>3, <3>4 DEF r, n, size
  <2>5. CASE m # size
    <3>1. m < size /\ m + 1 \in Nat /\ (m + 1) - 1 # size
      BY <1>1, <2>5
    <3>2. r = State(x, m + 1)
      BY <2>2, <2>3
    <3>3. x \in Seq(Nat)
      BY <2>2 DEF Written
    <3>4. BlockOutcome(r, ops, j, n, src, size)
      BY <3>1, <3>2, <3>3, Zenon DEF BlockOutcome, m
    <3> QED BY <1>3, <3>4 DEF r, n, size
  <2> QED BY <2>4, <2>5
<1> QED BY <1>8, <1>9, <1>10 DEF Turned

----------------------------------------------------------------------------
(* Containers *)

(***************************************************************************)
(* Operations that lie behind others begin later by what is before them.   *)
(***************************************************************************)
LEMMA StartsShift ==
  ASSUME NEW ops, NEW j, NEW part \in Seq(AnyOperation), Placed(ops, j, part)
  PROVE  Start(ops, j + Len(part) + 1) = Start(ops, j + 1) + Start(part, Len(part) + 1)
<1> DEFINE m == Len(part)
           S == {k \in Nat : k <= m => Start(ops, j + k + 1) = Start(ops, j + 1) + Start(part, k + 1)}
<1>1. /\ ops \in Seq(AnyOperation) /\ j \in Nat /\ j + m <= Len(ops) /\ m \in Nat /\ Len(ops) \in Nat
      /\ \A i \in 1 .. m : ops[j + i] = part[i]
  BY DEF Placed
<1>2. ASSUME NEW k \in Nat, k + 1 <= m
      PROVE  /\ Start(ops, j + (k + 1) + 1) = Start(ops, j + k + 1) + OpLen(part[k + 1])
             /\ Start(part, (k + 1) + 1) = Start(part, k + 1) + OpLen(part[k + 1])
             /\ Start(part, k + 1) \in Nat /\ OpLen(part[k + 1]) \in Nat
  <2>1. k + 1 \in 1 .. m /\ j + (k + 1) \in 1 .. Len(ops) /\ j + (k + 1) = j + k + 1
    BY <1>1, <1>2
  <2>2. ops[j + (k + 1)] = part[k + 1]
    BY <1>1, <2>1
  <2>3. Start(ops, j + (k + 1) + 1) = Start(ops, j + (k + 1)) + OpLen(ops[j + (k + 1)])
    BY <1>1, <2>1, Starts
  <2>4. /\ Start(part, (k + 1) + 1) = Start(part, k + 1) + OpLen(part[k + 1])
        /\ Start(part, k + 1) \in Nat /\ OpLen(part[k + 1]) \in Nat
    BY <2>1, Starts
  <2> QED BY <2>1, <2>2, <2>3, <2>4
<1>3. Start(ops, j + 1) \in Nat
  <2>1. CASE j + 1 \in 1 .. Len(ops)
    BY <1>1, <2>1, Starts
  <2>2. CASE j + 1 = Len(ops) + 1
    BY <1>1, <2>2, Starts
  <2> QED BY <1>1, <2>1, <2>2
<1>4. 0 \in S
  <2>1. Start(part, 0 + 1) = 0 /\ j + 0 + 1 = j + 1
    BY <1>1, Starts
  <2> QED BY <1>3, <2>1
<1>5. ASSUME NEW k \in Nat, k \in S PROVE k + 1 \in S
  <2> SUFFICES ASSUME k + 1 <= m
               PROVE  Start(ops, j + (k + 1) + 1) = Start(ops, j + 1) + Start(part, (k + 1) + 1)
    OBVIOUS
  <2>1. Start(ops, j + k + 1) = Start(ops, j + 1) + Start(part, k + 1)
    BY <1>1, <1>5
  <2> DEFINE a == Start(ops, j + 1)
             b == Start(part, k + 1)
             x == OpLen(part[k + 1])
  <2>2. /\ Start(ops, j + (k + 1) + 1) = (a + b) + x /\ Start(part, (k + 1) + 1) = b + x
        /\ a \in Nat /\ b \in Nat /\ x \in Nat
    BY <1>2, <1>3, <2>1
  <2> HIDE DEF a, b, x
  <2>3. Start(ops, j + (k + 1) + 1) = a + Start(part, (k + 1) + 1)
    BY <2>2
  <2> QED BY <2>3 DEF a
<1> HIDE DEF S
<1>6. Nat \subseteq S
  BY <1>4, <1>5, Induct
<1> QED BY <1>1, <1>6 DEF S

\* The cells and the operations of each block
Boxes(blocks) == [k \in 1 .. Len(blocks) |-> Cells(blocks[k])]
OpLists(blocks) == [k \in 1 .. Len(blocks) |-> Operations(blocks[k])]

\* cells are what there is of a container; its blocks lie behind c, their
\* operations behind w.  Only the last block may be cut off.
IsContainer(blocks, cells, c, w) ==
  /\ blocks \in Seq(Plan)
  /\ IsLaid(EncodedCells(blocks), Boxes(blocks), c) /\ IsLaid(AllOperations(blocks), OpLists(blocks), w)
  /\ cells \in Seq(Nat) /\ Reads(cells, 0, EncodedCells(blocks)) /\ Len(cells) <= Len(EncodedCells(blocks))
  /\ Len(cells) < Len(EncodedCells(blocks)) => blocks # <<>> /\ c[Len(blocks)] < Len(cells)

(***************************************************************************)
(* The cells of a block are numbers.                                       *)
(***************************************************************************)
LEMMA CellsTyped ==
  ASSUME NEW block \in Plan
  PROVE  LET bytes == EncodedBlock(block)
             size == Len(bytes)
             total == Start(Operations(block), Len(block.ops) + 2)
         IN /\ size \in Nat /\ total \in Nat /\ bytes \in Seq(Nat) /\ <<size, total>> \in Seq(Nat)
            /\ Cells(block) = <<size, total>> \o bytes /\ Cells(block) \in Seq(Nat)
            /\ Len(Cells(block)) = 2 + size
            /\ Len(block.ops) \in Nat /\ Operations(block) \in Seq(AnyOperation)
            /\ Len(Operations(block)) = Len(block.ops) + 1
<1> DEFINE bytes == EncodedBlock(block)
           size == Len(bytes)
           n == Len(block.ops)
           total == Start(Operations(block), n + 2)
           front == <<size, total>>
<1>1. bytes \in Seq(Nat) /\ n \in Nat /\ Operations(block) \in Seq(AnyOperation) /\ Len(Operations(block)) = n + 1
  BY BlockParts
<1>2. size \in Nat
  BY <1>1
<1>3. total \in Nat
  <2>1. Start(Operations(block), Len(Operations(block)) + 1) \in Nat
    BY <1>1, Starts
  <2>2. Len(Operations(block)) + 1 = n + 2
    BY <1>1
  <2> QED BY <2>1, <2>2
<1>4. Cells(block) = front \o bytes
  BY DEF Cells
<1> HIDE DEF size, total, bytes, n
<1>5. front \in Seq(Nat) /\ Len(front) = 2
  BY <1>2, <1>3
<1> HIDE DEF front
<1>6. front \o bytes \in Seq(Nat) /\ Len(front \o bytes) = Len(front) + Len(bytes)
  BY ONLY <1>1, <1>5, JoinedCells
<1>7. Cells(block) \in Seq(Nat) /\ Len(Cells(block)) = 2 + size
  BY <1>4, <1>5, <1>6 DEF size
<1> QED BY <1>1, <1>2, <1>3, <1>4, <1>5, <1>7 DEF front, size, total, bytes, n

(***************************************************************************)
(* A container is laid out.                                                *)
(***************************************************************************)
LEMMA ContainerLaid ==
  ASSUME NEW blocks \in Seq(Plan)
  PROVE  /\ Boxes(blocks) \in Seq(Seq(Nat)) /\ Len(Boxes(blocks)) = Len(blocks)
         /\ OpLists(blocks) \in Seq(Seq(AnyOperation)) /\ Len(OpLists(blocks)) = Len(blocks)
         /\ EncodedCells(blocks) \in Seq(Nat) /\ AllOperations(blocks) \in Seq(AnyOperation)
         /\ \E c : IsLaid(EncodedCells(blocks), Boxes(blocks), c)
         /\ \E w : IsLaid(AllOperations(blocks), OpLists(blocks), w)
<1> DEFINE N == Len(blocks)
<1>1. N \in Nat /\ \A k \in 1 .. N : blocks[k] \in Plan
  OBVIOUS
<1>2. \A k \in 1 .. N : Cells(blocks[k]) \in Seq(Nat)
  <2> SUFFICES ASSUME NEW k \in 1 .. N PROVE Cells(blocks[k]) \in Seq(Nat)
    OBVIOUS
  <2> DEFINE b == blocks[k]
  <2>1. b \in Plan
    BY <1>1
  <2> HIDE DEF b
  <2>2. Cells(b) \in Seq(Nat)
    BY <2>1, CellsTyped
  <2> QED BY <2>2 DEF b
<1>3. \A k \in 1 .. N : Operations(blocks[k]) \in Seq(AnyOperation)
  <2> SUFFICES ASSUME NEW k \in 1 .. N PROVE Operations(blocks[k]) \in Seq(AnyOperation)
    OBVIOUS
  <2> DEFINE b == blocks[k]
  <2>1. b \in Plan
    BY <1>1
  <2> HIDE DEF b
  <2>2. Operations(b) \in Seq(AnyOperation)
    BY <2>1, CellsTyped
  <2> QED BY <2>2 DEF b
<1>4. Boxes(blocks) \in Seq(Seq(Nat)) /\ Len(Boxes(blocks)) = N
  BY <1>1, <1>2 DEF Boxes
<1>5. OpLists(blocks) \in Seq(Seq(AnyOperation)) /\ Len(OpLists(blocks)) = N
  BY <1>1, <1>3 DEF OpLists
<1>6. EncodedCells(blocks) = FlattenSeq(Boxes(blocks)) /\ AllOperations(blocks) = FlattenSeq(OpLists(blocks))
  BY DEF EncodedCells, AllOperations, Boxes, OpLists
<1>7. EncodedCells(blocks) \in Seq(Nat) /\ \E c : IsLaid(EncodedCells(blocks), Boxes(blocks), c)
  BY <1>4, <1>6, FlattenLaid
<1>8. AllOperations(blocks) \in Seq(AnyOperation) /\ \E w : IsLaid(AllOperations(blocks), OpLists(blocks), w)
  BY <1>5, <1>6, FlattenLaid
<1> QED BY <1>4, <1>5, <1>7, <1>8

\* The cells of a block lie from c to e, its operations behind j.
IsBox(block, cells, ops, c, e, j, i) ==
  /\ block \in Plan /\ Reads(cells, c, Cells(block)) /\ e = c + (2 + Len(EncodedBlock(block)))
  /\ Placed(ops, j, Operations(block)) /\ i = j + (Len(block.ops) + 1)

(***************************************************************************)
(* What a turn has to do with.                                             *)
(***************************************************************************)
LEMMA ContainerIs ==
  ASSUME NEW blocks, NEW cells, NEW c, NEW w, IsContainer(blocks, cells, c, w)
  PROVE  LET N == Len(blocks)
             whole == EncodedCells(blocks)
             ops == AllOperations(blocks)
         IN /\ N \in Nat /\ cells \in Seq(Nat) /\ Len(cells) \in Nat /\ Len(whole) \in Nat
            /\ ops \in Seq(AnyOperation) /\ Len(cells) <= Len(whole)
            /\ c \in [1 .. N + 1 -> Nat] /\ c[1] = 0 /\ c[N + 1] = Len(whole)
            /\ w \in [1 .. N + 1 -> Nat] /\ w[1] = 0 /\ w[N + 1] = Len(ops)
            /\ \A j, k \in 1 .. N + 1 : j <= k => c[j] <= c[k]
            /\ \A k \in 1 .. N : IsBox(blocks[k], cells, ops, c[k], c[k + 1], w[k], w[k + 1])
            /\ Len(cells) < Len(whole) => N # 0 /\ c[N] < Len(cells)
<1> DEFINE N == Len(blocks)
           whole == EncodedCells(blocks)
           ops == AllOperations(blocks)
           boxes == Boxes(blocks)
           lists == OpLists(blocks)
<1>1. /\ blocks \in Seq(Plan) /\ IsLaid(whole, boxes, c) /\ IsLaid(ops, lists, w)
      /\ cells \in Seq(Nat) /\ Reads(cells, 0, whole) /\ Len(cells) <= Len(whole)
      /\ Len(cells) < Len(whole) => blocks # <<>> /\ c[Len(blocks)] < Len(cells)
  BY DEF IsContainer
<1>2. /\ N \in Nat /\ boxes \in Seq(Seq(Nat)) /\ Len(boxes) = N
      /\ lists \in Seq(Seq(AnyOperation)) /\ Len(lists) = N
      /\ whole \in Seq(Nat) /\ ops \in Seq(AnyOperation)
  BY <1>1, ContainerLaid
<1>3. \A k \in 1 .. N : boxes[k] = Cells(blocks[k]) /\ lists[k] = Operations(blocks[k]) /\ blocks[k] \in Plan
  BY <1>1, <1>2 DEF Boxes, OpLists
<1> HIDE DEF N, whole, ops, boxes, lists
<1>4. /\ c \in [1 .. N + 1 -> Nat] /\ c[1] = 0 /\ Len(whole) = c[N + 1]
      /\ \A j, k \in 1 .. N + 1 : j <= k => c[j] <= c[k]
      /\ \A k \in 1 .. N : c[k + 1] = c[k] + Len(boxes[k])
  BY <1>1, <1>2 DEF IsLaid
<1>5. /\ w \in [1 .. N + 1 -> Nat] /\ w[1] = 0 /\ Len(ops) = w[N + 1]
      /\ \A j, k \in 1 .. N + 1 : j <= k => w[j] <= w[k]
      /\ \A k \in 1 .. N : w[k + 1] = w[k] + Len(lists[k])
      /\ \A k \in 1 .. N : \A i \in 1 .. Len(lists[k]) : ops[w[k] + i] = lists[k][i]
  BY <1>1, <1>2 DEF IsLaid
<1>6. Len(cells) \in Nat /\ Len(whole) \in Nat
  BY <1>1, <1>2
<1>7. Len(cells) < Len(whole) => N # 0 /\ c[N] < Len(cells)
  <2>1. blocks # <<>> => N # 0
    BY <1>1, EmptySeq DEF N
  <2> QED BY <1>1, <2>1 DEF N
<1>8. ASSUME NEW k \in 1 .. N
      PROVE  IsBox(blocks[k], cells, ops, c[k], c[k + 1], w[k], w[k + 1])
  <2> DEFINE b == blocks[k]
             part == Operations(b)
  <2>1. b \in Plan /\ boxes[k] = Cells(b) /\ lists[k] = part
    BY <1>3
  <2> HIDE DEF b
  <2>2. Len(Cells(b)) = 2 + Len(EncodedBlock(b)) /\ Len(part) = Len(b.ops) + 1 /\ Len(b.ops) \in Nat
    BY <2>1, CellsTyped
  <2>3. Reads(cells, c[k], Cells(b))
    <3>1. Reads(cells, c[k], boxes[k])
      BY <1>1, <1>2, ReadsLaid
    <3> QED BY <2>1, <3>1
  <2> HIDE DEF part
  <2>4. Placed(ops, w[k], part)
    <3>1. w[k] \in Nat /\ w[k + 1] = w[k] + Len(part) /\ \A i \in 1 .. Len(part) : ops[w[k] + i] = part[i]
      <4>1. k \in 1 .. N + 1
        BY <1>2
      <4> QED BY <1>5, <2>1, <4>1
    <3>2. w[k + 1] <= Len(ops)
      <4>1. k + 1 \in 1 .. N + 1 /\ N + 1 \in 1 .. N + 1 /\ k + 1 <= N + 1
        BY <1>2
      <4> QED BY <1>5, <4>1
    <3> QED BY <1>2, <3>1, <3>2 DEF Placed
  <2>5. c[k + 1] = c[k] + (2 + Len(EncodedBlock(b))) /\ w[k + 1] = w[k] + (Len(b.ops) + 1)
    BY <1>4, <1>5, <2>1, <2>2
  <2>6. IsBox(b, cells, ops, c[k], c[k + 1], w[k], w[k + 1])
    BY <2>1, <2>3, <2>4, <2>5 DEF IsBox, part
  <2> QED BY <2>6 DEF b
<1> QED BY <1>1, <1>2, <1>4, <1>5, <1>6, <1>7, <1>8, Zenon DEF N, whole, ops

(***************************************************************************)
(* A turn behind the end, or behind a failure, changes nothing.            *)
(***************************************************************************)
LEMMA NoBlock ==
  ASSUME NEW cells \in Seq(Nat)
  PROVE  /\ Block(cells, Failed) = Failed
         /\ \A x : \A p \in Nat : p > Len(cells) => Block(cells, State(x, p)) = State(x, p)
<1>1. Len(cells) \in Nat
  OBVIOUS
<1>2. Block(cells, Failed) = Failed
  <2>1. Failed.ok = FALSE
    BY DEF Failed
  <2> QED BY <2>1 DEF Block
<1>3. ASSUME NEW x, NEW p \in Nat, p > Len(cells) PROVE Block(cells, State(x, p)) = State(x, p)
  <2> DEFINE st == State(x, p)
  <2>1. st.at = p /\ st.ok
    BY DEF State
  <2> HIDE DEF st
  <2>2. st.at > Len(cells) /\ ~(st.at < Len(cells)) /\ st.at # Len(cells)
    BY <1>1, <1>3, <2>1
  <2>3. Block(cells, st) = st
    BY <2>1, <2>2 DEF Block
  <2> QED BY <2>3 DEF st
<1> QED BY <1>2, <1>3

\* The slice of the cells that a block is decoded from
BlockSlice(cells, d, size) == Clip(cells, d + 2 + 1, d + 2 + size)

(***************************************************************************)
(* A turn, by the sizes that it reads.                                     *)
(***************************************************************************)
LEMMA BlockIsRead ==
  ASSUME NEW cells \in Seq(Nat), NEW out, NEW d \in Nat, d + 1 <= Len(cells),
         NEW size \in Nat, NEW total, NEW bytes \in Seq(Nat), Reads(cells, d, <<size, total>> \o bytes),
         <<size, total>> \in Seq(Nat)
  PROVE  LET next == Block(cells, State(out, d + 1))
             r == Decoded(out, BlockSlice(cells, d, size))
         IN /\ d + 1 = Len(cells) => next = Failed
            /\ d + 1 < Len(cells) =>
                 next = IF r.ok /\ r.at - 1 = size /\ Len(r.out) - Len(out) = total
                        THEN State(r.out, d + 1 + 2 + size) ELSE Failed
            /\ Reads(cells, d + 2, bytes)
<1> DEFINE st == State(out, d + 1)
           r == Decoded(out, BlockSlice(cells, d, size))
           front == <<size, total>>
<1>1. st.ok /\ st.at = d + 1 /\ st.out = out /\ Len(cells) \in Nat
  BY DEF State
<1>2. Reads(cells, d, front) /\ Reads(cells, d + 2, bytes)
  <2>1. front \in Seq(Nat) /\ Len(front) = 2 /\ Reads(cells, d, front \o bytes)
    OBVIOUS
  <2> HIDE DEF front
  <2>2. Reads(cells, d, front) /\ Reads(cells, d + Len(front), bytes)
    BY ONLY <2>1, ReadsBoth, cells \in Seq(Nat), d \in Nat, bytes \in Seq(Nat)
  <2> QED BY <2>1, <2>2
<1>3. /\ 1 \in 1 .. Len(front) /\ 2 \in 1 .. Len(front)
      /\ front[1] = size /\ front[2] = total
  OBVIOUS
<1>4. cells[d + 1] = size
  BY <1>2, <1>3, Zenon DEF Reads
<1> HIDE DEF st
<1>5. CASE d + 1 = Len(cells)
  <2>1. st.at = Len(cells) /\ ~(st.at > Len(cells)) /\ ~(st.at < Len(cells))
    BY <1>1, <1>5
  <2>2. Block(cells, st) = Failed
    BY <1>1, <2>1 DEF Block
  <2>3. ~(d + 1 < Len(cells))
    BY <1>5
  <2> HIDE DEF r
  <2> QED BY <1>2, <2>2, <2>3 DEF st, r
<1>6. CASE d + 1 < Len(cells)
  <2>1. st.at < Len(cells) /\ ~(st.at > Len(cells)) /\ st.at # Len(cells)
    BY <1>1, <1>6
  <2>2. cells[d + 2] = total
    <3>1. d + 2 <= Len(cells)
      BY <1>1, <1>6
    <3> QED BY <1>2, <1>3, <3>1, Zenon DEF Reads
  <2> DEFINE slice == Clip(cells, st.at + 2, st.at + 1 + cells[st.at])
             b == Decoded(st.out, slice)
  <2>3. Block(cells, st)
          = IF b.ok /\ b.at - 1 = cells[st.at] /\ Len(b.out) - Len(st.out) = cells[st.at + 1]
            THEN State(b.out, st.at + 2 + cells[st.at]) ELSE Failed
    BY <1>1, <2>1 DEF Block
  <2>4. slice = BlockSlice(cells, d, size)
    <3>1. st.at + 2 = d + 2 + 1 /\ st.at + 1 + cells[st.at] = d + 2 + size
      BY <1>1, <1>4
    <3> QED BY <3>1, Zenon DEF BlockSlice
  <2>5. b = r /\ cells[st.at] = size /\ cells[st.at + 1] = total /\ st.at + 2 + cells[st.at] = d + 1 + 2 + size
    <3>1. b = r
      BY <1>1, <2>4
    <3>2. st.at + 1 = d + 2
      BY <1>1
    <3> HIDE DEF b, r
    <3> QED BY <1>1, <1>4, <2>2, <3>1, <3>2
  <2> HIDE DEF b, r
  <2>6. Block(cells, st) = IF r.ok /\ r.at - 1 = size /\ Len(r.out) - Len(out) = total
                           THEN State(r.out, d + 1 + 2 + size) ELSE Failed
    BY <1>1, <2>3, <2>5, Zenon
  <2>7. d + 1 # Len(cells)
    BY <1>1, <1>6
  <2> QED BY <1>2, <2>6, <2>7 DEF st, r
<1>7. d + 1 = Len(cells) \/ d + 1 < Len(cells)
  BY <1>1
<1> QED BY <1>5, <1>6, <1>7

\* The first k - 1 blocks are decoded.
Unpacked(s, k, ops, cells, c, w) ==
  \E x : s = State(x, c[k] + 1) /\ Written(x, ops, w[k]) /\ c[k] <= Len(cells)

Refused(s, ops, cells, length) == s = Failed /\ (Len(cells) < length \/ ~Meant(ops))

(***************************************************************************)
(* A turn decodes one block.                                               *)
(***************************************************************************)
LEMMA BoxTurn ==
  ASSUME NEW block, NEW cells \in Seq(Nat), NEW ops \in Seq(AnyOperation), NEW d \in Nat, NEW e, NEW j, NEW i,
         IsBox(block, cells, ops, d, e, j, i), d < Len(cells),
         NEW length \in Nat, Len(cells) <= length, e <= length,
         NEW x, Written(x, ops, j)
  PROVE  LET next == Block(cells, State(x, d + 1))
         IN \/ e <= Len(cells) /\ \E y : next = State(y, e + 1) /\ Written(y, ops, i)
            \/ Refused(next, ops, cells, length)
<1> DEFINE n == Len(block.ops)
           bytes == EncodedBlock(block)
           size == Len(bytes)
           part == Operations(block)
           total == Start(part, n + 2)
           src == BlockSlice(cells, d, size)
           r == Decoded(x, src)
           next == Block(cells, State(x, d + 1))
<1>1. /\ block \in Plan /\ Reads(cells, d, Cells(block)) /\ e = d + (2 + size)
      /\ Placed(ops, j, part) /\ i = j + (n + 1)
  BY DEF IsBox
<1>2. /\ size \in Nat /\ total \in Nat /\ bytes \in Seq(Nat) /\ <<size, total>> \in Seq(Nat)
      /\ Cells(block) = <<size, total>> \o bytes /\ n \in Nat
      /\ part \in Seq(AnyOperation) /\ Len(part) = n + 1
  BY <1>1, CellsTyped
<1>3. d + 1 <= Len(cells) /\ Len(cells) \in Nat
  OBVIOUS
<1>4. j \in Nat
  BY <1>1 DEF Placed
<1>5. x \in Seq(Nat) /\ Len(x) = Start(ops, j + 1)
  BY DEF Written
<1>6. Start(ops, j + (n + 1) + 1) = Start(ops, j + 1) + total
  <2>1. Start(ops, j + Len(part) + 1) = Start(ops, j + 1) + Start(part, Len(part) + 1)
    BY <1>1, <1>2, StartsShift
  <2>2. j + Len(part) + 1 = j + (n + 1) + 1 /\ Len(part) + 1 = n + 2
    BY <1>2
  <2> QED BY <2>1, <2>2
<1>7. PICK at : IsLaid(bytes, Parts(block), at)
  <2>1. Parts(block) \in Seq(Seq(Nat)) /\ bytes = FlattenSeq(Parts(block))
    BY <1>1, BlockParts DEF EncodedBlock, Parts
  <2> HIDE DEF bytes
  <2> QED BY <2>1, FlattenLaid
<1> HIDE DEF bytes, part, total, n, size
<1>8. /\ d + 1 = Len(cells) => next = Failed
      /\ d + 1 < Len(cells) =>
           next = IF r.ok /\ r.at - 1 = size /\ Len(r.out) - Len(x) = total
                  THEN State(r.out, d + 1 + 2 + size) ELSE Failed
      /\ Reads(cells, d + 2, bytes)
  BY <1>1, <1>2, <1>3, BlockIsRead
<1> HIDE DEF next
<1>9. CASE d + 1 = Len(cells)
  <2>1. next = Failed /\ Len(cells) < length
    BY <1>1, <1>2, <1>3, <1>8, <1>9
  <2> QED BY <2>1 DEF Refused, next
<1>10. CASE d + 1 < Len(cells)
  <2>1. /\ src \in Seq(Nat) /\ Reads(src, 0, bytes)
        /\ (d + 2) + size <= Len(cells) => src = bytes
        /\ ~((d + 2) + size <= Len(cells)) => Len(src) = Len(cells) - (d + 2)
    <3> DEFINE a == d + 2
    <3>1. a \in Nat /\ a <= Len(cells) /\ Reads(cells, a, bytes)
      BY <1>3, <1>8, <1>10
    <3> HIDE DEF a
    <3>2. /\ Clip(cells, a + 1, a + Len(bytes)) \in Seq(Nat) /\ Reads(Clip(cells, a + 1, a + Len(bytes)), 0, bytes)
          /\ a + Len(bytes) <= Len(cells) => Clip(cells, a + 1, a + Len(bytes)) = bytes
          /\ ~(a + Len(bytes) <= Len(cells)) => Len(Clip(cells, a + 1, a + Len(bytes))) = Len(cells) - a
      BY ONLY <1>2, <3>1, ClipReads, cells \in Seq(Nat)
    <3>3. src = Clip(cells, a + 1, a + Len(bytes))
      BY Zenon DEF BlockSlice, a, size
    <3> QED BY <3>2, <3>3, Zenon DEF a, size
  <2> HIDE DEF src
  <2>2. Len(src) <= size /\ Len(src) \in Nat /\ (e <= Len(cells) => Len(src) = size)
        /\ (Len(src) = size => e <= Len(cells)) /\ (Len(src) < size => Len(cells) < length)
    <3>1. CASE (d + 2) + size <= Len(cells)
      <4>1. Len(src) = size /\ e <= Len(cells)
        BY <1>1, <1>2, <2>1, <3>1 DEF size
      <4> QED BY <1>2, <4>1
    <3>2. CASE ~((d + 2) + size <= Len(cells))
      <4>1. Len(src) = Len(cells) - (d + 2) /\ ~(e <= Len(cells)) /\ e = d + (2 + size)
        BY <1>1, <1>2, <1>3, <2>1, <3>2
      <4> DEFINE z == Len(cells)
                 y == Len(src)
      <4>2. y = z - (d + 2) /\ z \in Nat /\ ~((d + 2) + size <= z) /\ d + 1 < z /\ z <= length /\ e <= length
        BY <1>3, <1>10, <3>2, <4>1
      <4> HIDE DEF z, y
      <4>3. y <= size /\ y \in Nat /\ ~(e <= z) /\ y # size /\ z < length
        BY ONLY <1>2, <4>1, <4>2, d \in Nat, length \in Nat
      <4> QED BY <4>3 DEF z, y
    <3> QED BY <3>1, <3>2
  <2>3. BlockOutcome(r, ops, j, n, src, size)
    <3>1. IsBlock(block, ops, j, src, at)
      BY <1>1, <1>7, <2>1, <2>2 DEF IsBlock, bytes, part, size
    <3> QED BY <3>1, BlockDecoded DEF n, size, bytes
  <2> HIDE DEF r
  <2>4. next = IF r.ok /\ r.at - 1 = size /\ Len(r.out) - Len(x) = total
               THEN State(r.out, d + 1 + 2 + size) ELSE Failed
    BY <1>8, <1>10
  <2>5. CASE Len(src) = size /\ \E y : r = State(y, size + 1) /\ Written(y, ops, j + (n + 1))
    <3>1. PICK y : r = State(y, size + 1) /\ Written(y, ops, j + (n + 1))
      BY <2>5
    <3>2. r.ok /\ r.at = size + 1 /\ r.out = y
      BY <3>1 DEF State
    <3>3. Len(y) = Start(ops, j + (n + 1) + 1) /\ y \in Seq(Nat)
      BY <3>1 DEF Written
    <3>4. Len(y) - Len(x) = total /\ (size + 1) - 1 = size
      BY <1>2, <1>5, <1>6, <3>3
    <3>5. next = State(y, d + 1 + 2 + size)
      BY <2>4, <3>2, <3>4, Zenon
    <3>6. d + 1 + 2 + size = e + 1
      BY <1>1, <1>2
    <3>7. next = State(y, e + 1) /\ Written(y, ops, i) /\ e <= Len(cells)
      BY <1>1, <2>2, <2>5, <3>1, <3>5, <3>6
    <3> QED BY <3>7 DEF next
  <2>6. CASE r = Failed /\ (Len(src) < size \/ ~Meant(ops))
    <3>1. ~r.ok
      BY <2>6 DEF Failed
    <3>2. next = Failed
      BY <2>4, <3>1
    <3>3. Refused(next, ops, cells, length)
      BY <2>2, <2>6, <3>2 DEF Refused
    <3> QED BY <3>3 DEF next
  <2>7. CASE /\ Len(src) < size
             /\ \E y \in Seq(Nat) : \E p \in Nat :
                  r = State(y, p) /\ (p - 1 # size \/ Len(y) # Start(ops, j + (n + 1) + 1))
    <3>1. PICK y \in Seq(Nat) : \E p \in Nat :
            r = State(y, p) /\ (p - 1 # size \/ Len(y) # Start(ops, j + (n + 1) + 1))
      BY <2>7
    <3>2. PICK p \in Nat : r = State(y, p) /\ (p - 1 # size \/ Len(y) # Start(ops, j + (n + 1) + 1))
      BY <3>1
    <3>3. r.at = p /\ r.out = y
      BY <3>2 DEF State
    <3>4. ~(r.at - 1 = size /\ Len(r.out) - Len(x) = total)
      <4> DEFINE a == Len(y)
                 b == Len(x)
      <4>1. a \in Nat /\ b \in Nat /\ (p - 1 # size \/ a # b + total) /\ r.at = p /\ Len(r.out) = a
        BY <1>5, <1>6, <3>1, <3>2, <3>3
      <4> HIDE DEF a, b
      <4>2. ~(p - 1 = size /\ a - b = total)
        BY ONLY <1>2, <4>1
      <4> QED BY <4>1, <4>2 DEF b
    <3>5. next = Failed
      BY <2>4, <3>4, Zenon
    <3>6. Refused(next, ops, cells, length)
      BY <2>2, <2>7, <3>5 DEF Refused
    <3> QED BY <3>6 DEF next
  <2> QED BY <2>3, <2>5, <2>6, <2>7, Zenon DEF BlockOutcome
<1>11. d + 1 = Len(cells) \/ d + 1 < Len(cells)
  BY <1>3
<1> QED BY <1>9, <1>10, <1>11

\* After t turns
Opened(s, t, N, ops, cells, c, w, length) ==
  \/ \E k \in 1 .. N + 1 : Unpacked(s, k, ops, cells, c, w) /\ (c[k] = Len(cells) \/ c[k] >= t)
  \/ Refused(s, ops, cells, length)

(***************************************************************************)
(* Every turn decodes the next block, or refuses it.                       *)
(***************************************************************************)
LEMMA OpenedOn ==
  ASSUME NEW blocks, NEW cells, NEW c, NEW w, IsContainer(blocks, cells, c, w), NEW t \in Nat,
         NEW s, Opened(s, t, Len(blocks), AllOperations(blocks), cells, c, w, Len(EncodedCells(blocks)))
  PROVE  Opened(Block(cells, s), t + 1, Len(blocks), AllOperations(blocks), cells, c, w,
                Len(EncodedCells(blocks)))
<1> DEFINE N == Len(blocks)
           length == Len(EncodedCells(blocks))
           ops == AllOperations(blocks)
           m == Len(cells)
           next == Block(cells, s)
<1>1. /\ N \in Nat /\ cells \in Seq(Nat) /\ m \in Nat /\ length \in Nat
      /\ ops \in Seq(AnyOperation) /\ m <= length
      /\ c \in [1 .. N + 1 -> Nat] /\ c[1] = 0 /\ c[N + 1] = length
      /\ \A j, k \in 1 .. N + 1 : j <= k => c[j] <= c[k]
      /\ \A k \in 1 .. N : IsBox(blocks[k], cells, ops, c[k], c[k + 1], w[k], w[k + 1])
  BY ContainerIs
<1> SUFFICES Opened(next, t + 1, N, ops, cells, c, w, length)
  OBVIOUS
<1> HIDE DEF N, length, ops
<1>2. CASE Refused(s, ops, cells, length)
  <2>1. next = s
    BY <1>1, <1>2, NoBlock DEF Refused
  <2> HIDE DEF next
  <2> QED BY <1>2, <2>1 DEF Opened
<1>3. CASE \E k \in 1 .. N + 1 : Unpacked(s, k, ops, cells, c, w) /\ (c[k] = m \/ c[k] >= t)
  <2>1. PICK k \in 1 .. N + 1 : Unpacked(s, k, ops, cells, c, w) /\ (c[k] = m \/ c[k] >= t)
    BY <1>3
  <2>2. PICK x : s = State(x, c[k] + 1) /\ Written(x, ops, w[k]) /\ c[k] <= m
    BY <2>1 DEF Unpacked
  <2>3. c[k] \in Nat
    BY <1>1
  <2>4. CASE c[k] = m
    <3>1. c[k] + 1 \in Nat /\ c[k] + 1 > m
      BY <1>1, <2>4
    <3>2. next = s
      BY <1>1, <2>2, <3>1, NoBlock
    <3> HIDE DEF next, m
    <3> QED BY <2>1, <2>4, <3>2 DEF Opened, m
  <2>5. CASE c[k] < m
    <3>1. k # N + 1 /\ c[k] >= t
      BY <1>1, <2>1, <2>3, <2>5
    <3>2. k \in 1 .. N /\ k + 1 \in 1 .. N + 1 /\ N + 1 \in 1 .. N + 1 /\ k + 1 <= N + 1
      BY <1>1, <3>1
    <3>3. IsBox(blocks[k], cells, ops, c[k], c[k + 1], w[k], w[k + 1]) /\ c[k + 1] <= length /\ c[k + 1] \in Nat
      BY <1>1, <3>2
    <3>4. c[k] < c[k + 1]
      <4> DEFINE b == blocks[k]
      <4>1. b \in Plan /\ c[k + 1] = c[k] + (2 + Len(EncodedBlock(b)))
        BY <3>3 DEF IsBox
      <4> HIDE DEF b
      <4>2. Len(EncodedBlock(b)) \in Nat
        BY <4>1, CellsTyped
      <4> QED BY <2>3, <4>1, <4>2
    <3> DEFINE d == c[k]
               e == c[k + 1]
    <3>5. \/ e <= Len(cells) /\ \E y : Block(cells, State(x, d + 1)) = State(y, e + 1) /\ Written(y, ops, w[k + 1])
          \/ Refused(Block(cells, State(x, d + 1)), ops, cells, length)
      <4>1. /\ IsBox(blocks[k], cells, ops, d, e, w[k], w[k + 1]) /\ d \in Nat /\ d < Len(cells)
            /\ e <= length /\ Written(x, ops, w[k]) /\ length \in Nat /\ Len(cells) <= length
        BY <1>1, <2>2, <2>3, <2>5, <3>3
      <4> HIDE DEF d, e
      <4> QED BY ONLY <1>1, <4>1, BoxTurn
    <3>6. Block(cells, State(x, d + 1)) = next
      BY <2>2
    <3> HIDE DEF next
    <3>7. CASE e <= m /\ \E y : next = State(y, e + 1) /\ Written(y, ops, w[k + 1])
      <4>1. Unpacked(next, k + 1, ops, cells, c, w)
        BY <3>7 DEF Unpacked
      <4>2. c[k + 1] >= t + 1
        BY <2>3, <3>1, <3>3, <3>4
      <4> QED BY <3>2, <4>1, <4>2 DEF Opened
    <3>8. CASE Refused(next, ops, cells, length)
      BY <3>8 DEF Opened
    <3> QED BY <3>5, <3>6, <3>7, <3>8
  <2> QED BY <1>1, <2>2, <2>3, <2>4, <2>5
<1> QED BY <1>2, <1>3 DEF Opened, N, length, ops

(***************************************************************************)
(* A whole container is decoded to what its operations spell; one that is  *)
(* cut off is refused, and so is one that repeats what is not there.       *)
(***************************************************************************)
LEMMA ContainerDecoded ==
  ASSUME NEW blocks, NEW cells, NEW c, NEW w, IsContainer(blocks, cells, c, w)
  PROVE  LET r == Blocks(cells)
             length == Len(EncodedCells(blocks))
             ops == AllOperations(blocks)
         IN \/ Len(cells) = length /\ \E x : r = State(x, length + 1) /\ Written(x, ops, Len(ops))
            \/ Refused(r, ops, cells, length)
<1> DEFINE N == Len(blocks)
           length == Len(EncodedCells(blocks))
           ops == AllOperations(blocks)
           m == Len(cells)
<1>1. /\ N \in Nat /\ cells \in Seq(Nat) /\ m \in Nat /\ length \in Nat
      /\ ops \in Seq(AnyOperation) /\ m <= length
      /\ c \in [1 .. N + 1 -> Nat] /\ c[1] = 0 /\ c[N + 1] = length
      /\ w[1] = 0 /\ w[N + 1] = Len(ops)
      /\ \A j, k \in 1 .. N + 1 : j <= k => c[j] <= c[k]
      /\ \A k \in 1 .. N : IsBox(blocks[k], cells, ops, c[k], c[k + 1], w[k], w[k + 1])
      /\ m < length => N # 0 /\ c[N] < m
  BY ContainerIs
<1>2. PICK p : Unpacks(p, cells, m)
  BY <1>1, UnpackingExists
<1>3. Blocks(cells) = p[m]
  BY <1>1, <1>2, BlocksLoop
<1>4. p[0] = State(<<>>, 1) /\ \A k \in 1 .. m : p[k] = Block(cells, p[k - 1])
  BY <1>2, Zenon DEF Unpacks
<1> DEFINE S == {t \in Nat : t <= m => Opened(p[t], t, N, ops, cells, c, w, length)}
<1>5. 0 \in S
  <2>1. 1 \in 1 .. N + 1 /\ c[1] + 1 = 1 /\ c[1] <= m /\ c[1] >= 0
    BY <1>1
  <2> HIDE DEF N, ops, length
  <2>2. Written(<<>>, ops, 0)
    BY <1>1, WrittenNone
  <2>3. Unpacked(p[0], 1, ops, cells, c, w)
    <3>1. p[0] = State(<<>>, c[1] + 1) /\ Written(<<>>, ops, w[1])
      BY <1>1, <1>4, <2>1, <2>2
    <3> QED BY <2>1, <3>1 DEF Unpacked
  <2>4. Opened(p[0], 0, N, ops, cells, c, w, length)
    BY <2>1, <2>3 DEF Opened
  <2> QED BY <2>4
<1>6. ASSUME NEW t \in Nat, t \in S PROVE t + 1 \in S
  <2> SUFFICES ASSUME t + 1 <= m PROVE Opened(p[t + 1], t + 1, N, ops, cells, c, w, length)
    OBVIOUS
  <2>1. t + 1 \in 1 .. m /\ (t + 1) - 1 = t /\ t <= m
    BY <1>1
  <2>2. p[t + 1] = Block(cells, p[t])
    <3>1. p[t + 1] = Block(cells, p[(t + 1) - 1])
      BY <1>4, <2>1, Zenon
    <3> QED BY <2>1, <3>1
  <2>3. Opened(p[t], t, N, ops, cells, c, w, length)
    BY <1>6, <2>1
  <2> QED BY <2>2, <2>3, OpenedOn
<1> HIDE DEF S
<1>7. Nat \subseteq S
  BY <1>5, <1>6, Induct
<1> DEFINE r == p[m]
<1>8. Opened(r, m, N, ops, cells, c, w, length)
  BY <1>1, <1>7 DEF S
<1> HIDE DEF r, N, ops, length
<1>9. CASE \E k \in 1 .. N + 1 : Unpacked(r, k, ops, cells, c, w) /\ (c[k] = m \/ c[k] >= m)
  <2>1. PICK k \in 1 .. N + 1 : Unpacked(r, k, ops, cells, c, w) /\ (c[k] = m \/ c[k] >= m)
    BY <1>9
  <2>2. PICK x : r = State(x, c[k] + 1) /\ Written(x, ops, w[k]) /\ c[k] <= m
    BY <2>1 DEF Unpacked
  <2>3. c[k] = m
    BY <1>1, <2>1, <2>2
  <2>4. k = N + 1
    <3> SUFFICES ASSUME k # N + 1 PROVE FALSE
      OBVIOUS
    <3>1. k \in 1 .. N /\ k <= N /\ N \in 1 .. N + 1 /\ k + 1 \in 1 .. N + 1 /\ N + 1 \in 1 .. N + 1 /\ k + 1 <= N + 1
      BY <1>1
    <3>2. c[k] <= c[N] /\ c[k + 1] <= length /\ c[N] \in Nat /\ c[k + 1] \in Nat
      BY <1>1, <3>1
    <3>3. c[k] < c[k + 1]
      <4> DEFINE b == blocks[k]
      <4>1. b \in Plan /\ c[k + 1] = c[k] + (2 + Len(EncodedBlock(b)))
        BY <1>1, <3>1 DEF IsBox
      <4> HIDE DEF b
      <4>2. Len(EncodedBlock(b)) \in Nat
        BY <4>1, CellsTyped
      <4> QED BY <1>1, <2>3, <4>1, <4>2
    <3>4. m < length
      BY <1>1, <2>3, <3>2, <3>3
    <3> QED BY <1>1, <2>3, <3>2, <3>4
  <2>5. m = length /\ r = State(x, length + 1) /\ Written(x, ops, Len(ops))
    BY <1>1, <2>2, <2>3, <2>4
  <2> QED BY <1>3, <2>5 DEF r, ops, length
<1>10. CASE Refused(r, ops, cells, length)
  BY <1>3, <1>10 DEF r, ops, length
<1> QED BY <1>8, <1>9, <1>10 DEF Opened

(***************************************************************************)
(* What decompress_image returns                                           *)
(***************************************************************************)
LEMMA ContainerOutcome ==
  ASSUME NEW blocks, NEW cells, NEW c, NEW w, IsContainer(blocks, cells, c, w),
         NEW box, box.cells = cells
  PROVE  LET ops == AllOperations(blocks)
             whole == Meant(ops) /\ Len(cells) = Len(EncodedCells(blocks))
         IN /\ whole => \E x \in Seq(Nat) : DecompressImage(box) = {x} /\ Spells(x, ops)
            /\ ~whole => DecompressImage(box) = {}
<1> DEFINE r == Blocks(cells)
           length == Len(EncodedCells(blocks))
           ops == AllOperations(blocks)
           m == Len(cells)
<1>1. ops \in Seq(AnyOperation) /\ m \in Nat
  BY ContainerIs
<1>2. DecompressImage(box) = IF r.ok /\ r.at = m + 1 THEN {r.out} ELSE {}
  BY DEF DecompressImage
<1>3. \/ m = length /\ \E x : r = State(x, length + 1) /\ Written(x, ops, Len(ops))
      \/ Refused(r, ops, cells, length)
  BY ContainerDecoded
<1> HIDE DEF r, ops, length
<1>4. CASE m = length /\ \E x : r = State(x, length + 1) /\ Written(x, ops, Len(ops))
  <2>1. PICK x : r = State(x, length + 1) /\ Written(x, ops, Len(ops))
    BY <1>4
  <2>2. r.ok /\ r.at = m + 1 /\ r.out = x
    BY <1>4, <2>1 DEF State
  <2>3. DecompressImage(box) = {x}
    BY <1>2, <2>2
  <2>4. Spells(x, ops) /\ Meant(ops) /\ x \in Seq(Nat)
    BY <1>1, <2>1, WrittenAll DEF Written
  <2> QED BY <1>4, <2>3, <2>4, Zenon DEF ops, length
<1>5. CASE Refused(r, ops, cells, length)
  <2>1. DecompressImage(box) = {}
    BY <1>2, <1>5 DEF Refused, Failed
  <2>2. ~(Meant(ops) /\ m = length)
    BY <1>1, <1>5 DEF Refused
  <2> QED BY <2>1, <2>2 DEF ops, length
<1> QED BY <1>3, <1>4, <1>5

(***************************************************************************)
(* The fields of a container are right, if not its cells.                  *)
(***************************************************************************)
LEMMA ContainerFields ==
  ASSUME NEW i
  PROVE  LET box == Container(i)
             cells == EncodedCells(i.blocks)
             ops == AllOperations(i.blocks)
             found == DecompressImage([cells |-> cells])
         IN /\ box.cells = SubSeq(cells, 1, Len(cells) - i.cut)
            /\ box.outerHeader = Crc(Outer(box)) /\ box.outerData = Crc(Behind(box))
            /\ box.innerHeader = Crc(Inner(box))
            /\ box.innerData = Crc(IF found = {} THEN <<>> ELSE CHOOSE o \in found : TRUE)
            /\ box.imageSize = Start(ops, Len(ops) + 1)
            /\ box.offset = HeaderLen /\ box.length = Size - HeaderLen /\ box.attr = Attribute
<1> DEFINE cells == EncodedCells(i.blocks)
           ops == AllOperations(i.blocks)
           found == DecompressImage([cells |-> cells])
           crc == Crc(IF found = {} THEN <<>> ELSE CHOOSE o \in found : TRUE)
           size == Start(ops, Len(ops) + 1)
           here == SubSeq(cells, 1, Len(cells) - i.cut)
           len == Size - HeaderLen
           inner == [innerData |-> crc, imageSize |-> size, innerHeader |-> 0,
                     outerHeader |-> 0, outerData |-> 0, cells |-> here,
                     offset |-> HeaderLen, length |-> len, attr |-> Attribute]
           a == Crc(Inner(inner))
           checked == [inner EXCEPT !.innerHeader = a]
           b == Crc(Behind(checked))
           outer == [checked EXCEPT !.outerData = b]
           d == Crc(Outer(outer))
           box == [outer EXCEPT !.outerHeader = d]
<1>1. Container(i) = box
  BY DEF Container
<1> HIDE DEF crc, size, here, len, a, b, d
<1>2. inner.innerData = crc /\ inner.imageSize = size
  OBVIOUS
<1>3. /\ checked = [innerData |-> crc, imageSize |-> size, innerHeader |-> a,
                    outerHeader |-> 0, outerData |-> 0, cells |-> here,
                    offset |-> HeaderLen, length |-> len, attr |-> Attribute]
      /\ checked.innerHeader = a /\ checked.innerData = crc /\ checked.imageSize = size /\ checked.cells = here
  OBVIOUS
<1> HIDE DEF inner, checked
<1>4. /\ outer = [innerData |-> crc, imageSize |-> size, innerHeader |-> a,
                  outerHeader |-> 0, outerData |-> b, cells |-> here,
                  offset |-> HeaderLen, length |-> len, attr |-> Attribute]
      /\ outer.outerData = b /\ outer.offset = HeaderLen /\ outer.length = len /\ outer.attr = Attribute
  BY <1>3
<1> HIDE DEF outer
<1>5. /\ box.innerData = crc /\ box.imageSize = size /\ box.innerHeader = a /\ box.outerHeader = d
      /\ box.outerData = b /\ box.cells = here /\ box.offset = HeaderLen /\ box.length = len
      /\ box.attr = Attribute
  BY <1>4
<1> HIDE DEF box
<1>6. Inner(box) = Inner(inner) /\ Behind(box) = Behind(checked) /\ Outer(box) = Outer(outer)
  BY <1>2, <1>3, <1>4, <1>5 DEF Inner, Behind, Outer
<1>7. /\ box.outerHeader = Crc(Outer(box)) /\ box.outerData = Crc(Behind(box))
      /\ box.innerHeader = Crc(Inner(box))
  BY <1>5, <1>6 DEF a, b, d
<1> QED BY <1>1, <1>5, <1>7, Zenon DEF crc, size, here, len

(***************************************************************************)
(* What is left when the end of a container is cut off.                    *)
(***************************************************************************)
LEMMA CutContainer ==
  ASSUME NEW blocks \in Seq(Plan), NEW cut \in Nat,
         cut # 0 => blocks # <<>> /\ cut < Len(Cells(Last(blocks)))
  PROVE  LET whole == EncodedCells(blocks)
             cells == SubSeq(whole, 1, Len(whole) - cut)
         IN /\ \E c, w : IsContainer(blocks, cells, c, w)
            /\ whole \in Seq(Nat) /\ Len(cells) = Len(whole) - cut
            /\ cut = 0 => cells = whole
<1> DEFINE N == Len(blocks)
           whole == EncodedCells(blocks)
           boxes == Boxes(blocks)
           length == Len(whole)
           end == length - cut
           cells == SubSeq(whole, 1, end)
<1>1. /\ N \in Nat /\ boxes \in Seq(Seq(Nat)) /\ Len(boxes) = N /\ whole \in Seq(Nat)
      /\ \E c : IsLaid(whole, boxes, c)
      /\ \E w : IsLaid(AllOperations(blocks), OpLists(blocks), w)
  BY ContainerLaid
<1>2. PICK c : IsLaid(whole, boxes, c)
  BY <1>1
<1>3. PICK w : IsLaid(AllOperations(blocks), OpLists(blocks), w)
  BY <1>1
<1> HIDE DEF whole
<1>4. length \in Nat /\ \A k \in 1 .. length : whole[k] \in Nat
  BY <1>1, ElementOfSeq
<1>5. cut # 0 => N # 0 /\ c[N] \in Nat /\ c[N] < length - cut
  <2> SUFFICES ASSUME cut # 0 PROVE N # 0 /\ c[N] \in Nat /\ c[N] < length - cut
    OBVIOUS
  <2>1. N # 0
    BY EmptySeq
  <2>2. N \in 1 .. N /\ N \in 1 .. N + 1
    BY <1>1, <2>1
  <2>3. boxes[N] = Cells(Last(blocks))
    BY <2>2 DEF Boxes, Last
  <2>4. cut < Len(boxes[N]) /\ Len(boxes[N]) \in Nat
    <3>1. boxes[N] \in Seq(Nat)
      BY <1>1, <2>2, ElementOfSeq
    <3> QED BY <2>3, <3>1
  <2> DEFINE z == Len(boxes[N])
  <2> HIDE DEF boxes, length, N
  <2>5. c[N] \in Nat /\ length = c[N + 1] /\ c[N + 1] = c[N] + z
    BY <1>1, <1>2, <2>2 DEF IsLaid, length
  <2> HIDE DEF z
  <2>6. z \in Nat /\ cut < z
    BY <2>4 DEF z
  <2> QED BY <2>1, <2>5, <2>6
<1>6. end \in Nat /\ end <= length
  <2>1. CASE cut = 0
    BY <1>4, <2>1
  <2>2. CASE cut # 0
    BY <1>4, <1>5, <2>2
  <2> QED BY <2>1, <2>2
<1> HIDE DEF length, end
<1>7. cells \in Seq(Nat) /\ Len(cells) = end /\ \A k \in 1 .. end : cells[k] = whole[k]
  <2>1. 1 \in Int /\ end \in Int /\ \A k \in 1 .. end : whole[k] \in Nat
    BY <1>4, <1>6
  <2>2. /\ SubSeq(whole, 1, end) \in Seq(Nat) /\ Len(SubSeq(whole, 1, end)) = IF 1 <= end THEN end - 1 + 1 ELSE 0
        /\ \A k \in 1 .. end - 1 + 1 : SubSeq(whole, 1, end)[k] = whole[1 + k - 1]
    BY ONLY <2>1, SubSeqProperties
  <2>3. end - 1 + 1 = end /\ (IF 1 <= end THEN end - 1 + 1 ELSE 0) = end /\ \A k \in 1 .. end : 1 + k - 1 = k
    BY <1>6
  <2> HIDE DEF cells
  <2>4. cells = SubSeq(whole, 1, end)
    BY DEF cells
  <2> QED BY <2>2, <2>3, <2>4, Zenon
<1> HIDE DEF cells
<1>8. Reads(cells, 0, whole)
  <2> SUFFICES ASSUME NEW k \in 1 .. Len(whole), 0 + k <= Len(cells) PROVE cells[0 + k] = whole[k]
    BY DEF Reads
  <2>1. 0 + k = k /\ k \in 1 .. end
    BY <1>4, <1>6, <1>7
  <2> QED BY <1>7, <2>1
<1>9. Len(cells) <= Len(whole) /\ (Len(cells) < Len(whole) => blocks # <<>> /\ c[N] < Len(cells))
  <2>1. CASE cut = 0
    BY <1>4, <1>6, <1>7, <2>1 DEF length, end
  <2>2. CASE cut # 0
    BY <1>4, <1>5, <1>6, <1>7, <2>2 DEF length, end
  <2> QED BY <2>1, <2>2
<1>10. IsContainer(blocks, cells, c, w)
  BY <1>2, <1>3, <1>7, <1>8, <1>9 DEF IsContainer, whole
<1>11. cut = 0 => cells = whole
  <2> SUFFICES ASSUME cut = 0 PROVE cells = whole
    OBVIOUS
  <2>1. end = Len(whole)
    BY <1>4 DEF end, length
  <2> QED BY <1>1, <1>7, <2>1, SeqEqual
<1> QED BY <1>1, <1>7, <1>10, <1>11 DEF whole, cells, end, length

(***************************************************************************)
(* The image of a container, and what verify_all says of it                *)
(***************************************************************************)
LEMMA ContainerResult ==
  ASSUME NEW i \in BytesOf("container")
  PROVE  LET box == Container(i)
             found == DecompressImage(box)
             ops == AllOperations(i.blocks)
         IN IF Meant(ops) /\ i.cut = 0
            THEN \E image \in found :
                   /\ found = {image} /\ Spells(image, ops)
                   /\ VerifyAll(box) = (HeaderLen + 3 + Len(EncodedCells(i.blocks)) = Size)
            ELSE found = {} /\ VerifyAll(box) = FALSE
<1> DEFINE blocks == i.blocks
           cut == i.cut
           box == Container(i)
           found == DecompressImage(box)
           ops == AllOperations(blocks)
           whole == EncodedCells(blocks)
           cells == SubSeq(whole, 1, Len(whole) - cut)
           first == DecompressImage([cells |-> whole])
<1>1. blocks \in Seq(Plan) /\ cut \in Nat /\ (cut # 0 => blocks # <<>> /\ cut < Len(Cells(Last(blocks))))
  BY ByteAssumption
<1> HIDE DEF blocks, cut
<1>2. /\ \E c, w : IsContainer(blocks, cells, c, w)
      /\ whole \in Seq(Nat) /\ Len(cells) = Len(whole) - cut
      /\ cut = 0 => cells = whole
  BY <1>1, CutContainer
<1>3. /\ box.cells = cells
      /\ box.outerHeader = Crc(Outer(box)) /\ box.outerData = Crc(Behind(box))
      /\ box.innerHeader = Crc(Inner(box))
      /\ box.innerData = Crc(IF first = {} THEN <<>> ELSE CHOOSE o \in first : TRUE)
      /\ box.imageSize = Start(ops, Len(ops) + 1)
      /\ box.offset = HeaderLen /\ box.length = Size - HeaderLen /\ box.attr = Attribute
  BY ContainerFields DEF blocks, cut
<1> HIDE DEF box, ops, whole, cells, first
<1>4. /\ Meant(ops) /\ Len(cells) = Len(whole) => \E x \in Seq(Nat) : found = {x} /\ Spells(x, ops)
      /\ ~(Meant(ops) /\ Len(cells) = Len(whole)) => found = {}
  BY <1>2, <1>3, ContainerOutcome DEF ops, whole
<1>5. Len(cells) = Len(whole) <=> cut = 0
  <2> DEFINE a == Len(cells)
             b == Len(whole)
  <2>1. a = b - cut /\ b \in Nat
    BY <1>2
  <2> HIDE DEF a, b
  <2>2. a = b <=> cut = 0
    BY <1>1, <2>1
  <2> QED BY <2>2 DEF a, b
<1>6. VerifyAll(box) <=> /\ HeaderLen + Len(Behind(box)) = Size
                         /\ \E image \in found : /\ box.imageSize = Len(image) /\ box.innerData = Crc(image)
  BY <1>3, Zenon DEF VerifyAll, found
<1>7. VerifyAll(box) \in BOOLEAN
  BY Zenon DEF VerifyAll
<1> HIDE DEF found
<1>8. CASE Meant(ops) /\ cut = 0
  <2>1. PICK x \in Seq(Nat) : found = {x} /\ Spells(x, ops)
    BY <1>4, <1>5, <1>8
  <2>2. box.imageSize = Len(x)
    BY <1>3, <2>1 DEF Spells
  <2>3. first = found
    <3>1. cells = whole
      BY <1>2, <1>8
    <3> QED BY <1>3, <3>1, Zenon DEF first, found, DecompressImage
  <2>4. box.innerData = Crc(x)
    <3>1. (IF first = {} THEN <<>> ELSE CHOOSE o \in first : TRUE) = x
      BY <2>1, <2>3
    <3> QED BY <1>3, <3>1, Zenon
  <2>5. Len(Behind(box)) = 3 + Len(whole) /\ Len(whole) \in Nat
    <3> DEFINE X == Nat \cup {box.innerHeader, box.innerData, box.imageSize}
               p == <<box.innerHeader>>
               q == <<box.innerData, box.imageSize>>
    <3>1. Behind(box) = (p \o q) \o whole
      BY <1>2, <1>3, <1>8 DEF Behind, Inner
    <3>2. p \in Seq(X) /\ q \in Seq(X) /\ Len(p) = 1 /\ Len(q) = 2
      OBVIOUS
    <3>3. whole \in Seq(X)
      <4>1. Nat \subseteq X
        OBVIOUS
      <4> HIDE DEF X
      <4> QED BY <1>2, <4>1, SeqMonotonic
    <3> HIDE DEF X, p, q
    <3>4. p \o q \in Seq(X) /\ Len(p \o q) = Len(p) + Len(q)
      BY ONLY <3>2, Joins
    <3>5. Len((p \o q) \o whole) = Len(p \o q) + Len(whole) /\ Len(whole) \in Nat
      BY ONLY <3>3, <3>4, Joins
    <3> QED BY <3>1, <3>2, <3>4, <3>5
  <2>6. HeaderLen + Len(Behind(box)) = HeaderLen + 3 + Len(whole)
    <3>1. HeaderLen \in Nat
      BY LoaderImageAssumption
    <3> QED BY <2>5, <3>1
  <2>7. VerifyAll(box) <=> HeaderLen + 3 + Len(whole) = Size
    BY <1>6, <2>1, <2>2, <2>4, <2>6
  <2>8. VerifyAll(box) = (HeaderLen + 3 + Len(whole) = Size)
    BY <1>7, <2>7
  <2>9. \E image \in found : /\ found = {image} /\ Spells(image, ops)
                             /\ VerifyAll(box) = (HeaderLen + 3 + Len(whole) = Size)
    BY <2>1, <2>8
  <2> QED BY <1>8, <2>9 DEF box, found, ops, whole, blocks, cut
<1>9. CASE ~(Meant(ops) /\ cut = 0)
  <2>1. found = {}
    BY <1>4, <1>5, <1>9
  <2>2. VerifyAll(box) = FALSE
    BY <1>6, <1>7, <2>1
  <2> QED BY <1>9, <2>1, <2>2 DEF box, found, ops, blocks, cut
<1> QED BY <1>8, <1>9

(***************************************************************************)
(* Decompressed, for any container: decompress_image gives the image that  *)
(* the blocks spell, and refuses one that is cut short or reaches before   *)
(* it.                                                                     *)
(***************************************************************************)
THEOREM ImagesStayDecompressed == ByteSpec => []Decompressed
<1>1. ByteInv => Decompressed
  <2> SUFFICES ASSUME ByteInv, Computed("container") PROVE Decompressed
    BY DEF Decompressed
  <2> DEFINE found == DecompressImage(Container(input))
             says == VerifyAll(Container(input))
             ops == AllOperations(input.blocks)
             right == HeaderLen + 3 + Len(EncodedCells(input.blocks)) = Size
  <2>1. input \in BytesOf("container") /\ output = <<found, says>>
    BY DEF ByteInv, Computed, BytesOf, BytesResult
  <2>2. IF Meant(ops) /\ input.cut = 0
        THEN \E image \in found : found = {image} /\ Spells(image, ops) /\ says = right
        ELSE found = {} /\ says = FALSE
    BY <2>1, ContainerResult
  <2> HIDE DEF found, says, right
  <2>3. output[1] = found /\ output[2] = says
    BY <2>1
  <2>4. IF Meant(ops) /\ input.cut = 0
        THEN \E image \in output[1] : output[1] = {image} /\ Spells(image, ops) /\ output[2] = right
        ELSE output = <<{}, FALSE>>
    <3>1. CASE Meant(ops) /\ input.cut = 0
      BY <2>2, <2>3, <3>1, Zenon
    <3>2. CASE ~(Meant(ops) /\ input.cut = 0)
      BY <2>1, <2>2, <3>2, Zenon
    <3> QED BY <3>1, <3>2
  <2> QED BY <2>4, Zenon DEF Decompressed, right
<1> QED BY <1>1, BytesAreResult, PTL
=============================================================================
