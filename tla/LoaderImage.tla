---------------------------- MODULE LoaderImage ----------------------------
(***************************************************************************)
(* scripts/extract_ota_loader.py: the loader is carried in a container of  *)
(* LZ4 blocks that share one dictionary, behind two headers with CRCs.     *)
(*                                                                         *)
(* A container is a record: the fields of its headers, and its blocks as   *)
(* a sequence of cells.  A cell is a byte of a block, or one of the two    *)
(* sizes that precede a block.  The operators return sets: {} stands for   *)
(* the exceptions that verify_all turns into a refusal.                    *)
(***************************************************************************)
EXTENDS Integers, Sequences, SequencesExt, FiniteSetsExt

CONSTANTS
  Full,       \* 255: largest byte; a length goes on after it
  Nibble,     \* 15: a length of the token goes on after it
  MinMatch,   \* 4
  Size,       \* OTA_SIZE
  HeaderLen,  \* 0x20: length of the outer header and place of the inner one
  Attribute,  \* 0x41
  Crc(_)      \* jl_crc16, of any sequence

ASSUME LoaderImageAssumption ==
  /\ {Full, Nibble, MinMatch, Size, HeaderLen} \subseteq Nat \ {0}
  /\ (Nibble + 1) * (Nibble + 1) = Full + 1

\* A Python slice: cut off at the end of the sequence
Clip(s, from, to) == SubSeq(s, from, Min({to, Len(s)}))

\* The length that begins in a token, and the place after it
Lengths(src, at, nibble) ==
  IF nibble # Nibble THEN {[value |-> nibble, next |-> at]}
  ELSE LET last == {j \in at .. Len(src) : src[j] # Full} IN
       IF last = {} THEN {}
       ELSE {[value |-> Nibble + Full * (Min(last) - at) + src[Min(last)], next |-> Min(last) + 1]}

\* Mutant: the match is copied as one slice.
CopySlice(out, offset, n) ==
  out \o Clip(out, Len(out) - offset + 1, Len(out) - offset + n)

\* A match, byte by byte: it may read what it has just written.
Copy(out, offset, n) ==
  FoldLeft(LAMBDA o, k : Append(o, o[Len(o) - offset + 1]), out, [k \in 1 .. n |-> k])

\* What a loop has so far: the image, the next place, and no exception
State(out, at) == [out |-> out, at |-> at, ok |-> TRUE]
Failed == [out |-> <<>>, at |-> 0, ok |-> FALSE]

\* The match behind the literals, unless these end the block
Match(src, st, nibble) ==
  LET offset == src[st.at] + (Full + 1) * src[st.at + 1] IN
  CASE st.at > Len(src) -> st
    [] st.at = Len(src) -> Failed
    [] st.at < Len(src) ->
         LET lens == Lengths(src, st.at + 2, nibble) IN
         IF offset \notin 1 .. Len(st.out) \/ lens = {} THEN Failed
         ELSE LET len == CHOOSE l \in lens : TRUE
              IN State(Copy(st.out, offset, len.value + MinMatch), len.next)

\* One turn of the loop of _lz4_block_decode: a token, literals and a match
Sequence(src, st) ==
  LET token == src[st.at]
      lits == Lengths(src, st.at + 1, token \div (Nibble + 1))
      lit == CHOOSE l \in lits : TRUE
  IN CASE ~st.ok \/ st.at > Len(src) -> st
       [] st.ok /\ st.at <= Len(src) ->
            IF lits = {} THEN Failed
            ELSE Match(src, State(st.out \o Clip(src, lit.next, lit.next + lit.value - 1),
                                  lit.next + lit.value),
                       token % (Nibble + 1))

\* A turn takes a byte at least, so that Len(src) turns are enough.
Decoded(out, src) ==
  FoldLeft(LAMBDA st, k : Sequence(src, st), State(out, 1), [k \in 1 .. Len(src) |-> k])

\* One turn of the loop of decompress_image: the sizes of a block, and the block
Block(cells, st) ==
  LET size == cells[st.at]
      block == Decoded(st.out, Clip(cells, st.at + 2, st.at + 1 + size))
  IN CASE ~st.ok \/ st.at > Len(cells) -> st
       [] st.ok /\ st.at = Len(cells) -> Failed
       [] st.ok /\ st.at < Len(cells) ->
            IF block.ok /\ block.at - 1 = size /\ Len(block.out) - Len(st.out) = cells[st.at + 1]
            THEN State(block.out, st.at + 2 + size)
            ELSE Failed

Blocks(cells) ==
  FoldLeft(LAMBDA st, k : Block(cells, st), State(<<>>, 1), [k \in 1 .. Len(cells) |-> k])

DecompressImage(container) ==
  LET end == Blocks(container.cells)
  IN IF end.ok /\ end.at = Len(container.cells) + 1 THEN {end.out} ELSE {}

\* What the CRCs cover: a header after its own CRC, and the data behind it
Outer(c) == <<c.outerData, c.offset, c.length, c.attr>>
Inner(c) == <<c.innerData, c.imageSize>>
Behind(c) == <<c.innerHeader>> \o Inner(c) \o c.cells

VerifyAll(c) ==
  /\ HeaderLen + Len(Behind(c)) = Size
  /\ \E image \in DecompressImage(c) :
       /\ c.outerHeader = Crc(Outer(c))
       /\ c.offset = HeaderLen /\ c.length = Size - HeaderLen /\ c.attr = Attribute
       /\ c.outerData = Crc(Behind(c))
       /\ c.innerHeader = Crc(Inner(c))
       /\ c.imageSize = Len(image)
       /\ c.innerData = Crc(image)
=============================================================================
