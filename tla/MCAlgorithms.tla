---------------------------- MODULE MCAlgorithms ----------------------------
(***************************************************************************)
(* The pure algorithms, each run on every input of a bounded family: those *)
(* of MapResults on listings, those of ByteResults on bytes.               *)
(***************************************************************************)
EXTENDS MapResults, ByteResults, TLC

\* Bytes of 3 bits and septets of 2; the request command, the image's markers
CommandDef == <<0, 5>>
SuccessDef == <<1, 2>>
FinishAddr == 60

\* Some CRC
CrcOf(s) == FoldLeft(LAMBDA a, b : (3 * a + b + 1) % 251, 0, s)

----------------------------------------------------------------------------
(* Frames, packages and records *)

ResponseInputs ==
  [kind : {"response"}, addr : {0, 9, 63, 64}, flashtype : {0, 5},
   data : UNION {[1 .. n -> {0, 3, 7}] : n \in 0 .. MaxPayload + 1}]

RequestInputs ==
  [kind : {"request"}, addr : {0, 7, 8, 21, 63}, len : {0, 3, 8, 42}, flashtype : {0, 5, 7},
   place : 2 .. 16, septet : Septets]

PackageInputs ==
  [kind : {"package"}, raw : UNION {[1 .. n -> {2, 6}] : n \in 4 .. Slots * SlotSize + 2}]

RecordInputs ==
  [kind : {"record"}, expected : {2}, finish : {FinishAddr}, size : {5},
   logical : {<<>>, <<3, 6, 1, 4, 7>>},
   runs : {<<r, s, [addr |-> FinishAddr, len |-> n, flashtype |-> 0, count |-> 1, stride |-> 0]>> :
             r \in [addr : {-1, 0, 2}, len : 0 .. 4, flashtype : {0, 8}, count : 0 .. 2, stride : {1, 3}],
             s \in [addr : {1, 3}, len : 1 .. 3, flashtype : {3}, count : 1 .. 2, stride : {2}],
             n \in {2, 3}}]

----------------------------------------------------------------------------
(* Containers: LZ4 in base 2, so that lengths go on after 1 and after 3 *)

Lits == {<<>>, <<1>>, <<2, 3, 1, 0>>, <<3, 3, 3, 1, 2, 2, 0>>}

Repeats == [lits : Lits, offset : {0, 1, 2, 5}, length : {2, 3, 5, 9}]
Few == [lits : {<<>>, <<2, 3>>}, offset : {1, 3}, length : {2, 6}]

Plans == [ops : {<<o>> : o \in Repeats} \cup {<<o, q>> : o \in Few, q \in Few}, rest : {<<>>, <<3>>}]

ContainerInputs ==
  [kind : {"container"}, cut : 0 .. 3,
   blocks : {<<p>> : p \in Plans}
              \cup {<<p, q>> : p \in {x \in Plans : Len(x.ops) = 1 /\ x.ops[1] \in Few},
                               q \in {x \in Plans : Len(x.ops) = 1 /\ x.ops[1].length = 5}}]

----------------------------------------------------------------------------
(* Listings, strings, tables, shards, neighbourhoods: the inputs of MapResults *)

\* Four instructions; a call may lead behind the code, or wrap into RAM.
Ops == [op : {"call"}, values : {{0}, {2}, {4}, {7}, {12}, {20}}]
         \cup [op : {"goto"}, values : {{4}}]
         \cup [op : {"load"}, values : {{18}, {20}, {5}}]

ListingInputs ==
  {[kind |-> "listing", entry |-> e, strings |-> {20}, addrs |-> <<16, 18, 20, 22>>,
    insns |-> {[addr |-> Base + 2 * (k - 1), size |-> 2] @@ ops[k] : k \in 1 .. 4}] :
     e \in {16, 18}, ops \in [1 .. 4 -> Ops]}

StringInputs == [kind : {"strings"}, min : {2}, printable : UNION {[1 .. n -> BOOLEAN] : n \in 0 .. 8}]

\* A function that loads the address of a string, and another address
TableInputs ==
  [kind : {"tables"}, words : [{0, 2, 4, 6, 8, 10} -> {1, 8, 9}], strings : {{8, 9}},
   strRefs : {{7}}, ptrRefs : {{0}, {3}, {7}, {11}}]

ShardInputs ==
  [kind : {"shards"}, entries : (SUBSET (0 .. 9)) \ {{}},
   old : {{}, {<<0, 3>>}, {<<2, 2>>, <<5, 8>>}, {<<1, 4>>, <<3, 7>>}}, fresh : BOOLEAN, limit : {8}]

LocalityInputs ==
  [kind : {"locality"}, entries : {S \in SUBSET (0 .. 7) : Cardinality(S) = 6},
   records : UNION {[S -> {"UI", "FX"}] : S \in {T \in SUBSET (0 .. 7) : Cardinality(T) <= 2}},
   libs : {<<>>, 5 :> "MATHLIB"}]

----------------------------------------------------------------------------
MapInputs == ListingInputs \cup StringInputs \cup TableInputs \cup ShardInputs \cup LocalityInputs

ByteInputsDef == ResponseInputs \cup RequestInputs \cup PackageInputs \cup RecordInputs \cup ContainerInputs

ByteKinds == {"response", "request", "package", "record", "container"}

Next == IF input.kind \in ByteKinds THEN ComputeBytes ELSE Compute

Spec == (MapInit \/ ByteInit) /\ [][Next]_mapVars
=============================================================================
