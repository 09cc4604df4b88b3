---------------------------- MODULE FunctionMap ----------------------------
(***************************************************************************)
(* What the scripts of the analysis compute from a listing: where          *)
(* functions begin and which one an address belongs to (build_db.py,       *)
(* build_funcdb.py), who calls whom, strings and tables of pointers to     *)
(* them (extract_binary_strings.py, resolve_strings.py), components of the *)
(* call graph (build_master_index.py), the shards a reviewer is shown      *)
(* (build_slices.py, export_shards.py), and the subsystem of a function no *)
(* reviewer looked at (aggregate_classify.py).                             *)
(*                                                                         *)
(* An instruction is a record: its address and size, op ("call", "goto" or *)
(* "load"), and values, the numbers of the listing's annotations.          *)
(***************************************************************************)
EXTENDS Integers, Sequences, FiniteSets, SequencesExt, FiniteSetsExt

CONSTANTS
  Word,           \* 2^32
  Base,           \* 0x02000000
  RamLo, RamHi,   \* RAM_LO and RAM_HI
  TableGap,       \* 48: most bytes between two pointers of a table
  TableMargin,    \* 8: how near a reference must be to a table
  ShardGap,       \* 0x2000: functions nearer than this share a gap shard
  ShardSize,      \* SHARD, functions of a raw shard
  LocalityGap     \* GAP of aggregate_classify.py

ASSUME FunctionMapAssumption ==
  /\ {Base, RamLo, RamHi, TableGap, TableMargin} \subseteq Nat
  /\ {Word, ShardGap, ShardSize, LocalityGap} \subseteq Nat \ {0}
  /\ RamHi < Base /\ 2 * TableMargin < TableGap

\* The numbers of S in order
Sorted(S) ==
  [k \in 1 .. Cardinality(S) |-> CHOOSE x \in S : Cardinality({y \in S : y < x}) = k - 1]

----------------------------------------------------------------------------
(* Functions and references *)

\* A branch is annotated with an offset into the file, a load with its value.
Targets(i) ==
  {IF i.op \in {"call", "goto"} THEN (Base + v) % Word ELSE v % Word : v \in i.values}

CallTargets(insns) == UNION {Targets(i) : i \in {j \in insns : j.op = "call"}}

CodeEnd(insns) == Max({i.addr + i.size : i \in insns})

Flash(insns) == Base .. CodeEnd(insns) - 1
Ram == RamLo .. RamHi - 1

\* harvest_entries.py: every target of a call, wherever it lies
Harvested(insns, entry) == CallTargets(insns) \cup {entry}

\* build_funcdb.py: those in flash; the ones in RAM are listed apart
Entries(insns, entry) == (CallTargets(insns) \cap Flash(insns)) \cup {entry}

End(entries, codeEnd, e) ==
  IF \E x \in entries : x > e THEN Min({x \in entries : x > e}) ELSE codeEnd

\* Mutant: an entry does not belong to its own function.
OwnerAfter(entries, codeEnd, a) ==
  {e \in entries : e < a /\ a < End(entries, codeEnd, e)}

\* owner(addr), as a set of at most one entry
Owner(entries, codeEnd, a) ==
  LET before == {e \in entries : e <= a} IN
  {e \in before : e = Max(before) /\ a < End(entries, codeEnd, e)}

\* The database of build_funcdb.py
FunctionDb(insns, entry, strings) ==
  LET entries == Entries(insns, entry)
      flash == Flash(insns)
      Own(a) == Owner(entries, CodeEnd(insns), a)
      Refs(e, ops) ==
        UNION {Targets(i) : i \in {j \in insns : e \in Own(j.addr) /\ j.op \in ops}}
      Sites(e) == {i.addr : i \in {j \in insns : /\ j.op = "call" /\ e \in Targets(j) \cap flash
                                                 /\ Own(j.addr) \notin {{}, {e}}}}
  IN [e \in entries |->
       [callees |-> Refs(e, {"call"}) \cap flash,
        callers |-> UNION {Own(a) : a \in Sites(e)},
        callsRam |-> (Refs(e, {"call"}) \ flash) \cap Ram,
        strRefs |-> Refs(e, {"load"}) \cap flash \cap strings,
        ptrRefs |-> (Refs(e, {"load"}) \cap flash) \ strings,
        ramRefs |-> (Refs(e, {"load"}) \ flash) \cap Ram,
        ninsn |-> Cardinality({i \in insns : e \in Own(i.addr)})]]

\* The binary search of build_db.py: the last of the entries that are not after a
Search(entries, a) ==
  LET Place[range \in (1 .. Len(entries) + 1) \X (0 .. Len(entries))] ==
        LET mid == (range[1] + range[2]) \div 2
        IN IF range[1] > range[2] THEN range[2]
           ELSE Place[IF entries[mid] <= a THEN <<mid + 1, range[2]>> ELSE <<range[1], mid - 1>>]
  IN Place[<<1, Len(entries)>>]

Lasts(entries, codeEnd, e, a) == e <= a /\ a < End(entries, codeEnd, e)

\* build_db.py on a line at a: the function of the line before is kept while
\* it lasts.  A line's function is a set of at most one entry.
Line(entries, codeEnd, owners, a) ==
  LET sorted == Sorted(entries)
      cur == IF owners = <<>> THEN {} ELSE Last(owners)
      found == {sorted[k] : k \in {Search(sorted, a)} \cap DOMAIN sorted}
  IN Append(owners, IF \E e \in cur : Lasts(entries, codeEnd, e, a) THEN cur
                    ELSE {e \in found : Lasts(entries, codeEnd, e, a)})

\* It reads the lines in order.
Attributed(addrs, entries, codeEnd) ==
  FoldLeft(LAMBDA owners, a : Line(entries, codeEnd, owners, a), <<>>, addrs)

\* Mutant: calls are followed from the caller only.
Called(db, S) == S \cup UNION {db[x].callees : x \in S}

Adjacent(db, S) ==
  S \cup {y \in DOMAIN db : \E x \in S : y \in db[x].callees \/ x \in db[y].callees}

\* What calls connect with e
Component(db, e) ==
  LET Reach[n \in 0 .. Cardinality(DOMAIN db)] == IF n = 0 THEN {e} ELSE Adjacent(db, Reach[n - 1])
  IN Reach[Cardinality(DOMAIN db)]

Visit(db, comps, e) == IF e \in UNION ToSet(comps) THEN comps ELSE Append(comps, Component(db, e))

\* The components of the call graph, in the order of their first members
Components(db) == FoldLeft(LAMBDA comps, e : Visit(db, comps, e), <<>>, Sorted(DOMAIN db))

----------------------------------------------------------------------------
(* Strings and the tables that point at them *)

\* Mutant: a run that ends with the data is not seen to end.
AsItIs(printable) == printable

\* data + b"\0"
WithEnd(printable) == Append(printable, FALSE)

\* The byte at k begins a run, goes on with it, or ends it.
Scan(data, min, st, k) ==
  IF data[k] THEN [st EXCEPT !.start = IF @ = 0 THEN k ELSE @]
  ELSE [start |-> 0,
        found |-> st.found \cup (IF st.start # 0 /\ k - st.start >= min THEN {<<st.start, k>>} ELSE {})]

\* Runs of printable bytes: first place and the place after the last
PrintableRuns(printable, min) ==
  LET data == WithEnd(printable)
  IN FoldLeft(LAMBDA st, k : Scan(data, min, st, k), [start |-> 0, found |-> {}],
              [k \in 1 .. Len(data) |-> k]).found

\* The next group starts where two neighbours are more than gap apart.
Joined(groups, a, gap) ==
  IF groups # <<>> /\ a - Last(Last(groups)) <= gap
  THEN Append(Front(groups), Append(Last(groups), a))
  ELSE Append(groups, <<a>>)

Grouped(addrs, gap) == FoldLeft(LAMBDA groups, a : Joined(groups, a, gap), <<>>, addrs)

\* words: the word at each aligned address
Regions(words, strings) ==
  Grouped(Sorted({a \in DOMAIN words : words[a] \in strings}), TableGap)

\* Mutant: no margin before a table.
NearAfter(r, a) == Head(r) <= a /\ a <= Last(r) + TableMargin

NearRegion(r, a) == Head(r) - TableMargin <= a /\ a <= Last(r) + TableMargin

\* region_of: the first region near a
RegionOf(regions, a) ==
  {k \in DOMAIN regions : NearRegion(regions[k], a) /\ \A j \in 1 .. k - 1 : ~NearRegion(regions[j], a)}

\* The strings a function is given: its own, and a table's it points into.
\* (What is written of them is the first 40 texts of the alphabet; texts are
\* left out, and that cut with them.)
Attached(f, words, strings) ==
  LET regions == Regions(words, strings)
  IN f.strRefs \cup UNION {{words[a] : a \in ToSet(regions[k])} :
                             k \in UNION {RegionOf(regions, ref) : ref \in f.ptrRefs}}

----------------------------------------------------------------------------
(* Shards *)

\* build_slices.py: real functions, ShardSize to a file named by its ends
RawShards(real) ==
  LET sorted == Sorted(real)
      n == Len(sorted)
  IN {<<sorted[k], sorted[Min({k + ShardSize - 1, n})]>> :
        k \in {j \in 1 .. n : (j - 1) % ShardSize = 0}}

\* Mutant: a shard's end is the first function that is not in it.
Before(entries, shard) == {a \in entries : shard[1] <= a /\ a < shard[2]}

Within(entries, shard) == {a \in entries : shard[1] <= a /\ a <= shard[2]}

\* export_shards.py: the raw shards that are there, whichever run left them,
\* and shards for the functions that are in none of them
Shards(entries, raw) ==
  LET missing == entries \ UNION {Within(entries, s) : s \in raw}
      gaps == Grouped(Sorted(missing), ShardGap - 1)
  IN raw \cup {<<Head(g), Last(g)>> : g \in ToSet(gaps)}

----------------------------------------------------------------------------
(* Subsystems *)

\* Mutant: a subsystem that was itself inferred is passed on.
KnownOrInferred(how) == how \in {"llm", "lib-sig", "locality"}

Known(how) == how \in {"llm", "lib-sig"}

\* The first pass: records and libs map some of the entries to a subsystem.
FirstPass(records, libs, e) ==
  IF e \in DOMAIN records THEN [subsystem |-> records[e], how |-> "llm"]
  ELSE IF e \in DOMAIN libs THEN [subsystem |-> libs[e], how |-> "lib-sig"]
  ELSE [subsystem |-> "UNCLASSIFIED", how |-> "none"]

\* The second pass at e looks left, then right.
Infer(entries, map, e) ==
  LET near == {x \in entries : x \in e - LocalityGap .. e + LocalityGap /\ Known(map[x].how)}
      left == {x \in near : x < e}
  IN IF map[e].how # "none" \/ near = {} THEN map
     ELSE [map EXCEPT ![e] =
            [subsystem |-> map[IF left # {} THEN Max(left) ELSE Min(near)].subsystem,
             how |-> "locality"]]

Classified(entries, records, libs) ==
  FoldLeft(LAMBDA map, e : Infer(entries, map, e),
           [e \in entries |-> FirstPass(records, libs, e)], Sorted(entries))
=============================================================================
