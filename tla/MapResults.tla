----------------------------- MODULE MapResults -----------------------------
(***************************************************************************)
(* The algorithms of FunctionMap, run on any one input: an input is picked *)
(* initially, Compute stores what the scripts make of it, the properties   *)
(* compare that with what was to be computed.                              *)
(*                                                                         *)
(* An input is a listing with an entry point and the addresses that        *)
(* build_db.py reads it at; printable bytes; words of the image with their *)
(* strings and the references of a function; entries with the raw shards   *)
(* that an earlier run left, or with new ones of the entries below limit   *)
(* (DATA_LMA); or entries with reviews and libraries.                      *)
(***************************************************************************)
EXTENDS FunctionMap, Results

CONSTANTS Inputs

Finite(S) == S \subseteq Nat /\ IsFiniteSet(S)

InputsOf(kind) == {i \in Inputs : i.kind = kind}

ASSUME MapAssumption ==
  /\ \A i \in Inputs : i.kind \in {"listing", "strings", "tables", "shards", "locality"}
  /\ \A i \in InputsOf("listing") :
       /\ IsFiniteSet(i.insns) /\ i.insns # {} /\ i.entry \in Flash(i.insns)
       /\ \A j \in i.insns : j.addr \in Nat /\ j.size \in Nat \ {0} /\ Finite(j.values)
       /\ i.addrs \in Seq({j.addr : j \in i.insns})
  /\ \A i \in InputsOf("strings") : i.printable \in Seq(BOOLEAN) /\ i.min \in Nat \ {0}
  /\ \A i \in InputsOf("tables") : Finite(DOMAIN i.words) /\ i.ptrRefs \subseteq Nat
  /\ \A i \in InputsOf("shards") : Finite(i.entries) /\ i.limit \in Nat
  /\ \A i \in InputsOf("locality") : Finite(i.entries)

Result(i) ==
  CASE i.kind = "listing" ->
         LET db == FunctionDb(i.insns, i.entry, i.strings) IN
         [db |-> db, components |-> Components(db),
          lines |-> Attributed(i.addrs, Harvested(i.insns, i.entry), CodeEnd(i.insns))]
    [] i.kind = "strings" -> PrintableRuns(i.printable, i.min)
    [] i.kind = "tables" ->
         [regions |-> Regions(i.words, i.strings), strings |-> Attached(i, i.words, i.strings)]
    [] i.kind = "shards" ->
         Shards(i.entries, IF i.fresh THEN RawShards({e \in i.entries : e < i.limit}) ELSE i.old)
    [] i.kind = "locality" -> Classified(i.entries, i.records, i.libs)

MapInit == input \in Inputs /\ output = <<>> /\ done = FALSE

Compute == ~done /\ done' = TRUE /\ output' = Result(input) /\ UNCHANGED input

MapSpec == MapInit /\ [][Compute]_mapVars

----------------------------------------------------------------------------
(* Properties *)

(***************************************************************************)
(* Calls are seen from both ends: a function is a caller of every other    *)
(* function that it calls, and of no other one.  build_db.py, which keeps  *)
(* the function of the line before and has functions in RAM among its      *)
(* entries, finds the same function for a line as build_funcdb.py, the     *)
(* last one that begins before it; a call belongs to that one.  To one in  *)
(* RAM it gives at most lines that are before every function.              *)
(***************************************************************************)
CallsAgree ==
  Computed("listing") =>
    LET db == output.db IN
    /\ \A f, t \in DOMAIN db :
         f \in db[t].callers <=> f # t /\ t \in db[f].callees
    /\ \A k \in DOMAIN input.addrs :
         output.lines[k] \cap DOMAIN db
           = {e \in DOMAIN db : /\ e <= input.addrs[k]
                                /\ \A x \in DOMAIN db : x <= input.addrs[k] => x <= e}
    /\ \A k \in DOMAIN input.addrs : \A e \in output.lines[k] \ DOMAIN db :
         e < Base /\ \A x \in DOMAIN db : x > input.addrs[k]
    /\ \A k \in DOMAIN input.addrs : \A e \in output.lines[k] \cap DOMAIN db :
         \A i \in {j \in input.insns : j.addr = input.addrs[k] /\ j.op = "call"} :
           Targets(i) \cap DOMAIN db \subseteq db[e].callees

(***************************************************************************)
(* The components of the call graph are what calls hold together: every    *)
(* function is in one, no call leads out of one, and none falls apart into *)
(* two parts without a call between them.                                  *)
(***************************************************************************)
ComponentsWhole ==
  Computed("listing") =>
    LET db == output.db
        comps == output.components
    IN /\ UNION ToSet(comps) = DOMAIN db
       /\ \A j, k \in DOMAIN comps : j # k => comps[j] \cap comps[k] = {}
       /\ \A k \in DOMAIN comps : \A f \in comps[k] : db[f].callees \subseteq comps[k]
       /\ \A k \in DOMAIN comps : \A S \in (SUBSET comps[k]) \ {{}, comps[k]} :
            \E f \in S, g \in comps[k] \ S : g \in db[f].callees \/ f \in db[g].callees

(***************************************************************************)
(* The strings are the longest runs of at least min printable bytes, the   *)
(* run at the end of the image included, and no other.                     *)
(***************************************************************************)
StringsWhole ==
  Computed("strings") =>
    LET n == Len(input.printable) IN
    output = {run \in (1 .. n + 1) \X (1 .. n + 1) :
                /\ run[1] + input.min <= run[2]
                /\ \A k \in run[1] .. run[2] - 1 : input.printable[k]
                /\ run[1] > 1 => ~input.printable[run[1] - 1]
                /\ run[2] <= n => ~input.printable[run[2]]}

(***************************************************************************)
(* A function has its own strings, and those that a pointer near one of    *)
(* its references points at, or one that gaps of at most TableGap lead to; *)
(* tables never meet, so that the first one found is the one.              *)
(***************************************************************************)
TablesApart ==
  Computed("tables") =>
    LET ptrs == {a \in DOMAIN input.words : input.words[a] \in input.strings}
        Linked(x, y) == \A u, v \in ptrs : x <= u /\ u < v /\ v <= y =>
                          \E w \in ptrs : u < w /\ w <= u + TableGap
        Table(a) == {b \in ptrs : \E x, y \in ptrs : /\ x - TableMargin <= a /\ a <= y + TableMargin
                                                     /\ x <= b /\ b <= y /\ Linked(x, y)}
    IN /\ output.strings = input.strRefs \cup {input.words[b] : b \in UNION {Table(a) : a \in input.ptrRefs}}
       /\ \A j, k \in DOMAIN output.regions :
            j < k => Last(output.regions[j]) + TableMargin < Head(output.regions[k]) - TableMargin

(***************************************************************************)
(* Every function is in a shard, whatever raw shards an earlier run left;  *)
(* with the shards of these functions, in one.                             *)
(***************************************************************************)
EveryFunctionShown ==
  Computed("shards") =>
    \A e \in input.entries :
      LET shown == {s \in output : e \in Within(input.entries, s)}
      IN shown # {} /\ (input.fresh => \A s, t \in shown : s = t)

(***************************************************************************)
(* A subsystem that is inferred from its neighbours is that of the nearest *)
(* classified function before, or if there is none in reach after: it is   *)
(* never handed on from a function whose own subsystem was inferred.       *)
(***************************************************************************)
LocalityInReach ==
  Computed("locality") =>
    \A e \in input.entries :
      LET known == DOMAIN input.records \cup DOMAIN input.libs
          near == (known \cap input.entries) \cap (e - LocalityGap .. e + LocalityGap)
          Of(x) == IF x \in DOMAIN input.records THEN input.records[x] ELSE input.libs[x]
      IN output[e].subsystem =
           CASE e \in known -> Of(e)
             [] e \notin known /\ \E x \in near : x < e -> Of(Max({x \in near : x < e}))
             [] e \notin known /\ near # {} /\ \A x \in near : x > e -> Of(Min(near))
             [] OTHER -> "UNCLASSIFIED"
=============================================================================
