------------------------------ MODULE Pipeline ------------------------------
(***************************************************************************)
(* The scripts of the analysis as steps on the files they share.  Someone  *)
(* runs them one at a time, in any order, and may interrupt one between    *)
(* two writes or in the middle of one; listings, library disassemblies and *)
(* reviews change in between.  There are two chains (README.md):           *)
(*                                                                         *)
(*   build_db, disasm_toolchain_libs, match_libs, mech_tag, aggregate:     *)
(*     every one but the first reads db.json, adds to it and writes it;    *)
(*   build_funcdb, match_libs, build_master_index, aggregate_classify:     *)
(*     every one writes a file of its own.                                 *)
(*                                                                         *)
(* Functions are addresses.  What the chains know of a function is its     *)
(* signature (None if it is too short to match) and the evidence that      *)
(* mech_tag looks for; conf and purpose go with the subsystem.             *)
(***************************************************************************)
EXTENDS FunctionMap

CONSTANTS
  Func,          \* function entries
  Code,          \* versions of the listing: function -> [sig, msfa, string, sfr]
  LibFiles,      \* files of libdis in the order of their names
  Contents,      \* the symbols of each: a set of [name, sig]
  Baseline,      \* those that match_independent reads
  Math,          \* those whose name contains libm
  NameOrder,     \* names of library functions, sorted
  Reviews,       \* subsystems that a reviewer assigns
  None,          \* Python's None; a signature below MINLEN
  Unreadable,    \* a file that is missing, or was cut off while it was written
  MaxEdits       \* bound: changes of the inputs

Names == ToSet(NameOrder)
Subsystems == Reviews \cup {"MATHLIB", "MEMLIB", "SYNTH_FM", "USB", "PERIPH", "UNKNOWN", "UNCLASSIFIED"}

ASSUME PipelineAssumption ==
  /\ Func \subseteq Nat /\ Func # {} /\ IsFiniteSet(Func) /\ MaxEdits \in Nat
  /\ NameOrder \in Seq(Names) /\ LibFiles \in Seq(ToSet(LibFiles))
  /\ Baseline \subseteq ToSet(LibFiles) /\ Math \subseteq ToSet(LibFiles)
  /\ \A l \in ToSet(LibFiles) : Contents[l] # {}
  /\ None \notin Names \cup Subsystems \cup ToSet(LibFiles)

VARIABLES
  code,        \* the listing
  libdis,      \* library file -> its symbols, {} if it is not there
  reviews,     \* classified/*.json: some functions -> subsystem
  journal,     \* the journal of the second chain, alike
  db,          \* db.json: [code, lib, src, sub], or Unreadable
  hits,        \* lib_hits.json: function -> name
  index,       \* function_index.csv and docs/function-index.md: rows
  matches,     \* lib_matches.json: function -> [name, src]
  master,      \* master_index.json: function -> the same, None without
  classified,  \* master_classified.json
  stage,       \* how far the first chain has come on the inputs there are
  stage2,      \* the second chain
  edits

files == <<db, hits, index>>
files2 == <<matches, master, classified>>
inputs == <<code, libdis, reviews, journal>>
vars == <<inputs, files, files2, stage, stage2, edits>>

----------------------------------------------------------------------------
(* What the scripts compute *)

\* load_signatures: the names with a signature, in the files "of"
NamesOf(dis, sig, of) ==
  {n \in Names : \E file \in of : \E s \in dis[file] : s.name = n /\ s.sig = sig}

\* The first name in the order of names; its source is the first file with
\* that name, whatever signature it has there.
Least(names) == NameOrder[Min({k \in DOMAIN NameOrder : NameOrder[k] \in names})]
FirstSource(dis, n) ==
  LibFiles[Min({k \in DOMAIN LibFiles : \E s \in dis[LibFiles[k]] : s.name = n})]

Matched(dis, c, of) == {f \in Func : c[f].sig # None /\ NamesOf(dis, c[f].sig, of) # {}}

\* match_current
Hits(dis, c) ==
  [f \in Matched(dis, c, ToSet(LibFiles)) |-> Least(NamesOf(dis, c[f].sig, ToSet(LibFiles)))]

\* match_independent: one name only; the last file with the name is its source
LastSource(dis, n) ==
  LibFiles[Max({k \in DOMAIN LibFiles :
                  LibFiles[k] \in Baseline /\ \E s \in dis[LibFiles[k]] : s.name = n})]

Unambiguous(dis, c) ==
  {f \in Matched(dis, c, Baseline) : Cardinality(NamesOf(dis, c[f].sig, Baseline)) = 1}

Independent(dis, c) ==
  [f \in Unambiguous(dis, c) |->
    LET n == Least(NamesOf(dis, c[f].sig, Baseline)) IN [name |-> n, src |-> LastSource(dis, n)]]

\* mech_tag's passes in their order: libraries, tables, strings, registers
Rules(e, lib, src) ==
  <<IF lib = None THEN None ELSE IF src \in Math THEN "MATHLIB" ELSE "MEMLIB",
    IF e.msfa THEN "SYNTH_FM" ELSE None,
    IF e.string THEN "USB" ELSE None,
    IF e.sfr THEN "PERIPH" ELSE None>>

\* Mutant: a later rule replaces the subsystem.
SetTagAnyway(sub, tag) == IF tag = None THEN sub ELSE tag

\* set_tag: only a function that has none is given a subsystem.
SetTag(sub, tag) == IF sub = None THEN tag ELSE sub

Passes(sub, r) == SetTag(SetTag(SetTag(SetTag(sub, r[1]), r[2]), r[3]), r[4])

Tagged(d) == [f \in Func |-> Passes(d.sub[f], Rules(d.code[f], d.lib[f], d.src[f]))]

\* aggregate: a review (record) of a function decides
Override(d, records) == [f \in Func |-> IF f \in DOMAIN records THEN records[f] ELSE d.sub[f]]

\* Mutant: a function without a subsystem is left out of no section, but named None.
RowsRaw(d) == [f \in Func |-> [name |-> d.lib[f], sub |-> d.sub[f]]]

Rows(d) ==
  [f \in Func |-> [name |-> d.lib[f], sub |-> IF d.sub[f] = None THEN "UNKNOWN" ELSE d.sub[f]]]

MasterRows(m) == [f \in Func |-> IF f \in DOMAIN m THEN m[f] ELSE None]

\* aggregate_classify on a master index: reviews, libraries, then locality
ClassifiedRows(m, records) ==
  LET named == {f \in Func : m[f] # None}
  IN Classified(Func, records,
                [f \in named |-> IF m[f].src \in Math THEN "MATHLIB" ELSE "MEMLIB"])

----------------------------------------------------------------------------
(* The first chain *)

Nowhere == [f \in Func |-> None]

Database(c, lib, src, sub) == [code |-> c, lib |-> lib, src |-> src, sub |-> sub]

\* An earlier decision s on f, if any, is replaced.
Decided(records, f, s) ==
  [x \in {f} \cup DOMAIN records |-> IF x = f THEN s ELSE records[x]]

Init ==
  /\ code \in Code /\ libdis = [l \in ToSet(LibFiles) |-> IF l \in Baseline THEN Contents[l] ELSE {}]
  /\ reviews = <<>> /\ journal = <<>>
  /\ db = Unreadable /\ hits = Unreadable /\ index = Unreadable
  /\ matches = Unreadable /\ master = Unreadable /\ classified = Unreadable
  /\ stage = "none" /\ stage2 = "none" /\ edits = 0

\* A file that a script writes: it is rewritten, or the write is cut off.
Written(new) == {new, Unreadable}

\* Mutant: the labels of an older db.json are carried over.
BuildDbOnTop ==
  /\ db' = IF db = Unreadable THEN Database(code, Nowhere, Nowhere, Nowhere)
           ELSE Database(code, db.lib, db.src, db.sub)
  /\ stage' = "built"
  /\ UNCHANGED <<hits, index, inputs, files2, stage2, edits>>

\* build_db starts from the listing: nothing of an older db.json is read.
BuildDb ==
  /\ \E d \in Written(Database(code, Nowhere, Nowhere, Nowhere)) :
       db' = d /\ stage' = IF d = Unreadable THEN "none" ELSE "built"
  /\ UNCHANGED <<hits, index, inputs, files2, stage2, edits>>

Labelled(d, h, dis) ==
  Database(d.code, [f \in Func |-> IF f \in DOMAIN h THEN h[f] ELSE d.lib[f]],
           [f \in Func |-> IF f \in DOMAIN h THEN FirstSource(dis, h[f]) ELSE d.src[f]], d.sub)

\* match_libs: lib_hits.json, db.json and then, for the second chain,
\* lib_matches.json; a run that is cut off at one leaves the next as it is.
MatchLibs ==
  /\ db # Unreadable
  /\ LET h == Hits(libdis, db.code) IN
     \/ /\ hits' = Unreadable /\ UNCHANGED <<db, matches, stage, stage2>>
     \/ /\ hits' = h /\ db' = Unreadable /\ stage' = "none" /\ UNCHANGED <<matches, stage2>>
     \/ /\ hits' = h /\ db' = Labelled(db, h, libdis)
        /\ stage' = IF stage = "built" THEN "matched" ELSE stage
        /\ \/ matches' = Unreadable /\ UNCHANGED stage2
           \/ /\ matches' = Independent(libdis, code)
              /\ stage2' = IF stage2 = "built" THEN "matched" ELSE stage2
  /\ UNCHANGED <<index, inputs, master, classified, edits>>

\* mech_tag: an interrupted run has written mech_tags.json, which nothing
\* reads, or has cut off db.json.
MechTag ==
  /\ db # Unreadable
  /\ \/ db' = Unreadable /\ stage' = "none"
     \/ /\ db' = Database(db.code, db.lib, db.src, Tagged(db))
        /\ stage' = CASE stage = "matched" -> "tagged"
                      [] stage = "built" -> "none"
                      [] OTHER -> stage
  /\ UNCHANGED <<hits, index, inputs, files2, stage2, edits>>

\* aggregate: the two indexes, then db.json
Aggregate ==
  /\ db # Unreadable
  /\ LET d == Database(db.code, db.lib, db.src, Override(db, reviews)) IN
     \/ index' = Unreadable /\ UNCHANGED <<db, stage>>
     \/ index' = Rows(d) /\ db' = Unreadable /\ stage' = "none"
     \/ /\ index' = Rows(d) /\ db' = d
        /\ stage' = IF stage = "tagged" THEN "done" ELSE stage
  /\ UNCHANGED <<hits, inputs, files2, stage2, edits>>

----------------------------------------------------------------------------
(* The second chain *)

\* build_funcdb: what it writes of a function is its place, see FunctionMap.
BuildFuncdb ==
  /\ stage2' = IF stage2 = "none" THEN "built" ELSE stage2
  /\ UNCHANGED <<inputs, files, files2, stage, edits>>

BuildMasterIndex ==
  /\ matches # Unreadable
  /\ \E m \in Written(MasterRows(matches)) :
       /\ master' = m
       /\ stage2' = IF stage2 = "matched" /\ m # Unreadable THEN "merged" ELSE stage2
  /\ UNCHANGED <<inputs, files, matches, classified, stage, edits>>

AggregateClassify ==
  /\ master # Unreadable
  /\ \E c \in Written(ClassifiedRows(master, journal)) :
       /\ classified' = c
       /\ stage2' = IF stage2 = "merged" /\ c # Unreadable THEN "done" ELSE stage2
  /\ UNCHANGED <<inputs, files, matches, master, stage, edits>>

----------------------------------------------------------------------------
(* Changes of what the scripts read (external) *)

Edit == edits < MaxEdits /\ edits' = edits + 1 /\ UNCHANGED <<files, files2>>

NewListing ==
  /\ code' \in Code \ {code}
  /\ stage' = "none" /\ stage2' = "none"
  /\ Edit /\ UNCHANGED <<libdis, reviews, journal>>

\* disasm_toolchain_libs.sh disassembles what is not there; what it left of a
\* file when it was interrupted stays.
DisasmLibs ==
  /\ \E l \in ToSet(LibFiles), cut \in BOOLEAN :
       /\ libdis[l] = {}
       /\ libdis' = [libdis EXCEPT ![l] = IF cut THEN {CHOOSE s \in Contents[l] : TRUE} ELSE Contents[l]]
  /\ stage' = IF stage = "built" THEN "built" ELSE "none"
  /\ Edit /\ UNCHANGED <<code, reviews, journal, stage2>>

Review ==
  /\ \E f \in Func, s \in Reviews : reviews' = Decided(reviews, f, s)
  /\ stage' = IF stage = "done" THEN "tagged" ELSE stage
  /\ Edit /\ UNCHANGED <<code, libdis, journal, stage2>>

Journal ==
  /\ \E f \in Func, s \in Reviews : journal' = Decided(journal, f, s)
  /\ stage2' = IF stage2 = "done" THEN "merged" ELSE stage2
  /\ Edit /\ UNCHANGED <<code, libdis, reviews, stage>>

Next ==
  \/ BuildDb \/ MatchLibs \/ MechTag \/ Aggregate
  \/ BuildFuncdb \/ BuildMasterIndex \/ AggregateClassify
  \/ NewListing \/ DisasmLibs \/ Review \/ Journal

Spec == Init /\ [][Next]_vars

----------------------------------------------------------------------------
(* Properties *)

(***************************************************************************)
(* A file that can be read holds one whole result, with a subsystem in     *)
(* every row of an index; labels are names and sources of libraries.       *)
(***************************************************************************)
PipelineTypeOK ==
  /\ db # Unreadable =>
       /\ db.code \in Code /\ \A f \in Func : db.lib[f] \in Names \cup {None}
       /\ \A f \in Func : db.sub[f] \in Subsystems \cup {None}
       /\ \A f \in Func : db.lib[f] = None <=> db.src[f] = None
  /\ index # Unreadable => \A f \in Func : index[f].sub \in Subsystems
  /\ classified # Unreadable => \A f \in Func : classified[f].subsystem \in Subsystems
  /\ edits \in 0 .. MaxEdits

\* The label of a function as the inputs have it
Meant(f) ==
  LET names == NamesOf(libdis, code[f].sig, ToSet(LibFiles))
      lib == IF code[f].sig = None \/ names = {} THEN None ELSE Least(names)
      src == IF lib = None THEN None ELSE FirstSource(libdis, lib)
      tagged == {k \in 1 .. 4 : Rules(code[f], lib, src)[k] # None}
  IN [name |-> lib,
      sub |-> IF f \in DOMAIN reviews THEN reviews[f]
              ELSE IF tagged = {} THEN "UNKNOWN" ELSE Rules(code[f], lib, src)[Min(tagged)]]

(***************************************************************************)
(* A chain that was run in its order on the inputs there are gives what    *)
(* these inputs say, whatever the files held before, however often a       *)
(* script was repeated or interrupted, and whichever scripts of the other  *)
(* chain ran in between.  lib_hits.json, if whole, names the same.         *)
(***************************************************************************)
RunFollowsInputs ==
  /\ stage = "done" =>
       /\ index # Unreadable => index = [f \in Func |-> Meant(f)]
       /\ \A f \in Func : Rows(db)[f] = Meant(f)
       /\ hits # Unreadable => \A f \in Func : db.lib[f] = IF f \in DOMAIN hits THEN hits[f] ELSE None
  /\ (stage2 = "done" /\ classified # Unreadable) =>
       classified = ClassifiedRows(MasterRows(Independent(libdis, code)), journal)

(***************************************************************************)
(* What a reviewer said of a function, once it is in the database, is not  *)
(* replaced by evidence that a later run of match_libs and mech_tag finds: *)
(* only another review or building the database anew does that.            *)
(***************************************************************************)
ReviewKept ==
  [][\A f \in DOMAIN reviews :
       (db # Unreadable /\ db' # Unreadable /\ db.sub[f] = reviews[f] /\ reviews' = reviews)
         => (db'.sub[f] = reviews[f] \/ BuildDb)]_vars
=============================================================================
