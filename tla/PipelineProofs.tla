--------------------------- MODULE PipelineProofs ---------------------------
(***************************************************************************)
(* What the scripts of the analysis compute, for any input, and what their *)
(* chains give, for every listing, library, review and number of edits,    *)
(* and every order and interruption of the scripts.                        *)
(*                                                                         *)
(* First come theorems about the operators of FunctionMap, and with them   *)
(* the properties that MapResults states.  Then the inductive invariants   *)
(* Chain and Chain2 say, for each stage of a chain, which part of its      *)
(* files already follows from the inputs.  What the files hold at all is   *)
(* TypeInv.                                                                *)
(***************************************************************************)
EXTENDS Pipeline, MapResults, DataProofs

----------------------------------------------------------------------------
(* Sorted sequences *)

\* How many numbers of S are below x
Below(S, x) == {y \in S : y < x}
Rank(S, x) == Cardinality(Below(S, x))

(***************************************************************************)
(* A greater number has more of them.                                      *)
(***************************************************************************)
LEMMA RankGrows ==
  ASSUME NEW S \in SUBSET Nat, IsFiniteSet(S), NEW x \in S, NEW y \in S, x < y
  PROVE  Rank(S, x) < Rank(S, y)
<1>1. Below(S, y) \in SUBSET S /\ IsFiniteSet(Below(S, y))
  <2> Below(S, y) \in SUBSET S
    BY DEF Below
  <2> QED BY FS_Subset
<1>2. Below(S, x) \in SUBSET Below(S, y) /\ x \in Below(S, y) \ Below(S, x)
  <2>1. x \in Int /\ y \in Int /\ \A z \in S : z \in Int
    OBVIOUS
  <2>2. \A z \in S : z < x => z < y
    BY <2>1
  <2>3. \A z \in Below(S, x) : z \in Below(S, y)
    BY <2>2 DEF Below
  <2>4. x \in Below(S, y) /\ x \notin Below(S, x)
    BY <2>1 DEF Below
  <2> QED BY <2>3, <2>4
<1>3. /\ IsFiniteSet(Below(S, x)) /\ Cardinality(Below(S, x)) <= Cardinality(Below(S, y))
      /\ Cardinality(Below(S, x)) # Cardinality(Below(S, y))
  BY <1>1, <1>2, FS_Subset
<1>4. Cardinality(Below(S, x)) \in Nat /\ Cardinality(Below(S, y)) \in Nat
  BY <1>1, <1>3, FS_CardinalityType
<1> QED BY <1>3, <1>4 DEF Rank

(***************************************************************************)
(* So every place of the sorted sequence has its number, exactly one.      *)
(***************************************************************************)
LEMMA Ranks ==
  ASSUME NEW S \in SUBSET Nat, IsFiniteSet(S)
  PROVE  /\ Cardinality(S) \in Nat
         /\ \A x \in S : Rank(S, x) \in 0 .. Cardinality(S) - 1
         /\ \A x, y \in S : Rank(S, x) = Rank(S, y) => x = y
         /\ \A k \in 1 .. Cardinality(S) : \E x \in S : Rank(S, x) = k - 1
<1> DEFINE n == Cardinality(S)
<1>1. n \in Nat
  BY FS_CardinalityType
<1>2. \A x \in S : Rank(S, x) \in 0 .. n - 1
  <2> SUFFICES ASSUME NEW x \in S PROVE Rank(S, x) \in 0 .. n - 1
    OBVIOUS
  <2>1. Below(S, x) \in SUBSET S /\ Below(S, x) # S
    BY DEF Below
  <2>2. IsFiniteSet(Below(S, x)) /\ Rank(S, x) <= n /\ Rank(S, x) # n
    BY <2>1, FS_Subset DEF Rank
  <2>3. Rank(S, x) \in Nat
    BY <2>2, FS_CardinalityType DEF Rank
  <2> HIDE DEF n
  <2> QED BY <1>1, <2>2, <2>3
<1>3. \A x, y \in S : Rank(S, x) = Rank(S, y) => x = y
  <2> SUFFICES ASSUME NEW x \in S, NEW y \in S, x # y PROVE Rank(S, x) # Rank(S, y)
    OBVIOUS
  <2>1. Rank(S, x) \in Int /\ Rank(S, y) \in Int
    BY <1>2
  <2>2. x < y \/ y < x
    OBVIOUS
  <2> QED BY <2>1, <2>2, RankGrows
<1>4. \A k \in 1 .. n : \E x \in S : Rank(S, x) = k - 1
  <2> DEFINE T == 0 .. n - 1
             f == [x \in S |-> Rank(S, x)]
  <2>1. IsFiniteSet(T) /\ Cardinality(T) = n
    <3> HIDE DEF n
    <3>1. 0 \in Int /\ n - 1 \in Int
      BY <1>1
    <3>2. IsFiniteSet(T) /\ Cardinality(T) = IF 0 > n - 1 THEN 0 ELSE (n - 1) - 0 + 1
      BY <3>1, FS_Interval
    <3> QED BY <1>1, <3>2
  <2>2. f \in Injection(S, T)
    BY <1>2, <1>3 DEF Injection, IsInjective
  <2>3. f \in Surjection(S, T)
    <3> HIDE DEF f, T
    <3> QED BY <2>1, <2>2, FS_Injection
  <2>4. \A j \in T : \E x \in S : f[x] = j
    <3> HIDE DEF f, T
    <3> QED BY <2>3 DEF Surjection
  <2>5. \A k \in 1 .. n : k - 1 \in T
    <3> HIDE DEF n
    <3> QED BY <1>1
  <2> QED BY <2>4, <2>5
<1> QED BY <1>1, <1>2, <1>3, <1>4

(***************************************************************************)
(* Sorted lists the numbers of a finite set, each one once and in order.   *)
(***************************************************************************)
THEOREM SortedLists ==
  ASSUME NEW S \in SUBSET Nat, IsFiniteSet(S)
  PROVE  /\ Cardinality(S) \in Nat
         /\ Sorted(S) \in [1 .. Cardinality(S) -> S]
         /\ \A x \in S : \E k \in 1 .. Cardinality(S) : Sorted(S)[k] = x
         /\ \A j, k \in 1 .. Cardinality(S) : j < k => Sorted(S)[j] < Sorted(S)[k]
<1> DEFINE n == Cardinality(S)
<1>1. \A k \in 1 .. n : Sorted(S)[k] = CHOOSE x \in S : Rank(S, x) = k - 1
  BY DEF Sorted, Rank, Below
<1>2. n \in Nat
  BY Ranks
<1>3. \A k \in 1 .. n : Sorted(S)[k] \in S /\ Rank(S, Sorted(S)[k]) = k - 1
  <2>1. \A k \in 1 .. n : \E x \in S : Rank(S, x) = k - 1
    BY Ranks
  <2> HIDE DEF n
  <2> QED BY <1>1, <2>1
<1>4. Sorted(S) \in [1 .. n -> S]
  <2> DEFINE At(k) == CHOOSE x \in S : Cardinality({y \in S : y < x}) = k - 1
             s == [k \in 1 .. n |-> At(k)]
  <2>0. s = [k \in 1 .. n |-> s[k]]
    <3> HIDE DEF At, n
    <3> QED OBVIOUS
  <2>1. Sorted(S) = [k \in 1 .. n |-> Sorted(S)[k]]
    <3>1. Sorted(S) = s
      BY DEF Sorted
    <3> QED BY <2>0, <3>1, Zenon
  <2> HIDE DEF n
  <2> QED BY <1>3, <2>1
<1>5. \A x \in S : \E k \in 1 .. n : Sorted(S)[k] = x
  <2> SUFFICES ASSUME NEW x \in S PROVE \E k \in 1 .. n : Sorted(S)[k] = x
    OBVIOUS
  <2>1. Rank(S, x) \in 0 .. n - 1
    BY Ranks
  <2>2. Rank(S, x) + 1 \in 1 .. n /\ (Rank(S, x) + 1) - 1 = Rank(S, x)
    BY <1>2, <2>1
  <2>3. Sorted(S)[Rank(S, x) + 1] = x
    <3>1. \A y \in S : Rank(S, x) = Rank(S, y) => x = y
      BY Ranks
    <3> QED BY <1>3, <2>2, <3>1
  <2> QED BY <2>2, <2>3
<1>6. \A j, k \in 1 .. n : j < k => Sorted(S)[j] < Sorted(S)[k]
  <2> SUFFICES ASSUME NEW j \in 1 .. n, NEW k \in 1 .. n, j < k,
                      ~ (Sorted(S)[j] < Sorted(S)[k])
               PROVE FALSE
    OBVIOUS
  <2> DEFINE x == Sorted(S)[j]
             y == Sorted(S)[k]
  <2>1. x \in S /\ y \in S /\ Rank(S, x) = j - 1 /\ Rank(S, y) = k - 1
    BY <1>3
  <2>2. y < x \/ x = y
    <3> HIDE DEF x, y
    <3>1. x \in Nat /\ y \in Nat /\ ~ (x < y)
      BY <2>1 DEF x, y
    <3> QED BY <3>1
  <2>3. CASE x = y
    <3> HIDE DEF x, y
    <3> QED BY <1>2, <2>1, <2>3
  <2>4. CASE y < x
    <3>1. Rank(S, y) < Rank(S, x)
      <4> HIDE DEF x, y
      <4> QED BY <2>1, <2>4, RankGrows
    <3> HIDE DEF x, y, n
    <3> QED BY <1>2, <2>1, <3>1
  <2> QED BY <2>2, <2>3, <2>4
<1> QED BY <1>2, <1>4, <1>5, <1>6

----------------------------------------------------------------------------
(* Locality *)

\* g[s] is the second pass over the places s of the sorted entries.
IsPass(g, E, records, libs) ==
  g = [s \in SUBSET DOMAIN Sorted(E) |->
        IF s = {} THEN [e \in E |-> FirstPass(records, libs, e)]
        ELSE Infer(E, g[s \ {Max(s)}], Sorted(E)[Max(s)])]

(***************************************************************************)
(* The classification, as the function that its fold is defined by.        *)
(***************************************************************************)
LEMMA ClassifiedFolds ==
  ASSUME NEW E, NEW records, NEW libs
  PROVE  Classified(E, records, libs) = (CHOOSE g : IsPass(g, E, records, libs))[DOMAIN Sorted(E)]
BY Zenon DEF Classified, FoldLeft, MapThenFoldSet, IsPass, Infer, FirstPass

\* The entries in reach of e that the first pass classified
Near(E, records, libs, e) ==
  {x \in E : x \in e - LocalityGap .. e + LocalityGap /\ x \in DOMAIN records \cup DOMAIN libs}

\* What the second pass leaves of e: the last such entry before it, or the
\* first one after it, gives its subsystem.
Inferred(E, records, libs, e) ==
  LET near == Near(E, records, libs, e)
      left == {x \in near : x < e}
  IN IF e \in DOMAIN records \cup DOMAIN libs \/ near = {} THEN FirstPass(records, libs, e)
     ELSE [subsystem |-> FirstPass(records, libs, IF left # {} THEN Max(left) ELSE Min(near)).subsystem,
           how |-> "locality"]

\* The map with the entries of P inferred
After(E, records, libs, P) ==
  [x \in E |-> IF x \in P THEN Inferred(E, records, libs, x) ELSE FirstPass(records, libs, x)]

(***************************************************************************)
(* Whatever was inferred before, a step finds in reach what the first pass *)
(* classified, and what it said of that.                                   *)
(***************************************************************************)
LEMMA KnownIsFirst ==
  ASSUME NEW E, NEW records, NEW libs, NEW P, NEW x \in E
  PROVE  LET map == After(E, records, libs, P)
             known == DOMAIN records \cup DOMAIN libs
         IN  /\ Known(map[x].how) <=> x \in known
             /\ x \in known => map[x] = FirstPass(records, libs, x)
             /\ FirstPass(records, libs, x).how # "none" <=> x \in known
<1> DEFINE known == DOMAIN records \cup DOMAIN libs
           first == FirstPass(records, libs, x)
           inferred == Inferred(E, records, libs, x)
<1>1. first.how \in {"llm", "lib-sig", "none"} /\ (first.how # "none" <=> x \in known)
  BY DEF FirstPass
<1>2. inferred = first \/ (x \notin known /\ inferred.how = "locality")
  BY DEF Inferred
<1>3. x \in known => inferred = first
  BY DEF Inferred
<1>4. After(E, records, libs, P)[x] = IF x \in P THEN inferred ELSE first
  BY DEF After
<1> HIDE DEF known, first, inferred
<1>5. After(E, records, libs, P)[x] \in {inferred, first}
  BY <1>4
<1>6. Known("llm") /\ Known("lib-sig") /\ ~Known("none") /\ ~Known("locality")
  BY DEF Known
<1> QED BY <1>1, <1>2, <1>3, <1>5, <1>6 DEF known, first

(***************************************************************************)
(* So a step on e adds e to the inferred entries and changes no other.     *)
(***************************************************************************)
LEMMA StepInfers ==
  ASSUME NEW E \in SUBSET Nat, IsFiniteSet(E), NEW records, NEW libs, NEW P, NEW e \in E, e \notin P
  PROVE  Infer(E, After(E, records, libs, P), e) = After(E, records, libs, P \cup {e})
<1> DEFINE map == After(E, records, libs, P)
           known == DOMAIN records \cup DOMAIN libs
           near == Near(E, records, libs, e)
           left == {x \in near : x < e}
           giver == IF left # {} THEN Max(left) ELSE Min(near)
           new == [subsystem |-> FirstPass(records, libs, giver).subsystem, how |-> "locality"]
<1>1. /\ \A x \in E : Known(map[x].how) <=> x \in known
      /\ \A x \in E : x \in known => map[x] = FirstPass(records, libs, x)
      /\ FirstPass(records, libs, e).how # "none" <=> e \in known
  <2>1. ASSUME NEW x \in E
        PROVE  /\ Known(map[x].how) <=> x \in known
               /\ x \in known => map[x] = FirstPass(records, libs, x)
               /\ FirstPass(records, libs, x).how # "none" <=> x \in known
    BY KnownIsFirst
  <2> QED BY <2>1, Zenon
<1>2. near = {x \in E : x \in e - LocalityGap .. e + LocalityGap /\ Known(map[x].how)}
  <2> HIDE DEF map
  <2> QED BY <1>1 DEF Near
<1>3. map[e] = FirstPass(records, libs, e)
  BY DEF After
<1>4. near # {} => giver \in near
  <2>1. near \in SUBSET E /\ left \in SUBSET E
    BY DEF Near
  <2>2. IsFiniteSet(left) /\ left \in SUBSET Nat /\ near \in SUBSET Nat
    BY <2>1, FS_Subset
  <2>3. left # {} => Max(left) \in left
    BY <2>2, MaxIsGreatest
  <2>4. near # {} => Min(near) \in near
    BY <2>2, MinIsLeast
  <2> QED BY <2>3, <2>4
<1>5. near # {} => map[giver] = FirstPass(records, libs, giver)
  <2>1. near # {} => giver \in E /\ giver \in known
    <3>1. near \subseteq E /\ near \subseteq known
      BY DEF Near
    <3> HIDE DEF near, giver, known
    <3> QED BY <1>4, <3>1
  <2> HIDE DEF map, near, giver, known
  <2> QED BY <1>1, <2>1
<1>6. Infer(E, map, e) =
        IF map[e].how # "none" \/ near = {} THEN map
        ELSE [map EXCEPT ![e] = [subsystem |-> map[giver].subsystem, how |-> "locality"]]
  <2> HIDE DEF map, near
  <2> QED BY <1>2, Zenon DEF Infer
<1>7. Inferred(E, records, libs, e) =
        IF e \in known \/ near = {} THEN FirstPass(records, libs, e) ELSE new
  BY Zenon DEF Inferred
<1>8. map = [x \in E |-> IF x \in P THEN Inferred(E, records, libs, x) ELSE FirstPass(records, libs, x)]
  BY Zenon DEF After
<1>9. Infer(E, map, e) = [map EXCEPT ![e] = Inferred(E, records, libs, e)]
  <2>1. DOMAIN map = E
    BY <1>8
  <2> HIDE DEF map, near, giver, known
  <2>2. CASE map[e].how # "none" \/ near = {}
    <3>1. Inferred(E, records, libs, e) = map[e]
      BY <1>1, <1>3, <1>7, <2>2
    <3>2. Infer(E, map, e) = map
      BY <1>6, <2>2
    <3>3. map = [map EXCEPT ![e] = map[e]]
      BY <1>8, <2>1
    <3> QED BY <3>1, <3>2, <3>3, Zenon
  <2>3. CASE ~ (map[e].how # "none" \/ near = {})
    <3>1. Inferred(E, records, libs, e) = new
      BY <1>1, <1>3, <1>7, <2>3
    <3>2. [subsystem |-> map[giver].subsystem, how |-> "locality"] = new
      BY <1>5, <2>3
    <3> HIDE DEF new
    <3> QED BY <1>6, <2>3, <3>1, <3>2, Zenon
  <2> QED BY <2>2, <2>3
<1>10. \A x \in E : x \in P \cup {e} <=> x \in P \/ x = e
  OBVIOUS
<1> QED
  <2> HIDE DEF map
  <2>1. [map EXCEPT ![e] = Inferred(E, records, libs, e)] =
          [x \in E |-> IF x \in P \cup {e} THEN Inferred(E, records, libs, x) ELSE FirstPass(records, libs, x)]
    BY <1>8, <1>10
  <2> QED BY <1>9, <2>1 DEF After, map

(***************************************************************************)
(* There is a pass: after the places s, their entries are inferred.        *)
(***************************************************************************)
LEMMA PassExists ==
  ASSUME NEW E \in SUBSET Nat, IsFiniteSet(E), NEW records, NEW libs
  PROVE  IsPass([s \in SUBSET DOMAIN Sorted(E) |-> After(E, records, libs, {Sorted(E)[k] : k \in s})],
                E, records, libs)
<1> DEFINE D == DOMAIN Sorted(E)
           Of(s) == {Sorted(E)[k] : k \in s}
           g == [s \in SUBSET D |-> After(E, records, libs, Of(s))]
<1>1. /\ D = 1 .. Cardinality(E) /\ Cardinality(E) \in Nat /\ \A k \in D : Sorted(E)[k] \in E
      /\ \A j, k \in D : j < k => Sorted(E)[j] < Sorted(E)[k]
  BY SortedLists
<1>2. IsFiniteSet(D) /\ D \subseteq Nat
  BY <1>1, FS_Interval
<1> HIDE DEF D
<1>3. g[{}] = [e \in E |-> FirstPass(records, libs, e)]
  <2>1. g[{}] = After(E, records, libs, Of({}))
    OBVIOUS
  <2>2. Of({}) = {}
    OBVIOUS
  <2> HIDE DEF g, Of
  <2> QED BY <2>1, <2>2 DEF After
<1>4. ASSUME NEW s \in SUBSET D, s # {}
      PROVE  g[s] = Infer(E, g[s \ {Max(s)}], Sorted(E)[Max(s)])
  <2> DEFINE m == Max(s)
             e == Sorted(E)[m]
  <2>1. m \in s
    <3>1. IsFiniteSet(s) /\ s \in SUBSET Nat
      BY <1>2, FS_Subset
    <3> QED BY <1>4, <3>1, MaxIsGreatest
  <2> HIDE DEF m
  <2>2. e \in E /\ e \notin Of(s \ {m})
    <3>1. \A k \in s \ {m} : Sorted(E)[k] # e
      <4> SUFFICES ASSUME NEW k \in s \ {m} PROVE Sorted(E)[k] # Sorted(E)[m]
        OBVIOUS
      <4>1. k \in D /\ m \in D /\ (k < m \/ m < k)
        BY <1>2, <2>1
      <4>2. Sorted(E)[k] < Sorted(E)[m] \/ Sorted(E)[m] < Sorted(E)[k]
        BY <1>1, <4>1
      <4>3. Sorted(E)[k] \in Nat /\ Sorted(E)[m] \in Nat
        BY <1>1, <4>1
      <4> QED BY <4>2, <4>3
    <3> QED BY <1>1, <2>1, <3>1
  <2>3. Of(s) = Of(s \ {m}) \cup {e}
    BY <2>1
  <2>4. g[s] = After(E, records, libs, Of(s)) /\ g[s \ {m}] = After(E, records, libs, Of(s \ {m}))
    OBVIOUS
  <2>5. Infer(E, After(E, records, libs, Of(s \ {m})), e) = After(E, records, libs, Of(s \ {m}) \cup {e})
    <3> HIDE DEF e, Of
    <3> QED BY <2>2, StepInfers
  <2> HIDE DEF g, Of
  <2> QED BY <2>3, <2>4, <2>5 DEF m
<1>5. \A s \in SUBSET D :
        g[s] = IF s = {} THEN [e \in E |-> FirstPass(records, libs, e)]
               ELSE Infer(E, g[s \ {Max(s)}], Sorted(E)[Max(s)])
  <2> HIDE DEF g
  <2> QED BY <1>3, <1>4
<1>6. g = [s \in SUBSET D |-> g[s]]
  <2> HIDE DEF Of
  <2> QED OBVIOUS
<1>7. g = [s \in SUBSET D |-> IF s = {} THEN [e \in E |-> FirstPass(records, libs, e)]
                              ELSE Infer(E, g[s \ {Max(s)}], Sorted(E)[Max(s)])]
  <2> HIDE DEF g
  <2> QED BY <1>5, <1>6
<1>8. IsPass(g, E, records, libs)
  <2> HIDE DEF g
  <2> QED BY <1>7 DEF IsPass, D
<1> QED BY <1>8 DEF g, Of, D

(***************************************************************************)
(* There is only one.                                                      *)
(***************************************************************************)
LEMMA PassUnique ==
  ASSUME NEW E \in SUBSET Nat, IsFiniteSet(E), NEW records, NEW libs,
         NEW g, IsPass(g, E, records, libs), NEW h, IsPass(h, E, records, libs)
  PROVE  g[DOMAIN Sorted(E)] = h[DOMAIN Sorted(E)]
<1> DEFINE D == DOMAIN Sorted(E)
           F == {s \in SUBSET D : g[s] = h[s]}
           first == [e \in E |-> FirstPass(records, libs, e)]
<1>1. D = 1 .. Cardinality(E) /\ Cardinality(E) \in Nat
  BY SortedLists
<1>2. IsFiniteSet(D) /\ D \subseteq Nat
  BY <1>1, FS_Interval
<1>3. \A s \in SUBSET D :
        /\ g[s] = IF s = {} THEN first ELSE Infer(E, g[s \ {Max(s)}], Sorted(E)[Max(s)])
        /\ h[s] = IF s = {} THEN first ELSE Infer(E, h[s \ {Max(s)}], Sorted(E)[Max(s)])
  BY Zenon DEF IsPass
<1> HIDE DEF D, first
<1>4. {} \in F
  BY <1>3
<1>5. ASSUME NEW s \in SUBSET D, s # {}
      PROVE  \E x \in s : s \ {x} \in F => s \in F
  <2>1. Max(s) \in s
    <3>1. IsFiniteSet(s) /\ s \in SUBSET Nat
      BY <1>2, FS_Subset
    <3> QED BY <1>5, <3>1, MaxIsGreatest
  <2>2. ASSUME g[s \ {Max(s)}] = h[s \ {Max(s)}]
        PROVE  g[s] = h[s]
    <3>1. Infer(E, g[s \ {Max(s)}], Sorted(E)[Max(s)]) = Infer(E, h[s \ {Max(s)}], Sorted(E)[Max(s)])
      BY <2>2, Zenon
    <3> QED BY <1>3, <1>5, <3>1
  <2> QED BY <2>1, <2>2
<1> HIDE DEF F
<1>6. SUBSET D \subseteq F
  BY <1>2, <1>4, <1>5, InductSets
<1>7. D \in F
  BY <1>6
<1> QED BY <1>7 DEF F, D

(***************************************************************************)
(* What aggregate_classify.py computes, for any entries, reviews and       *)
(* libraries: a function that was not classified gets the subsystem of the *)
(* last classified one in reach before it, or if there is none in reach of *)
(* the first after it; nothing inferred is handed on.                      *)
(***************************************************************************)
THEOREM LocalityIs ==
  ASSUME NEW E \in SUBSET Nat, IsFiniteSet(E), NEW records, NEW libs
  PROVE  Classified(E, records, libs) = [e \in E |-> Inferred(E, records, libs, e)]
<1> DEFINE D == DOMAIN Sorted(E)
           g == [s \in SUBSET D |-> After(E, records, libs, {Sorted(E)[k] : k \in s})]
           h == CHOOSE p : IsPass(p, E, records, libs)
<1>1. IsPass(g, E, records, libs)
  BY PassExists
<1>2. IsPass(h, E, records, libs)
  <2> HIDE DEF g
  <2> QED BY <1>1
<1>3. Classified(E, records, libs) = h[D]
  BY ClassifiedFolds
<1>4. h[D] = g[D]
  <2> HIDE DEF g, h
  <2> QED BY <1>1, <1>2, PassUnique
<1>5. g[D] = After(E, records, libs, {Sorted(E)[k] : k \in D})
  <2>1. D \in SUBSET D
    OBVIOUS
  <2> QED BY <2>1, Zenon
<1>6. {Sorted(E)[k] : k \in D} = E
  <2>1. /\ D = 1 .. Cardinality(E) /\ \A k \in D : Sorted(E)[k] \in E
        /\ \A e \in E : \E k \in D : Sorted(E)[k] = e
    BY SortedLists
  <2> HIDE DEF D
  <2> QED BY <2>1
<1>7. After(E, records, libs, E) = [e \in E |-> Inferred(E, records, libs, e)]
  BY DEF After
<1> HIDE DEF D, g, h
<1> QED BY <1>3, <1>4, <1>5, <1>6, <1>7, Zenon

----------------------------------------------------------------------------
(* What is computed *)

MapInv == input \in Inputs /\ (done => output = Result(input))

(***************************************************************************)
(* The output is what the scripts make of the input, which does not        *)
(* change.                                                                 *)
(***************************************************************************)
LEMMA OutputIsResult == MapSpec => []MapInv
<1>1. MapInit => MapInv
  BY DEF MapInit, MapInv
<1>2. MapInv /\ [Compute]_mapVars => MapInv'
  <2> SUFFICES ASSUME MapInv, [Compute]_mapVars PROVE MapInv'
    OBVIOUS
  <2>1. CASE Compute
    BY <2>1 DEF MapInv, Compute
  <2>2. CASE UNCHANGED mapVars
    BY <2>2 DEF MapInv, mapVars
  <2> QED BY <2>1, <2>2
<1> QED BY <1>1, <1>2, PTL DEF MapSpec

(***************************************************************************)
(* LocalityInReach, for any entries, reviews and libraries.                *)
(***************************************************************************)
THEOREM LocalityStays == MapSpec => []LocalityInReach
<1>1. MapInv => LocalityInReach
  <2> SUFFICES ASSUME MapInv, Computed("locality"), NEW e \in input.entries
               PROVE  LET known == DOMAIN input.records \cup DOMAIN input.libs
                          near == (known \cap input.entries) \cap (e - LocalityGap .. e + LocalityGap)
                          Of(x) == IF x \in DOMAIN input.records THEN input.records[x] ELSE input.libs[x]
                      IN output[e].subsystem =
                           CASE e \in known -> Of(e)
                             [] e \notin known /\ \E x \in near : x < e -> Of(Max({x \in near : x < e}))
                             [] e \notin known /\ near # {} /\ \A x \in near : x > e -> Of(Min(near))
                             [] OTHER -> "UNCLASSIFIED"
    BY Zenon DEF LocalityInReach
  <2> DEFINE E == input.entries
             records == input.records
             libs == input.libs
             known == DOMAIN records \cup DOMAIN libs
             near == (known \cap E) \cap (e - LocalityGap .. e + LocalityGap)
             left == {x \in near : x < e}
             Of(x) == IF x \in DOMAIN records THEN records[x] ELSE libs[x]
  <2>1. input \in InputsOf("locality") /\ output = Classified(E, records, libs)
    BY DEF MapInv, Computed, InputsOf, Result
  <2>2. E \in SUBSET Nat /\ IsFiniteSet(E)
    BY <2>1, MapAssumption DEF Finite
  <2> HIDE DEF E, records, libs
  <2>3. output = [x \in E |-> Inferred(E, records, libs, x)]
    BY <2>1, <2>2, LocalityIs
  <2>4. e \in E /\ e \in Nat
    BY <2>2 DEF E
  <2>5. output[e] = Inferred(E, records, libs, e)
    BY <2>3, <2>4
  <2>6. near = Near(E, records, libs, e)
    BY DEF Near
  <2>7. /\ near \in SUBSET Nat /\ left \in SUBSET near /\ IsFiniteSet(left) /\ left \in SUBSET Nat
        /\ near \subseteq known
    <3>1. left \in SUBSET E
      OBVIOUS
    <3>2. IsFiniteSet(left)
      BY <2>2, <3>1, FS_Subset
    <3> QED BY <2>2, <3>2
  <2>8. \A x \in known : FirstPass(records, libs, x).subsystem = Of(x)
    BY DEF FirstPass
  <2> DEFINE Goal == output[e].subsystem =
                       CASE e \in known -> Of(e)
                         [] e \notin known /\ \E x \in near : x < e -> Of(Max(left))
                         [] e \notin known /\ near # {} /\ \A x \in near : x > e -> Of(Min(near))
                         [] OTHER -> "UNCLASSIFIED"
  <2> SUFFICES Goal
    BY Zenon DEF E, records, libs
  <2>9. CASE e \in known
    <3>1. output[e] = FirstPass(records, libs, e)
      BY <2>5, <2>9, Zenon DEF Inferred
    <3>2. output[e].subsystem = Of(e)
      BY <2>8, <2>9, <3>1
    <3>3. e \in known
      BY <2>9
    <3> HIDE DEF Of, near, known, left
    <3> QED BY <3>2, <3>3
  <2>10. CASE e \notin known /\ left # {}
    <3>1. Max(left) \in left /\ near # {}
      BY <2>7, <2>10, MaxIsGreatest
    <3>2. output[e].subsystem = FirstPass(records, libs, Max(left)).subsystem
      <4> HIDE DEF near, known
      <4> QED BY <2>5, <2>6, <2>10, <3>1 DEF Inferred, known
    <3>3. output[e].subsystem = Of(Max(left))
      <4>1. Max(left) \in known
        BY <2>7, <3>1
      <4> HIDE DEF known, Of, left
      <4> QED BY <2>8, <3>2, <4>1
    <3>4. e \notin known /\ \E x \in near : x < e
      BY <2>10
    <3>5. ~ (\A x \in near : x > e)
      BY <2>4, <2>7, <3>4
    <3> HIDE DEF Of, near, known, left
    <3> QED BY <3>3, <3>4, <3>5
  <2>11. CASE e \notin known /\ left = {} /\ near # {}
    <3>1. Min(near) \in near
      BY <2>7, <2>11, MinIsLeast
    <3>2. output[e].subsystem = FirstPass(records, libs, Min(near)).subsystem
      <4> HIDE DEF near, known
      <4> QED BY <2>5, <2>6, <2>11 DEF Inferred, known
    <3>3. output[e].subsystem = Of(Min(near))
      <4>1. Min(near) \in known
        BY <2>7, <3>1
      <4> HIDE DEF known, Of, near
      <4> QED BY <2>8, <3>2, <4>1
    <3>4. e \notin known /\ ~ (\E x \in near : x < e) /\ near # {}
      BY <2>11
    <3>5. \A x \in near : x > e
      <4>1. \A x \in near : x \in Nat /\ x # e /\ ~ (x < e)
        BY <2>7, <3>4
      <4> QED BY <2>4, <4>1
    <3> HIDE DEF Of, near, known, left
    <3> QED BY <3>3, <3>4, <3>5
  <2>12. CASE e \notin known /\ near = {}
    <3>1. output[e] = FirstPass(records, libs, e)
      <4> HIDE DEF near, known
      <4> QED BY <2>5, <2>6, <2>12 DEF Inferred
    <3>2. output[e].subsystem = "UNCLASSIFIED"
      BY <2>12, <3>1 DEF FirstPass
    <3>3. e \notin known /\ ~ (\E x \in near : x < e) /\ near = {}
      BY <2>12
    <3> HIDE DEF Of, near, known, left
    <3> QED BY <3>2, <3>3
  <2> QED
    <3> HIDE DEF Goal, known, near
    <3> QED BY <2>7, <2>9, <2>10, <2>11, <2>12
<1> QED BY <1>1, OutputIsResult, PTL

----------------------------------------------------------------------------
(* Groups *)

(***************************************************************************)
(* Joined changes the last group, or adds one.                             *)
(***************************************************************************)
LEMMA JoinedIs ==
  ASSUME NEW S, NEW groups \in Seq(Seq(S)), NEW a \in S, NEW gap
  PROVE  LET n == Len(groups)
             new == Joined(groups, a, gap)
             joins == groups # <<>> /\ a - Last(groups[n]) <= gap
         IN /\ n \in Nat /\ DOMAIN groups = 1 .. n /\ (groups # <<>> <=> n # 0)
            /\ new \in Seq(Seq(S))
            /\ joins => /\ Len(new) = n /\ new[n] = Append(groups[n], a)
                        /\ \A j \in 1 .. n - 1 : new[j] = groups[j]
            /\ ~joins => /\ Len(new) = n + 1 /\ new[n + 1] = <<a>>
                         /\ \A j \in 1 .. n : new[j] = groups[j]
<1> DEFINE n == Len(groups)
           new == Joined(groups, a, gap)
           joins == groups # <<>> /\ a - Last(groups[n]) <= gap
<1>1. n \in Nat /\ DOMAIN groups = 1 .. n /\ (groups # <<>> <=> n # 0)
  BY EmptySeq, LenProperties
<1>2. Last(groups) = groups[n]
  BY DEF Last
<1>3. CASE joins
  <2>1. new = Append(SubSeq(groups, 1, n - 1), Append(groups[n], a))
    BY <1>2, <1>3 DEF Joined, Front
  <2>2. /\ SubSeq(groups, 1, n - 1) \in Seq(Seq(S)) /\ Len(SubSeq(groups, 1, n - 1)) = n - 1
        /\ \A j \in 1 .. n - 1 : SubSeq(groups, 1, n - 1)[j] = groups[j]
    BY <1>1, <1>3, SubSeqProperties
  <2>3. Append(groups[n], a) \in Seq(S)
    BY <1>1, <1>3
  <2> DEFINE front == SubSeq(groups, 1, n - 1)
             last == Append(groups[n], a)
  <2>4. /\ Append(front, last) \in Seq(Seq(S)) /\ Len(Append(front, last)) = Len(front) + 1
        /\ \A i \in 1 .. Len(front) : Append(front, last)[i] = front[i]
        /\ Append(front, last)[Len(front) + 1] = last
    <3> HIDE DEF front, last
    <3> QED BY <2>2, <2>3, AppendProperties DEF front, last
  <2>5. n - 1 + 1 = n
    BY <1>1
  <2> HIDE DEF front, last, n, new, joins
  <2> QED BY <1>1, <1>3, <2>1, <2>2, <2>4, <2>5 DEF front, last, n, new, joins
<1>4. CASE ~joins
  <2>1. new = Append(groups, <<a>>)
    <3>1. ~ (groups # <<>> /\ a - Last(Last(groups)) <= gap)
      BY <1>2, <1>4
    <3> QED BY <3>1, Zenon DEF Joined
  <2> DEFINE last == <<a>>
  <2>2. last \in Seq(S)
    OBVIOUS
  <2> HIDE DEF last
  <2>3. /\ Append(groups, last) \in Seq(Seq(S)) /\ Len(Append(groups, last)) = n + 1
        /\ \A i \in 1 .. n : Append(groups, last)[i] = groups[i]
        /\ Append(groups, last)[n + 1] = last
    BY <2>2, AppendProperties
  <2> HIDE DEF n, new, joins
  <2> QED BY <1>1, <1>4, <2>1, <2>3 DEF last, n, new, joins
<1> HIDE DEF n, new, joins
<1> QED BY <1>1, <1>3, <1>4 DEF n, new, joins

IsGrouping(g, addrs, gap) ==
  g = [s \in SUBSET DOMAIN addrs |->
        IF s = {} THEN <<>> ELSE Joined(g[s \ {Max(s)}], addrs[Max(s)], gap)]

(***************************************************************************)
(* The groups, as the function that their fold is defined by.              *)
(***************************************************************************)
LEMMA GroupedFolds ==
  ASSUME NEW addrs, NEW gap
  PROVE  Grouped(addrs, gap) = (CHOOSE g : IsGrouping(g, addrs, gap))[DOMAIN addrs]
BY Zenon DEF Grouped, FoldLeft, MapThenFoldSet, IsGrouping

(***************************************************************************)
(* Grouped takes the numbers one by one.                                   *)
(***************************************************************************)
LEMMA GroupedSteps ==
  ASSUME NEW n \in Nat, NEW addrs \in [1 .. n -> Nat], NEW gap
  PROVE  \E p : /\ p[0] = <<>> /\ Grouped(addrs, gap) = p[n]
                /\ \A k \in 1 .. n : p[k] = Joined(p[k - 1], addrs[k], gap)
<1> DEFINE States == Seq(Seq(Nat))
           step == [x \in States \X (1 .. n) |-> Joined(x[1], addrs[x[2]], gap)]
           h == CHOOSE g : IsGrouping(g, addrs, gap)
           p == [k \in 0 .. n |-> h[1 .. k]]
<1>1. DOMAIN addrs = 1 .. n
  OBVIOUS
<1>2. \A groups \in States, k \in 1 .. n : Joined(groups, addrs[k], gap) \in States
  BY JoinedIs
<1>3. step \in [States \X (1 .. n) -> States]
  <2> HIDE DEF States
  <2> QED BY <1>2
<1>4. PICK g \in [SUBSET (1 .. n) -> States] : IsFold(g, n, <<>>, step)
  <2>1. <<>> \in States
    OBVIOUS
  <2> HIDE DEF States, step
  <2> QED BY <1>3, <2>1, FoldExists
<1>5. IsGrouping(g, addrs, gap)
  <2>1. \A s \in SUBSET (1 .. n) : s # {} => Max(s) \in 1 .. n /\ s \ {Max(s)} \in SUBSET (1 .. n)
    BY Places
  <2>2. \A s \in SUBSET (1 .. n) : s # {} =>
          step[<<g[s \ {Max(s)}], Max(s)>>] = Joined(g[s \ {Max(s)}], addrs[Max(s)], gap)
    <3> HIDE DEF States
    <3> QED BY <2>1
  <2> HIDE DEF States, step
  <2>3. g = [s \in SUBSET (1 .. n) |-> IF s = {} THEN <<>> ELSE step[<<g[s \ {Max(s)}], Max(s)>>]]
    BY <1>4, Zenon DEF IsFold
  <2>4. g = [s \in SUBSET (1 .. n) |->
              IF s = {} THEN <<>> ELSE Joined(g[s \ {Max(s)}], addrs[Max(s)], gap)]
    BY <2>2, <2>3
  <2> QED BY <1>1, <2>4, Zenon DEF IsGrouping
<1>6. h = [s \in SUBSET (1 .. n) |->
            IF s = {} THEN <<>> ELSE Joined(h[s \ {Max(s)}], addrs[Max(s)], gap)]
  <2>1. IsGrouping(h, addrs, gap)
    BY <1>5, Zenon
  <2> QED BY <1>1, <2>1, Zenon DEF IsGrouping
<1>7. p[0] = <<>> /\ p[n] = h[1 .. n]
  <2>1. 1 .. 0 = {} /\ {} \in SUBSET (1 .. n) /\ 0 \in 0 .. n /\ n \in 0 .. n
    OBVIOUS
  <2> HIDE DEF h
  <2>2. p[0] = h[{}] /\ p[n] = h[1 .. n]
    BY <2>1
  <2> QED BY <1>6, <2>1, <2>2
<1>8. ASSUME NEW k \in 1 .. n
      PROVE  p[k] = Joined(p[k - 1], addrs[k], gap)
  <2>1. 1 .. k # {} /\ Max(1 .. k) = k /\ (1 .. k) \ {k} = 1 .. k - 1
    BY LastPlace
  <2>2. 1 .. k \in SUBSET (1 .. n) /\ k \in 0 .. n /\ k - 1 \in 0 .. n
    OBVIOUS
  <2> HIDE DEF h
  <2>3. p[k] = h[1 .. k] /\ p[k - 1] = h[1 .. k - 1]
    BY <2>2
  <2>4. h[1 .. k] = Joined(h[(1 .. k) \ {Max(1 .. k)}], addrs[Max(1 .. k)], gap)
    BY <1>6, <2>1, <2>2
  <2> QED BY <2>1, <2>3, <2>4
<1>9. Grouped(addrs, gap) = p[n]
  BY <1>1, <1>7, GroupedFolds
<1> HIDE DEF p, h
<1> QED BY <1>7, <1>8, <1>9

\* groups are the numbers of S, in order, parted where no number follows
\* within gap.
GroupsOf(groups, S, gap) ==
  /\ groups \in Seq(Seq(S)) /\ \A j \in 1 .. Len(groups) : groups[j] # <<>>
  /\ \A x \in S : \E j \in 1 .. Len(groups) : x \in ToSet(groups[j])
  /\ \A j \in 1 .. Len(groups) : \A x \in ToSet(groups[j]) : Head(groups[j]) <= x /\ x <= Last(groups[j])
  /\ \A j, k \in 1 .. Len(groups) : j < k => Last(groups[j]) + gap < Head(groups[k])
  /\ \A j \in 1 .. Len(groups) : \A u, v \in S :
       Head(groups[j]) <= u /\ u < v /\ v <= Last(groups[j]) => \E w \in S : u < w /\ w <= u + gap

(***************************************************************************)
(* A group begins and ends with one of its numbers.                        *)
(***************************************************************************)
LEMMA Ends ==
  ASSUME NEW S, NEW g \in Seq(S), g # <<>>
  PROVE  Head(g) \in ToSet(g) /\ Last(g) \in ToSet(g) /\ ToSet(g) \subseteq S
<1>1. Len(g) \in Nat \ {0} /\ DOMAIN g = 1 .. Len(g)
  BY EmptySeq, LenProperties
<1>2. Head(g) = g[1] /\ Last(g) = g[Len(g)] /\ 1 \in DOMAIN g /\ Len(g) \in DOMAIN g
  BY <1>1 DEF Last
<1>3. \A i \in DOMAIN g : g[i] \in S
  BY <1>1
<1> QED BY <1>2, <1>3 DEF ToSet

(***************************************************************************)
(* The last group ends with the greatest number.                           *)
(***************************************************************************)
LEMMA LastEnds ==
  ASSUME NEW S \in SUBSET Nat, NEW gap \in Nat, NEW groups, GroupsOf(groups, S, gap)
  PROVE  /\ \A j \in 1 .. Len(groups) : Head(groups[j]) \in S /\ Last(groups[j]) \in S
         /\ \A x \in S : groups # <<>> /\ x <= Last(groups[Len(groups)])
<1> DEFINE n == Len(groups)
<1>1. n \in Nat /\ (groups # <<>> <=> n # 0) /\ \A j \in 1 .. n : groups[j] \in Seq(S)
  <2>1. groups \in Seq(Seq(S))
    BY DEF GroupsOf
  <2> QED BY <2>1, EmptySeq, LenProperties
<1>2. \A j \in 1 .. n : Head(groups[j]) \in S /\ Last(groups[j]) \in S
                         /\ Head(groups[j]) \in ToSet(groups[j])
  BY <1>1, Ends DEF GroupsOf
<1>3. ASSUME NEW x \in S PROVE groups # <<>> /\ x <= Last(groups[n])
  <2>1. PICK j \in 1 .. n : x \in ToSet(groups[j])
    BY DEF GroupsOf
  <2>2. n # 0 /\ n \in 1 .. n
    BY <1>1, <2>1
  <2>3. x <= Last(groups[j])
    BY <2>1 DEF GroupsOf
  <2>4. CASE j = n
    BY <1>1, <2>2, <2>3, <2>4
  <2>5. CASE j # n
    <3>1. j < n
      BY <1>1, <2>1, <2>5
    <3>2. Last(groups[j]) + gap < Head(groups[n])
      BY <2>1, <2>2, <3>1 DEF GroupsOf
    <3>3. Head(groups[n]) <= Last(groups[n])
      BY <1>2, <2>2 DEF GroupsOf
    <3>4. {x, Last(groups[j]), Head(groups[n]), Last(groups[n])} \subseteq Nat
      BY <1>2, <2>1, <2>2
    <3> HIDE DEF n
    <3> QED BY <1>1, <2>2, <2>3, <3>2, <3>3, <3>4
  <2> QED BY <2>4, <2>5
<1> QED BY <1>2, <1>3

(***************************************************************************)
(* A greater number joins the last group, or begins one.                   *)
(***************************************************************************)
LEMMA JoinedGroups ==
  ASSUME NEW S \in SUBSET Nat, NEW gap \in Nat, NEW groups, GroupsOf(groups, S, gap),
         NEW a \in Nat, \A x \in S : x < a
  PROVE  GroupsOf(Joined(groups, a, gap), S \cup {a}, gap)
<1> DEFINE T == S \cup {a}
           n == Len(groups)
           new == Joined(groups, a, gap)
           joins == groups # <<>> /\ a - Last(groups[n]) <= gap
<1>1. groups \in Seq(Seq(S)) /\ groups \in Seq(Seq(T))
  <2>1. groups \in Seq(Seq(S)) /\ S \subseteq T
    BY DEF GroupsOf
  <2>2. Seq(S) \subseteq Seq(T)
    BY <2>1
  <2>3. Seq(Seq(S)) \subseteq Seq(Seq(T))
    BY <2>2
  <2> QED BY <2>1, <2>3
<1>2. /\ n \in Nat /\ DOMAIN groups = 1 .. n /\ (groups # <<>> <=> n # 0)
      /\ new \in Seq(Seq(T))
      /\ joins => /\ Len(new) = n /\ new[n] = Append(groups[n], a)
                  /\ \A j \in 1 .. n - 1 : new[j] = groups[j]
      /\ ~joins => /\ Len(new) = n + 1 /\ new[n + 1] = <<a>>
                   /\ \A j \in 1 .. n : new[j] = groups[j]
  <2>1. a \in T
    OBVIOUS
  <2> HIDE DEF T
  <2> QED BY <1>1, <2>1, JoinedIs
<1>3. \A j \in 1 .. n : groups[j] \in Seq(S) /\ groups[j] \in Seq(T) /\ groups[j] # <<>>
  BY <1>1, <1>2 DEF GroupsOf
<1>4. \A j \in 1 .. n : /\ Head(groups[j]) \in S /\ Last(groups[j]) \in S
                        /\ Head(groups[j]) \in ToSet(groups[j]) /\ ToSet(groups[j]) \subseteq S
  BY <1>3, Ends
<1>5. \A x \in S : n # 0 /\ x <= Last(groups[n])
  BY <1>2, LastEnds
<1>6. \A j \in 1 .. n : /\ Head(groups[j]) \in Nat /\ Last(groups[j]) \in Nat
                        /\ Head(groups[j]) < a /\ Last(groups[j]) < a /\ a \notin ToSet(groups[j])
  <2>1. a \notin S /\ \A x \in S : x \in Nat /\ x < a
    OBVIOUS
  <2> QED BY <1>4, <2>1
\* The two cases agree on the old groups.
<1>7. /\ \A x \in S : \E j \in 1 .. n : x \in ToSet(groups[j])
      /\ \A j \in 1 .. n : \A x \in ToSet(groups[j]) : Head(groups[j]) <= x /\ x <= Last(groups[j])
      /\ \A j, k \in 1 .. n : j < k => Last(groups[j]) + gap < Head(groups[k])
      /\ \A j \in 1 .. n : \A u, v \in S :
           Head(groups[j]) <= u /\ u < v /\ v <= Last(groups[j]) => \E w \in S : u < w /\ w <= u + gap
  BY DEF GroupsOf
<1>8. CASE joins
  <2>1. n # 0 /\ n \in 1 .. n /\ n - 1 \in Nat
    BY <1>2, <1>8
  <2>2. /\ Append(groups[n], a) # <<>>
        /\ Head(Append(groups[n], a)) = Head(groups[n]) /\ Last(Append(groups[n], a)) = a
        /\ ToSet(Append(groups[n], a)) = ToSet(groups[n]) \cup {a}
    <3> HIDE DEF T
    <3> QED BY <1>3, <2>1, AtTheEnd DEF T
  <2>3. Len(new) = n /\ new[n] = Append(groups[n], a) /\ \A j \in 1 .. n - 1 : new[j] = groups[j]
    BY <1>2, <1>8
  <2>4. a <= Last(groups[n]) + gap
    <3>1. Last(groups[n]) \in Nat /\ a - Last(groups[n]) <= gap
      BY <1>6, <1>8, <2>1
    <3> QED BY <3>1
  <2> HIDE DEF T, new, n, joins
  <2>5. \A j \in 1 .. n : j = n \/ j \in 1 .. n - 1
    BY <1>2
  <2>6. /\ \A j \in 1 .. n : /\ new[j] # <<>> /\ Head(new[j]) = Head(groups[j])
                             /\ Last(new[j]) = IF j = n THEN a ELSE Last(groups[j])
                             /\ ToSet(groups[j]) \subseteq ToSet(new[j])
                             /\ ToSet(new[j]) = IF j = n THEN ToSet(groups[j]) \cup {a} ELSE ToSet(groups[j])
    <3> SUFFICES ASSUME NEW j \in 1 .. n
                 PROVE  /\ new[j] # <<>> /\ Head(new[j]) = Head(groups[j])
                        /\ Last(new[j]) = IF j = n THEN a ELSE Last(groups[j])
                        /\ ToSet(groups[j]) \subseteq ToSet(new[j])
                        /\ ToSet(new[j]) = IF j = n THEN ToSet(groups[j]) \cup {a} ELSE ToSet(groups[j])
      OBVIOUS
    <3>1. CASE j = n
      BY <2>2, <2>3, <3>1
    <3>2. CASE j # n
      <4>1. new[j] = groups[j]
        BY <2>3, <2>5, <3>2
      <4> QED BY <1>3, <3>2, <4>1
    <3> QED BY <3>1, <3>2
  <2>7. \A x \in T : \E j \in 1 .. n : x \in ToSet(new[j])
    <3>1. \A x \in S : \E j \in 1 .. n : x \in ToSet(new[j])
      BY <1>7, <2>6
    <3>2. a \in ToSet(new[n])
      BY <2>1, <2>6
    <3> QED BY <2>1, <3>1, <3>2 DEF T
  <2>8. \A j \in 1 .. n : \A x \in ToSet(new[j]) : Head(new[j]) <= x /\ x <= Last(new[j])
    <3> SUFFICES ASSUME NEW j \in 1 .. n, NEW x \in ToSet(new[j])
                 PROVE  Head(new[j]) <= x /\ x <= Last(new[j])
      OBVIOUS
    <3>0. Head(new[j]) = Head(groups[j]) /\ Last(new[j]) = (IF j = n THEN a ELSE Last(groups[j]))
      BY <2>6
    <3>1. CASE x = a
      <4>1. a \notin ToSet(groups[j])
        BY <1>6
      <4>2. j = n
        BY <2>6, <3>1, <4>1
      <4> QED BY <1>6, <3>0, <3>1, <4>2
    <3>2. CASE x # a
      <4>1. x \in ToSet(groups[j])
        <5>1. ToSet(new[j]) \in {ToSet(groups[j]) \cup {a}, ToSet(groups[j])}
          BY <2>6
        <5> QED BY <3>2, <5>1
      <4>2. Head(groups[j]) <= x /\ x <= Last(groups[j]) /\ x \in S
        BY <1>4, <1>7, <4>1
      <4>3. x \in Nat /\ x < a /\ x <= a
        BY <4>2
      <4>4. Last(new[j]) = a \/ Last(new[j]) = Last(groups[j])
        BY <3>0
      <4> QED BY ONLY <3>0, <4>2, <4>3, <4>4
    <3> QED BY <3>1, <3>2
  <2>9. \A j, k \in 1 .. n : j < k => Last(new[j]) + gap < Head(new[k])
    <3> SUFFICES ASSUME NEW j \in 1 .. n, NEW k \in 1 .. n, j < k
                 PROVE  Last(new[j]) + gap < Head(new[k])
      OBVIOUS
    <3>1. j # n
      BY <1>2
    <3> QED BY <1>7, <2>6, <3>1
  <2>10. ASSUME NEW j \in 1 .. n, NEW u \in T, NEW v \in T,
                Head(new[j]) <= u, u < v, v <= Last(new[j])
         PROVE  \E w \in T : u < w /\ w <= u + gap
    <3>1. u \in S /\ u \in Nat
      BY <2>10 DEF T
    <3>2. CASE v \in S /\ v <= Last(groups[j])
      <4>1. \E w \in S : u < w /\ w <= u + gap
        BY <1>7, <2>6, <2>10, <3>1, <3>2
      <4> QED BY <4>1 DEF T
    <3>3. CASE ~ (v \in S /\ v <= Last(groups[j]))
      <4>1. j = n
        <5>1. CASE v \in S
          BY <2>6, <2>10, <3>3, <5>1
        <5>2. CASE v = a
          <6>1. CASE j # n
            <7>1. v <= Last(groups[j]) /\ Last(groups[j]) < a /\ Last(groups[j]) \in Nat
              BY <1>6, <2>6, <2>10, <6>1
            <7> QED BY <5>2, <7>1
          <6> QED BY <6>1
        <5> QED BY <5>1, <5>2 DEF T
      <4>2. u <= Last(groups[n]) /\ Last(groups[n]) \in S /\ Last(groups[n]) \in Nat
        BY <1>4, <1>5, <1>6, <2>1, <3>1
      <4>3. CASE u = Last(groups[n])
        <5>1. u < a /\ a <= u + gap /\ a \in T
          BY <1>6, <2>1, <2>4, <4>3 DEF T
        <5> QED BY <5>1
      <4>4. CASE u # Last(groups[n])
        <5>1. u < Last(groups[n])
          BY <3>1, <4>2, <4>4
        <5>2. Head(groups[n]) <= u
          BY <2>6, <2>10, <4>1
        <5>3. \E w \in S : u < w /\ w <= u + gap
          <6>1. Last(groups[n]) <= Last(groups[n])
            BY <4>2
          <6> QED BY <1>7, <2>1, <3>1, <4>2, <5>1, <5>2, <6>1
        <5> QED BY <5>3 DEF T
      <4> QED BY <4>3, <4>4
    <3> QED BY <3>2, <3>3
  <2> QED BY <1>2, <2>3, <2>6, <2>7, <2>8, <2>9, <2>10 DEF GroupsOf, new, T
<1>9. CASE ~joins
  <2> HIDE DEF T, new, n, joins
  <2>1. Len(new) = n + 1 /\ new[n + 1] = <<a>> /\ \A j \in 1 .. n : new[j] = groups[j]
    BY <1>2, <1>9
  <2>2. <<a>> # <<>> /\ Head(<<a>>) = a /\ Last(<<a>>) = a /\ ToSet(<<a>>) = {a}
    BY DEF Last, ToSet
  <2>3. \A j \in 1 .. n + 1 : j \in 1 .. n \/ j = n + 1
    BY <1>2
  <2>4. n + 1 \in 1 .. n + 1 /\ \A j \in 1 .. n : j \in 1 .. n + 1
    BY <1>2
  <2>5. \A j \in 1 .. n + 1 : new[j] # <<>>
    BY <1>3, <2>1, <2>2, <2>3
  <2>6. \A x \in T : \E j \in 1 .. n + 1 : x \in ToSet(new[j])
    BY <1>7, <2>1, <2>2, <2>4 DEF T
  <2>7. \A j \in 1 .. n + 1 : \A x \in ToSet(new[j]) : Head(new[j]) <= x /\ x <= Last(new[j])
    BY <1>7, <2>1, <2>2, <2>3
  <2>8. ASSUME n # 0 PROVE Last(groups[n]) + gap < a
    <3>1. n \in 1 .. n /\ groups # <<>>
      BY <1>2, <2>8
    <3>2. Last(groups[n]) \in Nat /\ ~ (a - Last(groups[n]) <= gap)
      BY <1>6, <1>9, <3>1 DEF joins
    <3> QED BY <3>2
  <2>9. ASSUME NEW j \in 1 .. n + 1, NEW k \in 1 .. n + 1, j < k
        PROVE  Last(new[j]) + gap < Head(new[k])
    <3>1. j \in 1 .. n
      BY <1>2, <2>9
    <3>2. CASE k \in 1 .. n
      BY <1>7, <2>1, <2>9, <3>1, <3>2
    <3>3. CASE k = n + 1
      <4>1. Last(groups[j]) <= Last(groups[n])
        BY <1>4, <1>5, <3>1
      <4>2. n # 0 /\ n \in 1 .. n
        BY <1>2, <3>1
      <4>3. Last(groups[j]) \in Nat /\ Last(groups[n]) \in Nat
        BY <1>4, <3>1, <4>2
      <4>4. Last(groups[j]) + gap < a
        BY <2>8, <4>1, <4>2, <4>3
      <4> QED BY <2>1, <2>2, <3>1, <3>3, <4>4
    <3> QED BY <2>3, <3>2, <3>3
  <2>10. ASSUME NEW j \in 1 .. n + 1, NEW u \in T, NEW v \in T,
                Head(new[j]) <= u, u < v, v <= Last(new[j])
         PROVE  \E w \in T : u < w /\ w <= u + gap
    <3>1. CASE j = n + 1
      <4>1. a <= u /\ u < v /\ v <= a
        BY <2>1, <2>2, <2>10, <3>1
      <4>2. u \in Nat /\ v \in Nat
        BY DEF T
      <4> QED BY <4>1, <4>2
    <3>2. CASE j \in 1 .. n
      <4>1. Head(groups[j]) <= u /\ v <= Last(groups[j]) /\ Last(groups[j]) < a
        BY <1>6, <2>1, <2>10, <3>2
      <4>2. u \in S /\ v \in S
        <5>1. Last(groups[j]) \in Nat /\ u \in Nat /\ v \in Nat
          BY <1>6, <3>2 DEF T
        <5>2. u # a /\ v # a
          BY <2>10, <4>1, <5>1
        <5> QED BY <5>2 DEF T
      <4>3. \E w \in S : u < w /\ w <= u + gap
        BY <1>7, <2>10, <3>2, <4>1, <4>2
      <4> QED BY <4>3 DEF T
    <3> QED BY <2>3, <3>1, <3>2
  <2> QED BY <1>2, <2>1, <2>5, <2>6, <2>7, <2>9, <2>10 DEF GroupsOf, new, T
<1> QED BY <1>8, <1>9

(***************************************************************************)
(* Grouped parts any finite set of numbers into its groups: every number   *)
(* is in one, they are in order and more than gap apart, and inside one    *)
(* every number but the last is followed within gap.                       *)
(***************************************************************************)
THEOREM GroupedParts ==
  ASSUME NEW S \in SUBSET Nat, IsFiniteSet(S), NEW gap \in Nat
  PROVE  GroupsOf(Grouped(Sorted(S), gap), S, gap)
<1> DEFINE n == Cardinality(S)
           s == Sorted(S)
           Upto(k) == {s[i] : i \in 1 .. k}
<1>1. /\ n \in Nat /\ s \in [1 .. n -> S] /\ \A x \in S : \E k \in 1 .. n : s[k] = x
      /\ \A j, k \in 1 .. n : j < k => s[j] < s[k]
  BY SortedLists
<1> HIDE DEF n, s
<1>2. PICK p : /\ p[0] = <<>> /\ Grouped(s, gap) = p[n]
               /\ \A k \in 1 .. n : p[k] = Joined(p[k - 1], s[k], gap)
  <2>1. s \in [1 .. n -> Nat]
    BY <1>1
  <2> HIDE DEF Upto
  <2>2. n \in Nat
    BY <1>1
  <2> QED BY <2>1, <2>2, GroupedSteps, Zenon
<1> DEFINE Good == {k \in Nat : k <= n => GroupsOf(p[k], Upto(k), gap)}
<1>3. 0 \in Good
  <2>1. Upto(0) = {}
    OBVIOUS
  <2>2. GroupsOf(<<>>, {}, gap)
    BY DEF GroupsOf
  <2> HIDE DEF Upto
  <2> QED BY <1>2, <2>1, <2>2
<1>4. ASSUME NEW k \in Nat, k \in Good PROVE k + 1 \in Good
  <2> SUFFICES ASSUME k + 1 <= n PROVE GroupsOf(p[k + 1], Upto(k + 1), gap)
    OBVIOUS
  <2>1. k <= n /\ k + 1 \in 1 .. n /\ (k + 1) - 1 = k /\ \A i \in 1 .. k : i \in 1 .. n /\ i < k + 1
    BY <1>1
  <2>2. GroupsOf(p[k], Upto(k), gap)
    <3> HIDE DEF Upto
    <3> QED BY <1>4, <2>1
  <2>3. Upto(k + 1) = Upto(k) \cup {s[k + 1]}
    <3>1. 1 .. k + 1 = (1 .. k) \cup {k + 1}
      OBVIOUS
    <3> QED BY <3>1
  <2>4. Upto(k) \in SUBSET Nat /\ s[k + 1] \in Nat /\ \A x \in Upto(k) : x < s[k + 1]
    <3>1. \A i \in 1 .. k : s[i] \in S /\ s[i] < s[k + 1]
      BY <1>1, <2>1
    <3>2. s[k + 1] \in S
      BY <1>1, <2>1
    <3> QED BY <3>1, <3>2
  <2>5. p[k + 1] = Joined(p[k], s[k + 1], gap)
    BY <1>2, <2>1
  <2> HIDE DEF Upto
  <2>6. GroupsOf(Joined(p[k], s[k + 1], gap), Upto(k) \cup {s[k + 1]}, gap)
    BY <2>2, <2>4, JoinedGroups
  <2> QED BY <2>3, <2>5, <2>6
<1>5. n \in Good
  <2> HIDE DEF Good
  <2> QED BY <1>1, <1>3, <1>4, Induct
<1>6. Upto(n) = S
  BY <1>1
<1>7. GroupsOf(p[n], S, gap)
  <2> HIDE DEF Upto
  <2> QED BY <1>1, <1>5, <1>6
<1> QED BY <1>2, <1>7 DEF s

----------------------------------------------------------------------------
(* Shards *)

(***************************************************************************)
(* The raw shards of some functions: each of them is in one, and the       *)
(* shards begin and end with functions and do not overlap.                 *)
(***************************************************************************)
LEMMA RawShardsPart ==
  ASSUME NEW S \in SUBSET Nat, IsFiniteSet(S)
  PROVE  /\ \A e \in S : \E s \in RawShards(S) : s[1] <= e /\ e <= s[2]
         /\ \A s \in RawShards(S) : s[1] \in S /\ s[2] \in S
         /\ \A s, t \in RawShards(S) : \A e \in Nat :
              s[1] <= e /\ e <= s[2] /\ t[1] <= e /\ e <= t[2] => s = t
<1> DEFINE n == Cardinality(S)
           sorted == Sorted(S)
           K == {j \in 1 .. n : (j - 1) % ShardSize = 0}
           To(k) == Min({k + ShardSize - 1, n})
           Shard(k) == <<sorted[k], sorted[To(k)]>>
<1>0. ShardSize \in Nat \ {0}
  BY FunctionMapAssumption
<1>1. /\ n \in Nat /\ sorted \in [1 .. n -> S] /\ \A x \in S : \E k \in 1 .. n : sorted[k] = x
      /\ \A j, k \in 1 .. n : j < k => sorted[j] < sorted[k]
  BY SortedLists
<1>2. Len(sorted) = n
  BY <1>1
<1>3. RawShards(S) = {Shard(k) : k \in K}
  BY <1>2, Zenon DEF RawShards
<1> HIDE DEF n, sorted
<1>4. ASSUME NEW k \in K
      PROVE  To(k) \in 1 .. n /\ k <= To(k) /\ To(k) <= k + ShardSize - 1
             /\ (k + ShardSize - 1 <= n => To(k) = k + ShardSize - 1)
             /\ (n <= k + ShardSize - 1 => To(k) = n)
  <2>1. k + ShardSize - 1 \in Nat /\ k <= k + ShardSize - 1 /\ k <= n /\ n \in Nat /\ k \in Nat /\ k >= 1
    BY <1>0, <1>1
  <2>2. /\ To(k) \in {k + ShardSize - 1, n} /\ \A m \in {k + ShardSize - 1, n} : To(k) <= m
    <3>1. {k + ShardSize - 1, n} \in SUBSET Nat /\ {k + ShardSize - 1, n} # {}
      BY <2>1
    <3> QED BY <3>1, MinIsLeast
  <2> DEFINE last == k + ShardSize - 1
  <2> HIDE DEF K, To, last
  <2>3. last \in Nat /\ k <= last /\ To(k) \in {last, n} /\ To(k) <= last /\ To(k) <= n
    BY <2>1, <2>2 DEF last
  <2>4. /\ To(k) \in 1 .. n /\ k <= To(k) /\ To(k) <= last
        /\ (last <= n => To(k) = last) /\ (n <= last => To(k) = n)
    BY <2>1, <2>3
  <2> QED BY <2>4 DEF last
<1>5. ASSUME NEW e \in S PROVE \E s \in RawShards(S) : s[1] <= e /\ e <= s[2]
  <2>1. PICK i \in 1 .. n : sorted[i] = e
    BY <1>1
  <2> DEFINE q == (i - 1) \div ShardSize
             k == ShardSize * q + 1
  <2>2. q \in Nat /\ i - 1 = ShardSize * q + ((i - 1) % ShardSize) /\ (i - 1) % ShardSize \in 0 .. ShardSize - 1
    <3>1. i - 1 \in Nat
      OBVIOUS
    <3> QED BY <1>0, <3>1, Remainders
  <2>3. ShardSize * q \in Nat /\ (ShardSize * q) % ShardSize = 0
    <3> HIDE DEF q
    <3> QED BY <1>0, <2>2, Multiples
  <2>4. k \in Nat /\ k - 1 = ShardSize * q /\ 1 <= k /\ k <= i /\ i <= k + ShardSize - 1
    <3> DEFINE m == ShardSize * q
               r == (i - 1) % ShardSize
    <3> HIDE DEF m, r
    <3>1. m \in Nat /\ i - 1 = m + r /\ r \in 0 .. ShardSize - 1 /\ k = m + 1
      BY <2>2, <2>3 DEF m, r
    <3>2. k \in Nat /\ k - 1 = m /\ 1 <= k /\ k <= i /\ i <= k + ShardSize - 1
      BY <1>0, <3>1
    <3> QED BY <3>2 DEF m
  <2> HIDE DEF k, q
  <2>5. k \in K
    BY <1>1, <2>3, <2>4
  <2>6. k \in 1 .. n /\ To(k) \in 1 .. n /\ i <= To(k)
    <3>1. /\ To(k) \in 1 .. n /\ (k + ShardSize - 1 <= n => To(k) = k + ShardSize - 1)
          /\ (n <= k + ShardSize - 1 => To(k) = n)
      BY <1>4, <2>5
    <3> HIDE DEF To
    <3> QED BY <1>0, <1>1, <2>4, <2>5, <3>1
  <2>7. ASSUME NEW a \in 1 .. n, NEW b \in 1 .. n, a <= b PROVE sorted[a] <= sorted[b]
    <3>1. sorted[a] \in Nat /\ sorted[b] \in Nat /\ (a < b => sorted[a] < sorted[b])
      BY <1>1
    <3>2. a < b \/ a = b
      BY <1>1, <2>7
    <3> QED BY <3>1, <3>2
  <2>8. Shard(k)[1] <= e /\ e <= Shard(k)[2]
    <3>1. Shard(k)[1] = sorted[k] /\ Shard(k)[2] = sorted[To(k)]
      OBVIOUS
    <3> HIDE DEF To, Shard
    <3> QED BY <2>1, <2>4, <2>6, <2>7, <3>1
  <2>9. Shard(k) \in RawShards(S)
    BY <1>3, <2>5
  <2> HIDE DEF Shard
  <2> QED BY <2>8, <2>9
<1>6. ASSUME NEW k \in K PROVE Shard(k)[1] \in S /\ Shard(k)[2] \in S
  <2>1. k \in 1 .. n /\ To(k) \in 1 .. n
    BY <1>4
  <2> HIDE DEF To
  <2> QED BY <1>1, <2>1
<1>7. ASSUME NEW k \in K, NEW l \in K, k < l, NEW e \in Nat,
             e <= Shard(k)[2], Shard(l)[1] <= e
      PROVE  FALSE
  <2>1. To(k) \in 1 .. n /\ To(k) <= k + ShardSize - 1 /\ k \in 1 .. n /\ l \in 1 .. n
    BY <1>4
  <2>2. l - k >= ShardSize
    <3>1. k - 1 \in Nat /\ l - 1 \in Nat /\ (k - 1) % ShardSize = 0 /\ (l - 1) % ShardSize = 0 /\ k - 1 < l - 1
      BY <1>7
    <3>2. (l - 1) - (k - 1) >= ShardSize
      BY <1>0, <3>1, Multiples
    <3> QED BY <1>0, <2>1, <3>2
  <2> HIDE DEF To
  <2>3. To(k) < l
    BY <1>0, <2>1, <2>2
  <2>4. sorted[To(k)] < sorted[l] /\ sorted[To(k)] \in Nat /\ sorted[l] \in Nat
    BY <1>1, <2>1, <2>3
  <2>5. e <= sorted[To(k)] /\ sorted[l] <= e
    BY <1>7
  <2> QED BY <2>4, <2>5
<1>8. ASSUME NEW s \in RawShards(S), NEW t \in RawShards(S), NEW e \in Nat,
             s[1] <= e, e <= s[2], t[1] <= e, e <= t[2]
      PROVE  s = t
  <2>1. PICK k \in K : s = Shard(k)
    BY <1>3
  <2>2. PICK l \in K : t = Shard(l)
    BY <1>3
  <2>3. k \in Nat /\ l \in Nat
    OBVIOUS
  <2> HIDE DEF K, Shard
  <2>4. ~ (k < l) /\ ~ (l < k)
    BY <1>7, <1>8, <2>1, <2>2
  <2> QED BY <2>1, <2>2, <2>3, <2>4
<1>9. \A s \in RawShards(S) : s[1] \in S /\ s[2] \in S
  <2> HIDE DEF Shard, K
  <2> QED BY <1>3, <1>6
<1> QED BY <1>5, <1>8, <1>9

(***************************************************************************)
(* The shards for what the raw shards leave out.                           *)
(***************************************************************************)
LEMMA GapShardsPart ==
  ASSUME NEW S \in SUBSET Nat, IsFiniteSet(S)
  PROVE  LET groups == Grouped(Sorted(S), ShardGap - 1)
             gaps == {<<Head(g), Last(g)>> : g \in ToSet(groups)}
         IN /\ \A e \in S : \E s \in gaps : s[1] <= e /\ e <= s[2]
            /\ \A s \in gaps : s[1] \in S /\ s[2] \in S
            /\ \A s, t \in gaps : \A e \in Nat :
                 s[1] <= e /\ e <= s[2] /\ t[1] <= e /\ e <= t[2] => s = t
<1> DEFINE gap == ShardGap - 1
           groups == Grouped(Sorted(S), gap)
           n == Len(groups)
           gaps == {<<Head(g), Last(g)>> : g \in ToSet(groups)}
<1>1. gap \in Nat
  BY FunctionMapAssumption
<1> HIDE DEF gap
<1>2. GroupsOf(groups, S, gap)
  BY <1>1, GroupedParts
<1> HIDE DEF groups
<1>3. n \in Nat /\ DOMAIN groups = 1 .. n
  <2>1. groups \in Seq(Seq(S))
    BY <1>2 DEF GroupsOf
  <2> QED BY <2>1
<1>4. \A j \in 1 .. n : Head(groups[j]) \in S /\ Last(groups[j]) \in S
  BY <1>1, <1>2, LastEnds
<1> HIDE DEF n
<1>5. gaps = {<<Head(groups[j]), Last(groups[j])>> : j \in 1 .. n}
  <2>1. ToSet(groups) = {groups[j] : j \in 1 .. n}
    BY <1>3 DEF ToSet
  <2> QED BY <2>1
<1>6. \A j, k \in 1 .. n : j < k => Last(groups[j]) + gap < Head(groups[k])
  BY <1>2 DEF GroupsOf, n
<1> HIDE DEF gaps
<1>7. ASSUME NEW e \in S PROVE \E s \in gaps : s[1] <= e /\ e <= s[2]
  <2>1. PICK j \in 1 .. n : e \in ToSet(groups[j])
    BY <1>2 DEF GroupsOf, n
  <2>2. Head(groups[j]) <= e /\ e <= Last(groups[j])
    BY <1>2, <2>1 DEF GroupsOf, n
  <2> DEFINE s == <<Head(groups[j]), Last(groups[j])>>
  <2>3. s \in gaps /\ s[1] = Head(groups[j]) /\ s[2] = Last(groups[j])
    BY <1>5
  <2> HIDE DEF s
  <2> QED BY <2>2, <2>3
<1>8. ASSUME NEW s \in gaps PROVE s[1] \in S /\ s[2] \in S
  <2>1. PICK j \in 1 .. n : s = <<Head(groups[j]), Last(groups[j])>>
    BY <1>5
  <2> QED BY <1>4, <2>1
<1>9. ASSUME NEW s \in gaps, NEW t \in gaps, NEW e \in Nat, s[1] <= e, e <= s[2], t[1] <= e, e <= t[2]
      PROVE  s = t
  <2>1. PICK j \in 1 .. n : s = <<Head(groups[j]), Last(groups[j])>>
    BY <1>5
  <2>2. PICK k \in 1 .. n : t = <<Head(groups[k]), Last(groups[k])>>
    BY <1>5
  <2>3. s[1] = Head(groups[j]) /\ s[2] = Last(groups[j]) /\ t[1] = Head(groups[k]) /\ t[2] = Last(groups[k])
    BY <2>1, <2>2
  <2>4. {s[1], s[2], t[1], t[2]} \subseteq Nat
    BY <1>4, <2>3
  <2>5. ~ (j < k)
    <3> SUFFICES ASSUME j < k PROVE FALSE
      OBVIOUS
    <3>1. s[2] + gap < t[1]
      BY <1>6, <2>3
    <3> QED BY <1>1, <1>9, <2>4, <3>1
  <2>6. ~ (k < j)
    <3> SUFFICES ASSUME k < j PROVE FALSE
      OBVIOUS
    <3>1. t[2] + gap < s[1]
      BY <1>6, <2>3
    <3> QED BY <1>1, <1>9, <2>4, <3>1
  <2>7. j = k
    BY <2>5, <2>6
  <2> QED BY <2>1, <2>2, <2>7
<1> QED BY <1>7, <1>8, <1>9 DEF gaps, groups, gap

(***************************************************************************)
(* EveryFunctionShown, for any entries and any raw shards that are there.  *)
(***************************************************************************)
THEOREM EveryFunctionStaysShown == MapSpec => []EveryFunctionShown
<1>1. ASSUME MapInv PROVE EveryFunctionShown
  <2> SUFFICES ASSUME Computed("shards"), NEW e \in input.entries
               PROVE  LET shown == {s \in output : e \in Within(input.entries, s)}
                      IN shown # {} /\ (input.fresh => \A s, t \in shown : s = t)
    BY Zenon DEF EveryFunctionShown
  <2> DEFINE E == input.entries
             real == {x \in E : x < input.limit}
             raw == IF input.fresh THEN RawShards(real) ELSE input.old
             missing == E \ UNION {Within(E, s) : s \in raw}
             gaps == {<<Head(g), Last(g)>> : g \in ToSet(Grouped(Sorted(missing), ShardGap - 1))}
             In(s) == s[1] <= e /\ e <= s[2]
  <2>1. input \in InputsOf("shards") /\ output = Shards(E, raw)
    BY <1>1 DEF MapInv, Computed, InputsOf, Result
  <2>2. E \in SUBSET Nat /\ IsFiniteSet(E) /\ input.limit \in Nat
    BY <2>1, MapAssumption DEF Finite
  <2>3. output = raw \cup gaps
    <3> HIDE DEF raw
    <3> QED BY <2>1 DEF Shards
  <2>4. e \in Nat /\ e \in E
    BY <2>2
  <2>5. \A s : e \in Within(E, s) <=> In(s)
    BY <2>4 DEF Within
  <2> HIDE DEF raw, E, In
  <2>6. missing \in SUBSET Nat /\ IsFiniteSet(missing) /\ missing \subseteq E
    BY <2>2, FS_Subset
  <2>7. /\ \A x \in missing : \E s \in gaps : s[1] <= x /\ x <= s[2]
        /\ \A s \in gaps : s[1] \in missing /\ s[2] \in missing
        /\ \A s, t \in gaps : \A x \in Nat :
             s[1] <= x /\ x <= s[2] /\ t[1] <= x /\ x <= t[2] => s = t
    <3> HIDE DEF missing
    <3> QED BY <2>6, GapShardsPart
  <2>8. e \notin missing => \E s \in raw : In(s)
    BY <2>4, <2>5
  <2> HIDE DEF missing, gaps
  <2>9. \E s \in output : In(s)
    BY <2>3, <2>7, <2>8 DEF In
  <2>10. ASSUME input.fresh, NEW s \in output, NEW t \in output, In(s), In(t) PROVE s = t
    <3>1. real \in SUBSET Nat /\ IsFiniteSet(real) /\ real \subseteq E
      <4>1. real \in SUBSET E
        OBVIOUS
      <4> QED BY <2>2, <4>1, FS_Subset
    <3>2. raw = RawShards(real)
      BY <2>10 DEF raw, E
    <3> HIDE DEF real
    <3>3. /\ \A x \in real : \E u \in raw : u[1] <= x /\ x <= u[2]
          /\ \A u \in raw : u[1] \in real /\ u[2] \in real
          /\ \A u, v \in raw : \A x \in Nat :
               u[1] <= x /\ x <= u[2] /\ v[1] <= x /\ x <= v[2] => u = v
      BY <3>1, <3>2, RawShardsPart
    <3>4. ASSUME NEW x \in missing PROVE x \in Nat /\ x >= input.limit
      <4>1. x \in E /\ \A u \in raw : x \notin Within(E, u)
        BY DEF missing
      <4>2. x \notin real
        <5>1. \A u \in raw : ~ (u[1] <= x /\ x <= u[2])
          BY <4>1 DEF Within
        <5> QED BY <3>3, <5>1
      <4> QED BY <2>2, <4>1, <4>2 DEF real, E
    <3>5. ASSUME NEW u \in raw, NEW v \in gaps, In(u), In(v) PROVE FALSE
      <4>1. u[2] \in Nat /\ u[2] < input.limit /\ v[1] \in Nat /\ v[1] >= input.limit
        <5>1. u[2] \in real
          BY <3>3
        <5>2. v[1] \in missing
          BY <2>7
        <5> QED BY <2>2, <3>4, <5>1, <5>2 DEF real, E
      <4> QED BY <2>2, <2>4, <3>5, <4>1 DEF In
    <3>6. CASE s \in raw /\ t \in raw
      BY <2>4, <2>10, <3>3, <3>6 DEF In
    <3>7. CASE s \in gaps /\ t \in gaps
      BY <2>4, <2>7, <2>10, <3>7 DEF In
    <3> QED BY <2>3, <2>10, <3>5, <3>6, <3>7
  <2>11. \A s : e \in Within(input.entries, s) <=> In(s)
    BY <2>5 DEF E
  <2> QED BY <2>9, <2>10, <2>11
<1> QED BY <1>1, OutputIsResult, PTL

----------------------------------------------------------------------------
(* Strings *)

NoRuns == [start |-> 0, found |-> {}]

IsScanning(g, data, min) ==
  g = [s \in SUBSET DOMAIN [k \in 1 .. Len(data) |-> k] |->
        IF s = {} THEN NoRuns
        ELSE Scan(data, min, g[s \ {Max(s)}], [k \in 1 .. Len(data) |-> k][Max(s)])]

(***************************************************************************)
(* The runs, as the function that their fold is defined by.                *)
(***************************************************************************)
LEMMA RunsFold ==
  ASSUME NEW printable, NEW min
  PROVE  LET data == WithEnd(printable)
             places == [k \in 1 .. Len(data) |-> k]
         IN PrintableRuns(printable, min) = (CHOOSE g : IsScanning(g, data, min))[DOMAIN places].found
BY Zenon DEF PrintableRuns, FoldLeft, MapThenFoldSet, IsScanning, NoRuns

(***************************************************************************)
(* What it has found is pairs of numbers.                                  *)
(***************************************************************************)
LEMMA ScanTyped ==
  ASSUME NEW data, NEW min, NEW st \in [start : Nat, found : SUBSET (Nat \X Nat)], NEW k \in Nat
  PROVE  Scan(data, min, st, k) \in [start : Nat, found : SUBSET (Nat \X Nat)]
<1>1. st.start \in Nat /\ st.found \in SUBSET (Nat \X Nat) /\ <<st.start, k>> \in Nat \X Nat
  OBVIOUS
<1>2. CASE data[k]
  <2>1. Scan(data, min, st, k) = [st EXCEPT !.start = IF @ = 0 THEN k ELSE @]
    BY <1>2 DEF Scan
  <2> QED BY <1>1, <2>1
<1>3. CASE ~data[k]
  <2> DEFINE new == IF st.start # 0 /\ k - st.start >= min THEN {<<st.start, k>>} ELSE {}
  <2>1. Scan(data, min, st, k) = [start |-> 0, found |-> st.found \cup new]
    BY <1>3 DEF Scan
  <2>2. new \in SUBSET (Nat \X Nat)
    BY <1>1
  <2> HIDE DEF new
  <2> QED BY <1>1, <2>1, <2>2
<1> QED BY <1>2, <1>3

(***************************************************************************)
(* The scan goes from place to place.                                      *)
(***************************************************************************)
LEMMA ScanSteps ==
  ASSUME NEW printable, NEW min, NEW n \in Nat, n = Len(WithEnd(printable))
  PROVE  \E p : /\ p[0] = NoRuns /\ PrintableRuns(printable, min) = p[n].found
                /\ \A k \in 1 .. n : p[k] = Scan(WithEnd(printable), min, p[k - 1], k)
<1> DEFINE data == WithEnd(printable)
           States == [start : Nat, found : SUBSET (Nat \X Nat)]
           step == [x \in States \X (1 .. n) |-> Scan(data, min, x[1], x[2])]
           h == CHOOSE g : IsScanning(g, data, min)
           p == [k \in 0 .. n |-> h[1 .. k]]
           places == [k \in 1 .. n |-> k]
<1>1. DOMAIN places = 1 .. n /\ \A k \in 1 .. n : places[k] = k
  OBVIOUS
<1> HIDE DEF data
<1>2. \A st \in States, k \in 1 .. n : Scan(data, min, st, k) \in States
  BY ScanTyped
<1>3. step \in [States \X (1 .. n) -> States]
  <2> HIDE DEF States
  <2> QED BY <1>2
<1>4. PICK g \in [SUBSET (1 .. n) -> States] : IsFold(g, n, NoRuns, step)
  <2>1. NoRuns \in States
    BY DEF NoRuns
  <2> HIDE DEF States, step
  <2> QED BY <1>3, <2>1, FoldExists
<1>5. IsScanning(g, data, min)
  <2>1. \A s \in SUBSET (1 .. n) : s # {} => Max(s) \in 1 .. n /\ s \ {Max(s)} \in SUBSET (1 .. n)
    BY Places
  <2>2. \A s \in SUBSET (1 .. n) : s # {} =>
          step[<<g[s \ {Max(s)}], Max(s)>>] = Scan(data, min, g[s \ {Max(s)}], places[Max(s)])
    <3> HIDE DEF States
    <3> QED BY <1>1, <2>1
  <2> HIDE DEF States, step, places
  <2>3. g = [s \in SUBSET (1 .. n) |-> IF s = {} THEN NoRuns ELSE step[<<g[s \ {Max(s)}], Max(s)>>]]
    BY <1>4, Zenon DEF IsFold
  <2>4. g = [s \in SUBSET DOMAIN places |->
              IF s = {} THEN NoRuns ELSE Scan(data, min, g[s \ {Max(s)}], places[Max(s)])]
    BY <1>1, <2>2, <2>3
  <2> QED BY <2>4, Zenon DEF IsScanning, data, places
<1>6. \A s \in SUBSET (1 .. n) :
        h[s] = IF s = {} THEN NoRuns ELSE Scan(data, min, h[s \ {Max(s)}], places[Max(s)])
  <2>1. IsScanning(h, data, min)
    BY <1>5, Zenon
  <2> HIDE DEF h, places
  <2>2. h = [s \in SUBSET DOMAIN places |->
              IF s = {} THEN NoRuns ELSE Scan(data, min, h[s \ {Max(s)}], places[Max(s)])]
    BY <2>1, Zenon DEF IsScanning, data, places
  <2> QED BY <1>1, <2>2, Zenon
<1> HIDE DEF h, places
<1>7. p[0] = NoRuns /\ p[n] = h[1 .. n]
  <2>1. 1 .. 0 = {} /\ {} \in SUBSET (1 .. n) /\ 0 \in 0 .. n /\ n \in 0 .. n
    OBVIOUS
  <2>2. p[0] = h[{}] /\ p[n] = h[1 .. n]
    BY <2>1
  <2> QED BY <1>6, <2>1, <2>2
<1>8. ASSUME NEW k \in 1 .. n PROVE p[k] = Scan(data, min, p[k - 1], k)
  <2>1. 1 .. k # {} /\ Max(1 .. k) = k /\ (1 .. k) \ {k} = 1 .. k - 1
    BY LastPlace
  <2>2. 1 .. k \in SUBSET (1 .. n) /\ k \in 0 .. n /\ k - 1 \in 0 .. n
    OBVIOUS
  <2>3. p[k] = h[1 .. k] /\ p[k - 1] = h[1 .. k - 1]
    BY <2>2
  <2>4. h[1 .. k] = Scan(data, min, h[(1 .. k) \ {Max(1 .. k)}], places[Max(1 .. k)])
    BY <1>6, <2>1, <2>2
  <2> QED BY <1>1, <2>1, <2>3, <2>4
<1>9. PrintableRuns(printable, min) = p[n].found
  <2>1. PrintableRuns(printable, min) = h[DOMAIN places].found
    BY RunsFold, Zenon DEF h, data, places
  <2> QED BY <1>1, <1>7, <2>1
<1> HIDE DEF p
<1> QED BY <1>7, <1>8, <1>9 DEF data

\* The runs of at least min bytes that end before place k + 1
RunsUpto(data, min, n, k) ==
  {run \in (1 .. n) \X (1 .. n) :
     /\ run[2] <= k /\ run[1] + min <= run[2]
     /\ \A i \in run[1] .. run[2] - 1 : data[i]
     /\ run[1] > 1 => ~data[run[1] - 1]
     /\ ~data[run[2]]}

\* start is where the bytes began that are printable up to place k.
RunAt(data, k, start) ==
  /\ start = 0 => k = 0 \/ ~data[k]
  /\ start # 0 => /\ start <= k /\ \A i \in start .. k : data[i]
                  /\ start > 1 => ~data[start - 1]

ScanInv(data, min, n, k, st) ==
  /\ st.start \in Nat /\ RunAt(data, k, st.start)
  /\ st.found = RunsUpto(data, min, n, k)

(***************************************************************************)
(* Past the byte at k + 1, the scan has found what ends there.             *)
(***************************************************************************)
LEMMA ScanKeeps ==
  ASSUME NEW n \in Nat, NEW data \in [1 .. n -> BOOLEAN], NEW min \in Nat \ {0},
         NEW k \in Nat, k + 1 \in 1 .. n,
         NEW st, st \in [start : Nat, found : SUBSET (Nat \X Nat)], ScanInv(data, min, n, k, st)
  PROVE  ScanInv(data, min, n, k + 1, Scan(data, min, st, k + 1))
<1> DEFINE m == k + 1
           start == st.start
           new == Scan(data, min, st, m)
<1>1. start \in Nat /\ RunAt(data, k, start) /\ st.found = RunsUpto(data, min, n, k) /\ m \in Nat
  BY DEF ScanInv
<1> SUFFICES ScanInv(data, min, n, m, new)
  OBVIOUS
<1>2. CASE data[m]
  <2>1. new = [st EXCEPT !.start = IF @ = 0 THEN m ELSE @]
    BY <1>2 DEF Scan
  <2>2. new.start = (IF start = 0 THEN m ELSE start) /\ new.found = st.found
    BY <2>1
  <2>3. RunAt(data, m, new.start)
    <3> HIDE DEF new, start
    <3>1. CASE start = 0
      <4>1. new.start = m /\ m # 0
        BY <1>1, <2>2, <3>1
      <4>2. \A i \in m .. m : data[i]
        BY <1>2
      <4>3. m > 1 => ~data[m - 1]
        BY <1>1, <3>1 DEF RunAt
      <4> QED BY <4>1, <4>2, <4>3 DEF RunAt
    <3>2. CASE start # 0
      <4>1. new.start = start
        BY <2>2, <3>2
      <4>2. start <= k /\ (\A i \in start .. k : data[i]) /\ (start > 1 => ~data[start - 1])
        BY <1>1, <3>2 DEF RunAt
      <4>3. \A i \in start .. m : i \in start .. k \/ i = m
        BY <1>1
      <4> QED BY <1>1, <1>2, <3>2, <4>1, <4>2, <4>3 DEF RunAt
    <3> QED BY <3>1, <3>2
  <2>4. RunsUpto(data, min, n, k) = RunsUpto(data, min, n, m)
    <3>1. \A run \in (1 .. n) \X (1 .. n) : ~data[run[2]] => (run[2] <= k <=> run[2] <= m)
      <4> SUFFICES ASSUME NEW run \in (1 .. n) \X (1 .. n), ~data[run[2]]
                   PROVE  run[2] <= k <=> run[2] <= m
        OBVIOUS
      <4>1. run[2] # m /\ run[2] \in Nat
        BY <1>2
      <4> QED BY <4>1
    <3> HIDE DEF m
    <3> QED BY <3>1 DEF RunsUpto
  <2>5. new.start \in Nat
    <3> HIDE DEF new, start
    <3> QED BY <1>1, <2>2
  <2> HIDE DEF new, m
  <2> QED BY <1>1, <2>2, <2>3, <2>4, <2>5 DEF ScanInv
<1>3. CASE ~data[m]
  <2> DEFINE ends == IF start # 0 /\ m - start >= min THEN {<<start, m>>} ELSE {}
  <2>1. new = [start |-> 0, found |-> st.found \cup ends]
    BY <1>3 DEF Scan
  <2>2. new.start = 0 /\ new.found = st.found \cup ends
    BY <2>1
  <2> HIDE DEF new
  <2>3. RunAt(data, m, 0)
    BY <1>3 DEF RunAt
  <2>4. ASSUME NEW run \in RunsUpto(data, min, n, m)
        PROVE  run \in RunsUpto(data, min, n, k) \cup ends
    <3> DEFINE a == run[1]
               b == run[2]
    <3>1. /\ run \in (1 .. n) \X (1 .. n) /\ a \in 1 .. n /\ b \in 1 .. n /\ run = <<a, b>>
          /\ b <= m /\ a + min <= b /\ (\A i \in a .. b - 1 : data[i])
          /\ (a > 1 => ~data[a - 1]) /\ ~data[b]
      BY DEF RunsUpto
    <3> HIDE DEF a, b
    <3>2. CASE b <= k
      BY <3>1, <3>2 DEF RunsUpto, a, b
    <3>3. CASE b = m
      <4>1. a <= k /\ data[k] /\ \A i \in a .. k : data[i]
        <5>1. a <= k /\ b - 1 = k
          BY <3>1, <3>3
        <5> QED BY <3>1, <5>1
      <4>2. start # 0 /\ start <= k /\ (\A i \in start .. k : data[i]) /\ (start > 1 => ~data[start - 1])
        <5> HIDE DEF start
        <5>1. start # 0
          BY <1>1, <3>1, <4>1 DEF RunAt
        <5> QED BY <1>1, <5>1 DEF RunAt
      <4>3. ~ (a < start)
        <5> SUFFICES ASSUME a < start PROVE FALSE
          OBVIOUS
        <5> HIDE DEF start
        <5>1. start > 1 /\ start - 1 \in a .. k
          BY <1>1, <3>1, <4>2
        <5> QED BY <4>1, <4>2, <5>1
      <4>4. ~ (start < a)
        <5> SUFFICES ASSUME start < a PROVE FALSE
          OBVIOUS
        <5> HIDE DEF start
        <5>1. a > 1 /\ a - 1 \in start .. k
          BY <1>1, <3>1, <4>1, <4>2
        <5> QED BY <3>1, <4>2, <5>1
      <4>5. a = start
        <5> HIDE DEF start
        <5> QED BY <1>1, <3>1, <4>3, <4>4
      <4>6. m - start >= min
        <5> HIDE DEF start
        <5> QED BY <1>1, <3>1, <3>3, <4>5
      <4> QED BY <3>1, <3>3, <4>2, <4>5, <4>6
    <3>4. b <= k \/ b = m
      BY <3>1
    <3> QED BY <3>2, <3>3, <3>4
  <2>5. ASSUME NEW run \in RunsUpto(data, min, n, k)
        PROVE  run \in RunsUpto(data, min, n, m)
    <3>1. run[2] \in Nat /\ (run[2] <= k => run[2] <= m)
      BY DEF RunsUpto
    <3> HIDE DEF m
    <3> QED BY <3>1 DEF RunsUpto
  <2>6. ASSUME start # 0, m - start >= min
        PROVE  <<start, m>> \in RunsUpto(data, min, n, m)
    <3>1. start <= k /\ (\A i \in start .. k : data[i]) /\ (start > 1 => ~data[start - 1])
      <4> HIDE DEF start
      <4> QED BY <1>1, <2>6 DEF RunAt
    <3> DEFINE run == <<start, m>>
    <3>2. run[1] = start /\ run[2] = m /\ run \in (1 .. n) \X (1 .. n)
      <4>1. start \in 1 .. n
        <5> HIDE DEF start
        <5> QED BY <1>1, <2>6, <3>1
      <4> QED BY <4>1
    <3>3. m - 1 = k /\ m <= m /\ start + min <= m
      <4> HIDE DEF start
      <4> QED BY <1>1, <2>6
    <3> HIDE DEF run, start, m
    <3> QED BY <1>3, <3>1, <3>2, <3>3 DEF RunsUpto, run
  <2>7. RunsUpto(data, min, n, m) = st.found \cup ends
    <3>1. ends \subseteq RunsUpto(data, min, n, m)
      BY <2>6
    <3> HIDE DEF ends, m
    <3> QED BY <1>1, <2>4, <2>5, <3>1
  <2>8. new.start \in Nat
    BY <2>2
  <2> HIDE DEF m, ends
  <2> QED BY <2>2, <2>3, <2>7, <2>8 DEF ScanInv
<1> QED BY <1>2, <1>3

(***************************************************************************)
(* The strings of any bytes are their runs.                                *)
(***************************************************************************)
LEMMA RunsAreFound ==
  ASSUME NEW printable \in Seq(BOOLEAN), NEW min \in Nat \ {0}
  PROVE  LET n == Len(printable)
         IN PrintableRuns(printable, min) =
              {run \in (1 .. n + 1) \X (1 .. n + 1) :
                 /\ run[1] + min <= run[2]
                 /\ \A k \in run[1] .. run[2] - 1 : printable[k]
                 /\ run[1] > 1 => ~printable[run[1] - 1]
                 /\ run[2] <= n => ~printable[run[2]]}
<1> DEFINE len == Len(printable)
           n == len + 1
           data == WithEnd(printable)
           States == [start : Nat, found : SUBSET (Nat \X Nat)]
<1>1. len \in Nat /\ n \in Nat /\ n - 1 = len
  OBVIOUS
<1>2. /\ data \in [1 .. n -> BOOLEAN] /\ Len(data) = n /\ data[n] = FALSE
      /\ \A k \in 1 .. len : data[k] = printable[k]
  <2>1. /\ Append(printable, FALSE) \in Seq(BOOLEAN) /\ Len(Append(printable, FALSE)) = len + 1
        /\ \A i \in 1 .. len : Append(printable, FALSE)[i] = printable[i]
        /\ Append(printable, FALSE)[len + 1] = FALSE
    BY AppendProperties
  <2>2. \A s \in Seq(BOOLEAN) : s \in [1 .. Len(s) -> BOOLEAN]
    OBVIOUS
  <2> HIDE DEF len
  <2> QED BY <2>1, <2>2 DEF WithEnd
<1> HIDE DEF n, data, len
<1>3. PICK p : /\ p[0] = NoRuns /\ PrintableRuns(printable, min) = p[n].found
               /\ \A k \in 1 .. n : p[k] = Scan(data, min, p[k - 1], k)
  BY <1>1, <1>2, ScanSteps DEF data
<1> DEFINE Good == {k \in Nat : k <= n => p[k] \in States /\ ScanInv(data, min, n, k, p[k])}
<1>4. 0 \in Good
  <2>1. NoRuns \in States
    BY DEF NoRuns
  <2>2. RunsUpto(data, min, n, 0) = {}
    BY DEF RunsUpto
  <2>3. ScanInv(data, min, n, 0, NoRuns)
    BY <2>2 DEF ScanInv, NoRuns, RunAt
  <2> HIDE DEF States
  <2> QED BY <1>3, <2>1, <2>3
<1>5. ASSUME NEW k \in Nat, k \in Good PROVE k + 1 \in Good
  <2> SUFFICES ASSUME k + 1 <= n PROVE p[k + 1] \in States /\ ScanInv(data, min, n, k + 1, p[k + 1])
    OBVIOUS
  <2>1. k <= n /\ k + 1 \in 1 .. n /\ (k + 1) - 1 = k
    BY <1>1
  <2>2. p[k] \in States /\ ScanInv(data, min, n, k, p[k])
    BY <1>5, <2>1
  <2>3. p[k + 1] = Scan(data, min, p[k], k + 1)
    BY <1>3, <2>1
  <2>4. ScanInv(data, min, n, k + 1, Scan(data, min, p[k], k + 1))
    BY <1>1, <1>2, <2>1, <2>2, ScanKeeps
  <2>5. Scan(data, min, p[k], k + 1) \in States
    BY <2>1, <2>2, ScanTyped
  <2> QED BY <2>3, <2>4, <2>5
<1>6. ScanInv(data, min, n, n, p[n])
  <2>1. n \in Good
    <3> HIDE DEF Good
    <3> QED BY <1>1, <1>4, <1>5, Induct
  <2> QED BY <1>1, <2>1
<1>7. PrintableRuns(printable, min) = RunsUpto(data, min, n, n)
  BY <1>3, <1>6 DEF ScanInv
<1>8. ASSUME NEW run \in (1 .. n) \X (1 .. n), run[1] + min <= run[2]
      PROVE  /\ run[2] <= n
             /\ (\A i \in run[1] .. run[2] - 1 : data[i]) <=> \A i \in run[1] .. run[2] - 1 : printable[i]
             /\ (run[1] > 1 => ~data[run[1] - 1]) <=> (run[1] > 1 => ~printable[run[1] - 1])
             /\ ~data[run[2]] <=> (run[2] <= len => ~printable[run[2]])
  <2> DEFINE a == run[1]
             b == run[2]
  <2>1. a \in 1 .. n /\ b \in 1 .. n /\ a + min <= b
    BY <1>8
  <2> HIDE DEF a, b
  <2>2. b <= n /\ \A i \in a .. b - 1 : i \in 1 .. len
    BY <1>1, <2>1
  <2>3. a > 1 => a - 1 \in 1 .. len
    BY <1>1, <2>1
  <2>4. (b <= len => b \in 1 .. len) /\ (~ (b <= len) => b = n)
    BY <1>1, <2>1
  <2>5. ~data[b] <=> (b <= len => ~printable[b])
    BY <1>2, <2>4
  <2> QED BY <1>2, <2>2, <2>3, <2>5 DEF a, b
<1>9. RunsUpto(data, min, n, n) =
        {run \in (1 .. n) \X (1 .. n) :
           /\ run[1] + min <= run[2]
           /\ \A k \in run[1] .. run[2] - 1 : printable[k]
           /\ run[1] > 1 => ~printable[run[1] - 1]
           /\ run[2] <= len => ~printable[run[2]]}
  BY <1>8 DEF RunsUpto
<1> QED BY <1>7, <1>9 DEF n, len

(***************************************************************************)
(* StringsWhole, for any image and any least length.                       *)
(***************************************************************************)
THEOREM StringsStayWhole == MapSpec => []StringsWhole
<1>1. ASSUME MapInv PROVE StringsWhole
  <2> SUFFICES ASSUME Computed("strings")
               PROVE  LET n == Len(input.printable) IN
                      output = {run \in (1 .. n + 1) \X (1 .. n + 1) :
                                  /\ run[1] + input.min <= run[2]
                                  /\ \A k \in run[1] .. run[2] - 1 : input.printable[k]
                                  /\ run[1] > 1 => ~input.printable[run[1] - 1]
                                  /\ run[2] <= n => ~input.printable[run[2]]}
    BY Zenon DEF StringsWhole
  <2>1. input \in InputsOf("strings") /\ output = PrintableRuns(input.printable, input.min)
    BY <1>1 DEF MapInv, Computed, InputsOf, Result
  <2>2. input.printable \in Seq(BOOLEAN) /\ input.min \in Nat \ {0}
    BY <2>1, MapAssumption
  <2> QED BY <2>1, <2>2, RunsAreFound
<1> QED BY <1>1, OutputIsResult, PTL

----------------------------------------------------------------------------
(* Tables *)

(***************************************************************************)
(* After a group nothing follows within gap.                               *)
(***************************************************************************)
LEMMA NothingFollows ==
  ASSUME NEW S \in SUBSET Nat, NEW gap \in Nat, NEW groups, GroupsOf(groups, S, gap),
         NEW i \in 1 .. Len(groups), NEW w \in S, Last(groups[i]) < w
  PROVE  Last(groups[i]) + gap < w
<1> DEFINE n == Len(groups)
<1>1. n \in Nat
  <2>1. groups \in Seq(Seq(S))
    BY DEF GroupsOf
  <2> QED BY <2>1
<1>2. PICK l \in 1 .. n : w \in ToSet(groups[l])
  BY DEF GroupsOf
<1>3. Head(groups[l]) <= w /\ w <= Last(groups[l])
  BY <1>2 DEF GroupsOf
<1>4. \A j \in 1 .. n : /\ Head(groups[j]) \in Nat /\ Last(groups[j]) \in Nat
                        /\ Head(groups[j]) <= Last(groups[j])
  <2> SUFFICES ASSUME NEW j \in 1 .. n
               PROVE  /\ Head(groups[j]) \in Nat /\ Last(groups[j]) \in Nat
                      /\ Head(groups[j]) <= Last(groups[j])
    OBVIOUS
  <2>1. Head(groups[j]) \in S /\ Last(groups[j]) \in S
    BY LastEnds
  <2>2. groups[j] \in Seq(S) /\ groups[j] # <<>>
    BY DEF GroupsOf
  <2>3. Head(groups[j]) \in ToSet(groups[j])
    BY <2>2, Ends
  <2>4. Head(groups[j]) <= Last(groups[j])
    BY <2>3 DEF GroupsOf
  <2> QED BY <2>1, <2>4
<1>5. \A j, k \in 1 .. n : j < k => Last(groups[j]) + gap < Head(groups[k])
  BY DEF GroupsOf
<1> HIDE DEF n
<1>6. l # i
  BY <1>2, <1>3, <1>4
<1>7. ~ (l < i)
  <2> SUFFICES ASSUME l < i PROVE FALSE
    OBVIOUS
  <2>1. i \in 1 .. n
    BY DEF n
  <2>2. Last(groups[l]) + gap < Head(groups[i]) /\ Head(groups[i]) <= Last(groups[i])
    BY <1>2, <1>4, <1>5, <2>1
  <2>3. {Last(groups[l]), Head(groups[i]), Last(groups[i]), w} \subseteq Nat
    BY <1>2, <1>4, <2>1
  <2> QED BY <1>3, <2>2, <2>3
<1>8. i < l /\ i \in 1 .. n
  BY <1>1, <1>2, <1>6, <1>7 DEF n
<1>9. Last(groups[i]) + gap < Head(groups[l])
  BY <1>2, <1>5, <1>8
<1>10. {Last(groups[i]), Head(groups[l]), w} \subseteq Nat
  BY <1>2, <1>4, <1>8
<1> QED BY <1>3, <1>9, <1>10

\* No gap of more than gap parts the numbers from x to y.
Chained(S, gap, x, y) ==
  \A u, v \in S : x <= u /\ u < v /\ v <= y => \E w \in S : u < w /\ w <= u + gap

(***************************************************************************)
(* So a chain through a number of a group stays in the group.              *)
(***************************************************************************)
LEMMA ChainsStay ==
  ASSUME NEW S \in SUBSET Nat, NEW gap \in Nat, NEW groups, GroupsOf(groups, S, gap),
         NEW j \in 1 .. Len(groups), NEW b \in ToSet(groups[j]), NEW x \in S, NEW y \in S,
         x <= b, b <= y, Chained(S, gap, x, y)
  PROVE  Head(groups[j]) <= x /\ y <= Last(groups[j])
<1> DEFINE n == Len(groups)
           H(i) == Head(groups[i])
           L(i) == Last(groups[i])
<1>1. \A i \in 1 .. n : H(i) \in S /\ L(i) \in S /\ ToSet(groups[i]) \subseteq S
  <2> SUFFICES ASSUME NEW i \in 1 .. n PROVE H(i) \in S /\ L(i) \in S /\ ToSet(groups[i]) \subseteq S
    OBVIOUS
  <2>1. groups[i] \in Seq(S) /\ groups[i] # <<>>
    BY DEF GroupsOf
  <2>2. ToSet(groups[i]) \subseteq S
    BY <2>1, Ends
  <2> QED BY <2>2, LastEnds
<1>2. H(j) <= b /\ b <= L(j) /\ b \in S
  BY <1>1 DEF GroupsOf
<1>3. j \in 1 .. n
  OBVIOUS
<1>4. \A i \in 1 .. n : \A w \in S : L(i) < w => L(i) + gap < w
  BY NothingFollows
<1>5. \A i, k \in 1 .. n : i < k => L(i) + gap < H(k)
  BY DEF GroupsOf
<1>6. \A i \in 1 .. n : \A v \in S : x <= L(i) /\ L(i) < v /\ v <= y => FALSE
  <2> SUFFICES ASSUME NEW i \in 1 .. n, NEW v \in S, x <= L(i), L(i) < v, v <= y PROVE FALSE
    OBVIOUS
  <2>1. L(i) \in S
    BY <1>1
  <2>2. PICK w \in S : L(i) < w /\ w <= L(i) + gap
    <3> HIDE DEF L
    <3> QED BY <2>1 DEF Chained
  <2>3. L(i) + gap < w
    BY <1>4, <2>2
  <2> HIDE DEF L
  <2>4. L(i) \in Nat /\ w \in Nat
    BY <2>1
  <2> QED BY <2>2, <2>3, <2>4
<1>7. PICK i \in 1 .. n : x \in ToSet(groups[i])
  BY DEF GroupsOf
<1>8. H(i) <= x /\ x <= L(i)
  BY <1>7 DEF GroupsOf
<1> HIDE DEF H, L
<1>9. y <= L(j)
  <2>1. L(j) \in Nat /\ b \in Nat
    BY <1>1, <1>2, <1>3
  <2>2. x <= L(j)
    BY <1>2, <2>1
  <2> QED BY <1>3, <1>6, <2>1, <2>2
<1>10. i = j
  <2> HIDE DEF n
  <2>0. H(i) \in Nat /\ L(i) \in Nat /\ H(j) \in Nat /\ L(j) \in Nat /\ b \in Nat /\ i \in Int /\ j \in Int
    <3>1. \A k \in 1 .. n : H(k) \in Nat /\ L(k) \in Nat
      BY <1>1
    <3>2. b \in Nat
      BY <1>2
    <3> QED BY <1>3, <1>7, <3>1, <3>2
  <2>1. ~ (i < j)
    <3> SUFFICES ASSUME i < j PROVE FALSE
      OBVIOUS
    <3>1. L(i) + gap < H(j)
      BY <1>3, <1>5, <1>7
    <3>2. L(i) < b
      BY <1>2, <2>0, <3>1
    <3> QED BY <1>2, <1>6, <1>7, <1>8, <3>2
  <2>2. ~ (j < i)
    <3> SUFFICES ASSUME j < i PROVE FALSE
      OBVIOUS
    <3>1. L(j) + gap < H(i)
      BY <1>3, <1>5, <1>7
    <3> QED BY <1>2, <1>8, <2>0, <3>1
  <2> QED BY <2>0, <2>1, <2>2
<1> QED BY <1>8, <1>9, <1>10 DEF H, L

(***************************************************************************)
(* TablesApart, for any words, strings and references.                     *)
(***************************************************************************)
THEOREM TablesStayApart == MapSpec => []TablesApart
<1>1. ASSUME MapInv, Computed("tables") PROVE TablesApart
  <2> DEFINE words == input.words
             strings == input.strings
             ptrs == {a \in DOMAIN words : words[a] \in strings}
             Linked(x, y) == \A u, v \in ptrs : x <= u /\ u < v /\ v <= y =>
                               \E w \in ptrs : u < w /\ w <= u + TableGap
             Table(a) == {b \in ptrs : \E x, y \in ptrs : /\ x - TableMargin <= a /\ a <= y + TableMargin
                                                          /\ x <= b /\ b <= y /\ Linked(x, y)}
             regions == Regions(words, strings)
             n == Len(regions)
             Pointed(a) == UNION {ToSet(regions[k]) : k \in RegionOf(regions, a)}
  <2>1. /\ input \in InputsOf("tables") /\ output.regions = regions
        /\ output.strings = Attached(input, words, strings)
    BY <1>1 DEF MapInv, Computed, InputsOf, Result
  <2>2. ptrs \in SUBSET Nat /\ IsFiniteSet(ptrs) /\ input.ptrRefs \subseteq Nat
    <3>1. DOMAIN words \subseteq Nat /\ IsFiniteSet(DOMAIN words) /\ input.ptrRefs \subseteq Nat
      BY <2>1, MapAssumption DEF Finite
    <3>2. ptrs \in SUBSET (DOMAIN words)
      OBVIOUS
    <3> HIDE DEF ptrs
    <3> QED BY <3>1, <3>2, FS_Subset
  <2>3. TableGap \in Nat /\ TableMargin \in Nat /\ 2 * TableMargin < TableGap
    BY FunctionMapAssumption
  <2>4. GroupsOf(regions, ptrs, TableGap)
    <3>1. regions = Grouped(Sorted(ptrs), TableGap)
      BY DEF Regions
    <3> HIDE DEF regions, ptrs
    <3> QED BY <2>2, <2>3, <3>1, GroupedParts
  <2>5. \A x, y : Linked(x, y) <=> Chained(ptrs, TableGap, x, y)
    BY DEF Chained
  <2> HIDE DEF ptrs, regions, Linked
  <2>6. n \in Nat /\ DOMAIN regions = 1 .. n
    <3>1. regions \in Seq(Seq(ptrs))
      BY <2>4 DEF GroupsOf
    <3> QED BY <3>1
  <2>7. \A j \in 1 .. n : /\ Head(regions[j]) \in ptrs /\ Last(regions[j]) \in ptrs
                          /\ ToSet(regions[j]) \subseteq ptrs
    <3> SUFFICES ASSUME NEW j \in 1 .. n
                 PROVE  /\ Head(regions[j]) \in ptrs /\ Last(regions[j]) \in ptrs
                        /\ ToSet(regions[j]) \subseteq ptrs
      OBVIOUS
    <3>1. regions[j] \in Seq(ptrs) /\ regions[j] # <<>>
      BY <2>4 DEF GroupsOf
    <3>2. ToSet(regions[j]) \subseteq ptrs
      BY <3>1, Ends
    <3> QED BY <2>2, <2>3, <2>4, <3>2, LastEnds
  <2>8. \A j, k \in 1 .. n : j < k => Last(regions[j]) + TableMargin < Head(regions[k]) - TableMargin
    <3> SUFFICES ASSUME NEW j \in 1 .. n, NEW k \in 1 .. n, j < k
                 PROVE  Last(regions[j]) + TableMargin < Head(regions[k]) - TableMargin
      OBVIOUS
    <3>1. Last(regions[j]) + TableGap < Head(regions[k])
      BY <2>4 DEF GroupsOf
    <3>2. Last(regions[j]) \in Nat /\ Head(regions[k]) \in Nat
      BY <2>2, <2>7
    <3> QED BY <2>3, <3>1, <3>2
  <2>9. ASSUME NEW a \in Nat, NEW b \in Table(a) PROVE b \in Pointed(a)
    <3>1. PICK x \in ptrs, y \in ptrs : /\ x - TableMargin <= a /\ a <= y + TableMargin
                                        /\ x <= b /\ b <= y /\ Linked(x, y)
      OBVIOUS
    <3>2. PICK j \in 1 .. n : b \in ToSet(regions[j])
      BY <2>4 DEF GroupsOf
    <3>3. Head(regions[j]) <= x /\ y <= Last(regions[j])
      BY <2>2, <2>3, <2>4, <2>5, <3>1, <3>2, ChainsStay
    <3>4. {x, y, Head(regions[j]), Last(regions[j])} \subseteq Nat
      BY <2>2, <2>7, <3>1, <3>2
    <3>5. NearRegion(regions[j], a)
      <4>1. Head(regions[j]) - TableMargin <= a /\ a <= Last(regions[j]) + TableMargin
        BY <2>3, <3>1, <3>3, <3>4
      <4> QED BY <4>1 DEF NearRegion
    <3>6. ASSUME NEW i \in 1 .. j - 1 PROVE ~NearRegion(regions[i], a)
      <4>1. i \in 1 .. n /\ i < j
        BY <2>6
      <4>2. Last(regions[i]) + TableMargin < Head(regions[j]) - TableMargin
        BY <2>8, <4>1
      <4>3. Head(regions[j]) - TableMargin <= a
        BY <3>5 DEF NearRegion
      <4>4. Last(regions[i]) \in Nat
        BY <2>2, <2>7, <4>1
      <4>5. ~ (a <= Last(regions[i]) + TableMargin)
        BY <2>3, <3>4, <4>2, <4>3, <4>4
      <4> QED BY <4>5 DEF NearRegion
    <3>7. j \in RegionOf(regions, a)
      BY <2>6, <3>5, <3>6 DEF RegionOf
    <3> QED BY <3>2, <3>7
  <2>10. ASSUME NEW a \in Nat, NEW b \in Pointed(a) PROVE b \in Table(a)
    <3>1. PICK j \in RegionOf(regions, a) : b \in ToSet(regions[j])
      OBVIOUS
    <3>2. j \in 1 .. n /\ NearRegion(regions[j], a)
      BY <2>6, <3>1 DEF RegionOf
    <3> DEFINE x == Head(regions[j])
               y == Last(regions[j])
    <3>3. x \in ptrs /\ y \in ptrs /\ b \in ptrs
      BY <2>7, <3>1, <3>2
    <3>4. x <= b /\ b <= y
      BY <2>4, <3>1, <3>2 DEF GroupsOf
    <3>5. x - TableMargin <= a /\ a <= y + TableMargin
      BY <3>2 DEF NearRegion
    <3>6. Chained(ptrs, TableGap, x, y)
      BY <2>4, <3>2 DEF GroupsOf, Chained
    <3> HIDE DEF x, y
    <3> QED BY <2>5, <3>3, <3>4, <3>5, <3>6
  <2>11. \A a \in Nat : Table(a) = Pointed(a)
    BY <2>9, <2>10
  <2> DEFINE Strings(k) == {words[a] : a \in ToSet(regions[k])}
  <2>12. output.strings = input.strRefs \cup
           UNION {Strings(k) : k \in UNION {RegionOf(regions, r) : r \in input.ptrRefs}}
    BY <2>1, Zenon DEF Attached, regions
  <2>13. UNION {Strings(k) : k \in UNION {RegionOf(regions, r) : r \in input.ptrRefs}} =
           {words[b] : b \in UNION {Pointed(r) : r \in input.ptrRefs}}
    OBVIOUS
  <2>14. UNION {Pointed(r) : r \in input.ptrRefs} = UNION {Table(r) : r \in input.ptrRefs}
    <3> HIDE DEF Pointed, Table
    <3> QED BY <2>2, <2>11
  <2>15. output.strings = input.strRefs \cup {words[b] : b \in UNION {Table(r) : r \in input.ptrRefs}}
    <3> HIDE DEF Pointed, Table, Strings
    <3> QED BY <2>12, <2>13, <2>14
  <2>16. \A j, k \in DOMAIN output.regions :
           j < k => Last(output.regions[j]) + TableMargin < Head(output.regions[k]) - TableMargin
    BY <2>1, <2>6, <2>8
  <2> HIDE DEF Table
  <2> QED BY <2>15, <2>16 DEF TablesApart, Table, ptrs, Linked, words, strings
<1>2. MapInv => TablesApart
  BY <1>1 DEF TablesApart
<1> QED BY <1>2, OutputIsResult, PTL

----------------------------------------------------------------------------
(* The binary search *)

Ranges(entries) == (1 .. Len(entries) + 1) \X (0 .. Len(entries))

IsSearch(f, entries, a) ==
  f = [range \in Ranges(entries) |->
        LET mid == (range[1] + range[2]) \div 2
        IN IF range[1] > range[2] THEN range[2]
           ELSE f[IF entries[mid] <= a THEN <<mid + 1, range[2]>> ELSE <<range[1], mid - 1>>]]

(***************************************************************************)
(* The search, as the recursive function that it is.                       *)
(***************************************************************************)
LEMMA SearchIs ==
  ASSUME NEW entries, NEW a
  PROVE  Search(entries, a) = (CHOOSE f : IsSearch(f, entries, a))[<<1, Len(entries)>>]
BY Zenon DEF Search, IsSearch, Ranges

\* Between lo and hi, the entries up to r are not after a.
Cut(entries, a, lo, hi, r) ==
  r \in lo - 1 .. hi /\ \A k \in lo .. hi : entries[k] <= a <=> k <= r

(***************************************************************************)
(* Ordered entries are cut at one place, which is also where their half    *)
(* is cut that the search goes on with.                                    *)
(***************************************************************************)
LEMMA CutOnce ==
  ASSUME NEW n \in Nat, NEW entries, NEW a,
         NEW lo \in 1 .. n + 1, NEW hi \in 0 .. n,
         NEW r, Cut(entries, a, lo, hi, r), NEW q, Cut(entries, a, lo, hi, q)
  PROVE  r = q
<1>1. r \in Int /\ q \in Int /\ lo - 1 <= r /\ r <= hi /\ lo - 1 <= q /\ q <= hi /\ lo \in Nat /\ hi \in Nat
  BY DEF Cut
<1>2. \A k \in lo .. hi : k <= r <=> k <= q
  BY DEF Cut
<1>3. ~ (r < q)
  <2> SUFFICES ASSUME r < q PROVE FALSE
    OBVIOUS
  <2>1. r + 1 \in lo .. hi /\ r + 1 <= q /\ ~ (r + 1 <= r)
    BY <1>1
  <2> QED BY <1>2, <2>1
<1>4. ~ (q < r)
  <2> SUFFICES ASSUME q < r PROVE FALSE
    OBVIOUS
  <2>1. q + 1 \in lo .. hi /\ q + 1 <= r /\ ~ (q + 1 <= q)
    BY <1>1
  <2> QED BY <1>2, <2>1
<1> QED BY <1>1, <1>3, <1>4

\* The half of a range that the search goes on with
Half(entries, a, range) ==
  LET mid == (range[1] + range[2]) \div 2
  IN IF entries[mid] <= a THEN <<mid + 1, range[2]>> ELSE <<range[1], mid - 1>>

(***************************************************************************)
(* The half is smaller than the range, and cut at the same place.          *)
(***************************************************************************)
LEMMA CutHalf ==
  ASSUME NEW n \in Nat, NEW entries \in [1 .. n -> Nat], NEW a \in Nat,
         \A j, k \in 1 .. n : j < k => entries[j] < entries[k],
         NEW range \in (1 .. n + 1) \X (0 .. n), range[1] <= range[2]
  PROVE  LET half == Half(entries, a, range)
         IN /\ half \in (1 .. n + 1) \X (0 .. n) /\ half[1] <= half[2] + 1
            /\ half[2] - half[1] < range[2] - range[1]
            /\ \A r : Cut(entries, a, half[1], half[2], r) => Cut(entries, a, range[1], range[2], r)
<1> DEFINE lo == range[1]
           hi == range[2]
           mid == (lo + hi) \div 2
           half == IF entries[mid] <= a THEN <<mid + 1, hi>> ELSE <<lo, mid - 1>>
<1>0. Half(entries, a, range) = half /\ lo \in 1 .. n + 1 /\ hi \in 0 .. n /\ lo <= hi
  BY Zenon DEF Half
<1> SUFFICES /\ half \in (1 .. n + 1) \X (0 .. n) /\ half[1] <= half[2] + 1
             /\ half[2] - half[1] < hi - lo
             /\ \A r : Cut(entries, a, half[1], half[2], r) => Cut(entries, a, lo, hi, r)
  BY <1>0, Zenon
<1> HIDE DEF lo, hi
<1>1. mid \in Nat /\ lo <= mid /\ mid <= hi
  BY <1>0
<1> HIDE DEF mid
<1>2. mid \in 1 .. n /\ lo \in Nat /\ hi \in Nat /\ lo >= 1 /\ hi <= n
  BY <1>0, <1>1
<1>3. ASSUME NEW j \in 1 .. n, NEW k \in 1 .. n, j <= k
      PROVE  entries[j] <= entries[k] /\ entries[j] \in Nat /\ entries[k] \in Nat
  <2>1. j < k \/ j = k
    BY <1>3
  <2>2. entries[j] \in Nat /\ entries[k] \in Nat
    OBVIOUS
  <2> QED BY <2>1, <2>2
<1>4. CASE entries[mid] <= a
  <2>1. half = <<mid + 1, hi>>
    BY <1>4
  <2>2. half[1] = mid + 1 /\ half[2] = hi /\ half \in (1 .. n + 1) \X (0 .. n)
    <3>1. mid + 1 \in 1 .. n + 1 /\ hi \in 0 .. n
      BY <1>0, <1>2
    <3> HIDE DEF half
    <3> QED BY <2>1, <3>1
  <2> HIDE DEF half
  <2>3. half[1] <= half[2] + 1 /\ half[2] - half[1] < hi - lo
    BY <1>1, <1>2, <2>2
  <2>4. ASSUME NEW r, Cut(entries, a, mid + 1, hi, r) PROVE Cut(entries, a, lo, hi, r)
    <3>1. r \in mid .. hi /\ \A k \in mid + 1 .. hi : entries[k] <= a <=> k <= r
      <4>1. (mid + 1) - 1 = mid
        BY <1>1
      <4> QED BY <2>4, <4>1 DEF Cut
    <3>2. r \in lo - 1 .. hi /\ mid <= r
      BY <1>1, <1>2, <3>1
    <3>3. ASSUME NEW k \in lo .. hi, k <= mid PROVE entries[k] <= a /\ k <= r
      <4>1. k \in 1 .. n
        BY <1>2
      <4>2. entries[k] <= entries[mid] /\ entries[k] \in Nat /\ entries[mid] \in Nat
        BY <1>2, <1>3, <3>3, <4>1
      <4> QED BY <1>1, <1>4, <3>2, <3>3, <4>2
    <3>4. \A k \in lo .. hi : k <= mid \/ k \in mid + 1 .. hi
      BY <1>1
    <3> QED BY <3>1, <3>2, <3>3, <3>4 DEF Cut
  <2> QED BY <2>2, <2>3, <2>4
<1>5. CASE ~ (entries[mid] <= a)
  <2>1. half = <<lo, mid - 1>>
    BY <1>5
  <2>2. half[1] = lo /\ half[2] = mid - 1 /\ half \in (1 .. n + 1) \X (0 .. n)
    <3>1. mid - 1 \in 0 .. n /\ lo \in 1 .. n + 1
      BY <1>0, <1>2
    <3> HIDE DEF half
    <3> QED BY <2>1, <3>1
  <2> HIDE DEF half
  <2>3. half[1] <= half[2] + 1 /\ half[2] - half[1] < hi - lo
    BY <1>1, <1>2, <2>2
  <2>4. ASSUME NEW r, Cut(entries, a, lo, mid - 1, r) PROVE Cut(entries, a, lo, hi, r)
    <3>1. r \in lo - 1 .. mid - 1 /\ \A k \in lo .. mid - 1 : entries[k] <= a <=> k <= r
      BY <2>4 DEF Cut
    <3>2. r \in lo - 1 .. hi /\ r < mid
      BY <1>1, <1>2, <3>1
    <3>3. ASSUME NEW k \in lo .. hi, mid <= k PROVE ~ (entries[k] <= a) /\ ~ (k <= r)
      <4>1. k \in 1 .. n
        BY <1>2
      <4>2. entries[mid] <= entries[k] /\ entries[k] \in Nat /\ entries[mid] \in Nat
        BY <1>2, <1>3, <3>3, <4>1
      <4> QED BY <1>1, <1>5, <3>2, <3>3, <4>2
    <3>4. \A k \in lo .. hi : mid <= k \/ k \in lo .. mid - 1
      BY <1>1
    <3> QED BY <3>1, <3>2, <3>3, <3>4 DEF Cut
  <2> QED BY <2>2, <2>3, <2>4
<1> QED BY <1>4, <1>5

(***************************************************************************)
(* There is such a place,                                                  *)
(***************************************************************************)
LEMMA CutExists ==
  ASSUME NEW n \in Nat, NEW entries \in [1 .. n -> Nat], NEW a \in Nat,
         \A j, k \in 1 .. n : j < k => entries[j] < entries[k],
         NEW lo \in 1 .. n + 1, NEW hi \in 0 .. n, lo <= hi + 1
  PROVE  \E r \in Nat : Cut(entries, a, lo, hi, r)
<1> DEFINE B == {k \in lo .. hi : entries[k] <= a}
<1>1. CASE B = {}
  <2>1. \A k \in lo .. hi : ~ (entries[k] <= a) /\ ~ (k <= lo - 1)
    BY <1>1
  <2>2. lo - 1 \in Nat /\ lo - 1 \in lo - 1 .. hi
    OBVIOUS
  <2> QED BY <2>1, <2>2 DEF Cut
<1>2. CASE B # {}
  <2>1. B \in SUBSET Nat /\ IsFiniteSet(B)
    <3>1. lo .. hi \in SUBSET Nat /\ IsFiniteSet(lo .. hi)
      BY FS_Interval
    <3>2. B \in SUBSET (lo .. hi)
      OBVIOUS
    <3> HIDE DEF B
    <3> QED BY <3>1, <3>2, FS_Subset
  <2> DEFINE r == Max(B)
  <2>2. r \in B /\ \A k \in B : k <= r
    <3> HIDE DEF B
    <3>1. Max(B) \in B /\ \A k \in B : Max(B) >= k
      BY <1>2, <2>1, MaxIsGreatest
    <3>2. \A k \in B : k \in Nat
      BY <2>1
    <3> QED BY <3>1, <3>2
  <2> HIDE DEF r
  <2>3. r \in lo .. hi /\ entries[r] <= a /\ r \in 1 .. n /\ entries[r] \in Nat
    BY <2>2
  <2>4. ASSUME NEW k \in lo .. hi PROVE entries[k] <= a <=> k <= r
    <3>1. k \in 1 .. n /\ entries[k] \in Nat
      OBVIOUS
    <3>2. entries[k] <= a => k <= r
      BY <2>2
    <3>3. ASSUME k <= r PROVE entries[k] <= a
      <4>1. k = r \/ k < r
        BY <2>3, <3>3
      <4>2. k < r => entries[k] < entries[r]
        BY <2>3, <3>1
      <4> QED BY <2>3, <3>1, <4>1, <4>2
    <3> QED BY <3>2, <3>3
  <2>5. r \in Nat /\ r \in lo - 1 .. hi
    BY <2>3
  <2> QED BY <2>4, <2>5 DEF Cut
<1> QED BY <1>1, <1>2

(***************************************************************************)
(* and a function that finds it, with which the search is defined.         *)
(***************************************************************************)
LEMMA SearchExists ==
  ASSUME NEW n \in Nat, NEW entries \in [1 .. n -> Nat], Len(entries) = n, NEW a \in Nat,
         \A j, k \in 1 .. n : j < k => entries[j] < entries[k]
  PROVE  \E f : IsSearch(f, entries, a)
<1> DEFINE D == (1 .. n + 1) \X (0 .. n)
           At(lo, hi) == CHOOSE r \in Nat : Cut(entries, a, lo, hi, r)
           f == [range \in D |-> IF range[1] > range[2] THEN range[2] ELSE At(range[1], range[2])]
<1>1. \A lo \in 1 .. n + 1, hi \in 0 .. n : lo <= hi + 1 => Cut(entries, a, lo, hi, At(lo, hi))
  <2> SUFFICES ASSUME NEW lo \in 1 .. n + 1, NEW hi \in 0 .. n, lo <= hi + 1
               PROVE  Cut(entries, a, lo, hi, At(lo, hi))
    OBVIOUS
  <2>1. \E r \in Nat : Cut(entries, a, lo, hi, r)
    BY CutExists
  <2> QED BY <2>1, Zenon
<1>2. ASSUME NEW range \in D, range[1] <= range[2] + 1
      PROVE  Cut(entries, a, range[1], range[2], f[range])
  <2> DEFINE lo == range[1]
             hi == range[2]
  <2>1. lo \in 1 .. n + 1 /\ hi \in 0 .. n /\ lo <= hi + 1
    BY <1>2
  <2>2. CASE lo > hi
    <3>1. f[range] = hi
      BY <2>2
    <3> HIDE DEF lo, hi, f
    <3>2. lo = hi + 1
      BY <2>1, <2>2
    <3>3. hi \in lo - 1 .. hi /\ \A k \in lo .. hi : FALSE
      BY <2>1, <3>2
    <3>4. Cut(entries, a, lo, hi, hi)
      BY <3>3 DEF Cut
    <3> QED BY <3>1, <3>4 DEF lo, hi
  <2>3. CASE ~ (lo > hi)
    <3>1. f[range] = At(lo, hi)
      <4> HIDE DEF At
      <4> QED BY <2>3
    <3> HIDE DEF At, f
    <3> QED BY <1>1, <2>1, <3>1
  <2> QED BY <2>2, <2>3
<1> DEFINE half(range) == Half(entries, a, range)
<1>3. ASSUME NEW range \in D, range[1] <= range[2]
      PROVE  f[range] = f[half(range)]
  <2> DEFINE lo == range[1]
             hi == range[2]
             next == half(range)
  <2>1. lo \in 1 .. n + 1 /\ hi \in 0 .. n /\ lo <= hi /\ lo <= hi + 1
    BY <1>3
  <2>2. /\ next \in D /\ next[1] <= next[2] + 1
        /\ \A r : Cut(entries, a, next[1], next[2], r) => Cut(entries, a, lo, hi, r)
    BY <1>3, CutHalf, Zenon
  <2> HIDE DEF f, next, lo, hi, D
  <2>3. Cut(entries, a, lo, hi, f[next])
    BY <1>2, <2>2
  <2>4. Cut(entries, a, lo, hi, f[range])
    BY <1>2, <2>1 DEF lo, hi
  <2>5. f[range] = f[next]
    BY <2>1, <2>3, <2>4, CutOnce
  <2> QED BY <2>5 DEF next
<1>4. ASSUME NEW range \in D
      PROVE  f[range] = IF range[1] > range[2] THEN range[2] ELSE f[half(range)]
  <2>1. CASE range[1] > range[2]
    <3> HIDE DEF At
    <3> QED BY <2>1
  <2>2. CASE ~ (range[1] > range[2])
    <3>1. range[1] <= range[2]
      BY <2>2
    <3> HIDE DEF f, half, D
    <3> QED BY <1>3, <2>2, <3>1
  <2> QED BY <2>1, <2>2
<1>5. f = [range \in D |-> f[range]]
  <2> HIDE DEF At, D
  <2> QED OBVIOUS
<1>6. f = [range \in D |-> IF range[1] > range[2] THEN range[2] ELSE f[half(range)]]
  <2> HIDE DEF f, D, half
  <2> QED BY <1>4, <1>5
<1>7. IsSearch(f, entries, a)
  <2>1. Ranges(entries) = D
    BY DEF Ranges
  <2> HIDE DEF f, D
  <2> QED BY <1>6, <2>1, Zenon DEF IsSearch, Half
<1> HIDE DEF f
<1> QED BY <1>7

(***************************************************************************)
(* The binary search of build_db.py finds the last entry that is not after *)
(* a, for any entries in order.                                            *)
(***************************************************************************)
THEOREM SearchFinds ==
  ASSUME NEW n \in Nat, NEW entries \in [1 .. n -> Nat], Len(entries) = n, NEW a \in Nat,
         \A j, k \in 1 .. n : j < k => entries[j] < entries[k]
  PROVE  Cut(entries, a, 1, n, Search(entries, a))
<1> DEFINE f == CHOOSE g : IsSearch(g, entries, a)
           D == (1 .. n + 1) \X (0 .. n)
           half(range) == Half(entries, a, range)
<1>1. IsSearch(f, entries, a)
  BY SearchExists, Zenon
<1>2. \A range \in D : f[range] = IF range[1] > range[2] THEN range[2] ELSE f[half(range)]
  <2>1. Ranges(entries) = D
    BY DEF Ranges
  <2> HIDE DEF f, D
  <2> QED BY <1>1, <2>1, Zenon DEF IsSearch, Half
<1> HIDE DEF f
<1> DEFINE Good == {d \in Nat : \A range \in D :
                      range[1] <= range[2] + 1 /\ range[2] + 1 - range[1] <= d =>
                        Cut(entries, a, range[1], range[2], f[range])}
<1>3. ASSUME NEW range \in D, range[1] = range[2] + 1
      PROVE  Cut(entries, a, range[1], range[2], f[range])
  <2> DEFINE lo == range[1]
             hi == range[2]
  <2>1. lo \in 1 .. n + 1 /\ hi \in 0 .. n /\ lo = hi + 1
    BY <1>3
  <2> HIDE DEF lo, hi, half, D
  <2>2. f[range] = hi
    <3>1. lo > hi
      BY <2>1
    <3> QED BY <1>2, <3>1 DEF lo, hi
  <2>3. hi \in lo - 1 .. hi /\ \A k \in lo .. hi : FALSE
    BY <2>1
  <2>4. Cut(entries, a, lo, hi, hi)
    BY <2>3 DEF Cut
  <2> QED BY <2>2, <2>4 DEF lo, hi
<1>4. 0 \in Good
  <2> SUFFICES ASSUME NEW range \in D, range[1] <= range[2] + 1, range[2] + 1 - range[1] <= 0
               PROVE  Cut(entries, a, range[1], range[2], f[range])
    <3> HIDE DEF D
    <3> QED OBVIOUS
  <2>1. range[1] = range[2] + 1
    <3>1. range[1] \in Nat /\ range[2] \in Nat
      OBVIOUS
    <3> QED BY <3>1
  <2> QED BY <1>3, <2>1
<1>5. ASSUME NEW d \in Nat, d \in Good PROVE d + 1 \in Good
  <2> SUFFICES ASSUME NEW range \in D, range[1] <= range[2] + 1, range[2] + 1 - range[1] <= d + 1
               PROVE  Cut(entries, a, range[1], range[2], f[range])
    <3> HIDE DEF D
    <3> QED OBVIOUS
  <2> DEFINE lo == range[1]
             hi == range[2]
             next == half(range)
  <2>1. lo \in 1 .. n + 1 /\ hi \in 0 .. n /\ lo <= hi + 1 /\ hi + 1 - lo <= d + 1
    OBVIOUS
  <2>2. CASE lo = hi + 1
    BY <1>3, <2>2
  <2>3. CASE lo # hi + 1
    <3>1. lo <= hi
      <4> HIDE DEF lo, hi
      <4> QED BY <2>1, <2>3
    <3>2. /\ next \in D /\ next[1] <= next[2] + 1 /\ next[2] - next[1] < hi - lo
          /\ \A r : Cut(entries, a, next[1], next[2], r) => Cut(entries, a, lo, hi, r)
      BY <3>1, CutHalf, Zenon
    <3>3. next[2] + 1 - next[1] <= d
      <4>1. next[1] \in Nat /\ next[2] \in Nat
        <5> HIDE DEF next
        <5> QED BY <3>2
      <4> HIDE DEF next, lo, hi
      <4> QED BY <2>1, <3>2, <4>1
    <3>4. Cut(entries, a, next[1], next[2], f[next])
      <4> HIDE DEF next, D
      <4> QED BY <1>5, <3>2, <3>3
    <3>5. f[range] = f[next]
      <4>1. ~ (lo > hi)
        <5> HIDE DEF lo, hi
        <5> QED BY <2>1, <3>1
      <4> HIDE DEF D, half
      <4> QED BY <1>2, <4>1
    <3> HIDE DEF next
    <3> QED BY <3>2, <3>4, <3>5
  <2> QED BY <2>2, <2>3
<1>6. n + 1 \in Good
  <2> HIDE DEF Good
  <2>1. Nat \subseteq Good
    BY <1>4, <1>5, Induct
  <2> QED BY <2>1
<1>7. Cut(entries, a, 1, n, f[<<1, n>>])
  <2> DEFINE range == <<1, n>>
  <2>1. range \in D /\ range[1] = 1 /\ range[2] = n /\ 1 <= n + 1 /\ n + 1 - 1 <= n + 1
    OBVIOUS
  <2> HIDE DEF range, D
  <2>2. Cut(entries, a, range[1], range[2], f[range])
    BY <1>6, <2>1
  <2> QED BY <2>1, <2>2 DEF range
<1>8. Search(entries, a) = f[<<1, n>>]
  BY SearchIs DEF f
<1> QED BY <1>7, <1>8

----------------------------------------------------------------------------
(* The function that an address belongs to *)

\* The last of the entries that are not after a, as a set
LastBefore(entries, a) ==
  {e \in entries : e <= a /\ \A x \in entries : x <= a => x <= e}

(***************************************************************************)
(* Below the end of the code, an address lies in the function that begins  *)
(* last before it, and in no other; both scripts say so.                   *)
(***************************************************************************)
LEMMA OwnerIs ==
  ASSUME NEW entries \in SUBSET Nat, IsFiniteSet(entries), NEW codeEnd \in Nat, NEW a \in Nat, a < codeEnd
  PROVE  /\ \A e \in entries : Lasts(entries, codeEnd, e, a) <=> e \in LastBefore(entries, a)
         /\ Owner(entries, codeEnd, a) = LastBefore(entries, a)
         /\ \A e, x \in LastBefore(entries, a) : e = x
         /\ (\E e \in entries : e <= a) => LastBefore(entries, a) # {}
<1> DEFINE before == {e \in entries : e <= a}
           Later(e) == {x \in entries : x > e}
<1>1. ASSUME NEW e \in entries, e <= a
      PROVE  a < End(entries, codeEnd, e) <=> \A x \in entries : x <= a => x <= e
  <2>1. End(entries, codeEnd, e) = IF Later(e) # {} THEN Min(Later(e)) ELSE codeEnd
    <3>1. (\E x \in entries : x > e) <=> Later(e) # {}
      OBVIOUS
    <3> QED BY <3>1, Zenon DEF End
  <2>2. CASE Later(e) = {}
    <3>1. \A x \in entries : ~ (x > e) /\ x \in Nat
      BY <2>2
    <3>2. \A x \in entries : x <= e
      BY <3>1
    <3> QED BY <2>1, <2>2, <3>2
  <2>3. CASE Later(e) # {}
    <3>1. Later(e) \in SUBSET Nat
      OBVIOUS
    <3>2. Min(Later(e)) \in Later(e) /\ \A x \in Later(e) : Min(Later(e)) <= x
      <4> HIDE DEF Later
      <4> QED BY <2>3, <3>1, MinIsLeast
    <3> DEFINE m == Min(Later(e))
    <3> HIDE DEF m
    <3>3. m \in entries /\ m \in Nat /\ m > e /\ \A x \in entries : x > e => m <= x
      BY <3>2 DEF m
    <3>4. End(entries, codeEnd, e) = m
      BY <2>1, <2>3 DEF m
    <3>5. ASSUME a < m, NEW x \in entries, x <= a PROVE x <= e
      BY <3>3, <3>5
    <3>6. ASSUME \A x \in entries : x <= a => x <= e PROVE a < m
      BY <3>3, <3>6
    <3> QED BY <3>4, <3>5, <3>6
  <2> QED BY <2>2, <2>3
<1>2. \A e \in entries : Lasts(entries, codeEnd, e, a) <=> e \in LastBefore(entries, a)
  BY <1>1 DEF Lasts, LastBefore
<1>3. \A e, x \in LastBefore(entries, a) : e = x
  <2> SUFFICES ASSUME NEW e \in LastBefore(entries, a), NEW x \in LastBefore(entries, a) PROVE e = x
    OBVIOUS
  <2>1. e \in Nat /\ x \in Nat /\ e <= x /\ x <= e
    BY DEF LastBefore
  <2> QED BY <2>1
<1>4. before # {} => Max(before) \in before /\ \A x \in before : x <= Max(before)
  <2>1. before \in SUBSET entries
    OBVIOUS
  <2>2. IsFiniteSet(before) /\ before \in SUBSET Nat
    BY <2>1, FS_Subset
  <2> HIDE DEF before
  <2>3. before # {} => Max(before) \in before /\ \A x \in before : Max(before) >= x
    BY <2>2, MaxIsGreatest
  <2>4. \A x \in before : x \in Nat
    BY <2>2
  <2> QED BY <2>3, <2>4
<1>5. before # {} => Max(before) \in LastBefore(entries, a)
  BY <1>4 DEF LastBefore
<1>6. Owner(entries, codeEnd, a) = {e \in before : e = Max(before) /\ a < End(entries, codeEnd, e)}
  BY Zenon DEF Owner
<1>7. ASSUME NEW e \in Owner(entries, codeEnd, a) PROVE e \in LastBefore(entries, a)
  BY <1>1, <1>6 DEF LastBefore
<1>8. ASSUME NEW e \in LastBefore(entries, a) PROVE e \in Owner(entries, codeEnd, a)
  <2>1. e \in before
    BY DEF LastBefore
  <2>2. e = Max(before)
    BY <1>3, <1>5, <2>1
  <2>3. a < End(entries, codeEnd, e)
    BY <1>1 DEF LastBefore
  <2> HIDE DEF before
  <2> QED BY <1>6, <2>1, <2>2, <2>3
<1>9. (\E e \in entries : e <= a) => LastBefore(entries, a) # {}
  BY <1>5
<1> QED BY <1>2, <1>3, <1>7, <1>8, <1>9

(***************************************************************************)
(* What build_db.py says of a line: the function that the line before      *)
(* belongs to, or the one it searches for, is the last before the line.    *)
(***************************************************************************)
LEMMA LineIs ==
  ASSUME NEW entries \in SUBSET Nat, IsFiniteSet(entries), NEW codeEnd \in Nat, NEW a \in Nat, a < codeEnd,
         NEW owners \in Seq(SUBSET entries),
         owners # <<>> => \E b : Last(owners) = LastBefore(entries, b) /\ b \in Nat /\ b < codeEnd
  PROVE  Line(entries, codeEnd, owners, a) = Append(owners, LastBefore(entries, a))
<1> DEFINE sorted == Sorted(entries)
           n == Cardinality(entries)
           cur == IF owners = <<>> THEN {} ELSE Last(owners)
           r == Search(sorted, a)
           found == {sorted[k] : k \in {r} \cap DOMAIN sorted}
           L == LastBefore(entries, a)
<1>1. /\ \A e \in entries : Lasts(entries, codeEnd, e, a) <=> e \in L
      /\ \A e, x \in L : e = x
  BY OwnerIs
<1>2. L \subseteq entries
  BY DEF LastBefore
<1>3. cur \subseteq entries /\ \A e, x \in cur : e = x
  <2>1. CASE owners = <<>>
    BY <2>1
  <2>2. CASE owners # <<>>
    <3>1. PICK b : Last(owners) = LastBefore(entries, b) /\ b \in Nat /\ b < codeEnd
      BY <2>2
    <3>2. \A e, x \in LastBefore(entries, b) : e = x
      BY <3>1, OwnerIs
    <3>3. LastBefore(entries, b) \subseteq entries
      BY DEF LastBefore
    <3> QED BY <2>2, <3>1, <3>2, <3>3
  <2> QED BY <2>1, <2>2
<1>4. /\ n \in Nat /\ sorted \in [1 .. n -> entries] /\ \A x \in entries : \E k \in 1 .. n : sorted[k] = x
      /\ \A j, k \in 1 .. n : j < k => sorted[j] < sorted[k]
  BY SortedLists
<1>5. DOMAIN sorted = 1 .. n /\ Len(sorted) = n /\ sorted \in [1 .. n -> Nat]
  <2>1. Len(sorted) = n
    BY <1>4
  <2> HIDE DEF sorted, n
  <2>2. DOMAIN sorted = 1 .. n
    BY <1>4
  <2>3. \A k \in 1 .. n : sorted[k] \in Nat
    BY <1>4
  <2>4. sorted = [k \in 1 .. n |-> sorted[k]]
    BY <1>4
  <2> QED BY <2>1, <2>2, <2>3, <2>4
<1>6. Cut(sorted, a, 1, n, r)
  <2> HIDE DEF sorted, n
  <2> QED BY <1>4, <1>5, SearchFinds
<1>7. Line(entries, codeEnd, owners, a) =
        Append(owners, IF \E e \in cur : Lasts(entries, codeEnd, e, a) THEN cur
                       ELSE {e \in found : Lasts(entries, codeEnd, e, a)})
  BY Zenon DEF Line
<1> HIDE DEF sorted, n
<1>8. L \subseteq found
  <2> SUFFICES ASSUME NEW e \in L PROVE e \in found
    OBVIOUS
  <2>1. PICK k \in 1 .. n : sorted[k] = e
    BY <1>2, <1>4
  <2>2. e <= a /\ \A x \in entries : x <= a => x <= e
    BY DEF LastBefore
  <2> HIDE DEF r, L
  <2>3. r \in Int /\ r <= n /\ k <= r
    <3>1. r \in 1 - 1 .. n /\ (sorted[k] <= a <=> k <= r)
      BY <1>6 DEF Cut
    <3>2. sorted[k] <= a
      BY <2>1, <2>2
    <3> QED BY <1>4, <3>1, <3>2
  <2>4. r \in 1 .. n
    BY <1>4, <2>3
  <2>5. sorted[r] <= a
    <3>1. r <= r
      BY <2>3
    <3> QED BY <1>6, <2>4, <3>1 DEF Cut
  <2>6. sorted[r] \in entries /\ sorted[r] <= e
    BY <1>4, <2>2, <2>4, <2>5
  <2>7. ~ (k < r)
    <3> SUFFICES ASSUME k < r PROVE FALSE
      OBVIOUS
    <3>1. sorted[k] < sorted[r]
      BY <1>4, <2>4
    <3>2. sorted[k] \in Nat /\ sorted[r] \in Nat
      BY <1>5, <2>4
    <3> QED BY <2>1, <2>6, <3>1, <3>2
  <2>8. r = k
    BY <2>3, <2>7
  <2> QED BY <1>5, <2>1, <2>4, <2>8
<1>9. found \subseteq entries
  <2> HIDE DEF r
  <2> QED BY <1>4, <1>5
<1>10. CASE \E e \in cur : Lasts(entries, codeEnd, e, a)
  <2>1. cur = L
    <3> HIDE DEF cur, L
    <3> QED BY <1>1, <1>2, <1>3, <1>10
  <2> HIDE DEF cur, found, L
  <2> QED BY <1>7, <1>10, <2>1 DEF L
<1>11. CASE ~ (\E e \in cur : Lasts(entries, codeEnd, e, a))
  <2>1. {e \in found : Lasts(entries, codeEnd, e, a)} = L
    <3> HIDE DEF found, L
    <3> QED BY <1>1, <1>2, <1>8, <1>9
  <2> HIDE DEF cur, found, L
  <2> QED BY <1>7, <1>11, <2>1 DEF L
<1> QED BY <1>10, <1>11

----------------------------------------------------------------------------
(* Line by line *)

IsAttribution(g, addrs, entries, codeEnd) ==
  g = [s \in SUBSET DOMAIN addrs |->
        IF s = {} THEN <<>> ELSE Line(entries, codeEnd, g[s \ {Max(s)}], addrs[Max(s)])]

(***************************************************************************)
(* The functions of the lines, as the function that their fold is defined  *)
(* by.                                                                     *)
(***************************************************************************)
LEMMA AttributedFolds ==
  ASSUME NEW addrs, NEW entries, NEW codeEnd
  PROVE  Attributed(addrs, entries, codeEnd) =
           (CHOOSE g : IsAttribution(g, addrs, entries, codeEnd))[DOMAIN addrs]
BY Zenon DEF Attributed, FoldLeft, MapThenFoldSet, IsAttribution

(***************************************************************************)
(* A line's function is one of the entries.                                *)
(***************************************************************************)
LEMMA LineTyped ==
  ASSUME NEW entries \in SUBSET Nat, IsFiniteSet(entries), NEW codeEnd, NEW a,
         NEW owners \in Seq(SUBSET entries)
  PROVE  Line(entries, codeEnd, owners, a) \in Seq(SUBSET entries)
<1> DEFINE sorted == Sorted(entries)
           cur == IF owners = <<>> THEN {} ELSE Last(owners)
           found == {sorted[k] : k \in {Search(sorted, a)} \cap DOMAIN sorted}
           next == IF \E e \in cur : Lasts(entries, codeEnd, e, a) THEN cur
                   ELSE {e \in found : Lasts(entries, codeEnd, e, a)}
<1>1. cur \in SUBSET entries
  <2>1. owners # <<>> => Last(owners) \in SUBSET entries
    <3>1. Len(owners) \in Nat /\ (owners # <<>> => Len(owners) # 0)
      BY EmptySeq, LenProperties
    <3> QED BY <3>1 DEF Last
  <2> QED BY <2>1
<1>2. found \in SUBSET entries
  <2>1. sorted \in [1 .. Cardinality(entries) -> entries]
    BY SortedLists
  <2> HIDE DEF sorted
  <2> QED BY <2>1
<1>3. Line(entries, codeEnd, owners, a) = Append(owners, next)
  BY Zenon DEF Line
<1>4. next \in SUBSET entries
  <2> HIDE DEF cur, found
  <2> QED BY <1>1, <1>2
<1> HIDE DEF next
<1> QED BY <1>3, <1>4, AppendProperties

\* p[k] is what is known of the lines up to place k.
LineByLine(p, n, addrs, entries, codeEnd) ==
  /\ p[0] = <<>> /\ Attributed(addrs, entries, codeEnd) = p[n]
  /\ \A k \in 1 .. n : p[k] = Line(entries, codeEnd, p[k - 1], addrs[k])

(***************************************************************************)
(* The lines are read one by one.                                          *)
(***************************************************************************)
LEMMA AttributedSteps ==
  ASSUME NEW n \in Nat, NEW addrs \in [1 .. n -> Nat],
         NEW entries \in SUBSET Nat, IsFiniteSet(entries), NEW codeEnd
  PROVE  \E p : LineByLine(p, n, addrs, entries, codeEnd)
<1> DEFINE States == Seq(SUBSET entries)
           step == [x \in States \X (1 .. n) |-> Line(entries, codeEnd, x[1], addrs[x[2]])]
           h == CHOOSE g : IsAttribution(g, addrs, entries, codeEnd)
           p == [k \in 0 .. n |-> h[1 .. k]]
<1>0. DOMAIN addrs = 1 .. n
  OBVIOUS
<1>1. \A owners \in States, k \in 1 .. n : Line(entries, codeEnd, owners, addrs[k]) \in States
  BY LineTyped
<1>2. step \in [States \X (1 .. n) -> States]
  <2> HIDE DEF States
  <2> QED BY <1>1
<1>3. PICK g \in [SUBSET (1 .. n) -> States] : IsFold(g, n, <<>>, step)
  <2>1. <<>> \in States
    OBVIOUS
  <2> HIDE DEF States, step
  <2> QED BY <1>2, <2>1, FoldExists
<1>4. IsAttribution(g, addrs, entries, codeEnd)
  <2>1. \A s \in SUBSET (1 .. n) : s # {} => Max(s) \in 1 .. n /\ s \ {Max(s)} \in SUBSET (1 .. n)
    BY Places
  <2>2. \A s \in SUBSET (1 .. n) : s # {} =>
          step[<<g[s \ {Max(s)}], Max(s)>>] = Line(entries, codeEnd, g[s \ {Max(s)}], addrs[Max(s)])
    <3> HIDE DEF States
    <3> QED BY <2>1
  <2> HIDE DEF States, step
  <2>3. g = [s \in SUBSET (1 .. n) |-> IF s = {} THEN <<>> ELSE step[<<g[s \ {Max(s)}], Max(s)>>]]
    BY <1>3, Zenon DEF IsFold
  <2>4. g = [s \in SUBSET DOMAIN addrs |->
              IF s = {} THEN <<>> ELSE Line(entries, codeEnd, g[s \ {Max(s)}], addrs[Max(s)])]
    BY <1>0, <2>2, <2>3
  <2> QED BY <2>4, Zenon DEF IsAttribution
<1>5. \A s \in SUBSET (1 .. n) :
        h[s] = IF s = {} THEN <<>> ELSE Line(entries, codeEnd, h[s \ {Max(s)}], addrs[Max(s)])
  <2>1. IsAttribution(h, addrs, entries, codeEnd)
    BY <1>4, Zenon
  <2> HIDE DEF h
  <2> QED BY <1>0, <2>1, Zenon DEF IsAttribution
<1>6. p[0] = <<>> /\ p[n] = h[1 .. n]
  <2>1. 1 .. 0 = {} /\ {} \in SUBSET (1 .. n) /\ 0 \in 0 .. n /\ n \in 0 .. n
    OBVIOUS
  <2> HIDE DEF h
  <2>2. p[0] = h[{}] /\ p[n] = h[1 .. n]
    BY <2>1
  <2> QED BY <1>5, <2>1, <2>2
<1>7. ASSUME NEW k \in 1 .. n
      PROVE  p[k] = Line(entries, codeEnd, p[k - 1], addrs[k])
  <2>1. 1 .. k # {} /\ Max(1 .. k) = k /\ (1 .. k) \ {k} = 1 .. k - 1
    BY LastPlace
  <2>2. 1 .. k \in SUBSET (1 .. n) /\ k \in 0 .. n /\ k - 1 \in 0 .. n
    OBVIOUS
  <2> HIDE DEF h
  <2>3. p[k] = h[1 .. k] /\ p[k - 1] = h[1 .. k - 1]
    BY <2>2
  <2>4. h[1 .. k] = Line(entries, codeEnd, h[(1 .. k) \ {Max(1 .. k)}], addrs[Max(1 .. k)])
    BY <1>5, <2>1, <2>2
  <2> QED BY <2>1, <2>3, <2>4
<1>8. Attributed(addrs, entries, codeEnd) = p[n]
  BY <1>0, <1>6, AttributedFolds
<1> HIDE DEF p, h
<1>9. LineByLine(p, n, addrs, entries, codeEnd)
  BY <1>6, <1>7, <1>8 DEF LineByLine
<1> QED BY <1>9

(***************************************************************************)
(* Lines of the code, in any order, are all given their functions.         *)
(***************************************************************************)
THEOREM AttributedIs ==
  ASSUME NEW n \in Nat, NEW addrs \in [1 .. n -> Nat], NEW codeEnd \in Nat,
         \A k \in 1 .. n : addrs[k] < codeEnd,
         NEW entries \in SUBSET Nat, IsFiniteSet(entries)
  PROVE  \A k \in 1 .. n : Attributed(addrs, entries, codeEnd)[k] = LastBefore(entries, addrs[k])
<1>0. PICK p : LineByLine(p, n, addrs, entries, codeEnd)
  BY AttributedSteps
<1>1. /\ p[0] = <<>> /\ Attributed(addrs, entries, codeEnd) = p[n]
      /\ \A k \in 1 .. n : p[k] = Line(entries, codeEnd, p[k - 1], addrs[k])
  BY <1>0 DEF LineByLine
<1> DEFINE Right(k, s) == /\ s \in Seq(SUBSET entries) /\ Len(s) = k
                          /\ \A i \in 1 .. k : s[i] = LastBefore(entries, addrs[i])
           Good == {k \in Nat : k <= n => Right(k, p[k])}
<1>2. 0 \in Good
  <2>1. Right(0, <<>>)
    OBVIOUS
  <2> HIDE DEF Right
  <2> QED BY <1>1, <2>1
<1>3. ASSUME NEW k \in Nat, k \in Good PROVE k + 1 \in Good
  <2> SUFFICES ASSUME k + 1 <= n PROVE Right(k + 1, p[k + 1])
    <3> HIDE DEF Right
    <3> QED OBVIOUS
  <2>1. k <= n /\ k + 1 \in 1 .. n /\ (k + 1) - 1 = k
    OBVIOUS
  <2> DEFINE s == p[k]
             a == addrs[k + 1]
             new == LastBefore(entries, a)
  <2>2. Right(k, s)
    <3> HIDE DEF Right
    <3> QED BY <1>3, <2>1
  <2>3. p[k + 1] = Line(entries, codeEnd, s, a)
    BY <1>1, <2>1
  <2>4. a \in Nat /\ a < codeEnd
    BY <2>1
  <2> HIDE DEF s, a
  <2>5. ASSUME s # <<>> PROVE \E b : Last(s) = LastBefore(entries, b) /\ b \in Nat /\ b < codeEnd
    <3>1. k # 0
      BY <2>2, <2>5, EmptySeq
    <3>2. k \in 1 .. k /\ k \in 1 .. n
      BY <2>1, <3>1
    <3>3. Last(s) = LastBefore(entries, addrs[k])
      BY <2>2, <3>2 DEF Last
    <3> QED BY <3>2, <3>3
  <2>6. Line(entries, codeEnd, s, a) = Append(s, new)
    <3> HIDE DEF new
    <3> QED BY <2>2, <2>4, <2>5, LineIs DEF new
  <2>7. new \in SUBSET entries
    BY DEF LastBefore
  <2> HIDE DEF new
  <2>8. /\ Append(s, new) \in Seq(SUBSET entries) /\ Len(Append(s, new)) = k + 1
        /\ \A i \in 1 .. k : Append(s, new)[i] = s[i]
        /\ Append(s, new)[k + 1] = new
    BY <2>2, <2>7, AppendProperties
  <2>9. \A i \in 1 .. k + 1 : Append(s, new)[i] = LastBefore(entries, addrs[i])
    <3>1. \A i \in 1 .. k + 1 : i \in 1 .. k \/ i = k + 1
      OBVIOUS
    <3>2. new = LastBefore(entries, addrs[k + 1])
      BY DEF new, a
    <3> QED BY <2>2, <2>8, <3>1, <3>2
  <2> QED BY <2>3, <2>6, <2>8, <2>9
<1>4. n \in Good
  <2> HIDE DEF Good
  <2> QED BY <1>2, <1>3, Induct
<1>5. Right(n, p[n])
  <2> HIDE DEF Right
  <2> QED BY <1>4
<1> QED BY <1>1, <1>5

----------------------------------------------------------------------------
(* Calls *)

(***************************************************************************)
(* A function has at most as many values as arguments.                     *)
(***************************************************************************)
LEMMA ImageFinite ==
  ASSUME NEW S, IsFiniteSet(S), NEW T, NEW f \in [S -> T]
  PROVE  IsFiniteSet({f[x] : x \in S})
<1> DEFINE R == {f[x] : x \in S}
<1>1. f \in [S -> R]
  OBVIOUS
<1>2. f \in Surjection(S, R)
  BY <1>1 DEF Surjection
<1> QED BY <1>2, FS_Surjection

(***************************************************************************)
(* A listing: its entries are numbers, finitely many, and its lines lie    *)
(* before the end of the code.                                             *)
(***************************************************************************)
LEMMA ListingTyped ==
  ASSUME NEW i \in InputsOf("listing")
  PROVE  LET insns == i.insns
             codeEnd == CodeEnd(insns)
             harvested == Harvested(insns, i.entry)
             entries == Entries(insns, i.entry)
         IN /\ codeEnd \in Nat /\ \A j \in insns : j.addr \in Nat /\ j.addr < codeEnd
            /\ harvested \in SUBSET Nat /\ IsFiniteSet(harvested)
            /\ entries = {e \in harvested : Base <= e /\ e < codeEnd}
            /\ entries \subseteq Flash(insns) /\ IsFiniteSet(entries)
<1> DEFINE insns == i.insns
           codeEnd == CodeEnd(insns)
           calls == CallTargets(insns)
           harvested == Harvested(insns, i.entry)
           entries == Entries(insns, i.entry)
           flash == Flash(insns)
<1>1. /\ IsFiniteSet(insns) /\ insns # {} /\ i.entry \in flash
      /\ \A j \in insns : j.addr \in Nat /\ j.size \in Nat \ {0} /\ Finite(j.values)
  BY MapAssumption
<1>2. Base \in Nat /\ Word \in Nat \ {0}
  BY FunctionMapAssumption
<1> HIDE DEF insns
<1>3. codeEnd \in Nat /\ \A j \in insns : j.addr \in Nat /\ j.addr < codeEnd
  <2> DEFINE f == [j \in insns |-> j.addr + j.size]
             ends == {j.addr + j.size : j \in insns}
  <2>1. f \in [insns -> Nat] /\ ends = {f[j] : j \in insns}
    BY <1>1
  <2>2. IsFiniteSet(ends)
    <3> HIDE DEF f, ends
    <3> QED BY <1>1, <2>1, ImageFinite
  <2>3. ends \in SUBSET Nat /\ ends # {}
    BY <1>1
  <2>4. Max(ends) \in ends /\ \A x \in ends : Max(ends) >= x
    <3> HIDE DEF ends
    <3> QED BY <2>2, <2>3, MaxIsGreatest
  <2>5. codeEnd = Max(ends)
    BY Zenon DEF CodeEnd
  <2>6. codeEnd \in Nat
    <3> HIDE DEF ends
    <3> QED BY <2>3, <2>4, <2>5
  <2>7. ASSUME NEW j \in insns PROVE j.addr \in Nat /\ j.addr < codeEnd
    <3>1. j.addr + j.size \in ends
      OBVIOUS
    <3>2. codeEnd >= j.addr + j.size
      <4> HIDE DEF ends
      <4> QED BY <2>4, <2>5, <3>1
    <3>3. j.addr \in Nat /\ j.size \in Nat \ {0}
      BY <1>1
    <3> HIDE DEF codeEnd
    <3> QED BY <2>6, <3>2, <3>3
  <2> QED BY <2>6, <2>7
<1>4. \A j \in insns : Targets(j) \in SUBSET Nat /\ IsFiniteSet(Targets(j))
  <2> SUFFICES ASSUME NEW j \in insns PROVE Targets(j) \in SUBSET Nat /\ IsFiniteSet(Targets(j))
    OBVIOUS
  <2>1. j.values \subseteq Nat /\ IsFiniteSet(j.values)
    BY <1>1 DEF Finite
  <2> DEFINE T(v) == IF j.op \in {"call", "goto"} THEN (Base + v) % Word ELSE v % Word
             f == [v \in j.values |-> T(v)]
  <2>2. \A v \in j.values : T(v) \in Nat
    <3> SUFFICES ASSUME NEW v \in j.values PROVE T(v) \in Nat
      OBVIOUS
    <3>1. v \in Nat /\ Base + v \in Nat
      BY <1>2, <2>1
    <3>2. (Base + v) % Word \in Nat /\ v % Word \in Nat
      <4>1. (Base + v) % Word \in 0 .. Word - 1 /\ v % Word \in 0 .. Word - 1
        BY <1>2, <3>1, Remainders
      <4> QED BY <4>1
    <3> QED BY <3>2
  <2>3. Targets(j) = {T(v) : v \in j.values}
    BY DEF Targets
  <2> HIDE DEF T
  <2>4. f \in [j.values -> Nat] /\ Targets(j) = {f[v] : v \in j.values}
    BY <2>2, <2>3
  <2>5. IsFiniteSet(Targets(j))
    <3> DEFINE V == j.values
               R == {f[v] : v \in V}
    <3>1. IsFiniteSet(V) /\ f \in [V -> Nat] /\ Targets(j) = R
      BY <2>1, <2>4
    <3>2. IsFiniteSet(R)
      <4> HIDE DEF V, f
      <4> QED BY <3>1, ImageFinite
    <3> QED BY <3>1, <3>2
  <2> QED BY <2>2, <2>3, <2>5
<1>5. calls \in SUBSET Nat /\ IsFiniteSet(calls)
  <2> DEFINE callers == {j \in insns : j.op = "call"}
             f == [j \in callers |-> Targets(j)]
             sets == {Targets(j) : j \in callers}
  <2>1. callers \in SUBSET insns
    OBVIOUS
  <2>2. IsFiniteSet(callers)
    BY <1>1, <2>1, FS_Subset
  <2>3. f \in [callers -> SUBSET Nat] /\ sets = {f[j] : j \in callers}
    BY <1>4
  <2>4. IsFiniteSet(sets)
    <3> HIDE DEF callers, f, sets
    <3> QED BY <2>2, <2>3, ImageFinite
  <2>5. \A T \in sets : IsFiniteSet(T) /\ T \subseteq Nat
    BY <1>4
  <2>6. calls = UNION sets
    BY DEF CallTargets
  <2> HIDE DEF sets
  <2> QED BY <2>4, <2>5, <2>6, FS_UNION
<1> HIDE DEF calls, codeEnd
<1>6. flash = Base .. codeEnd - 1
  BY DEF Flash, codeEnd
<1>7. /\ harvested = calls \cup {i.entry}
      /\ entries = (calls \cap flash) \cup {i.entry}
  BY DEF Harvested, Entries, calls
<1> HIDE DEF harvested, entries, flash
<1>8. i.entry \in Nat /\ i.entry >= Base /\ i.entry < codeEnd
  BY <1>1, <1>2, <1>3, <1>6
<1>9. harvested \in SUBSET Nat /\ IsFiniteSet(harvested)
  <2>1. IsFiniteSet(calls \cup {i.entry})
    BY <1>5, FS_Singleton, FS_Union
  <2> QED BY <1>5, <1>7, <1>8, <2>1
<1>10. entries \subseteq flash
  BY <1>1, <1>7
<1>11. entries = {e \in harvested : Base <= e /\ e < codeEnd}
  <2>1. \A e \in calls : e \in flash <=> e >= Base /\ e < codeEnd
    BY <1>2, <1>3, <1>5, <1>6
  <2> QED BY <1>7, <1>8, <2>1
<1>12. IsFiniteSet(entries)
  <2>1. entries \in SUBSET harvested
    BY <1>11
  <2> QED BY <1>9, <2>1, FS_Subset
<1> QED BY <1>3, <1>9, <1>10, <1>11, <1>12 DEF codeEnd, harvested, entries, flash, insns

(***************************************************************************)
(* What the database says of calls.                                        *)
(***************************************************************************)
LEMMA DbCalls ==
  ASSUME NEW insns, NEW entry, NEW strings
  PROVE  LET entries == Entries(insns, entry)
             flash == Flash(insns)
             fdb == FunctionDb(insns, entry, strings)
             Own(a) == Owner(entries, CodeEnd(insns), a)
         IN /\ DOMAIN fdb = entries
            /\ \A f \in entries : \A t :
                 t \in fdb[f].callees <=>
                   t \in flash /\ \E j \in insns : j.op = "call" /\ f \in Own(j.addr) /\ t \in Targets(j)
            /\ \A t \in entries : \A f :
                 f \in fdb[t].callers <=>
                   \E j \in insns : /\ j.op = "call" /\ t \in Targets(j) /\ t \in flash
                                    /\ Own(j.addr) \notin {{}, {t}} /\ f \in Own(j.addr)
<1> DEFINE entries == Entries(insns, entry)
           flash == Flash(insns)
           fdb == FunctionDb(insns, entry, strings)
           Own(a) == Owner(entries, CodeEnd(insns), a)
           Refs(e, ops) ==
             UNION {Targets(j) : j \in {k \in insns : e \in Own(k.addr) /\ k.op \in ops}}
           Sites(e) == {j.addr : j \in {k \in insns : /\ k.op = "call" /\ e \in Targets(k) \cap flash
                                                      /\ Own(k.addr) \notin {{}, {e}}}}
           Callees(e) == Refs(e, {"call"}) \cap flash
           Callers(e) == UNION {Own(a) : a \in Sites(e)}
           Row(e) == [callees |-> Callees(e), callers |-> Callers(e),
                      callsRam |-> (Refs(e, {"call"}) \ flash) \cap Ram,
                      strRefs |-> Refs(e, {"load"}) \cap flash \cap strings,
                      ptrRefs |-> (Refs(e, {"load"}) \cap flash) \ strings,
                      ramRefs |-> (Refs(e, {"load"}) \ flash) \cap Ram,
                      ninsn |-> Cardinality({j \in insns : e \in Own(j.addr)})]
<1>1. fdb = [e \in entries |-> Row(e)]
  BY Zenon DEF FunctionDb
<1>2. \A e : Row(e).callees = Callees(e) /\ Row(e).callers = Callers(e)
  <2> HIDE DEF Callees, Callers, Refs, Own, flash
  <2> QED OBVIOUS
<1> HIDE DEF Row, fdb
<1>3. DOMAIN fdb = entries /\ \A e \in entries : fdb[e].callees = Callees(e) /\ fdb[e].callers = Callers(e)
  BY <1>1, <1>2
<1>4. \A f, t : t \in Callees(f) <=>
        t \in flash /\ \E j \in insns : j.op = "call" /\ f \in Own(j.addr) /\ t \in Targets(j)
  <2> HIDE DEF Own, flash
  <2> QED OBVIOUS
<1>5. \A t, f : f \in Callers(t) <=>
        \E j \in insns : /\ j.op = "call" /\ t \in Targets(j) /\ t \in flash
                         /\ Own(j.addr) \notin {{}, {t}} /\ f \in Own(j.addr)
  <2> HIDE DEF Own, flash
  <2> QED OBVIOUS
<1>6. \A f \in entries : \A t :
        t \in fdb[f].callees <=>
        t \in flash /\ \E j \in insns : j.op = "call" /\ f \in Own(j.addr) /\ t \in Targets(j)
  <2> HIDE DEF Callees, entries, flash, Own
  <2> QED BY <1>3, <1>4
<1>7. \A t \in entries : \A f :
        f \in fdb[t].callers <=>
        \E j \in insns : /\ j.op = "call" /\ t \in Targets(j) /\ t \in flash
                         /\ Own(j.addr) \notin {{}, {t}} /\ f \in Own(j.addr)
  <2> HIDE DEF Callers, entries, flash, Own
  <2>1. \A t \in entries : fdb[t].callers = Callers(t)
    BY <1>3
  <2> HIDE DEF fdb
  <2>2. ASSUME NEW t \in entries, NEW f
        PROVE  f \in fdb[t].callers <=>
               \E j \in insns : /\ j.op = "call" /\ t \in Targets(j) /\ t \in flash
                                /\ Own(j.addr) \notin {{}, {t}} /\ f \in Own(j.addr)
    <3>1. fdb[t].callers = Callers(t)
      BY <2>1
    <3>2. f \in Callers(t) <=>
            \E j \in insns : /\ j.op = "call" /\ t \in Targets(j) /\ t \in flash
                             /\ Own(j.addr) \notin {{}, {t}} /\ f \in Own(j.addr)
      BY <1>5, Zenon
    <3> QED BY <3>1, <3>2, Zenon
  <2> QED BY <2>2, Zenon
<1>8. DOMAIN fdb = entries
  BY <1>3
<1> QED BY <1>6, <1>7, <1>8, Zenon DEF fdb

(***************************************************************************)
(* CallsAgree, for any listing.                                            *)
(***************************************************************************)
THEOREM CallsStayAgreed == MapSpec => []CallsAgree
<1>1. ASSUME MapInv, Computed("listing") PROVE CallsAgree
  <2> DEFINE insns == input.insns
             addrs == input.addrs
             n == Len(addrs)
             codeEnd == CodeEnd(insns)
             harvested == Harvested(insns, input.entry)
             entries == Entries(insns, input.entry)
             flash == Flash(insns)
             fdb == FunctionDb(insns, input.entry, input.strings)
             lines == Attributed(addrs, harvested, codeEnd)
             Own(a) == Owner(entries, codeEnd, a)
  <2>1. input \in InputsOf("listing") /\ output.db = fdb /\ output.lines = lines
    BY <1>1 DEF MapInv, Computed, InputsOf, Result
  <2>2. /\ codeEnd \in Nat /\ \A j \in insns : j.addr \in Nat /\ j.addr < codeEnd
        /\ harvested \in SUBSET Nat /\ IsFiniteSet(harvested)
        /\ entries = {e \in harvested : Base <= e /\ e < codeEnd}
        /\ entries \subseteq flash /\ IsFiniteSet(entries)
    BY <2>1, ListingTyped
  <2>3. /\ DOMAIN fdb = entries
        /\ \A f \in entries : \A t :
             t \in fdb[f].callees <=>
               t \in flash /\ \E j \in insns : j.op = "call" /\ f \in Own(j.addr) /\ t \in Targets(j)
        /\ \A t \in entries : \A f :
             f \in fdb[t].callers <=>
               \E j \in insns : /\ j.op = "call" /\ t \in Targets(j) /\ t \in flash
                                /\ Own(j.addr) \notin {{}, {t}} /\ f \in Own(j.addr)
    BY DbCalls
  <2>4. n \in Nat /\ DOMAIN addrs = 1 .. n /\ \A k \in 1 .. n : \E j \in insns : addrs[k] = j.addr
    <3>1. addrs \in Seq({j.addr : j \in insns})
      BY <2>1, MapAssumption
    <3> QED BY <3>1
  <2> HIDE DEF insns, addrs, n, codeEnd, harvested, entries, flash, fdb, lines
  <2>5. \A k \in 1 .. n : addrs[k] \in Nat /\ addrs[k] < codeEnd
    BY <2>2, <2>4
  <2>6. \A k \in 1 .. n : lines[k] = LastBefore(harvested, addrs[k])
    <3>1. addrs \in [1 .. n -> Nat]
      <4>1. addrs \in Seq({j.addr : j \in insns})
        BY <2>1, MapAssumption DEF insns, addrs
      <4>2. addrs = [k \in 1 .. n |-> addrs[k]]
        BY <2>4, <4>1
      <4> QED BY <2>5, <4>2
    <3> QED BY <2>2, <2>4, <2>5, <3>1, AttributedIs DEF lines
  <2>7. ASSUME NEW a \in Nat, a < codeEnd
        PROVE  /\ LastBefore(harvested, a) \cap entries = LastBefore(entries, a)
               /\ \A e \in LastBefore(harvested, a) \ entries : e < Base /\ \A x \in entries : x > a
    <3>1. \A e \in harvested : e <= a => e \in entries \/ e < Base
      BY <2>2, <2>7, FunctionMapAssumption
    <3>2. entries \subseteq harvested /\ harvested \subseteq Nat /\ Base \in Nat
      BY <2>2, FunctionMapAssumption
    <3>3. \A e \in entries : Base <= e
      BY <2>2
    <3>4. LastBefore(harvested, a) \cap entries = LastBefore(entries, a)
      <4>1. ASSUME NEW e \in entries, \A x \in entries : x <= a => x <= e,
                   NEW x \in harvested, x <= a
            PROVE  x <= e
        <5>1. CASE x \in entries
          BY <4>1, <5>1
        <5>2. CASE x < Base
          <6>1. x \in Nat /\ e \in Nat /\ Base <= e
            BY <3>2, <3>3
          <6> QED BY <3>2, <5>2, <6>1
        <5> QED BY <3>1, <4>1, <5>1, <5>2
      <4> QED BY <3>2, <4>1, Zenon DEF LastBefore
    <3>5. ASSUME NEW e \in LastBefore(harvested, a) \ entries
          PROVE  e < Base /\ \A x \in entries : x > a
      <4>1. e \in harvested /\ e \notin entries /\ e <= a /\ \A x \in harvested : x <= a => x <= e
        BY <3>5 DEF LastBefore
      <4>2. e < Base /\ e \in Nat
        BY <3>1, <3>2, <4>1
      <4>3. ASSUME NEW x \in entries PROVE x > a
        <5>1. x \in harvested /\ x \in Nat /\ Base <= x
          BY <3>2, <3>3
        <5>2. ~(x <= e)
          BY <3>2, <4>2, <5>1
        <5> QED BY <2>7, <4>1, <5>1, <5>2
      <4> QED BY <4>2, <4>3
    <3> QED BY <3>4, <3>5
  <2>8. \A a \in Nat : a < codeEnd => /\ Own(a) = LastBefore(entries, a)
                                      /\ \A e, x \in Own(a) : e = x
    <3>1. entries \in SUBSET Nat /\ IsFiniteSet(entries) /\ codeEnd \in Nat
      BY <2>2
    <3> QED BY ONLY <3>1, OwnerIs DEF Own
  <2> HIDE DEF Own
  <2>9. \A f, t \in DOMAIN fdb : f \in fdb[t].callers <=> f # t /\ t \in fdb[f].callees
    <3> SUFFICES ASSUME NEW f \in entries, NEW t \in entries
                 PROVE  f \in fdb[t].callers <=> f # t /\ t \in fdb[f].callees
      BY <2>3
    <3>1. \A j \in insns : f \in Own(j.addr) => (Own(j.addr) \notin {{}, {t}} <=> f # t)
      <4> SUFFICES ASSUME NEW j \in insns, f \in Own(j.addr)
                   PROVE  Own(j.addr) \notin {{}, {t}} <=> f # t
        OBVIOUS
      <4>1. \A e, x \in Own(j.addr) : e = x
        BY <2>2, <2>8
      <4>2. Own(j.addr) = {f}
        BY <4>1
      <4> QED BY <4>2
    <3>2. t \in flash
      BY <2>2
    <3> QED BY <2>3, <3>1, <3>2
  <2>10. \A k \in DOMAIN addrs :
           /\ lines[k] \cap DOMAIN fdb
                = {e \in DOMAIN fdb : /\ e <= addrs[k]
                                      /\ \A x \in DOMAIN fdb : x <= addrs[k] => x <= e}
           /\ \A e \in lines[k] \ DOMAIN fdb : e < Base /\ \A x \in DOMAIN fdb : x > addrs[k]
    <3> SUFFICES ASSUME NEW k \in 1 .. n
                 PROVE  /\ lines[k] \cap entries
                             = {e \in entries : /\ e <= addrs[k]
                                                /\ \A x \in entries : x <= addrs[k] => x <= e}
                        /\ \A e \in lines[k] \ entries : e < Base /\ \A x \in entries : x > addrs[k]
      BY <2>3, <2>4
    <3>1. lines[k] = LastBefore(harvested, addrs[k])
      BY <2>6
    <3>2. addrs[k] \in Nat /\ addrs[k] < codeEnd
      BY <2>5
    <3>3. lines[k] \cap entries = LastBefore(entries, addrs[k])
      BY <2>7, <3>1, <3>2
    <3>4. \A e \in lines[k] \ entries : e < Base /\ \A x \in entries : x > addrs[k]
      BY <2>7, <3>1, <3>2
    <3> QED BY <3>3, <3>4 DEF LastBefore
  <2>11. ASSUME NEW k \in DOMAIN addrs, NEW e \in lines[k] \cap DOMAIN fdb,
                NEW j \in insns, j.addr = addrs[k], j.op = "call", NEW t \in Targets(j) \cap DOMAIN fdb
         PROVE  t \in fdb[e].callees
    <3>1. k \in 1 .. n
      BY <2>4
    <3>2. lines[k] = LastBefore(harvested, addrs[k]) /\ addrs[k] \in Nat /\ addrs[k] < codeEnd
      BY <2>5, <2>6, <3>1
    <3>3. e \in entries /\ e \in Own(j.addr)
      <4>1. e \in entries
        BY <2>3, <2>11
      <4>2. e \in LastBefore(entries, addrs[k])
        BY <2>7, <2>11, <3>2, <4>1
      <4> QED BY <2>8, <2>11, <3>2, <4>1, <4>2
    <3>4. t \in flash
      BY <2>2, <2>3
    <3> QED BY <2>3, <2>11, <3>3, <3>4
  <2>12. \A k \in DOMAIN addrs : \A e \in lines[k] \cap DOMAIN fdb :
           \A i \in {j \in insns : j.addr = addrs[k] /\ j.op = "call"} :
             Targets(i) \cap DOMAIN fdb \subseteq fdb[e].callees
    BY <2>11
  <2>13. /\ \A f, t \in DOMAIN output.db :
              f \in output.db[t].callers <=> f # t /\ t \in output.db[f].callees
         /\ \A k \in DOMAIN input.addrs :
              output.lines[k] \cap DOMAIN output.db
                = {e \in DOMAIN output.db :
                     /\ e <= input.addrs[k]
                     /\ \A x \in DOMAIN output.db : x <= input.addrs[k] => x <= e}
         /\ \A k \in DOMAIN input.addrs : \A e \in output.lines[k] \ DOMAIN output.db :
              e < Base /\ \A x \in DOMAIN output.db : x > input.addrs[k]
         /\ \A k \in DOMAIN input.addrs : \A e \in output.lines[k] \cap DOMAIN output.db :
              \A i \in {j \in input.insns : j.addr = input.addrs[k] /\ j.op = "call"} :
                Targets(i) \cap DOMAIN output.db \subseteq output.db[e].callees
    <3>1. output.db = fdb /\ output.lines = lines /\ input.insns = insns /\ input.addrs = addrs
      BY <2>1 DEF insns, addrs
    <3> QED BY <2>9, <2>10, <2>12, <3>1
  <2> QED BY <2>13 DEF CallsAgree
<1>2. MapInv => CallsAgree
  BY <1>1 DEF CallsAgree
<1> QED BY <1>2, OutputIsResult, PTL

----------------------------------------------------------------------------
(* Components of the call graph *)

IsReach(g, fdb, e, n) == g = [k \in 0 .. n |-> IF k = 0 THEN {e} ELSE Adjacent(fdb, g[k - 1])]

(***************************************************************************)
(* A component, as the recursive function that it is defined by.           *)
(***************************************************************************)
LEMMA ReachIs ==
  ASSUME NEW fdb, NEW e
  PROVE  LET n == Cardinality(DOMAIN fdb)
         IN Component(fdb, e) = (CHOOSE g : IsReach(g, fdb, e, n))[n]
BY Zenon DEF Component, IsReach

(***************************************************************************)
(* The function that it is defined by exists.                              *)
(***************************************************************************)
LEMMA ReachExists ==
  ASSUME NEW fdb, NEW e, NEW n \in Nat
  PROVE  \E g : IsReach(g, fdb, e, n)
<1> DEFINE S == {m \in Nat : \E g : IsReach(g, fdb, e, m)}
<1>1. 0 \in S
  <2> DEFINE g == [k \in 0 .. 0 |-> {e}]
  <2>1. g = [k \in 0 .. 0 |-> IF k = 0 THEN {e} ELSE Adjacent(fdb, g[k - 1])]
    <3>1. \A k \in 0 .. 0 : k = 0
      OBVIOUS
    <3> QED BY <3>1
  <2>2. IsReach(g, fdb, e, 0)
    BY <2>1, Zenon DEF IsReach
  <2> QED BY <2>2
<1>2. ASSUME NEW m \in Nat, m \in S PROVE m + 1 \in S
  <2>1. PICK g : IsReach(g, fdb, e, m)
    BY <1>2
  <2> DEFINE h == [k \in 0 .. m + 1 |-> IF k = m + 1 THEN Adjacent(fdb, g[m]) ELSE g[k]]
             At(k) == IF k = 0 THEN {e} ELSE Adjacent(fdb, h[k - 1])
  <2>2. \A k \in 0 .. m : g[k] = IF k = 0 THEN {e} ELSE Adjacent(fdb, g[k - 1])
    BY <2>1, Zenon DEF IsReach
  <2>3. ASSUME NEW k \in 0 .. m + 1 PROVE h[k] = At(k)
    <3>1. CASE k = m + 1
      <4>1. k # 0 /\ k - 1 = m /\ m \in 0 .. m + 1 /\ m # m + 1
        BY <3>1
      <4>2. h[k] = Adjacent(fdb, g[m]) /\ h[k - 1] = g[m]
        BY <3>1, <4>1
      <4> HIDE DEF h
      <4> QED BY <4>1, <4>2
    <3>2. CASE k # m + 1
      <4>1. k \in 0 .. m
        BY <3>2
      <4>2. k # 0 => k - 1 \in 0 .. m + 1 /\ k - 1 # m + 1
        BY <4>1
      <4>3. h[k] = g[k] /\ (k # 0 => h[k - 1] = g[k - 1])
        BY <3>2, <4>2
      <4> HIDE DEF h
      <4> QED BY <2>2, <4>1, <4>3
    <3> QED BY <3>1, <3>2
  <2>4. h = [k \in 0 .. m + 1 |-> h[k]]
    OBVIOUS
  <2> HIDE DEF h
  <2>5. h = [k \in 0 .. m + 1 |-> At(k)]
    <3> HIDE DEF At
    <3> QED BY <2>3, <2>4
  <2>6. IsReach(h, fdb, e, m + 1)
    BY <2>5, Zenon DEF IsReach
  <2> QED BY <2>6
<1>3. n \in S
  <2> HIDE DEF S
  <2> QED BY <1>1, <1>2, Induct
<1> QED BY <1>3

\* No call leads out of S or into it.
Closed(fdb, S) == Adjacent(fdb, S) \subseteq S

(***************************************************************************)
(* What is outside of a closed set is closed too.                          *)
(***************************************************************************)
LEMMA ClosedSets ==
  ASSUME NEW fdb, NEW S, Closed(fdb, S), S \subseteq DOMAIN fdb
  PROVE  Closed(fdb, (DOMAIN fdb) \ S)
BY DEF Closed, Adjacent

(***************************************************************************)
(* A component is the least closed set its first function is in.  The      *)
(* number of functions is steps enough: each one adds a function, or no    *)
(* later one does.                                                         *)
(***************************************************************************)
LEMMA ComponentIs ==
  ASSUME NEW fdb, IsFiniteSet(DOMAIN fdb), NEW e \in DOMAIN fdb
  PROVE  LET C == Component(fdb, e)
         IN /\ e \in C /\ C \subseteq DOMAIN fdb /\ Closed(fdb, C)
            /\ \A S : e \in S /\ Closed(fdb, S) => C \subseteq S
<1> DEFINE D == DOMAIN fdb
           n == Cardinality(D)
           R == CHOOSE g : IsReach(g, fdb, e, n)
<1>0. n \in Nat
  BY FS_CardinalityType
<1>1. IsReach(R, fdb, e, n)
  BY <1>0, ReachExists, Zenon
<1>2. Component(fdb, e) = R[n]
  BY ReachIs
<1> HIDE DEF R
<1>3. \A k \in 0 .. n : R[k] = IF k = 0 THEN {e} ELSE Adjacent(fdb, R[k - 1])
  BY <1>1, Zenon DEF IsReach
<1> DEFINE Good(k) == /\ e \in R[k] /\ R[k] \subseteq D
                      /\ Closed(fdb, R[k]) \/ Cardinality(R[k]) > k
                      /\ \A S : e \in S /\ Closed(fdb, S) => R[k] \subseteq S
           G == {k \in Nat : k <= n => Good(k)}
<1> HIDE DEF n
<1>4. 0 \in G
  <2>1. R[0] = {e}
    BY <1>0, <1>3
  <2>2. Cardinality({e}) = 1
    BY FS_Singleton
  <2>3. Good(0)
    BY <2>1, <2>2
  <2> HIDE DEF Good
  <2> QED BY <2>3
<1>5. ASSUME NEW k \in Nat, k \in G PROVE k + 1 \in G
  <2> SUFFICES ASSUME k + 1 <= n PROVE Good(k + 1)
    <3> HIDE DEF Good
    <3> QED OBVIOUS
  <2>1. k <= n /\ k \in 0 .. n /\ k + 1 \in 0 .. n /\ k + 1 # 0 /\ (k + 1) - 1 = k
    BY <1>0
  <2>2. Good(k)
    <3> HIDE DEF Good
    <3> QED BY <1>5, <2>1
  <2>3. R[k + 1] = Adjacent(fdb, R[k])
    BY <1>3, <2>1
  <2> DEFINE P == R[k]
             Q == R[k + 1]
  <2>4. P \subseteq Q /\ Q \subseteq D
    BY <2>2, <2>3 DEF Adjacent
  <2>5. ASSUME NEW S, e \in S, Closed(fdb, S) PROVE Q \subseteq S
    <3>1. P \subseteq S
      BY <2>2, <2>5
    <3>2. Adjacent(fdb, P) \subseteq Adjacent(fdb, S)
      BY <3>1 DEF Adjacent
    <3> QED BY <2>3, <2>5, <3>2 DEF Closed
  <2>6. Closed(fdb, Q) \/ Cardinality(Q) > k + 1
    <3>1. CASE Closed(fdb, P)
      <4>1. Q = P
        BY <2>3, <2>4, <3>1 DEF Closed
      <4> QED BY <3>1, <4>1
    <3>2. CASE ~ Closed(fdb, P)
      <4>1. Q # P
        BY <2>3, <3>2 DEF Closed
      <4>2. IsFiniteSet(P) /\ IsFiniteSet(Q)
        BY <2>4, FS_Subset
      <4>3. Cardinality(P) <= Cardinality(Q) /\ Cardinality(P) # Cardinality(Q)
        <5> HIDE DEF P, Q
        <5> QED BY <2>4, <4>1, <4>2, FS_Subset
      <4>4. Cardinality(P) \in Nat /\ Cardinality(Q) \in Nat /\ Cardinality(P) > k
        BY <2>2, <3>2, <4>2, FS_CardinalityType
      <4> HIDE DEF P, Q
      <4> QED BY <4>3, <4>4
    <3> QED BY <3>1, <3>2
  <2> QED BY <2>2, <2>4, <2>5, <2>6
<1>6. n \in G
  <2> HIDE DEF G
  <2> QED BY <1>0, <1>4, <1>5, Induct
<1>7. Good(n)
  <2> HIDE DEF Good
  <2> QED BY <1>6
<1>8. Closed(fdb, R[n])
  <2> SUFFICES ASSUME Cardinality(R[n]) > n PROVE FALSE
    BY <1>7
  <2>1. IsFiniteSet(R[n]) /\ Cardinality(R[n]) <= Cardinality(D)
    BY <1>7, FS_Subset
  <2>2. Cardinality(R[n]) \in Nat
    BY <2>1, FS_CardinalityType
  <2> QED BY <1>0, <2>1, <2>2 DEF n
<1> QED BY <1>2, <1>7, <1>8

(***************************************************************************)
(* Calls hold it together: of two parts, one would be a smaller closed     *)
(* set that the first function is in.                                      *)
(***************************************************************************)
LEMMA ComponentHolds ==
  ASSUME NEW fdb, IsFiniteSet(DOMAIN fdb), NEW e \in DOMAIN fdb,
         NEW S, S \subseteq Component(fdb, e), S # {}, S # Component(fdb, e)
  PROVE  \E f \in S, g \in Component(fdb, e) \ S : g \in fdb[f].callees \/ f \in fdb[g].callees
<1> DEFINE C == Component(fdb, e)
<1>1. /\ e \in C /\ C \subseteq DOMAIN fdb /\ Closed(fdb, C)
      /\ \A T : e \in T /\ Closed(fdb, T) => C \subseteq T
  BY ComponentIs
<1> HIDE DEF C
<1> SUFFICES ASSUME \A f \in S, g \in C \ S : ~ (g \in fdb[f].callees \/ f \in fdb[g].callees)
             PROVE  FALSE
  BY DEF C
<1>2. S \subseteq C /\ S # C
  BY DEF C
<1>3. Closed(fdb, S) /\ Closed(fdb, C \ S)
  BY <1>1, <1>2 DEF Closed, Adjacent
<1> QED BY <1>1, <1>2, <1>3

IsVisiting(g, fdb, list) ==
  g = [s \in SUBSET DOMAIN list |->
        IF s = {} THEN <<>> ELSE Visit(fdb, g[s \ {Max(s)}], list[Max(s)])]

(***************************************************************************)
(* The components, as the function that their fold is defined by.          *)
(***************************************************************************)
LEMMA ComponentsFold ==
  ASSUME NEW fdb
  PROVE  LET list == Sorted(DOMAIN fdb)
         IN Components(fdb) = (CHOOSE g : IsVisiting(g, fdb, list))[DOMAIN list]
BY Zenon DEF Components, FoldLeft, MapThenFoldSet, IsVisiting

\* p[k] is the components found from the first k functions.
OneByOne(p, n, fdb, list) ==
  /\ p[0] = <<>> /\ Components(fdb) = p[n]
  /\ \A k \in 1 .. n : p[k] = Visit(fdb, p[k - 1], list[k])

(***************************************************************************)
(* The functions are visited one by one, in their order.                   *)
(***************************************************************************)
LEMMA VisitSteps ==
  ASSUME NEW fdb, IsFiniteSet(DOMAIN fdb), NEW n \in Nat, NEW list \in [1 .. n -> DOMAIN fdb],
         list = Sorted(DOMAIN fdb)
  PROVE  \E p : OneByOne(p, n, fdb, list)
<1> DEFINE States == Seq(SUBSET DOMAIN fdb)
           step == [x \in States \X (1 .. n) |-> Visit(fdb, x[1], list[x[2]])]
           h == CHOOSE g : IsVisiting(g, fdb, list)
           p == [k \in 0 .. n |-> h[1 .. k]]
<1>0. DOMAIN list = 1 .. n
  OBVIOUS
<1>1. \A comps \in States, k \in 1 .. n : Visit(fdb, comps, list[k]) \in States
  <2> SUFFICES ASSUME NEW comps \in States, NEW k \in 1 .. n
               PROVE  Visit(fdb, comps, list[k]) \in States
    OBVIOUS
  <2>1. Component(fdb, list[k]) \in SUBSET DOMAIN fdb
    BY ComponentIs
  <2>2. Append(comps, Component(fdb, list[k])) \in States
    BY <2>1, AppendProperties
  <2> HIDE DEF States
  <2> QED BY <2>2 DEF Visit
<1>2. step \in [States \X (1 .. n) -> States]
  <2> HIDE DEF States
  <2> QED BY <1>1
<1>3. PICK g \in [SUBSET (1 .. n) -> States] : IsFold(g, n, <<>>, step)
  <2>1. <<>> \in States
    OBVIOUS
  <2> HIDE DEF States, step
  <2> QED BY <1>2, <2>1, FoldExists
<1>4. IsVisiting(g, fdb, list)
  <2>1. \A s \in SUBSET (1 .. n) : s # {} => Max(s) \in 1 .. n /\ s \ {Max(s)} \in SUBSET (1 .. n)
    BY Places
  <2>2. \A s \in SUBSET (1 .. n) : s # {} =>
          step[<<g[s \ {Max(s)}], Max(s)>>] = Visit(fdb, g[s \ {Max(s)}], list[Max(s)])
    <3> HIDE DEF States
    <3> QED BY <2>1
  <2> HIDE DEF States, step
  <2>3. g = [s \in SUBSET (1 .. n) |-> IF s = {} THEN <<>> ELSE step[<<g[s \ {Max(s)}], Max(s)>>]]
    BY <1>3, Zenon DEF IsFold
  <2>4. g = [s \in SUBSET DOMAIN list |->
              IF s = {} THEN <<>> ELSE Visit(fdb, g[s \ {Max(s)}], list[Max(s)])]
    BY <1>0, <2>2, <2>3
  <2> QED BY <2>4, Zenon DEF IsVisiting
<1>5. \A s \in SUBSET (1 .. n) :
        h[s] = IF s = {} THEN <<>> ELSE Visit(fdb, h[s \ {Max(s)}], list[Max(s)])
  <2>1. IsVisiting(h, fdb, list)
    BY <1>4, Zenon
  <2> HIDE DEF h
  <2> QED BY <1>0, <2>1, Zenon DEF IsVisiting
<1>6. p[0] = <<>> /\ p[n] = h[1 .. n]
  <2>1. 1 .. 0 = {} /\ {} \in SUBSET (1 .. n) /\ 0 \in 0 .. n /\ n \in 0 .. n
    OBVIOUS
  <2> HIDE DEF h
  <2>2. p[0] = h[{}] /\ p[n] = h[1 .. n]
    BY <2>1
  <2> QED BY <1>5, <2>1, <2>2
<1>7. ASSUME NEW k \in 1 .. n
      PROVE  p[k] = Visit(fdb, p[k - 1], list[k])
  <2>1. 1 .. k # {} /\ Max(1 .. k) = k /\ (1 .. k) \ {k} = 1 .. k - 1
    BY LastPlace
  <2>2. 1 .. k \in SUBSET (1 .. n) /\ k \in 0 .. n /\ k - 1 \in 0 .. n
    OBVIOUS
  <2> HIDE DEF h
  <2>3. p[k] = h[1 .. k] /\ p[k - 1] = h[1 .. k - 1]
    BY <2>2
  <2>4. h[1 .. k] = Visit(fdb, h[(1 .. k) \ {Max(1 .. k)}], list[Max(1 .. k)])
    BY <1>5, <2>1, <2>2
  <2> QED BY <2>1, <2>3, <2>4
<1>8. Components(fdb) = p[n]
  <2>1. Components(fdb) = h[DOMAIN list]
    BY ComponentsFold
  <2> HIDE DEF h, p
  <2> QED BY <1>0, <1>6, <2>1
<1> HIDE DEF p, h
<1>9. OneByOne(p, n, fdb, list)
  BY <1>6, <1>7, <1>8 DEF OneByOne
<1> QED BY <1>9

\* comps are components, no two of them meet, and the functions visited are in them.
Partition(comps, fdb, visited) ==
  /\ comps \in Seq(SUBSET DOMAIN fdb)
  /\ \A k \in DOMAIN comps : \E e \in DOMAIN fdb : comps[k] = Component(fdb, e)
  /\ \A j, k \in DOMAIN comps : j # k => comps[j] \cap comps[k] = {}
  /\ \A e \in visited : \E k \in DOMAIN comps : e \in comps[k]

(***************************************************************************)
(* A visit adds the component of a function that is in none so far; as     *)
(* what is outside of a component is closed, the new one meets none.       *)
(***************************************************************************)
LEMMA VisitKeeps ==
  ASSUME NEW fdb, IsFiniteSet(DOMAIN fdb), NEW comps, NEW visited, Partition(comps, fdb, visited),
         NEW e \in DOMAIN fdb
  PROVE  Partition(Visit(fdb, comps, e), fdb, visited \cup {e})
<1> DEFINE C == Component(fdb, e)
           n == Len(comps)
           next == Append(comps, C)
<1>1. comps \in Seq(SUBSET DOMAIN fdb) /\ n \in Nat /\ DOMAIN comps = 1 .. n
  BY DEF Partition
<1>2. ToSet(comps) = {comps[k] : k \in 1 .. n}
  BY <1>1 DEF ToSet
<1>3. CASE e \in UNION ToSet(comps)
  <2>1. Visit(fdb, comps, e) = comps
    BY <1>3 DEF Visit
  <2>2. \E k \in DOMAIN comps : e \in comps[k]
    BY <1>1, <1>2, <1>3
  <2> QED BY <2>1, <2>2 DEF Partition
<1>4. CASE e \notin UNION ToSet(comps)
  <2>1. Visit(fdb, comps, e) = next
    BY <1>4 DEF Visit
  <2>2. /\ e \in C /\ C \subseteq DOMAIN fdb
        /\ \A S : e \in S /\ Closed(fdb, S) => C \subseteq S
    BY ComponentIs
  <2>3. ASSUME NEW k \in 1 .. n PROVE comps[k] \cap C = {}
    <3>1. PICK f \in DOMAIN fdb : comps[k] = Component(fdb, f)
      BY <1>1 DEF Partition
    <3>2. Closed(fdb, comps[k]) /\ comps[k] \subseteq DOMAIN fdb
      BY <3>1, ComponentIs
    <3> DEFINE rest == (DOMAIN fdb) \ comps[k]
    <3>3. Closed(fdb, rest)
      BY <3>2, ClosedSets
    <3>4. e \in rest
      BY <1>2, <1>4
    <3>5. C \subseteq rest
      <4> HIDE DEF C, rest
      <4> QED BY <2>2, <3>3, <3>4
    <3> QED BY <3>5
  <2> HIDE DEF C
  <2>4. /\ next \in Seq(SUBSET DOMAIN fdb) /\ DOMAIN next = 1 .. n + 1
        /\ \A k \in 1 .. n : next[k] = comps[k]
        /\ next[n + 1] = C
    <3>1. C \in SUBSET DOMAIN fdb
      BY <2>2
    <3>2. /\ next \in Seq(SUBSET DOMAIN fdb) /\ Len(next) = n + 1
          /\ \A k \in 1 .. n : next[k] = comps[k]
          /\ next[n + 1] = C
      BY <1>1, <3>1, AppendProperties
    <3> QED BY <3>2
  <2> HIDE DEF next
  <2>5. \A k \in 1 .. n + 1 : k \in 1 .. n \/ k = n + 1
    BY <1>1
  <2>6. 1 .. n \subseteq 1 .. n + 1 /\ n + 1 \in 1 .. n + 1
    BY <1>1
  <2> HIDE DEF n
  <2>7. \A k \in DOMAIN next : \E f \in DOMAIN fdb : next[k] = Component(fdb, f)
    <3>1. \A k \in 1 .. n : \E f \in DOMAIN fdb : comps[k] = Component(fdb, f)
      BY <1>1 DEF Partition
    <3> QED BY <2>4, <2>5, <3>1 DEF C
  <2>8. \A j, k \in DOMAIN next : j # k => next[j] \cap next[k] = {}
    <3>1. \A j, k \in 1 .. n : j # k => comps[j] \cap comps[k] = {}
      BY <1>1 DEF Partition
    <3>2. \A j, k \in 1 .. n : j # k => next[j] \cap next[k] = {}
      BY <2>4, <3>1
    <3>3. \A k \in 1 .. n : next[k] \cap C = {}
      BY <2>3, <2>4
    <3>4. \A k \in 1 .. n : C \cap next[k] = {}
      BY <3>3
    <3> QED BY <2>4, <2>5, <3>2, <3>3, <3>4
  <2>9. \A f \in visited \cup {e} : \E k \in DOMAIN next : f \in next[k]
    <3>1. \A f \in visited : \E k \in 1 .. n : f \in comps[k]
      BY <1>1 DEF Partition
    <3>2. \A f \in visited : \E k \in 1 .. n + 1 : f \in next[k]
      BY <2>4, <2>6, <3>1
    <3>3. e \in next[n + 1]
      BY <2>2, <2>4
    <3> QED BY <2>4, <2>6, <3>2, <3>3
  <2>10. Partition(next, fdb, visited \cup {e})
    BY <2>4, <2>7, <2>8, <2>9 DEF Partition
  <2> QED BY <2>1, <2>10
<1> QED BY <1>3, <1>4

(***************************************************************************)
(* The components partition the functions of any database.                 *)
(***************************************************************************)
THEOREM ComponentsPart ==
  ASSUME NEW fdb, IsFiniteSet(DOMAIN fdb), DOMAIN fdb \in SUBSET Nat
  PROVE  Partition(Components(fdb), fdb, DOMAIN fdb)
<1> DEFINE D == DOMAIN fdb
           list == Sorted(D)
           n == Cardinality(D)
<1>1. /\ n \in Nat /\ list \in [1 .. n -> D] /\ \A x \in D : \E k \in 1 .. n : list[k] = x
  BY SortedLists
<1>2. PICK p : OneByOne(p, n, fdb, list)
  BY <1>1, VisitSteps
<1> HIDE DEF list, n
<1>3. /\ p[0] = <<>> /\ Components(fdb) = p[n]
      /\ \A k \in 1 .. n : p[k] = Visit(fdb, p[k - 1], list[k])
  BY <1>2 DEF OneByOne
<1> DEFINE Seen(k) == {list[j] : j \in 1 .. k}
           Good == {k \in Nat : k <= n => Partition(p[k], fdb, Seen(k))}
<1>4. 0 \in Good
  <2>1. Partition(<<>>, fdb, {})
    BY DEF Partition
  <2>2. Seen(0) = {}
    OBVIOUS
  <2> HIDE DEF Seen
  <2> QED BY <1>3, <2>1, <2>2
<1>5. ASSUME NEW k \in Nat, k \in Good PROVE k + 1 \in Good
  <2> SUFFICES ASSUME k + 1 <= n PROVE Partition(p[k + 1], fdb, Seen(k + 1))
    <3> HIDE DEF Seen
    <3> QED OBVIOUS
  <2>1. k <= n /\ k + 1 \in 1 .. n /\ (k + 1) - 1 = k
    BY <1>1
  <2>2. Partition(p[k], fdb, Seen(k))
    <3> HIDE DEF Seen
    <3> QED BY <1>5, <2>1
  <2>3. p[k + 1] = Visit(fdb, p[k], list[k + 1])
    BY <1>3, <2>1
  <2>4. Seen(k + 1) = Seen(k) \cup {list[k + 1]}
    <3>1. 1 .. k + 1 = (1 .. k) \cup {k + 1}
      OBVIOUS
    <3> QED BY <3>1
  <2>5. list[k + 1] \in DOMAIN fdb
    BY <1>1, <2>1
  <2> HIDE DEF Seen
  <2> QED BY <2>2, <2>3, <2>4, <2>5, VisitKeeps
<1>6. Partition(p[n], fdb, Seen(n))
  <2> HIDE DEF Good
  <2>1. n \in Good
    BY <1>1, <1>4, <1>5, Induct
  <2> HIDE DEF Seen
  <2> QED BY <1>1, <2>1 DEF Good
<1>7. Seen(n) = DOMAIN fdb
  BY <1>1
<1> HIDE DEF Seen
<1> QED BY <1>3, <1>6, <1>7

(***************************************************************************)
(* ComponentsWhole, for any listing.                                       *)
(***************************************************************************)
THEOREM ComponentsStayWhole == MapSpec => []ComponentsWhole
<1>1. ASSUME MapInv, Computed("listing") PROVE ComponentsWhole
  <2> DEFINE fdb == output.db
             comps == output.components
             entries == Entries(input.insns, input.entry)
  <2>1. input \in InputsOf("listing") /\ fdb = FunctionDb(input.insns, input.entry, input.strings)
        /\ comps = Components(fdb)
    BY <1>1 DEF MapInv, Computed, InputsOf, Result
  <2>2. /\ entries \subseteq Flash(input.insns) /\ IsFiniteSet(entries)
        /\ \A e \in entries : e \in Nat
    BY <2>1, ListingTyped
  <2>3. /\ DOMAIN fdb = entries
        /\ \A f \in entries : \A t :
             t \in fdb[f].callees =>
               t \in Flash(input.insns) /\ \E j \in input.insns : j.op = "call" /\ t \in Targets(j)
    BY <2>1, DbCalls
  <2>4. \A f \in DOMAIN fdb : fdb[f].callees \subseteq DOMAIN fdb
    <3> HIDE DEF fdb
    <3>1. \A t : (t \in Flash(input.insns) /\ \E j \in input.insns : j.op = "call" /\ t \in Targets(j))
                   => t \in entries
      BY DEF Entries, CallTargets
    <3> HIDE DEF entries
    <3> QED BY <2>3, <3>1
  <2>5. DOMAIN fdb \in SUBSET Nat /\ IsFiniteSet(DOMAIN fdb)
    BY <2>2, <2>3
  <2> HIDE DEF fdb, entries, comps
  <2>6. /\ comps \in Seq(SUBSET DOMAIN fdb)
        /\ \A k \in DOMAIN comps : \E e \in DOMAIN fdb : comps[k] = Component(fdb, e)
        /\ \A j, k \in DOMAIN comps : j # k => comps[j] \cap comps[k] = {}
        /\ \A e \in DOMAIN fdb : \E k \in DOMAIN comps : e \in comps[k]
    BY <2>1, <2>5, ComponentsPart DEF Partition
  <2>7. UNION ToSet(comps) = DOMAIN fdb
    <3>1. \A k \in DOMAIN comps : comps[k] \subseteq DOMAIN fdb
      BY <2>6
    <3>2. ToSet(comps) = {comps[k] : k \in DOMAIN comps}
      BY DEF ToSet
    <3>3. \A e \in DOMAIN fdb : \E k \in DOMAIN comps : e \in comps[k]
      BY <2>6
    <3>4. UNION {comps[k] : k \in DOMAIN comps} = DOMAIN fdb
      BY <3>1, <3>3
    <3> QED BY <3>2, <3>4, Zenon
  <2>8. ASSUME NEW k \in DOMAIN comps
        PROVE  /\ \A f \in comps[k] : fdb[f].callees \subseteq comps[k]
               /\ \A S \in (SUBSET comps[k]) \ {{}, comps[k]} :
                    \E f \in S, g \in comps[k] \ S : g \in fdb[f].callees \/ f \in fdb[g].callees
    <3>1. PICK e \in DOMAIN fdb : comps[k] = Component(fdb, e)
      BY <2>6
    <3>2. Closed(fdb, comps[k]) /\ comps[k] \subseteq DOMAIN fdb
      BY <2>5, <3>1, ComponentIs
    <3>3. \A f \in comps[k] : fdb[f].callees \subseteq comps[k]
      BY <2>4, <3>2 DEF Closed, Adjacent
    <3>4. \A S \in (SUBSET comps[k]) \ {{}, comps[k]} :
            \E f \in S, g \in comps[k] \ S : g \in fdb[f].callees \/ f \in fdb[g].callees
      <4> SUFFICES ASSUME NEW S \in (SUBSET comps[k]) \ {{}, comps[k]}
                   PROVE  \E f \in S, g \in comps[k] \ S : g \in fdb[f].callees \/ f \in fdb[g].callees
        OBVIOUS
      <4>1. S \subseteq Component(fdb, e) /\ S # {} /\ S # Component(fdb, e)
        BY <3>1
      <4> QED BY <2>5, <3>1, <4>1, ComponentHolds
    <3> QED BY <3>3, <3>4
  <2> QED BY <2>6, <2>7, <2>8 DEF ComponentsWhole, fdb, comps
<1>2. MapInv => ComponentsWhole
  BY <1>1 DEF ComponentsWhole
<1> QED BY <1>2, OutputIsResult, PTL
----------------------------------------------------------------------------
(* The chains *)

ReviewsOK ==
  DOMAIN reviews \subseteq Func /\ \A f \in DOMAIN reviews : reviews[f] \in Reviews

(***************************************************************************)
(* Reviews are about functions, and never None.                            *)
(***************************************************************************)
THEOREM ReviewsTyped == Spec => []ReviewsOK
<1>1. Init => ReviewsOK
  BY DEF Init, ReviewsOK
<1>2. ReviewsOK /\ [Next]_vars => ReviewsOK'
  <2> SUFFICES ASSUME ReviewsOK, [Next]_vars PROVE ReviewsOK'
    OBVIOUS
  <2>1. CASE Review
    BY <2>1 DEF Review, Decided, ReviewsOK
  <2>2. CASE UNCHANGED reviews
    BY <2>2 DEF ReviewsOK
  <2> QED
    BY <2>1, <2>2 DEF Next, vars, inputs, BuildDb, MatchLibs, MechTag, Aggregate, BuildFuncdb,
       BuildMasterIndex, AggregateClassify, NewListing, DisasmLibs, Journal
<1> QED
  BY <1>1, <1>2, PTL DEF Spec

(***************************************************************************)
(* A function that has a subsystem keeps it through all of mech_tag.       *)
(***************************************************************************)
LEMMA PassesKeep ==
  ASSUME NEW sub, sub # None, NEW r
  PROVE  Passes(sub, r) = sub
BY DEF Passes, SetTag

(***************************************************************************)
(* Only another review, or building the database anew, replaces what a     *)
(* reviewer said.                                                          *)
(***************************************************************************)
THEOREM ReviewsKept == Spec => ReviewKept
<1> DEFINE Kept ==
      \A f \in DOMAIN reviews :
        (db # Unreadable /\ db' # Unreadable /\ db.sub[f] = reviews[f] /\ reviews' = reviews)
          => (db'.sub[f] = reviews[f] \/ BuildDb)
<1>1. ReviewsOK /\ [Next]_vars => [Kept]_vars
  <2> SUFFICES ASSUME ReviewsOK, Next, NEW f \in DOMAIN reviews, db' # Unreadable,
                      db.sub[f] = reviews[f], ~BuildDb
               PROVE  db'.sub[f] = reviews[f]
    BY DEF vars, files
  <2>1. f \in Func /\ reviews[f] # None
    BY PipelineAssumption DEF ReviewsOK, Subsystems
  <2>2. CASE MatchLibs
    BY <2>2 DEF MatchLibs, Labelled, Database
  <2>3. CASE MechTag
    BY <2>1, <2>3, PassesKeep DEF MechTag, Database, Tagged
  <2>4. CASE Aggregate
    BY <2>1, <2>4 DEF Aggregate, Database, Override
  <2>5. CASE UNCHANGED db
    BY <2>5
  <2> QED
    BY <2>2, <2>3, <2>4, <2>5 DEF Next, files, BuildFuncdb, BuildMasterIndex, AggregateClassify,
       NewListing, DisasmLibs, Review, Journal, Edit
<1> QED
  BY <1>1, ReviewsTyped, PTL DEF Spec, ReviewKept

----------------------------------------------------------------------------
(* The first chain *)

\* The label of f and where it is from, as match_libs gives them on an empty
\* database, and the subsystem that mech_tag then finds.
Lib(dis, c, f) == IF f \in DOMAIN Hits(dis, c) THEN Hits(dis, c)[f] ELSE None
Src(dis, c, f) == IF f \in DOMAIN Hits(dis, c) THEN FirstSource(dis, Hits(dis, c)[f]) ELSE None
Tag(dis, c, f) == Passes(None, Rules(c[f], Lib(dis, c, f), Src(dis, c, f)))

Chain ==
  /\ stage \in {"none", "built", "matched", "tagged", "done"}
  /\ stage # "none" => db.code = code
  /\ stage = "built" => \A f \in Func : db.lib[f] = None /\ db.src[f] = None
  /\ stage \in {"matched", "tagged", "done"} =>
       /\ \A f \in Func : db.lib[f] = Lib(libdis, code, f) /\ db.src[f] = Src(libdis, code, f)
       /\ hits \in {Unreadable, Hits(libdis, code)}
  /\ stage \in {"built", "matched"} => \A f \in Func \ DOMAIN reviews : db.sub[f] = None
  /\ stage \in {"tagged", "done"} =>
       \A f \in Func \ DOMAIN reviews : db.sub[f] = Tag(libdis, code, f)
  /\ stage = "done" =>
       /\ \A f \in Func \cap DOMAIN reviews : db.sub[f] = reviews[f]
       /\ index \in {Unreadable, Rows(db)}

(***************************************************************************)
(* mech_tag, when it is repeated, finds nothing new.                       *)
(***************************************************************************)
LEMMA PassesAgain ==
  ASSUME NEW r
  PROVE  Passes(Passes(None, r), r) = Passes(None, r)
BY DEF Passes, SetTag

(***************************************************************************)
(* The first chain's own scripts keep Chain.                               *)
(***************************************************************************)
LEMMA ChainScripts ==
  ASSUME ReviewsOK, Chain, BuildDb \/ MatchLibs \/ MechTag \/ Aggregate
  PROVE  Chain'
<1> USE DEF Chain
<1>0. UNCHANGED <<code, libdis, reviews>>
  BY DEF BuildDb, MatchLibs, MechTag, Aggregate, inputs
<1>1. CASE BuildDb
  BY <1>0, <1>1 DEF BuildDb, Written, Database, Nowhere
<1>2. CASE MatchLibs
  <2>1. CASE stage = "none"
    BY <1>0, <1>2, <2>1 DEF MatchLibs
  <2>2. CASE stage # "none"
    <3>1. \/ UNCHANGED <<db, stage>> /\ hits' = Unreadable
          \/ stage' = "none"
          \/ /\ hits' = Hits(libdis, code) /\ db' = Labelled(db, hits', libdis)
             /\ stage' = IF stage = "built" THEN "matched" ELSE stage
      BY <1>2, <2>2 DEF MatchLibs
    <3>2. ASSUME hits' = Hits(libdis, code), db' = Labelled(db, hits', libdis)
          PROVE  /\ db'.code = db.code /\ db'.sub = db.sub
                 /\ \A f \in Func : db'.lib[f] = Lib(libdis, code, f) /\ db'.src[f] = Src(libdis, code, f)
      BY <2>2, <3>2 DEF Labelled, Database, Lib, Src
    <3>3. index' = index /\ (db'.sub = db.sub /\ (\A f \in Func : db'.lib[f] = db.lib[f]) => Rows(db') = Rows(db))
      BY <1>2 DEF MatchLibs, Rows
    <3> QED
      BY <1>0, <2>2, <3>1, <3>2, <3>3
  <2> QED
    BY <2>1, <2>2
<1>3. CASE MechTag
  <2>1. CASE stage' = "none"
    BY <2>1
  <2>2. CASE stage' # "none"
    <3>1. /\ db' = Database(db.code, db.lib, db.src, Tagged(db)) /\ UNCHANGED <<hits, index>>
          /\ stage' = IF stage = "matched" THEN "tagged" ELSE stage
          /\ stage \in {"matched", "tagged", "done"}
      BY <1>3, <2>2 DEF MechTag
    <3>2. db'.code = code' /\ db'.lib = db.lib /\ db'.src = db.src /\ db'.sub = Tagged(db)
      BY <1>0, <3>1 DEF Database
    <3>3. \A f \in Func \ DOMAIN reviews : Tagged(db)[f] = Tag(libdis, code, f)
      <4> SUFFICES ASSUME NEW f \in Func \ DOMAIN reviews
                   PROVE  Tagged(db)[f] = Tag(libdis, code, f)
        OBVIOUS
      <4>1. Tagged(db)[f] = Passes(db.sub[f], Rules(code[f], Lib(libdis, code, f), Src(libdis, code, f)))
        BY <3>1 DEF Tagged
      <4>2. db.sub[f] = None \/ db.sub[f] = Tag(libdis, code, f)
        BY <3>1
      <4> QED
        BY <4>1, <4>2, PassesAgain DEF Tag
    <3>4. stage = "done" => \A f \in Func : db'.sub[f] = db.sub[f]
      <4>1. ASSUME stage = "done", NEW f \in Func \cap DOMAIN reviews
            PROVE  db'.sub[f] = db.sub[f]
        <5>1. db.sub[f] # None
          BY <4>1, PipelineAssumption DEF ReviewsOK, Subsystems
        <5> QED
          BY <3>2, <5>1, PassesKeep DEF Tagged
      <4> QED
        BY <3>2, <3>3, <4>1
    <3>5. stage = "done" => Rows(db') = Rows(db)
      BY <3>2, <3>4 DEF Rows
    <3>6. \A f \in Func \ DOMAIN reviews : db'.sub[f] = Tag(libdis, code, f)
      BY <3>2, <3>3
    <3>7. stage' \in {"tagged", "done"} /\ (stage' = "done" => stage = "done")
      BY <3>1
    <3> HIDE DEF Chain
    <3>8. /\ \A f \in Func : db.lib[f] = Lib(libdis, code, f) /\ db.src[f] = Src(libdis, code, f)
          /\ hits \in {Unreadable, Hits(libdis, code)}
      BY <3>1 DEF Chain
    <3>9. stage = "done" =>
            /\ \A f \in Func \cap DOMAIN reviews : db'.sub[f] = reviews[f]
            /\ index \in {Unreadable, Rows(db')}
      BY <3>4, <3>5 DEF Chain
    <3> QED
      BY <1>0, <3>1, <3>2, <3>6, <3>7, <3>8, <3>9 DEF Chain
  <2> QED
    BY <2>1, <2>2
<1>4. CASE Aggregate
  <2>1. CASE stage' = "none"
    BY <2>1
  <2> DEFINE d == Database(db.code, db.lib, db.src, Override(db, reviews))
  <2>2. CASE UNCHANGED <<db, stage, hits>> /\ index' = Unreadable
    BY <1>0, <2>2
  <2>3. CASE /\ db' = d /\ index' = Rows(d) /\ UNCHANGED hits
             /\ stage' = IF stage = "tagged" THEN "done" ELSE stage
    <3>1. /\ db' = d /\ index' = Rows(d) /\ hits' = hits
          /\ stage' = IF stage = "tagged" THEN "done" ELSE stage
      BY <2>3
    <3>2. /\ db'.code = db.code /\ db'.lib = db.lib /\ db'.src = db.src /\ index' = Rows(db')
          /\ db'.sub = Override(db, reviews)
      BY <3>1 DEF Database
    <3>3. \A f \in Func :
            db'.sub[f] = IF f \in DOMAIN reviews THEN reviews[f] ELSE db.sub[f]
      BY <3>2 DEF Override
    <3> QED
      BY <1>0, <2>3, <3>1, <3>2, <3>3
  <2> QED
    BY <1>4, <2>1, <2>2, <2>3 DEF Aggregate
<1> QED
  BY <1>1, <1>2, <1>3, <1>4

(***************************************************************************)
(* Chain is an invariant: the second chain does not write the first's      *)
(* files, and what changes an input takes back the stages that read it.    *)
(***************************************************************************)
THEOREM ChainHolds == Spec => []Chain
<1>1. Init => Chain
  BY DEF Init, Chain
<1>2. ReviewsOK /\ Chain /\ [Next]_vars => Chain'
  <2> SUFFICES ASSUME ReviewsOK, Chain, [Next]_vars PROVE Chain'
    OBVIOUS
  <2>1. CASE BuildDb \/ MatchLibs \/ MechTag \/ Aggregate
    BY <2>1, ChainScripts
  <2>2. CASE UNCHANGED <<code, libdis, reviews, db, hits, index, stage>>
    BY <2>2 DEF Chain
  <2>3. CASE NewListing
    BY <2>3 DEF NewListing, Chain
  <2>4. CASE DisasmLibs
    BY <2>4 DEF DisasmLibs, Edit, files, Chain
  <2>5. CASE Review
    <3>1. DOMAIN reviews \subseteq DOMAIN reviews'
      BY <2>5 DEF Review, Decided
    <3>2. stage' = (IF stage = "done" THEN "tagged" ELSE stage)
            /\ UNCHANGED <<code, libdis, db, hits, index>>
      BY <2>5 DEF Review, Edit, files
    <3> QED
      BY <3>1, <3>2 DEF Chain
  <2> QED
    BY <2>1, <2>2, <2>3, <2>4, <2>5 DEF Next, vars, inputs, files, BuildFuncdb, BuildMasterIndex,
       AggregateClassify, Journal, Edit
<1> QED
  BY <1>1, <1>2, ReviewsTyped, PTL DEF Spec

----------------------------------------------------------------------------
(* The second chain *)

\* Disassembling a library again leaves the baseline as it is.
BaselineThere ==
  DOMAIN libdis = ToSet(LibFiles) /\ \A l \in Baseline : libdis[l] # {}

Chain2 ==
  LET m == Independent(libdis, code) IN
  /\ stage2 \in {"none", "built", "matched", "merged", "done"}
  /\ stage2 \in {"matched", "merged", "done"} => matches \in {Unreadable, m}
  /\ stage2 \in {"merged", "done"} => master \in {Unreadable, MasterRows(m)}
  /\ stage2 = "done" => classified \in {Unreadable, ClassifiedRows(MasterRows(m), journal)}

(***************************************************************************)
(* match_independent reads nothing but the baseline.                       *)
(***************************************************************************)
LEMMA BaselineDecides ==
  ASSUME NEW dis, NEW dis2, NEW c, \A l \in Baseline : dis2[l] = dis[l]
  PROVE  Independent(dis2, c) = Independent(dis, c)
<1>1. \A sig : NamesOf(dis2, sig, Baseline) = NamesOf(dis, sig, Baseline)
  BY DEF NamesOf
<1>2. \A n : LastSource(dis2, n) = LastSource(dis, n)
  <2> TAKE n
  <2>1. {k \in DOMAIN LibFiles : LibFiles[k] \in Baseline /\ \E s \in dis2[LibFiles[k]] : s.name = n}
      = {k \in DOMAIN LibFiles : LibFiles[k] \in Baseline /\ \E s \in dis[LibFiles[k]] : s.name = n}
    OBVIOUS
  <2> QED
    BY <2>1 DEF LastSource
<1>3. Matched(dis2, c, Baseline) = Matched(dis, c, Baseline)
  BY <1>1 DEF Matched
<1>4. Unambiguous(dis2, c) = Unambiguous(dis, c)
  BY <1>1, <1>3 DEF Unambiguous
<1> QED
  BY <1>1, <1>2, <1>4 DEF Independent

(***************************************************************************)
(* The baseline is disassembled from the start and stays.                  *)
(***************************************************************************)
LEMMA BaselineKept ==
  ASSUME BaselineThere, [Next]_vars
  PROVE  BaselineThere' /\ \A l \in Baseline : libdis'[l] = libdis[l]
<1>1. CASE DisasmLibs
  <2>1. PICK l \in ToSet(LibFiles) :
         libdis[l] = {} /\ \E symbols : libdis' = [libdis EXCEPT ![l] = symbols]
    BY <1>1 DEF DisasmLibs
  <2> QED
    BY <2>1 DEF BaselineThere
<1>2. CASE UNCHANGED libdis
  BY <1>2 DEF BaselineThere
<1> QED
  BY <1>1, <1>2 DEF Next, vars, inputs, BuildDb, MatchLibs, MechTag, Aggregate, BuildFuncdb,
     BuildMasterIndex, AggregateClassify, NewListing, Review, Journal

(***************************************************************************)
(* Chain2 is an invariant: the first chain shares only match_libs with the *)
(* second, and of the inputs only a listing or a journal concerns it.      *)
(***************************************************************************)
THEOREM Chain2Holds == Spec => [](BaselineThere /\ Chain2)
<1>1. Init => BaselineThere /\ Chain2
  BY PipelineAssumption DEF Init, BaselineThere, Chain2
<1>2. BaselineThere /\ Chain2 /\ [Next]_vars => (BaselineThere /\ Chain2)'
  <2> SUFFICES ASSUME BaselineThere, Chain2, [Next]_vars PROVE Chain2'
    BY BaselineKept
  <2>1. Independent(libdis', code) = Independent(libdis, code)
    BY BaselineKept, BaselineDecides
  <2>2. CASE NewListing
    BY <2>2 DEF NewListing, Chain2
  <2>3. CASE MatchLibs
    BY <2>1, <2>3 DEF MatchLibs, inputs, Chain2
  <2>4. CASE BuildMasterIndex
    BY <2>1, <2>4 DEF BuildMasterIndex, Written, inputs, Chain2
  <2>5. CASE AggregateClassify
    BY <2>1, <2>5 DEF AggregateClassify, Written, inputs, Chain2
  <2>6. CASE Journal
    BY <2>1, <2>6 DEF Journal, Edit, files2, Chain2
  <2>7. CASE BuildFuncdb
    BY <2>1, <2>7 DEF BuildFuncdb, inputs, files2, Chain2
  <2>8. CASE UNCHANGED <<code, journal, files2, stage2>>
    BY <2>1, <2>8 DEF files2, Chain2
  <2> QED
    BY <2>2, <2>3, <2>4, <2>5, <2>6, <2>7, <2>8 DEF Next, vars, inputs, BuildDb, MechTag, Aggregate,
       DisasmLibs, Review, Edit
<1> QED
  BY <1>1, <1>2, PTL DEF Spec

----------------------------------------------------------------------------
(* What a run of a chain gives *)

(***************************************************************************)
(* The passes of mech_tag one after the other amount to the first rule     *)
(* that finds something.                                                   *)
(***************************************************************************)
LEMMA FirstRuleDecides ==
  ASSUME NEW r
  PROVE  LET found == {k \in 1 .. 4 : r[k] # None}
         IN /\ Passes(None, r) = IF found = {} THEN None ELSE r[Min(found)]
            /\ found # {} => r[Min(found)] # None
<1> DEFINE found == {k \in 1 .. 4 : r[k] # None}
<1>1. CASE r[1] # None
  <2>1. Min(found) = 1
    BY <1>1 DEF Min
  <2> QED
    BY <1>1, <2>1 DEF Passes, SetTag
<1>2. CASE r[1] = None /\ r[2] # None
  <2>1. Min(found) = 2
    BY <1>2 DEF Min
  <2> QED
    BY <1>2, <2>1 DEF Passes, SetTag
<1>3. CASE r[1] = None /\ r[2] = None /\ r[3] # None
  <2>1. Min(found) = 3
    BY <1>3 DEF Min
  <2> QED
    BY <1>3, <2>1 DEF Passes, SetTag
<1>4. CASE r[1] = None /\ r[2] = None /\ r[3] = None /\ r[4] # None
  <2>1. Min(found) = 4
    BY <1>4 DEF Min
  <2> QED
    BY <1>4, <2>1 DEF Passes, SetTag
<1>5. CASE r[1] = None /\ r[2] = None /\ r[3] = None /\ r[4] = None
  <2>1. found = {}
    BY <1>5
  <2> QED
    BY <1>5, <2>1 DEF Passes, SetTag
<1> QED
  BY <1>1, <1>2, <1>3, <1>4, <1>5

(***************************************************************************)
(* The label and the subsystem that the scripts compute in two steps are   *)
(* what the inputs say of a function.                                      *)
(***************************************************************************)
LEMMA MeantIs ==
  ASSUME NEW f \in Func
  PROVE  Meant(f) =
           [name |-> Lib(libdis, code, f),
            sub |-> IF f \in DOMAIN reviews THEN reviews[f]
                    ELSE IF Tag(libdis, code, f) = None THEN "UNKNOWN" ELSE Tag(libdis, code, f)]
<1> DEFINE names == NamesOf(libdis, code[f].sig, ToSet(LibFiles))
           lib == IF code[f].sig = None \/ names = {} THEN None ELSE Least(names)
           src == IF lib = None THEN None ELSE FirstSource(libdis, lib)
           r == Rules(code[f], lib, src)
           found == {k \in 1 .. 4 : r[k] # None}
<1>1. lib = Lib(libdis, code, f)
  BY DEF Lib, Hits, Matched
<1>2. r = Rules(code[f], Lib(libdis, code, f), Src(libdis, code, f))
  <2>1. CASE lib = None
    BY <1>1, <2>1 DEF Rules
  <2>2. CASE lib # None
    <3>1. src = Src(libdis, code, f)
      BY <1>1, <2>2 DEF Lib, Src
    <3> QED
      BY <1>1, <3>1
  <2> QED
    BY <2>1, <2>2
<1>3. /\ Passes(None, r) = IF found = {} THEN None ELSE r[Min(found)]
      /\ found # {} => r[Min(found)] # None
  BY FirstRuleDecides
<1>4. Tag(libdis, code, f) = Passes(None, r)
  BY <1>2 DEF Tag
<1>5. Meant(f) = [name |-> lib, sub |-> IF f \in DOMAIN reviews THEN reviews[f]
                                        ELSE IF found = {} THEN "UNKNOWN" ELSE r[Min(found)]]
  BY DEF Meant
<1> HIDE DEF names, lib, src, r, found
<1> QED
  BY <1>1, <1>3, <1>4, <1>5

(***************************************************************************)
(* A chain that was run in its order on the inputs there are gives what    *)
(* these inputs say, and lib_hits.json names the same.                     *)
(***************************************************************************)
THEOREM ChainsFollowInputs == Spec => []RunFollowsInputs
<1>1. ASSUME ReviewsOK, Chain, Chain2 PROVE RunFollowsInputs
  <2>1. ASSUME stage = "done", NEW f \in Func PROVE Rows(db)[f] = Meant(f)
    <3> DEFINE t == Tag(libdis, code, f)
    <3>1. db.lib[f] = Lib(libdis, code, f)
      BY <1>1, <2>1 DEF Chain
    <3>2. CASE f \in DOMAIN reviews
      <4>1. db.sub[f] = reviews[f] /\ reviews[f] # None
        BY <1>1, <2>1, <3>2, PipelineAssumption DEF Chain, ReviewsOK, Subsystems
      <4> QED
        BY <3>1, <3>2, <4>1, MeantIs DEF Rows
    <3>3. CASE f \notin DOMAIN reviews
      <4>1. db.sub[f] = t
        BY <1>1, <2>1, <3>3 DEF Chain
      <4> QED
        BY <3>1, <3>3, <4>1, MeantIs DEF Rows
    <3> QED
      BY <3>2, <3>3
  <2>2. ASSUME stage = "done", index # Unreadable PROVE index = [f \in Func |-> Meant(f)]
    <3>1. index = Rows(db)
      BY <1>1, <2>2 DEF Chain
    <3>2. Rows(db) = [f \in Func |-> Rows(db)[f]]
      BY DEF Rows
    <3> QED
      BY <2>1, <2>2, <3>1, <3>2
  <2>3. ASSUME stage = "done", hits # Unreadable
        PROVE  \A f \in Func : db.lib[f] = IF f \in DOMAIN hits THEN hits[f] ELSE None
    BY <1>1, <2>3 DEF Chain, Lib
  <2>4. ASSUME stage2 = "done", classified # Unreadable
        PROVE  classified = ClassifiedRows(MasterRows(Independent(libdis, code)), journal)
    BY <1>1, <2>4 DEF Chain2
  <2> QED
    BY <2>1, <2>2, <2>3, <2>4 DEF RunFollowsInputs
<1> QED
  BY <1>1, ReviewsTyped, ChainHolds, Chain2Holds, PTL

----------------------------------------------------------------------------
(* Types *)

JournalOK ==
  DOMAIN journal \subseteq Func /\ \A f \in DOMAIN journal : journal[f] \in Reviews

(***************************************************************************)
(* The first of some names is one of them.                                 *)
(***************************************************************************)
LEMMA LeastIsName ==
  ASSUME NEW names \in SUBSET Names, names # {}
  PROVE  Least(names) \in names
<1> DEFINE at == {k \in DOMAIN NameOrder : NameOrder[k] \in names}
<1>1. DOMAIN NameOrder = 1 .. Len(NameOrder) /\ Len(NameOrder) \in Nat
  BY PipelineAssumption
<1>2. PICK n \in names : TRUE
  OBVIOUS
<1>3. \E k \in DOMAIN NameOrder : NameOrder[k] = n
  BY <1>2 DEF Names, ToSet
<1>4. at \in SUBSET Nat /\ at # {}
  BY <1>1, <1>3
<1>5. Min(at) \in at
  <2> HIDE DEF at
  <2> QED BY <1>4, MinIsLeast
<1> QED BY <1>5 DEF Least

(***************************************************************************)
(* The source of a name is a library file.                                 *)
(***************************************************************************)
LEMMA SourceIsFile ==
  ASSUME NEW dis, NEW n, \E file \in ToSet(LibFiles) : \E s \in dis[file] : s.name = n
  PROVE  FirstSource(dis, n) \in ToSet(LibFiles)
<1> DEFINE at == {k \in DOMAIN LibFiles : \E s \in dis[LibFiles[k]] : s.name = n}
<1>1. DOMAIN LibFiles = 1 .. Len(LibFiles) /\ Len(LibFiles) \in Nat
  BY PipelineAssumption
<1>2. PICK file \in ToSet(LibFiles) : \E s \in dis[file] : s.name = n
  OBVIOUS
<1>3. \E k \in DOMAIN LibFiles : LibFiles[k] = file
  BY DEF ToSet
<1>4. at \in SUBSET Nat /\ at # {}
  BY <1>1, <1>2, <1>3
<1>5. Min(at) \in at
  <2> HIDE DEF at
  <2> QED BY <1>4, MinIsLeast
<1>6. LibFiles[Min(at)] \in ToSet(LibFiles)
  <2>1. Min(at) \in DOMAIN LibFiles
    BY <1>5
  <2> HIDE DEF at
  <2> QED BY <2>1 DEF ToSet
<1> QED BY <1>6 DEF FirstSource

(***************************************************************************)
(* So match_libs gives names, and with each the file it is from.           *)
(***************************************************************************)
LEMMA HitsTyped ==
  ASSUME NEW dis, NEW c, NEW f \in DOMAIN Hits(dis, c)
  PROVE  /\ f \in Func /\ Hits(dis, c)[f] \in Names
         /\ FirstSource(dis, Hits(dis, c)[f]) \in ToSet(LibFiles)
<1> DEFINE names == NamesOf(dis, c[f].sig, ToSet(LibFiles))
<1>1. f \in Func /\ Hits(dis, c)[f] = Least(names) /\ names # {}
  BY DEF Hits, Matched
<1>2. names \in SUBSET Names
  BY DEF NamesOf
<1>3. Least(names) \in names
  <2> HIDE DEF names
  <2> QED BY <1>1, <1>2, LeastIsName
<1>4. \E file \in ToSet(LibFiles) : \E s \in dis[file] : s.name = Least(names)
  BY <1>3 DEF NamesOf
<1>5. FirstSource(dis, Least(names)) \in ToSet(LibFiles)
  <2> HIDE DEF names
  <2> QED BY <1>4, SourceIsFile
<1> QED
  <2> HIDE DEF names
  <2> QED BY <1>1, <1>2, <1>3, <1>5

(***************************************************************************)
(* A rule gives a subsystem or nothing, and so do all of them.             *)
(***************************************************************************)
LEMMA PassesTyped ==
  ASSUME NEW sub \in Subsystems \cup {None}, NEW e, NEW lib, NEW src
  PROVE  Passes(sub, Rules(e, lib, src)) \in Subsystems \cup {None}
<1> DEFINE r == Rules(e, lib, src)
           T == Subsystems \cup {None}
<1>1. r[1] \in T /\ r[2] \in T /\ r[3] \in T /\ r[4] \in T
  BY DEF Rules, Subsystems
<1> HIDE DEF r, T
<1>2. \A s, t \in T : SetTag(s, t) \in T
  BY DEF SetTag
<1>3. Passes(sub, r) \in T
  BY <1>1, <1>2 DEF Passes, T
<1> QED BY <1>3 DEF r, T

(***************************************************************************)
(* aggregate_classify.py gives every function a subsystem.                 *)
(***************************************************************************)
LEMMA ClassifiedTyped ==
  ASSUME NEW m, NEW records, DOMAIN records \subseteq Func,
         \A f \in DOMAIN records : records[f] \in Reviews, NEW f \in Func
  PROVE  ClassifiedRows(m, records)[f].subsystem \in Subsystems
<1> DEFINE named == {x \in Func : m[x] # None}
           libs == [x \in named |-> IF m[x].src \in Math THEN "MATHLIB" ELSE "MEMLIB"]
<1>1. ClassifiedRows(m, records) = Classified(Func, records, libs)
  BY DEF ClassifiedRows
<1>2. \A x \in DOMAIN libs : libs[x] \in Subsystems
  BY DEF Subsystems
<1> HIDE DEF libs
<1>3. ClassifiedRows(m, records)[f] = Inferred(Func, records, libs, f)
  <2>1. Classified(Func, records, libs) = [x \in Func |-> Inferred(Func, records, libs, x)]
    BY PipelineAssumption, LocalityIs
  <2> QED BY <1>1, <2>1
<1>4. \A x : FirstPass(records, libs, x).subsystem \in Subsystems
  BY <1>2 DEF FirstPass, Subsystems
<1>5. \E x : Inferred(Func, records, libs, f).subsystem = FirstPass(records, libs, x).subsystem
  BY DEF Inferred
<1> QED BY <1>3, <1>4, <1>5

\* Row by row, what PipelineTypeOK says of a readable db.json
DbTyped(d) ==
  /\ d.code \in Code
  /\ \A f \in Func : d.lib[f] \in Names \cup {None}
  /\ \A f \in Func : d.sub[f] \in Subsystems \cup {None}
  /\ \A f \in Func : d.lib[f] = None <=> d.src[f] = None

(***************************************************************************)
(* The scripts of the first chain write rows of that kind.                 *)
(***************************************************************************)
LEMMA DbWritten ==
  ASSUME NEW d, DbTyped(d), NEW dis, NEW records,
         DOMAIN records \subseteq Func, \A f \in DOMAIN records : records[f] \in Reviews
  PROVE  /\ DbTyped(Labelled(d, Hits(dis, d.code), dis))
         /\ DbTyped(Database(d.code, d.lib, d.src, Tagged(d)))
         /\ DbTyped(Database(d.code, d.lib, d.src, Override(d, records)))
<1> USE DEF DbTyped
<1>1. DbTyped(Labelled(d, Hits(dis, d.code), dis))
  <2> DEFINE h == Hits(dis, d.code)
  <2>1. \A f \in DOMAIN h : /\ f \in Func /\ h[f] \in Names /\ h[f] # None
                            /\ FirstSource(dis, h[f]) # None
    BY HitsTyped, PipelineAssumption
  <2> HIDE DEF h
  <2> QED BY <2>1 DEF Labelled, Database, h
<1>2. DbTyped(Database(d.code, d.lib, d.src, Tagged(d)))
  <2>1. \A f \in Func : Tagged(d)[f] \in Subsystems \cup {None}
    BY PassesTyped DEF Tagged
  <2> QED BY <2>1 DEF Database
<1>3. DbTyped(Database(d.code, d.lib, d.src, Override(d, records)))
  <2>1. \A f \in Func : Override(d, records)[f] \in Subsystems \cup {None}
    BY DEF Override, Subsystems
  <2> QED BY <2>1 DEF Database
<1> QED BY <1>1, <1>2, <1>3

TypeInv == code \in Code /\ ReviewsOK /\ JournalOK /\ PipelineTypeOK

(***************************************************************************)
(* A file that can be read holds one whole result: names with their        *)
(* sources, and a subsystem in every row of both indexes.                  *)
(***************************************************************************)
THEOREM FilesTyped == Spec => []PipelineTypeOK
<1>1. Init => TypeInv
  BY PipelineAssumption DEF Init, TypeInv, ReviewsOK, JournalOK, PipelineTypeOK
<1>2. TypeInv /\ [Next]_vars => TypeInv'
  <2> SUFFICES ASSUME TypeInv, [Next]_vars PROVE TypeInv'
    OBVIOUS
  <2>1. (code \in Code)'
    BY DEF TypeInv, Next, vars, inputs, BuildDb, MatchLibs, MechTag, Aggregate, BuildFuncdb,
       BuildMasterIndex, AggregateClassify, NewListing, DisasmLibs, Review, Journal
  <2>2. ReviewsOK' /\ JournalOK'
    <3>1. CASE Review
      BY <3>1 DEF Review, Decided, TypeInv, ReviewsOK, JournalOK
    <3>2. CASE Journal
      BY <3>2 DEF Journal, Decided, TypeInv, ReviewsOK, JournalOK
    <3>3. CASE UNCHANGED <<reviews, journal>>
      BY <3>3 DEF TypeInv, ReviewsOK, JournalOK
    <3> QED
      BY <3>1, <3>2, <3>3 DEF Next, vars, inputs, BuildDb, MatchLibs, MechTag, Aggregate,
         BuildFuncdb, BuildMasterIndex, AggregateClassify, NewListing, DisasmLibs
  <2>3. (db # Unreadable => DbTyped(db))'
    <3>0. db # Unreadable => DbTyped(db)
      BY DEF TypeInv, PipelineTypeOK, DbTyped
    <3>1. CASE BuildDb
      BY <3>1 DEF BuildDb, Written, Database, Nowhere, DbTyped, TypeInv
    <3>2. CASE MatchLibs
      <4>1. db' = db \/ db' = Unreadable \/ db' = Labelled(db, Hits(libdis, db.code), libdis)
        BY <3>2 DEF MatchLibs
      <4>2. db # Unreadable
        BY <3>2 DEF MatchLibs
      <4> QED BY <3>0, <4>1, <4>2, DbWritten DEF TypeInv, ReviewsOK
    <3>3. CASE MechTag
      <4>1. db # Unreadable /\ db' \in {Unreadable, Database(db.code, db.lib, db.src, Tagged(db))}
        BY <3>3 DEF MechTag
      <4> QED BY <3>0, <4>1, DbWritten DEF TypeInv, ReviewsOK
    <3>4. CASE Aggregate
      <4>1. /\ db # Unreadable
            /\ db' \in {db, Unreadable, Database(db.code, db.lib, db.src, Override(db, reviews))}
        BY <3>4 DEF Aggregate
      <4> QED BY <3>0, <4>1, DbWritten DEF TypeInv, ReviewsOK
    <3>5. CASE UNCHANGED db
      BY <3>0, <3>5
    <3> QED
      BY <3>1, <3>2, <3>3, <3>4, <3>5 DEF Next, vars, files, BuildFuncdb, BuildMasterIndex,
         AggregateClassify, NewListing, DisasmLibs, Review, Journal, Edit
  <2>4. (index # Unreadable => \A f \in Func : index[f].sub \in Subsystems)'
    <3>1. CASE Aggregate
      <4> DEFINE d == Database(db.code, db.lib, db.src, Override(db, reviews))
      <4>1. index' = Unreadable \/ index' = Rows(d)
        BY <3>1 DEF Aggregate
      <4>2. DbTyped(d)
        BY <3>1, DbWritten DEF Aggregate, TypeInv, PipelineTypeOK, DbTyped, ReviewsOK
      <4> HIDE DEF d
      <4> QED BY <4>1, <4>2 DEF Rows, DbTyped, Subsystems
    <3>2. CASE UNCHANGED index
      BY <3>2 DEF TypeInv, PipelineTypeOK
    <3> QED
      BY <3>1, <3>2 DEF Next, vars, files, BuildDb, MatchLibs, MechTag, BuildFuncdb,
         BuildMasterIndex, AggregateClassify, NewListing, DisasmLibs, Review, Journal, Edit
  <2>5. (classified # Unreadable => \A f \in Func : classified[f].subsystem \in Subsystems)'
    <3>1. CASE AggregateClassify
      <4>1. classified' = Unreadable \/ classified' = ClassifiedRows(master, journal)
        BY <3>1 DEF AggregateClassify, Written
      <4> QED BY <4>1, ClassifiedTyped DEF TypeInv, JournalOK
    <3>2. CASE UNCHANGED classified
      BY <3>2 DEF TypeInv, PipelineTypeOK
    <3> QED
      BY <3>1, <3>2 DEF Next, vars, files2, BuildDb, MatchLibs, MechTag, Aggregate, BuildFuncdb,
         BuildMasterIndex, NewListing, DisasmLibs, Review, Journal, Edit
  <2>6. (edits \in 0 .. MaxEdits)'
    <3>1. edits' = edits \/ (edits < MaxEdits /\ edits' = edits + 1)
      BY DEF Next, vars, BuildDb, MatchLibs, MechTag, Aggregate, BuildFuncdb, BuildMasterIndex,
         AggregateClassify, NewListing, DisasmLibs, Review, Journal, Edit
    <3> QED BY <3>1, PipelineAssumption DEF TypeInv, PipelineTypeOK
  <2> QED BY <2>1, <2>2, <2>3, <2>4, <2>5, <2>6 DEF TypeInv, PipelineTypeOK, DbTyped
<1>3. TypeInv => PipelineTypeOK
  BY DEF TypeInv
<1> QED BY <1>1, <1>2, <1>3, PTL DEF Spec

=============================================================================
