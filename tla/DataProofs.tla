----------------------------- MODULE DataProofs -----------------------------
(***************************************************************************)
(* What the proofs about the algorithms share: induction, folds, numbers   *)
(* and their digits, and sequences.                                        *)
(*                                                                         *)
(* All of it is induction over data, which the prover does not have.  It   *)
(* is made first-order here: the library proves that strict inclusion is   *)
(* well-founded on finite sets; from a minimal element of that order come  *)
(* least and greatest numbers, induction over numbers, subsets and         *)
(* sequences, and that the functions exist which folds are defined by.     *)
(*                                                                         *)
(* A sequence of places is a number, and regrouping its bits leaves the    *)
(* number as it is.  Of two numbers that differ in a few places next to    *)
(* each other, the sums of the digits tell.                                *)
(***************************************************************************)
EXTENDS Bits, FiniteSets, FiniteSetsExt, TLAPS,
        FunctionTheorems, FiniteSetTheorems, SequenceTheorems

(***************************************************************************)
(* Every nonempty collection of finite subsets has a member that contains  *)
(* no other.                                                               *)
(***************************************************************************)
LEMMA SmallestSet ==
  ASSUME NEW T, T # {}, \A x \in T : IsFiniteSet(x)
  PROVE  \E x \in T : \A y \in T : y \subseteq x => y = x
<1> DEFINE R == StrictSubsetOrdering(UNION T)
<1>1. T \subseteq FiniteSubsetsOf(UNION T)
  BY DEF FiniteSubsetsOf
<1>2. IsWellFoundedOn(R, FiniteSubsetsOf(UNION T))
  BY FS_StrictSubsetOrderingWellFounded
<1>3. \E x \in T : \A y \in T : ~ (<<y, x>> \in R)
  <2> HIDE DEF R
  <2> QED BY <1>1, <1>2, WFMin
<1>4. \A x, y \in T : y \subseteq x /\ y # x => <<y, x>> \in R
  BY DEF StrictSubsetOrdering
<1> HIDE DEF R
<1> QED BY <1>3, <1>4

(***************************************************************************)
(* A set of natural numbers that is not empty has a least element: of the  *)
(* intervals 0 .. n below its elements one contains no other.              *)
(***************************************************************************)
LEMMA LeastNatural ==
  ASSUME NEW S \in SUBSET Nat, S # {}
  PROVE  \E m \in S : \A n \in S : m <= n
<1> DEFINE T == {0 .. n : n \in S}
<1>1. \A n \in S : 0 .. n \in T /\ IsFiniteSet(0 .. n)
  BY FS_Interval
<1>2. T # {} /\ \A x \in T : IsFiniteSet(x)
  BY <1>1
<1>3. PICK x \in T : \A y \in T : y \subseteq x => y = x
  <2> HIDE DEF T
  <2> QED BY <1>2, SmallestSet
<1>4. PICK m \in S : x = 0 .. m
  OBVIOUS
<1>5. ASSUME NEW n \in S, n < m PROVE FALSE
  <2>1. 0 .. n \subseteq x
    BY <1>4, <1>5
  <2>2. 0 .. n = 0 .. m
    <3> HIDE DEF T
    <3> QED BY <1>1, <1>3, <1>4, <2>1
  <2>3. m \in 0 .. m /\ m \notin 0 .. n
    BY <1>5
  <2> QED BY <2>2, <2>3
<1> QED BY <1>5

(***************************************************************************)
(* A finite set of natural numbers that is not empty has a greatest        *)
(* element: one with the fewest above it.                                  *)
(***************************************************************************)
LEMMA GreatestNatural ==
  ASSUME NEW S \in SUBSET Nat, S # {}, IsFiniteSet(S)
  PROVE  \E m \in S : \A n \in S : m >= n
<1> DEFINE Above(x) == {y \in S : y > x}
           T == {Above(x) : x \in S}
<1>1. \A x \in S : Above(x) \in T /\ IsFiniteSet(Above(x))
  <2> SUFFICES ASSUME NEW x \in S PROVE IsFiniteSet(Above(x))
    OBVIOUS
  <2> Above(x) \in SUBSET S
    OBVIOUS
  <2> QED BY FS_Subset
<1>2. T # {} /\ \A x \in T : IsFiniteSet(x)
  BY <1>1
<1>3. PICK a \in T : \A b \in T : b \subseteq a => b = a
  <2> HIDE DEF T
  <2> QED BY <1>2, SmallestSet
<1>4. PICK m \in S : a = Above(m)
  OBVIOUS
<1>5. ASSUME NEW n \in S, n > m PROVE FALSE
  <2>1. Above(n) \in T /\ Above(n) \subseteq Above(m)
    <3>1. n > m /\ n \in Int /\ m \in Int
      BY <1>5
    <3>2. \A y \in S : y \in Int /\ (y > n => y > m)
      BY <3>1
    <3> QED BY <3>2, <1>1
  <2>2. Above(n) = Above(m)
    <3> HIDE DEF T, Above
    <3> QED BY <1>3, <1>4, <2>1
  <2>3. n \in Above(m) /\ n \notin Above(n)
    BY <1>5
  <2> QED BY <2>2, <2>3
<1> QED BY <1>5

(***************************************************************************)
(* Min and Max of the community modules, which are CHOOSEs, are these.     *)
(***************************************************************************)
LEMMA MinIsLeast ==
  ASSUME NEW S \in SUBSET Nat, S # {}
  PROVE  Min(S) \in S /\ \A n \in S : Min(S) <= n
BY LeastNatural DEF Min

(***************************************************************************)
(* The same of Max, which needs a finite set.                              *)
(***************************************************************************)
LEMMA MaxIsGreatest ==
  ASSUME NEW S \in SUBSET Nat, S # {}, IsFiniteSet(S)
  PROVE  Max(S) \in S /\ \A n \in S : Max(S) >= n
BY GreatestNatural DEF Max

(***************************************************************************)
(* Induction, for a set of natural numbers.                                *)
(***************************************************************************)
LEMMA Induct ==
  ASSUME NEW S, 0 \in S, \A n \in Nat : n \in S => n + 1 \in S
  PROVE  Nat \subseteq S
<1> SUFFICES ASSUME Nat \ S # {} PROVE FALSE
  OBVIOUS
<1>1. PICK m \in Nat \ S : \A n \in Nat \ S : m <= n
  BY LeastNatural
<1>2. m - 1 \in Nat /\ m - 1 \in S
  BY <1>1
<1> QED BY <1>1, <1>2

(***************************************************************************)
(* Induction, for a collection of finite sets: a set belongs to it when    *)
(* one of its elements can be removed to leave a member.                   *)
(***************************************************************************)
LEMMA InductSets ==
  ASSUME NEW S, IsFiniteSet(S), NEW F, {} \in F,
         \A T \in SUBSET S : T # {} => \E x \in T : T \ {x} \in F => T \in F
  PROVE  SUBSET S \subseteq F
<1> DEFINE Bad == (SUBSET S) \ F
<1> SUFFICES ASSUME Bad # {} PROVE FALSE
  OBVIOUS
<1>1. \A T \in Bad : IsFiniteSet(T)
  BY FS_Subset
<1>2. PICK T \in Bad : \A U \in Bad : U \subseteq T => U = T
  <2> HIDE DEF Bad
  <2> QED BY <1>1, SmallestSet
<1>3. PICK x \in T : T \ {x} \in F => T \in F
  OBVIOUS
<1>4. T \ {x} \in SUBSET S /\ T \ {x} \notin F
  BY <1>3
<1> QED BY <1>2, <1>4

----------------------------------------------------------------------------
(* Folds *)

\* g[s] is what is left of base after the places s, in their order.
IsFold(g, n, base, step) ==
  g = [s \in SUBSET (1 .. n) |-> IF s = {} THEN base ELSE step[<<g[s \ {Max(s)}], Max(s)>>]]

(***************************************************************************)
(* The function by which the community modules define a fold is a CHOOSE.  *)
(* There is one for any step on a set of states.                           *)
(***************************************************************************)
LEMMA FoldExists ==
  ASSUME NEW n \in Nat, NEW States, NEW base \in States, NEW step \in [States \X (1 .. n) -> States]
  PROVE  \E g \in [SUBSET (1 .. n) -> States] : IsFold(g, n, base, step)
<1> DEFINE Has(m) == \E g \in [SUBSET (1 .. m) -> States] : IsFold(g, m, base, step)
           S == {m \in Nat : m <= n => Has(m)}
<1>1. 0 \in S
  <2> DEFINE g == [s \in SUBSET (1 .. 0) |-> base]
  <2>1. \A s \in SUBSET (1 .. 0) : s = {}
    OBVIOUS
  <2>2. IsFold(g, 0, base, step)
    BY <2>1 DEF IsFold
  <2> QED BY <2>2
<1>2. ASSUME NEW m \in Nat, m \in S PROVE m + 1 \in S
  <2> SUFFICES ASSUME m + 1 <= n PROVE Has(m + 1)
    <3> HIDE DEF Has
    <3> QED OBVIOUS
  <2>0. Has(m)
    <3> HIDE DEF Has
    <3> QED BY <1>2
  <2>1. PICK g \in [SUBSET (1 .. m) -> States] : IsFold(g, m, base, step)
    BY <2>0
  <2> HIDE DEF S
  <2> DEFINE D == SUBSET (1 .. m + 1)
             h == [s \in D |-> IF m + 1 \in s THEN step[<<g[s \ {m + 1}], m + 1>>] ELSE g[s]]
  <2>2. \A s \in D : s \ {m + 1} \in SUBSET (1 .. m) /\ (m + 1 \notin s => s \in SUBSET (1 .. m))
    OBVIOUS
  <2>3. h \in [D -> States]
    <3>1. \A s \in D : g[s \ {m + 1}] \in States /\ (m + 1 \notin s => g[s] \in States)
      BY <2>1, <2>2
    <3>2. m + 1 \in 1 .. n
      OBVIOUS
    <3> HIDE DEF D
    <3> QED BY <3>1, <3>2
  <2>4. ASSUME NEW s \in D, s # {}
        PROVE  Max(s) \in s /\ (m + 1 \in s => Max(s) = m + 1)
    <3>1. s \in SUBSET Nat /\ IsFiniteSet(s) /\ \A x \in s : x <= m + 1
      <4>1. IsFiniteSet(1 .. m + 1)
        BY FS_Interval
      <4>2. IsFiniteSet(s)
        BY <4>1, FS_Subset
      <4>3. \A x \in s : x \in 1 .. m + 1
        OBVIOUS
      <4> HIDE DEF D
      <4> QED BY <4>2, <4>3
    <3>2. Max(s) \in s /\ \A x \in s : Max(s) >= x
      BY <2>4, <3>1, MaxIsGreatest
    <3>3. ASSUME m + 1 \in s PROVE Max(s) = m + 1
      <4>1. Max(s) \in Nat /\ Max(s) <= m + 1 /\ Max(s) >= m + 1
        BY <3>1, <3>2, <3>3
      <4> QED BY <4>1
    <3> HIDE DEF D
    <3> QED BY <3>2, <3>3
  <2>5. ASSUME NEW s \in D
        PROVE  h[s] = IF s = {} THEN base ELSE step[<<h[s \ {Max(s)}], Max(s)>>]
    <3>0. s \ {Max(s)} \in D
      OBVIOUS
    <3>1. CASE m + 1 \in s
      <4>1. Max(s) = m + 1 /\ s # {}
        BY <2>4, <3>1
      <4>2. h[s] = step[<<g[s \ {m + 1}], m + 1>>]
        BY <3>1
      <4>3. h[s \ {m + 1}] = g[s \ {m + 1}]
        BY <3>0, <4>1
      <4> HIDE DEF h
      <4> QED BY <4>1, <4>2, <4>3
    <3>2. CASE m + 1 \notin s
      <4>1. h[s] = g[s] /\ h[s \ {Max(s)}] = g[s \ {Max(s)}]
        BY <3>0, <3>2
      <4>2. s \in SUBSET (1 .. m)
        BY <2>2, <3>2
      <4>3. g[s] = IF s = {} THEN base ELSE step[<<g[s \ {Max(s)}], Max(s)>>]
        BY <2>1, <4>2, Zenon DEF IsFold
      <4> HIDE DEF h
      <4> QED BY <4>1, <4>3
    <3> QED BY <3>1, <3>2
  <2>6. IsFold(h, m + 1, base, step)
    <3>1. h = [s \in D |-> h[s]]
      BY <2>3
    <3> HIDE DEF h
    <3> QED BY <2>5, <3>1 DEF IsFold, D
  <2> QED
    <3> HIDE DEF h
    <3> QED BY <2>3, <2>6
<1>3. n \in S
  <2> HIDE DEF S
  <2> QED BY <1>1, <1>2, Induct
<1>4. Has(n)
  <2> HIDE DEF Has
  <2> QED BY <1>3
<1> QED BY <1>4

(***************************************************************************)
(* A fold takes the places one by one, in their order.                     *)
(***************************************************************************)
LEMMA LastPlace ==
  ASSUME NEW k \in Nat \ {0}
  PROVE  1 .. k # {} /\ Max(1 .. k) = k /\ (1 .. k) \ {k} = 1 .. k - 1
<1>1. k \in 1 .. k /\ \A x \in 1 .. k : k >= x
  OBVIOUS
<1>2. 1 .. k \in SUBSET Nat /\ IsFiniteSet(1 .. k)
  BY FS_Interval
<1>3. Max(1 .. k) \in 1 .. k /\ \A x \in 1 .. k : Max(1 .. k) >= x
  BY <1>1, <1>2, MaxIsGreatest
<1> QED BY <1>1, <1>3

(***************************************************************************)
(* The last of some places.                                                *)
(***************************************************************************)
LEMMA Places ==
  ASSUME NEW n \in Nat, NEW s \in SUBSET (1 .. n), s # {}
  PROVE  Max(s) \in s /\ Max(s) \in 1 .. n /\ s \ {Max(s)} \in SUBSET (1 .. n)
<1>1. IsFiniteSet(1 .. n)
  BY FS_Interval
<1>2. IsFiniteSet(s)
  BY <1>1, FS_Subset
<1>3. s \in SUBSET Nat
  OBVIOUS
<1>4. Max(s) \in s
  BY <1>2, <1>3, MaxIsGreatest
<1> QED BY <1>4

----------------------------------------------------------------------------
(* Folds of sequences *)

(***************************************************************************)
(* Induction, for a set of sequences.                                      *)
(***************************************************************************)
LEMMA InductSeq ==
  ASSUME NEW X, NEW S, <<>> \in S, \A s \in Seq(X), x \in X : s \in S => Append(s, x) \in S
  PROVE  Seq(X) \subseteq S
<1> DEFINE L == {n \in Nat : \A s \in Seq(X) : Len(s) = n => s \in S}
<1>1. 0 \in L
  <2>1. \A s \in Seq(X) : Len(s) = 0 => s = <<>>
    OBVIOUS
  <2> QED BY <2>1
<1>2. ASSUME NEW n \in Nat, n \in L PROVE n + 1 \in L
  <2> SUFFICES ASSUME NEW s \in Seq(X), Len(s) = n + 1 PROVE s \in S
    OBVIOUS
  <2> DEFINE t == SubSeq(s, 1, n)
  <2>1. t \in Seq(X) /\ Len(t) = n /\ s[n + 1] \in X
    OBVIOUS
  <2>2. s = Append(t, s[n + 1])
    <3>1. Len(Append(t, s[n + 1])) = n + 1 /\ Append(t, s[n + 1]) \in Seq(X)
      BY <2>1
    <3>2. \A k \in 1 .. n + 1 : Append(t, s[n + 1])[k] = s[k]
      BY <2>1
    <3> QED BY <3>1, <3>2
  <2>3. t \in S
    BY <1>2, <2>1
  <2> HIDE DEF t
  <2> QED BY <2>1, <2>2, <2>3
<1> HIDE DEF L
<1>3. Nat \subseteq L
  BY <1>1, <1>2, Induct
<1>4. ASSUME NEW s \in Seq(X) PROVE s \in S
  <2>1. Len(s) \in Nat
    OBVIOUS
  <2> QED BY <1>3, <2>1 DEF L
<1> QED BY <1>4

\* p goes from the base over the places of s, one step at each.
Walks(p, step, base, s, States) ==
  /\ p \in [0 .. Len(s) -> States] /\ p[0] = base
  /\ \A k \in 1 .. Len(s) : p[k] = step[<<p[k - 1], s[k]>>]

(***************************************************************************)
(* Over every sequence there is a walk.                                    *)
(***************************************************************************)
LEMMA WalkExists ==
  ASSUME NEW X, NEW States, NEW base \in States, NEW step \in [States \X X -> States], NEW s \in Seq(X)
  PROVE  \E p : Walks(p, step, base, s, States)
<1> DEFINE S == {t \in Seq(X) : \E p : Walks(p, step, base, t, States)}
<1>1. <<>> \in S
  <2> DEFINE p == [k \in 0 .. 0 |-> base]
  <2>1. Walks(p, step, base, <<>>, States)
    BY DEF Walks
  <2> QED BY <2>1
<1>2. ASSUME NEW t \in Seq(X), NEW x \in X, t \in S PROVE Append(t, x) \in S
  <2>1. PICK p : Walks(p, step, base, t, States)
    BY <1>2
  <2> DEFINE n == Len(t)
             u == Append(t, x)
             q == [k \in 0 .. n + 1 |-> IF k = n + 1 THEN step[<<p[n], x>>] ELSE p[k]]
  <2>2. n = Len(t) /\ n \in Nat /\ Len(u) = n + 1 /\ u[n + 1] = x /\ \A k \in 1 .. n : u[k] = t[k]
    OBVIOUS
  <2>7. u \in Seq(X)
    OBVIOUS
  <2> HIDE DEF n, u
  <2>3. p \in [0 .. n -> States] /\ step[<<p[n], x>>] \in States
    BY <2>1, <2>2 DEF Walks
  <2>4. q \in [0 .. n + 1 -> States] /\ q[0] = base
    BY <2>1, <2>2, <2>3 DEF Walks
  <2>5. \A k \in 1 .. n + 1 : q[k] = step[<<q[k - 1], u[k]>>]
    <3>1. q[n + 1] = step[<<q[n], u[n + 1]>>]
      <4>1. n + 1 \in 0 .. n + 1 /\ n \in 0 .. n + 1 /\ n # n + 1
        BY <2>2
      <4>2. q[n + 1] = step[<<p[n], x>>] /\ q[n] = p[n]
        BY <4>1
      <4> HIDE DEF q
      <4> QED BY <2>2, <4>2
    <3>2. ASSUME NEW k \in 1 .. n PROVE q[k] = p[k] /\ q[k - 1] = p[k - 1] /\ u[k] = t[k]
      BY <2>2
    <3>3. \A k \in 1 .. n : p[k] = step[<<p[k - 1], t[k]>>]
      BY <2>1, <2>2 DEF Walks
    <3>4. \A k \in 1 .. n + 1 : k \in 1 .. n \/ k = n + 1
      BY <2>2
    <3>5. (n + 1) - 1 = n
      BY <2>2
    <3> HIDE DEF q
    <3> QED BY <3>1, <3>2, <3>3, <3>4, <3>5
  <2>6. Walks(q, step, base, u, States)
    <3> HIDE DEF q
    <3> QED BY <2>2, <2>4, <2>5 DEF Walks
  <2> QED BY <2>6, <2>7 DEF u
<1> HIDE DEF S
<1>3. Seq(X) \subseteq S
  BY <1>1, <1>2, InductSeq
<1> QED BY <1>3 DEF S

EndsWalks(F, step, base, X, States) ==
  \A s \in Seq(X) : \A p : Walks(p, step, base, s, States) => F[s] = p[Len(s)]

Unfolds(F, step, base, X, States) ==
  /\ F[<<>>] = base
  /\ \A s \in Seq(X) : F[s] \in States /\ \A x \in X : F[Append(s, x)] = step[<<F[s], x>>]

(***************************************************************************)
(* What is at the end of every walk can be unfolded at its last step.      *)
(***************************************************************************)
LEMMA WalksUnfold ==
  ASSUME NEW X, NEW States, NEW base \in States, NEW step \in [States \X X -> States],
         NEW F, EndsWalks(F, step, base, X, States)
  PROVE  Unfolds(F, step, base, X, States)
<1>0. \A s \in Seq(X) : \A p : Walks(p, step, base, s, States) => F[s] = p[Len(s)]
  BY DEF EndsWalks
<1>1. F[<<>>] = base
  <2>2. <<>> \in Seq(X) /\ Len(<<>>) = 0
    OBVIOUS
  <2>1. PICK p : Walks(p, step, base, <<>>, States)
    BY <2>2, WalkExists
  <2> QED BY <1>0, <2>1, <2>2 DEF Walks
<1>2. ASSUME NEW s \in Seq(X) PROVE F[s] \in States
  <2>1. PICK p : Walks(p, step, base, s, States)
    BY WalkExists
  <2>2. F[s] = p[Len(s)] /\ Len(s) \in 0 .. Len(s)
    BY <1>0, <2>1
  <2> QED BY <2>1, <2>2 DEF Walks
<1>3. ASSUME NEW s \in Seq(X), NEW x \in X PROVE F[Append(s, x)] = step[<<F[s], x>>]
  <2> DEFINE n == Len(s)
             u == Append(s, x)
  <2>1. n \in Nat /\ u \in Seq(X) /\ Len(u) = n + 1 /\ u[n + 1] = x /\ \A k \in 1 .. n : u[k] = s[k]
    OBVIOUS
  <2> HIDE DEF u
  <2>2. PICK p : Walks(p, step, base, u, States)
    BY <2>1, WalkExists
  <2> DEFINE q == [k \in 0 .. n |-> p[k]]
  <2>3. p \in [0 .. n + 1 -> States] /\ p[0] = base /\ \A k \in 1 .. n + 1 : p[k] = step[<<p[k - 1], u[k]>>]
    BY <2>1, <2>2 DEF Walks
  <2>4. q \in [0 .. n -> States] /\ q[0] = base
    BY <2>1, <2>3
  <2>5. \A k \in 1 .. n : q[k] = p[k] /\ q[k - 1] = p[k - 1]
    BY <2>1
  <2>6. q[n] = p[n]
    BY <2>1
  <2> HIDE DEF q
  <2>7. Walks(q, step, base, s, States)
    BY <2>1, <2>3, <2>4, <2>5 DEF Walks
  <2>8. F[s] = q[n] /\ F[u] = p[n + 1]
    BY <1>0, <2>1, <2>2, <2>7
  <2>9. p[n + 1] = step[<<p[n], x>>]
    BY <2>1, <2>3
  <2> QED BY <2>6, <2>8, <2>9 DEF u
<1> QED BY <1>1, <1>2, <1>3 DEF Unfolds

IsSumming(g, s) ==
  g = [t \in SUBSET DOMAIN s |-> IF t = {} THEN 0 ELSE g[t \ {Max(t)}] + s[Max(t)]]

(***************************************************************************)
(* A sum is taken place by place.                                          *)
(***************************************************************************)
LEMMA SumUnfolds ==
  ASSUME NEW X, NEW States, 0 \in States, \A st \in States, x \in X : st + x \in States
  PROVE  /\ Sum(<<>>) = 0
         /\ \A s \in Seq(X) : Sum(s) \in States /\ \A x \in X : Sum(Append(s, x)) = Sum(s) + x
<1> DEFINE step == [y \in States \X X |-> y[1] + y[2]]
           F == [s \in Seq(X) |-> Sum(s)]
<1>1. step \in [States \X X -> States] /\ \A st \in States, x \in X : step[<<st, x>>] = st + x
  OBVIOUS
<1> HIDE DEF step
<1>2. ASSUME NEW s \in Seq(X), NEW p, Walks(p, step, 0, s, States) PROVE Sum(s) = p[Len(s)]
  <2> DEFINE n == Len(s)
             turn == [y \in States \X (1 .. n) |-> step[<<y[1], s[y[2]]>>]]
             h == CHOOSE g : IsSumming(g, s)
  <2>0. n = Len(s) /\ n \in Nat /\ DOMAIN s = 1 .. n /\ \A k \in 1 .. n : s[k] \in X
    OBVIOUS
  <2>1. Sum(s) = h[DOMAIN s]
    BY Zenon DEF Sum, FoldLeft, MapThenFoldSet, IsSumming
  <2> HIDE DEF n
  <2>2. turn \in [States \X (1 .. n) -> States]
    BY <1>1, <2>0
  <2>3. PICK g \in [SUBSET (1 .. n) -> States] : IsFold(g, n, 0, turn)
    <3> HIDE DEF turn
    <3> QED BY <2>0, <2>2, FoldExists
  <2>4. IsSumming(g, s)
    <3>1. \A t \in SUBSET (1 .. n) : t # {} => Max(t) \in 1 .. n /\ t \ {Max(t)} \in SUBSET (1 .. n)
      BY <2>0, Places
    <3>2. \A t \in SUBSET (1 .. n) : t # {} =>
            turn[<<g[t \ {Max(t)}], Max(t)>>] = g[t \ {Max(t)}] + s[Max(t)]
      BY <1>1, <2>0, <3>1
    <3> HIDE DEF turn
    <3>3. g = [t \in SUBSET (1 .. n) |-> IF t = {} THEN 0 ELSE turn[<<g[t \ {Max(t)}], Max(t)>>]]
      BY <2>3, Zenon DEF IsFold
    <3>4. g = [t \in SUBSET DOMAIN s |-> IF t = {} THEN 0 ELSE g[t \ {Max(t)}] + s[Max(t)]]
      BY <2>0, <3>2, <3>3
    <3> QED BY <3>4, Zenon DEF IsSumming
  <2>5. \A t \in SUBSET (1 .. n) : h[t] = IF t = {} THEN 0 ELSE h[t \ {Max(t)}] + s[Max(t)]
    <3>1. IsSumming(h, s)
      BY <2>4, Zenon
    <3> HIDE DEF h
    <3>2. h = [t \in SUBSET DOMAIN s |-> IF t = {} THEN 0 ELSE h[t \ {Max(t)}] + s[Max(t)]]
      BY <3>1, Zenon DEF IsSumming
    <3> QED BY <2>0, <3>2
  <2> HIDE DEF h
  <2> DEFINE S == {k \in Nat : k <= n => h[1 .. k] = p[k]}
  <2>6. 0 \in S
    <3>1. 1 .. 0 = {} /\ {} \in SUBSET (1 .. n)
      BY <2>0
    <3> QED BY <1>2, <2>0, <2>5, <3>1 DEF Walks
  <2>7. ASSUME NEW k \in Nat, k \in S PROVE k + 1 \in S
    <3> SUFFICES ASSUME k + 1 <= n PROVE h[1 .. k + 1] = p[k + 1]
      OBVIOUS
    <3>1. k + 1 \in 1 .. n /\ k + 1 \in Nat \ {0} /\ (k + 1) - 1 = k /\ k \in 0 .. n /\ 1 .. k + 1 \in SUBSET (1 .. n)
      BY <2>0
    <3>2. 1 .. k + 1 # {} /\ Max(1 .. k + 1) = k + 1 /\ (1 .. k + 1) \ {k + 1} = 1 .. k
      BY <3>1, LastPlace
    <3>3. h[1 .. k + 1] = h[1 .. k] + s[k + 1]
      <4>1. h[1 .. k + 1] = h[(1 .. k + 1) \ {Max(1 .. k + 1)}] + s[Max(1 .. k + 1)]
        BY <2>5, <3>1, <3>2
      <4> QED BY <3>2, <4>1
    <3>4. h[1 .. k] = p[k]
      BY <2>0, <2>7, <3>1
    <3>5. p[k] \in States /\ p[k + 1] = step[<<p[k], s[k + 1]>>]
      BY <1>2, <2>0, <3>1 DEF Walks
    <3>6. s[k + 1] \in X
      BY <2>0, <3>1
    <3>7. p[k + 1] = p[k] + s[k + 1]
      BY <1>1, <3>5, <3>6
    <3> QED BY <3>3, <3>4, <3>7
  <2> HIDE DEF S
  <2>8. Nat \subseteq S
    BY <2>6, <2>7, Induct
  <2>9. h[1 .. n] = p[n]
    BY <2>0, <2>8 DEF S
  <2> QED BY <2>0, <2>1, <2>9
<1>3. \A s \in Seq(X) : F[s] = Sum(s)
  OBVIOUS
<1> HIDE DEF F
<1>4. EndsWalks(F, step, 0, X, States)
  BY <1>2, <1>3 DEF EndsWalks
<1>5. Unfolds(F, step, 0, X, States)
  BY <1>1, <1>4, WalksUnfold
<1>6. <<>> \in Seq(X) /\ \A s \in Seq(X), x \in X : Append(s, x) \in Seq(X)
  OBVIOUS
<1>7. F[<<>>] = Sum(<<>>) /\ \A s \in Seq(X), x \in X : F[Append(s, x)] = Sum(Append(s, x))
  BY <1>3, <1>6
<1> QED BY <1>1, <1>3, <1>5, <1>7 DEF Unfolds

IsRegrouping(g, from, to, s) ==
  g = [t \in SUBSET DOMAIN s |-> IF t = {} THEN [out |-> <<>>, acc |-> 0, nb |-> 0] ELSE Take(g[t \ {Max(t)}], s[Max(t)], from, to)]

(***************************************************************************)
(* So are bits regrouped, ...                                              *)
(***************************************************************************)
LEMMA RegroupUnfolds ==
  ASSUME NEW from, NEW to, NEW X, NEW States, [out |-> <<>>, acc |-> 0, nb |-> 0] \in States, \A st \in States, x \in X : Take(st, x, from, to) \in States
  PROVE  /\ Regroup(<<>>, from, to) = [out |-> <<>>, acc |-> 0, nb |-> 0]
         /\ \A s \in Seq(X) : Regroup(s, from, to) \in States /\ \A x \in X : Regroup(Append(s, x), from, to) = Take(Regroup(s, from, to), x, from, to)
<1> DEFINE step == [y \in States \X X |-> Take(y[1], y[2], from, to)]
           F == [s \in Seq(X) |-> Regroup(s, from, to)]
<1>1. step \in [States \X X -> States] /\ \A st \in States, x \in X : step[<<st, x>>] = Take(st, x, from, to)
  OBVIOUS
<1> HIDE DEF step
<1>2. ASSUME NEW s \in Seq(X), NEW p, Walks(p, step, [out |-> <<>>, acc |-> 0, nb |-> 0], s, States) PROVE Regroup(s, from, to) = p[Len(s)]
  <2> DEFINE n == Len(s)
             turn == [y \in States \X (1 .. n) |-> step[<<y[1], s[y[2]]>>]]
             h == CHOOSE g : IsRegrouping(g, from, to, s)
  <2>0. n = Len(s) /\ n \in Nat /\ DOMAIN s = 1 .. n /\ \A k \in 1 .. n : s[k] \in X
    OBVIOUS
  <2>1. Regroup(s, from, to) = h[DOMAIN s]
    BY Zenon DEF Regroup, FoldLeft, MapThenFoldSet, IsRegrouping
  <2> HIDE DEF n
  <2>2. turn \in [States \X (1 .. n) -> States]
    BY <1>1, <2>0
  <2>3. PICK g \in [SUBSET (1 .. n) -> States] : IsFold(g, n, [out |-> <<>>, acc |-> 0, nb |-> 0], turn)
    <3> HIDE DEF turn
    <3> QED BY <2>0, <2>2, FoldExists
  <2>4. IsRegrouping(g, from, to, s)
    <3>1. \A t \in SUBSET (1 .. n) : t # {} => Max(t) \in 1 .. n /\ t \ {Max(t)} \in SUBSET (1 .. n)
      BY <2>0, Places
    <3>2. \A t \in SUBSET (1 .. n) : t # {} =>
            turn[<<g[t \ {Max(t)}], Max(t)>>] = Take(g[t \ {Max(t)}], s[Max(t)], from, to)
      BY <1>1, <2>0, <3>1
    <3> HIDE DEF turn
    <3>3. g = [t \in SUBSET (1 .. n) |-> IF t = {} THEN [out |-> <<>>, acc |-> 0, nb |-> 0] ELSE turn[<<g[t \ {Max(t)}], Max(t)>>]]
      BY <2>3, Zenon DEF IsFold
    <3>4. g = [t \in SUBSET DOMAIN s |-> IF t = {} THEN [out |-> <<>>, acc |-> 0, nb |-> 0] ELSE Take(g[t \ {Max(t)}], s[Max(t)], from, to)]
      BY <2>0, <3>2, <3>3
    <3> QED BY <3>4, Zenon DEF IsRegrouping
  <2>5. \A t \in SUBSET (1 .. n) : h[t] = IF t = {} THEN [out |-> <<>>, acc |-> 0, nb |-> 0] ELSE Take(h[t \ {Max(t)}], s[Max(t)], from, to)
    <3>1. IsRegrouping(h, from, to, s)
      BY <2>4, Zenon
    <3> HIDE DEF h
    <3>2. h = [t \in SUBSET DOMAIN s |-> IF t = {} THEN [out |-> <<>>, acc |-> 0, nb |-> 0] ELSE Take(h[t \ {Max(t)}], s[Max(t)], from, to)]
      BY <3>1, Zenon DEF IsRegrouping
    <3> QED BY <2>0, <3>2
  <2> HIDE DEF h
  <2> DEFINE S == {k \in Nat : k <= n => h[1 .. k] = p[k]}
  <2>6. 0 \in S
    <3>1. 1 .. 0 = {} /\ {} \in SUBSET (1 .. n)
      BY <2>0
    <3> QED BY <1>2, <2>0, <2>5, <3>1 DEF Walks
  <2>7. ASSUME NEW k \in Nat, k \in S PROVE k + 1 \in S
    <3> SUFFICES ASSUME k + 1 <= n PROVE h[1 .. k + 1] = p[k + 1]
      OBVIOUS
    <3>1. k + 1 \in 1 .. n /\ k + 1 \in Nat \ {0} /\ (k + 1) - 1 = k /\ k \in 0 .. n /\ 1 .. k + 1 \in SUBSET (1 .. n)
      BY <2>0
    <3>2. 1 .. k + 1 # {} /\ Max(1 .. k + 1) = k + 1 /\ (1 .. k + 1) \ {k + 1} = 1 .. k
      BY <3>1, LastPlace
    <3>3. h[1 .. k + 1] = Take(h[1 .. k], s[k + 1], from, to)
      <4>1. h[1 .. k + 1] = Take(h[(1 .. k + 1) \ {Max(1 .. k + 1)}], s[Max(1 .. k + 1)], from, to)
        BY <2>5, <3>1, <3>2
      <4> QED BY <3>2, <4>1
    <3>4. h[1 .. k] = p[k]
      BY <2>0, <2>7, <3>1
    <3>5. p[k] \in States /\ p[k + 1] = step[<<p[k], s[k + 1]>>]
      BY <1>2, <2>0, <3>1 DEF Walks
    <3>6. s[k + 1] \in X
      BY <2>0, <3>1
    <3>7. p[k + 1] = Take(p[k], s[k + 1], from, to)
      BY <1>1, <3>5, <3>6
    <3> QED BY <3>3, <3>4, <3>7
  <2> HIDE DEF S
  <2>8. Nat \subseteq S
    BY <2>6, <2>7, Induct
  <2>9. h[1 .. n] = p[n]
    BY <2>0, <2>8 DEF S
  <2> QED BY <2>0, <2>1, <2>9
<1>3. \A s \in Seq(X) : F[s] = Regroup(s, from, to)
  OBVIOUS
<1> HIDE DEF F
<1>4. EndsWalks(F, step, [out |-> <<>>, acc |-> 0, nb |-> 0], X, States)
  BY <1>2, <1>3 DEF EndsWalks
<1>5. Unfolds(F, step, [out |-> <<>>, acc |-> 0, nb |-> 0], X, States)
  BY <1>1, <1>4, WalksUnfold
<1>6. <<>> \in Seq(X) /\ \A s \in Seq(X), x \in X : Append(s, x) \in Seq(X)
  OBVIOUS
<1>7. F[<<>>] = Regroup(<<>>, from, to) /\ \A s \in Seq(X), x \in X : F[Append(s, x)] = Regroup(Append(s, x), from, to)
  BY <1>3, <1>6
<1> QED BY <1>1, <1>3, <1>5, <1>7 DEF Unfolds

(***************************************************************************)
(* What two sequences are joined to.                                       *)
(***************************************************************************)
LEMMA Joins ==
  ASSUME NEW X, NEW a \in Seq(X), NEW b \in Seq(X)
  PROVE  /\ Len(a) \in Nat /\ Len(b) \in Nat
         /\ a \o b \in Seq(X) /\ Len(a \o b) = Len(a) + Len(b)
         /\ \A i \in 1 .. Len(a) : (a \o b)[i] = a[i]
         /\ \A i \in 1 .. Len(b) : (a \o b)[Len(a) + i] = b[i]
<1>1. Len(a) \in Nat /\ Len(b) \in Nat
  OBVIOUS
<1> QED BY <1>1, ConcatProperties

(***************************************************************************)
(* Three sequences are joined in any order.                                *)
(***************************************************************************)
LEMMA Rejoins ==
  ASSUME NEW X, NEW a \in Seq(X), NEW b \in Seq(X), NEW c \in Seq(X)
  PROVE  a \o b \in Seq(X) /\ b \o c \in Seq(X) /\ (a \o b) \o c = a \o (b \o c)
<1>1. a \o b \in Seq(X)
  BY ONLY a \in Seq(X), b \in Seq(X), Joins
<1>2. b \o c \in Seq(X)
  BY ONLY b \in Seq(X), c \in Seq(X), Joins
<1>3. (a \o b) \o c = a \o (b \o c)
  BY ONLY a \in Seq(X), b \in Seq(X), c \in Seq(X), ConcatAssociative
<1> QED BY <1>1, <1>2, <1>3

(***************************************************************************)
(* What lies between two parts of a sequence is its slice.                 *)
(***************************************************************************)
LEMMA Middle ==
  ASSUME NEW X, NEW a \in Seq(X), NEW b \in Seq(X), NEW c \in Seq(X)
  PROVE  SubSeq((a \o b) \o c, Len(a) + 1, Len(a) + Len(b)) = b
<1> DEFINE s == (a \o b) \o c
           m == Len(a) + 1
           n == Len(a) + Len(b)
<1>1. Len(a) \in Nat /\ Len(b) \in Nat /\ Len(c) \in Nat /\ m \in Nat /\ n \in Nat
  OBVIOUS
<1>2. /\ s \in Seq(X) /\ Len(s) = Len(a) + Len(b) + Len(c)
      /\ \A i \in 1 .. Len(b) : s[Len(a) + i] = b[i]
  OBVIOUS
<1> HIDE DEF s
<1>3. \A i \in m .. n : s[i] \in X
  BY <1>1, <1>2
<1>4. SubSeq(s, m, n) \in Seq(X) /\ Len(SubSeq(s, m, n)) = Len(b)
  BY <1>1, <1>3
<1>5. \A i \in 1 .. Len(b) : SubSeq(s, m, n)[i] = b[i]
  BY <1>1, <1>2
<1>6. SubSeq(s, m, n) = b
  BY <1>4, <1>5, SeqEqual
<1> QED BY <1>6 DEF s, m, n

(***************************************************************************)
(* The ends of a sequence are slices too.                                  *)
(***************************************************************************)
LEMMA TwoParts ==
  ASSUME NEW X, NEW a \in Seq(X), NEW b \in Seq(X)
  PROVE  /\ SubSeq(a \o b, 1, Len(a)) = a
         /\ SubSeq(a \o b, Len(a) + 1, Len(a \o b)) = b
<1>1. <<>> \in Seq(X) /\ Len(<<>>) = 0 /\ Len(a \o b) = Len(a) + Len(b) /\ Len(a) \in Nat
  OBVIOUS
<1>2. a \o b \in Seq(X) /\ <<>> \o a = a /\ (a \o b) \o <<>> = a \o b
  OBVIOUS
<1>3. SubSeq((<<>> \o a) \o b, 1, Len(a)) = a
  <2>1. SubSeq((<<>> \o a) \o b, Len(<<>>) + 1, Len(<<>>) + Len(a)) = a
    BY <1>1, Middle
  <2>2. 1 = Len(<<>>) + 1 /\ Len(a) = Len(<<>>) + Len(a)
    BY <1>1
  <2> QED BY <2>1, <2>2, Zenon
<1>4. SubSeq((a \o b) \o <<>>, Len(a) + 1, Len(a \o b)) = b
  <2>1. SubSeq((a \o b) \o <<>>, Len(a) + 1, Len(a) + Len(b)) = b
    BY <1>1, Middle
  <2> QED BY <1>1, <2>1, Zenon
<1> QED BY <1>2, <1>3, <1>4

----------------------------------------------------------------------------
(* Powers of two, and division *)

(***************************************************************************)
(* Multiples of a number, and what lies between two of them.               *)
(***************************************************************************)
LEMMA Remainders ==
  ASSUME NEW d \in Nat \ {0}, NEW x \in Nat
  PROVE  x = d * (x \div d) + (x % d) /\ x % d \in 0 .. d - 1 /\ x \div d \in Nat
OBVIOUS

(***************************************************************************)
(* Of two different multiples of d, one is at least d more than the other. *)
(***************************************************************************)
LEMMA Multiples ==
  ASSUME NEW d \in Nat \ {0}
  PROVE  /\ \A q \in Nat : d * q \in Nat /\ (d * q) % d = 0
         /\ \A x, y \in Nat : x % d = 0 /\ y % d = 0 /\ x < y => y - x >= d
<1>1. ASSUME NEW q \in Nat PROVE d * q \in Nat /\ (d * q) % d = 0
  <2>1. d * q \in Nat
    OBVIOUS
  <2> DEFINE p == (d * q) \div d
             r == (d * q) % d
  <2>2. d * q = d * p + r /\ r \in 0 .. d - 1 /\ p \in Nat
    BY <2>1, Remainders
  <2> HIDE DEF p, r
  <2>3. d * (q - p) = r
    BY <2>2
  <2>4. q - p \in Int /\ (q - p >= 1 => d * (q - p) >= d) /\ (q - p <= -1 => d * (q - p) <= -d)
    BY <2>2
  <2>5. q - p = 0
    BY <2>2, <2>3, <2>4
  <2>6. r = 0
    BY <2>2, <2>3, <2>5
  <2> QED BY <2>1, <2>6 DEF r
<1>2. ASSUME NEW x \in Nat, NEW y \in Nat, x % d = 0, y % d = 0, x < y PROVE y - x >= d
  <2> DEFINE p == x \div d
             q == y \div d
  <2>1. x = d * p /\ y = d * q /\ p \in Nat /\ q \in Nat
    <3>1. x = d * p + (x % d) /\ y = d * q + (y % d) /\ p \in Nat /\ q \in Nat
      BY Remainders
    <3> HIDE DEF p, q
    <3> QED BY <1>2, <3>1
  <2> HIDE DEF p, q
  <2>2. p < q
    BY <1>2, <2>1
  <2>3. q = p + (q - p) /\ q - p >= 1
    BY <2>1, <2>2
  <2>4. y - x = d * (q - p)
    BY <2>1
  <2> QED BY <2>1, <2>3, <2>4
<1> QED BY <1>1, <1>2

\* The first powers
ArePowers(f, n) == f \in [0 .. n -> Nat] /\ f[0] = 1 /\ \A k \in 1 .. n : f[k] = 2 * f[k - 1]

(***************************************************************************)
(* There are powers up to any place, ...                                   *)
(***************************************************************************)
LEMMA PowersExist ==
  ASSUME NEW n \in Nat
  PROVE  \E f : ArePowers(f, n)
<1> DEFINE S == {m \in Nat : \E f : ArePowers(f, m)}
<1>1. 0 \in S
  <2> DEFINE f == [k \in 0 .. 0 |-> 1]
  <2>1. ArePowers(f, 0)
    BY DEF ArePowers
  <2> QED BY <2>1
<1>2. ASSUME NEW m \in Nat, m \in S PROVE m + 1 \in S
  <2>1. PICK f : ArePowers(f, m)
    BY <1>2
  <2> DEFINE g == [k \in 0 .. m + 1 |-> IF k = m + 1 THEN 2 * f[m] ELSE f[k]]
  <2>2. f[m] \in Nat /\ \A k \in 0 .. m + 1 : k # m + 1 => f[k] \in Nat
    BY <2>1 DEF ArePowers
  <2>3. g \in [0 .. m + 1 -> Nat] /\ g[0] = 1
    BY <2>1, <2>2 DEF ArePowers
  <2>4. \A k \in 1 .. m + 1 : g[k] = 2 * g[k - 1]
    BY <2>1 DEF ArePowers
  <2>5. ArePowers(g, m + 1)
    BY <2>3, <2>4 DEF ArePowers
  <2> QED BY <2>5
<1> HIDE DEF S
<1>3. Nat \subseteq S
  BY <1>1, <1>2, Induct
<1> QED BY <1>3 DEF S

(***************************************************************************)
(* ... which agree where both are given.                                   *)
(***************************************************************************)
LEMMA PowersAgree ==
  ASSUME NEW m \in Nat, NEW n \in Nat, NEW f, ArePowers(f, m), NEW g, ArePowers(g, n),
         NEW k \in Nat, k <= m, k <= n
  PROVE  f[k] = g[k]
<1> DEFINE S == {j \in Nat : j <= m /\ j <= n => f[j] = g[j]}
<1>1. 0 \in S
  BY DEF ArePowers
<1>2. ASSUME NEW j \in Nat, j \in S PROVE j + 1 \in S
  <2> SUFFICES ASSUME j + 1 <= m, j + 1 <= n PROVE f[j + 1] = g[j + 1]
    OBVIOUS
  <2>1. j + 1 \in 1 .. m /\ j + 1 \in 1 .. n /\ (j + 1) - 1 = j
    OBVIOUS
  <2>2. f[j + 1] = 2 * f[j] /\ g[j + 1] = 2 * g[j]
    BY <2>1 DEF ArePowers
  <2> QED BY <1>2, <2>2
<1> HIDE DEF S
<1>3. Nat \subseteq S
  BY <1>1, <1>2, Induct
<1> QED BY <1>3 DEF S

IsPow2(f) == f = [n \in Nat |-> IF n = 0 THEN 1 ELSE 2 * f[n - 1]]

(***************************************************************************)
(* The powers of two are what the recursion says.                          *)
(***************************************************************************)
LEMMA Powers ==
  Pow2[0] = 1 /\ \A n \in Nat : Pow2[n] \in Nat \ {0} /\ Pow2[n + 1] = 2 * Pow2[n]
<1> DEFINE at(n) == CHOOSE f : ArePowers(f, n)
           F == [n \in Nat |-> at(n)[n]]
<1>1. \A n \in Nat : ArePowers(at(n), n)
  BY PowersExist
<1> HIDE DEF at
<1>2. F \in [Nat -> Nat] /\ F[0] = 1
  BY <1>1 DEF ArePowers
<1>3. ASSUME NEW n \in Nat \ {0} PROVE F[n] = 2 * F[n - 1]
  <2>1. n - 1 \in Nat /\ n \in 1 .. n /\ n - 1 <= n
    OBVIOUS
  <2>2. at(n)[n] = 2 * at(n)[n - 1]
    BY <1>1, <2>1 DEF ArePowers
  <2>3. at(n)[n - 1] = at(n - 1)[n - 1]
    BY <1>1, <2>1, PowersAgree
  <2> QED BY <2>1, <2>2, <2>3
<1>4. IsPow2(F)
  <2>1. \A n \in Nat : F[n] = IF n = 0 THEN 1 ELSE 2 * F[n - 1]
    BY <1>2, <1>3
  <2>2. F = [n \in Nat |-> F[n]]
    OBVIOUS
  <2> HIDE DEF F
  <2>3. F = [n \in Nat |-> IF n = 0 THEN 1 ELSE 2 * F[n - 1]]
    BY <2>1, <2>2
  <2> QED BY <2>3, Zenon DEF IsPow2
<1>5. Pow2 = CHOOSE f : IsPow2(f)
  BY Zenon DEF Pow2, IsPow2
<1>6. IsPow2(Pow2)
  <2> HIDE DEF F
  <2> QED BY <1>4, <1>5, Zenon
<1>7. Pow2 = [n \in Nat |-> IF n = 0 THEN 1 ELSE 2 * Pow2[n - 1]]
  BY <1>6, Zenon DEF IsPow2
<1>8. \A n \in Nat : Pow2[n] = IF n = 0 THEN 1 ELSE 2 * Pow2[n - 1]
  BY <1>7
<1>9. Pow2[0] = 1 /\ \A n \in Nat : Pow2[n + 1] = 2 * Pow2[n]
  <2>1. \A n \in Nat : n + 1 \in Nat /\ n + 1 # 0 /\ (n + 1) - 1 = n
    OBVIOUS
  <2> QED BY <1>8, <2>1
<1> DEFINE S == {n \in Nat : Pow2[n] \in Nat \ {0}}
<1>10. 0 \in S /\ \A n \in Nat : n \in S => n + 1 \in S
  BY <1>9
<1> HIDE DEF S
<1>11. Nat \subseteq S
  BY <1>10, Induct
<1> QED BY <1>9, <1>11 DEF S

(***************************************************************************)
(* They multiply where the exponents add.                                  *)
(***************************************************************************)
LEMMA PowersAdd ==
  ASSUME NEW a \in Nat, NEW b \in Nat
  PROVE  Pow2[a + b] = Pow2[a] * Pow2[b]
<1> DEFINE S == {n \in Nat : Pow2[a + n] = Pow2[a] * Pow2[n]}
<1>1. 0 \in S
  BY Powers
<1>2. ASSUME NEW n \in Nat, n \in S PROVE n + 1 \in S
  <2>1. a + n \in Nat /\ a + (n + 1) = (a + n) + 1
    OBVIOUS
  <2>2. Pow2[a + (n + 1)] = 2 * (Pow2[a] * Pow2[n]) /\ Pow2[n + 1] = 2 * Pow2[n]
    BY <1>2, <2>1, Powers
  <2>3. Pow2[a] \in Nat /\ Pow2[n] \in Nat
    BY Powers
  <2>4. 2 * (Pow2[a] * Pow2[n]) = Pow2[a] * (2 * Pow2[n])
    BY <2>3
  <2> QED BY <2>2, <2>4
<1> HIDE DEF S
<1>3. Nat \subseteq S
  BY <1>1, <1>2, Induct
<1> QED BY <1>3 DEF S

(***************************************************************************)
(* They grow with the exponent.                                            *)
(***************************************************************************)
LEMMA PowersGrow ==
  ASSUME NEW a \in Nat, NEW b \in Nat, a <= b
  PROVE  /\ Pow2[a] <= Pow2[b] /\ Pow2[b] = Pow2[a] * Pow2[b - a]
         /\ a < b => 2 * Pow2[a] <= Pow2[b]
<1>1. b - a \in Nat /\ a + (b - a) = b
  OBVIOUS
<1>2. Pow2[b] = Pow2[a] * Pow2[b - a]
  BY <1>1, PowersAdd
<1>3. Pow2[a] \in Nat \ {0} /\ Pow2[b - a] \in Nat \ {0}
  BY <1>1, Powers
<1>4. a < b => Pow2[b - a] = 2 * Pow2[(b - a) - 1] /\ Pow2[(b - a) - 1] \in Nat \ {0}
  <2>1. a < b => (b - a) - 1 \in Nat /\ ((b - a) - 1) + 1 = b - a
    OBVIOUS
  <2> QED BY <2>1, Powers
<1>5. \A x, y \in Nat \ {0} : x <= x * y
  OBVIOUS
<1>6. a < b => Pow2[b] = (2 * Pow2[a]) * Pow2[(b - a) - 1]
  <2>1. \A x, y \in Nat : x * (2 * y) = (2 * x) * y
    OBVIOUS
  <2> QED BY <1>2, <1>3, <1>4, <2>1
<1>7. 2 * Pow2[a] \in Nat \ {0}
  BY <1>3
<1> QED BY <1>2, <1>3, <1>4, <1>5, <1>6, <1>7

IsQuotient(x, d, q, r) ==
  d \in Nat \ {0} /\ q \in Nat /\ r \in Nat /\ r < d /\ x \in Nat /\ x = d * q + r

(***************************************************************************)
(* Quotient and remainder are determined.                                  *)
(***************************************************************************)
LEMMA Quotient ==
  ASSUME NEW x, NEW d, NEW q, NEW r, IsQuotient(x, d, q, r)
  PROVE  x \div d = q /\ (x % d) = r
<1> USE DEF IsQuotient
<1>1. x = d * (x \div d) + (x % d) /\ (x % d) \in 0 .. d - 1 /\ x \div d \in Nat
  BY Remainders
<1>2. \A y, z \in Nat : y < z => d * z >= d * y + d
  <2> SUFFICES ASSUME NEW y \in Nat, NEW z \in Nat, y < z PROVE d * z >= d * y + d
    OBVIOUS
  <2>1. PICK e \in Nat : z = y + 1 + e
    <3>1. z - (y + 1) \in Nat /\ z = y + 1 + (z - (y + 1))
      OBVIOUS
    <3> QED BY <3>1
  <2>2. d * z = d * y + d + d * e /\ d * e \in Nat
    BY <2>1
  <2> QED BY <2>2
<1>3. d * q \in Nat /\ d * (x \div d) \in Nat
  BY <1>1
<1>4. x \div d = q
  BY <1>1, <1>2, <1>3
<1> QED BY <1>1, <1>3, <1>4

(***************************************************************************)
(* Division by a product is division by its factors, one after the other.  *)
(***************************************************************************)
LEMMA QuotientTwice ==
  ASSUME NEW c \in Nat \ {0}, NEW d \in Nat \ {0}, NEW x \in Nat
  PROVE  /\ (x \div c) \div d = x \div (c * d)
         /\ (x % (c * d)) \div c = (x \div c) % d
<1> DEFINE q == x \div c
           r == x % c
           p == q \div d
           s == q % d
<1>1. x = c * q + r /\ r \in 0 .. c - 1 /\ q \in Nat
  BY Remainders
<1>2. q = d * p + s /\ s \in 0 .. d - 1 /\ p \in Nat
  <2>1. q \in Nat
    BY <1>1
  <2> HIDE DEF q
  <2> QED BY <2>1, Remainders
<1> HIDE DEF q, r, p, s
<1>3. c * d \in Nat \ {0}
  OBVIOUS
<1>4. x = (c * d) * p + (c * s + r)
  <2>1. c * q = c * (d * p) + c * s
    BY <1>2
  <2>2. c * (d * p) = (c * d) * p
    BY <1>2
  <2>3. c * s \in Nat /\ (c * d) * p \in Nat
    BY <1>2
  <2> QED BY <1>1, <2>1, <2>2, <2>3
<1>5. c * s + r \in Nat /\ c * s + r < c * d
  <2>1. c * d = c * s + c * (d - s) /\ c * s \in Nat
    BY <1>2
  <2>2. c * (d - s) >= c
    <3>1. PICK e \in Nat : d - s = 1 + e
      <4>1. (d - s) - 1 \in Nat /\ d - s = 1 + ((d - s) - 1)
        BY <1>2
      <4> QED BY <4>1
    <3>2. c * (d - s) = c + c * e /\ c * e \in Nat
      BY <3>1
    <3> QED BY <3>2
  <2>3. c * (d - s) \in Int
    BY <1>2
  <2> QED BY <1>1, <2>1, <2>2, <2>3
<1>6. x \div (c * d) = p /\ (x % (c * d)) = c * s + r
  <2>1. IsQuotient(x, c * d, p, c * s + r)
    BY <1>2, <1>3, <1>4, <1>5 DEF IsQuotient
  <2> QED BY <2>1, Quotient
<1>7. (c * s + r) \div c = s
  <2>1. s \in Nat /\ r \in Nat /\ r < c
    BY <1>1, <1>2
  <2>2. IsQuotient(c * s + r, c, s, r)
    BY <1>5, <2>1 DEF IsQuotient
  <2> QED BY <2>2, Quotient
<1> QED BY <1>6, <1>7 DEF q, p, s

(***************************************************************************)
(* The weights of the places of a number.                                  *)
(***************************************************************************)
LEMMA PlacePowers ==
  ASSUME NEW w \in Nat
  PROVE  /\ Pow2[w] \in Nat \ {0} /\ Pow2[w * 0] = 1 /\ Pow2[w * 1] = Pow2[w]
         /\ \A n \in Nat : w * n \in Nat /\ Pow2[w * n] \in Nat \ {0}
         /\ \A m, n \in Nat : Pow2[w * (m + n)] = Pow2[w * m] * Pow2[w * n]
         /\ \A n \in Nat : Pow2[w * (n + 1)] = Pow2[w * n] * Pow2[w]
<1>1. w * 0 = 0 /\ w * 1 = w /\ \A n \in Nat : w * n \in Nat
  OBVIOUS
<1>2. \A m, n \in Nat : w * (m + n) = w * m + w * n /\ w * (n + 1) = w * n + w
  OBVIOUS
<1>3. \A m, n \in Nat : Pow2[w * (m + n)] = Pow2[w * m] * Pow2[w * n]
  BY <1>1, <1>2, PowersAdd
<1>4. \A n \in Nat : Pow2[w * (n + 1)] = Pow2[w * n] * Pow2[w]
  BY <1>1, <1>2, PowersAdd
<1> QED BY <1>1, <1>3, <1>4, Powers

(***************************************************************************)
(* Products of natural numbers are some, ...                               *)
(***************************************************************************)
LEMMA Products == \A x, y \in Nat : x * y \in Nat
OBVIOUS

----------------------------------------------------------------------------
(* Numbers and their digits *)

(***************************************************************************)
(* The sum of natural numbers, from its last place.                        *)
(***************************************************************************)
LEMMA SumAppend ==
  /\ Sum(<<>>) = 0
  /\ \A s \in Seq(Nat) : Sum(s) \in Nat /\ \A x \in Nat : Sum(Append(s, x)) = Sum(s) + x
<1>1. 0 \in Nat /\ \A st \in Nat, x \in Nat : st + x \in Nat
  OBVIOUS
<1> QED BY <1>1, SumUnfolds

(***************************************************************************)
(* Its parts add up.                                                       *)
(***************************************************************************)
LEMMA SumConcat ==
  ASSUME NEW s \in Seq(Nat), NEW t \in Seq(Nat)
  PROVE  Sum(s \o t) = Sum(s) + Sum(t)
<1> DEFINE S == {u \in Seq(Nat) : Sum(s \o u) = Sum(s) + Sum(u)}
<1>1. <<>> \in S
  <2>1. s \o <<>> = s /\ <<>> \in Seq(Nat)
    OBVIOUS
  <2> QED BY <2>1, SumAppend
<1>2. ASSUME NEW u \in Seq(Nat), NEW x \in Nat, u \in S PROVE Append(u, x) \in S
  <2>1. s \o Append(u, x) = Append(s \o u, x) /\ s \o u \in Seq(Nat) /\ Append(u, x) \in Seq(Nat)
    OBVIOUS
  <2>2. Sum(Append(s \o u, x)) = Sum(s \o u) + x /\ Sum(Append(u, x)) = Sum(u) + x
    BY <2>1, SumAppend
  <2>3. Sum(s) \in Nat /\ Sum(u) \in Nat
    BY SumAppend
  <2>4. Sum(s \o u) = Sum(s) + Sum(u)
    BY <1>2
  <2>5. Sum(s \o Append(u, x)) = Sum(s) + Sum(Append(u, x))
    BY <2>1, <2>2, <2>3, <2>4
  <2> QED BY <2>1, <2>5
<1> HIDE DEF S
<1>3. Seq(Nat) \subseteq S
  BY <1>1, <1>2, InductSeq
<1> QED BY <1>3 DEF S

(***************************************************************************)
(* A number, from its last place.                                          *)
(***************************************************************************)
LEMMA NumberAppend ==
  ASSUME NEW w \in Nat
  PROVE  /\ Number(<<>>, w) = 0
         /\ \A s \in Seq(Nat) :
              /\ Number(s, w) \in Nat
              /\ \A x \in Nat : Number(Append(s, x), w) = Number(s, w) + x * Pow2[w * Len(s)]
<1> DEFINE Weights(s) == [k \in 1 .. Len(s) |-> s[k] * Pow2[w * (k - 1)]]
<1>1. \A s : Number(s, w) = Sum(Weights(s))
  BY DEF Number
<1>2. Weights(<<>>) = <<>>
  OBVIOUS
<1>3. ASSUME NEW s \in Seq(Nat) PROVE Weights(s) \in Seq(Nat) /\ Len(Weights(s)) = Len(s)
  <2>1. \A k \in 1 .. Len(s) : s[k] \in Nat /\ w * (k - 1) \in Nat
    OBVIOUS
  <2>2. \A k \in 1 .. Len(s) : s[k] * Pow2[w * (k - 1)] \in Nat
    BY <2>1, Powers, Products
  <2> QED BY <2>2
<1>4. ASSUME NEW s \in Seq(Nat), NEW x \in Nat
      PROVE  Weights(Append(s, x)) = Append(Weights(s), x * Pow2[w * Len(s)])
  <2> DEFINE n == Len(s)
             u == Append(s, x)
             y == x * Pow2[w * n]
  <2>1. n \in Nat /\ u \in Seq(Nat) /\ Len(u) = n + 1 /\ u[n + 1] = x /\ \A k \in 1 .. n : u[k] = s[k]
    OBVIOUS
  <2>2. Len(Weights(u)) = n + 1 /\ Weights(u) \in Seq(Nat)
    BY <1>3, <2>1
  <2>3. y \in Nat
    BY <2>1, PlacePowers, Products
  <2>4. Len(Append(Weights(s), y)) = n + 1 /\ Append(Weights(s), y) \in Seq(Nat)
    BY <1>3, <2>3
  <2>5. \A k \in 1 .. n : Weights(u)[k] = Weights(s)[k] /\ Append(Weights(s), y)[k] = Weights(s)[k]
    <3>1. \A k \in 1 .. n : Append(Weights(s), y)[k] = Weights(s)[k]
      BY <1>3
    <3>2. \A k \in 1 .. n : Weights(u)[k] = Weights(s)[k]
      BY <2>1
    <3> QED BY <3>1, <3>2
  <2>6. Weights(u)[n + 1] = y /\ Append(Weights(s), y)[n + 1] = y
    <3>1. Append(Weights(s), y)[n + 1] = y
      BY <1>3
    <3>2. n + 1 \in 1 .. Len(u) /\ (n + 1) - 1 = n
      BY <2>1
    <3> QED BY <2>1, <3>1, <3>2
  <2>9. \A k \in 1 .. n + 1 : k \in 1 .. n \/ k = n + 1
    BY <2>1
  <2> HIDE DEF u, y, Weights, n
  <2>7. \A k \in 1 .. n + 1 : Weights(u)[k] = Append(Weights(s), y)[k]
    BY <2>5, <2>6, <2>9
  <2>8. Weights(u) = Append(Weights(s), y)
    BY <2>2, <2>4, <2>7
  <2> QED BY <2>8 DEF u, y, n
<1> HIDE DEF Weights
<1>5. Number(<<>>, w) = 0
  BY <1>1, <1>2, SumAppend
<1>6. ASSUME NEW s \in Seq(Nat), NEW x \in Nat
      PROVE  Number(s, w) \in Nat /\ Number(Append(s, x), w) = Number(s, w) + x * Pow2[w * Len(s)]
  <2>1. x * Pow2[w * Len(s)] \in Nat
    <3>1. Len(s) \in Nat
      OBVIOUS
    <3> QED BY <3>1, PlacePowers, Products
  <2>2. Sum(Weights(s)) \in Nat
    BY <1>3, SumAppend
  <2>3. Sum(Append(Weights(s), x * Pow2[w * Len(s)])) = Sum(Weights(s)) + x * Pow2[w * Len(s)]
    BY <1>3, <2>1, SumAppend
  <2> QED BY <1>1, <1>4, <2>2, <2>3
<1> QED BY <1>5, <1>6

(***************************************************************************)
(* A number has a bound for its places.                                    *)
(***************************************************************************)
LEMMA NumberBound ==
  ASSUME NEW w \in Nat, NEW s \in Seq(0 .. Pow2[w] - 1)
  PROVE  s \in Seq(Nat) /\ Number(s, w) \in 0 .. Pow2[w * Len(s)] - 1
<1> DEFINE D == 0 .. Pow2[w] - 1
           S == {t \in Seq(D) : Number(t, w) < Pow2[w * Len(t)]}
<1>0. D \subseteq Nat /\ \A t \in Seq(D) : t \in Seq(Nat)
  <2>1. D \subseteq Nat
    BY PlacePowers
  <2> HIDE DEF D
  <2> QED BY <2>1, SeqMonotonic
<1>1. <<>> \in S
  <2>1. Number(<<>>, w) = 0 /\ Len(<<>>) = 0 /\ <<>> \in Seq(D)
    BY NumberAppend
  <2>2. Pow2[w * 0] = 1
    BY PlacePowers
  <2> QED BY <2>1, <2>2
<1>2. ASSUME NEW t \in Seq(D), NEW x \in D, t \in S PROVE Append(t, x) \in S
  <2>1. Append(t, x) \in Seq(D) /\ Len(Append(t, x)) = Len(t) + 1 /\ Len(t) \in Nat
    OBVIOUS
  <2> DEFINE P == Pow2[w * Len(t)]
             B == Pow2[w]
  <2>2. P \in Nat /\ B \in Nat /\ x \in Nat /\ x <= B - 1
    BY <1>0, <2>1, PlacePowers
  <2>3. Pow2[w * (Len(t) + 1)] = P * B
    BY <2>1, PlacePowers
  <2>4. Number(Append(t, x), w) = Number(t, w) + x * P /\ Number(t, w) \in Nat
    BY <1>0, <2>2, NumberAppend
  <2>5. Number(t, w) < P
    BY <1>2
  <2> HIDE DEF P, B
  <2>6. x * P + P <= P * B
    <3>1. PICK e \in Nat : B = x + 1 + e
      <4>1. B - (x + 1) \in Nat /\ B = x + 1 + (B - (x + 1))
        BY <2>2
      <4> QED BY <4>1
    <3>2. P * B = x * P + P + P * e /\ P * e \in Nat
      BY <2>2, <3>1
    <3>3. x * P \in Nat
      BY <2>2
    <3> QED BY <2>2, <3>2, <3>3
  <2>7. x * P \in Nat /\ P * B \in Nat
    BY <2>2
  <2>8. Number(Append(t, x), w) < P * B
    BY <2>2, <2>4, <2>5, <2>6, <2>7
  <2> QED BY <2>1, <2>3, <2>8
<1> HIDE DEF S
<1>3. Seq(D) \subseteq S
  <2> HIDE DEF D
  <2> QED BY <1>1, <1>2, InductSeq
<1>4. s \in Seq(Nat) /\ Number(s, w) \in Nat
  BY <1>0, NumberAppend
<1>5. Number(s, w) < Pow2[w * Len(s)]
  BY <1>3 DEF S
<1>6. Pow2[w * Len(s)] \in Nat
  <2>1. Len(s) \in Nat
    OBVIOUS
  <2> QED BY <2>1, PlacePowers
<1> QED BY <1>4, <1>5, <1>6

(***************************************************************************)
(* A number, from its parts.                                               *)
(***************************************************************************)
LEMMA NumberConcat ==
  ASSUME NEW w \in Nat, NEW s \in Seq(Nat), NEW t \in Seq(Nat)
  PROVE  Number(s \o t, w) = Number(s, w) + Pow2[w * Len(s)] * Number(t, w)
<1> DEFINE P == Pow2[w * Len(s)]
           S == {u \in Seq(Nat) : Number(s \o u, w) = Number(s, w) + P * Number(u, w)}
<1>0. P \in Nat /\ Number(s, w) \in Nat
  <2>1. Len(s) \in Nat
    OBVIOUS
  <2> QED BY <2>1, PlacePowers, NumberAppend
<1>1. <<>> \in S
  <2>1. s \o <<>> = s /\ <<>> \in Seq(Nat) /\ Number(<<>>, w) = 0
    BY NumberAppend
  <2>2. P * 0 = 0
    BY <1>0
  <2> QED BY <1>0, <2>1, <2>2
<1>2. ASSUME NEW u \in Seq(Nat), NEW x \in Nat, u \in S PROVE Append(u, x) \in S
  <2> DEFINE Q == Pow2[w * Len(u)]
  <2>1. s \o Append(u, x) = Append(s \o u, x) /\ s \o u \in Seq(Nat) /\ Append(u, x) \in Seq(Nat)
    OBVIOUS
  <2>2. Len(s \o u) = Len(s) + Len(u) /\ Len(s) \in Nat /\ Len(u) \in Nat
    OBVIOUS
  <2>3. Pow2[w * Len(s \o u)] = P * Q
    <3>1. Pow2[w * (Len(s) + Len(u))] = P * Q
      <4>1. \A m, n \in Nat : Pow2[w * (m + n)] = Pow2[w * m] * Pow2[w * n]
        BY PlacePowers
      <4> QED BY <2>2, <4>1, Zenon
    <3> QED BY <2>2, <3>1, Zenon
  <2>4. Q \in Nat /\ Number(u, w) \in Nat
    BY <2>2, PlacePowers, NumberAppend
  <2>5. Number(Append(s \o u, x), w) = Number(s \o u, w) + x * (P * Q)
    <3>1. Number(Append(s \o u, x), w) = Number(s \o u, w) + x * Pow2[w * Len(s \o u)]
      BY <2>1, NumberAppend
    <3> QED BY <2>3, <3>1, Zenon
  <2>6. Number(Append(u, x), w) = Number(u, w) + x * Q
    BY NumberAppend
  <2>7. Number(s \o u, w) = Number(s, w) + P * Number(u, w)
    BY <1>2
  <2> HIDE DEF P, Q
  <2>8. P * (Number(u, w) + x * Q) = P * Number(u, w) + x * (P * Q)
    <3>1. \A a, b, c, d \in Nat : a * (b + c * d) = a * b + c * (a * d)
      OBVIOUS
    <3> QED BY <1>0, <2>4, <3>1
  <2>9. P * Number(u, w) \in Nat /\ x * (P * Q) \in Nat
    BY <1>0, <2>4
  <2>10. Number(s \o Append(u, x), w) = Number(s, w) + P * Number(Append(u, x), w)
    BY <1>0, <2>1, <2>5, <2>6, <2>7, <2>8, <2>9
  <2> QED BY <2>1, <2>10 DEF P
<1> HIDE DEF S
<1>3. Seq(Nat) \subseteq S
  BY <1>1, <1>2, InductSeq
<1> QED BY <1>3 DEF S

IsShifted(y, x, d, c) == d \in Nat \ {0} /\ c \in Nat /\ x \in Nat /\ y \in Nat /\ y = x + d * c

(***************************************************************************)
(* A multiple of the divisor adds to the quotient only.                    *)
(***************************************************************************)
LEMMA AddMultiple ==
  ASSUME NEW y, NEW x, NEW d, NEW c, IsShifted(y, x, d, c)
  PROVE  y \div d = (x \div d) + c /\ (y % d) = (x % d)
<1> DEFINE q == x \div d
           r == x % d
<1>0. d \in Nat \ {0} /\ c \in Nat /\ x \in Nat /\ y \in Nat /\ y = x + d * c
  BY DEF IsShifted
<1>1. x = d * q + r /\ r \in 0 .. d - 1 /\ q \in Nat
  BY <1>0, Remainders
<1> HIDE DEF q, r
<1>2. y = d * (q + c) + r
  <2>1. d * (q + c) = d * q + d * c /\ d * q \in Nat /\ d * c \in Nat
    BY <1>0, <1>1
  <2> QED BY <1>0, <1>1, <2>1
<1>3. q + c \in Nat /\ r \in Nat /\ r < d
  BY <1>0, <1>1
<1>4. IsQuotient(y, d, q + c, r)
  BY <1>0, <1>2, <1>3 DEF IsQuotient
<1>5. y \div d = q + c /\ (y % d) = r
  BY <1>4, Quotient
<1> QED BY <1>5 DEF q, r

(***************************************************************************)
(* Digits are digits.                                                      *)
(***************************************************************************)
LEMMA DigitsTyped ==
  ASSUME NEW w \in Nat, NEW n \in Nat, NEW v \in Nat
  PROVE  /\ Digits(v, n, w) \in Seq(0 .. Pow2[w] - 1) /\ Len(Digits(v, n, w)) = n
         /\ \A i \in 1 .. n : Digits(v, n, w)[i] = (v \div Pow2[w * (i - 1)]) % Pow2[w]
<1> DEFINE B == Pow2[w]
<1>1. B \in Nat \ {0}
  BY PlacePowers
<1>2. ASSUME NEW i \in 1 .. n PROVE (v \div Pow2[w * (i - 1)]) % B \in 0 .. B - 1
  <2>1. i - 1 \in Nat
    OBVIOUS
  <2>2. Pow2[w * (i - 1)] \in Nat \ {0}
    BY <2>1, PlacePowers
  <2>3. v \div Pow2[w * (i - 1)] \in Nat
    BY <2>2, Remainders
  <2> HIDE DEF B
  <2> QED BY <1>1, <2>3, Remainders
<1>3. Digits(v, n, w) = [i \in 1 .. n |-> (v \div Pow2[w * (i - 1)]) % B]
  BY DEF Digits
<1> HIDE DEF B
<1>4. Digits(v, n, w) \in [1 .. n -> 0 .. B - 1]
  BY <1>2, <1>3
<1>5. \A D, f : f \in [1 .. n -> D] => f \in Seq(D) /\ Len(f) = n
  OBVIOUS
<1>6. Digits(v, n, w) \in Seq(0 .. B - 1) /\ Len(Digits(v, n, w)) = n
  BY <1>4, <1>5
<1>7. \A i \in 1 .. n : Digits(v, n, w)[i] = (v \div Pow2[w * (i - 1)]) % B
  BY <1>3
<1> QED BY <1>6, <1>7 DEF B

(***************************************************************************)
(* The lowest digits do not see what is added above them.                  *)
(***************************************************************************)
LEMMA DigitsSame ==
  ASSUME NEW w \in Nat, NEW n \in Nat, NEW v \in Nat, NEW u \in Nat, NEW x \in Nat,
         x = v + Pow2[w * n] * u
  PROVE  Digits(x, n, w) = Digits(v, n, w)
<1>1. ASSUME NEW i \in 1 .. n
      PROVE  (x \div Pow2[w * (i - 1)]) % Pow2[w] = (v \div Pow2[w * (i - 1)]) % Pow2[w]
  <2> DEFINE P == Pow2[w * (i - 1)]
             B == Pow2[w]
             Q == Pow2[w * (n - i)]
  <2>1. i - 1 \in Nat /\ n - i \in Nat /\ (i - 1) + 1 = i /\ i + (n - i) = n /\ i \in Nat
    OBVIOUS
  <2>2. P \in Nat \ {0} /\ B \in Nat \ {0} /\ Q \in Nat \ {0}
    BY <2>1, PlacePowers
  <2>3. Pow2[w * n] = (P * B) * Q
    <3>1. Pow2[w * ((i - 1) + 1)] = P * B
      <4>1. \A m \in Nat : Pow2[w * (m + 1)] = Pow2[w * m] * Pow2[w]
        BY PlacePowers
      <4> QED BY <2>1, <4>1, Zenon
    <3>2. Pow2[w * (i + (n - i))] = Pow2[w * i] * Q
      <4>1. \A l, m \in Nat : Pow2[w * (l + m)] = Pow2[w * l] * Pow2[w * m]
        BY PlacePowers
      <4> QED BY <2>1, <4>1, Zenon
    <3> HIDE DEF P, B, Q
    <3> QED BY <2>1, <3>1, <3>2, Zenon
  <2> HIDE DEF P, B, Q
  <2>4. x = v + P * (B * (Q * u))
    <3>1. \A a, b, c, e \in Nat : ((a * b) * c) * e = a * (b * (c * e))
      OBVIOUS
    <3> QED BY <2>2, <2>3, <3>1
  <2>5. Q * u \in Nat /\ B * (Q * u) \in Nat
    BY <2>2, Products
  <2>6. x \div P = (v \div P) + B * (Q * u)
    <3>1. IsShifted(x, v, P, B * (Q * u))
      BY <2>2, <2>4, <2>5 DEF IsShifted
    <3> QED BY <3>1, AddMultiple
  <2>7. v \div P \in Nat /\ x \div P \in Nat
    BY <2>2, Remainders
  <2>8. (x \div P) % B = (v \div P) % B
    <3>1. IsShifted(x \div P, v \div P, B, Q * u)
      BY <2>2, <2>5, <2>6, <2>7 DEF IsShifted
    <3> QED BY <3>1, AddMultiple
  <2> QED BY <2>8 DEF P, B
<1> QED BY <1>1 DEF Digits

(***************************************************************************)
(* Digits are the lower ones, and the higher ones behind them.             *)
(***************************************************************************)
LEMMA DigitsConcat ==
  ASSUME NEW w \in Nat, NEW m \in Nat, NEW n \in Nat, NEW v \in Nat
  PROVE  Digits(v, m + n, w) = Digits(v, m, w) \o Digits(v \div Pow2[w * m], n, w)
<1> DEFINE D == 0 .. Pow2[w] - 1
           u == v \div Pow2[w * m]
           a == Digits(v, m + n, w)
           b == Digits(v, m, w)
           c == Digits(u, n, w)
<1>1. Pow2[w * m] \in Nat \ {0} /\ u \in Nat
  BY PlacePowers, Remainders
<1> HIDE DEF u
<1>2. m + n \in Nat /\ a \in Seq(D) /\ Len(a) = m + n /\ b \in Seq(D) /\ Len(b) = m /\ c \in Seq(D) /\ Len(c) = n
  <2>1. m + n \in Nat
    OBVIOUS
  <2> QED BY <1>1, <2>1, DigitsTyped, Zenon
<1>3. b \o c \in Seq(D) /\ Len(b \o c) = m + n
  <2> HIDE DEF D, a, b, c
  <2> QED BY <1>2
<1>4. ASSUME NEW i \in 1 .. m + n PROVE a[i] = (b \o c)[i]
  <2>1. CASE i \in 1 .. m
    <3>1. a[i] = b[i]
      <4>1. a[i] = (v \div Pow2[w * (i - 1)]) % Pow2[w]
        BY <1>2, DigitsTyped, Zenon
      <4>2. b[i] = (v \div Pow2[w * (i - 1)]) % Pow2[w]
        BY <2>1, DigitsTyped, Zenon
      <4> HIDE DEF a, b
      <4> QED BY <4>1, <4>2, Zenon
    <3> HIDE DEF D, a, b, c
    <3> QED BY <1>2, <2>1, <3>1
  <2>2. CASE i \notin 1 .. m
    <3> DEFINE k == i - m
    <3>1. k \in 1 .. n /\ k - 1 \in Nat /\ m + (k - 1) = i - 1
      BY <2>2
    <3>2. Pow2[w * (k - 1)] \in Nat \ {0}
      BY <3>1, PlacePowers
    <3>3. Pow2[w * (i - 1)] = Pow2[w * m] * Pow2[w * (k - 1)]
      <4>1. \A l, j \in Nat : Pow2[w * (l + j)] = Pow2[w * l] * Pow2[w * j]
        BY PlacePowers
      <4>2. Pow2[w * (m + (k - 1))] = Pow2[w * m] * Pow2[w * (k - 1)]
        BY <3>1, <4>1, Zenon
      <4> HIDE DEF k
      <4> QED BY <3>1, <4>2, Zenon
    <3> HIDE DEF k
    <3>4. u \div Pow2[w * (k - 1)] = v \div Pow2[w * (i - 1)]
      <4>1. u \div Pow2[w * (k - 1)] = v \div (Pow2[w * m] * Pow2[w * (k - 1)])
        BY <1>1, <3>2, QuotientTwice, Zenon DEF u
      <4> QED BY <3>3, <4>1, Zenon
    <3>5. a[i] = (v \div Pow2[w * (i - 1)]) % Pow2[w]
      BY <1>2, DigitsTyped, Zenon
    <3>6. c[k] = (u \div Pow2[w * (k - 1)]) % Pow2[w]
      <4>1. u \in Nat /\ k \in 1 .. n
        BY <1>1, <3>1
      <4> QED BY <4>1, DigitsTyped
    <3>7. a[i] = c[k]
      BY <3>4, <3>5, <3>6, Zenon
    <3>8. i = m + k
      BY DEF k
    <3> HIDE DEF D, a, b, c
    <3> QED BY <1>2, <3>1, <3>7, <3>8
  <2> QED BY <2>1, <2>2
<1> HIDE DEF D, a, b, c
<1>5. a = b \o c
  BY <1>2, <1>3, <1>4, SeqEqual
<1> QED BY <1>5 DEF a, b, c, u

(***************************************************************************)
(* One digit is the remainder.                                             *)
(***************************************************************************)
LEMMA OneDigit ==
  ASSUME NEW w \in Nat, NEW v \in Nat
  PROVE  Digits(v, 1, w) = <<v % Pow2[w]>>
<1>1. Pow2[w * (1 - 1)] = 1
  BY PlacePowers
<1>2. v \div 1 = v
  OBVIOUS
<1>3. [i \in 1 .. 1 |-> (v \div Pow2[w * (i - 1)]) % Pow2[w]] = [i \in 1 .. 1 |-> v % Pow2[w]]
  BY <1>1, <1>2
<1>4. [i \in 1 .. 1 |-> v % Pow2[w]] = <<v % Pow2[w]>>
  OBVIOUS
<1> QED BY <1>3, <1>4 DEF Digits

(***************************************************************************)
(* A number is what its lowest digits say, and the rest above them.        *)
(***************************************************************************)
LEMMA NumberOfDigits ==
  ASSUME NEW w \in Nat, NEW n \in Nat, NEW v \in Nat
  PROVE  /\ v = Number(Digits(v, n, w), w) + Pow2[w * n] * (v \div Pow2[w * n])
         /\ v < Pow2[w * n] => Number(Digits(v, n, w), w) = v
<1> DEFINE S == {m \in Nat : v = Number(Digits(v, m, w), w) + Pow2[w * m] * (v \div Pow2[w * m])}
<1>1. 0 \in S
  <2>1. Digits(v, 0, w) = <<>>
    BY DEF Digits
  <2>2. Pow2[w * 0] = 1 /\ Number(<<>>, w) = 0
    BY PlacePowers, NumberAppend
  <2>3. v \div 1 = v /\ v = 0 + 1 * v
    OBVIOUS
  <2> QED BY <2>1, <2>2, <2>3
<1>2. ASSUME NEW m \in Nat, m \in S PROVE m + 1 \in S
  <2> DEFINE P == Pow2[w * m]
             B == Pow2[w]
             u == v \div P
             x == u % B
             t == Digits(v, m, w)
  <2>1. P \in Nat \ {0} /\ B \in Nat \ {0} /\ Pow2[w * (m + 1)] = P * B
    BY PlacePowers
  <2>2. u \in Nat
    BY <2>1, Remainders
  <2>3. u = B * (u \div B) + x /\ x \in Nat /\ u \div B \in Nat
    <3> HIDE DEF u, B
    <3>1. u = B * (u \div B) + (u % B) /\ (u % B) \in 0 .. B - 1 /\ u \div B \in Nat
      BY <2>1, <2>2, Remainders
    <3>2. 0 .. B - 1 \subseteq Nat
      BY <2>1
    <3> QED BY <3>1, <3>2
  <2>4. u \div B = v \div (P * B)
    <3> HIDE DEF P, B
    <3> QED BY <2>1, QuotientTwice
  <2>5. t \in Seq(Nat) /\ Len(t) = m
    <3>1. 0 .. B - 1 \subseteq Nat
      BY <2>1
    <3> QED BY <3>1, DigitsTyped, SeqMonotonic
  <2>6. Digits(v, m + 1, w) = Append(t, x)
    <3>1. Digits(v, m + 1, w) = t \o Digits(u, 1, w)
      BY DigitsConcat
    <3>2. Digits(u, 1, w) = <<x>>
      BY <2>2, OneDigit
    <3> HIDE DEF t, u, x
    <3> QED BY <2>3, <2>5, <3>1, <3>2, AppendIsConcat, Zenon
  <2>7. v = Number(t, w) + P * u
    BY <1>2
  <2> HIDE DEF t, u, x, P, B
  <2>8. Number(Append(t, x), w) = Number(t, w) + x * P /\ Number(t, w) \in Nat
    BY <2>3, <2>5, NumberAppend DEF P
  <2>9. P * u = x * P + (P * B) * (u \div B)
    <3>1. \A p, b, q, y \in Nat : p * (b * q + y) = y * p + (p * b) * q
      OBVIOUS
    <3> QED BY <2>1, <2>3, <3>1
  <2>10. x * P \in Nat /\ P * B \in Nat /\ (P * B) * (u \div B) \in Nat /\ P * u \in Nat
    BY <2>1, <2>2, <2>3, Products
  <2>11. v = Number(Append(t, x), w) + (P * B) * (u \div B)
    BY <2>7, <2>8, <2>9, <2>10
  <2>12. v = Number(Digits(v, m + 1, w), w) + Pow2[w * (m + 1)] * (v \div Pow2[w * (m + 1)])
    BY <2>1, <2>4, <2>6, <2>11, Zenon
  <2> QED BY <2>12
<1> HIDE DEF S
<1>3. Nat \subseteq S
  BY <1>1, <1>2, Induct
<1>4. v = Number(Digits(v, n, w), w) + Pow2[w * n] * (v \div Pow2[w * n])
  BY <1>3 DEF S
<1>5. ASSUME v < Pow2[w * n] PROVE v \div Pow2[w * n] = 0
  <2> DEFINE P == Pow2[w * n]
  <2>1. P \in Nat \ {0}
    BY PlacePowers
  <2> HIDE DEF P
  <2>2. v < P
    BY <1>5 DEF P
  <2>3. IsQuotient(v, P, 0, v)
    BY <2>1, <2>2 DEF IsQuotient
  <2>4. v \div P = 0
    BY <2>3, Quotient
  <2> QED BY <2>4 DEF P
<1>6. ASSUME v < Pow2[w * n] PROVE Number(Digits(v, n, w), w) = v
  <2>1. Pow2[w * n] \in Nat /\ Number(Digits(v, n, w), w) \in Nat
    <3>1. 0 .. Pow2[w] - 1 \subseteq Nat
      BY PlacePowers
    <3>2. Digits(v, n, w) \in Seq(Nat)
      BY <3>1, DigitsTyped, SeqMonotonic
    <3> QED BY <3>2, PlacePowers, NumberAppend
  <2>2. Pow2[w * n] * 0 = 0
    BY <2>1
  <2> QED BY <1>4, <1>5, <1>6, <2>1, <2>2
<1> QED BY <1>4, <1>6

(***************************************************************************)
(* The digits of a number are the places it is made of.                    *)
(***************************************************************************)
LEMMA DigitsOfNumber ==
  ASSUME NEW w \in Nat, NEW s \in Seq(0 .. Pow2[w] - 1)
  PROVE  Digits(Number(s, w), Len(s), w) = s
<1> DEFINE D == 0 .. Pow2[w] - 1
           S == {t \in Seq(D) : Digits(Number(t, w), Len(t), w) = t}
<1>1. <<>> \in S
  <2>1. Digits(Number(<<>>, w), Len(<<>>), w) = <<>>
    BY DEF Digits
  <2> QED BY <2>1
<1>2. ASSUME NEW t \in Seq(D), NEW x \in D, t \in S PROVE Append(t, x) \in S
  <2> DEFINE B == Pow2[w]
             n == Len(t)
             P == Pow2[w * n]
             v == Number(t, w)
             u == Number(Append(t, x), w)
  <2>1. n \in Nat /\ Append(t, x) \in Seq(D) /\ Len(Append(t, x)) = n + 1
    OBVIOUS
  <2>2. P \in Nat \ {0} /\ B \in Nat \ {0}
    BY <2>1, PlacePowers
  <2>3. x \in Nat /\ x < B
    BY <2>2
  <2>4. t \in Seq(Nat) /\ v \in Nat /\ v < P
    <3>1. P \in Nat
      BY <2>2
    <3> HIDE DEF P
    <3>2. t \in Seq(Nat) /\ v \in 0 .. P - 1
      BY NumberBound DEF P
    <3> QED BY <3>1, <3>2
  <2>5. u = v + x * P /\ u \in Nat
    <3>1. u = v + x * P
      BY <2>3, <2>4, NumberAppend
    <3> HIDE DEF u, v, P
    <3>2. x * P \in Nat
      BY <2>2, <2>3, Products
    <3> QED BY <2>4, <3>1, <3>2
  <2> HIDE DEF B, P, v, u, n, D
  <2>6. IsQuotient(u, P, x, v)
    <3>1. x * P = P * x
      BY <2>2, <2>3
    <3> QED BY <2>2, <2>3, <2>4, <2>5, <3>1 DEF IsQuotient
  <2>7. IsQuotient(x, B, 0, x)
    BY <2>2, <2>3 DEF IsQuotient
  <2>8. Digits(u, n, w) = Digits(v, n, w)
    <3>1. u = v + P * x
      BY <2>2, <2>3, <2>5
    <3> QED BY <2>1, <2>3, <2>4, <2>5, <3>1, DigitsSame DEF P
  <2>9. Digits(u \div P, 1, w) = <<x>>
    <3>1. u \div P = x /\ (x % B) = x
      BY <2>6, <2>7, Quotient
    <3>2. Digits(x, 1, w) = <<x % B>>
      BY <2>3, OneDigit DEF B
    <3> QED BY <3>1, <3>2
  <2>10. Digits(v, n, w) = t
    BY <1>2 DEF v, n
  <2>11. Digits(u, n + 1, w) = Digits(u, n, w) \o Digits(u \div P, 1, w)
    <3>1. n \in Nat /\ 1 \in Nat /\ u \in Nat
      BY <2>1, <2>5
    <3> QED BY <3>1, DigitsConcat, Zenon DEF P
  <2>12. t \o <<x>> = Append(t, x)
    BY <2>3, <2>4, AppendIsConcat, Zenon
  <2>13. Digits(u, n + 1, w) = Append(t, x)
    BY <2>8, <2>9, <2>10, <2>11, <2>12, Zenon
  <2> QED BY <2>1, <2>13 DEF u
<1> HIDE DEF S
<1>3. Seq(D) \subseteq S
  <2> HIDE DEF D
  <2> QED BY <1>1, <1>2, InductSeq
<1> QED BY <1>3 DEF S

----------------------------------------------------------------------------
(* Packing *)

\* What regrouping "length" units of "from" bits with the value v has come to
Regrouped(v, length, from, to) ==
  LET n == (from * length) \div to
  IN [out |-> Digits(v, n, to), acc |-> v \div Pow2[to * n], nb |-> (from * length) % to]

(***************************************************************************)
(* One more unit.                                                          *)
(***************************************************************************)
LEMMA TakeRegroups ==
  ASSUME NEW from \in Nat, NEW to \in Nat \ {0}, NEW length \in Nat, NEW v \in Nat, NEW unit \in Nat
  PROVE  Take(Regrouped(v, length, from, to), unit, from, to)
           = Regrouped(v + unit * Pow2[from * length], length + 1, from, to)
<1> DEFINE a == from * length
           n == a \div to
           nb == a % to
           m == (nb + from) \div to
           P == Pow2[to * n]
           Q == Pow2[nb]
           u == v + unit * Pow2[a]
           acc == v \div P + unit * Q
<1>1. a \in Nat
  OBVIOUS
<1>2. a = to * n + nb /\ nb \in 0 .. to - 1 /\ n \in Nat /\ nb \in Nat
  <2> HIDE DEF a
  <2>1. a = to * (a \div to) + (a % to) /\ (a % to) \in 0 .. to - 1 /\ a \div to \in Nat
    BY <1>1, Remainders
  <2> QED BY <2>1
<1>3. nb + from = to * m + ((nb + from) % to) /\ m \in Nat /\ (nb + from) % to \in 0 .. to - 1
  <2> HIDE DEF nb
  <2>1. nb + from \in Nat
    BY <1>2
  <2> QED BY <2>1, Remainders
<1>4. from * (length + 1) = a + from
  OBVIOUS
<1> HIDE DEF a, n, nb, m
<1>5. (a + from) \div to = n + m /\ (a + from) % to = (nb + from) % to
  <2>1. a + from = (nb + from) + to * n
    <3>1. to * n \in Nat
      BY <1>2, Products
    <3> QED BY <1>2, <3>1
  <2>2. IsShifted(a + from, nb + from, to, n)
    BY <1>1, <1>2, <2>1 DEF IsShifted
  <2>3. (a + from) \div to = ((nb + from) \div to) + n /\ ((a + from) % to) = ((nb + from) % to)
    BY <2>2, AddMultiple
  <2> QED BY <1>2, <1>3, <2>3 DEF m
<1>6. P \in Nat \ {0} /\ Q \in Nat \ {0} /\ Pow2[a] = P * Q
  <2>1. to * n \in Nat
    BY <1>2, Products
  <2> QED BY <1>2, <2>1, PowersAdd, Powers
<1> HIDE DEF P, Q
<1>7. u = v + P * (unit * Q) /\ unit * Q \in Nat /\ u \in Nat
  <2>1. unit * (P * Q) = P * (unit * Q)
    BY <1>6
  <2>2. unit * Q \in Nat /\ P * (unit * Q) \in Nat
    BY <1>6, Products
  <2> QED BY <1>6, <2>1, <2>2
<1> HIDE DEF u
<1>8. u \div P = acc
  <2>1. IsShifted(u, v, P, unit * Q)
    BY <1>6, <1>7 DEF IsShifted
  <2> QED BY <2>1, AddMultiple
<1>9. Digits(u, n, to) = Digits(v, n, to)
  BY <1>2, <1>7, DigitsSame DEF P
<1>10. Digits(v, n, to) \o Digits(acc, m, to) = Digits(u, n + m, to)
  <2>1. Digits(u, n + m, to) = Digits(u, n, to) \o Digits(u \div P, m, to)
    <3>1. to \in Nat /\ n \in Nat /\ m \in Nat /\ u \in Nat
      BY <1>2, <1>3, <1>7
    <3> QED BY <3>1, DigitsConcat, Zenon DEF P
  <2> HIDE DEF acc
  <2> QED BY <1>8, <1>9, <2>1, Zenon
<1>11. acc \div Pow2[to * m] = u \div Pow2[to * (n + m)]
  <2>1. Pow2[to * (n + m)] = P * Pow2[to * m]
    <3>1. \A i, j \in Nat : Pow2[to * (i + j)] = Pow2[to * i] * Pow2[to * j]
      BY PlacePowers
    <3> QED BY <1>2, <1>3, <3>1, Zenon DEF P
  <2>2. Pow2[to * m] \in Nat \ {0}
    BY <1>3, PlacePowers
  <2>3. (u \div P) \div Pow2[to * m] = u \div (P * Pow2[to * m])
    <3>1. P \in Nat \ {0} /\ u \in Nat
      BY <1>6, <1>7
    <3> QED BY <2>2, <3>1, QuotientTwice, Zenon
  <2> HIDE DEF acc
  <2> QED BY <1>8, <2>1, <2>3, Zenon
<1> DEFINE st == Regrouped(v, length, from, to)
<1>12. st.out = Digits(v, n, to) /\ st.acc = v \div P /\ st.nb = nb
  BY DEF Regrouped, n, a, nb, P
<1>13. Take(st, unit, from, to)
         = [out |-> Digits(v, n, to) \o Digits(acc, m, to), acc |-> acc \div Pow2[to * m], nb |-> (nb + from) % to]
  <2> HIDE DEF st
  <2> QED BY <1>12 DEF Take, m, Q
<1>14. Regrouped(u, length + 1, from, to)
         = [out |-> Digits(u, n + m, to), acc |-> u \div Pow2[to * (n + m)], nb |-> (nb + from) % to]
  BY <1>4, <1>5, Zenon DEF Regrouped
<1> HIDE DEF acc, st
<1>15. Take(st, unit, from, to) = Regrouped(u, length + 1, from, to)
  BY <1>10, <1>11, <1>13, <1>14
<1> QED BY <1>15 DEF st, u, a

(***************************************************************************)
(* Units are regrouped to the digits of the number they spell.             *)
(***************************************************************************)
LEMMA RegroupIs ==
  ASSUME NEW from \in Nat, NEW to \in Nat \ {0}, NEW s \in Seq(Nat)
  PROVE  Regroup(s, from, to) = Regrouped(Number(s, from), Len(s), from, to)
<1> DEFINE States == [out : Seq(Nat), acc : Nat, nb : Nat]
           start == [out |-> <<>>, acc |-> 0, nb |-> 0]
           S == {t \in Seq(Nat) : Regroup(t, from, to) = Regrouped(Number(t, from), Len(t), from, to)}
<1>1. start \in States
  OBVIOUS
<1>2. ASSUME NEW st \in States, NEW x \in Nat PROVE Take(st, x, from, to) \in States
  <2> DEFINE acc == st.acc + x * Pow2[st.nb]
             n == (st.nb + from) \div to
  <2>1. st.out \in Seq(Nat) /\ st.acc \in Nat /\ st.nb \in Nat /\ st.nb + from \in Nat
    OBVIOUS
  <2>2. acc \in Nat
    <3>1. x * Pow2[st.nb] \in Nat
      BY <2>1, Powers, Products
    <3> QED BY <2>1, <3>1
  <2>3. n \in Nat /\ (st.nb + from) % to \in Nat
    <3>1. (st.nb + from) % to \in 0 .. to - 1 /\ (st.nb + from) \div to \in Nat
      BY <2>1, Remainders
    <3> QED BY <3>1
  <2> HIDE DEF acc, n
  <2>4. acc \div Pow2[to * n] \in Nat
    BY <2>2, <2>3, PlacePowers, Remainders
  <2>5. Digits(acc, n, to) \in Seq(Nat)
    <3>1. 0 .. Pow2[to] - 1 \subseteq Nat
      BY PlacePowers
    <3> QED BY <2>2, <2>3, <3>1, DigitsTyped, SeqMonotonic
  <2>6. st.out \o Digits(acc, n, to) \in Seq(Nat)
    BY <2>1, <2>5, ConcatProperties
  <2>7. Take(st, x, from, to)
          = [out |-> st.out \o Digits(acc, n, to), acc |-> acc \div Pow2[to * n], nb |-> (st.nb + from) % to]
    BY DEF Take, acc, n
  <2> QED BY <2>3, <2>4, <2>6, <2>7
<1>3. /\ Regroup(<<>>, from, to) = start
      /\ \A t \in Seq(Nat) : /\ Regroup(t, from, to) \in States
                             /\ \A x \in Nat : Regroup(Append(t, x), from, to)
                                                 = Take(Regroup(t, from, to), x, from, to)
  <2> HIDE DEF States
  <2> QED BY <1>1, <1>2, RegroupUnfolds
<1>4. <<>> \in S
  <2>1. Number(<<>>, from) = 0 /\ Len(<<>>) = 0 /\ from * 0 = 0 /\ to * 0 = 0 /\ Pow2[0] = 1
    BY NumberAppend, Powers
  <2>2. 0 \div to = 0 /\ (0 % to) = 0 /\ 0 \div 1 = 0
    <3>1. IsQuotient(0, to, 0, 0)
      BY DEF IsQuotient
    <3> QED BY <3>1, Quotient
  <2>3. Digits(0, 0, to) = <<>>
    BY DEF Digits
  <2>4. Regrouped(0, 0, from, to) = start
    BY <2>1, <2>2, <2>3 DEF Regrouped
  <2> QED BY <1>3, <2>1, <2>4
<1>5. ASSUME NEW t \in Seq(Nat), NEW x \in Nat, t \in S PROVE Append(t, x) \in S
  <2>1. Append(t, x) \in Seq(Nat) /\ Len(Append(t, x)) = Len(t) + 1 /\ Len(t) \in Nat
    OBVIOUS
  <2>2. Number(t, from) \in Nat /\ Number(Append(t, x), from) = Number(t, from) + x * Pow2[from * Len(t)]
    BY NumberAppend
  <2>3. Regroup(t, from, to) = Regrouped(Number(t, from), Len(t), from, to)
    BY <1>5
  <2>4. Regroup(Append(t, x), from, to) = Take(Regroup(t, from, to), x, from, to)
    BY <1>3
  <2>5. Take(Regrouped(Number(t, from), Len(t), from, to), x, from, to)
          = Regrouped(Number(t, from) + x * Pow2[from * Len(t)], Len(t) + 1, from, to)
    <3> DEFINE v == Number(t, from)
               l == Len(t)
    <3>1. v \in Nat /\ l \in Nat
      BY <2>1, <2>2
    <3> HIDE DEF v, l
    <3>2. Take(Regrouped(v, l, from, to), x, from, to) = Regrouped(v + x * Pow2[from * l], l + 1, from, to)
      BY <3>1, TakeRegroups
    <3> QED BY <3>2 DEF v, l
  <2>6. Regroup(Append(t, x), from, to)
          = Regrouped(Number(Append(t, x), from), Len(Append(t, x)), from, to)
    BY <2>1, <2>2, <2>3, <2>4, <2>5, Zenon
  <2> QED BY <2>1, <2>6
<1> HIDE DEF S
<1>6. Seq(Nat) \subseteq S
  BY <1>4, <1>5, InductSeq
<1> QED BY <1>6 DEF S

----------------------------------------------------------------------------
(* Damage *)

(***************************************************************************)
(* What a power of two leaves of a number whose low part is A.             *)
(***************************************************************************)
LEMMA LowPart ==
  ASSUME NEW a \in Nat, NEW e \in Nat, NEW A \in 0 .. Pow2[a] - 1, NEW y \in Nat
  PROVE  /\ A + Pow2[a] * y \in Nat
         /\ (A + Pow2[a] * y) % Pow2[a + e] = A + Pow2[a] * (y % Pow2[e])
<1> DEFINE P == Pow2[a]
           E == Pow2[e]
           q == y \div E
           r == y % E
<1>1. P \in Nat \ {0} /\ E \in Nat \ {0} /\ Pow2[a + e] = P * E
  BY Powers, PowersAdd
<1> HIDE DEF P, E
<1>2. y = E * q + r /\ r \in 0 .. E - 1 /\ q \in Nat
  BY <1>1, Remainders
<1>3. A \in Nat /\ A < P
  BY <1>1 DEF P
<1> HIDE DEF q, r
<1>4. P * y = (P * E) * q + P * r
  BY <1>1, <1>2
<1>5. P * r + P <= P * E /\ P * r \in Nat
  <2>1. PICK z \in Nat : E = r + 1 + z
    <3>1. E - (r + 1) \in Nat /\ E = r + 1 + (E - (r + 1))
      BY <1>1, <1>2
    <3> QED BY <3>1
  <2>2. P * (r + 1 + z) = P * r + P + P * z /\ P * z \in Nat /\ P * r \in Nat
    BY <1>1, <1>2, <2>1
  <2>3. P * E = P * r + P + P * z
    BY <2>1, <2>2, Zenon
  <2> QED BY <1>1, <2>2, <2>3
<1>6. P * E \in Nat \ {0} /\ (P * E) * q \in Nat /\ P * y \in Nat
  BY <1>1, <1>2
<1>7. IsQuotient(A + P * y, P * E, q, A + P * r)
  <2> DEFINE Py == P * y
             PE == P * E
             PEq == PE * q
             Pr == P * r
  <2>1. Py = PEq + Pr /\ PEq \in Nat /\ Pr \in Nat /\ Pr + P <= PE /\ PE \in Nat \ {0}
    BY <1>4, <1>5, <1>6
  <2> HIDE DEF Py, PEq, Pr
  <2>2. A + Py = PEq + (A + Pr) /\ A + Pr \in Nat /\ A + Py \in Nat
    BY <1>3, <2>1
  <2> HIDE DEF PE
  <2>3. A + Pr < PE
    BY <1>1, <1>3, <2>1
  <2> QED BY <1>2, <2>1, <2>2, <2>3 DEF IsQuotient, Py, PEq, Pr, PE
<1>8. (A + P * y) % (P * E) = A + P * r
  BY <1>7, Quotient
<1> QED BY <1>1, <1>3, <1>6, <1>8 DEF P, E, r

(***************************************************************************)
(* A division cuts the low part off.                                       *)
(***************************************************************************)
LEMMA HighPart ==
  ASSUME NEW d \in Nat \ {0}, NEW A \in 0 .. d - 1, NEW y \in Nat
  PROVE  A + d * y \in Nat /\ (A + d * y) \div d = y
<1>1. d * y \in Nat
  OBVIOUS
<1>2. IsQuotient(A + d * y, d, y, A)
  BY <1>1 DEF IsQuotient
<1>3. (A + d * y) \div d = y
  BY <1>2, Quotient
<1> QED BY <1>1, <1>3

\* Numbers that differ in s bits at most, from bit k up
Agree(v, x, k, s) ==
  \E lo \in 0 .. Pow2[k] - 1, y \in Nat, z \in Nat :
    v = lo + Pow2[k] * y /\ x = lo + Pow2[k] * z /\ y \div Pow2[s] = z \div Pow2[s]

Place(v, m, w) == (v \div Pow2[w * m]) % Pow2[w]

(***************************************************************************)
(* A septet that is damaged changes its own bits of the number.            *)
(***************************************************************************)
LEMMA DamagedNumber ==
  ASSUME NEW s \in Nat, NEW p \in Seq(0 .. Pow2[s] - 1), NEW i \in 1 .. Len(p), NEW q \in 0 .. Pow2[s] - 1
  PROVE  /\ [p EXCEPT ![i] = q] \in Seq(0 .. Pow2[s] - 1) /\ Len([p EXCEPT ![i] = q]) = Len(p)
         /\ Agree(Number(p, s), Number([p EXCEPT ![i] = q], s), s * (i - 1), s)
<1> DEFINE D == 0 .. Pow2[s] - 1
           a == SubSeq(p, 1, i - 1)
           b == SubSeq(p, i + 1, Len(p))
           r == [p EXCEPT ![i] = q]
           lo == Number(a, s)
           hi == Number(b, s)
           P == Pow2[s * (i - 1)]
           B == Pow2[s]
<1>1. B \in Nat \ {0} /\ D \subseteq Nat /\ i - 1 \in Nat /\ P \in Nat \ {0} /\ i \in Nat /\ Len(p) \in Nat
  <2>1. i - 1 \in Nat /\ i \in Nat /\ Len(p) \in Nat
    OBVIOUS
  <2>2. Pow2[s] \in Nat \ {0} /\ \A n \in Nat : Pow2[s * n] \in Nat \ {0}
    BY PlacePowers
  <2>3. P \in Nat \ {0}
    BY <2>1, <2>2, Zenon
  <2> QED BY <2>1, <2>2, <2>3
<1> HIDE DEF B
<1>2. r \in Seq(D) /\ Len(r) = Len(p)
  BY DEF B
<1>3. /\ a \in Seq(D) /\ Len(a) = i - 1 /\ \A k \in 1 .. i - 1 : a[k] = p[k]
      /\ b \in Seq(D) /\ Len(b) = Len(p) - i /\ \A k \in 1 .. Len(p) - i : b[k] = p[i + k]
  <2>1. \A k \in 1 .. Len(p) : p[k] \in D
    BY ElementOfSeq
  <2>2. (1 .. i - 1) \subseteq (1 .. Len(p)) /\ (i + 1 .. Len(p)) \subseteq (1 .. Len(p)) /\ i + 1 \in Int /\ 1 \in Int
    BY <1>1
  <2>3. i - 1 \in Int /\ Len(p) \in Int /\ (1 <= i - 1 \/ i - 1 = 0) /\ (i + 1 <= Len(p) \/ Len(p) = i)
    BY <1>1
  <2> HIDE DEF D
  <2>4. a \in Seq(D) /\ Len(a) = i - 1 /\ \A k \in 1 .. i - 1 : a[k] = p[k]
    <3>1. \A k \in 1 .. i - 1 : p[k] \in D
      BY <2>1, <2>2
    <3>2. /\ a \in Seq(D) /\ Len(a) = IF 1 <= i - 1 THEN (i - 1) - 1 + 1 ELSE 0
          /\ \A k \in 1 .. (i - 1) - 1 + 1 : a[k] = p[1 + k - 1]
      BY <2>2, <2>3, <3>1, SubSeqProperties
    <3>3. (i - 1) - 1 + 1 = i - 1 /\ \A k \in 1 .. i - 1 : 1 + k - 1 = k
      BY <1>1
    <3> HIDE DEF a
    <3> QED BY <2>3, <3>2, <3>3
  <2>5. b \in Seq(D) /\ Len(b) = Len(p) - i /\ \A k \in 1 .. Len(p) - i : b[k] = p[i + k]
    <3>1. \A k \in i + 1 .. Len(p) : p[k] \in D
      BY <2>1, <2>2
    <3>2. /\ b \in Seq(D) /\ Len(b) = IF i + 1 <= Len(p) THEN Len(p) - (i + 1) + 1 ELSE 0
          /\ \A k \in 1 .. Len(p) - (i + 1) + 1 : b[k] = p[(i + 1) + k - 1]
      BY <2>2, <2>3, <3>1, SubSeqProperties
    <3>3. Len(p) - (i + 1) + 1 = Len(p) - i /\ \A k \in 1 .. Len(p) - i : (i + 1) + k - 1 = i + k
      BY <1>1
    <3> HIDE DEF b
    <3>4. Len(b) = Len(p) - i
      <4>1. CASE i + 1 <= Len(p)
        BY <3>2, <3>3, <4>1, Zenon
      <4>2. CASE ~(i + 1 <= Len(p))
        <5>1. Len(b) = 0
          BY <3>2, <4>2, Zenon
        <5>2. Len(p) - i = 0
          <6> HIDE DEF P, D
          <6> QED BY <1>1, <2>3, <4>2
        <5> QED BY <5>1, <5>2, Zenon
      <4> QED BY <4>1, <4>2
    <3>5. \A k \in 1 .. Len(p) - i : b[k] = p[i + k]
      <4> TAKE k \in 1 .. Len(p) - i
      <4>1. b[k] = p[(i + 1) + k - 1]
        BY <3>2, <3>3, Zenon
      <4> QED BY <3>3, <4>1, Zenon
    <3> QED BY <3>2, <3>4, <3>5
  <2> QED BY <2>4, <2>5
<1>4. ASSUME NEW t \in Seq(D), Len(t) = Len(p), \A k \in (1 .. Len(p)) \ {i} : t[k] = p[k]
      PROVE  t = (a \o <<t[i]>>) \o b /\ t[i] \in D
  <2> HIDE DEF D
  <2>1. t[i] \in D
    BY <1>4, ElementOfSeq
  <2> DEFINE c == a \o <<t[i]>>
             u == c \o b
  <2> HIDE DEF a, b
  <2>2. /\ c \in Seq(D) /\ Len(c) = i /\ c[i] = t[i]
        /\ \A k \in 1 .. i - 1 : c[k] = a[k]
    BY <1>1, <1>3, <2>1
  <2> HIDE DEF c
  <2>3. /\ u \in Seq(D) /\ Len(u) = i + Len(b)
        /\ \A k \in 1 .. i : u[k] = c[k]
        /\ \A k \in 1 .. Len(b) : u[i + k] = b[k]
    <3> HIDE DEF D
    <3>1. c \in Seq(D) /\ b \in Seq(D)
      BY <1>3, <2>2
    <3>2. /\ u \in Seq(D) /\ Len(u) = Len(c) + Len(b)
          /\ \A k \in 1 .. Len(c) : u[k] = c[k]
          /\ \A k \in 1 .. Len(b) : u[Len(c) + k] = b[k]
      BY <3>1, Joins
    <3> QED BY <2>2, <3>2
  <2> HIDE DEF u
  <2>4. Len(u) = Len(t)
    BY <1>1, <1>3, <1>4, <2>3
  <2>5. ASSUME NEW k \in 1 .. Len(u) PROVE u[k] = t[k]
    <3>1. CASE k < i
      BY <1>1, <1>3, <1>4, <2>2, <2>3, <2>4, <3>1
    <3>2. CASE k = i
      BY <1>1, <2>2, <2>3, <3>2
    <3>3. CASE k > i
      <4>1. k - i \in 1 .. Len(b) /\ i + (k - i) = k /\ k \in (1 .. Len(p)) \ {i}
        BY <1>1, <1>3, <1>4, <2>4, <3>3
      <4> QED BY <1>3, <1>4, <2>3, <4>1
    <3> QED BY <1>1, <3>1, <3>2, <3>3
  <2>6. u = t
    BY <1>4, <2>3, <2>4, <2>5, SeqEqual
  <2> QED BY <2>1, <2>6 DEF u, c
<1>5. \A x \in D : Number((a \o <<x>>) \o b, s) = lo + P * (x + B * hi)
  <2> TAKE x \in D
  <2>1. a \in Seq(Nat) /\ b \in Seq(Nat) /\ <<x>> \in Seq(Nat) /\ a \o <<x>> \in Seq(Nat)
    <3>1. a \in Seq(Nat) /\ b \in Seq(Nat) /\ <<x>> \in Seq(Nat)
      <4>1. x \in Nat /\ D \subseteq Nat
        BY <1>1
      <4> HIDE DEF D, a, b
      <4>2. a \in Seq(Nat)
        BY <1>3, <4>1, SeqMonotonic
      <4>3. b \in Seq(Nat)
        BY <1>3, <4>1, SeqMonotonic
      <4> QED BY <4>1, <4>2, <4>3
    <3> QED BY <3>1, ConcatProperties
  <2>2. Number(a \o <<x>>, s) = lo + x * P
    <3>1. Append(a, x) = a \o <<x>>
      BY <1>1, <1>3, AppendIsConcat
    <3>2. x \in Nat
      BY <1>1
    <3>3. \A t \in Seq(Nat), n \in Nat : Number(Append(t, n), s) = Number(t, s) + n * Pow2[s * Len(t)]
      BY NumberAppend
    <3> HIDE DEF a
    <3>4. Number(Append(a, x), s) = lo + x * Pow2[s * Len(a)]
      BY <2>1, <3>2, <3>3, Zenon
    <3> QED BY <1>3, <3>1, <3>4, Zenon
  <2>3. Len(a \o <<x>>) = i
    BY <1>1, <1>3
  <2>4. Number((a \o <<x>>) \o b, s) = Number(a \o <<x>>, s) + Pow2[s * Len(a \o <<x>>)] * hi
    <3> HIDE DEF a, b
    <3> QED BY <2>1, NumberConcat
  <2>5. Pow2[s * i] = P * B
    <3>1. \A m \in Nat : Pow2[s * (m + 1)] = Pow2[s * m] * Pow2[s]
      BY PlacePowers
    <3>2. (i - 1) + 1 = i
      BY <1>1
    <3>3. Pow2[s * ((i - 1) + 1)] = P * B
      BY <1>1, <3>1, Zenon DEF B
    <3> QED BY <3>2, <3>3, Zenon
  <2>6. lo \in Nat /\ hi \in Nat
    BY <2>1, NumberAppend
  <2> HIDE DEF lo, hi, P
  <2>7. x * P + (P * B) * hi = P * (x + B * hi)
    BY <1>1, <2>6
  <2>8. Number((a \o <<x>>) \o b, s) = (lo + x * P) + (P * B) * hi
    BY <2>2, <2>3, <2>4, <2>5, Zenon
  <2>9. x * P \in Nat /\ (P * B) * hi \in Nat
    BY <1>1, <2>6
  <2> QED BY <2>6, <2>7, <2>8, <2>9
<1>6. lo \in 0 .. P - 1 /\ hi \in Nat
  <2>1. a \in Seq(0 .. Pow2[s] - 1) /\ b \in Seq(0 .. Pow2[s] - 1)
    BY <1>3 DEF B
  <2> HIDE DEF a, b
  <2>2. lo \in 0 .. Pow2[s * Len(a)] - 1 /\ b \in Seq(Nat)
    BY <2>1, NumberBound
  <2>3. hi \in Nat
    BY <2>2, NumberAppend
  <2> QED BY <1>3, <2>2, <2>3
<1> DEFINE y == p[i] + B * hi
           z == q + B * hi
<1>7. p[i] \in D /\ q \in D
  BY <1>4 DEF B
<1>8. Number(p, s) = lo + P * y /\ Number(r, s) = lo + P * z
  <2>1. p = (a \o <<p[i]>>) \o b
    <3>1. p \in Seq(D)
      BY DEF B
    <3> QED BY <1>4, <3>1
  <2>2. r = (a \o <<q>>) \o b
    <3>1. r[i] = q /\ \A k \in (1 .. Len(p)) \ {i} : r[k] = p[k]
      OBVIOUS
    <3>2. r = (a \o <<r[i]>>) \o b
      <4> HIDE DEF r
      <4> QED BY <1>2, <1>4, <3>1
    <3> QED BY <3>1, <3>2
  <2> HIDE DEF a, b, lo, hi, P, D, r
  <2> QED BY <1>5, <1>7, <2>1, <2>2, Zenon
<1>9. y \in Nat /\ z \in Nat /\ y \div B = z \div B
  <2> HIDE DEF hi
  <2>1. p[i] \in 0 .. Pow2[s] - 1 /\ q \in 0 .. Pow2[s] - 1
    BY <1>7 DEF B
  <2>2. \A x \in 0 .. Pow2[s] - 1 : x + Pow2[s] * hi \in Nat /\ (x + Pow2[s] * hi) \div Pow2[s] = hi
    <3> TAKE x \in 0 .. Pow2[s] - 1
    <3>1. Pow2[s] \in Nat \ {0}
      BY <1>1 DEF B
    <3> QED BY <1>6, <3>1, HighPart
  <2> QED BY <2>1, <2>2 DEF B
<1>10. Agree(Number(p, s), Number(r, s), s * (i - 1), s)
  <2> HIDE DEF y, z, r, lo, hi
  <2>1. lo \in 0 .. Pow2[s * (i - 1)] - 1
    BY <1>6
  <2> QED BY <1>8, <1>9, <2>1, Zenon DEF Agree, P, B
<1> QED BY <1>2, <1>10 DEF B

(***************************************************************************)
(* A place is a digit.                                                     *)
(***************************************************************************)
LEMMA PlaceIsDigit ==
  ASSUME NEW w \in Nat, NEW v \in Nat, NEW m \in Nat, NEW n \in Nat, m < n
  PROVE  /\ Digits(v, n, w)[m + 1] = Place(v, m, w)
         /\ Place(v, m, w) \in 0 .. Pow2[w] - 1
<1>1. m + 1 \in 1 .. n /\ (m + 1) - 1 = m
  OBVIOUS
<1>2. Pow2[w] \in Nat \ {0} /\ Pow2[w * m] \in Nat \ {0}
  BY PlacePowers
<1>3. v \div Pow2[w * m] \in Nat
  BY <1>2, Remainders
<1>4. Place(v, m, w) \in 0 .. Pow2[w] - 1
  BY <1>2, <1>3, Remainders DEF Place
<1>5. Digits(v, n, w)[m + 1] = (v \div Pow2[w * ((m + 1) - 1)]) % Pow2[w]
  BY <1>1, DigitsTyped
<1> QED BY <1>1, <1>4, <1>5 DEF Place

(***************************************************************************)
(* Bytes below the damaged bits are the same, ...                          *)
(***************************************************************************)
LEMMA PlacesBelow ==
  ASSUME NEW w \in Nat, NEW k \in Nat, NEW s, NEW v \in Nat, NEW x \in Nat, Agree(v, x, k, s),
         NEW m \in Nat, w * (m + 1) <= k
  PROVE  Place(v, m, w) = Place(x, m, w)
<1>1. PICK lo \in 0 .. Pow2[k] - 1, y \in Nat, z \in Nat : v = lo + Pow2[k] * y /\ x = lo + Pow2[k] * z
  BY Zenon DEF Agree
<1>2. m + 1 \in Nat /\ w * (m + 1) \in Nat /\ m < m + 1
  OBVIOUS
<1>3. lo \in Nat
  <2>1. Pow2[k] \in Nat
    BY Powers
  <2> QED BY <1>1, <2>1
<1>4. ASSUME NEW t \in Nat, NEW h \in Nat, t = lo + Pow2[k] * h
      PROVE  Place(t, m, w) = Place(lo, m, w)
  <2> DEFINE P == Pow2[w * (m + 1)]
             Q == Pow2[k - w * (m + 1)]
  <2>1. Pow2[k] = P * Q /\ P \in Nat /\ Q \in Nat
    <3>1. k - w * (m + 1) \in Nat
      BY <1>2
    <3> QED BY <1>2, <3>1, PowersGrow, Powers
  <2> HIDE DEF Q
  <2>2. Q * h \in Nat
    BY <2>1, Products
  <2>3. t = lo + P * (Q * h)
    <3> HIDE DEF P
    <3>1. (P * Q) * h = P * (Q * h)
      BY <2>1
    <3> QED BY <1>4, <2>1, <3>1
  <2>4. Digits(t, m + 1, w) = Digits(lo, m + 1, w)
    BY <1>2, <1>3, <2>2, <2>3, DigitsSame
  <2>5. Digits(t, m + 1, w)[m + 1] = Place(t, m, w) /\ Digits(lo, m + 1, w)[m + 1] = Place(lo, m, w)
    BY <1>2, <1>3, PlaceIsDigit
  <2> QED BY <2>4, <2>5, Zenon
<1> QED BY <1>1, <1>4

(***************************************************************************)
(* ... and so are bytes above them.                                        *)
(***************************************************************************)
LEMMA PlacesAbove ==
  ASSUME NEW w \in Nat, NEW k \in Nat, NEW s \in Nat, NEW v \in Nat, NEW x \in Nat, Agree(v, x, k, s)
  PROVE  \A n \in Nat : n >= k + s => v \div Pow2[n] = x \div Pow2[n]
<1> SUFFICES ASSUME NEW n \in Nat, n >= k + s PROVE v \div Pow2[n] = x \div Pow2[n]
  OBVIOUS
<1>1. PICK lo \in 0 .. Pow2[k] - 1, y \in Nat, z \in Nat :
        v = lo + Pow2[k] * y /\ x = lo + Pow2[k] * z /\ y \div Pow2[s] = z \div Pow2[s]
  BY Zenon DEF Agree
<1> DEFINE K == Pow2[k]
           S == Pow2[s]
           R == Pow2[n - (k + s)]
<1>2. K \in Nat \ {0} /\ S \in Nat \ {0} /\ R \in Nat \ {0} /\ Pow2[n] = (K * S) * R
  <2>1. n - (k + s) \in Nat /\ k + s \in Nat
    OBVIOUS
  <2>2. Pow2[n] = Pow2[k + s] * R
    BY <2>1, PowersGrow
  <2>3. Pow2[k + s] = K * S
    BY PowersAdd
  <2>4. K \in Nat \ {0} /\ S \in Nat \ {0} /\ R \in Nat \ {0}
    BY <2>1, Powers
  <2> QED BY <2>2, <2>3, <2>4
<1>3. lo \in 0 .. K - 1 /\ v = lo + K * y /\ x = lo + K * z /\ y \div S = z \div S
  BY <1>1
<1> HIDE DEF K, S, R
<1>4. v \div K = y /\ x \div K = z
  BY <1>2, <1>3, HighPart
<1>5. ASSUME NEW t \in Nat PROVE t \div Pow2[n] = ((t \div K) \div S) \div R
  <2>1. K * S \in Nat \ {0}
    BY <1>2
  <2>2. (t \div K) \div S = t \div (K * S)
    <3>1. K \in Nat \ {0} /\ S \in Nat \ {0}
      BY <1>2
    <3> QED BY ONLY <3>1, t \in Nat, QuotientTwice
  <2>3. (t \div (K * S)) \div R = t \div ((K * S) * R)
    <3> DEFINE KS == K * S
    <3>1. KS \in Nat \ {0} /\ R \in Nat \ {0}
      BY <1>2, <2>1
    <3> HIDE DEF KS
    <3>2. (t \div KS) \div R = t \div (KS * R)
      BY ONLY <3>1, t \in Nat, QuotientTwice
    <3> QED BY <3>2 DEF KS
  <2> QED BY <1>2, <2>2, <2>3, Zenon
<1>6. v \div Pow2[n] = (y \div S) \div R /\ x \div Pow2[n] = (z \div S) \div R
  BY <1>4, <1>5, Zenon
<1> QED BY <1>3, <1>6, Zenon

\* Numbers that differ by a multiple of d, or by less than d
SharesLow(v, x, d) == \E c, a, b \in Nat : v = c + d * a /\ x = c + d * b
SharesHigh(v, x, d) == \E c \in Nat : \E a, b \in 0 .. d - 1 : v = c + a /\ x = c + b

(***************************************************************************)
(* The byte in which the damaged bits begin is the same below them, and    *)
(* the next one is the same above them, whether they reach it or not.      *)
(***************************************************************************)
LEMMA PlacesAt ==
  ASSUME NEW w \in Nat, NEW s \in Nat, s < w, NEW j \in Nat, NEW r \in 0 .. w - 1,
         NEW v \in Nat, NEW x \in Nat, Agree(v, x, w * j + r, s)
  PROVE  /\ SharesLow(Place(v, j, w), Place(x, j, w), Pow2[r])
         /\ SharesHigh(Place(v, j + 1, w), Place(x, j + 1, w), Pow2[r])
<1> DEFINE P == Pow2[w * j]
           R == Pow2[r]
           Q == Pow2[w - r]
<1>1. r \in Nat /\ w - r \in Nat /\ r + (w - r) = w /\ w * j \in Nat
  OBVIOUS
<1>2. /\ P \in Nat \ {0} /\ R \in Nat \ {0} /\ Q \in Nat \ {0}
      /\ Pow2[w * j + r] = P * R /\ Pow2[w] = R * Q
  <2>1. \A a, b \in Nat : Pow2[a + b] = Pow2[a] * Pow2[b]
    BY PowersAdd
  <2>2. Pow2[r + (w - r)] = R * Q
    BY <1>1, <2>1, Zenon
  <2>3. Pow2[w * j + r] = P * R
    BY <1>1, <2>1, Zenon
  <2>4. P \in Nat \ {0} /\ R \in Nat \ {0} /\ Q \in Nat \ {0}
    BY <1>1, Powers
  <2> QED BY <1>1, <2>2, <2>3, <2>4, Zenon
<1>3. \E c, a, b \in Nat : Place(v, j, w) = c + R * a /\ Place(x, j, w) = c + R * b
  <2>1. PICK lo \in 0 .. (P * R) - 1, y \in Nat, z \in Nat : v = lo + (P * R) * y /\ x = lo + (P * R) * z
    BY <1>2, Zenon DEF Agree
  <2> DEFINE c == lo \div P
  <2>2. c \in 0 .. R - 1
    <3>1. lo = P * c + (lo % P) /\ (lo % P) \in 0 .. P - 1 /\ c \in Nat
      <4>1. lo \in Nat
        BY <1>2, <2>1
      <4> HIDE DEF P
      <4> QED BY <1>2, <4>1, Remainders
    <3>2. lo < P * R /\ lo \in Nat /\ P * R \in Nat
      BY <1>2, <2>1
    <3>3. SUFFICES ASSUME c >= R PROVE FALSE
      BY <1>2, <3>1
    <3>4. PICK e \in Nat : c = R + e
      <4>1. c - R \in Nat /\ c = R + (c - R)
        <5> HIDE DEF P, R, Q, c
        <5> QED BY <1>2, <3>1, <3>3
      <4> QED BY <4>1
    <3>5. P * c = P * R + P * e /\ P * e \in Nat
      <4> HIDE DEF P, R, c
      <4> QED BY <1>2, <3>4
    <3> HIDE DEF P, R, c
    <3> QED BY <1>2, <3>1, <3>2, <3>5
  <2>3. ASSUME NEW t \in Nat, NEW h \in Nat, t = lo + (P * R) * h
        PROVE  Place(t, j, w) = c + R * (h % Q)
    <3>1. t \div P = c + R * h
      <4>1. R * h \in Nat /\ (P * R) * h = P * (R * h) /\ lo \in Nat
        <5> HIDE DEF P, R
        <5> QED BY <1>2, <2>1
      <4>2. IsShifted(t, lo, P, R * h)
        BY <1>2, <2>3, <4>1 DEF IsShifted
      <4> QED BY <4>2, AddMultiple
    <3>2. (c + R * h) % Pow2[r + (w - r)] = c + R * (h % Q)
      <4> HIDE DEF c
      <4> QED BY <1>1, <2>2, LowPart
    <3> HIDE DEF c, P, R, Q
    <3> QED BY <1>1, <3>1, <3>2, Zenon DEF Place, P
  <2>4. (y % Q) \in Nat /\ (z % Q) \in Nat
    <3> HIDE DEF P, R, Q
    <3> QED BY <1>2, Remainders
  <2>5. Place(v, j, w) = c + R * (y % Q) /\ Place(x, j, w) = c + R * (z % Q)
    BY <2>1, <2>3
  <2>6. c \in Nat
    BY <1>2, <2>2
  <2> HIDE DEF c, R, Q
  <2> QED BY <2>4, <2>5, <2>6, Zenon
<1>4. \E c \in Nat : \E a, b \in 0 .. R - 1 : Place(v, j + 1, w) = c + a /\ Place(x, j + 1, w) = c + b
  <2> DEFINE H == Pow2[w * (j + 1)]
             n == w * (j + 1) + r
             h == v \div Pow2[n]
             c == R * (h % Q)
  <2>1. w * (j + 1) \in Nat /\ n \in Nat /\ n >= (w * j + r) + s /\ w * j + r \in Nat
    <3>1. w * (j + 1) = w * j + w
      OBVIOUS
    <3> QED BY <1>1, <3>1
  <2>2. Pow2[n] = H * R /\ H \in Nat \ {0} /\ Pow2[n] \in Nat \ {0}
    BY <1>1, <2>1, PowersAdd, Powers
  <2>3. v \div Pow2[n] = x \div Pow2[n]
    BY <2>1, PlacesAbove
  <2> HIDE DEF n
  <2>4. h \in Nat /\ (h % Q) \in Nat /\ c \in Nat
    <3>1. h \in Nat
      BY <2>2, Remainders
    <3> HIDE DEF h, R, Q
    <3>2. (h % Q) \in Nat
      BY <1>2, <3>1, Remainders
    <3> QED BY <1>2, <3>1, <3>2
  <2>5. ASSUME NEW t \in Nat, t \div Pow2[n] = h
        PROVE  \E a \in 0 .. R - 1 : Place(t, j + 1, w) = c + a
    <3> DEFINE u == t \div H
               a == u % R
    <3>1. u \in Nat /\ u \div R = h
      <4>1. u \in Nat
        BY <2>2, Remainders
      <4>2. u \div R = t \div (H * R)
        <5> HIDE DEF H, R
        <5>1. H \in Nat \ {0} /\ R \in Nat \ {0}
          BY <1>2, <2>2
        <5> QED BY ONLY <5>1, t \in Nat, QuotientTwice
      <4> QED BY <2>2, <2>5, <4>1, <4>2, Zenon
    <3>2. u = R * h + a /\ a \in 0 .. R - 1
      <4> HIDE DEF u
      <4> QED BY <1>2, <3>1, Remainders
    <3> HIDE DEF a
    <3>3. (a + R * h) % Pow2[r + (w - r)] = a + c
      <4> HIDE DEF h, u
      <4> QED BY <1>1, <2>4, <3>2, LowPart
    <3>4. a + R * h = R * h + a /\ a + c = c + a
      <4> HIDE DEF c, h, u
      <4>1. R * h \in Nat /\ a \in Nat
        BY <1>2, <2>4, <3>2
      <4> QED BY <2>4, <4>1
    <3> HIDE DEF h, c
    <3>5. Place(t, j + 1, w) = c + a
      <4>1. u % Pow2[w] = c + a
        BY <1>1, <3>2, <3>3, <3>4, Zenon
      <4> QED BY <4>1 DEF Place
    <3> QED BY <3>2, <3>5
  <2> HIDE DEF c, h
  <2>6. \E a \in 0 .. R - 1 : Place(v, j + 1, w) = c + a
    BY <2>5 DEF h
  <2>7. \E a \in 0 .. R - 1 : Place(x, j + 1, w) = c + a
    BY <2>3, <2>5 DEF h
  <2> HIDE DEF R
  <2> QED BY <2>4, <2>6, <2>7, Zenon
<1> QED BY <1>3, <1>4, Zenon DEF SharesLow, SharesHigh

IsMultiple(e, d) == e \in Int /\ \E z \in Int : e = d * z

(***************************************************************************)
(* A multiple that is smaller than what it is one of is 0.                 *)
(***************************************************************************)
LEMMA SmallMultiple ==
  ASSUME NEW d \in Nat \ {0}, NEW e, IsMultiple(e, d), -d < e, e < d
  PROVE  e = 0
<1>1. PICK z \in Int : e = d * z /\ e \in Int
  BY Zenon DEF IsMultiple
<1>2. ASSUME NEW y \in Nat \ {0} PROVE d * y >= d
  <2>1. PICK u \in Nat : y = u + 1
    <3>1. y - 1 \in Nat /\ y = (y - 1) + 1
      OBVIOUS
    <3> QED BY <3>1
  <2>2. d * (u + 1) = d * u + d /\ d * u \in Nat
    OBVIOUS
  <2> QED BY <2>1, <2>2
<1>3. CASE z = 0
  BY <1>1, <1>3
<1>4. CASE z > 0
  <2>1. d * z >= d
    BY <1>2, <1>4
  <2> QED BY <1>1, <2>1
<1>5. CASE z < 0
  <2>1. -z \in Nat \ {0}
    BY <1>5
  <2>2. d * (-z) >= d
    BY <1>2, <2>1
  <2>3. d * (-z) = -(d * z) /\ d * z \in Int
    OBVIOUS
  <2> QED BY <1>1, <2>2, <2>3
<1> QED BY <1>3, <1>4, <1>5

(***************************************************************************)
(* Numbers of the same remainder differ by a multiple.                     *)
(***************************************************************************)
LEMMA SameRemainder ==
  ASSUME NEW d \in Nat \ {0}, NEW a \in Nat, NEW b \in Nat, (a % d) = (b % d)
  PROVE  IsMultiple(b - a, d)
<1> DEFINE p == a \div d
           q == b \div d
           r == a % d
           s == b % d
<1>1. a = d * p + r /\ b = d * q + s /\ p \in Nat /\ q \in Nat /\ r \in 0 .. d - 1 /\ s \in 0 .. d - 1 /\ r = s
  BY Remainders
<1> HIDE DEF p, q, r, s
<1>2. q - p \in Int /\ d * (q - p) = d * q - d * p /\ d * q \in Nat /\ d * p \in Nat
  BY <1>1
<1>3. b - a = d * (q - p) /\ b - a \in Int
  BY <1>1, <1>2
<1> QED BY <1>2, <1>3 DEF IsMultiple

(***************************************************************************)
(* A digit more is summed.                                                 *)
(***************************************************************************)
LEMMA SumDigits ==
  ASSUME NEW w \in Nat, NEW v \in Nat, NEW m \in Nat
  PROVE  /\ Sum(Digits(v, 0, w)) = 0 /\ Sum(Digits(v, m, w)) \in Nat
         /\ Sum(Digits(v, m + 1, w)) = Sum(Digits(v, m, w)) + Place(v, m, w)
<1> DEFINE s == Digits(v, m, w)
           x == Place(v, m, w)
<1>1. Pow2[w] \in Nat \ {0} /\ Pow2[w * m] \in Nat \ {0} /\ v \div Pow2[w * m] \in Nat /\ x \in Nat
  <2>1. Pow2[w] \in Nat \ {0} /\ Pow2[w * m] \in Nat \ {0}
    BY PlacePowers
  <2>2. v \div Pow2[w * m] \in Nat
    BY <2>1, Remainders
  <2>3. (v \div Pow2[w * m]) % Pow2[w] \in 0 .. Pow2[w] - 1
    BY <2>1, <2>2, Remainders
  <2> QED BY <2>1, <2>2, <2>3 DEF Place
<1>2. s \in Seq(Nat) /\ Digits(v, 0, w) = <<>>
  <2>1. \A n \in Nat : Digits(v, n, w) \in Seq(0 .. Pow2[w] - 1) /\ Len(Digits(v, n, w)) = n
    BY DigitsTyped
  <2>2. 0 .. Pow2[w] - 1 \subseteq Nat
    BY <1>1
  <2>3. s \in Seq(Nat)
    BY <2>1, <2>2, SeqMonotonic
  <2>4. Digits(v, 0, w) = <<>>
    BY DEF Digits
  <2> QED BY <2>3, <2>4
<1>3. Digits(v, m + 1, w) = s \o <<x>>
  <2>1. 1 \in Nat
    OBVIOUS
  <2>2. Digits(v, m + 1, w) = s \o Digits(v \div Pow2[w * m], 1, w)
    BY <2>1, DigitsConcat
  <2>3. Digits(v \div Pow2[w * m], 1, w) = <<x>>
    BY <1>1, OneDigit DEF Place
  <2> QED BY <2>2, <2>3
<1> HIDE DEF s, x
<1>4. s \o <<x>> = Append(s, x)
  BY <1>1, <1>2, AppendIsConcat
<1>5. Sum(Append(s, x)) = Sum(s) + x /\ Sum(s) \in Nat /\ Sum(<<>>) = 0
  BY <1>1, <1>2, SumAppend
<1> QED BY <1>2, <1>3, <1>4, <1>5 DEF s, x

(***************************************************************************)
(* Bytes of two numbers that differ in less bits than a byte has, and that *)
(* have the same sum modulo a byte, are the same bytes.                    *)
(***************************************************************************)
LEMMA SumTells ==
  ASSUME NEW w \in Nat, NEW s \in Nat, s < w, NEW k \in Nat, NEW v \in Nat, NEW x \in Nat, Agree(v, x, k, s),
         NEW n \in Nat, (Sum(Digits(v, n, w)) % Pow2[w]) = (Sum(Digits(x, n, w)) % Pow2[w])
  PROVE  Digits(v, n, w) = Digits(x, n, w)
<1> DEFINE j == k \div w
           r == k % w
           e0 == Place(x, j, w) - Place(v, j, w)
           e1 == Place(x, j + 1, w) - Place(v, j + 1, w)
           W == Pow2[w]
           R == Pow2[r]
           Q == Pow2[w - r]
<1>1. w \in Nat \ {0} /\ j \in Nat /\ r \in 0 .. w - 1 /\ k = w * j + r /\ j + 1 \in Nat
  <2>1. w \in Nat \ {0}
    OBVIOUS
  <2> QED BY <2>1, Remainders
<1> HIDE DEF j, r
<1>2. W \in Nat \ {0} /\ R \in Nat \ {0} /\ Q \in Nat \ {0} /\ W = R * Q
  <2>1. r \in Nat /\ w - r \in Nat /\ r <= w
    BY <1>1
  <2> QED BY <2>1, Powers, PowersGrow
<1>3. \A t \in {v, x}, m \in Nat : Place(t, m, w) \in 0 .. W - 1
  <2>1. \A m \in Nat : m < m + 1 /\ m + 1 \in Nat
    OBVIOUS
  <2> QED BY <2>1, PlaceIsDigit
<1>4. \A m \in Nat : m # j /\ m # j + 1 => Place(v, m, w) = Place(x, m, w)
  <2> TAKE m \in Nat
  <2> SUFFICES ASSUME m # j, m # j + 1 PROVE Place(v, m, w) = Place(x, m, w)
    OBVIOUS
  <2>1. CASE m < j
    <3>1. w * (m + 1) <= w * j
      <4>1. PICK d \in Nat : j = (m + 1) + d
        <5>1. j - (m + 1) \in Nat /\ j = (m + 1) + (j - (m + 1))
          BY <1>1, <2>1
        <5> QED BY <5>1
      <4>2. w * ((m + 1) + d) = w * (m + 1) + w * d /\ w * d \in Nat /\ w * (m + 1) \in Nat
        OBVIOUS
      <4> QED BY <4>1, <4>2
    <3>2. w * (m + 1) <= k
      <4>1. w * (m + 1) \in Nat /\ w * j \in Nat
        BY <1>1
      <4> QED BY <1>1, <3>1, <4>1
    <3> QED BY <3>2, PlacesBelow
  <2>2. CASE m > j + 1
    <3>1. w * m >= k + s /\ w * m \in Nat
      <4>1. PICK d \in Nat : m = (j + 2) + d
        <5>1. m - (j + 2) \in Nat /\ m = (j + 2) + (m - (j + 2))
          BY <1>1, <2>2
        <5> QED BY <5>1
      <4>2. w * ((j + 2) + d) = w * j + w + w + w * d /\ w * d \in Nat /\ w * j \in Nat
        BY <1>1
      <4> QED BY <1>1, <4>1, <4>2
    <3>2. v \div Pow2[w * m] = x \div Pow2[w * m]
      BY <3>1, PlacesAbove
    <3> QED BY <3>2 DEF Place
  <2> QED BY <1>1, <2>1, <2>2
<1>5. /\ SharesLow(Place(v, j, w), Place(x, j, w), R)
      /\ SharesHigh(Place(v, j + 1, w), Place(x, j + 1, w), R)
  <2>1. Agree(v, x, w * j + r, s)
    BY <1>1
  <2>2. j \in Nat /\ r \in 0 .. w - 1
    BY <1>1
  <2> QED BY <2>1, <2>2, PlacesAt
<1>6. /\ e0 \in Int /\ e1 \in Int /\ -W < e0 /\ e0 < W /\ IsMultiple(e0, R) /\ -R < e1 /\ e1 < R
  <2>1. Place(v, j, w) \in 0 .. W - 1 /\ Place(x, j, w) \in 0 .. W - 1
    BY <1>1, <1>3
  <2> HIDE DEF W, R
  <2>2. e0 \in Int /\ -W < e0 /\ e0 < W
    BY <1>2, <2>1
  <2>3. IsMultiple(e0, R)
    <3>1. PICK c, a, b \in Nat : Place(v, j, w) = c + R * a /\ Place(x, j, w) = c + R * b
      BY <1>5, Zenon DEF SharesLow
    <3>2. b - a \in Int /\ R * (b - a) = R * b - R * a /\ R * a \in Nat /\ R * b \in Nat
      BY <1>2, <3>1
    <3>3. e0 = R * (b - a)
      BY <3>1, <3>2
    <3> HIDE DEF e0
    <3> QED BY <2>2, <3>2, <3>3 DEF IsMultiple
  <2>4. e1 \in Int /\ -R < e1 /\ e1 < R
    <3>1. PICK c \in Nat : \E a, b \in 0 .. R - 1 :
             Place(v, j + 1, w) = c + a /\ Place(x, j + 1, w) = c + b
      BY <1>5, Zenon DEF SharesHigh
    <3> QED BY <1>2, <3>1
  <2> QED BY <2>2, <2>3, <2>4
<1> DEFINE D(t, m) == Sum(Digits(t, m, w))
           g(m) == IF m <= j THEN 0 ELSE IF m = j + 1 THEN e0 ELSE e0 + e1
           M == {m \in Nat : D(x, m) - D(v, m) = g(m)}
<1>7. n \in M
  <2>1. \A t \in {v, x}, m \in Nat :
          D(t, 0) = 0 /\ D(t, m) \in Nat /\ D(t, m + 1) = D(t, m) + Place(t, m, w)
    BY SumDigits
  <2> HIDE DEF D
  <2>2. 0 \in M
    BY <1>1, <2>1
  <2>3. ASSUME NEW m \in Nat, m \in M PROVE m + 1 \in M
    <3>1. /\ D(x, m + 1) = D(x, m) + Place(x, m, w) /\ D(v, m + 1) = D(v, m) + Place(v, m, w)
          /\ D(x, m) \in Nat /\ D(v, m) \in Nat
          /\ Place(x, m, w) \in Int /\ Place(v, m, w) \in Int
      <4>1. Place(x, m, w) \in Int /\ Place(v, m, w) \in Int
        <5> HIDE DEF W
        <5> QED BY <1>2, <1>3
      <4> QED BY <2>1, <4>1
    <3>2. D(x, m + 1) - D(v, m + 1) = g(m) + (Place(x, m, w) - Place(v, m, w))
      BY <2>3, <3>1
    <3>3. g(m + 1) = g(m) + (Place(x, m, w) - Place(v, m, w))
      <4>1. CASE m = j
        BY <1>1, <1>6, <4>1
      <4>2. CASE m = j + 1
        BY <1>1, <1>6, <4>2
      <4>3. CASE m # j /\ m # j + 1
        <5>1. Place(x, m, w) - Place(v, m, w) = 0
          BY <1>4, <3>1, <4>3
        <5> HIDE DEF e0, e1
        <5>2. g(m + 1) = g(m) /\ g(m) \in Int
          BY <1>1, <1>6, <4>3
        <5> HIDE DEF g
        <5> QED BY <5>1, <5>2
      <4> QED BY <4>1, <4>2, <4>3
    <3> QED BY <3>2, <3>3
  <2> HIDE DEF M
  <2>4. Nat \subseteq M
    BY <2>2, <2>3, Induct
  <2> QED BY <2>4
<1>8. IsMultiple(g(n), W)
  <2>1. D(v, n) \in Nat /\ D(x, n) \in Nat
    BY SumDigits
  <2>2. D(x, n) - D(v, n) = g(n)
    BY <1>7
  <2> HIDE DEF g, W, D
  <2>3. (D(v, n) % W) = (D(x, n) % W)
    BY DEF D, W
  <2> QED BY <1>2, <2>1, <2>2, <2>3, SameRemainder
<1> HIDE DEF e0, e1, W, R, Q, D, M
<1>9. n > j => e0 = 0
  <2> SUFFICES ASSUME n > j PROVE e0 = 0
    OBVIOUS
  <2>1. CASE n = j + 1
    <3>1. g(n) = e0
      BY <1>1, <2>1
    <3> QED BY <1>2, <1>6, <1>8, <3>1, SmallMultiple
  <2>2. CASE n # j + 1
    <3>1. g(n) = e0 + e1
      BY <1>1, <2>2
    <3>2. e1 = 0
      <4>1. PICK z \in Int : e0 + e1 = W * z
        BY <1>8, <3>1, Zenon DEF IsMultiple
      <4>2. PICK y \in Int : e0 = R * y
        BY <1>6, Zenon DEF IsMultiple
      <4>3. W * z = R * (Q * z) /\ Q * z \in Int
        BY <1>2, <4>1
      <4>4. e1 = R * (Q * z - y) /\ Q * z - y \in Int
        <5>1. R * (Q * z - y) = R * (Q * z) - R * y /\ R * (Q * z) \in Int /\ R * y \in Int
          BY <1>2, <4>2, <4>3
        <5> QED BY <1>6, <4>1, <4>2, <4>3, <5>1
      <4>5. IsMultiple(e1, R)
        BY <1>6, <4>4, Zenon DEF IsMultiple
      <4> QED BY <1>2, <1>6, <4>5, SmallMultiple
    <3>3. g(n) = e0
      BY <1>6, <3>1, <3>2
    <3> QED BY <1>2, <1>6, <1>8, <3>3, SmallMultiple
  <2> QED BY <2>1, <2>2
<1>10. n > j + 1 => e1 = 0
  <2> SUFFICES ASSUME n > j + 1 PROVE e1 = 0
    OBVIOUS
  <2>1. g(n) = e0 + e1 /\ e0 = 0 /\ g(n) = e1
    BY <1>1, <1>6, <1>9
  <2>2. IsMultiple(e1, W)
    BY <1>8, <2>1
  <2>3. R <= W
    <3>1. r \in Nat /\ r <= w
      BY <1>1
    <3> QED BY <3>1, PowersGrow DEF R, W
  <2>4. -W < e1 /\ e1 < W
    BY <1>2, <1>6, <2>3
  <2> QED BY <1>2, <2>2, <2>4, SmallMultiple
<1>11. \A m \in Nat : m < n => Place(v, m, w) = Place(x, m, w)
  <2> TAKE m \in Nat
  <2> SUFFICES ASSUME m < n PROVE Place(v, m, w) = Place(x, m, w)
    OBVIOUS
  <2>0. \A i \in Nat : Place(v, i, w) \in Int /\ Place(x, i, w) \in Int
    BY <1>2, <1>3
  <2>1. CASE m = j
    BY <1>1, <1>9, <2>0, <2>1 DEF e0
  <2>2. CASE m = j + 1
    BY <1>1, <1>10, <2>0, <2>2 DEF e1
  <2>3. CASE m # j /\ m # j + 1
    BY <1>4, <2>3
  <2> QED BY <2>1, <2>2, <2>3
<1>12. \A i \in 1 .. n : Digits(v, n, w)[i] = Digits(x, n, w)[i]
  <2> TAKE i \in 1 .. n
  <2>1. i - 1 \in Nat /\ i - 1 < n /\ (i - 1) + 1 = i
    OBVIOUS
  <2>2. \A t \in {v, x}, m \in Nat : m < n => Digits(t, n, w)[m + 1] = Place(t, m, w)
    BY PlaceIsDigit
  <2>3. Digits(v, n, w)[(i - 1) + 1] = Place(v, i - 1, w) /\ Digits(x, n, w)[(i - 1) + 1] = Place(x, i - 1, w)
    BY <2>1, <2>2, Zenon
  <2>4. Place(v, i - 1, w) = Place(x, i - 1, w)
    BY <1>11, <2>1, Zenon
  <2> QED BY <2>1, <2>3, <2>4, Zenon
<1>13. \A t \in {v, x} : Digits(t, n, w) \in Seq(0 .. Pow2[w] - 1) /\ Len(Digits(t, n, w)) = n
  BY DigitsTyped
<1> QED BY <1>12, <1>13, SeqEqual

----------------------------------------------------------------------------
(* Sequences joined *)

IsJoining(g, ss) ==
  g = [i \in 1 .. Len(ss) |-> IF i = 1 THEN ss[i] ELSE g[i - 1] \o ss[i]]

(***************************************************************************)
(* Sequences are joined one by one.                                        *)
(***************************************************************************)
LEMMA FlattenUnfolds ==
  ASSUME NEW X
  PROVE  /\ FlattenSeq(<<>>) = <<>>
         /\ \A ss \in Seq(Seq(X)) :
              /\ FlattenSeq(ss) \in Seq(X)
              /\ \A s \in Seq(X) : FlattenSeq(Append(ss, s)) = FlattenSeq(ss) \o s
<1> DEFINE States == Seq(X)
           step == [y \in States \X States |-> y[1] \o y[2]]
           F == [ss \in Seq(States) |-> FlattenSeq(ss)]
<1>1. step \in [States \X States -> States] /\ \A a, b \in States : step[<<a, b>>] = a \o b
  <2>1. \A a, b \in States : a \o b \in States
    BY ConcatProperties
  <2> HIDE DEF States
  <2> QED BY <2>1
<1> HIDE DEF step
<1>2. <<>> \in States /\ \A s \in States : <<>> \o s = s
  OBVIOUS
<1>3. ASSUME NEW ss \in Seq(States), NEW p, Walks(p, step, <<>>, ss, States) PROVE FlattenSeq(ss) = p[Len(ss)]
  <2> DEFINE n == Len(ss)
             h == CHOOSE g : IsJoining(g, ss)
  <2> HIDE DEF States
  <2>0. n \in Nat /\ DOMAIN ss = 1 .. n /\ \A k \in 1 .. n : ss[k] \in States
    OBVIOUS
  <2>1. CASE n = 0
    <3>1. FlattenSeq(ss) = ss /\ ss = <<>>
      <4>1. ss = <<>>
        BY <2>1, EmptySeq
      <4> QED BY <2>1, <4>1, Zenon DEF FlattenSeq
    <3>2. p[0] = <<>>
      BY <1>3 DEF Walks
    <3> QED BY <2>1, <3>1, <3>2, Zenon
  <2>2. CASE n # 0
    <3>1. FlattenSeq(ss) = h[n]
      BY <2>2, Zenon DEF FlattenSeq, IsJoining
    <3>2. p \in [0 .. n -> States] /\ p[0] = <<>> /\ \A k \in 1 .. n : p[k] = p[k - 1] \o ss[k]
      <4>1. p \in [0 .. n -> States] /\ p[0] = <<>> /\ \A k \in 1 .. n : p[k] = step[<<p[k - 1], ss[k]>>]
        BY <1>3 DEF Walks
      <4>2. \A k \in 1 .. n : p[k - 1] \in States
        <5>1. \A k \in 1 .. n : k - 1 \in 0 .. n
          BY <2>0
        <5> HIDE DEF n
        <5> QED BY <4>1, <5>1
      <4> HIDE DEF n
      <4> QED BY <1>1, <2>0, <4>1, <4>2
    <3> DEFINE g == [i \in 1 .. n |-> p[i]]
    <3>3. IsJoining(g, ss)
      <4>1. ASSUME NEW i \in 1 .. n
            PROVE  g[i] = IF i = 1 THEN ss[i] ELSE g[i - 1] \o ss[i]
        <5>1. CASE i = 1
          <6>1. p[1] = p[0] \o ss[1] /\ ss[1] \in States
            <7>1. 1 \in 1 .. n /\ 1 - 1 = 0
              BY <2>0, <2>2
            <7>2. p[1] = p[1 - 1] \o ss[1]
              BY <3>2, <7>1, Zenon
            <7> QED BY <2>0, <7>1, <7>2
          <6>2. p[1] = ss[1]
            BY <1>2, <3>2, <6>1
          <6> QED BY <4>1, <5>1, <6>2
        <5>2. CASE i # 1
          <6>1. i - 1 \in 1 .. n
            BY <2>0, <5>2
          <6> QED BY <3>2, <5>2, <6>1
        <5> QED BY <5>1, <5>2
      <4>2. g = [i \in 1 .. n |-> g[i]]
        OBVIOUS
      <4> HIDE DEF g
      <4>3. g = [i \in 1 .. n |-> IF i = 1 THEN ss[i] ELSE g[i - 1] \o ss[i]]
        BY <4>1, <4>2
      <4> QED BY <4>3 DEF IsJoining
    <3>4. IsJoining(h, ss)
      BY <3>3, Zenon
    <3> HIDE DEF h
    <3>5. \A i \in 1 .. n : h[i] = IF i = 1 THEN ss[i] ELSE h[i - 1] \o ss[i]
      <4>1. h = [i \in 1 .. n |-> IF i = 1 THEN ss[i] ELSE h[i - 1] \o ss[i]]
        BY <3>4 DEF IsJoining
      <4> QED BY <4>1, Zenon
    <3> HIDE DEF n
    <3> DEFINE S == {k \in Nat : k + 1 <= n => h[k + 1] = p[k + 1]}
    <3>6. 0 \in S
      <4>1. 1 \in 1 .. n
        BY <2>0, <2>2
      <4>2. p[1] = p[1 - 1] \o ss[1] /\ ss[1] \in States /\ 1 - 1 = 0
        BY <2>0, <3>2, <4>1
      <4>3. h[1] = ss[1] /\ p[1] = ss[1]
        BY <1>2, <3>2, <3>5, <4>1, <4>2
      <4> QED BY <4>3
    <3>7. ASSUME NEW k \in Nat, k \in S PROVE k + 1 \in S
      <4> SUFFICES ASSUME (k + 1) + 1 <= n PROVE h[(k + 1) + 1] = p[(k + 1) + 1]
        OBVIOUS
      <4>1. k + 2 \in 1 .. n /\ k + 2 # 1 /\ (k + 2) - 1 = k + 1 /\ (k + 1) + 1 = k + 2 /\ k + 1 <= n
        BY <2>0
      <4>2. h[k + 2] = h[(k + 2) - 1] \o ss[k + 2] /\ p[k + 2] = p[(k + 2) - 1] \o ss[k + 2]
        BY <3>2, <3>5, <4>1, Zenon
      <4> QED BY <3>7, <4>1, <4>2
    <3> HIDE DEF S
    <3>8. Nat \subseteq S
      BY <3>6, <3>7, Induct
    <3>9. n - 1 \in Nat /\ (n - 1) + 1 = n
      BY <2>0, <2>2
    <3>10. h[n] = p[n]
      BY <3>8, <3>9 DEF S
    <3> QED BY <3>1, <3>10 DEF n
  <2> QED BY <2>1, <2>2
<1>4. \A ss \in Seq(States) : F[ss] = FlattenSeq(ss)
  OBVIOUS
<1> HIDE DEF F, States
<1>5. EndsWalks(F, step, <<>>, States, States)
  BY <1>3, <1>4 DEF EndsWalks
<1>6. Unfolds(F, step, <<>>, States, States)
  BY <1>1, <1>2, <1>5, WalksUnfold
<1>7. <<>> \in Seq(States) /\ \A ss \in Seq(States), s \in States : Append(ss, s) \in Seq(States)
  OBVIOUS
<1>8. F[<<>>] = FlattenSeq(<<>>) /\ \A ss \in Seq(States), s \in States : F[Append(ss, s)] = FlattenSeq(Append(ss, s))
  BY <1>4, <1>7
<1> QED BY <1>1, <1>4, <1>6, <1>8 DEF Unfolds, States

(***************************************************************************)
(* A number at the end of a sequence that is not empty.                    *)
(***************************************************************************)
LEMMA AtTheEnd ==
  ASSUME NEW S, NEW g \in Seq(S), g # <<>>, NEW a \in S
  PROVE  /\ Append(g, a) \in Seq(S) /\ Append(g, a) # <<>>
         /\ Head(Append(g, a)) = Head(g) /\ Last(Append(g, a)) = a
         /\ ToSet(Append(g, a)) = ToSet(g) \cup {a}
<1>1. Len(g) \in Nat \ {0} /\ DOMAIN g = 1 .. Len(g)
  BY EmptySeq, LenProperties
<1>2. /\ Append(g, a) \in Seq(S) /\ Len(Append(g, a)) = Len(g) + 1
      /\ \A i \in 1 .. Len(g) : Append(g, a)[i] = g[i]
      /\ Append(g, a)[Len(g) + 1] = a
      /\ DOMAIN Append(g, a) = 1 .. Len(g) + 1
  BY <1>1
<1> DEFINE h == Append(g, a)
<1> HIDE DEF h
<1>3. h # <<>> /\ Head(h) = h[1] /\ Last(h) = h[Len(h)] /\ Head(g) = g[1]
  BY <1>1, <1>2 DEF h, Last
<1>4. ToSet(h) = ToSet(g) \cup {a}
  <2>1. 1 .. Len(g) + 1 = (1 .. Len(g)) \cup {Len(g) + 1}
    BY <1>1
  <2>2. ToSet(h) = {h[i] : i \in DOMAIN h} /\ ToSet(g) = {g[i] : i \in DOMAIN g}
    BY DEF ToSet
  <2> QED BY <1>1, <1>2, <2>1, <2>2 DEF h
<1> QED BY <1>1, <1>2, <1>3, <1>4 DEF h

\* Sequences of m elements each, joined
Even(ss, m) == \A k \in 1 .. Len(ss) : Len(ss[k]) = m

IsJoined(s, ss, m) ==
  /\ Len(s) = m * Len(ss)
  /\ \A q \in 0 .. Len(ss) - 1 : \A i \in 1 .. m : s[m * q + i] = ss[q + 1][i]

(***************************************************************************)
(* Of sequences of the same length, the place of an element says the one   *)
(* it is from.                                                             *)
(***************************************************************************)
LEMMA EvenJoined ==
  ASSUME NEW X, NEW m \in Nat
  PROVE  \A ss \in Seq(Seq(X)) : Even(ss, m) => IsJoined(FlattenSeq(ss), ss, m)
<1> DEFINE Y == Seq(X)
           S == {ss \in Seq(Y) : Even(ss, m) => IsJoined(FlattenSeq(ss), ss, m)}
<1>1. <<>> \in S
  <2>1. FlattenSeq(<<>>) = <<>> /\ Len(<<>>) = 0 /\ <<>> \in Seq(Y) /\ m * 0 = 0 /\ 0 .. 0 - 1 = {}
    BY FlattenUnfolds
  <2>2. IsJoined(<<>>, <<>>, m)
    BY <2>1, Zenon DEF IsJoined
  <2> QED BY <2>1, <2>2
<1>2. ASSUME NEW ss \in Seq(Y), NEW t \in Y, ss \in S PROVE Append(ss, t) \in S
  <2> DEFINE u == Append(ss, t)
             n == Len(ss)
             f == FlattenSeq(ss)
  <2>1. u \in Seq(Y) /\ n \in Nat /\ Len(u) = n + 1 /\ u[n + 1] = t /\ \A k \in 1 .. n : u[k] = ss[k]
    OBVIOUS
  <2>2. f \in Seq(X) /\ FlattenSeq(u) = f \o t
    BY FlattenUnfolds
  <2> SUFFICES ASSUME Even(u, m) PROVE IsJoined(FlattenSeq(u), u, m)
    BY <2>1
  <2> HIDE DEF u, n, f
  <2>3. Len(t) = m /\ Even(ss, m)
    <3>1. n + 1 \in 1 .. Len(u) /\ \A k \in 1 .. n : k \in 1 .. Len(u)
      BY <2>1
    <3> QED BY <2>1, <3>1 DEF Even, n
  <2>4. Len(f) = m * n /\ \A q \in 0 .. n - 1 : \A i \in 1 .. m : f[m * q + i] = ss[q + 1][i]
    BY <1>2, <2>3 DEF IsJoined, n, f
  <2>5. /\ Len(f \o t) = Len(f) + m
        /\ \A k \in 1 .. Len(f) : (f \o t)[k] = f[k]
        /\ \A k \in 1 .. m : (f \o t)[Len(f) + k] = t[k]
    <3>1. t \in Seq(X)
      OBVIOUS
    <3>2. /\ Len(f \o t) = Len(f) + Len(t)
          /\ \A k \in 1 .. Len(f) : (f \o t)[k] = f[k]
          /\ \A k \in 1 .. Len(t) : (f \o t)[Len(f) + k] = t[k]
      BY ONLY <2>2, <3>1, Joins
    <3> QED BY <2>3, <3>2
  <2>6. Len(f \o t) = m * (n + 1)
    <3>1. m * (n + 1) = m * n + m
      BY <2>1
    <3> QED BY <2>4, <2>5, <3>1
  <2>7. ASSUME NEW q \in 0 .. n, NEW i \in 1 .. m PROVE (f \o t)[m * q + i] = u[q + 1][i]
    <3>1. CASE q = n
      <4>1. (f \o t)[Len(f) + i] = t[i]
        BY <2>5
      <4> QED BY <2>1, <2>4, <3>1, <4>1, Zenon
    <3>2. CASE q # n
      <4>1. q \in 0 .. n - 1 /\ q + 1 \in 1 .. n /\ q \in Nat
        BY <2>1, <3>2
      <4>2. m * q + i \in 1 .. Len(f)
        <5>1. PICK e \in Nat : n = q + 1 + e
          <6>1. n - (q + 1) \in Nat /\ n = q + 1 + (n - (q + 1))
            BY <2>1, <4>1
          <6> QED BY <6>1
        <5>2. m * (q + 1 + e) = m * q + m + m * e /\ m * e \in Nat /\ m * q \in Nat
          BY <4>1
        <5>3. Len(f) = m * q + m + m * e
          BY <2>4, <5>1, <5>2, Zenon
        <5> DEFINE a == m * q
                   b == m * e
        <5>4. a \in Nat /\ b \in Nat /\ Len(f) = a + m + b
          BY <5>2, <5>3
        <5> HIDE DEF a, b
        <5>5. a + i \in 1 .. Len(f)
          BY <5>4
        <5> QED BY <5>5 DEF a
      <4>3. f[m * q + i] = ss[q + 1][i]
        BY <2>4, <4>1
      <4>4. (f \o t)[m * q + i] = f[m * q + i]
        BY <2>5, <4>2, Zenon
      <4>5. u[q + 1] = ss[q + 1]
        BY <2>1, <4>1, Zenon
      <4> QED BY <4>3, <4>4, <4>5, Zenon
    <3> QED BY <3>1, <3>2
  <2>8. (n + 1) - 1 = n
    BY <2>1
  <2> QED BY <2>1, <2>2, <2>6, <2>7, <2>8, Zenon DEF IsJoined
<1> HIDE DEF S, Y
<1>3. Seq(Y) \subseteq S
  BY <1>1, <1>2, InductSeq
<1> QED BY <1>3 DEF S, Y

----------------------------------------------------------------------------
(* Loops that count their turns *)

\* The states of a loop before its first turn and behind each of n turns
IsLoop(p, n, step, base, States) ==
  p \in [0 .. n -> States] /\ p[0] = base /\ \A k \in 1 .. n : p[k] = step[p[k - 1]]

(***************************************************************************)
(* A loop has states, whatever a turn does.                                *)
(***************************************************************************)
LEMMA LoopExists ==
  ASSUME NEW States, NEW base \in States, NEW step \in [States -> States], NEW n \in Nat
  PROVE  \E p : IsLoop(p, n, step, base, States)
<1> DEFINE S == {m \in Nat : \E p : IsLoop(p, m, step, base, States)}
<1>1. 0 \in S
  <2> DEFINE p == [k \in 0 .. 0 |-> base]
  <2>1. IsLoop(p, 0, step, base, States)
    BY DEF IsLoop
  <2> QED BY <2>1
<1>2. ASSUME NEW m \in Nat, m \in S PROVE m + 1 \in S
  <2>0. PICK p : IsLoop(p, m, step, base, States)
    BY <1>2
  <2>1. p \in [0 .. m -> States] /\ p[0] = base /\ \A k \in 1 .. m : p[k] = step[p[k - 1]]
    BY <2>0 DEF IsLoop
  <2> DEFINE q == [k \in 0 .. m + 1 |-> IF k = m + 1 THEN step[p[m]] ELSE p[k]]
  <2>2. step[p[m]] \in States
    BY <2>1
  <2>3. q \in [0 .. m + 1 -> States] /\ q[0] = base
    BY <2>1, <2>2
  <2>4. q[m + 1] = step[p[m]] /\ \A k \in 0 .. m : q[k] = p[k]
    OBVIOUS
  <2> HIDE DEF q
  <2>5. ASSUME NEW k \in 1 .. m + 1 PROVE q[k] = step[q[k - 1]]
    <3>1. CASE k = m + 1
      <4>1. k - 1 = m /\ m \in 0 .. m
        BY <3>1
      <4> QED BY <2>4, <3>1, <4>1
    <3>2. CASE k # m + 1
      <4>1. k \in 1 .. m /\ k \in 0 .. m /\ k - 1 \in 0 .. m
        BY <3>2
      <4> QED BY <2>1, <2>4, <4>1
    <3> QED BY <3>1, <3>2
  <2>6. IsLoop(q, m + 1, step, base, States)
    BY <2>3, <2>5 DEF IsLoop
  <2> QED BY <2>6
<1> HIDE DEF S
<1>3. Nat \subseteq S
  BY <1>1, <1>2, Induct
<1> QED BY <1>3 DEF S

(***************************************************************************)
(* A fold takes the last place from those that are left.                   *)
(***************************************************************************)
LEMMA OneLess ==
  ASSUME NEW n \in Nat
  PROVE  /\ Cardinality(1 .. n) = n
         /\ \A t \in SUBSET (1 .. n) : t # {} =>
              /\ Cardinality(t) \in 1 .. n
              /\ t \ {Max(t)} \in SUBSET (1 .. n)
              /\ Cardinality(t \ {Max(t)}) = Cardinality(t) - 1
<1>1. IsFiniteSet(1 .. n) /\ Cardinality(1 .. n) = n
  BY FS_Interval
<1>2. ASSUME NEW t \in SUBSET (1 .. n), t # {}
      PROVE  /\ Cardinality(t) \in 1 .. n
             /\ t \ {Max(t)} \in SUBSET (1 .. n)
             /\ Cardinality(t \ {Max(t)}) = Cardinality(t) - 1
  <2>1. Max(t) \in t
    BY <1>2, Places
  <2>2. IsFiniteSet(t) /\ Cardinality(t) \in Nat /\ Cardinality(t) <= n
    BY <1>1, FS_Subset, FS_CardinalityType
  <2>3. Cardinality(t) # 0
    BY <1>2, <2>2, FS_EmptySet
  <2>4. Cardinality(t \ {Max(t)}) = Cardinality(t) - 1
    BY <2>1, <2>2, FS_RemoveElement
  <2>5. t \ {Max(t)} \in SUBSET (1 .. n)
    OBVIOUS
  <2> QED BY <2>2, <2>3, <2>4, <2>5
<1> QED BY <1>1, <1>2

----------------------------------------------------------------------------
(* Sequences that lie behind each other *)

\* s is made of the sequences ss; the k-th lies behind at[k].
IsLaid(s, ss, at) ==
  /\ at \in [1 .. Len(ss) + 1 -> Nat] /\ at[1] = 0 /\ Len(s) = at[Len(ss) + 1]
  /\ \A j, k \in 1 .. Len(ss) + 1 : j <= k => at[j] <= at[k]
  /\ \A k \in 1 .. Len(ss) : at[k + 1] = at[k] + Len(ss[k])
  /\ \A k \in 1 .. Len(ss) : \A i \in 1 .. Len(ss[k]) : s[at[k] + i] = ss[k][i]

(***************************************************************************)
(* One more sequence is laid behind the others, ...                        *)
(***************************************************************************)
LEMMA LaidAppend ==
  ASSUME NEW X, NEW s \in Seq(X), NEW ss \in Seq(Seq(X)), NEW x \in Seq(X), NEW at, IsLaid(s, ss, at)
  PROVE  \E w : IsLaid(s \o x, Append(ss, x), w)
<1> DEFINE n == Len(ss)
           tt == Append(ss, x)
           t == s \o x
           w == [k \in 1 .. n + 2 |-> IF k <= n + 1 THEN at[k] ELSE at[n + 1] + Len(x)]
<1>1. /\ at \in [1 .. n + 1 -> Nat] /\ at[1] = 0 /\ Len(s) = at[n + 1]
      /\ \A j, k \in 1 .. n + 1 : j <= k => at[j] <= at[k]
      /\ \A k \in 1 .. n : at[k + 1] = at[k] + Len(ss[k])
      /\ \A k \in 1 .. n : \A i \in 1 .. Len(ss[k]) : s[at[k] + i] = ss[k][i]
  BY DEF IsLaid
<1>2. n \in Nat /\ Len(x) \in Nat /\ Len(s) \in Nat /\ \A k \in 1 .. n : ss[k] \in Seq(X) /\ Len(ss[k]) \in Nat
  OBVIOUS
<1>3. Len(tt) = n + 1 /\ tt[n + 1] = x /\ \A k \in 1 .. n : tt[k] = ss[k]
  OBVIOUS
<1>4. /\ Len(t) = Len(s) + Len(x)
      /\ \A i \in 1 .. Len(s) : t[i] = s[i]
      /\ \A i \in 1 .. Len(x) : t[Len(s) + i] = x[i]
  BY Joins
<1> HIDE DEF n, tt, t
<1>5. w \in [1 .. n + 2 -> Nat] /\ w[n + 2] = at[n + 1] + Len(x) /\ \A k \in 1 .. n + 1 : w[k] = at[k]
  <2>1. at[n + 1] \in Nat /\ \A k \in 1 .. n + 1 : at[k] \in Nat
    BY <1>1, <1>2
  <2>2. at[n + 1] + Len(x) \in Nat
    BY <1>2, <2>1
  <2>3. \A k \in 1 .. n + 2 : (IF k <= n + 1 THEN at[k] ELSE at[n + 1] + Len(x)) \in Nat
    BY <1>2, <2>1, <2>2
  <2>4. ~(n + 2 <= n + 1) /\ n + 2 \in 1 .. n + 2 /\ \A k \in 1 .. n + 1 : k \in 1 .. n + 2 /\ k <= n + 1
    BY <1>2
  <2> QED BY <2>3, <2>4
<1> HIDE DEF w
<1>6. w[1] = 0 /\ Len(t) = w[n + 2]
  <2>1. 1 \in 1 .. n + 1
    BY <1>2
  <2> QED BY <1>1, <1>4, <1>5, <2>1
<1>7. ASSUME NEW j \in 1 .. n + 2, NEW k \in 1 .. n + 2, j <= k PROVE w[j] <= w[k]
  <2>1. CASE k <= n + 1
    <3>1. j \in 1 .. n + 1 /\ k \in 1 .. n + 1
      BY <1>2, <1>7, <2>1
    <3> QED BY <1>1, <1>5, <1>7, <3>1
  <2>2. CASE k = n + 2 /\ j = n + 2
    BY <1>5, <2>2
  <2>3. CASE k = n + 2 /\ j <= n + 1
    <3>1. j \in 1 .. n + 1 /\ n + 1 \in 1 .. n + 1 /\ j <= n + 1
      BY <1>2, <2>3
    <3>2. at[j] <= at[n + 1] /\ at[j] \in Nat /\ at[n + 1] \in Nat
      BY <1>1, <3>1
    <3>3. w[j] = at[j] /\ w[k] = at[n + 1] + Len(x)
      BY <1>5, <2>3, <3>1
    <3> QED BY <1>2, <3>2, <3>3
  <2>4. k <= n + 1 \/ (k = n + 2 /\ j = n + 2) \/ (k = n + 2 /\ j <= n + 1)
    BY <1>2, <1>7
  <2> QED BY <2>1, <2>2, <2>3, <2>4
<1>8. ASSUME NEW k \in 1 .. n + 1
      PROVE  /\ w[k + 1] = w[k] + Len(tt[k])
             /\ \A i \in 1 .. Len(tt[k]) : t[w[k] + i] = tt[k][i]
  <2>1. CASE k <= n
    <3>1. k \in 1 .. n /\ k + 1 \in 1 .. n + 1 /\ k \in 1 .. n + 1 /\ n + 1 \in 1 .. n + 1 /\ k + 1 <= n + 1
      BY <1>2, <2>1
    <3>2. w[k + 1] = at[k + 1] /\ w[k] = at[k] /\ tt[k] = ss[k] /\ at[k + 1] = at[k] + Len(ss[k])
      BY <1>1, <1>3, <1>5, <3>1
    <3>3. at[k] \in Nat /\ at[k + 1] <= Len(s) /\ Len(ss[k]) \in Nat
      BY <1>1, <1>2, <3>1
    <3>4. ASSUME NEW i \in 1 .. Len(ss[k]) PROVE t[at[k] + i] = ss[k][i]
      <4> DEFINE c == at[k]
                 l == Len(ss[k])
                 z == Len(s)
      <4>0. c \in Nat /\ l \in Nat /\ c + l <= z /\ z \in Nat /\ i \in 1 .. l
        BY <1>2, <3>2, <3>3
      <4> HIDE DEF c, l, z
      <4>1. c + i \in 1 .. z
        BY ONLY <4>0
      <4> USE DEF c, l, z
      <4> QED BY <1>1, <1>4, <3>1, <4>1
    <3> QED BY <3>2, <3>4
  <2>2. CASE ~(k <= n)
    <3>1. k = n + 1 /\ k + 1 = n + 2 /\ n + 1 \in 1 .. n + 1
      BY <1>2, <2>2
    <3>2. w[k + 1] = at[n + 1] + Len(x) /\ w[k] = at[n + 1] /\ tt[k] = x
      BY <1>3, <1>5, <3>1
    <3> QED BY <1>1, <1>4, <3>2
  <2> QED BY <2>1, <2>2
<1>9. n + 2 = (n + 1) + 1
  BY <1>2
<1>10. IsLaid(t, tt, w)
  <2>1. /\ w \in [1 .. (n + 1) + 1 -> Nat] /\ w[1] = 0 /\ Len(t) = w[(n + 1) + 1]
    BY <1>5, <1>6, <1>9
  <2>2. \A j, k \in 1 .. (n + 1) + 1 : j <= k => w[j] <= w[k]
    BY <1>7, <1>9
  <2> QED BY <1>3, <1>8, <2>1, <2>2, Zenon DEF IsLaid
<1> QED BY <1>10 DEF t, tt

(***************************************************************************)
(* ... and so all of them are.                                             *)
(***************************************************************************)
LEMMA FlattenLaid ==
  ASSUME NEW X, NEW ss \in Seq(Seq(X))
  PROVE  FlattenSeq(ss) \in Seq(X) /\ \E at : IsLaid(FlattenSeq(ss), ss, at)
<1> DEFINE States == Seq(X)
           S == {tt \in Seq(States) : \E at : IsLaid(FlattenSeq(tt), tt, at)}
<1>1. /\ FlattenSeq(<<>>) = <<>>
      /\ \A tt \in Seq(States) :
           /\ FlattenSeq(tt) \in States
           /\ \A x \in States : FlattenSeq(Append(tt, x)) = FlattenSeq(tt) \o x
  BY FlattenUnfolds
<1>2. <<>> \in S
  <2> DEFINE at == [k \in 1 .. 1 |-> 0]
  <2>1. IsLaid(<<>>, <<>>, at)
    BY DEF IsLaid
  <2> QED BY <1>1, <2>1
<1>3. ASSUME NEW tt \in S, NEW x \in States PROVE Append(tt, x) \in S
  <2>1. tt \in Seq(States)
    OBVIOUS
  <2>2. PICK at : IsLaid(FlattenSeq(tt), tt, at)
    OBVIOUS
  <2>3. \E w : IsLaid(FlattenSeq(tt) \o x, Append(tt, x), w)
    BY <1>1, <2>1, <2>2, LaidAppend
  <2>4. Append(tt, x) \in Seq(States)
    BY <2>1
  <2> HIDE DEF States
  <2> QED BY <1>1, <2>1, <2>3, <2>4
<1> HIDE DEF S, States
<1>4. Seq(States) \subseteq S
  BY <1>2, <1>3, InductSeq
<1> QED BY <1>1, <1>4 DEF S, States
=============================================================================
