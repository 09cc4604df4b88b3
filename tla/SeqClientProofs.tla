--------------------------- MODULE SeqClientProofs ---------------------------
(***************************************************************************)
(* The safety of the sequencer client, for any kernel, names and streams.  *)
(*                                                                         *)
(* The search: SearchInv says which clients may still be found, by name    *)
(* and number, at each ioctl of the walk.                                  *)
(*                                                                         *)
(* recv: RecvInv says that as long as recv expects the padding of every    *)
(* event it has read, rbuf is empty and the data of all of them has been   *)
(* returned; and that from the first event of other padding on, rbuf does  *)
(* not begin with a header, and the data up to that event stays what the   *)
(* result begins with.  What FlattenSeq and Parse compute is proved by     *)
(* induction on lengths, which Induct below gives for a set of numbers:    *)
(* the sets of finite intervals are ordered by inclusion, and the library  *)
(* proves that order well-founded.                                         *)
(***************************************************************************)
EXTENDS SeqClient, TLAPS, FiniteSetTheorems, SequenceTheorems

(***************************************************************************)
(* A set of natural numbers that is not empty has a least element.  (The   *)
(* intervals 0 .. n below its elements are ordered by inclusion, which is  *)
(* well-founded on finite sets.)                                           *)
(***************************************************************************)
LEMMA Least ==
  ASSUME NEW S \in SUBSET Nat, S # {}
  PROVE  \E m \in S : \A n \in S : m <= n
<1> DEFINE T == {0 .. n : n \in S}
           R == StrictSubsetOrdering(Nat)
<1>1. \A n \in S : 0 .. n \in FiniteSubsetsOf(Nat)
  BY FS_Interval DEF FiniteSubsetsOf
<1>2. T \subseteq FiniteSubsetsOf(Nat) /\ T # {}
  BY <1>1
<1>3. IsWellFoundedOn(R, FiniteSubsetsOf(Nat))
  BY FS_StrictSubsetOrderingWellFounded
<1>4. \E x \in T : \A y \in T : ~ (<<y, x>> \in R)
  <2> HIDE DEF T, R
  <2> QED BY <1>2, <1>3, WFMin
<1>5. \A m, n \in Nat : n < m => <<0 .. n, 0 .. m>> \in R
  BY DEF StrictSubsetOrdering
<1>6. PICK x \in T : \A y \in T : ~ (<<y, x>> \in R)
  BY <1>4
<1>7. PICK m \in S : x = 0 .. m
  BY <1>6
<1>8. \A n \in S : 0 .. n \in T
  OBVIOUS
<1>9. \A n \in S : m <= n
  <2> SUFFICES ASSUME NEW n \in S, n < m PROVE FALSE
    OBVIOUS
  <2>1. <<0 .. n, 0 .. m>> \in R
    <3> HIDE DEF R
    <3> QED BY <1>5
  <2>2. ~ (<<0 .. n, x>> \in R)
    <3> HIDE DEF T, R
    <3> QED BY <1>6, <1>8
  <2> QED
    <3> HIDE DEF T, R
    <3> QED BY <1>7, <2>1, <2>2
<1> QED BY <1>9

(***************************************************************************)
(* Min of the community modules, which is a CHOOSE, is the least element.  *)
(***************************************************************************)
LEMMA MinIsLeast ==
  ASSUME NEW S \in SUBSET Nat, S # {}
  PROVE  Min(S) \in S /\ \A n \in S : Min(S) <= n
BY Least DEF Min

(***************************************************************************)
(* Induction, for a set of natural numbers.                                *)
(***************************************************************************)
LEMMA Induct ==
  ASSUME NEW S, 0 \in S, \A n \in Nat : n \in S => n + 1 \in S
  PROVE  Nat \subseteq S
<1> SUFFICES ASSUME Nat \ S # {} PROVE FALSE
  OBVIOUS
<1>1. PICK m \in Nat \ S : \A n \in Nat \ S : m <= n
  BY Least
<1>2. m - 1 \in Nat /\ m - 1 \in S
  BY <1>1
<1> QED BY <1>1, <1>2

----------------------------------------------------------------------------
(* The search *)

\* The search's part of SeqTypeOK
SearchTypes ==
  /\ registry \in [Ids -> Entries \cup {Absent}]
  /\ steady \subseteq Ids /\ seen \in [Ids -> SUBSET (1 .. NNames)]
  /\ pc \in {"client", "port", "done"} /\ name \in 1 .. NNames
  /\ ci \in Ids \cup {-1} /\ cnames \subseteq 1 .. NNames /\ pi \in Int
  /\ found \in {<<>>} \cup (Ids \X Nat)

\* What the query buffers hold: a name that the client has had (and has, if it
\* did not change), and a port only of a client without the searched name
Queried ==
  /\ \A c \in Ids : registry[c].names \subseteq seen[c]
  /\ pc = "port" => /\ ci \in Ids /\ cnames \subseteq seen[ci]
                    /\ ci \in steady => cnames = registry[ci].names
                    /\ pi >= -1 /\ (pi # -1 => name \notin cnames)
  /\ found # <<>> => pc = "done"

\* The search for name k may still come to client c.
Ahead(c, k) == k > name \/ (k = name /\ (c > ci \/ (pc = "port" /\ c = ci)))

\* No client that fits was passed by, and the one that was found came first.
Unmissed ==
  /\ found = <<>> =>
       \A c \in steady, k \in 1 .. NNames : Fits(c, k) => pc # "done" /\ Ahead(c, k)
  /\ found # <<>> /\ steady = Ids =>
       /\ Fits(found[1], name) /\ found[2] = Min(registry[found[1]].ports)
       /\ \A c \in Ids, k \in 1 .. NNames :
            Fits(c, k) => k > name \/ (k = name /\ c >= found[1])

SearchInv == SearchTypes /\ Queried /\ FoundHadTheName /\ Unmissed

(***************************************************************************)
(* What a client looks like: names that are searched, and ports.           *)
(***************************************************************************)
LEMMA Clients ==
  ASSUME SearchTypes, NEW c \in Ids
  PROVE  registry[c].names \subseteq 1 .. NNames /\ registry[c].ports \subseteq Nat
<1>1. registry[c] \in Entries \/ registry[c] = Absent
  BY DEF SearchTypes
<1> QED
  BY <1>1, SeqAssumption DEF Absent

(***************************************************************************)
(* A search starts with nothing passed by.                                 *)
(***************************************************************************)
LEMMA SearchInit == Init => SearchInv
<1> SUFFICES ASSUME Init PROVE SearchInv
  OBVIOUS
<1> USE DEF Init
<1>1. registry \in [Ids -> Entries \cup {Absent}]
  BY DEF Absent
<1>2. \A c \in Ids : registry[c].names \subseteq 1 .. NNames
  BY <1>1, SeqAssumption DEF Absent
<1>3. SearchTypes
  BY <1>1, <1>2, SeqAssumption DEF SearchTypes
<1>4. Queried /\ FoundHadTheName
  BY DEF Queried, FoundHadTheName
<1>5. Unmissed
  <2>1. CASE pc = "client"
    BY <2>1, SeqAssumption DEF Unmissed, Ahead
  <2>2. CASE registry = [c \in Ids |-> Absent]
    BY <2>2 DEF Unmissed, Fits, Absent
  <2> QED BY <2>1, <2>2
<1> QED BY <1>3, <1>4, <1>5 DEF SearchInv

(***************************************************************************)
(* Asking for the next client passes none by: the query returns the next   *)
(* number, and the walk for a name ends only behind the last one.          *)
(***************************************************************************)
LEMMA AskClientKeeps == SearchInv /\ AskClient => SearchInv'
<1> SUFFICES ASSUME SearchInv, AskClient PROVE SearchInv'
  OBVIOUS
<1> USE DEF SearchInv
<1>1. pc = "client" /\ found = <<>> /\ found' = <<>> /\ UNCHANGED kernel
  BY DEF AskClient, Queried, NoneFound
<1>2. NextClients \subseteq Ids /\ NextClients \subseteq Nat
  BY SeqAssumption DEF NextClients
<1>3. \A c \in steady, k \in 1 .. NNames : Fits(c, k) => c \in Ids /\ Ahead(c, k) /\ Fits(c, k)'
  BY <1>1 DEF Unmissed, SearchTypes, kernel, Fits
<1>4. \A c \in steady, k \in 1 .. NNames : Fits(c, k) /\ k = name => c \in NextClients
  BY <1>1, <1>3 DEF NextClients, Fits, Absent, Ahead
<1>5. CASE NextClients = {}
  <2>1. NoneFound
    BY <1>5 DEF AskClient
  <2>2. SearchTypes' /\ Queried' /\ FoundHadTheName'
    BY <1>1, <2>1, SeqAssumption
       DEF SearchTypes, Queried, FoundHadTheName, NoneFound, kernel
  <2>3. \A c \in steady, k \in 1 .. NNames : Fits(c, k) => k > name
    BY <1>3, <1>4, <1>5 DEF Ahead
  <2>4. \A c \in steady, k \in 1 .. NNames : Fits(c, k) => pc' # "done" /\ Ahead(c, k)'
    BY <1>1, <1>3, <2>1, <2>3, SeqAssumption DEF NoneFound, Ahead, SearchTypes
  <2>5. Unmissed'
    BY <1>1, <2>4 DEF Unmissed, Fits, kernel
  <2> QED BY <2>2, <2>5
<1>6. CASE NextClients # {}
  <2> DEFINE m == Min(NextClients)
  <2>1. m \in NextClients /\ \A c \in NextClients : m <= c
    BY <1>2, <1>6, MinIsLeast
  <2>2. m \in Ids /\ m \in Nat
    BY <1>2, <2>1
  <2>3. ci' = m /\ cnames' = registry[m].names /\ pi' = -1 /\ pc' = "port" /\ name' = name
    BY <1>6 DEF AskClient, CName
  <2> HIDE DEF m
  <2>4. registry[m].names \subseteq 1 .. NNames
    BY <2>2, Clients
  <2>5. SearchTypes'
    BY <1>1, <2>2, <2>3, <2>4 DEF SearchTypes, kernel
  <2>6. Queried' /\ FoundHadTheName'
    BY <1>1, <2>2, <2>3 DEF Queried, FoundHadTheName, kernel
  <2>7. \A c \in steady, k \in 1 .. NNames : Fits(c, k) => Ahead(c, k)'
    BY <1>2, <1>3, <1>4, <2>1, <2>2, <2>3 DEF Ahead, SearchTypes
  <2>8. Unmissed'
    BY <1>1, <2>3, <2>7 DEF Unmissed, Fits, kernel
  <2> QED BY <2>5, <2>6, <2>8
<1> QED BY <1>5, <1>6

(***************************************************************************)
(* Asking for a port returns the client's first one when its name fits, so *)
(* that a client that did not change is left only if it does not fit.      *)
(***************************************************************************)
LEMMA AskPortKeeps == SearchInv /\ AskPort => SearchInv'
<1> SUFFICES ASSUME SearchInv, AskPort PROVE SearchInv'
  OBVIOUS
<1> USE DEF SearchInv
<1>1. /\ pc = "port" /\ found = <<>> /\ UNCHANGED <<kernel, name, ci, cnames>>
      /\ ci \in Ids /\ ci \in Nat
  BY SeqAssumption DEF AskPort, Queried, NoPort
<1>2. NextPorts \subseteq Nat /\ registry[ci].ports \subseteq Nat
  BY <1>1, Clients DEF NextPorts
<1>3. \A c \in steady, k \in 1 .. NNames : Fits(c, k) => Ahead(c, k)
  BY <1>1 DEF Unmissed
<1>4. ci \in steady => cnames = registry[ci].names
  BY <1>1 DEF Queried
<1>5. name \in cnames => pi = -1
  BY <1>1 DEF Queried
<1>6. pi = -1 => NextPorts = registry[ci].ports
  BY <1>2 DEF NextPorts
<1>7. CASE NextPorts = {}
  <2>1. pc' = "client" /\ pi' = pi /\ found' = <<>>
    BY <1>1, <1>7 DEF AskPort, NoPort
  <2>2. SearchTypes' /\ Queried' /\ FoundHadTheName'
    BY <1>1, <2>1 DEF SearchTypes, Queried, FoundHadTheName, kernel
  <2>3. ci \in steady => ~Fits(ci, name)
    BY <1>4, <1>5, <1>6, <1>7 DEF Fits
  <2>4. \A c \in steady, k \in 1 .. NNames : Fits(c, k) => Ahead(c, k)'
    BY <1>1, <1>3, <2>1, <2>3 DEF Ahead
  <2>5. Unmissed'
    BY <1>1, <2>1, <2>4 DEF Unmissed, Fits, kernel
  <2> QED BY <2>2, <2>5
<1>8. CASE NextPorts # {} /\ name \in cnames
  <2> DEFINE p == Min(NextPorts)
  <2>1. p \in Nat /\ (ci \in steady => p = Min(registry[ci].ports))
    BY <1>2, <1>5, <1>6, <1>8, MinIsLeast
  <2>2. pc' = "done" /\ found' = <<ci, p>> /\ pi' = pi
    BY <1>8 DEF AskPort
  <2> HIDE DEF p
  <2>3. SearchTypes'
    BY <1>1, <2>1, <2>2 DEF SearchTypes, kernel
  <2>4. Queried' /\ FoundHadTheName'
    BY <1>1, <1>8, <2>2 DEF Queried, FoundHadTheName, kernel
  <2>5. ci \in steady => Fits(ci, name)
    BY <1>4, <1>5, <1>6, <1>8 DEF Fits
  <2>6. steady = Ids =>
          \A c \in Ids, k \in 1 .. NNames : Fits(c, k) => k > name \/ (k = name /\ c >= ci)
    BY <1>1, <1>3, SeqAssumption DEF Ahead
  <2>7. Unmissed'
    BY <1>1, <2>1, <2>2, <2>5, <2>6 DEF Unmissed, Fits, kernel
  <2> QED BY <2>3, <2>4, <2>7
<1>9. CASE NextPorts # {} /\ name \notin cnames
  <2>1. Min(NextPorts) \in Nat
    BY <1>2, <1>9, MinIsLeast
  <2>2. pc' = pc /\ found' = <<>> /\ pi' = Min(NextPorts)
    BY <1>1, <1>9 DEF AskPort
  <2>3. SearchTypes' /\ Queried' /\ FoundHadTheName'
    BY <1>1, <1>9, <2>1, <2>2 DEF SearchTypes, Queried, FoundHadTheName, kernel
  <2>4. Unmissed'
    BY <1>1, <1>3, <2>2 DEF Unmissed, Ahead, Fits, kernel
  <2> QED BY <2>3, <2>4
<1> QED BY <1>7, <1>8, <1>9

(***************************************************************************)
(* A client that comes or goes is steady no more, and the number keeps the *)
(* names that it has had.                                                  *)
(***************************************************************************)
LEMMA ReplugKeeps ==
  SearchInv /\ (\E c \in Ids, e \in Entries \cup {Absent} : Replug(c, e)) => SearchInv'
<1> SUFFICES ASSUME SearchInv, NEW c \in Ids, NEW e \in Entries \cup {Absent}, Replug(c, e)
             PROVE  SearchInv'
  OBVIOUS
<1> USE DEF SearchInv
<1>1. /\ pc # "done" /\ UNCHANGED search
      /\ registry' = [registry EXCEPT ![c] = e]
      /\ steady' = steady \ {c} /\ seen' = [seen EXCEPT ![c] = @ \cup e.names]
  BY DEF Replug
<1>2. found = <<>>
  BY <1>1 DEF Queried
<1>3. e.names \subseteq 1 .. NNames
  BY SeqAssumption DEF Absent
<1>4. SearchTypes'
  BY <1>1, <1>3 DEF SearchTypes, search
<1>5. \A d \in Ids : seen[d] \subseteq seen'[d] /\ registry'[d].names \subseteq seen'[d]
  BY <1>1 DEF Queried, SearchTypes
<1>6. \A d \in steady' : d \in steady /\ d \in Ids /\ registry'[d] = registry[d]
  BY <1>1 DEF SearchTypes
<1>7. Queried' /\ FoundHadTheName'
  BY <1>1, <1>2, <1>5, <1>6 DEF Queried, FoundHadTheName, search
<1>8. Unmissed'
  BY <1>1, <1>2, <1>6 DEF Unmissed, Ahead, Fits, search
<1> QED BY <1>4, <1>7, <1>8

(***************************************************************************)
(* The invariant of the search is inductive: the steps of recv leave the   *)
(* search alone.                                                           *)
(***************************************************************************)
LEMMA SearchNext == SearchInv /\ [Next]_seqVars => SearchInv'
<1> SUFFICES ASSUME SearchInv, [Next]_seqVars PROVE SearchInv'
  OBVIOUS
<1>1. CASE AskClient
  BY <1>1, AskClientKeeps
<1>2. CASE AskPort
  BY <1>2, AskPortKeeps
<1>3. CASE \E c \in Ids, e \in Entries \cup {Absent} : Replug(c, e)
  BY <1>3, ReplugKeeps
<1>4. CASE UNCHANGED <<kernel, search>>
  BY <1>4 DEF SearchInv, SearchTypes, Queried, FoundHadTheName, Unmissed, Ahead, Fits,
              kernel, search
<1>5. RecvStep \/ UNCHANGED seqVars => UNCHANGED <<kernel, search>>
  BY DEF RecvStep, Return, Read, seqVars
<1> QED BY <1>1, <1>2, <1>3, <1>4, <1>5 DEF Next, SearchStep

(***************************************************************************)
(* The invariant of the walk over the kernel's clients holds whatever they *)
(* do in between: find_midi_port of tools/alsaseq.py.                      *)
(***************************************************************************)
THEOREM SearchCorrect == Spec => []SearchInv
<1>1. Init => SearchInv
  BY SearchInit
<1>2. SearchInv /\ [Next]_seqVars => SearchInv'
  BY SearchNext
<1> QED BY <1>1, <1>2, PTL DEF Spec

(***************************************************************************)
(* The number that is returned has belonged to a client with the name      *)
(* during the search, for any clients, names and ports.                    *)
(***************************************************************************)
THEOREM FoundIsNoBystander == Spec => []FoundHadTheName
<1>1. SearchInv => FoundHadTheName
  BY DEF SearchInv
<1> QED BY <1>1, SearchCorrect, PTL

(***************************************************************************)
(* A client that was there all the time is not missed, and without changes *)
(* the result is the first port of the first client that fits, for any     *)
(* number of clients, names and ports.                                     *)
(***************************************************************************)
THEOREM SteadyNotMissed == Spec => []NotMissed
<1>1. SearchInv => NotMissed
  <2> SUFFICES ASSUME SearchInv, pc = "done" PROVE NotMissed
    BY DEF NotMissed
  <2> QED BY DEF SearchInv, SearchTypes, Unmissed, NotMissed
<1> QED BY <1>1, SearchCorrect, PTL

----------------------------------------------------------------------------
(* Flattened sequences *)

\* g[i] is the first i sequences of s in a row.
IsFlat(g, s, n) == g = [i \in 1 .. n |-> IF i = 1 THEN s[i] ELSE g[i - 1] \o s[i]]

(***************************************************************************)
(* Functions that flatten a sequence prefix by prefix exist, by induction  *)
(* on its length.                                                          *)
(***************************************************************************)
LEMMA FlatExists ==
  ASSUME NEW s PROVE \A n \in Nat : \E g : IsFlat(g, s, n)
<1> DEFINE S == {n \in Nat : \E g : IsFlat(g, s, n)}
<1>1. 0 \in S
  <2>1. IsFlat([i \in 1 .. 0 |-> <<>>], s, 0)
    BY DEF IsFlat
  <2> QED BY <2>1
<1>2. ASSUME NEW n \in Nat, n \in S PROVE n + 1 \in S
  <2>1. PICK g : IsFlat(g, s, n)
    BY <1>2
  <2> DEFINE h == [i \in 1 .. n + 1 |-> IF i = 1 THEN s[i] ELSE g[i - 1] \o s[i]]
  <2>2. \A i \in 1 .. n : h[i] = g[i]
    <3>1. \A i \in 1 .. n : g[i] = IF i = 1 THEN s[i] ELSE g[i - 1] \o s[i]
      BY <2>1 DEF IsFlat
    <3>2. \A i \in 1 .. n : h[i] = IF i = 1 THEN s[i] ELSE g[i - 1] \o s[i]
      OBVIOUS
    <3> HIDE DEF h
    <3> QED BY <3>1, <3>2
  <2>3. h = [i \in 1 .. n + 1 |-> IF i = 1 THEN s[i] ELSE h[i - 1] \o s[i]]
    <3>1. \A i \in 1 .. n + 1 : i # 1 => i - 1 \in 1 .. n
      OBVIOUS
    <3>2. \A i \in 1 .. n + 1 : i # 1 => h[i - 1] = g[i - 1]
      <4> HIDE DEF h
      <4> QED BY <2>2, <3>1
    <3> QED BY <3>2
  <2>4. IsFlat(h, s, n + 1)
    <3> HIDE DEF h
    <3> QED BY <2>3 DEF IsFlat
  <2> HIDE DEF h
  <2> QED BY <2>4
<1> HIDE DEF S
<1>3. Nat \subseteq S
  BY <1>1, <1>2, Induct
<1> QED BY <1>3 DEF S

(***************************************************************************)
(* There is only one for each length.                                      *)
(***************************************************************************)
LEMMA FlatUnique ==
  ASSUME NEW s, NEW n \in Nat, NEW g, NEW h, IsFlat(g, s, n), IsFlat(h, s, n)
  PROVE  g = h
<1> DEFINE S == {i \in Nat : i \in 1 .. n => g[i] = h[i]}
<1>1. 0 \in S
  OBVIOUS
<1>2. ASSUME NEW i \in Nat, i \in S PROVE i + 1 \in S
  <2>1. CASE i = 0
    <3>1. 1 \in 1 .. n => g[1] = s[1] /\ h[1] = s[1]
      BY DEF IsFlat
    <3>2. i + 1 = 1 /\ i + 1 \in Nat
      BY <2>1
    <3> QED BY <3>1, <3>2
  <2>2. CASE i > 0 /\ i < n
    <3>1. i + 1 \in 1 .. n /\ i + 1 # 1 /\ (i + 1) - 1 = i /\ g[i] = h[i]
      BY <1>2, <2>2
    <3>2. g[i + 1] = g[i] \o s[i + 1] /\ h[i + 1] = h[i] \o s[i + 1]
      BY <3>1 DEF IsFlat
    <3>3. g[i] \o s[i + 1] = h[i] \o s[i + 1]
      BY <3>1, Zenon
    <3>4. g[i + 1] = h[i + 1]
      BY <3>2, <3>3, Zenon
    <3> QED BY <3>4
  <2>3. CASE i >= n
    BY <2>3
  <2> QED BY <2>1, <2>2, <2>3
<1> HIDE DEF S
<1>3. Nat \subseteq S
  BY <1>1, <1>2, Induct
<1>4. \A i \in 1 .. n : g[i] = h[i]
  BY <1>3 DEF S
<1> QED BY <1>4 DEF IsFlat

(***************************************************************************)
(* FlattenSeq of the community modules, whose function is a CHOOSE, is its *)
(* last value.                                                             *)
(***************************************************************************)
LEMMA FlatIs ==
  ASSUME NEW s, NEW n \in Nat, NEW g, n > 0, IsFlat(g, s, n)
  PROVE  FlattenSeq([i \in 1 .. n |-> s[i]]) = g[n]
<1> DEFINE t == [i \in 1 .. n |-> s[i]]
<1>1. Len(t) = n
  OBVIOUS
<1> DEFINE f == CHOOSE f : f = [i \in 1 .. Len(t) |-> IF i = 1 THEN t[i] ELSE f[i - 1] \o t[i]]
<1>2. FlattenSeq(t) = f[Len(t)]
  BY <1>1 DEF FlattenSeq
<1>3. IsFlat(g, t, n)
  <2>1. \A i \in 1 .. n : t[i] = s[i]
    OBVIOUS
  <2> HIDE DEF t
  <2> QED BY <2>1 DEF IsFlat
<1>4. IsFlat(f, t, n)
  <2> HIDE DEF t
  <2> QED BY <1>1, <1>3 DEF IsFlat
<1> HIDE DEF f, t
<1>5. f = g
  BY <1>3, <1>4, FlatUnique
<1> QED BY <1>1, <1>2, <1>5 DEF t

(***************************************************************************)
(* Flattening no sequence gives none.                                      *)
(***************************************************************************)
LEMMA FlattenNone ==
  ASSUME NEW s PROVE FlattenSeq([i \in 1 .. 0 |-> s[i]]) = <<>>
<1> DEFINE t == [i \in 1 .. 0 |-> s[i]]
<1>1. t = <<>> /\ Len(t) = 0
  OBVIOUS
<1> HIDE DEF t
<1>2. FlattenSeq(t) = <<>>
  BY <1>1 DEF FlattenSeq
<1> QED BY <1>2 DEF t

(***************************************************************************)
(* Flattening one sequence more appends it.                                *)
(***************************************************************************)
LEMMA FlattenMore ==
  ASSUME NEW T, NEW s, NEW n \in Nat, s[n + 1] \in Seq(T)
  PROVE  FlattenSeq([i \in 1 .. n + 1 |-> s[i]]) = FlattenSeq([i \in 1 .. n |-> s[i]]) \o s[n + 1]
<1>0. n + 1 \in Nat
  OBVIOUS
<1>1. PICK g : IsFlat(g, s, n + 1)
  BY <1>0, FlatExists, Zenon
<1>2. FlattenSeq([i \in 1 .. n + 1 |-> s[i]]) = g[n + 1]
  BY <1>1, FlatIs
<1>3. CASE n = 0
  <2>1. FlattenSeq([i \in 1 .. n |-> s[i]]) = <<>>
    BY <1>3, FlattenNone
  <2>2. \A i \in 1 .. n + 1 : g[i] = IF i = 1 THEN s[i] ELSE g[i - 1] \o s[i]
    BY <1>1 DEF IsFlat
  <2>3. n + 1 = 1 /\ n + 1 \in 1 .. n + 1
    BY <1>3
  <2>4. g[n + 1] = s[n + 1]
    BY <2>2, <2>3
  <2>5. <<>> \o s[n + 1] = s[n + 1]
    BY ConcatEmptySeq
  <2> QED BY <1>2, <2>1, <2>4, <2>5
<1>4. CASE n > 0
  <2> DEFINE h == [i \in 1 .. n |-> g[i]]
  <2>1. \A i \in 1 .. n + 1 : g[i] = IF i = 1 THEN s[i] ELSE g[i - 1] \o s[i]
    BY <1>1 DEF IsFlat
  <2>2. \A i \in 1 .. n : i \in 1 .. n + 1 /\ (i # 1 => i - 1 \in 1 .. n)
    OBVIOUS
  <2>3. \A i \in 1 .. n : h[i] = IF i = 1 THEN s[i] ELSE h[i - 1] \o s[i]
    <3>1. \A i \in 1 .. n : h[i] = g[i]
      OBVIOUS
    <3> HIDE DEF h
    <3> QED BY <2>1, <2>2, <3>1
  <2>4. h = [i \in 1 .. n |-> h[i]]
    OBVIOUS
  <2>5. IsFlat(h, s, n)
    <3> HIDE DEF h
    <3> QED BY <2>3, <2>4 DEF IsFlat
  <2>6. h[n] = g[n]
    BY <1>4
  <2> HIDE DEF h
  <2>7. FlattenSeq([i \in 1 .. n |-> s[i]]) = g[n]
    BY <1>4, <2>5, <2>6, FlatIs
  <2>8. n + 1 \in 1 .. n + 1 /\ n + 1 # 1 /\ (n + 1) - 1 = n
    BY <1>4
  <2>9. g[n + 1] = g[n] \o s[n + 1]
    BY <2>1, <2>8
  <2> QED BY <1>2, <2>7, <2>9
<1>5. n = 0 \/ n > 0
  OBVIOUS
<1> QED BY <1>3, <1>4, <1>5, Zenon

(***************************************************************************)
(* Flattening sequences over a set gives a sequence over that set.         *)
(***************************************************************************)
LEMMA FlattenType ==
  ASSUME NEW T, NEW s, NEW n \in Nat, \A i \in 1 .. n : s[i] \in Seq(T)
  PROVE  FlattenSeq([i \in 1 .. n |-> s[i]]) \in Seq(T)
<1> DEFINE F(m) == FlattenSeq([i \in 1 .. m |-> s[i]])
           S == {m \in Nat : m <= n => F(m) \in Seq(T)}
<1>1. 0 \in S
  <2>1. F(0) = <<>>
    BY FlattenNone
  <2>2. F(0) \in Seq(T)
    BY <2>1, EmptySeq
  <2> QED BY <2>2
<1>2. ASSUME NEW m \in Nat, m \in S PROVE m + 1 \in S
  <2> SUFFICES ASSUME m + 1 <= n PROVE F(m + 1) \in Seq(T)
    OBVIOUS
  <2>1. F(m) \in Seq(T) /\ s[m + 1] \in Seq(T)
    BY <1>2
  <2>2. F(m + 1) = F(m) \o s[m + 1]
    BY <2>1, FlattenMore
  <2>3. F(m) \o s[m + 1] \in Seq(T)
    BY <2>1, ConcatProperties, Zenon
  <2> QED BY <2>2, <2>3, Zenon
<1> HIDE DEF S
<1>3. n \in S
  <2>1. Nat \subseteq S
    BY <1>1, <1>2, Induct
  <2> QED BY <2>1
<1> QED BY <1>3 DEF S

----------------------------------------------------------------------------
(* The event stream *)

\* An event, and a byte of the stream
Events == [sysex : BOOLEAN, var : BOOLEAN, len : Nat]
Byte == (1 .. Len(sent)) \X Nat

\* How many bytes the kernel writes for event i, and where the first n end
Size(i) == IF sent[i].var THEN Header + sent[i].len + CellPadding(sent[i].len) ELSE Header
End(n) == Len(Stream(n))

(***************************************************************************)
(* Reducing a number by m and then by a divisor of m is no more than       *)
(* reducing it by m.                                                       *)
(***************************************************************************)
LEMMA Remainders ==
  ASSUME NEW u \in Nat \ {0}, NEW m \in Nat \ {0}, (m % u) = 0, NEW a \in Int
  PROVE  (a % u) <= (a % m)
<1> DEFINE r == a % m
           q == a \div m
           s == a % u
           t == a \div u
           k == m \div u
<1>1. q \in Int /\ r \in Nat /\ a = (m * q) + r
  OBVIOUS
<1>2. t \in Int /\ s \in Nat /\ s < u /\ a = (u * t) + s
  OBVIOUS
<1>3. k \in Int /\ m = u * k
  <2>1. m = (u * (m \div u)) + (m % u) /\ (m \div u) \in Int
    OBVIOUS
  <2> QED BY <2>1
<1> HIDE DEF q, r, s, t, k
<1>4. m * q = u * (k * q)
  BY <1>1, <1>3
<1> DEFINE kq == k * q
<1>5. kq \in Int /\ m * q = u * kq
  BY <1>1, <1>3, <1>4
<1> HIDE DEF kq
<1>6. (u * kq) + r = (u * t) + s
  BY <1>1, <1>2, <1>5
<1>7. CASE kq >= t + 1
  <2>1. u * kq >= u * (t + 1)
    BY <1>2, <1>5, <1>7
  <2>2. u * (t + 1) = (u * t) + u
    BY <1>2
  <2> QED BY <1>1, <1>2, <1>5, <1>6, <2>1, <2>2
<1>8. CASE kq <= t
  <2>1. u * kq <= u * t
    BY <1>2, <1>5, <1>8
  <2>2. u * kq \in Int /\ u * t \in Int
    BY <1>2, <1>5
  <2>3. s <= r
    BY <1>1, <1>2, <1>6, <2>1, <2>2
  <2> QED BY <2>3 DEF r, s
<1> QED BY <1>2, <1>5, <1>7, <1>8

(***************************************************************************)
(* A padding is a number of bytes, and the kernel's is not the shorter.    *)
(***************************************************************************)
LEMMA Paddings ==
  ASSUME NEW n \in Nat
  PROVE  Padding(n) \in Nat /\ CellPadding(n) \in Nat /\ Padding(n) <= CellPadding(n)
<1>1. Unit \in Nat \ {0} /\ Header \in Nat \ {0} /\ (Header % Unit) = 0 /\ -n \in Int
  BY RecvAssumption
<1>2. \A a \in Int, b \in Nat : b > 0 => (a % b) \in Nat
  OBVIOUS
<1>3. ((-n) % Unit) <= ((-n) % Header)
  BY ONLY <1>1, Remainders
<1> QED BY <1>1, <1>2, <1>3 DEF Padding, CellPadding

(***************************************************************************)
(* The bytes of an event: each with its place, and as many as recv's total *)
(* says if recv expects its padding, or else more.                         *)
(***************************************************************************)
LEMMA Wires ==
  ASSUME sent \in Seq(Events), NEW i \in 1 .. Len(sent)
  PROVE  /\ sent[i] \in Events
         /\ Total(sent[i]) \in Nat /\ Total(sent[i]) >= Header
         /\ sent[i].var => Total(sent[i]) >= Header + sent[i].len
         /\ Size(i) \in Nat /\ Total(sent[i]) <= Size(i)
         /\ Fitting(i) => Total(sent[i]) = Size(i)
         /\ ~Fitting(i) => Total(sent[i]) < Size(i)
         /\ Wire(i) \in Seq(Byte) /\ Len(Wire(i)) = Size(i)
         /\ \A k \in 1 .. Size(i) : Wire(i)[k] = <<i, k>>
<1>1. sent[i] \in Events
  OBVIOUS
<1>2. sent[i].len \in Nat /\ sent[i].var \in BOOLEAN /\ Header \in Nat
  BY <1>1, RecvAssumption DEF Events
<1> DEFINE n == sent[i].len
           p == Padding(n)
           c == CellPadding(n)
<1>3. n \in Nat /\ p \in Nat /\ c \in Nat /\ p <= c
  BY <1>2, Paddings
<1>4. /\ Total(sent[i]) = IF sent[i].var THEN Header + n + p ELSE Header
      /\ Size(i) = IF sent[i].var THEN Header + n + c ELSE Header
      /\ Fitting(i) <=> (sent[i].var => c = p)
  BY DEF Total, Size, Fitting
<1> HIDE DEF n, p, c
<1>5. /\ Total(sent[i]) \in Nat /\ Total(sent[i]) >= Header
      /\ sent[i].var => Total(sent[i]) >= Header + n
      /\ Size(i) \in Nat /\ Total(sent[i]) <= Size(i)
      /\ Fitting(i) => Total(sent[i]) = Size(i)
      /\ ~Fitting(i) => Total(sent[i]) < Size(i)
  <2>1. CASE sent[i].var
    BY <1>2, <1>3, <1>4, <2>1
  <2>2. CASE ~sent[i].var
    BY <1>2, <1>3, <1>4, <2>2
  <2> QED BY <2>1, <2>2
<1>6. Wire(i) = [k \in 1 .. Size(i) |-> <<i, k>>]
  BY DEF Wire, Size
<1> HIDE DEF Wire, Total, Size
<1>7. \A k \in 1 .. Size(i) : <<i, k>> \in Byte
  BY <1>5 DEF Byte
<1>8. Wire(i) \in Seq(Byte) /\ Len(Wire(i)) = Size(i)
  BY <1>5, <1>6, <1>7, IsASeq
<1> QED BY <1>1, <1>5, <1>6, <1>8 DEF n

(***************************************************************************)
(* The bytes of the leading events grow by one event's bytes at a time.    *)
(***************************************************************************)
LEMMA LeadingWires ==
  ASSUME sent \in Seq(Events)
  PROVE  /\ Stream(0) = <<>>
         /\ \A n \in 0 .. Len(sent) : Stream(n) \in Seq(Byte) /\ End(n) \in Nat
         /\ \A n \in 0 .. Len(sent) - 1 :
              /\ Stream(n + 1) = Stream(n) \o Wire(n + 1)
              /\ End(n + 1) = End(n) + Size(n + 1)
<1> DEFINE s == [j \in Nat |-> Wire(j)]
<1>7. Len(sent) \in Nat
  OBVIOUS
<1>1. ASSUME NEW n \in Nat PROVE Stream(n) = FlattenSeq([j \in 1 .. n |-> s[j]])
  <2>1. [j \in 1 .. n |-> Wire(j)] = [j \in 1 .. n |-> s[j]]
    OBVIOUS
  <2> QED BY <2>1 DEF Stream
<1>2. \A j \in 1 .. Len(sent) : s[j] = Wire(j) /\ s[j] \in Seq(Byte) /\ Len(s[j]) = Size(j)
  BY Wires
<1> HIDE DEF s
<1>3. Stream(0) = <<>>
  BY <1>1, FlattenNone
<1>4. ASSUME NEW n \in 0 .. Len(sent) PROVE Stream(n) \in Seq(Byte) /\ End(n) \in Nat
  <2>1. n \in Nat /\ \A j \in 1 .. n : s[j] \in Seq(Byte)
    BY <1>7, <1>2
  <2>2. FlattenSeq([j \in 1 .. n |-> s[j]]) \in Seq(Byte)
    BY <2>1, FlattenType
  <2>3. Stream(n) \in Seq(Byte)
    BY <1>1, <2>1, <2>2
  <2> QED BY <2>3, LenProperties DEF End
<1>5. ASSUME NEW n \in 0 .. Len(sent) - 1
      PROVE  Stream(n + 1) = Stream(n) \o Wire(n + 1) /\ End(n + 1) = End(n) + Size(n + 1)
  <2>1. n \in Nat /\ n + 1 \in Nat /\ n + 1 \in 1 .. Len(sent) /\ n \in 0 .. Len(sent)
    BY <1>7
  <2>2. s[n + 1] \in Seq(Byte) /\ s[n + 1] = Wire(n + 1) /\ Len(s[n + 1]) = Size(n + 1)
    BY <1>2, <2>1
  <2>3. FlattenSeq([j \in 1 .. n + 1 |-> s[j]]) = FlattenSeq([j \in 1 .. n |-> s[j]]) \o s[n + 1]
    BY <2>1, <2>2, FlattenMore
  <2>4. Stream(n + 1) = Stream(n) \o Wire(n + 1)
    BY <1>1, <2>1, <2>2, <2>3
  <2>5. Stream(n) \in Seq(Byte)
    BY <1>4, <2>1
  <2>6. Len(Stream(n) \o Wire(n + 1)) = Len(Stream(n)) + Len(Wire(n + 1))
    BY <2>2, <2>5, ConcatProperties
  <2> QED BY <2>2, <2>4, <2>6 DEF End
<1> QED BY <1>3, <1>4, <1>5

(***************************************************************************)
(* More events end later.                                                  *)
(***************************************************************************)
LEMMA Ordered ==
  ASSUME sent \in Seq(Events), NEW m \in 0 .. Len(sent), NEW n \in 0 .. Len(sent), m <= n
  PROVE  End(m) <= End(n)
<1> DEFINE S == {k \in Nat : m <= k /\ k <= Len(sent) => End(m) <= End(k)}
<1>0. Len(sent) \in Nat /\ m \in Nat /\ \A k \in 0 .. Len(sent) : End(k) \in Nat
  BY LeadingWires
<1> HIDE DEF End
<1>1. 0 \in S
  BY <1>0
<1>2. ASSUME NEW k \in Nat, k \in S PROVE k + 1 \in S
  <2> SUFFICES ASSUME m <= k + 1, k + 1 <= Len(sent) PROVE End(m) <= End(k + 1)
    OBVIOUS
  <2>1. CASE m = k + 1
    BY <1>0, <2>1
  <2>2. CASE m <= k
    <3>1. k \in 0 .. Len(sent) - 1 /\ k \in 0 .. Len(sent) /\ k + 1 \in 1 .. Len(sent)
      BY <1>0
    <3>2. End(k + 1) = End(k) + Size(k + 1)
      BY <3>1, LeadingWires
    <3>3. Size(k + 1) \in Nat
      BY <3>1, Wires
    <3>4. End(m) <= End(k)
      BY <1>2, <2>2, <3>1
    <3> QED BY <1>0, <3>1, <3>2, <3>3, <3>4
  <2> QED BY <1>0, <2>1, <2>2
<1> HIDE DEF S
<1>3. Nat \subseteq S
  BY <1>1, <1>2, Induct
<1>4. n \in Nat /\ n <= Len(sent)
  BY <1>0
<1> QED BY <1>3, <1>4 DEF S

(***************************************************************************)
(* Which byte stands where in the stream.                                  *)
(***************************************************************************)
LEMMA Places ==
  ASSUME sent \in Seq(Events), NEW n \in 0 .. Len(sent) - 1,
         NEW k \in 1 .. Size(n + 1), NEW g \in n + 1 .. Len(sent)
  PROVE  Stream(g)[End(n) + k] = <<n + 1, k>>
<1> DEFINE S == {m \in Nat : n < m /\ m <= Len(sent) => Stream(m)[End(n) + k] = <<n + 1, k>>}
           t == Size(n + 1)
<1>0. /\ Len(sent) \in Nat /\ n \in Nat /\ n + 1 \in 1 .. Len(sent) /\ n \in 0 .. Len(sent)
      /\ t \in Nat /\ k \in Nat /\ 1 <= k /\ k <= t
  BY Wires
<1>1. \A j \in 0 .. Len(sent) : Stream(j) \in Seq(Byte) /\ Len(Stream(j)) = End(j) /\ End(j) \in Nat
  BY LeadingWires DEF End
<1> HIDE DEF End, t
<1>2. 0 \in S
  BY <1>0
<1>3. ASSUME NEW m \in Nat, m \in S PROVE m + 1 \in S
  <2> SUFFICES ASSUME n < m + 1, m + 1 <= Len(sent) PROVE Stream(m + 1)[End(n) + k] = <<n + 1, k>>
    OBVIOUS
  <2>1. m \in 0 .. Len(sent) - 1 /\ m \in 0 .. Len(sent) /\ m + 1 \in 1 .. Len(sent)
    BY <1>0
  <2>2. Stream(m + 1) = Stream(m) \o Wire(m + 1)
    BY <2>1, LeadingWires
  <2>3. /\ Wire(m + 1) \in Seq(Byte) /\ Len(Wire(m + 1)) = Size(m + 1)
        /\ \A j \in 1 .. Size(m + 1) : Wire(m + 1)[j] = <<m + 1, j>>
    BY <2>1, Wires
  <2>4. \A i \in 1 .. End(m) + Size(m + 1) :
          Stream(m + 1)[i] = IF i <= End(m) THEN Stream(m)[i] ELSE Wire(m + 1)[i - End(m)]
    <3>1. Stream(m) \in Seq(Byte) /\ Len(Stream(m)) = End(m)
      BY <1>1, <2>1
    <3>2. \A i \in 1 .. Len(Stream(m)) + Len(Wire(m + 1)) :
            (Stream(m) \o Wire(m + 1))[i] =
              IF i <= Len(Stream(m)) THEN Stream(m)[i] ELSE Wire(m + 1)[i - Len(Stream(m))]
      BY <2>3, <3>1, ConcatProperties
    <3> QED BY <2>2, <2>3, <3>1, <3>2, Zenon
  <2>5. Size(m + 1) \in Nat
    BY <2>1, Wires
  <2>6. CASE n = m
    <3>1. /\ End(n) + k \in 1 .. End(m) + Size(m + 1)
          /\ ~ (End(n) + k <= End(m)) /\ (End(n) + k) - End(m) = k
      BY <1>0, <1>1, <2>1, <2>5, <2>6 DEF t
    <3> QED BY <1>0, <2>3, <2>4, <2>6, <3>1 DEF t
  <2>7. CASE n < m
    <3>1. End(n + 1) <= End(m)
      BY <1>0, <2>1, <2>7, Ordered
    <3>2. End(n + 1) = End(n) + t
      BY LeadingWires DEF t
    <3>3. End(n) \in Nat /\ End(m) \in Nat
      BY <1>0, <1>1, <2>1
    <3>4. End(n) + k \in 1 .. End(m) + Size(m + 1) /\ End(n) + k <= End(m)
      BY <1>0, <2>5, <3>1, <3>2, <3>3
    <3> QED BY <1>3, <2>1, <2>4, <2>7, <3>4
  <2> QED BY <1>0, <2>6, <2>7
<1> HIDE DEF S
<1>4. g \in S
  <2>1. Nat \subseteq S
    BY <1>2, <1>3, Induct
  <2>2. g \in Nat
    BY <1>0
  <2> QED BY <2>1, <2>2
<1>5. n < g /\ g <= Len(sent)
  BY <1>0
<1> QED BY <1>4, <1>5 DEF S

----------------------------------------------------------------------------
(* The loop of recv over a buffer *)

(***************************************************************************)
(* A suffix of a sequence, by its elements.                                *)
(***************************************************************************)
LEMMA SuffixIs ==
  ASSUME NEW T, NEW s \in Seq(T), NEW k \in 1 .. Len(s) + 1
  PROVE  /\ SubSeq(s, k, Len(s)) \in Seq(T)
         /\ Len(SubSeq(s, k, Len(s))) = Len(s) - k + 1
         /\ \A i \in 1 .. Len(s) - k + 1 : SubSeq(s, k, Len(s))[i] = s[k + i - 1]
<1>1. k \in Int /\ Len(s) \in Int /\ Len(s) \in Nat /\ \A i \in k .. Len(s) : s[i] \in T
  OBVIOUS
<1>2. /\ SubSeq(s, k, Len(s)) \in Seq(T)
      /\ Len(SubSeq(s, k, Len(s))) = IF k <= Len(s) THEN Len(s) - k + 1 ELSE 0
      /\ \A i \in 1 .. Len(s) - k + 1 : SubSeq(s, k, Len(s))[i] = s[k + i - 1]
  BY <1>1, SubSeqProperties
<1> QED BY <1>1, <1>2

(***************************************************************************)
(* A suffix of a suffix is a suffix.                                       *)
(***************************************************************************)
LEMMA SuffixOfSuffix ==
  ASSUME NEW T, NEW s \in Seq(T), NEW k \in 1 .. Len(s) + 1, NEW t \in 0 .. Len(s) - k + 1
  PROVE  SubSeq(SubSeq(s, k, Len(s)), t + 1, Len(SubSeq(s, k, Len(s)))) = SubSeq(s, k + t, Len(s))
<1> DEFINE u == SubSeq(s, k, Len(s))
           v == SubSeq(u, t + 1, Len(u))
           w == SubSeq(s, k + t, Len(s))
<1>0. Len(s) \in Nat /\ k \in Nat /\ t \in Nat
  OBVIOUS
<1>1. u \in Seq(T) /\ Len(u) = Len(s) - k + 1 /\ \A i \in 1 .. Len(s) - k + 1 : u[i] = s[k + i - 1]
  BY SuffixIs
<1> HIDE DEF u
<1>2. /\ v \in Seq(T) /\ Len(v) = Len(u) - (t + 1) + 1
      /\ \A i \in 1 .. Len(u) - (t + 1) + 1 : v[i] = u[(t + 1) + i - 1]
  <2>1. t + 1 \in 1 .. Len(u) + 1
    BY <1>0, <1>1
  <2> QED BY <1>1, <2>1, SuffixIs
<1>3. /\ w \in Seq(T) /\ Len(w) = Len(s) - (k + t) + 1
      /\ \A i \in 1 .. Len(s) - (k + t) + 1 : w[i] = s[(k + t) + i - 1]
  <2>1. k + t \in 1 .. Len(s) + 1
    BY <1>0
  <2> QED BY <2>1, SuffixIs
<1> HIDE DEF v, w
<1>4. Len(v) = Len(w)
  BY <1>0, <1>1, <1>2, <1>3
<1>5. ASSUME NEW i \in 1 .. Len(v) PROVE v[i] = w[i]
  <2>1. v[i] = u[(t + 1) + i - 1]
    BY <1>2
  <2>2. (t + 1) + i - 1 \in 1 .. Len(s) - k + 1
    BY <1>0, <1>1, <1>2
  <2>3. u[(t + 1) + i - 1] = s[k + ((t + 1) + i - 1) - 1]
    BY <1>1, <2>2
  <2>4. w[i] = s[(k + t) + i - 1]
    BY <1>3, <1>4
  <2>5. k + ((t + 1) + i - 1) - 1 = (k + t) + i - 1
    BY <1>0
  <2> QED BY <2>1, <2>3, <2>4, <2>5
<1>6. v = w
  BY <1>2, <1>3, <1>4, <1>5, SeqEqual
<1> QED BY <1>6 DEF v, w, u

\* What Parse's function returns for a buffer, given its other values
Body(f, b) ==
  IF Len(b) < Header \/ OutOfStep(b) THEN [out |-> <<>>, rest |-> b]
  ELSE LET e == sent[b[1][1]] IN
       IF Len(b) < Total(e) THEN [out |-> <<>>, rest |-> b]
       ELSE LET after == f[SubSeq(b, Total(e) + 1, Len(b))] IN
            [after EXCEPT !.out =
               (IF e.var /\ e.sysex THEN <<SubSeq(b, Header + 1, Header + e.len)>>
                ELSE <<>>) \o @]

\* The suffixes of a buffer that have at most m bytes
Tails(buf, m) == {SubSeq(buf, k, Len(buf)) : k \in Len(buf) + 1 - m .. Len(buf) + 1}

\* The part of Parse's function for the shortest buffers
IsParse(f, buf, m) == f = [b \in Tails(buf, m) |-> Body(f, b)]

(***************************************************************************)
(* The loop of recv goes on with a shorter buffer, so that what it returns *)
(* for a buffer depends only on shorter ones.                              *)
(***************************************************************************)
LEMMA Shortens ==
  ASSUME sent \in Seq(Events), NEW buf \in Seq(Byte), NEW m \in Nat, m < Len(buf),
         NEW b \in Tails(buf, m + 1), NEW f, NEW h, \A c \in Tails(buf, m) : f[c] = h[c]
  PROVE  Body(f, b) = Body(h, b)
<1>0. PICK k \in Len(buf) - m .. Len(buf) + 1 : b = SubSeq(buf, k, Len(buf))
  <2>1. Len(buf) + 1 - (m + 1) = Len(buf) - m
    OBVIOUS
  <2> QED BY <2>1 DEF Tails
<1>1. Len(buf) \in Nat /\ k \in 1 .. Len(buf) + 1
  BY <1>0
<1>2. b \in Seq(Byte) /\ Len(b) = Len(buf) - k + 1
  BY <1>0, <1>1, SuffixIs
<1>3. CASE Len(b) < Header \/ OutOfStep(b)
  BY <1>3 DEF Body
<1>4. CASE ~ (Len(b) < Header \/ OutOfStep(b))
  <2> DEFINE e == sent[b[1][1]]
  <2>1. 1 \in 1 .. Len(b)
    BY <1>2, <1>4, RecvAssumption
  <2>2. b[1] \in Byte
    BY <1>2, <2>1
  <2>3. b[1][1] \in 1 .. Len(sent)
    BY <2>2 DEF Byte
  <2>4. Total(e) \in Nat /\ Total(e) >= 1
    <3>1. Total(e) \in Nat /\ Total(e) >= Header
      BY <2>3, Wires
    <3> HIDE DEF e
    <3> QED BY <3>1, RecvAssumption
  <2> HIDE DEF e
  <2>5. CASE Len(b) < Total(e)
    BY <1>4, <2>5 DEF Body, e
  <2>6. CASE ~ (Len(b) < Total(e))
    <3>1. Total(e) \in 0 .. Len(buf) - k + 1
      BY <1>1, <1>2, <2>4, <2>6
    <3>2. SubSeq(b, Total(e) + 1, Len(b)) = SubSeq(buf, k + Total(e), Len(buf))
      BY <1>0, <1>1, <3>1, SuffixOfSuffix
    <3>3. k + Total(e) \in Len(buf) + 1 - m .. Len(buf) + 1
      BY <1>0, <1>1, <2>4, <3>1
    <3>4. SubSeq(b, Total(e) + 1, Len(b)) \in Tails(buf, m)
      BY <3>2, <3>3 DEF Tails
    <3>5. f[SubSeq(b, Total(e) + 1, Len(b))] = h[SubSeq(b, Total(e) + 1, Len(b))]
      BY <3>4
    <3> QED BY <1>4, <2>6, <3>5 DEF Body, e
  <2> QED BY <2>5, <2>6
<1> QED BY <1>3, <1>4

(***************************************************************************)
(* Hence a function of the kind Parse defines exists for every buffer of   *)
(* the stream's bytes.                                                     *)
(***************************************************************************)
LEMMA ParseExists ==
  ASSUME sent \in Seq(Events), NEW buf \in Seq(Byte)
  PROVE  \E f : IsParse(f, buf, Len(buf))
<1> DEFINE S == {m \in Nat : m <= Len(buf) => \E f : IsParse(f, buf, m)}
<1>0. Len(buf) \in Nat
  OBVIOUS
<1>1. 0 \in S
  <2> DEFINE g == [b \in Tails(buf, 0) |-> [out |-> <<>>, rest |-> b]]
  <2>1. ASSUME NEW b \in Tails(buf, 0), NEW f PROVE Body(f, b) = [out |-> <<>>, rest |-> b]
    <3>1. b = SubSeq(buf, Len(buf) + 1, Len(buf))
      BY <1>0 DEF Tails
    <3>2. Len(b) = 0
      BY <1>0, <3>1, SubSeqEmpty
    <3> QED BY <3>2, RecvAssumption DEF Body
  <2>2. g = [b \in Tails(buf, 0) |-> Body(g, b)]
    BY <2>1, Zenon
  <2>3. IsParse(g, buf, 0)
    <3> HIDE DEF g
    <3> QED BY <2>2 DEF IsParse
  <2> HIDE DEF g
  <2> QED BY <2>3
<1>2. ASSUME NEW m \in Nat, m \in S PROVE m + 1 \in S
  <2> SUFFICES ASSUME m + 1 <= Len(buf) PROVE \E f : IsParse(f, buf, m + 1)
    OBVIOUS
  <2>0. m < Len(buf) /\ m <= Len(buf)
    BY <1>0
  <2>1. PICK f : IsParse(f, buf, m)
    BY <1>2, <2>0
  <2> DEFINE h == [b \in Tails(buf, m + 1) |-> Body(f, b)]
  <2>2. Tails(buf, m) \subseteq Tails(buf, m + 1)
    BY <1>0 DEF Tails
  <2>3. \A b \in Tails(buf, m + 1) : h[b] = Body(f, b)
    OBVIOUS
  <2>4. \A b \in Tails(buf, m) : f[b] = Body(f, b)
    <3>1. f = [b \in Tails(buf, m) |-> Body(f, b)]
      BY <2>1 DEF IsParse
    <3> QED BY <3>1, Zenon
  <2> HIDE DEF h
  <2>5. \A b \in Tails(buf, m) : f[b] = h[b]
    BY <2>2, <2>3, <2>4
  <2>6. \A b \in Tails(buf, m + 1) : Body(f, b) = Body(h, b)
    BY <2>0, <2>5, Shortens
  <2>7. h = [b \in Tails(buf, m + 1) |-> Body(h, b)]
    BY <2>6, Zenon DEF h
  <2>8. IsParse(h, buf, m + 1)
    BY <2>7 DEF IsParse
  <2> QED BY <2>8
<1> HIDE DEF S
<1>3. Len(buf) \in S
  <2>1. Nat \subseteq S
    BY <1>1, <1>2, Induct
  <2> QED BY <2>1, <1>0
<1> QED BY <1>3 DEF S

(***************************************************************************)
(* Parse, whose function is a CHOOSE, is that function's value.            *)
(***************************************************************************)
LEMMA ParseIs ==
  ASSUME sent \in Seq(Events), NEW buf \in Seq(Byte)
  PROVE  \E f : /\ Parse(buf) = f[buf]
                /\ \A b \in Tails(buf, Len(buf)) : f[b] = Body(f, b)
<1> DEFINE f == CHOOSE f : f = [b \in {SubSeq(buf, k, Len(buf)) : k \in 1 .. Len(buf) + 1} |->
                                  Body(f, b)]
<1>1. Parse(buf) = f[buf]
  BY DEF Parse, Body
<1>2. Tails(buf, Len(buf)) = {SubSeq(buf, k, Len(buf)) : k \in 1 .. Len(buf) + 1}
  <2>1. Len(buf) + 1 - Len(buf) = 1
    OBVIOUS
  <2> QED BY <2>1 DEF Tails
<1>3. \E g : g = [b \in Tails(buf, Len(buf)) |-> Body(g, b)]
  BY ParseExists DEF IsParse
<1>4. f = [b \in Tails(buf, Len(buf)) |-> Body(f, b)]
  BY <1>2, <1>3
<1> HIDE DEF f
<1>5. \A b \in Tails(buf, Len(buf)) : f[b] = Body(f, b)
  BY <1>4, Zenon
<1> QED BY <1>1, <1>5

\* What recv returns of event i, and of the first n
Returned(i) == IF sent[i].var /\ sent[i].sysex THEN <<Data(i)>> ELSE <<>>
AllReturned(n) == FlattenSeq([i \in 1 .. n |-> Returned(i)])

\* What a SysEx message is made of; and the events from n + 1 to g in a row
Pieces == Seq(Nat \X Nat)
Rest(n, g) == SubSeq(Stream(g), End(n) + 1, End(g))

(***************************************************************************)
(* What recv returns of the leading events grows by one event's at a time. *)
(***************************************************************************)
LEMMA LeadingReturned ==
  ASSUME sent \in Seq(Events)
  PROVE  /\ AllReturned(0) = <<>>
         /\ \A n \in 0 .. Len(sent) : AllReturned(n) \in Seq(Pieces)
         /\ \A n \in 0 .. Len(sent) - 1 :
              /\ Returned(n + 1) \in Seq(Pieces)
              /\ AllReturned(n + 1) = AllReturned(n) \o Returned(n + 1)
<1> DEFINE s == [i \in Nat |-> Returned(i)]
<1>0. Len(sent) \in Nat
  OBVIOUS
<1>1. ASSUME NEW n \in Nat PROVE AllReturned(n) = FlattenSeq([i \in 1 .. n |-> s[i]])
  <2>1. [i \in 1 .. n |-> Returned(i)] = [i \in 1 .. n |-> s[i]]
    OBVIOUS
  <2> QED BY <2>1 DEF AllReturned
<1>2. ASSUME NEW i \in 1 .. Len(sent) PROVE s[i] = Returned(i) /\ s[i] \in Seq(Pieces)
  <2>1. s[i] = Returned(i)
    OBVIOUS
  <2>2. sent[i].len \in Nat /\ Header \in Nat
    <3>1. sent[i] \in Events
      OBVIOUS
    <3> QED BY <3>1, RecvAssumption DEF Events
  <2>3. Data(i) \in Pieces
    <3>1. \A k \in 1 .. sent[i].len : <<i, Header + k>> \in Nat \X Nat
      BY <1>0, <2>2
    <3> QED BY <2>2, <3>1, IsASeq DEF Data, Pieces
  <2>4. Returned(i) \in Seq(Pieces)
    <3> HIDE DEF Data
    <3> QED BY <2>3 DEF Returned
  <2> QED BY <2>1, <2>4, Zenon
<1> HIDE DEF s
<1>3. AllReturned(0) = <<>>
  BY <1>1, FlattenNone
<1>4. ASSUME NEW n \in 0 .. Len(sent) PROVE AllReturned(n) \in Seq(Pieces)
  <2>1. n \in Nat /\ \A i \in 1 .. n : s[i] \in Seq(Pieces)
    BY <1>0, <1>2
  <2>2. FlattenSeq([i \in 1 .. n |-> s[i]]) \in Seq(Pieces)
    BY <2>1, FlattenType
  <2> QED BY <1>1, <2>1, <2>2, Zenon
<1>5. ASSUME NEW n \in 0 .. Len(sent) - 1
      PROVE  /\ Returned(n + 1) \in Seq(Pieces)
             /\ AllReturned(n + 1) = AllReturned(n) \o Returned(n + 1)
  <2>1. n \in Nat /\ n + 1 \in Nat /\ n + 1 \in 1 .. Len(sent)
    BY <1>0
  <2>2. s[n + 1] \in Seq(Pieces) /\ s[n + 1] = Returned(n + 1)
    BY <1>2, <2>1
  <2>3. FlattenSeq([i \in 1 .. n + 1 |-> s[i]]) = FlattenSeq([i \in 1 .. n |-> s[i]]) \o s[n + 1]
    BY <2>1, <2>2, FlattenMore
  <2> QED BY <1>1, <2>1, <2>2, <2>3, Zenon
<1> QED BY <1>3, <1>4, <1>5

(***************************************************************************)
(* What follows an event in the bytes read so far, by its bytes.           *)
(***************************************************************************)
LEMMA RestIs ==
  ASSUME sent \in Seq(Events), NEW g \in 0 .. Len(sent), NEW n \in 0 .. g
  PROVE  /\ Rest(n, g) \in Seq(Byte) /\ Len(Rest(n, g)) = End(g) - End(n)
         /\ End(n) \in Nat /\ End(g) \in Nat /\ End(n) <= End(g)
         /\ \A i \in 1 .. End(g) - End(n) : Rest(n, g)[i] = Stream(g)[End(n) + i]
<1>0. Len(sent) \in Nat /\ n \in 0 .. Len(sent) /\ n <= g
  OBVIOUS
<1>1. Stream(g) \in Seq(Byte) /\ Len(Stream(g)) = End(g) /\ End(g) \in Nat /\ End(n) \in Nat
  BY <1>0, LeadingWires DEF End
<1>2. End(n) <= End(g)
  BY <1>0, Ordered
<1> HIDE DEF End, Stream
<1> DEFINE a == End(n) + 1
           b == End(g)
           s == Stream(g)
<1>3. a \in Int /\ b \in Int /\ b - a + 1 = End(g) - End(n)
  BY <1>1
<1>4. \A i \in a .. b : s[i] \in Byte
  <2>1. \A i \in 1 .. Len(s) : s[i] \in Byte
    BY <1>1
  <2>2. a .. b \subseteq 1 .. Len(s)
    BY <1>1
  <2> QED BY <2>1, <2>2
<1>5. \A i \in 1 .. End(g) - End(n) : a + i - 1 = End(n) + i
  BY <1>1
<1>6. Rest(n, g) = SubSeq(s, a, b)
  BY DEF Rest
<1>7. (a <= b => b - a + 1 = End(g) - End(n)) /\ (~(a <= b) => End(g) - End(n) = 0)
  BY <1>1, <1>2
<1> HIDE DEF a, b, s
<1>8. /\ SubSeq(s, a, b) \in Seq(Byte)
      /\ Len(SubSeq(s, a, b)) = IF a <= b THEN b - a + 1 ELSE 0
      /\ \A i \in 1 .. b - a + 1 : SubSeq(s, a, b)[i] = s[a + i - 1]
  BY ONLY <1>3, <1>4, SubSeqProperties
<1>9. Len(Rest(n, g)) = End(g) - End(n)
  BY <1>6, <1>7, <1>8
<1>10. \A i \in 1 .. End(g) - End(n) : Rest(n, g)[i] = Stream(g)[End(n) + i]
  <2>1. \A i \in 1 .. End(g) - End(n) : SubSeq(s, a, b)[i] = s[a + i - 1]
    BY <1>3, <1>8
  <2> QED BY <1>5, <1>6, <2>1 DEF s
<1> QED BY <1>1, <1>2, <1>6, <1>8, <1>9, <1>10

(***************************************************************************)
(* It is a suffix of what follows an earlier event.                        *)
(***************************************************************************)
LEMMA RestOfRest ==
  ASSUME sent \in Seq(Events), NEW g \in 0 .. Len(sent), NEW n \in 0 .. g, NEW w \in 0 .. n
  PROVE  /\ Rest(n, g) = SubSeq(Rest(w, g), End(n) - End(w) + 1, Len(Rest(w, g)))
         /\ End(w) <= End(n) /\ End(n) <= End(g)
<1> DEFINE b == Rest(w, g)
           k == End(n) - End(w) + 1
           c == SubSeq(b, k, Len(b))
<1>0. w \in 0 .. g /\ w \in 0 .. Len(sent) /\ n \in 0 .. Len(sent) /\ w <= n
  OBVIOUS
<1>1. End(w) <= End(n)
  BY <1>0, Ordered
<1>2. /\ b \in Seq(Byte) /\ Len(b) = End(g) - End(w) /\ End(w) \in Nat
      /\ \A i \in 1 .. End(g) - End(w) : b[i] = Stream(g)[End(w) + i]
  BY <1>0, RestIs
<1>3. /\ Rest(n, g) \in Seq(Byte) /\ Len(Rest(n, g)) = End(g) - End(n)
      /\ End(n) \in Nat /\ End(g) \in Nat /\ End(n) <= End(g)
      /\ \A i \in 1 .. End(g) - End(n) : Rest(n, g)[i] = Stream(g)[End(n) + i]
  BY RestIs
<1> HIDE DEF End, Stream, b
<1>4. k \in 1 .. Len(b) + 1
  BY <1>1, <1>2, <1>3
<1> HIDE DEF k
<1>5. c \in Seq(Byte) /\ Len(c) = Len(b) - k + 1 /\ \A i \in 1 .. Len(b) - k + 1 : c[i] = b[k + i - 1]
  BY <1>2, <1>4, SuffixIs
<1> HIDE DEF c
<1>6. Len(b) - k + 1 = End(g) - End(n)
  BY <1>2, <1>3 DEF k
<1>7. ASSUME NEW i \in 1 .. End(g) - End(n) PROVE c[i] = Rest(n, g)[i]
  <2>1. i \in 1 .. Len(b) - k + 1
    BY <1>6
  <2>2. k + i - 1 \in 1 .. End(g) - End(w) /\ End(w) + (k + i - 1) = End(n) + i
    <3>1. /\ End(w) \in Nat /\ End(n) \in Nat /\ End(g) \in Nat
          /\ End(w) <= End(n) /\ End(n) <= End(g)
      BY ONLY <1>1, <1>2, <1>3
    <3>2. i \in Nat /\ 1 <= i /\ i <= End(g) - End(n)
      BY ONLY <1>7, <3>1
    <3>3. k = End(n) - End(w) + 1
      BY ONLY DEF k
    <3> QED BY ONLY <3>1, <3>2, <3>3
  <2>3. c[i] = b[k + i - 1]
    BY ONLY <1>5, <2>1
  <2>4. b[k + i - 1] = Stream(g)[End(w) + (k + i - 1)]
    BY ONLY <1>2, <2>2
  <2>5. Rest(n, g)[i] = Stream(g)[End(n) + i]
    BY ONLY <1>3, <1>7
  <2> QED BY ONLY <2>2, <2>3, <2>4, <2>5
<1>8. c = Rest(n, g)
  BY <1>3, <1>5, <1>6, <1>7, SeqEqual
<1> QED BY <1>1, <1>3, <1>8 DEF c, b, k

(***************************************************************************)
(* What the loop does with its record for a shorter buffer.                *)
(***************************************************************************)
LEMMA Prepended ==
  ASSUME NEW a, NEW p, NEW r, NEW rec, rec = [out |-> p, rest |-> r]
  PROVE  [rec EXCEPT !.out = a \o @] = [out |-> a \o p, rest |-> r]
<1>1. rec \in [out : {p}, rest : {r}] /\ rec.out = p /\ rec.rest = r
  OBVIOUS
<1> DEFINE ap == a \o p
           new == [rec EXCEPT !.out = a \o @]
<1>2. new = [rec EXCEPT !.out = ap]
  BY <1>1, Zenon
<1> HIDE DEF ap, new
<1>3. [rec EXCEPT !.out = ap] = [out |-> ap, rest |-> r]
  BY <1>1
<1> QED BY <1>2, <1>3, Zenon DEF new, ap

(***************************************************************************)
(* Where no header begins the loop stops, and everything stays.            *)
(***************************************************************************)
LEMMA ParseStops ==
  ASSUME NEW b, b = <<>> \/ OutOfStep(b), NEW f
  PROVE  Body(f, b) = [out |-> <<>>, rest |-> b]
<1>1. CASE b = <<>>
  BY <1>1, RecvAssumption DEF Body
<1>2. CASE OutOfStep(b)
  BY <1>2 DEF Body
<1> QED BY <1>1, <1>2

\* What recv keeps of the events from n + 1 to g when it took off the first
After(n, g) == SubSeq(Rest(n, g), Total(sent[n + 1]) + 1, Len(Rest(n, g)))

(***************************************************************************)
(* At a header the loop takes off as many bytes as it expects, and appends *)
(* the data of a SysEx.  If the padding was the expected one, the next     *)
(* event is left; if not, a byte that begins no event.                     *)
(***************************************************************************)
LEMMA ParseNext ==
  ASSUME sent \in Seq(Events), NEW g \in 0 .. Len(sent), NEW n \in 0 .. g - 1, NEW f
  PROVE  /\ Body(f, Rest(n, g)) = [f[After(n, g)] EXCEPT !.out = Returned(n + 1) \o @]
         /\ Fitting(n + 1) => After(n, g) = Rest(n + 1, g)
         /\ ~Fitting(n + 1) => OutOfStep(After(n, g)) /\ After(n, g) \in Seq(Byte)
         /\ Total(sent[n + 1]) \in 0 .. Len(Rest(n, g))
<1> DEFINE b == Rest(n, g)
           e == sent[n + 1]
           t == Total(e)
<1>0. /\ Len(sent) \in Nat /\ n + 1 \in 1 .. Len(sent) /\ n \in 0 .. g /\ n + 1 \in 0 .. g
      /\ n \in 0 .. Len(sent) - 1 /\ n \in 0 .. n + 1 /\ g \in n + 1 .. Len(sent)
  OBVIOUS
<1>1. /\ e \in Events /\ t \in Nat /\ t >= Header /\ Size(n + 1) \in Nat /\ t <= Size(n + 1)
      /\ e.var => t >= Header + e.len
      /\ Fitting(n + 1) => t = Size(n + 1)
      /\ ~Fitting(n + 1) => t < Size(n + 1)
  BY <1>0, Wires
<1>2. End(n + 1) = End(n) + Size(n + 1)
  BY <1>0, LeadingWires
<1>3. /\ b \in Seq(Byte) /\ Len(b) = End(g) - End(n) /\ End(n) \in Nat /\ End(g) \in Nat
      /\ \A i \in 1 .. End(g) - End(n) : b[i] = Stream(g)[End(n) + i]
  BY <1>0, RestIs
<1>4. /\ Rest(n + 1, g) = SubSeq(b, End(n + 1) - End(n) + 1, Len(b))
      /\ End(n + 1) <= End(g)
  BY <1>0, RestOfRest
<1> HIDE DEF End, Stream, b
<1>5. /\ Len(b) \in Nat /\ Len(b) >= Size(n + 1) /\ Header \in Nat /\ Header >= 1
      /\ t \in 0 .. Len(b)
  <2>1. Header \in Nat /\ Header >= 1
    BY RecvAssumption
  <2>2. Len(b) \in Nat
    BY <1>3
  <2>3. Len(b) >= Size(n + 1)
    BY <1>1, <1>2, <1>3, <1>4
  <2> QED BY <1>1, <2>1, <2>2, <2>3
<1>6. ASSUME NEW i \in 1 .. Size(n + 1) PROVE b[i] = <<n + 1, i>>
  <2>1. i \in 1 .. End(g) - End(n)
    BY <1>1, <1>3, <1>5
  <2>2. Stream(g)[End(n) + i] = <<n + 1, i>>
    BY <1>0, Places
  <2> QED BY <1>3, <2>1, <2>2
<1>7. b[1] = <<n + 1, 1>>
  <2>1. 1 \in 1 .. Size(n + 1)
    BY <1>1, <1>5
  <2> QED BY <1>6, <2>1
<1> HIDE DEF e, t
<1>8. e.var => SubSeq(b, Header + 1, Header + e.len) = Data(n + 1)
  <2> SUFFICES ASSUME e.var PROVE SubSeq(b, Header + 1, Header + e.len) = Data(n + 1)
    OBVIOUS
  <2> DEFINE p == Header + 1
             q == Header + e.len
             d == SubSeq(b, p, q)
  <2>1. e.len \in Nat /\ q <= t
    BY <1>1 DEF Events
  <2>2. p \in Int /\ q \in Int /\ p >= 1 /\ q - p + 1 = e.len
    BY <1>5, <2>1
  <2>3. \A i \in 1 .. e.len : p + i - 1 \in p .. q /\ p + i - 1 = Header + i
    BY <1>5, <2>1
  <2> HIDE DEF p, q
  <2>4. \A i \in p .. q : i \in 1 .. Size(n + 1) /\ b[i] \in Byte
    <3>1. \A i \in p .. q : i \in 1 .. Size(n + 1) /\ i \in 1 .. Len(b)
      BY <1>1, <1>5, <2>1, <2>2
    <3> QED BY <1>3, <3>1
  <2>5. /\ d \in Seq(Byte) /\ Len(d) = (IF p <= q THEN q - p + 1 ELSE 0)
        /\ \A i \in 1 .. q - p + 1 : d[i] = b[p + i - 1]
    BY <2>2, <2>4, SubSeqProperties
  <2> HIDE DEF d
  <2>6. Len(d) = e.len
    BY <2>1, <2>2, <2>5
  <2>7. ASSUME NEW i \in 1 .. e.len PROVE d[i] = <<n + 1, Header + i>>
    <3>1. p + i - 1 \in p .. q /\ p + i - 1 = Header + i
      BY <2>3
    <3>2. d[i] = b[Header + i]
      BY <2>2, <2>5, <3>1
    <3> QED BY <1>6, <2>4, <3>1, <3>2
  <2>8. d = [i \in 1 .. e.len |-> <<n + 1, Header + i>>]
    BY <2>5, <2>6, <2>7, LenProperties
  <2> QED BY <2>8 DEF d, p, q, Data, e
<1>9. (IF e.var /\ e.sysex THEN <<SubSeq(b, Header + 1, Header + e.len)>> ELSE <<>>) = Returned(n + 1)
  BY <1>8 DEF Returned, e
<1>10. ~ (Len(b) < Header \/ OutOfStep(b)) /\ ~ (Len(b) < Total(e)) /\ sent[b[1][1]] = e
  BY <1>1, <1>5, <1>7 DEF e, t, OutOfStep
<1>11. Body(f, b) = [f[SubSeq(b, Total(e) + 1, Len(b))] EXCEPT !.out =
                       (IF e.var /\ e.sysex THEN <<SubSeq(b, Header + 1, Header + e.len)>>
                        ELSE <<>>) \o @]
  BY <1>10, Zenon DEF Body
<1>12. After(n, g) = SubSeq(b, t + 1, Len(b))
  BY DEF After, b, t, e
<1>13. Body(f, b) = [f[After(n, g)] EXCEPT !.out = Returned(n + 1) \o @]
  BY <1>9, <1>11, <1>12, Zenon DEF t
<1>14. Fitting(n + 1) => After(n, g) = Rest(n + 1, g)
  <2>1. Fitting(n + 1) => End(n + 1) - End(n) = t
    BY <1>1, <1>2, <1>3
  <2> QED BY <1>4, <1>12, <2>1
<1>15. ASSUME ~Fitting(n + 1) PROVE OutOfStep(After(n, g)) /\ After(n, g) \in Seq(Byte)
  <2> DEFINE k == t + 1
             u == SubSeq(b, k, Len(b))
  <2>1. t < Size(n + 1) /\ k \in 1 .. Len(b) + 1 /\ k \in 1 .. Size(n + 1)
        /\ 1 \in 1 .. Len(b) - k + 1 /\ k + 1 - 1 = k /\ k # 1
    BY <1>1, <1>5, <1>15
  <2> HIDE DEF k
  <2>2. /\ u \in Seq(Byte) /\ Len(u) = Len(b) - k + 1
        /\ \A i \in 1 .. Len(b) - k + 1 : u[i] = b[k + i - 1]
    BY <1>3, <2>1, SuffixIs
  <2> HIDE DEF u
  <2>3. u[1] = <<n + 1, k>>
    BY <1>6, <2>1, <2>2
  <2>4. u # <<>> /\ u[1][2] # 1
    BY <2>1, <2>2, <2>3
  <2> QED BY <1>12, <2>2, <2>4 DEF OutOfStep, u, k
<1>16. t \in 0 .. Len(b)
  BY <1>5
<1> QED BY <1>13, <1>14, <1>15, <1>16 DEF b, t, e

\* What the loop may return; a function of the kind Parse defines
Result == [out : Seq(Pieces), rest : Seq(Byte)]
Loops(f, b) == \A c \in Tails(b, Len(b)) : f[c] = Body(f, c)

(***************************************************************************)
(* From the start of an event on, the loop takes off all the events up to  *)
(* v if their padding is the expected one, and appends the data of the     *)
(* SysEx events among them; by induction from the last one down.           *)
(***************************************************************************)
LEMMA ParseStream ==
  ASSUME sent \in Seq(Events), NEW g \in 0 .. Len(sent), NEW v \in 0 .. g, NEW w \in 0 .. v,
         \A i \in w + 1 .. v : Fitting(i),
         NEW f, Loops(f, Rest(w, g)), f[Rest(v, g)] \in Result
  PROVE  /\ f[Rest(w, g)] \in Result /\ f[Rest(w, g)].rest = f[Rest(v, g)].rest
         /\ AllReturned(w) \o f[Rest(w, g)].out = AllReturned(v) \o f[Rest(v, g)].out
<1> DEFINE o == f[Rest(v, g)].out
           r == f[Rest(v, g)].rest
<1>6. f[Rest(v, g)] = [out |-> o, rest |-> r] /\ o \in Seq(Pieces) /\ r \in Seq(Byte)
  BY DEF Result
<1> HIDE DEF o, r
<1> DEFINE Done(n) ==
             \E p \in Seq(Pieces) :
               /\ f[Rest(n, g)] = [out |-> p, rest |-> r]
               /\ AllReturned(n) \o p = AllReturned(v) \o o
           S == {d \in Nat : d <= v - w => Done(v - d)}
<1>0. Len(sent) \in Nat /\ v \in Nat /\ w \in Nat
  OBVIOUS
<1>1. Done(v)
  BY <1>6
<1> HIDE DEF Done, S
<1>2. 0 \in S
  BY <1>0, <1>1 DEF S
<1>3. ASSUME NEW d \in Nat, d \in S PROVE d + 1 \in S
  <2> SUFFICES ASSUME d + 1 <= v - w PROVE Done(v - (d + 1))
    BY DEF S
  <2> DEFINE n == v - (d + 1)
  <2>1. /\ n \in w .. v /\ n \in 0 .. g - 1 /\ n + 1 = v - d /\ d <= v - w
        /\ n \in 0 .. g /\ w \in 0 .. n /\ n \in 0 .. Len(sent) - 1 /\ n \in 0 .. Len(sent)
        /\ n + 1 \in w + 1 .. v
    BY <1>0
  <2>2. Done(n + 1)
    BY <1>3, <2>1 DEF S
  <2> HIDE DEF n
  <2>3. PICK p \in Seq(Pieces) : /\ f[Rest(n + 1, g)] = [out |-> p, rest |-> r]
                                 /\ AllReturned(n + 1) \o p = AllReturned(v) \o o
    BY <2>2 DEF Done
  <2>4. f[Rest(n, g)] = Body(f, Rest(n, g))
    <3> DEFINE b == Rest(w, g)
    <3>1. Rest(n, g) = SubSeq(b, End(n) - End(w) + 1, Len(b)) /\ End(w) <= End(n) /\ End(n) <= End(g)
      BY <2>1, RestOfRest
    <3>2. Len(b) = End(g) - End(w) /\ End(w) \in Nat /\ End(g) \in Nat /\ End(n) \in Nat
      <4>1. w \in 0 .. g
        OBVIOUS
      <4> QED BY <2>1, <4>1, RestIs
    <3> HIDE DEF End, b
    <3>3. End(n) - End(w) + 1 \in Len(b) + 1 - Len(b) .. Len(b) + 1
      <4> DEFINE y == End(n)
                 z == End(w)
                 h == End(g)
                 l == Len(b)
      <4>1. z <= y /\ y <= h /\ l = h - z /\ z \in Nat /\ h \in Nat /\ y \in Nat
        BY <3>1, <3>2
      <4> HIDE DEF y, z, h, l
      <4>2. y - z + 1 \in l + 1 - l .. l + 1
        BY ONLY <4>1
      <4> QED BY <4>2 DEF y, z, h, l
    <3>4. Rest(n, g) \in Tails(b, Len(b))
      BY <3>1, <3>3 DEF Tails
    <3> QED BY <3>4 DEF b, Loops
  <2>5. Fitting(n + 1)
    BY <2>1
  <2>6. f[Rest(n, g)] = [f[Rest(n + 1, g)] EXCEPT !.out = Returned(n + 1) \o @]
    <3>1. /\ Body(f, Rest(n, g)) = [f[After(n, g)] EXCEPT !.out = Returned(n + 1) \o @]
          /\ After(n, g) = Rest(n + 1, g)
      BY <2>1, <2>5, ParseNext
    <3> QED BY <2>4, <3>1, Zenon
  <2>7. f[Rest(n, g)] = [out |-> Returned(n + 1) \o p, rest |-> r]
    <3> DEFINE after == f[Rest(n + 1, g)]
               a == Returned(n + 1)
    <3>1. after = [out |-> p, rest |-> r]
      BY <2>3
    <3>2. f[Rest(n, g)] = [after EXCEPT !.out = a \o @]
      BY <2>6, Zenon
    <3> HIDE DEF after, a
    <3>3. [after EXCEPT !.out = a \o @] = [out |-> a \o p, rest |-> r]
      BY ONLY <3>1, Prepended, Zenon
    <3> QED BY <3>2, <3>3, Zenon DEF a
  <2>8. /\ AllReturned(n) \in Seq(Pieces) /\ Returned(n + 1) \in Seq(Pieces)
        /\ AllReturned(n + 1) = AllReturned(n) \o Returned(n + 1)
    BY <2>1, LeadingReturned
  <2>9. Returned(n + 1) \o p \in Seq(Pieces)
    BY <2>8, ConcatProperties
  <2>10. (AllReturned(n) \o Returned(n + 1)) \o p = AllReturned(n) \o (Returned(n + 1) \o p)
    BY <2>8, ConcatAssociative
  <2>11. Done(n)
    BY <2>3, <2>7, <2>8, <2>9, <2>10 DEF Done
  <2> QED BY <2>11 DEF n
<1>4. v - w \in S
  <2>1. v - w \in Nat
    BY <1>0
  <2>2. Nat \subseteq S
    BY <1>2, <1>3, Induct
  <2> QED BY <2>1, <2>2
<1>5. Done(w)
  <2>1. v - w \in Nat /\ v - (v - w) = w
    BY <1>0
  <2> QED BY <1>4, <2>1 DEF S
<1>7. PICK p \in Seq(Pieces) : /\ f[Rest(w, g)] = [out |-> p, rest |-> r]
                               /\ AllReturned(w) \o p = AllReturned(v) \o o
  BY <1>5 DEF Done
<1> DEFINE z == f[Rest(w, g)]
<1>8. z = [out |-> p, rest |-> r]
  BY <1>7
<1> HIDE DEF z
<1>9. z \in Result /\ z.rest = r /\ z.out = p
  BY <1>6, <1>8 DEF Result
<1> QED BY <1>7, <1>9, Zenon DEF z, o, r

(***************************************************************************)
(* If recv expects the padding of all the events read, it returns all of   *)
(* them, and nothing stays.                                                *)
(***************************************************************************)
LEMMA ParseAll ==
  ASSUME sent \in Seq(Events), NEW g \in 0 .. Len(sent), NEW w \in 0 .. g,
         \A i \in w + 1 .. g : Fitting(i)
  PROVE  \E p \in Seq(Pieces) :
           /\ Parse(Rest(w, g)) = [out |-> p, rest |-> <<>>]
           /\ AllReturned(w) \o p = AllReturned(g)
<1> DEFINE b == Rest(w, g)
<1>1. b \in Seq(Byte) /\ Rest(g, g) \in Seq(Byte) /\ Len(Rest(g, g)) = End(g) - End(g)
      /\ End(g) \in Nat /\ g \in 0 .. g /\ g \in Nat
  <2>1. g \in 0 .. g /\ g \in Nat
    OBVIOUS
  <2> QED BY <2>1, RestIs
<1>2. Rest(g, g) = <<>>
  <2>1. Len(Rest(g, g)) = 0
    BY <1>1
  <2> HIDE DEF Rest
  <2> QED BY <1>1, <2>1, EmptySeq
<1>3. PICK f : Parse(b) = f[b] /\ \A c \in Tails(b, Len(b)) : f[c] = Body(f, c)
  BY <1>1, ParseIs
<1>4. <<>> \in Tails(b, Len(b))
  <2>1. Len(b) \in Nat
    BY <1>1
  <2>2. SubSeq(b, Len(b) + 1, Len(b)) = <<>>
    BY <2>1, SubSeqEmpty
  <2>3. Len(b) + 1 \in Len(b) + 1 - Len(b) .. Len(b) + 1
    BY <2>1
  <2> QED BY <2>2, <2>3 DEF Tails
<1>5. f[Rest(g, g)] = [out |-> <<>>, rest |-> <<>>]
  <2>1. f[<<>>] = Body(f, <<>>)
    BY <1>3, <1>4
  <2>2. Body(f, <<>>) = [out |-> <<>>, rest |-> <<>>]
    BY ParseStops
  <2> QED BY <1>2, <2>1, <2>2
<1>6. /\ f[b] \in Result /\ f[b].rest = f[Rest(g, g)].rest
      /\ AllReturned(w) \o f[b].out = AllReturned(g) \o f[Rest(g, g)].out
  <2>1. f[Rest(g, g)] \in Result
    BY <1>5, EmptySeq DEF Result
  <2>2. Loops(f, Rest(w, g))
    BY <1>3 DEF Loops
  <2> QED BY <1>1, <2>1, <2>2, ParseStream
<1>7. AllReturned(g) \o <<>> = AllReturned(g)
  BY LeadingReturned, ConcatEmptySeq
<1>8. f[b] = [out |-> f[b].out, rest |-> <<>>] /\ f[b].out \in Seq(Pieces)
  BY <1>5, <1>6 DEF Result
<1>9. AllReturned(w) \o f[b].out = AllReturned(g)
  BY <1>5, <1>6, <1>7
<1> QED BY <1>3, <1>8, <1>9

(***************************************************************************)
(* If not, it returns them up to the first whose padding it does not       *)
(* expect, and is out of step.                                             *)
(***************************************************************************)
LEMMA ParseUpTo ==
  ASSUME sent \in Seq(Events), NEW g \in 0 .. Len(sent), NEW x \in 1 .. g, NEW w \in 0 .. x - 1,
         ~Fitting(x), \A i \in w + 1 .. x - 1 : Fitting(i)
  PROVE  \E p \in Seq(Pieces), r \in Seq(Byte) :
           /\ Parse(Rest(w, g)) = [out |-> p, rest |-> r] /\ OutOfStep(r)
           /\ AllReturned(w) \o p = AllReturned(x)
<1> DEFINE b == Rest(w, g)
           v == x - 1
           r == After(v, g)
           c == Rest(v, g)
<1>1. /\ v \in 0 .. g - 1 /\ v \in 0 .. g /\ v + 1 = x /\ w \in 0 .. v /\ w \in 0 .. g
      /\ v \in 0 .. Len(sent) - 1 /\ v \in 0 .. Len(sent)
  OBVIOUS
<1>2. /\ b \in Seq(Byte) /\ Len(b) = End(g) - End(w) /\ c \in Seq(Byte)
      /\ Len(c) = End(g) - End(v) /\ End(w) \in Nat /\ End(g) \in Nat /\ End(v) \in Nat
  BY <1>1, RestIs
<1>3. c = SubSeq(b, End(v) - End(w) + 1, Len(b)) /\ End(w) <= End(v) /\ End(v) <= End(g)
  BY <1>1, RestOfRest
<1>4. PICK f : Parse(b) = f[b] /\ \A d \in Tails(b, Len(b)) : f[d] = Body(f, d)
  BY <1>2, ParseIs
<1> HIDE DEF v
<1>5. /\ Body(f, c) = [f[r] EXCEPT !.out = Returned(x) \o @]
      /\ OutOfStep(r) /\ r \in Seq(Byte)
      /\ Total(sent[x]) \in 0 .. Len(c)
  BY <1>1, ParseNext
<1> DEFINE k == End(v) - End(w) + 1
           t == Total(sent[x])
<1>6. k \in 1 .. Len(b) + 1 /\ t \in 0 .. Len(b) - k + 1 /\ k + t \in 1 .. Len(b) + 1
      /\ Len(b) \in Nat /\ Len(b) + 1 - Len(b) = 1
  <2> DEFINE y == End(v)
             z == End(w)
             h == End(g)
             l == Len(b)
             m == Len(c)
  <2>1. /\ l = h - z /\ m = h - y /\ z <= y /\ y <= h /\ k = y - z + 1
        /\ z \in Nat /\ h \in Nat /\ y \in Nat
    BY <1>2, <1>3
  <2>2. t \in 0 .. m
    BY <1>5
  <2> HIDE DEF y, z, h, l, m, t, k
  <2>3. k \in 1 .. l + 1 /\ t \in 0 .. l - k + 1 /\ k + t \in 1 .. l + 1 /\ l \in Nat /\ l + 1 - l = 1
    BY ONLY <2>1, <2>2
  <2> QED BY <2>3 DEF l
<1>7. c = SubSeq(b, k, Len(b)) /\ r = SubSeq(c, t + 1, Len(c))
  BY <1>1, <1>3 DEF After
<1> HIDE DEF b, c, k, t, r
<1>8. r = SubSeq(b, k + t, Len(b))
  BY <1>2, <1>6, <1>7, SuffixOfSuffix
<1>9. c \in Tails(b, Len(b)) /\ r \in Tails(b, Len(b))
  BY <1>6, <1>7, <1>8 DEF Tails
<1>10. f[r] = [out |-> <<>>, rest |-> r]
  BY <1>4, <1>5, <1>9, ParseStops
<1>11. /\ Returned(x) \in Seq(Pieces) /\ AllReturned(v) \in Seq(Pieces)
       /\ AllReturned(x) = AllReturned(v) \o Returned(x)
  BY <1>1, LeadingReturned
<1>12. f[c] = [out |-> Returned(x), rest |-> r]
  <2> DEFINE after == f[r]
             a == Returned(x)
  <2>1. f[c] = [after EXCEPT !.out = a \o @]
    BY <1>4, <1>5, <1>9, Zenon
  <2>2. after = [out |-> <<>>, rest |-> r]
    BY <1>10
  <2>3. a \o <<>> = a
    BY <1>11, ConcatEmptySeq
  <2> HIDE DEF after, a
  <2>4. [after EXCEPT !.out = a \o @] = [out |-> a \o <<>>, rest |-> r]
    BY ONLY <2>2, Prepended, Zenon
  <2> QED BY <2>1, <2>3, <2>4, Zenon DEF a
<1>13. /\ f[b] \in Result /\ f[b].rest = f[c].rest
       /\ AllReturned(w) \o f[b].out = AllReturned(v) \o f[c].out
  <2>1. \A i \in w + 1 .. v : Fitting(i)
    BY DEF v
  <2>2. Loops(f, Rest(w, g))
    BY <1>4 DEF b, Loops
  <2>3. f[Rest(v, g)] \in Result
    BY <1>5, <1>11, <1>12 DEF c, Result
  <2> QED BY <1>1, <2>1, <2>2, <2>3, ParseStream DEF b, c
<1>14. f[b] = [out |-> f[b].out, rest |-> r] /\ f[b].out \in Seq(Pieces)
  BY <1>12, <1>13 DEF Result
<1>15. AllReturned(w) \o f[b].out = AllReturned(x)
  BY <1>11, <1>12, <1>13
<1> QED BY <1>4, <1>5, <1>14, <1>15 DEF b

(***************************************************************************)
(* Out of step, the loop as it is modelled stops at once.                  *)
(***************************************************************************)
LEMMA ParseOut ==
  ASSUME sent \in Seq(Events), NEW b \in Seq(Byte), OutOfStep(b)
  PROVE  Parse(b) = [out |-> <<>>, rest |-> b]
<1>1. PICK f : Parse(b) = f[b] /\ \A c \in Tails(b, Len(b)) : f[c] = Body(f, c)
  BY ParseIs
<1>2. SubSeq(b, 1, Len(b)) = b
  <2> DEFINE u == SubSeq(b, 1, Len(b))
  <2>1. Len(b) \in Nat /\ 1 \in 1 .. Len(b) + 1 /\ Len(b) - 1 + 1 = Len(b)
        /\ \A i \in 1 .. Len(b) : 1 + i - 1 = i
    OBVIOUS
  <2>2. u \in Seq(Byte) /\ Len(u) = Len(b) - 1 + 1 /\ \A i \in 1 .. Len(b) - 1 + 1 : u[i] = b[1 + i - 1]
    BY <2>1, SuffixIs
  <2> HIDE DEF u
  <2>3. Len(u) = Len(b) /\ \A i \in 1 .. Len(u) : u[i] = b[i]
    BY <2>1, <2>2
  <2>4. u = b
    BY <2>2, <2>3, SeqEqual
  <2> QED BY <2>4 DEF u
<1>3. b \in Tails(b, Len(b))
  <2>1. Len(b) + 1 - Len(b) = 1 /\ 1 \in 1 .. Len(b) + 1
    OBVIOUS
  <2> QED BY <1>2, <2>1 DEF Tails
<1> QED BY <1>1, <1>3, ParseStops

----------------------------------------------------------------------------
(* recv *)

\* Event x is the first with other padding than recv expects.
Misfit(x) == ~Fitting(x) /\ \A j \in 1 .. x - 1 : Fitting(j)

\* In step nothing is left over, and all that was read is returned.  Out of
\* step what was returned up to there stays.
RecvInv ==
  /\ sent \in Seq(Events) /\ given \in 0 .. Len(sent) /\ rbuf \in Seq(Byte)
  /\ got \in Seq(Pieces) /\ out \in Seq(Pieces)
  /\ \/ /\ rbuf = <<>> /\ \A i \in 1 .. given : Fitting(i)
        /\ got \o out = AllReturned(given)
     \/ /\ OutOfStep(rbuf)
        /\ \E x \in 1 .. given, more \in Seq(Pieces) :
             Misfit(x) /\ got \o out = AllReturned(x) \o more

(***************************************************************************)
(* Before the first read recv is in step.                                  *)
(***************************************************************************)
LEMMA RecvInit == Init => RecvInv
<1> SUFFICES ASSUME Init PROVE RecvInv
  OBVIOUS
<1>1. sent \in Seq(Events) /\ given = 0 /\ rbuf = <<>> /\ out = <<>> /\ got = <<>>
  <2>1. sent = <<>> \/ sent \in Streams
    BY DEF Init
  <2>2. sent \in Seq(Events)
    BY <2>1, RecvAssumption, EmptySeq DEF Events
  <2> QED BY <2>2 DEF Init
<1>2. AllReturned(0) = <<>> /\ given \in 0 .. Len(sent)
  BY <1>1, LeadingReturned
<1> QED BY <1>1, <1>2, EmptySeq DEF RecvInv

(***************************************************************************)
(* What the operators of the stream say depends on the events alone.       *)
(***************************************************************************)
LEMMA SentStays ==
  ASSUME sent' = sent
  PROVE  /\ Events' = Events /\ Byte' = Byte /\ Pieces' = Pieces
         /\ \A n : AllReturned(n)' = AllReturned(n) /\ Fitting(n)' = Fitting(n)
<1>1. \A i : Returned(i)' = Returned(i)
  BY DEF Returned, Data
<1>2. ASSUME NEW n PROVE AllReturned(n)' = AllReturned(n)
  <2>1. [i \in 1 .. n |-> Returned(i)]' = [i \in 1 .. n |-> Returned(i)]
    BY <1>1
  <2> QED BY <2>1 DEF AllReturned
<1>3. \A n : Fitting(n)' = Fitting(n)
  BY DEF Fitting
<1> QED BY <1>2, <1>3 DEF Byte, Events, Pieces

(***************************************************************************)
(* Appending sequences is associative.                                     *)
(***************************************************************************)
LEMMA Appended ==
  ASSUME NEW T
  PROVE  \A a, b, c \in Seq(T) : a \o b \in Seq(T) /\ (a \o b) \o c = a \o (b \o c)
<1> SUFFICES ASSUME NEW a \in Seq(T), NEW b \in Seq(T), NEW c \in Seq(T)
             PROVE  a \o b \in Seq(T) /\ (a \o b) \o c = a \o (b \o c)
  OBVIOUS
<1>1. a \o b \in Seq(T)
  BY ConcatProperties
<1>2. (a \o b) \o c = a \o (b \o c)
  BY ConcatAssociative
<1> QED BY <1>1, <1>2

(***************************************************************************)
(* A read in step leaves nothing if recv expects the padding of all its    *)
(* events; if not, recv loses step behind the first whose padding it does  *)
(* not expect.  Out of step it stays so, and the result only grows.        *)
(***************************************************************************)
LEMMA ReadKeeps ==
  ASSUME RecvInv, NEW n \in 1 .. Len(sent), Read(n)
  PROVE  RecvInv'
<1>0. /\ sent \in Seq(Events) /\ given \in 0 .. Len(sent) /\ rbuf \in Seq(Byte)
      /\ got \in Seq(Pieces) /\ out \in Seq(Pieces)
  BY DEF RecvInv
<1>1. PICK g \in 0 .. Len(sent) : g = given + n /\ given \in 0 .. g
  BY <1>0 DEF Read
<1> DEFINE buf == rbuf \o Rest(given, g)
           p == Parse(buf)
<1>2. /\ given' = g /\ sent' = sent /\ got' = got /\ rbuf' = p.rest
      /\ \E stray \in Strays : /\ stray = <<>> \/ OutOfStep(p.rest)
                               /\ out' = (out \o p.out) \o stray
  BY <1>1 DEF Read, Rest, End
<1>3. Rest(given, g) \in Seq(Byte)
  BY <1>0, <1>1, RestIs
<1>4. /\ Events' = Events /\ Byte' = Byte /\ Pieces' = Pieces
      /\ \A k : AllReturned(k)' = AllReturned(k) /\ Fitting(k)' = Fitting(k)
  BY <1>2, SentStays
<1>5. PICK stray \in Strays : /\ stray = <<>> \/ OutOfStep(p.rest)
                              /\ out' = (out \o p.out) \o stray
  BY <1>2
<1>6. stray \in Seq(Pieces)
  BY RecvAssumption DEF Pieces
<1>7. \A a, b, c \in Seq(Pieces) :
        /\ a \o b \in Seq(Pieces) /\ (a \o b) \o c = a \o (b \o c)
  BY Appended
<1> HIDE DEF buf, p
\* What is left to show of each case
<1>8. ASSUME p.out \in Seq(Pieces), p.rest \in Seq(Byte)
      PROVE  /\ sent' \in Seq(Events') /\ given' \in 0 .. Len(sent') /\ rbuf' \in Seq(Byte')
             /\ got' \in Seq(Pieces') /\ out' \in Seq(Pieces')
             /\ got' \o out' = (got \o out) \o (p.out \o stray)
             /\ p.out \o stray \in Seq(Pieces)
  <2>1. out' \in Seq(Pieces) /\ p.out \o stray \in Seq(Pieces)
    BY <1>0, <1>5, <1>6, <1>7, <1>8
  <2>2. out' = out \o (p.out \o stray)
    BY <1>0, <1>5, <1>6, <1>7, <1>8
  <2>3. got \o (out \o (p.out \o stray)) = (got \o out) \o (p.out \o stray)
    BY <1>0, <1>7, <2>1
  <2> QED BY <1>0, <1>1, <1>2, <1>4, <1>8, <2>1, <2>2, <2>3
<1>9. CASE rbuf = <<>>
  <2>1. buf = Rest(given, g)
    BY <1>3, <1>9, ConcatEmptySeq DEF buf
  <2>2. (\A i \in 1 .. given : Fitting(i)) /\ got \o out = AllReturned(given)
    BY <1>9 DEF RecvInv, OutOfStep
  <2>3. CASE \A i \in given + 1 .. g : Fitting(i)
    <3>1. PICK q \in Seq(Pieces) : /\ Parse(Rest(given, g)) = [out |-> q, rest |-> <<>>]
                                   /\ AllReturned(given) \o q = AllReturned(g)
      BY <1>0, <1>1, <2>3, ParseAll
    <3>2. p = [out |-> q, rest |-> <<>>]
      BY <2>1, <3>1 DEF p
    <3>3. p.out = q /\ p.rest = <<>> /\ p.rest \in Seq(Byte)
      BY <3>2, EmptySeq
    <3>4. stray = <<>>
      BY <1>5, <3>3 DEF OutOfStep
    <3>5. p.out \o stray = q
      BY <3>1, <3>3, <3>4, ConcatEmptySeq
    <3>6. \A i \in 1 .. g : Fitting(i)
      BY <1>0, <1>1, <2>2, <2>3
    <3>7. rbuf' = <<>> /\ got' \o out' = AllReturned(g)
      BY <1>2, <1>8, <2>2, <3>1, <3>3, <3>5
    <3>8. (\A i \in 1 .. given' : Fitting(i)') /\ AllReturned(given)' = AllReturned(g)
      BY <1>2, <1>4, <3>6
    <3> QED BY <1>8, <3>1, <3>3, <3>7, <3>8 DEF RecvInv
  <2>4. CASE \E i \in given + 1 .. g : ~Fitting(i)
    <3> DEFINE S == {i \in given + 1 .. g : ~Fitting(i)}
    <3>1. PICK x \in S : \A i \in S : x <= i
      <4>1. S \subseteq Nat
        BY <1>0, <1>1
      <4>2. S # {}
        BY <2>4
      <4> HIDE DEF S
      <4> QED BY <4>1, <4>2, Least
    <3>2. /\ x \in given + 1 .. g /\ x \in 1 .. g /\ given \in 0 .. x - 1 /\ ~Fitting(x)
          /\ \A i \in given + 1 .. x - 1 : Fitting(i)
      BY <1>0, <1>1, <3>1
    <3> HIDE DEF S
    <3>3. PICK q \in Seq(Pieces), r \in Seq(Byte) :
             /\ Parse(Rest(given, g)) = [out |-> q, rest |-> r] /\ OutOfStep(r)
             /\ AllReturned(given) \o q = AllReturned(x)
      BY <1>0, <1>1, <3>2, ParseUpTo
    <3>4. p = [out |-> q, rest |-> r]
      BY <2>1, <3>3 DEF p
    <3>5. p.out = q /\ p.rest = r
      BY <3>4
    <3>6. Misfit(x)
      BY <1>0, <1>1, <2>2, <3>2 DEF Misfit
    <3>7. got' \o out' = AllReturned(x) \o stray
      <4>1. AllReturned(given) \in Seq(Pieces)
        BY <1>0, LeadingReturned
      <4>2. got' \o out' = AllReturned(given) \o (q \o stray)
        BY <1>8, <2>2, <3>3, <3>5
      <4>3. stray \in Seq(Pieces) /\ q \in Seq(Pieces)
        BY <1>6, <3>3
      <4>4. (AllReturned(given) \o q) \o stray = AllReturned(given) \o (q \o stray)
        BY ONLY <4>1, <4>3, ConcatAssociative
      <4> QED BY <3>3, <4>2, <4>4, Zenon
    <3>8. rbuf' = r /\ OutOfStep(rbuf)'
      BY <1>2, <3>3, <3>5 DEF OutOfStep
    <3>9. Misfit(x)' /\ AllReturned(x)' = AllReturned(x) /\ x \in 1 .. given' /\ stray \in Seq(Pieces')
      BY <1>2, <1>4, <1>6, <3>2, <3>6 DEF Misfit
    <3> QED BY <1>8, <3>3, <3>5, <3>7, <3>8, <3>9 DEF RecvInv
  <2> QED BY <2>3, <2>4
<1>10. CASE OutOfStep(rbuf)
  <2>1. PICK x \in 1 .. given, more \in Seq(Pieces) :
           Misfit(x) /\ got \o out = AllReturned(x) \o more
    BY <1>10 DEF RecvInv, OutOfStep
  <2>2. buf \in Seq(Byte) /\ OutOfStep(buf)
    <3>1. /\ buf \in Seq(Byte) /\ Len(buf) = Len(rbuf) + Len(Rest(given, g))
          /\ \A i \in 1 .. Len(rbuf) + Len(Rest(given, g)) :
               buf[i] = IF i <= Len(rbuf) THEN rbuf[i] ELSE Rest(given, g)[i - Len(rbuf)]
      BY <1>0, <1>3, ConcatProperties DEF buf
    <3>2. Len(rbuf) \in Nat /\ Len(Rest(given, g)) \in Nat /\ Len(rbuf) >= 1
      BY <1>0, <1>3, <1>10, EmptySeq DEF OutOfStep
    <3>3. buf[1] = rbuf[1] /\ buf # <<>>
      BY <3>1, <3>2
    <3> QED BY <1>10, <3>1, <3>3 DEF OutOfStep
  <2>3. p.out = <<>> /\ p.rest = buf
    BY <1>0, <2>2, ParseOut DEF p
  <2>4. p.out \in Seq(Pieces) /\ p.rest \in Seq(Byte) /\ OutOfStep(p.rest) /\ p.out \o stray = stray
    BY <1>6, <2>2, <2>3, EmptySeq, ConcatEmptySeq
  <2>5. more \o stray \in Seq(Pieces) /\ got' \o out' = AllReturned(x) \o (more \o stray)
    <3>1. AllReturned(x) \in Seq(Pieces)
      BY <1>0, LeadingReturned
    <3>2. got' \o out' = (AllReturned(x) \o more) \o stray
      BY <1>8, <2>1, <2>4
    <3> QED BY <1>6, <1>7, <3>1, <3>2
  <2>6. OutOfStep(rbuf)'
    BY <1>2, <2>4 DEF OutOfStep
  <2>7. /\ Misfit(x)' /\ AllReturned(x)' = AllReturned(x) /\ more \o stray \in Seq(Pieces')
        /\ x \in 1 .. given'
    <3>1. x \in 1 .. g
      BY <1>0, <1>1
    <3> QED BY <1>2, <1>4, <2>1, <2>5, <3>1 DEF Misfit
  <2> QED BY <1>8, <2>4, <2>5, <2>6, <2>7 DEF RecvInv
<1> QED BY <1>9, <1>10 DEF RecvInv

(***************************************************************************)
(* The end of a recv, and steps of the search, change neither the rest nor *)
(* all that was returned.                                                  *)
(***************************************************************************)
LEMMA ReturnKeeps == RecvInv /\ (Return \/ UNCHANGED recvVars) => RecvInv'
<1> SUFFICES ASSUME RecvInv, Return \/ UNCHANGED recvVars PROVE RecvInv'
  OBVIOUS
<1>0. got \in Seq(Pieces) /\ out \in Seq(Pieces)
  BY DEF RecvInv
<1>1. sent' = sent /\ given' = given /\ rbuf' = rbuf
  BY DEF Return, recvVars
<1>2. /\ Events' = Events /\ Byte' = Byte /\ Pieces' = Pieces
      /\ \A k : AllReturned(k)' = AllReturned(k) /\ Fitting(k)' = Fitting(k)
  BY <1>1, SentStays
<1>3. got' \in Seq(Pieces) /\ out' \in Seq(Pieces) /\ got' \o out' = got \o out
  <2>1. CASE Return
    <3>1. got' = got \o out /\ out' = <<>>
      BY <2>1 DEF Return
    <3> QED BY <1>0, <3>1, ConcatProperties, ConcatEmptySeq, EmptySeq
  <2>2. CASE UNCHANGED recvVars
    BY <1>0, <2>2 DEF recvVars
  <2> QED BY <2>1, <2>2
<1>4. /\ OutOfStep(rbuf)' = OutOfStep(rbuf) /\ \A x : Misfit(x)' = Misfit(x)
  BY <1>1, <1>2 DEF OutOfStep, Misfit
<1>5. /\ sent' \in Seq(Events') /\ given' \in 0 .. Len(sent') /\ rbuf' \in Seq(Byte')
      /\ got' \in Seq(Pieces') /\ out' \in Seq(Pieces')
  BY <1>1, <1>2, <1>3 DEF RecvInv
<1>6. CASE rbuf = <<>>
  <2>1. (\A i \in 1 .. given : Fitting(i)) /\ got \o out = AllReturned(given)
    BY <1>6 DEF RecvInv, OutOfStep
  <2> QED BY <1>1, <1>2, <1>3, <1>5, <1>6, <2>1 DEF RecvInv
<1>7. CASE OutOfStep(rbuf)
  <2>1. PICK x \in 1 .. given, more \in Seq(Pieces) :
           Misfit(x) /\ got \o out = AllReturned(x) \o more
    BY <1>7 DEF RecvInv, OutOfStep
  <2>2. /\ OutOfStep(rbuf)' /\ x \in 1 .. given' /\ Misfit(x)' /\ more \in Seq(Pieces')
        /\ (got \o out)' = AllReturned(x)' \o more
    BY <1>1, <1>2, <1>3, <1>4, <1>7, <2>1
  <2> QED BY <1>5, <2>2 DEF RecvInv
<1> QED BY <1>6, <1>7 DEF RecvInv

(***************************************************************************)
(* In step recv has returned all that was read and keeps nothing; out of   *)
(* step it has returned everything up to the event that took it there:     *)
(* recv of tools/alsaseq.py on what the kernel writes, for any events,     *)
(* header, padding units and reads.                                        *)
(***************************************************************************)
THEOREM RecvCorrect == Spec => []RecvInv
<1>1. Init => RecvInv
  BY RecvInit
<1>2. RecvInv /\ [Next]_seqVars => RecvInv'
  <2> SUFFICES ASSUME RecvInv, [Next]_seqVars PROVE RecvInv'
    OBVIOUS
  <2>1. CASE Return \/ UNCHANGED recvVars
    BY <2>1, ReturnKeeps
  <2>2. CASE \E n \in 1 .. Len(sent) : Read(n)
    BY <2>2, ReadKeeps
  <2>3. SearchStep \/ (\E c \in Ids, e \in Entries \cup {Absent} : Replug(c, e))
          \/ UNCHANGED seqVars => UNCHANGED recvVars
    BY DEF SearchStep, AskClient, AskPort, Replug, seqVars
  <2> QED BY <2>1, <2>2, <2>3 DEF Next, RecvStep
<1> QED BY <1>1, <1>2, PTL DEF Spec

(***************************************************************************)
(* What a sequence is extended by leaves it a prefix.                      *)
(***************************************************************************)
LEMMA PrefixOfConcat ==
  ASSUME NEW T, NEW s \in Seq(T), NEW t \in Seq(T)
  PROVE  IsPrefix(s, s \o t)
<1>1. Len(s) \in Nat /\ Len(t) \in Nat /\ Len(s \o t) = Len(s) + Len(t)
  BY ConcatProperties
<1>2. SubSeq(s \o t, 1, Len(s)) = SubSeq(s, 1, Len(s))
  <2>1. CASE Len(s) = 0
    BY <2>1, SubSeqEmpty
  <2>2. CASE Len(s) # 0
    <3>1. 1 \in 1 .. Len(s) /\ Len(s) \in 1 .. Len(s)
      BY <1>1, <2>2
    <3> QED BY ONLY s \in Seq(T), t \in Seq(T), <3>1, SubSeqOfConcat1
  <2> QED BY <2>1, <2>2
<1> QED BY <1>1, <1>2 DEF IsPrefix

(***************************************************************************)
(* However many events a read delivers and wherever a recv ran out of      *)
(* time, the SysEx events up to the first whose padding recv does not      *)
(* expect are returned once, in order and byte for byte, that one too; and *)
(* without such an event, nothing else.                                    *)
(***************************************************************************)
THEOREM StreamReassembled == Spec => []Reassembled
<1>1. RecvInv => Reassembled
  <2> SUFFICES ASSUME RecvInv PROVE Reassembled
    OBVIOUS
  <2>0. /\ sent \in Seq(Events) /\ given \in 0 .. Len(sent) /\ given \in Nat
        /\ got \in Seq(Pieces) /\ out \in Seq(Pieces)
    BY DEF RecvInv
  <2> DEFINE x == Cardinality(InStep)
  <2>1. Reassembled <=> /\ IsPrefix(AllReturned(x), got \o out)
                        /\ (\A i \in 1 .. given : Fitting(i)) => got \o out = AllReturned(x)
    BY DEF Reassembled, AllReturned, Returned
  <2>2. ASSUME NEW y \in 0 .. given, InStep = 1 .. y,
               NEW more \in Seq(Pieces), got \o out = AllReturned(y) \o more,
               (\A i \in 1 .. given : Fitting(i)) => more = <<>>
        PROVE  Reassembled
    <3>1. x = y /\ y \in 0 .. Len(sent)
      <4>1. 1 \in Int /\ y \in Int /\ y \in Nat /\ y \in 0 .. Len(sent)
        BY <2>0
      <4>2. Cardinality(1 .. y) = IF 1 > y THEN 0 ELSE y - 1 + 1
        BY <4>1, FS_Interval
      <4>3. Cardinality(1 .. y) = y
        BY <4>1, <4>2
      <4> QED BY <2>2, <4>1, <4>3
    <3> HIDE DEF x
    <3>2. AllReturned(y) \in Seq(Pieces)
      BY <2>0, <3>1, LeadingReturned
    <3>3. IsPrefix(AllReturned(y), got \o out)
      BY <2>2, <3>2, PrefixOfConcat
    <3>4. AllReturned(y) \o <<>> = AllReturned(y)
      BY <3>2, ConcatEmptySeq
    <3> QED BY <2>1, <2>2, <3>1, <3>3, <3>4
  <2>3. CASE rbuf = <<>>
    <3>1. (\A i \in 1 .. given : Fitting(i)) /\ got \o out = AllReturned(given)
      BY <2>3 DEF RecvInv, OutOfStep
    <3>2. InStep = 1 .. given /\ given \in 0 .. given
      BY <2>0, <3>1 DEF InStep
    <3>3. AllReturned(given) \o <<>> = AllReturned(given) /\ <<>> \in Seq(Pieces)
      BY <2>0, LeadingReturned, ConcatEmptySeq, EmptySeq
    <3> QED BY <2>2, <3>1, <3>2, <3>3
  <2>4. CASE OutOfStep(rbuf)
    <3>1. PICK y \in 1 .. given, more \in Seq(Pieces) :
             Misfit(y) /\ got \o out = AllReturned(y) \o more
      BY <2>4 DEF RecvInv, OutOfStep
    <3>2. InStep = 1 .. y
      BY <2>0, <3>1 DEF InStep, Misfit
    <3>3. y \in 0 .. given /\ ~ \A i \in 1 .. given : Fitting(i)
      BY <2>0, <3>1 DEF Misfit
    <3> QED BY <2>2, <3>1, <3>2, <3>3
  <2> QED BY <2>3, <2>4 DEF RecvInv
<1> QED BY <1>1, RecvCorrect, PTL

(***************************************************************************)
(* The variables stay in their domains.                                    *)
(***************************************************************************)
THEOREM TypeCorrect == Spec => []SeqTypeOK
<1>1. RecvInv => given \in 0 .. Len(sent) /\ rbuf \in Seq((1 .. Len(sent)) \X Nat)
  BY DEF RecvInv, Byte
<1>2. SearchInv /\ RecvInv => SeqTypeOK
  BY <1>1 DEF SearchInv, SearchTypes, SeqTypeOK
<1> QED BY <1>2, SearchCorrect, RecvCorrect, PTL
=============================================================================
