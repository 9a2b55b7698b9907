----------------------- MODULE WorkspaceModelProofs -----------------------
(***************************************************************************)
(* Proofs about WorkspaceModel, for any number of windows, sessions and    *)
(* groups. After lemmas about sequences come those about the parts of a    *)
(* state, and for every mutation that it keeps two things (Keeps): the     *)
(* Shape of the state, which it may have in the middle of a handler too,   *)
(* and the pinned tabs in front. Reconcile makes any state with the shape  *)
(* Full: what invariant_warnings looks for is not there, and the tabs are  *)
(* the windows it was given. IInv says that this is so after each handler. *)
(***************************************************************************)
EXTENDS WorkspaceModel, FiniteSetTheorems, SequenceTheorems, WellFoundedInduction, TLAPS

-----------------------------------------------------------------------------
(* Sequences: sorting a set of numbers, and keeping part of a sequence.    *)

\* A set of numbers has a least one.
LEMMA Least ==
  ASSUME NEW S \in SUBSET Nat, S # {}
  PROVE  \E n \in S : \A i \in S : n <= i
<1> DEFINE R == OpToRel(<, Nat)
<1>1. IsWellFoundedOn(R, Nat)
  BY NatLessThanWellFounded
<1>2. PICK n \in S : \A i \in S : <<i, n>> \notin R
  <2> HIDE DEF R
  <2> QED
    BY <1>1, WFMin
<1>3. \A i \in S : ~(i < n)
  BY <1>2 DEF OpToRel
<1> QED
  BY <1>3

Below(S, w) == {v \in S : v < w}

\* How many members of a set lie below one of them tells it from the others.
LEMMA RankGrows ==
  ASSUME NEW S \in SUBSET Nat, IsFiniteSet(S), NEW w \in S, NEW v \in S
  PROVE  /\ Cardinality(Below(S, w)) \in 0 .. Cardinality(S) - 1
         /\ w < v <=> Cardinality(Below(S, w)) < Cardinality(Below(S, v))
<1>1. ASSUME NEW a \in S, NEW b \in S, a < b
      PROVE  Cardinality(Below(S, a)) < Cardinality(Below(S, b))
  <2>1. /\ a \in Below(S, b) /\ a \notin Below(S, a)
        /\ Below(S, b) \subseteq S
    BY <1>1 DEF Below
  <2>2. ASSUME NEW c \in Below(S, a) PROVE c \in Below(S, b)
    <3>1. c \in S /\ c < a
      BY DEF Below
    <3>2. c < b
      BY <1>1, <3>1
    <3> QED
      BY <3>1, <3>2 DEF Below
  <2>3. Below(S, a) \subseteq Below(S, b)
    BY <2>2
  <2>4. IsFiniteSet(Below(S, b))
    BY <2>1, FS_Subset
  <2> QED
    BY <2>1, <2>3, <2>4, FS_Subset, FS_CardinalityType
<1>2. ASSUME NEW a \in S
      PROVE  Cardinality(Below(S, a)) \in 0 .. Cardinality(S) - 1
  <2>1. Below(S, a) \subseteq S /\ a \notin Below(S, a)
    BY DEF Below
  <2>2. /\ Cardinality(Below(S, a)) < Cardinality(S)
        /\ Cardinality(Below(S, a)) \in Nat /\ Cardinality(S) \in Nat
    BY <2>1, FS_Subset, FS_CardinalityType
  <2> QED
    BY <2>2
<1>3. Cardinality(Below(S, w)) \in Nat /\ Cardinality(Below(S, v)) \in Nat
  BY <1>2
<1>4. CASE w < v
  BY <1>1, <1>2, <1>4
<1>5. CASE w = v
  BY <1>2, <1>3, <1>5
<1>6. CASE v < w
  <2>1. Cardinality(Below(S, v)) < Cardinality(Below(S, w))
    BY <1>1, <1>6
  <2> QED
    BY <1>2, <1>3, <1>6, <2>1
<1> QED
  BY <1>4, <1>5, <1>6

\* Sorted gives every member of the set, once, the smallest first.
LEMMA SortedSorts ==
  ASSUME NEW S \in SUBSET Nat, IsFiniteSet(S)
  PROVE  /\ Cardinality(S) \in Nat
         /\ Sorted(S) \in [1 .. Cardinality(S) -> S]
         /\ \A w \in S : \E i \in 1 .. Cardinality(S) : Sorted(S)[i] = w
         /\ \A i, j \in 1 .. Cardinality(S) : i < j => Sorted(S)[i] < Sorted(S)[j]
<1> DEFINE Rank == [w \in S |-> Cardinality(Below(S, w)) + 1]
           N    == Cardinality(S)
           at(i) == CHOOSE w \in S : Cardinality({v \in S : v < w}) = i - 1
<1>1. N \in Nat
  BY FS_CardinalityType
<1>2. \A w \in S : Cardinality(Below(S, w)) \in 0 .. N - 1
  BY RankGrows
<1>3. Rank \in [S -> 1 .. N]
  BY <1>1, <1>2
<1>4. \A w, v \in S : Rank[w] = Rank[v] => w = v
  <2> SUFFICES ASSUME NEW w \in S, NEW v \in S, Rank[w] = Rank[v] PROVE w = v
    OBVIOUS
  <2>1. Cardinality(Below(S, w)) = Cardinality(Below(S, v))
    BY <1>2
  <2>2. ~(w < v) /\ ~(v < w)
    BY <1>2, <2>1, RankGrows
  <2> QED
    BY <2>2
<1>5. \A i \in 1 .. N : \E w \in S : Rank[w] = i
  <2>1. IsFiniteSet(1 .. N) /\ Cardinality(1 .. N) = N
    BY <1>1, FS_Interval
  <2>2. Rank \in Injection(S, 1 .. N)
    BY <1>3, <1>4 DEF Injection, IsInjective
  <2>3. Rank \in Surjection(S, 1 .. N)
    BY <2>1, <2>2, FS_Injection
  <2> QED
    BY <2>3 DEF Surjection
<1>6. ASSUME NEW i \in 1 .. N
      PROVE  at(i) \in S /\ Rank[at(i)] = i
  <2>1. PICK w \in S : Rank[w] = i
    BY <1>5
  <2>2. Cardinality({v \in S : v < w}) = i - 1
    BY <1>1, <1>2, <2>1 DEF Below
  <2>3. at(i) \in S /\ Cardinality({v \in S : v < at(i)}) = i - 1
    BY <2>2
  <2> QED
    BY <1>1, <2>3 DEF Below
<1>7. Sorted(S) = [i \in 1 .. N |-> at(i)]
  BY DEF Sorted
<1> HIDE DEF N, at
<1>8. Sorted(S) \in [1 .. N -> S]
  BY <1>6, <1>7
<1>9. ASSUME NEW w \in S PROVE \E i \in 1 .. N : Sorted(S)[i] = w
  <2>1. Rank[w] \in 1 .. N
    BY <1>3
  <2>2. at(Rank[w]) \in S /\ Rank[at(Rank[w])] = Rank[w]
    BY <1>6, <2>1
  <2> HIDE DEF Rank
  <2>3. at(Rank[w]) = w
    BY <1>4, <2>2
  <2> QED
    BY <1>7, <2>1, <2>3
<1>10. ASSUME NEW i \in 1 .. N, NEW j \in 1 .. N, i < j
       PROVE  Sorted(S)[i] < Sorted(S)[j]
  <2>1. at(i) \in S /\ at(j) \in S /\ Rank[at(i)] = i /\ Rank[at(j)] = j
    BY <1>6
  <2>2. /\ Cardinality(Below(S, at(i))) + 1 = i /\ Cardinality(Below(S, at(i))) \in 0 .. N - 1
        /\ Cardinality(Below(S, at(j))) + 1 = j /\ Cardinality(Below(S, at(j))) \in 0 .. N - 1
    BY <1>2, <2>1
  <2>3. Cardinality(Below(S, at(i))) < Cardinality(Below(S, at(j)))
    BY <1>1, <1>10, <2>2
  <2>4. at(i) < at(j)
    BY <2>1, <2>3, RankGrows
  <2> QED
    BY <1>7, <2>4
<1> QED
  BY <1>1, <1>8, <1>9, <1>10 DEF N

\* The places of q that Kept keeps.
Places(q, S) == {i \in DOMAIN q : q[i] \in S}

\* Kept keeps the members of S in their order, each place once: place[k] is the
\* place in q of what is at k in what is kept.
LEMMA KeptKeeps ==
  ASSUME NEW T, NEW q \in Seq(T), NEW S
  PROVE  /\ Kept(q, S) \in Seq(T)
         /\ \A k \in DOMAIN Kept(q, S) : Kept(q, S)[k] \in S
         /\ \E place \in [DOMAIN Kept(q, S) -> DOMAIN q] :
              /\ \A k \in DOMAIN Kept(q, S) : Kept(q, S)[k] = q[place[k]]
              /\ \A k, l \in DOMAIN Kept(q, S) : k < l => place[k] < place[l]
              /\ \A i \in DOMAIN q :
                   q[i] \in S => \E k \in DOMAIN Kept(q, S) : place[k] = i
<1> DEFINE P == Places(q, S)
           at == Sorted(P)
<1>1. /\ DOMAIN q = 1 .. Len(q) /\ Len(q) \in Nat
      /\ \A i \in DOMAIN q : q[i] \in T
  OBVIOUS
<1>2. P \subseteq 1 .. Len(q) /\ P \in SUBSET Nat
  BY <1>1 DEF Places
<1> HIDE DEF P
<1>3. IsFiniteSet(P)
  <2>1. IsFiniteSet(1 .. Len(q))
    BY <1>1, FS_Interval
  <2> QED
    BY <1>2, <2>1, FS_Subset
<1>4. /\ Cardinality(P) \in Nat
      /\ at \in [1 .. Cardinality(P) -> P]
      /\ \A w \in P : \E i \in 1 .. Cardinality(P) : at[i] = w
      /\ \A i, j \in 1 .. Cardinality(P) : i < j => at[i] < at[j]
  BY <1>2, <1>3, SortedSorts
<1>5. Kept(q, S) = [k \in DOMAIN at |-> q[at[k]]]
  BY DEF Kept, P, Places
<1> HIDE DEF at
<1>6. /\ DOMAIN Kept(q, S) = 1 .. Cardinality(P)
      /\ \A k \in 1 .. Cardinality(P) : Kept(q, S)[k] = q[at[k]] /\ at[k] \in P
  BY <1>4, <1>5
<1>7. \A i \in P : i \in DOMAIN q /\ q[i] \in S /\ q[i] \in T
  BY <1>1 DEF P, Places
<1>8. Kept(q, S) \in [1 .. Cardinality(P) -> T]
  BY <1>4, <1>5, <1>6, <1>7
<1>9. Kept(q, S) \in Seq(T)
  BY <1>4, <1>8
<1>10. at \in [DOMAIN Kept(q, S) -> DOMAIN q]
  BY <1>4, <1>6, <1>7
<1>11. \A i \in DOMAIN q : q[i] \in S => i \in P
  BY DEF P, Places
<1>12. \A i \in DOMAIN q : q[i] \in S => \E k \in DOMAIN Kept(q, S) : at[k] = i
  BY <1>4, <1>6, <1>11
<1> QED
  <2>1. \A k \in DOMAIN Kept(q, S) : Kept(q, S)[k] \in S
    BY <1>6, <1>7
  <2>2. \A k \in DOMAIN Kept(q, S) : Kept(q, S)[k] = q[at[k]]
    BY <1>6
  <2>3. \A k, l \in DOMAIN Kept(q, S) : k < l => at[k] < at[l]
    BY <1>4, <1>6
  <2> QED
    BY <1>9, <1>10, <1>12, <2>1, <2>2, <2>3

\* What is kept are the elements of q that are in S.
LEMMA KeptElements ==
  ASSUME NEW T, NEW q \in Seq(T), NEW S
  PROVE  /\ \A k \in DOMAIN Kept(q, S) : \E i \in DOMAIN q : Kept(q, S)[k] = q[i]
         /\ \A i \in DOMAIN q : q[i] \in S => \E k \in DOMAIN Kept(q, S) : Kept(q, S)[k] = q[i]
<1>1. PICK place \in [DOMAIN Kept(q, S) -> DOMAIN q] :
        /\ \A k \in DOMAIN Kept(q, S) : Kept(q, S)[k] = q[place[k]]
        /\ \A k, l \in DOMAIN Kept(q, S) : k < l => place[k] < place[l]
        /\ \A i \in DOMAIN q :
             q[i] \in S => \E k \in DOMAIN Kept(q, S) : place[k] = i
  BY KeptKeeps
<1> DEFINE r == Kept(q, S)
<1>4. /\ place \in [DOMAIN r -> DOMAIN q]
      /\ \A k \in DOMAIN r : r[k] = q[place[k]]
      /\ \A i \in DOMAIN q : q[i] \in S => \E k \in DOMAIN r : place[k] = i
  BY <1>1
<1> HIDE DEF r
<1>2. ASSUME NEW k \in DOMAIN r PROVE \E i \in DOMAIN q : r[k] = q[i]
  BY <1>4
<1>3. ASSUME NEW i \in DOMAIN q, q[i] \in S PROVE \E k \in DOMAIN r : r[k] = q[i]
  BY <1>3, <1>4
<1> QED
  BY <1>2, <1>3 DEF r

LEMMA KeptDistinct ==
  ASSUME NEW T, NEW q \in Seq(T), NEW S, IsInjective(q)
  PROVE  IsInjective(Kept(q, S))
<1> DEFINE r == Kept(q, S)
<1>1. r \in Seq(T)
  BY KeptKeeps
<1>2. PICK place \in [DOMAIN r -> DOMAIN q] :
        /\ \A k \in DOMAIN r : r[k] = q[place[k]]
        /\ \A k, l \in DOMAIN r : k < l => place[k] < place[l]
  BY KeptKeeps
<1> HIDE DEF r
<1>3. ASSUME NEW k \in DOMAIN r, NEW l \in DOMAIN r, r[k] = r[l]
      PROVE  k = l
  <2>1. place[k] = place[l] /\ place[k] \in DOMAIN q
    BY <1>2, <1>3 DEF IsInjective
  <2>2. k \in Nat /\ l \in Nat /\ place[k] \in Nat
    BY <1>1, <2>1
  <2>3. ~(k < l) /\ ~(l < k)
    BY <1>2, <2>1, <2>2
  <2> QED
    BY <2>2, <2>3
<1> QED
  BY <1>3 DEF IsInjective, r


\* A property of 0 that goes from each number to the next is one of all numbers.
LEMMA Induct ==
  ASSUME NEW Good, 0 \in Good, \A k \in Nat : k \in Good => k + 1 \in Good
  PROVE  Nat \subseteq Good
<1> DEFINE Bad == Nat \ Good
<1> SUFFICES ASSUME Bad # {} PROVE FALSE
  OBVIOUS
<1>1. Bad \in SUBSET Nat
  OBVIOUS
<1>2. PICK k \in Bad : \A j \in Bad : k <= j
  BY <1>1, Least
<1>3. k \in Nat /\ k # 0
  OBVIOUS
<1>4. k - 1 \in Nat /\ (k - 1) + 1 = k
  BY <1>3
<1>5. k - 1 \in Good
  BY <1>2, <1>4
<1> QED
  BY <1>4, <1>5

\* When each step of a run leads from one set to the next, the last is reached.
LEMMA RunLeads ==
  ASSUME NEW n \in Nat, NEW f, NEW Within, f[0] \in Within[0],
         \A i \in 1 .. n : f[i - 1] \in Within[i - 1] => f[i] \in Within[i]
  PROVE  f[n] \in Within[n]
<1> DEFINE Good == {i \in Nat : i <= n => f[i] \in Within[i]}
<1>1. 0 \in Good
  OBVIOUS
<1>2. ASSUME NEW k \in Nat, k \in Good PROVE k + 1 \in Good
  <2> SUFFICES ASSUME k + 1 <= n PROVE f[k + 1] \in Within[k + 1]
    OBVIOUS
  <2>1. k + 1 \in 1 .. n /\ (k + 1) - 1 = k /\ k <= n
    OBVIOUS
  <2> QED
    BY <1>2, <2>1
<1> HIDE DEF Good
<1>3. n \in Good
  BY <1>1, <1>2, Induct
<1> QED
  BY <1>3 DEF Good

LEMMA Elements ==
  ASSUME NEW T, NEW q \in Seq(T)
  PROVE  /\ DOMAIN q = 1 .. Len(q) /\ Len(q) \in Nat /\ ToSet(q) \subseteq T
         /\ \A i \in DOMAIN q : q[i] \in T /\ q[i] \in ToSet(q)
         /\ \A x \in ToSet(q) : \E i \in DOMAIN q : q[i] = x
         /\ \A x : Contains(q, x) <=> x \in ToSet(q)
         /\ q = <<>> <=> Len(q) = 0
         /\ q # <<>> => 1 \in DOMAIN q
         /\ \A i \in Nat : i \in DOMAIN q <=> 1 <= i /\ i <= Len(q)
BY DEF ToSet, Contains

\* What is kept is what is in S; nothing is kept twice.
LEMMA KeptSet ==
  ASSUME NEW T, NEW q \in Seq(T), NEW S
  PROVE  /\ Kept(q, S) \in Seq(T)
         /\ ToSet(Kept(q, S)) = ToSet(q) \cap S
         /\ IsInjective(q) => IsInjective(Kept(q, S))
<1> DEFINE r == Kept(q, S)
<1>1. r \in Seq(T) /\ \A k \in DOMAIN r : r[k] \in S
  BY KeptKeeps
<1>2. /\ \A k \in DOMAIN r : \E i \in DOMAIN q : r[k] = q[i]
      /\ \A i \in DOMAIN q : q[i] \in S => \E k \in DOMAIN r : r[k] = q[i]
  BY KeptElements
<1>3. IsInjective(q) => IsInjective(r)
  BY KeptDistinct
<1> HIDE DEF r
<1>4. ASSUME NEW x \in ToSet(r) PROVE x \in ToSet(q) /\ x \in S
  BY <1>1, <1>2 DEF ToSet
<1>5. ASSUME NEW x \in ToSet(q), x \in S PROVE x \in ToSet(r)
  BY <1>2, <1>5 DEF ToSet
<1>6. ToSet(r) = ToSet(q) \cap S
  BY <1>4, <1>5
<1> QED
  BY <1>1, <1>3, <1>6 DEF r

\* The pinned tabs come first.
Led(pinned, tabs) ==
  \A i, j \in DOMAIN tabs : i < j /\ tabs[j] \in pinned => tabs[i] \in pinned

LEMMA KeptLed ==
  ASSUME NEW T, NEW q \in Seq(T), NEW S, NEW pinned, Led(pinned, q)
  PROVE  Led(pinned, Kept(q, S))
<1> DEFINE r == Kept(q, S)
<1>1. PICK place \in [DOMAIN r -> DOMAIN q] :
        /\ \A k \in DOMAIN r : r[k] = q[place[k]]
        /\ \A k, l \in DOMAIN r : k < l => place[k] < place[l]
  BY KeptKeeps
<1> HIDE DEF r
<1>2. ASSUME NEW k \in DOMAIN r, NEW l \in DOMAIN r, k < l, r[l] \in pinned
      PROVE  r[k] \in pinned
  BY <1>1, <1>2 DEF Led
<1> QED
  BY <1>2 DEF Led, r

LEMMA FirstInIsIn ==
  ASSUME NEW T, NEW q \in Seq(T), NEW S, NEW m \in DOMAIN q, q[m] \in S
  PROVE  FirstIn(q, S) \in DOMAIN q /\ q[FirstIn(q, S)] \in S
<1> DEFINE P == {i \in DOMAIN q : q[i] \in S}
<1>1. P \in SUBSET Nat /\ P # {} /\ DOMAIN q = 1 .. Len(q)
  OBVIOUS
<1>2. PICK i \in P : \A j \in P : i <= j
  BY <1>1, Least
<1>3. \A j \in 1 .. i - 1 : j \in DOMAIN q /\ ~(i <= j)
  BY <1>1
<1>4. i \in DOMAIN q /\ q[i] \in S /\ \A j \in 1 .. i - 1 : q[j] \notin S
  BY <1>2, <1>3
<1> QED
  BY <1>4 DEF FirstIn

LEMMA MinOfTwo ==
  ASSUME NEW a \in Int, NEW b \in Int
  PROVE  /\ Min({a, b}) \in {a, b} /\ Min({a, b}) <= a /\ Min({a, b}) <= b
         /\ Max({a, b}) \in {a, b} /\ Max({a, b}) >= a /\ Max({a, b}) >= b
<1>1. \E x \in {a, b} : \A y \in {a, b} : x <= y
  <2>1. CASE a <= b
    BY <2>1
  <2>2. CASE b <= a
    BY <2>2
  <2> QED
    BY <2>1, <2>2
<1>2. \E x \in {a, b} : \A y \in {a, b} : x >= y
  <2>1. CASE a >= b
    BY <2>1
  <2>2. CASE b >= a
    BY <2>2
  <2> QED
    BY <2>1, <2>2
<1>3. Min({a, b}) \in {a, b} /\ \A y \in {a, b} : Min({a, b}) <= y
  BY <1>1 DEF Min
<1>4. Max({a, b}) \in {a, b} /\ \A y \in {a, b} : Max({a, b}) >= y
  BY <1>2 DEF Max
<1> QED
  BY <1>3, <1>4

\* The pinned tabs that lead, and the first that does not.
LEMMA LeadingPinnedLeads ==
  ASSUME NEW T, NEW tabs \in Seq(T), NEW pinned
  PROVE  LET n == LeadingPinned(pinned, tabs)
         IN  /\ n \in 0 .. Len(tabs)
             /\ \A i \in 1 .. n : tabs[i] \in pinned
             /\ n < Len(tabs) => tabs[n + 1] \notin pinned
<1> DEFINE S == {n \in 0 .. Len(tabs) : n < Len(tabs) => tabs[n + 1] \notin pinned}
<1>1. Len(tabs) \in Nat
  OBVIOUS
<1>2. S \in SUBSET Nat /\ Len(tabs) \in S
  BY <1>1
<1>3. \E n \in S : \A i \in S : n <= i
  <2> HIDE DEF S
  <2> QED
    BY <1>2, Least
<1>4. LeadingPinned(pinned, tabs) \in S /\ \A i \in S : LeadingPinned(pinned, tabs) <= i
  BY <1>3 DEF LeadingPinned, Min
<1> DEFINE n == LeadingPinned(pinned, tabs)
<1> HIDE DEF n
<1>5. n \in S /\ \A i \in S : n <= i
  BY <1>4 DEF n
<1>6. ASSUME NEW i \in 1 .. n PROVE tabs[i] \in pinned
  <2>1. i - 1 \in 0 .. Len(tabs) /\ i - 1 < Len(tabs) /\ (i - 1) + 1 = i /\ ~(n <= i - 1)
    BY <1>1, <1>5
  <2>2. i - 1 \notin S
    BY <1>5, <2>1
  <2> QED
    BY <2>1, <2>2
<1> QED
  BY <1>5, <1>6 DEF n

LEMMA InsertAtFacts ==
  ASSUME NEW T, NEW q \in Seq(T), NEW i \in 1 .. Len(q) + 1, NEW e \in T
  PROVE  LET r == InsertAt(q, i, e)
         IN  /\ r \in Seq(T) /\ Len(r) = Len(q) + 1 /\ r[i] = e
             /\ \A j \in 1 .. i - 1 : r[j] = q[j]
             /\ \A j \in i + 1 .. Len(q) + 1 : r[j] = q[j - 1]
<1> DEFINE a == SubSeq(q, 1, i - 1)
           b == SubSeq(q, i, Len(q))
<1>1. Len(q) \in Nat /\ i \in Nat /\ \A j \in 1 .. Len(q) : q[j] \in T
  OBVIOUS
<1>2. a \in Seq(T) /\ Len(a) = i - 1 /\ \A j \in 1 .. i - 1 : a[j] = q[j]
  BY <1>1
<1>3. b \in Seq(T) /\ Len(b) = Len(q) - i + 1 /\ \A j \in 1 .. Len(q) - i + 1 : b[j] = q[j + i - 1]
  BY <1>1
<1>4. InsertAt(q, i, e) = a \o <<e>> \o b
  BY DEF InsertAt
<1> HIDE DEF a, b
<1> DEFINE c == a \o <<e>>
<1>5. /\ c \in Seq(T) /\ Len(c) = i /\ c[i] = e
      /\ \A j \in 1 .. i - 1 : c[j] = a[j]
  BY <1>1, <1>2
<1> HIDE DEF c
<1>6. /\ c \o b \in Seq(T) /\ Len(c \o b) = Len(q) + 1
      /\ \A j \in 1 .. i : (c \o b)[j] = c[j]
      /\ \A j \in i + 1 .. Len(q) + 1 : (c \o b)[j] = b[j - i]
  BY <1>1, <1>3, <1>5
<1>7. ASSUME NEW j \in i + 1 .. Len(q) + 1 PROVE b[j - i] = q[j - 1]
  <2>1. j - i \in 1 .. Len(q) - i + 1 /\ (j - i) + i - 1 = j - 1
    BY <1>1
  <2> QED
    BY <1>3, <2>1
<1> QED
  BY <1>1, <1>2, <1>4, <1>5, <1>6, <1>7 DEF c

\* What an insertion gives: the members and e, each once if e was not there.
LEMMA InsertAtGives ==
  ASSUME NEW T, NEW q \in Seq(T), NEW i \in 1 .. Len(q) + 1, NEW e \in T
  PROVE  LET r == InsertAt(q, i, e)
         IN  /\ r \in Seq(T)
             /\ ToSet(r) = ToSet(q) \cup {e}
             /\ IsInjective(q) /\ e \notin ToSet(q) => IsInjective(r)
             /\ r # <<>>
<1> DEFINE r == InsertAt(q, i, e)
<1>1. /\ r \in Seq(T) /\ Len(r) = Len(q) + 1 /\ r[i] = e
      /\ \A j \in 1 .. i - 1 : r[j] = q[j]
      /\ \A j \in i + 1 .. Len(q) + 1 : r[j] = q[j - 1]
  BY InsertAtFacts
<1> HIDE DEF r
<1>2. /\ Len(q) \in Nat /\ i \in Nat /\ DOMAIN q = 1 .. Len(q) /\ DOMAIN r = 1 .. Len(q) + 1
      /\ i \in DOMAIN r
  BY <1>1
<1>3. ASSUME NEW x \in ToSet(r) PROVE x \in ToSet(q) \cup {e}
  <2>1. PICK j \in 1 .. Len(q) + 1 : x = r[j]
    BY <1>2 DEF ToSet
  <2>2. CASE j < i
    <3>1. j \in 1 .. i - 1 /\ j \in DOMAIN q
      BY <1>2, <2>2
    <3> QED
      BY <1>1, <2>1, <3>1 DEF ToSet
  <2>3. CASE j = i
    BY <1>1, <2>1, <2>3
  <2>4. CASE j > i
    <3>1. j \in i + 1 .. Len(q) + 1 /\ j - 1 \in DOMAIN q
      BY <1>2, <2>4
    <3> QED
      BY <1>1, <2>1, <3>1 DEF ToSet
  <2> QED
    BY <1>2, <2>2, <2>3, <2>4
<1>4. ASSUME NEW x \in ToSet(q) PROVE x \in ToSet(r)
  <2>1. PICK j \in 1 .. Len(q) : x = q[j]
    BY <1>2 DEF ToSet
  <2>2. CASE j < i
    <3>1. j \in 1 .. i - 1 /\ j \in DOMAIN r
      BY <1>2, <2>2
    <3> QED
      BY <1>1, <2>1, <3>1 DEF ToSet
  <2>3. CASE j >= i
    <3>1. j + 1 \in i + 1 .. Len(q) + 1 /\ j + 1 \in DOMAIN r /\ (j + 1) - 1 = j
      BY <1>2, <2>3
    <3>2. r[j + 1] = q[j]
      BY <1>1, <3>1
    <3> QED
      BY <2>1, <3>1, <3>2 DEF ToSet
  <2> QED
    BY <1>2, <2>2, <2>3
<1>5. e \in ToSet(r)
  BY <1>1, <1>2 DEF ToSet
<1>6. ToSet(r) = ToSet(q) \cup {e}
  BY <1>3, <1>4, <1>5
<1>7. ASSUME IsInjective(q), e \notin ToSet(q),
             NEW j \in 1 .. Len(q) + 1, NEW k \in 1 .. Len(q) + 1, j < k
      PROVE  r[j] # r[k]
  <2>1. \A m \in 1 .. Len(q) : q[m] # e
    BY <1>2, <1>7 DEF ToSet
  <2>2. \A m, l \in 1 .. Len(q) : q[m] = q[l] => m = l
    BY <1>2, <1>7 DEF IsInjective
  <2>3. CASE k < i
    <3>1. j \in 1 .. i - 1 /\ k \in 1 .. i - 1 /\ j \in 1 .. Len(q) /\ k \in 1 .. Len(q)
      BY <1>2, <1>7, <2>3
    <3> QED
      BY <1>1, <1>7, <2>2, <3>1
  <2>4. CASE k = i
    <3>1. j \in 1 .. i - 1 /\ j \in 1 .. Len(q)
      BY <1>2, <1>7, <2>4
    <3> QED
      BY <1>1, <2>1, <2>4, <3>1
  <2>5. CASE k > i /\ j < i
    <3>1. j \in 1 .. i - 1 /\ j \in 1 .. Len(q) /\ k \in i + 1 .. Len(q) + 1
          /\ k - 1 \in 1 .. Len(q) /\ j # k - 1
      BY <1>2, <1>7, <2>5
    <3> QED
      BY <1>1, <2>2, <3>1
  <2>6. CASE j = i
    <3>1. k \in i + 1 .. Len(q) + 1 /\ k - 1 \in 1 .. Len(q)
      BY <1>2, <1>7, <2>6
    <3> QED
      BY <1>1, <2>1, <2>6, <3>1
  <2>7. CASE j > i
    <3>1. j \in i + 1 .. Len(q) + 1 /\ k \in i + 1 .. Len(q) + 1
          /\ j - 1 \in 1 .. Len(q) /\ k - 1 \in 1 .. Len(q) /\ j - 1 # k - 1
      BY <1>2, <1>7, <2>7
    <3> QED
      BY <1>1, <2>2, <3>1
  <2> QED
    BY <1>2, <2>3, <2>4, <2>5, <2>6, <2>7
<1>8. ASSUME IsInjective(q), e \notin ToSet(q) PROVE IsInjective(r)
  <2> SUFFICES ASSUME NEW j \in 1 .. Len(q) + 1, NEW k \in 1 .. Len(q) + 1, r[j] = r[k]
               PROVE  j = k
    BY <1>2 DEF IsInjective
  <2>1. ~(j < k) /\ ~(k < j)
    BY <1>7, <1>8
  <2> QED
    BY <1>2, <2>1
<1> QED
  BY <1>1, <1>2, <1>6, <1>8 DEF r

\* A pinned window goes among the pinned tabs that lead, another behind them.
LEMMA InsertAtLed ==
  ASSUME NEW T, NEW q \in Seq(T), NEW i \in 1 .. Len(q) + 1, NEW e \in T, NEW pinned,
         Led(pinned, q),
         IF e \in pinned THEN i - 1 <= LeadingPinned(pinned, q)
                         ELSE i - 1 >= LeadingPinned(pinned, q)
  PROVE  Led(pinned, InsertAt(q, i, e))
<1> DEFINE r == InsertAt(q, i, e)
           n == LeadingPinned(pinned, q)
<1>1. /\ r \in Seq(T) /\ Len(r) = Len(q) + 1 /\ r[i] = e
      /\ \A j \in 1 .. i - 1 : r[j] = q[j]
      /\ \A j \in i + 1 .. Len(q) + 1 : r[j] = q[j - 1]
  BY InsertAtFacts
<1>2. /\ n \in 0 .. Len(q)
      /\ \A j \in 1 .. n : q[j] \in pinned
      /\ n < Len(q) => q[n + 1] \notin pinned
  BY LeadingPinnedLeads
<1>0. IF e \in pinned THEN i - 1 <= n ELSE i - 1 >= n
  OBVIOUS
<1> HIDE DEF r, n
<1>3. Len(q) \in Nat /\ i \in Nat /\ DOMAIN q = 1 .. Len(q) /\ DOMAIN r = 1 .. Len(q) + 1
  BY <1>1
<1>4. ASSUME NEW j \in 1 .. Len(q), q[j] \in pinned PROVE j <= n
  <2> SUFFICES ASSUME n < j PROVE FALSE
    BY <1>2, <1>3
  <2>1. n + 1 \in 1 .. Len(q) /\ q[n + 1] \notin pinned /\ n + 1 <= j
    BY <1>2, <1>3
  <2> QED
    BY <1>3, <1>4, <2>1 DEF Led
<1>5. ASSUME NEW j \in 1 .. Len(q) + 1, NEW k \in 1 .. Len(q) + 1, j < k, r[k] \in pinned
      PROVE  r[j] \in pinned
  <2>1. CASE e \in pinned
    <3>1. i - 1 <= n
      BY <1>0, <2>1
    <3>2. CASE j < i
      <4>1. j \in 1 .. i - 1 /\ j \in 1 .. n
        BY <1>2, <1>3, <3>1, <3>2
      <4> QED
        BY <1>1, <1>2, <4>1
    <3>3. CASE j = i
      BY <1>1, <2>1, <3>3
    <3>4. CASE j > i
      <4>1. /\ j \in i + 1 .. Len(q) + 1 /\ k \in i + 1 .. Len(q) + 1
            /\ j - 1 \in 1 .. Len(q) /\ k - 1 \in 1 .. Len(q) /\ j - 1 < k - 1
        BY <1>3, <1>5, <3>4
      <4> QED
        BY <1>1, <1>3, <1>5, <4>1 DEF Led
    <3> QED
      BY <1>3, <3>2, <3>3, <3>4
  <2>2. CASE e \notin pinned
    <3>1. i - 1 >= n
      BY <1>0, <2>2
    <3>2. k < i
      <4> SUFFICES ASSUME k >= i PROVE FALSE
        BY <1>3
      <4>1. k # i
        BY <1>1, <1>5, <2>2
      <4>2. k \in i + 1 .. Len(q) + 1 /\ k - 1 \in 1 .. Len(q)
        BY <1>3, <4>1
      <4>3. k - 1 <= n
        BY <1>1, <1>4, <1>5, <4>2
      <4> QED
        BY <1>2, <1>3, <3>1, <4>2, <4>3
    <3>3. k \in 1 .. i - 1 /\ j \in 1 .. i - 1 /\ j \in 1 .. Len(q) /\ k \in 1 .. Len(q)
      BY <1>3, <1>5, <3>2
    <3> QED
      BY <1>1, <1>3, <1>5, <3>3 DEF Led
  <2> QED
    BY <2>1, <2>2
<1> QED
  BY <1>3, <1>5 DEF Led, r

\* The tabs without w.
LEMMA RestIs ==
  ASSUME NEW tabs \in Seq(Windows), NEW w
  PROVE  /\ Rest(tabs, w) \in Seq(Windows)
         /\ ToSet(Rest(tabs, w)) = ToSet(tabs) \ {w}
         /\ IsInjective(tabs) => IsInjective(Rest(tabs, w))
         /\ \A pinned : Led(pinned, tabs) => Led(pinned, Rest(tabs, w))
         /\ Rest(tabs, w) # <<>> =>
              Rest(tabs, w)[1] \in ToSet(tabs) \ {w} /\ Rest(tabs, w)[1] \in Windows
<1>1. /\ Rest(tabs, w) \in Seq(Windows)
      /\ ToSet(Rest(tabs, w)) = ToSet(tabs) \cap (Windows \ {w})
      /\ IsInjective(tabs) => IsInjective(Rest(tabs, w))
  BY KeptSet DEF Rest
<1>2. ToSet(tabs) \subseteq Windows
  BY Elements
<1>3. ASSUME NEW pinned, Led(pinned, tabs) PROVE Led(pinned, Rest(tabs, w))
  BY <1>3, KeptLed DEF Rest
<1>4. Rest(tabs, w) # <<>> =>
        Rest(tabs, w)[1] \in ToSet(Rest(tabs, w))
  BY <1>1, Elements
<1> QED
  BY <1>1, <1>2, <1>3, <1>4

\* insert_into_group puts w in the group, where it keeps the pinned tabs in front.
LEMMA InsertIntoGroupGives ==
  ASSUME NEW pinned, NEW tabs \in Seq(Windows), IsInjective(tabs), NEW w \in Windows,
         NEW index \in Nat
  PROVE  LET r == InsertIntoGroup(pinned, tabs, w, index)
         IN  /\ r \in Seq(Windows) /\ IsInjective(r)
             /\ ToSet(r) = ToSet(tabs) \cup {w}
             /\ Led(pinned, tabs) => Led(pinned, r)
<1> DEFINE rest == Rest(tabs, w)
           lead == LeadingPinned(pinned, rest)
           low  == Min({index, lead})
           high == Max({index, lead})
           at   == IF w \in pinned THEN low ELSE Min({high, Len(rest)})
<1>1. /\ rest \in Seq(Windows) /\ ToSet(rest) = ToSet(tabs) \ {w} /\ IsInjective(rest)
      /\ Led(pinned, tabs) => Led(pinned, rest)
  BY RestIs
<1>2. InsertIntoGroup(pinned, tabs, w, index) = InsertAt(rest, 1 + at, w)
  BY DEF InsertIntoGroup
<1> HIDE DEF rest
<1>3. lead \in 0 .. Len(rest) /\ Len(rest) \in Nat
  BY <1>1, LeadingPinnedLeads
<1> HIDE DEF lead
<1>i. index \in Int /\ lead \in Int /\ Len(rest) \in Int
  BY <1>3
<1>4. /\ low \in {index, lead} /\ low <= index /\ low <= lead
      /\ high \in {index, lead} /\ high >= index /\ high >= lead
  BY <1>i, MinOfTwo
<1> HIDE DEF low, high
<1>h. high \in Int
  BY <1>i, <1>4
<1>5. Min({high, Len(rest)}) \in {high, Len(rest)} /\ Min({high, Len(rest)}) <= Len(rest)
  BY <1>i, <1>h, MinOfTwo
<1>6. /\ at \in 0 .. Len(rest)
      /\ IF w \in pinned THEN at <= lead ELSE at >= lead
  BY <1>3, <1>4, <1>5
<1> HIDE DEF at
<1>7. 1 + at \in 1 .. Len(rest) + 1 /\ (1 + at) - 1 = at
  BY <1>3, <1>6
<1> DEFINE r == InsertAt(rest, 1 + at, w)
<1>8. /\ r \in Seq(Windows) /\ ToSet(r) = ToSet(rest) \cup {w} /\ IsInjective(r)
  BY <1>1, <1>7, InsertAtGives
<1>9. Led(pinned, rest) => Led(pinned, r)
  BY <1>1, <1>6, <1>7, InsertAtLed DEF lead
<1> HIDE DEF r
<1>10. ToSet(r) = ToSet(tabs) \cup {w}
  BY <1>1, <1>8
<1> QED
  BY <1>1, <1>2, <1>8, <1>9, <1>10 DEF r

\* The tabs while windows are inserted one after the other.
InsertRun(f, pinned, tabs, windows, index, n) ==
  f = [i \in 0 .. n |-> IF i = 0 THEN tabs
                        ELSE InsertIntoGroup(pinned, f[i - 1], windows[i], index + i - 1)]

LEMMA InsertRunExists ==
  ASSUME NEW pinned, NEW tabs, NEW windows, NEW index, NEW n \in Nat
  PROVE  \E f : InsertRun(f, pinned, tabs, windows, index, n)
<1> DEFINE Good == {k \in Nat : \E f : InsertRun(f, pinned, tabs, windows, index, k)}
<1>1. InsertRun([i \in 0 .. 0 |-> tabs], pinned, tabs, windows, index, 0)
  BY DEF InsertRun
<1>2. ASSUME NEW k \in Nat, NEW f, InsertRun(f, pinned, tabs, windows, index, k)
      PROVE  \E g : InsertRun(g, pinned, tabs, windows, index, k + 1)
  <2> DEFINE step(i, t) == InsertIntoGroup(pinned, t, windows[i], index + i - 1)
             g == [i \in 0 .. k + 1 |-> IF i <= k THEN f[i] ELSE step(k + 1, f[k])]
  <2>1. \A i \in 0 .. k : f[i] = IF i = 0 THEN tabs ELSE step(i, f[i - 1])
    BY <1>2 DEF InsertRun
  <2>2. InsertRun(g, pinned, tabs, windows, index, k + 1)
        <=> g = [i \in 0 .. k + 1 |-> IF i = 0 THEN tabs ELSE step(i, g[i - 1])]
    BY DEF InsertRun
  <2> HIDE DEF step
  <2>3. ASSUME NEW i \in 0 .. k + 1 PROVE g[i] = IF i = 0 THEN tabs ELSE step(i, g[i - 1])
    <3>1. CASE i <= k
      BY <2>1, <3>1
    <3>2. CASE i = k + 1
      BY <3>2
    <3> QED
      BY <3>1, <3>2
  <2>4. g = [i \in 0 .. k + 1 |-> g[i]]
    OBVIOUS
  <2> HIDE DEF g
  <2> QED
    BY <2>2, <2>3, <2>4
<1>3. 0 \in Good /\ \A k \in Nat : k \in Good => k + 1 \in Good
  BY <1>1, <1>2
<1> HIDE DEF Good
<1>4. n \in Good
  BY <1>3, Induct
<1> QED
  BY <1>4 DEF Good

\* Inserting windows keeps the tabs, each once, and the pinned ones in front.
LEMMA InsertAllGives ==
  ASSUME NEW pinned, NEW tabs \in Seq(Windows), IsInjective(tabs),
         NEW windows \in Seq(Windows), NEW index \in Nat
  PROVE  LET r == InsertAll(pinned, tabs, windows, index)
         IN  /\ r \in Seq(Windows) /\ IsInjective(r)
             /\ ToSet(r) = ToSet(tabs) \cup ToSet(windows)
             /\ Led(pinned, tabs) => Led(pinned, r)
<1> DEFINE n == Len(windows)
           Upto(i) == {windows[j] : j \in 1 .. i}
           Within == [i \in 0 .. n |->
                        {t \in Seq(Windows) : /\ IsInjective(t)
                                              /\ ToSet(t) = ToSet(tabs) \cup Upto(i)
                                              /\ Led(pinned, tabs) => Led(pinned, t)}]
<1>1. InsertAll(pinned, tabs, windows, index)
        = (CHOOSE f : InsertRun(f, pinned, tabs, windows, index, n))[n]
  BY DEF InsertAll, InsertRun
<1>2. n \in Nat /\ DOMAIN windows = 1 .. n /\ \A i \in 1 .. n : windows[i] \in Windows
  OBVIOUS
<1>3. PICK f : /\ InsertRun(f, pinned, tabs, windows, index, n)
               /\ InsertAll(pinned, tabs, windows, index) = f[n]
  BY <1>1, <1>2, InsertRunExists
<1>t. ToSet(windows) = Upto(n)
  BY <1>2 DEF ToSet
<1> HIDE DEF n
<1>4. \A i \in 0 .. n : f[i] = IF i = 0 THEN tabs
                               ELSE InsertIntoGroup(pinned, f[i - 1], windows[i], index + i - 1)
  BY <1>3 DEF InsertRun
<1>5. f[0] \in Within[0]
  BY <1>2, <1>4
<1>6. ASSUME NEW i \in 1 .. n, f[i - 1] \in Within[i - 1] PROVE f[i] \in Within[i]
  <2>1. i - 1 \in 0 .. n /\ i \in 0 .. n /\ i # 0 /\ index + i - 1 \in Nat
    BY <1>2
  <2>2. /\ f[i - 1] \in Seq(Windows) /\ IsInjective(f[i - 1])
        /\ ToSet(f[i - 1]) = ToSet(tabs) \cup Upto(i - 1)
        /\ Led(pinned, tabs) => Led(pinned, f[i - 1])
    BY <1>6, <2>1
  <2> DEFINE t == InsertIntoGroup(pinned, f[i - 1], windows[i], index + i - 1)
  <2>3. /\ t \in Seq(Windows) /\ IsInjective(t)
        /\ ToSet(t) = ToSet(f[i - 1]) \cup {windows[i]}
        /\ Led(pinned, f[i - 1]) => Led(pinned, t)
    BY <1>2, <2>1, <2>2, InsertIntoGroupGives
  <2> HIDE DEF t
  <2>4. Upto(i) = Upto(i - 1) \cup {windows[i]}
    BY <1>2
  <2>5. f[i] = t
    BY <1>4, <2>1 DEF t
  <2> QED
    BY <2>1, <2>2, <2>3, <2>4, <2>5
<1> HIDE DEF Within
<1>7. f[n] \in Within[n]
  BY <1>2, <1>5, <1>6, RunLeads
<1> QED
  BY <1>2, <1>3, <1>7, <1>t DEF Within

-----------------------------------------------------------------------------
(* States of the workspace. Listing is what every list of groups is, Shape *)
(* what every state is that a mutation or a restored session makes, before *)
(* it is reconciled, and Full what a reconciled state is.                  *)

GroupRecord == [id : Nat, windows : Seq(Windows)]

IsState(s) ==
  s = [groups |-> s.groups, active |-> s.active, pinned |-> s.pinned, left |-> s.left,
       next_group_seq |-> s.next_group_seq]

Listing(groups) ==
  /\ groups \in Seq(GroupRecord)
  /\ \A i, j \in DOMAIN groups : groups[i].id = groups[j].id => i = j
  /\ \A i \in DOMAIN groups : IsInjective(groups[i].windows)

Shape(s) ==
  /\ IsState(s)
  /\ Listing(s.groups)
  /\ s.next_group_seq \in Nat \ {0}
  /\ \A id \in Ids(s) : id < s.next_group_seq
  /\ \A id \in DOMAIN s.active : s.active[id] \in Windows
  /\ s.pinned \subseteq Windows

PinnedLead(s) == \A i \in DOMAIN s.groups : Led(s.pinned, s.groups[i].windows)

\* What a change keeps.
Keeps(s, t) == Shape(t) /\ (PinnedLead(s) => PinnedLead(t))

\* What a list of groups with unique ids says of the group with an id.
LEMMA ListingFacts ==
  ASSUME NEW s, Listing(s.groups)
  PROVE  /\ DOMAIN s.groups = 1 .. Len(s.groups) /\ Len(s.groups) \in Nat
         /\ \A i \in DOMAIN s.groups :
              /\ s.groups[i] \in GroupRecord
              /\ s.groups[i].id \in Ids(s) /\ s.groups[i].id \in Nat
              /\ s.groups[i].windows \in Seq(Windows) /\ IsInjective(s.groups[i].windows)
              /\ s.groups[i] = [id |-> s.groups[i].id, windows |-> s.groups[i].windows]
              /\ Place(s, s.groups[i].id) = i
              /\ Tabs(s, s.groups[i].id) = s.groups[i].windows
         /\ \A id \in Ids(s) : \E i \in DOMAIN s.groups : s.groups[i].id = id
         /\ \A id \in Ids(s) : /\ id \in Nat
                               /\ Place(s, id) \in DOMAIN s.groups
                               /\ s.groups[Place(s, id)].id = id
                               /\ Tabs(s, id) \in Seq(Windows) /\ IsInjective(Tabs(s, id))
                               /\ Tabs(s, id) = s.groups[Place(s, id)].windows
                               /\ ToSet(Tabs(s, id)) \subseteq Windows
<1>1. /\ DOMAIN s.groups = 1 .. Len(s.groups) /\ Len(s.groups) \in Nat
      /\ \A i \in DOMAIN s.groups : s.groups[i] \in GroupRecord
  BY DEF Listing
<1>2. \A i \in DOMAIN s.groups : s.groups[i].id \in Ids(s)
  BY DEF Ids, ToSet
<1>3. ASSUME NEW id \in Ids(s) PROVE \E i \in DOMAIN s.groups : s.groups[i].id = id
  BY DEF Ids, ToSet
<1>4. ASSUME NEW i \in DOMAIN s.groups
      PROVE  /\ s.groups[i].id \in Nat /\ s.groups[i].windows \in Seq(Windows)
             /\ IsInjective(s.groups[i].windows)
             /\ s.groups[i] = [id |-> s.groups[i].id, windows |-> s.groups[i].windows]
             /\ ToSet(s.groups[i].windows) \subseteq Windows
  <2>1. s.groups[i] \in GroupRecord
    BY <1>1
  <2>2. s.groups[i].windows \in Seq(Windows)
    BY <2>1 DEF GroupRecord
  <2>3. ToSet(s.groups[i].windows) \subseteq Windows
    BY <2>2, Elements
  <2> QED
    BY <2>1, <2>2, <2>3 DEF Listing, GroupRecord
<1>5. ASSUME NEW i \in DOMAIN s.groups PROVE Place(s, s.groups[i].id) = i
  <2> DEFINE S == {g \in ToSet(s.groups) : g.id = s.groups[i].id}
  <2>1. s.groups[i] \in S
    BY DEF ToSet
  <2>2. \A g \in S : g.id = s.groups[i].id
    OBVIOUS
  <2>3. Place(s, s.groups[i].id) = FirstIn(s.groups, S)
    BY DEF Place
  <2> HIDE DEF S
  <2>4. FirstIn(s.groups, S) \in DOMAIN s.groups /\ s.groups[FirstIn(s.groups, S)] \in S
    BY <2>1, FirstInIsIn DEF Listing
  <2> QED
    BY <2>2, <2>3, <2>4 DEF Listing
<1>6. \A i \in DOMAIN s.groups : Tabs(s, s.groups[i].id) = s.groups[i].windows
  BY <1>5 DEF Tabs, Group
<1>7. ASSUME NEW id \in Ids(s)
      PROVE  /\ id \in Nat
             /\ Place(s, id) \in DOMAIN s.groups
             /\ s.groups[Place(s, id)].id = id
             /\ Tabs(s, id) \in Seq(Windows) /\ IsInjective(Tabs(s, id))
             /\ Tabs(s, id) = s.groups[Place(s, id)].windows
             /\ ToSet(Tabs(s, id)) \subseteq Windows
  <2>1. PICK i \in DOMAIN s.groups : s.groups[i].id = id
    BY <1>3
  <2> QED
    BY <1>4, <1>5, <1>6, <2>1
<1>8. ASSUME NEW i \in DOMAIN s.groups
      PROVE  /\ s.groups[i] \in GroupRecord
             /\ s.groups[i].id \in Ids(s) /\ s.groups[i].id \in Nat
             /\ s.groups[i].windows \in Seq(Windows) /\ IsInjective(s.groups[i].windows)
             /\ s.groups[i] = [id |-> s.groups[i].id, windows |-> s.groups[i].windows]
             /\ Place(s, s.groups[i].id) = i
             /\ Tabs(s, s.groups[i].id) = s.groups[i].windows
  BY <1>1, <1>2, <1>4, <1>5, <1>6
<1> QED
  BY <1>1, <1>3, <1>7, <1>8

\* A tab is one of the group that is found for it.
LEMMA GroupOfFinds ==
  ASSUME NEW s, Listing(s.groups), NEW w \in AllWindows(s)
  PROVE  /\ GroupOf(s, w) \in Ids(s) /\ w \in Windows
         /\ w \in ToSet(Tabs(s, GroupOf(s, w)))
<1> DEFINE S == {g \in ToSet(s.groups) : Contains(g.windows, w)}
<1>1. PICK i \in DOMAIN s.groups : w \in ToSet(s.groups[i].windows)
  BY DEF AllWindows, TabsOf, ToSet
<1>2. \A j \in DOMAIN s.groups : /\ s.groups[j].windows \in Seq(Windows)
                                 /\ Tabs(s, s.groups[j].id) = s.groups[j].windows
                                 /\ s.groups[j].id \in Ids(s)
  BY ListingFacts
<1>3. s.groups[i] \in S
  BY <1>1, <1>2, Elements DEF ToSet
<1>4. \A g \in S : Contains(g.windows, w)
  OBVIOUS
<1>5. GroupOf(s, w) = s.groups[FirstIn(s.groups, S)].id
  BY DEF GroupOf
<1> HIDE DEF S
<1> DEFINE k == FirstIn(s.groups, S)
<1>6. k \in DOMAIN s.groups /\ s.groups[k] \in S
  BY <1>3, FirstInIsIn DEF Listing
<1> HIDE DEF k
<1>7. w \in ToSet(s.groups[k].windows)
  BY <1>2, <1>4, <1>6, Elements
<1>8. w \in Windows
  <2>1. ToSet(Tabs(s, s.groups[k].id)) \subseteq Windows
    BY <1>2, <1>6, ListingFacts
  <2> QED
    BY <1>2, <1>6, <1>7, <2>1
<1> QED
  BY <1>2, <1>5, <1>6, <1>7, <1>8 DEF k

-----------------------------------------------------------------------------
(* What the small edits keep.                                              *)

LEMMA SameGroups ==
  ASSUME NEW s, NEW t, t.groups = s.groups
  PROVE  /\ Ids(t) = Ids(s) /\ AllWindows(t) = AllWindows(s)
         /\ \A id : Tabs(t, id) = Tabs(s, id)
         /\ \A w : GroupOf(t, w) = GroupOf(s, w)
         /\ t.pinned = s.pinned => (PinnedLead(t) <=> PinnedLead(s))
BY DEF Ids, AllWindows, Tabs, Group, Place, GroupOf, PinnedLead

\* Groups that are shared between states are told by their members.
LEMMA Members ==
  ASSUME NEW s, Listing(s.groups)
  PROVE  /\ Ids(s) = {s.groups[i].id : i \in DOMAIN s.groups}
         /\ ToSet(s.groups) = {s.groups[i] : i \in DOMAIN s.groups}
         /\ \A g \in ToSet(s.groups) : /\ g.id \in Ids(s) /\ Tabs(s, g.id) = g.windows
                                       /\ g \in GroupRecord
         /\ \A id \in Ids(s) : \E g \in ToSet(s.groups) : g.id = id /\ g.windows = Tabs(s, id)
<1>1. Ids(s) = {s.groups[i].id : i \in DOMAIN s.groups}
  BY DEF Ids, ToSet
<1>2. ToSet(s.groups) = {s.groups[i] : i \in DOMAIN s.groups}
  BY DEF ToSet
<1>3. ASSUME NEW g \in ToSet(s.groups)
      PROVE  g.id \in Ids(s) /\ Tabs(s, g.id) = g.windows /\ g \in GroupRecord
  <2>1. PICK i \in DOMAIN s.groups : g = s.groups[i]
    BY <1>2
  <2> QED
    BY <2>1, ListingFacts
<1>4. ASSUME NEW id \in Ids(s)
      PROVE  \E g \in ToSet(s.groups) : g.id = id /\ g.windows = Tabs(s, id)
  <2>1. PICK i \in DOMAIN s.groups : s.groups[i].id = id
    BY <1>1
  <2>2. s.groups[i] \in ToSet(s.groups) /\ Tabs(s, id) = s.groups[i].windows
    BY <1>2, <2>1, ListingFacts
  <2> QED
    BY <2>1, <2>2
<1> QED
  BY <1>1, <1>2, <1>3, <1>4

LEMMA SetTabsKeeps ==
  ASSUME NEW s, Shape(s), NEW id \in Ids(s), NEW tabs \in Seq(Windows), IsInjective(tabs)
  PROVE  LET t == SetTabs(s, id, tabs)
         IN  /\ Shape(t) /\ Ids(t) = Ids(s)
             /\ t.active = s.active /\ t.pinned = s.pinned /\ t.left = s.left
             /\ t.next_group_seq = s.next_group_seq
             /\ DOMAIN t.groups = DOMAIN s.groups
             /\ \A i \in DOMAIN s.groups :
                  t.groups[i] = IF s.groups[i].id = id THEN [id |-> id, windows |-> tabs]
                                ELSE s.groups[i]
             /\ \A other \in Ids(s) : Tabs(t, other) = IF other = id THEN tabs ELSE Tabs(s, other)
             /\ Led(s.pinned, tabs) /\ PinnedLead(s) => PinnedLead(t)
<1> DEFINE t == SetTabs(s, id, tabs)
           p == Place(s, id)
           groups == [s.groups EXCEPT ![p].windows = tabs]
<1>1. /\ IsState(s) /\ Listing(s.groups) /\ s.groups \in Seq(GroupRecord)
      /\ DOMAIN s.groups = 1 .. Len(s.groups) /\ Len(s.groups) \in Nat
      /\ p \in DOMAIN s.groups /\ s.groups[p].id = id /\ id \in Nat
      /\ \A i \in DOMAIN s.groups : s.groups[i].id = id => i = p
  BY ListingFacts DEF Shape, Listing
<1>0. t = [s EXCEPT !.groups = groups]
  <2>1. IsState(s)
    BY DEF Shape
  <2> QED
    BY <2>1 DEF SetTabs, IsState
<1> HIDE DEF t, p
<1>2. t = [groups |-> groups, active |-> s.active, pinned |-> s.pinned, left |-> s.left,
           next_group_seq |-> s.next_group_seq]
  <2> HIDE DEF groups
  <2> QED
    BY <1>0, <1>1 DEF IsState
<1>3. ASSUME NEW i \in DOMAIN s.groups
      PROVE  /\ groups[i] = IF s.groups[i].id = id THEN [id |-> id, windows |-> tabs]
                            ELSE s.groups[i]
             /\ groups[i] \in GroupRecord /\ groups[i].id = s.groups[i].id
             /\ IsInjective(groups[i].windows)
             /\ groups[i].windows = IF s.groups[i].id = id THEN tabs ELSE s.groups[i].windows
  <2>1. /\ s.groups[i] \in GroupRecord /\ IsInjective(s.groups[i].windows)
        /\ s.groups[i] = [id |-> s.groups[i].id, windows |-> s.groups[i].windows]
    BY <1>1, ListingFacts
  <2>2. CASE s.groups[i].id = id
    <3>1. i = p
      BY <1>1, <2>2
    <3>2. groups[i] = [s.groups[i] EXCEPT !.windows = tabs]
      BY <1>1, <3>1
    <3>3. groups[i] = [id |-> id, windows |-> tabs]
      BY <2>1, <2>2, <3>2
    <3> QED
      BY <1>1, <2>2, <3>3 DEF GroupRecord
  <2>3. CASE s.groups[i].id # id
    <3>1. groups[i] = s.groups[i]
      BY <1>1, <2>3
    <3> QED
      BY <2>1, <2>3, <3>1
  <2> QED
    BY <2>2, <2>3
<1>4. DOMAIN groups = DOMAIN s.groups
  BY <1>1
<1> HIDE DEF groups
<1>5. groups \in [1 .. Len(s.groups) -> GroupRecord]
  <2>1. groups = [i \in DOMAIN groups |-> groups[i]]
    BY DEF groups
  <2> QED
    BY <1>1, <1>3, <1>4, <2>1
<1>6. groups \in Seq(GroupRecord)
  <2>1. Len(s.groups) \in Nat
    BY <1>1
  <2> QED
    BY <1>5, <2>1
<1>7. Listing(groups)
  BY <1>1, <1>3, <1>4, <1>6 DEF Listing
<1>8. /\ t.groups = groups /\ t.active = s.active /\ t.pinned = s.pinned /\ t.left = s.left
      /\ t.next_group_seq = s.next_group_seq /\ IsState(t) /\ Listing(t.groups)
  BY <1>2, <1>7 DEF IsState
<1>9. Ids(t) = Ids(s)
  <2>1. Ids(t) = {t.groups[i].id : i \in DOMAIN t.groups}
    BY <1>8, Members
  <2>2. Ids(s) = {s.groups[i].id : i \in DOMAIN s.groups}
    BY <1>1, Members
  <2> QED
    BY <1>3, <1>4, <1>8, <2>1, <2>2
<1>10. Shape(t)
  BY <1>8, <1>9 DEF Shape
<1>11. ASSUME NEW other \in Ids(s)
       PROVE  Tabs(t, other) = IF other = id THEN tabs ELSE Tabs(s, other)
  <2>0. PICK i \in DOMAIN s.groups : s.groups[i].id = other
    BY <1>1, Members
  <2>1. s.groups[i].id = other /\ Tabs(s, other) = s.groups[i].windows
    BY <1>1, <2>0, ListingFacts
  <2>2. t.groups[i].id = other /\ i \in DOMAIN t.groups
    BY <1>3, <1>4, <1>8, <2>1
  <2>3. Tabs(t, other) = t.groups[i].windows
    BY <1>8, <2>2, ListingFacts
  <2> QED
    BY <1>3, <1>8, <2>1, <2>3
<1>12. Led(s.pinned, tabs) /\ PinnedLead(s) => PinnedLead(t)
  BY <1>3, <1>4, <1>8 DEF PinnedLead
<1> QED
  BY <1>3, <1>4, <1>8, <1>9, <1>10, <1>11, <1>12 DEF t

\* The part of it that mutations need.
LEMMA SetTabsShape ==
  ASSUME NEW s, Shape(s), NEW id \in Ids(s), NEW tabs \in Seq(Windows), IsInjective(tabs)
  PROVE  /\ Shape(SetTabs(s, id, tabs))
         /\ SetTabs(s, id, tabs).pinned = s.pinned
         /\ Led(s.pinned, tabs) /\ PinnedLead(s) => PinnedLead(SetTabs(s, id, tabs))
<1> DEFINE t == SetTabs(s, id, tabs)
<1>1. /\ Shape(t) /\ Ids(t) = Ids(s)
      /\ t.active = s.active /\ t.pinned = s.pinned /\ t.left = s.left
      /\ t.next_group_seq = s.next_group_seq
      /\ DOMAIN t.groups = DOMAIN s.groups
      /\ \A i \in DOMAIN s.groups :
           t.groups[i] = IF s.groups[i].id = id THEN [id |-> id, windows |-> tabs]
                         ELSE s.groups[i]
      /\ \A other \in Ids(s) : Tabs(t, other) = IF other = id THEN tabs ELSE Tabs(s, other)
      /\ Led(s.pinned, tabs) /\ PinnedLead(s) => PinnedLead(t)
  BY SetTabsKeeps
<1> QED
  BY <1>1

LEMMA SetActiveKeeps ==
  ASSUME NEW s, Shape(s), NEW id, NEW w \in Windows
  PROVE  LET t == SetActive(s, id, w)
         IN  /\ Shape(t)
             /\ t.groups = s.groups /\ t.pinned = s.pinned /\ t.left = s.left
             /\ t.next_group_seq = s.next_group_seq
             /\ DOMAIN t.active = DOMAIN s.active \cup {id}
             /\ t.active[id] = w
             /\ \A other \in DOMAIN s.active \ {id} : t.active[other] = s.active[other]
<1> DEFINE t == SetActive(s, id, w)
           active == With(s.active, id, w)
<1>1. /\ DOMAIN active = DOMAIN s.active \cup {id} /\ active[id] = w
      /\ \A other \in DOMAIN s.active \ {id} : active[other] = s.active[other]
  BY DEF With
<1> HIDE DEF active
<1>2. t = [groups |-> s.groups, active |-> active, pinned |-> s.pinned, left |-> s.left,
           next_group_seq |-> s.next_group_seq]
  BY DEF SetActive, Shape, IsState, active
<1> HIDE DEF t
<1>3. /\ t.groups = s.groups /\ t.active = active /\ t.pinned = s.pinned /\ t.left = s.left
      /\ t.next_group_seq = s.next_group_seq /\ IsState(t)
  BY <1>2 DEF IsState
<1>4. Ids(t) = Ids(s)
  BY <1>3, SameGroups
<1>5. Shape(t)
  BY <1>1, <1>3, <1>4 DEF Shape
<1> QED
  BY <1>1, <1>3, <1>5 DEF t

LEMMA WithoutSplitKeeps ==
  ASSUME NEW s, Shape(s), NEW id
  PROVE  LET t == WithoutSplit(s, id)
         IN  /\ Shape(t)
             /\ t.groups = s.groups /\ t.active = s.active /\ t.pinned = s.pinned
             /\ t.next_group_seq = s.next_group_seq
             /\ DOMAIN t.left = DOMAIN s.left \ {id}
             /\ \A other \in DOMAIN s.left \ {id} : t.left[other] = s.left[other]
<1> DEFINE t == WithoutSplit(s, id)
           left == Without(s.left, id)
<1>1. /\ DOMAIN left = DOMAIN s.left \ {id}
      /\ \A other \in DOMAIN s.left \ {id} : left[other] = s.left[other]
  BY DEF Without, Restrict
<1> HIDE DEF left
<1>2. t = [groups |-> s.groups, active |-> s.active, pinned |-> s.pinned, left |-> left,
           next_group_seq |-> s.next_group_seq]
  BY DEF WithoutSplit, Shape, IsState, left
<1> HIDE DEF t
<1>3. /\ t.groups = s.groups /\ t.active = s.active /\ t.pinned = s.pinned /\ t.left = left
      /\ t.next_group_seq = s.next_group_seq /\ IsState(t)
  BY <1>2 DEF IsState
<1>4. Ids(t) = Ids(s)
  BY <1>3, SameGroups
<1>5. Shape(t)
  BY <1>3, <1>4 DEF Shape
<1> QED
  BY <1>1, <1>3, <1>5 DEF t

\* Keeping some of the groups of a list.
LEMMA KeptListing ==
  ASSUME NEW q, Listing(q), NEW S
  PROVE  /\ Listing(Kept(q, S)) /\ ToSet(Kept(q, S)) = ToSet(q) \cap S
         /\ \A k \in DOMAIN Kept(q, S) : \E i \in DOMAIN q : Kept(q, S)[k] = q[i]
<1> DEFINE r == Kept(q, S)
<1>1. q \in Seq(GroupRecord)
  BY DEF Listing
<1>2. PICK place \in [DOMAIN r -> DOMAIN q] :
        /\ \A k \in DOMAIN r : r[k] = q[place[k]]
        /\ \A k, l \in DOMAIN r : k < l => place[k] < place[l]
  BY <1>1, KeptKeeps
<1>3. r \in Seq(GroupRecord) /\ ToSet(r) = ToSet(q) \cap S
  BY <1>1, KeptSet
<1> HIDE DEF r
<1>4. ASSUME NEW k \in DOMAIN r, NEW l \in DOMAIN r, r[k].id = r[l].id
      PROVE  k = l
  <2>1. place[k] \in DOMAIN q /\ place[l] \in DOMAIN q /\ place[k] = place[l]
    BY <1>2, <1>4 DEF Listing
  <2>2. k \in Nat /\ l \in Nat /\ place[k] \in Nat
    BY <1>1, <1>3, <2>1
  <2>3. ~(k < l) /\ ~(l < k)
    BY <1>2, <2>1, <2>2
  <2> QED
    BY <2>2, <2>3
<1>5. \A k \in DOMAIN r : IsInjective(r[k].windows)
  BY <1>2 DEF Listing
<1> QED
  BY <1>2, <1>3, <1>4, <1>5 DEF Listing, r

LEMMA DropGroupKeeps ==
  ASSUME NEW s, Shape(s), NEW id
  PROVE  LET t == DropGroup(s, id)
         IN  /\ Keeps(s, t) /\ Ids(t) = Ids(s) \ {id}
             /\ t.pinned = s.pinned /\ t.next_group_seq = s.next_group_seq
             /\ DOMAIN t.active = DOMAIN s.active \ {id}
             /\ \A other \in DOMAIN s.active \ {id} : t.active[other] = s.active[other]
             /\ DOMAIN t.left = DOMAIN s.left \ {id}
             /\ \A other \in DOMAIN s.left \ {id} : t.left[other] = s.left[other]
             /\ ToSet(t.groups) = {g \in ToSet(s.groups) : g.id # id}
             /\ \A other \in Ids(s) \ {id} : Tabs(t, other) = Tabs(s, other)
<1> DEFINE t == DropGroup(s, id)
           S == {g \in ToSet(s.groups) : g.id # id}
           groups == Kept(s.groups, S)
           active == Without(s.active, id)
           left   == Without(s.left, id)
<1>1. /\ DOMAIN active = DOMAIN s.active \ {id}
      /\ \A other \in DOMAIN s.active \ {id} : active[other] = s.active[other]
      /\ DOMAIN left = DOMAIN s.left \ {id}
      /\ \A other \in DOMAIN s.left \ {id} : left[other] = s.left[other]
  BY DEF Without, Restrict
<1>2. IsState(s) /\ Listing(s.groups)
  BY DEF Shape
<1>3. t = [s EXCEPT !.groups = groups, !.active = active, !.left = left]
  BY <1>2 DEF DropGroup, IsState
<1>4. /\ Listing(groups) /\ ToSet(groups) = ToSet(s.groups) \cap S
      /\ \A k \in DOMAIN groups : \E i \in DOMAIN s.groups : groups[k] = s.groups[i]
  BY <1>2, KeptListing
<1>5. ToSet(groups) = {g \in ToSet(s.groups) : g.id # id}
  BY <1>4
<1> HIDE DEF t, groups, active, left
<1>6. t = [groups |-> groups, active |-> active, pinned |-> s.pinned, left |-> left,
           next_group_seq |-> s.next_group_seq]
  BY <1>2, <1>3 DEF IsState
<1>7. /\ t.groups = groups /\ t.active = active /\ t.pinned = s.pinned /\ t.left = left
      /\ t.next_group_seq = s.next_group_seq /\ IsState(t) /\ Listing(t.groups)
  BY <1>4, <1>6 DEF IsState
<1>8. Ids(t) = Ids(s) \ {id}
  BY <1>5, <1>7 DEF Ids
<1>9. Shape(t)
  BY <1>1, <1>7, <1>8 DEF Shape
<1>10. PinnedLead(s) => PinnedLead(t)
  BY <1>4, <1>7 DEF PinnedLead
<1>11. ASSUME NEW other \in Ids(s) \ {id} PROVE Tabs(t, other) = Tabs(s, other)
  <2>1. PICK g \in ToSet(s.groups) : g.id = other /\ g.windows = Tabs(s, other)
    BY <1>2, Members
  <2>2. g \in ToSet(t.groups)
    BY <1>5, <1>7, <2>1
  <2> QED
    BY <1>7, <2>1, <2>2, Members
<1> QED
  BY <1>1, <1>5, <1>7, <1>8, <1>9, <1>10, <1>11 DEF t, Keeps

\* ensure_valid_split_state: what a split that stays has, and that every group
\* keeps an active tab that is one.
LEMMA ValidSplitsGives ==
  ASSUME NEW s, Shape(s)
  PROVE  LET t == ValidSplits(s)
         IN  /\ Keeps(s, t)
             /\ t.groups = s.groups /\ t.pinned = s.pinned
             /\ t.next_group_seq = s.next_group_seq
             /\ DOMAIN t.left \subseteq Ids(s)
             /\ \A id \in DOMAIN t.left : t.left[id] \in ToSet(Tabs(s, id))
             /\ DOMAIN s.active = Ids(s) /\ (\A id \in Ids(s) : s.active[id] \in ToSet(Tabs(s, id)))
                => /\ DOMAIN t.active = Ids(s)
                   /\ \A id \in Ids(s) : t.active[id] \in ToSet(Tabs(s, id))
                   /\ \A id \in DOMAIN t.left : t.active[id] # t.left[id]
             /\ \A id \in DOMAIN t.left : id \in DOMAIN s.left /\ t.left[id] = s.left[id]
             /\ \A id \in DOMAIN s.active :
                  s.active[id] \in ToSet(Tabs(s, id))
                    /\ (id \in DOMAIN s.left => s.left[id] # s.active[id])
                  => id \in DOMAIN t.active /\ t.active[id] = s.active[id]
<1> DEFINE t == ValidSplits(s)
           right(id) == Rest(Tabs(s, id), s.left[id])
           wrong  == {id \in SplitIds(s) : ~Contains(right(id), ActiveTab(s, id))}
           left   == Restrict(s.left, SplitIds(s))
           active == [id \in DOMAIN s.active \cup wrong |->
                        IF id \in wrong THEN right(id)[1] ELSE s.active[id]]
<1>1. IsState(s) /\ Listing(s.groups)
  BY DEF Shape
<1>2. t = [s EXCEPT !.left = left, !.active = active]
  BY <1>1 DEF ValidSplits, IsState
<1>3. ASSUME NEW id \in SplitIds(s)
      PROVE  /\ id \in Ids(s) /\ id \in DOMAIN s.left
             /\ s.left[id] \in ToSet(Tabs(s, id))
             /\ right(id) \in Seq(Windows) /\ right(id) # <<>>
             /\ ToSet(right(id)) = ToSet(Tabs(s, id)) \ {s.left[id]}
             /\ right(id)[1] \in ToSet(Tabs(s, id)) \ {s.left[id]} /\ right(id)[1] \in Windows
  <2>1. id \in Ids(s) /\ id \in DOMAIN s.left /\ Contains(Tabs(s, id), s.left[id]) /\ right(id) # <<>>
    BY DEF SplitIds
  <2>2. Tabs(s, id) \in Seq(Windows)
    BY <1>1, <2>1, ListingFacts
  <2> QED
    BY <2>1, <2>2, Elements, RestIs
<1>4. SplitIds(s) \subseteq Ids(s)
  BY DEF SplitIds
<1>5. DOMAIN left = SplitIds(s) /\ \A id \in SplitIds(s) : left[id] = s.left[id]
  BY DEF Restrict
<1> HIDE DEF t, left
<1>6. wrong \subseteq SplitIds(s)
  OBVIOUS
<1>7. /\ DOMAIN active = DOMAIN s.active \cup wrong
      /\ \A id \in wrong : active[id] = right(id)[1]
      /\ \A id \in DOMAIN s.active \ wrong : active[id] = s.active[id]
  OBVIOUS
<1>8. /\ \A id \in SplitIds(s) \ wrong : Contains(right(id), ActiveTab(s, id))
      /\ \A id \in wrong : ~Contains(right(id), ActiveTab(s, id))
  OBVIOUS
<1> HIDE DEF active, wrong
<1>9. t = [groups |-> s.groups, active |-> active, pinned |-> s.pinned, left |-> left,
           next_group_seq |-> s.next_group_seq]
  BY <1>1, <1>2 DEF IsState
<1> HIDE DEF right
<1>10. /\ t.groups = s.groups /\ t.active = active /\ t.pinned = s.pinned /\ t.left = left
       /\ t.next_group_seq = s.next_group_seq /\ IsState(t)
  BY <1>9 DEF IsState
<1>11. \A id \in DOMAIN t.active : t.active[id] \in Windows
  BY <1>3, <1>6, <1>7, <1>10 DEF Shape
<1>12. Ids(t) = Ids(s) /\ (PinnedLead(t) <=> PinnedLead(s))
  BY <1>10, SameGroups
<1>13. Keeps(s, t)
  BY <1>10, <1>11, <1>12 DEF Shape, Keeps
<1>14. ASSUME DOMAIN s.active = Ids(s), \A id \in Ids(s) : s.active[id] \in ToSet(Tabs(s, id))
       PROVE  /\ DOMAIN t.active = Ids(s)
              /\ \A id \in Ids(s) : t.active[id] \in ToSet(Tabs(s, id))
              /\ \A id \in DOMAIN t.left : t.active[id] # t.left[id]
  <2>1. DOMAIN t.active = Ids(s)
    BY <1>4, <1>6, <1>7, <1>10, <1>14
  <2>2. \A id \in Ids(s) : t.active[id] \in ToSet(Tabs(s, id))
    BY <1>3, <1>6, <1>7, <1>10, <1>14
  <2>3. ASSUME NEW id \in SplitIds(s) PROVE t.active[id] # s.left[id]
    <3>1. CASE id \in wrong
      BY <1>3, <1>7, <1>10, <3>1
    <3>2. CASE id \notin wrong
      <4>1. Contains(right(id), ActiveTab(s, id)) /\ id \in DOMAIN s.active
        BY <1>4, <1>8, <1>14, <3>2
      <4>2. ActiveTab(s, id) = s.active[id]
        BY <4>1 DEF ActiveTab
      <4>3. s.active[id] \in ToSet(right(id))
        BY <1>3, <4>1, <4>2, Elements
      <4> QED
        BY <1>3, <1>7, <1>10, <3>2, <4>1, <4>3
    <3> QED
      BY <3>1, <3>2
  <2> QED
    BY <1>5, <1>10, <2>1, <2>2, <2>3
<1>15. /\ DOMAIN t.left \subseteq Ids(s)
       /\ \A id \in DOMAIN t.left : t.left[id] \in ToSet(Tabs(s, id))
  BY <1>3, <1>4, <1>5, <1>10
<1>16. \A id \in DOMAIN t.left : id \in DOMAIN s.left /\ t.left[id] = s.left[id]
  BY <1>3, <1>5, <1>10
<1>17. ASSUME NEW id \in DOMAIN s.active, s.active[id] \in ToSet(Tabs(s, id)),
              id \in DOMAIN s.left => s.left[id] # s.active[id]
       PROVE  id \in DOMAIN t.active /\ t.active[id] = s.active[id]
  <2>1. ASSUME id \in wrong PROVE FALSE
    <3>1. id \in SplitIds(s) /\ ~Contains(right(id), ActiveTab(s, id))
      BY <1>6, <1>8, <2>1
    <3>2. ActiveTab(s, id) = s.active[id]
      BY <1>17 DEF ActiveTab
    <3>3. right(id) \in Seq(Windows) /\ s.active[id] \in ToSet(right(id))
      BY <1>3, <1>17, <3>1
    <3> QED
      BY <3>1, <3>2, <3>3, Elements
  <2> QED
    BY <1>7, <1>10, <1>17, <2>1
<1> QED
  BY <1>10, <1>13, <1>14, <1>15, <1>16, <1>17 DEF t

\* A window leaves its group, which may go with it.
LEMMA TakeOutKeeps ==
  ASSUME NEW s, Shape(s), NEW w \in AllWindows(s)
  PROVE  LET t  == TakeOut(s, w)
             id == GroupOf(s, w)
         IN  /\ Keeps(s, t)
             /\ t.pinned = s.pinned /\ t.next_group_seq = s.next_group_seq
             /\ \A other \in Ids(s) \ {id} : other \in Ids(t) /\ Tabs(t, other) = Tabs(s, other)
             /\ Ids(t) \subseteq Ids(s)
             /\ Rest(Tabs(s, id), w) # <<>> =>
                  /\ DOMAIN t.groups = DOMAIN s.groups
                  /\ \A i \in DOMAIN s.groups : t.groups[i].id = s.groups[i].id
<1> DEFINE t == TakeOut(s, w)
           id == GroupOf(s, w)
           rest == Rest(Tabs(s, id), w)
           cut == SetTabs(s, id, rest)
           then == IF id \in DOMAIN s.active /\ Contains(rest, s.active[id])
                   THEN s.active[id] ELSE rest[1]
<1>1. Listing(s.groups)
  BY DEF Shape
<1>2. id \in Ids(s) /\ Tabs(s, id) \in Seq(Windows) /\ IsInjective(Tabs(s, id))
  BY <1>1, GroupOfFinds, ListingFacts
<1>3. t = IF rest = <<>> THEN DropGroup(s, id) ELSE SetActive(cut, id, then)
  BY DEF TakeOut
<1> HIDE DEF t, id
<1>4. /\ rest \in Seq(Windows) /\ IsInjective(rest)
      /\ rest # <<>> => rest[1] \in Windows
      /\ \A pinned : Led(pinned, Tabs(s, id)) => Led(pinned, rest)
  BY <1>2, RestIs
<1> HIDE DEF rest
<1>5. CASE rest = <<>>
  <2>1. t = DropGroup(s, id)
    BY <1>3, <1>5
  <2>2. /\ Keeps(s, t) /\ Ids(t) = Ids(s) \ {id}
        /\ t.pinned = s.pinned /\ t.next_group_seq = s.next_group_seq
        /\ \A other \in Ids(s) \ {id} : Tabs(t, other) = Tabs(s, other)
    BY <2>1, DropGroupKeeps
  <2> QED
    BY <1>5, <2>2 DEF t, id, rest
<1>6. CASE rest # <<>>
  <2>1. t = SetActive(cut, id, then)
    BY <1>3, <1>6
  <2>2. /\ Shape(cut) /\ Ids(cut) = Ids(s)
        /\ cut.active = s.active /\ cut.pinned = s.pinned
        /\ cut.next_group_seq = s.next_group_seq
        /\ DOMAIN cut.groups = DOMAIN s.groups
        /\ \A i \in DOMAIN s.groups :
             cut.groups[i] = IF s.groups[i].id = id THEN [id |-> id, windows |-> rest]
                             ELSE s.groups[i]
        /\ \A other \in Ids(s) : Tabs(cut, other) = IF other = id THEN rest ELSE Tabs(s, other)
        /\ Led(s.pinned, rest) /\ PinnedLead(s) => PinnedLead(cut)
    BY <1>2, <1>4, SetTabsKeeps
  <2>3. PinnedLead(s) => Led(s.pinned, rest)
    <3>1. PICK i \in DOMAIN s.groups : Tabs(s, id) = s.groups[i].windows
      BY <1>1, <1>2, ListingFacts
    <3> QED
      BY <1>4, <3>1 DEF PinnedLead
  <2>4. then \in Windows
    BY <1>4, <1>6 DEF Shape
  <2> HIDE DEF cut, then
  <2>5. /\ Shape(t) /\ t.groups = cut.groups /\ t.pinned = cut.pinned
        /\ t.next_group_seq = cut.next_group_seq
    BY <2>1, <2>2, <2>4, SetActiveKeeps
  <2>6. /\ Ids(t) = Ids(cut) /\ (PinnedLead(t) <=> PinnedLead(cut))
        /\ \A other : Tabs(t, other) = Tabs(cut, other)
    BY <2>5, SameGroups
  <2>7. \A i \in DOMAIN s.groups : t.groups[i].id = s.groups[i].id
    BY <2>2, <2>5
  <2>8. Keeps(s, t)
    BY <2>2, <2>3, <2>5, <2>6 DEF Keeps
  <2> QED
    BY <2>2, <2>5, <2>6, <2>7, <2>8 DEF t, id
<1> QED
  BY <1>5, <1>6

-----------------------------------------------------------------------------
(* What the mutations keep.                                                *)

LEMMA TabsLed ==
  ASSUME NEW s, Shape(s), PinnedLead(s), NEW id \in Ids(s)
  PROVE  Led(s.pinned, Tabs(s, id))
<1>1. PICK i \in DOMAIN s.groups : s.groups[i].id = id
  BY Members DEF Shape
<1>2. Tabs(s, id) = s.groups[i].windows
  BY <1>1, ListingFacts DEF Shape
<1> QED
  BY <1>2 DEF PinnedLead

\* A list of groups is one that holds no group twice, nor two with one id.
LEMMA ListingBySet ==
  ASSUME NEW q \in Seq(GroupRecord)
  PROVE  Listing(q) <=>
           /\ IsInjective(q)
           /\ \A g, h \in ToSet(q) : g.id = h.id => g = h
           /\ \A g \in ToSet(q) : IsInjective(g.windows)
<1>1. \A i \in DOMAIN q : q[i] \in ToSet(q)
  BY DEF ToSet
<1>2. \A g \in ToSet(q) : \E i \in DOMAIN q : q[i] = g
  BY DEF ToSet
<1>3. ASSUME Listing(q)
      PROVE  /\ IsInjective(q)
             /\ \A g, h \in ToSet(q) : g.id = h.id => g = h
             /\ \A g \in ToSet(q) : IsInjective(g.windows)
  <2>1. IsInjective(q)
    BY <1>3 DEF Listing, IsInjective
  <2>2. \A g, h \in ToSet(q) : g.id = h.id => g = h
    BY <1>2, <1>3 DEF Listing
  <2>3. \A g \in ToSet(q) : IsInjective(g.windows)
    BY <1>2, <1>3 DEF Listing
  <2> QED
    BY <2>1, <2>2, <2>3
<1>4. ASSUME IsInjective(q), \A g, h \in ToSet(q) : g.id = h.id => g = h,
             \A g \in ToSet(q) : IsInjective(g.windows)
      PROVE  Listing(q)
  <2>1. ASSUME NEW i \in DOMAIN q, NEW j \in DOMAIN q, q[i].id = q[j].id PROVE i = j
    <3>1. q[i] = q[j]
      BY <1>1, <1>4, <2>1
    <3> QED
      BY <1>4, <3>1 DEF IsInjective
  <2>2. \A i \in DOMAIN q : IsInjective(q[i].windows)
    BY <1>1, <1>4
  <2> QED
    BY <2>1, <2>2 DEF Listing
<1> QED
  BY <1>3, <1>4

\* Led goes by the members of a list.
LEMMA LedBySet ==
  ASSUME NEW s, Listing(s.groups)
  PROVE  PinnedLead(s) <=> \A g \in ToSet(s.groups) : Led(s.pinned, g.windows)
BY DEF PinnedLead, ToSet

\* The tab that is asked for, and the one that is shown, are tabs.
LEMMA VisibleIsATab ==
  ASSUME NEW s, Shape(s), NEW id \in Ids(s), NEW w \in Windows
  PROVE  /\ Normalized(s, id, w) \in Windows
         /\ w \in ToSet(Tabs(s, id)) => Normalized(s, id, w) \in ToSet(Tabs(s, id))
         /\ Tabs(s, id) # <<>> => Visible(s, id) \in Windows
         /\ Tabs(s, id) # <<>> /\ (id \in DOMAIN s.active => s.active[id] \in ToSet(Tabs(s, id)))
            => Visible(s, id) \in ToSet(Tabs(s, id))
<1>1. Tabs(s, id) \in Seq(Windows)
  BY ListingFacts DEF Shape
<1>2. ASSUME NEW v \in Windows
      PROVE  /\ Normalized(s, id, v) \in Windows
             /\ v \in ToSet(Tabs(s, id)) => Normalized(s, id, v) \in ToSet(Tabs(s, id))
  BY <1>1, RestIs DEF Normalized
<1>3. ASSUME Tabs(s, id) # <<>>
      PROVE  /\ ActiveTab(s, id) \in Windows
             /\ (id \in DOMAIN s.active => s.active[id] \in ToSet(Tabs(s, id)))
                => ActiveTab(s, id) \in ToSet(Tabs(s, id))
  <2>1. Tabs(s, id)[1] \in Windows /\ Tabs(s, id)[1] \in ToSet(Tabs(s, id))
    BY <1>1, <1>3, Elements
  <2> QED
    BY <2>1 DEF ActiveTab, Shape
<1> QED
  BY <1>2, <1>3 DEF Visible

LEMMA SelectTabKeeps ==
  ASSUME NEW s, Shape(s), NEW id \in Ids(s), NEW w
  PROVE  LET t == SelectTab(s, id, w)
         IN  Keeps(s, t) /\ t.groups = s.groups /\ t.pinned = s.pinned
<1>1. Tabs(s, id) \in Seq(Windows) /\ ToSet(Tabs(s, id)) \subseteq Windows
  BY ListingFacts DEF Shape
<1>2. CASE Contains(Tabs(s, id), w)
  <2>1. w \in Windows
    BY <1>1, <1>2, Elements
  <2>2. Normalized(s, id, w) \in Windows
    BY <2>1, VisibleIsATab
  <2> DEFINE t == SetActive(s, id, Normalized(s, id, w))
  <2>3. Shape(t) /\ t.groups = s.groups /\ t.pinned = s.pinned
    BY <2>2, SetActiveKeeps
  <2>4. SelectTab(s, id, w) = t
    BY <1>2 DEF SelectTab
  <2> HIDE DEF t
  <2> QED
    BY <2>3, <2>4, SameGroups DEF Keeps
<1>3. CASE ~Contains(Tabs(s, id), w)
  BY <1>3 DEF SelectTab, Keeps
<1> QED
  BY <1>2, <1>3

LEMMA MoveWindowToGroupKeeps ==
  ASSUME NEW s, Shape(s), NEW w \in AllWindows(s), NEW target \in Ids(s), NEW index \in Nat
  PROVE  Keeps(s, MoveWindowToGroup(s, w, target, index))
<1> DEFINE tabs == InsertIntoGroup(s.pinned, Tabs(s, target), w, index)
           out  == TakeOut(s, w)
           put  == SetTabs(out, target, tabs)
           whole == WithoutSplit(put, target)
           shown == SetActive(whole, target, w)
<1>1. Listing(s.groups) /\ w \in Windows
  BY GroupOfFinds DEF Shape
<1>2. Tabs(s, target) \in Seq(Windows) /\ IsInjective(Tabs(s, target))
  BY <1>1, ListingFacts
<1>3. /\ tabs \in Seq(Windows) /\ IsInjective(tabs)
      /\ Led(s.pinned, Tabs(s, target)) => Led(s.pinned, tabs)
  BY <1>1, <1>2, InsertIntoGroupGives
<1>4. PinnedLead(s) => Led(s.pinned, tabs)
  BY <1>3, TabsLed
<1>5. MoveWindowToGroup(s, w, target, index)
        = IF GroupOf(s, w) = target THEN SetTabs(s, target, tabs) ELSE ValidSplits(shown)
  BY DEF MoveWindowToGroup
<1> HIDE DEF tabs
<1>6. CASE GroupOf(s, w) = target
  BY <1>3, <1>4, <1>5, <1>6, SetTabsShape DEF Keeps
<1>7. CASE GroupOf(s, w) # target
  <2>1. Keeps(s, out) /\ out.pinned = s.pinned /\ target \in Ids(out)
    BY <1>7, TakeOutKeeps
  <2> HIDE DEF out
  <2>2. Shape(out)
    BY <2>1 DEF Keeps
  <2>3. /\ Shape(put) /\ put.pinned = out.pinned
        /\ Led(out.pinned, tabs) /\ PinnedLead(out) => PinnedLead(put)
    BY <1>3, <2>1, <2>2, SetTabsShape
  <2> HIDE DEF put
  <2>4. Shape(whole) /\ whole.groups = put.groups /\ whole.pinned = put.pinned
    BY <2>3, WithoutSplitKeeps
  <2> HIDE DEF whole
  <2>5. Shape(shown) /\ shown.groups = whole.groups /\ shown.pinned = whole.pinned
    BY <1>1, <2>4, SetActiveKeeps
  <2> HIDE DEF shown
  <2>6. Keeps(shown, ValidSplits(shown))
    BY <2>5, ValidSplitsGives
  <2>7. PinnedLead(shown) <=> PinnedLead(put)
    BY <2>4, <2>5, SameGroups
  <2>8. PinnedLead(s) => PinnedLead(shown)
    BY <1>4, <2>1, <2>3, <2>7 DEF Keeps
  <2> QED
    BY <1>5, <1>7, <2>6, <2>8 DEF Keeps
<1> QED
  BY <1>6, <1>7

LEMMA MoveGroupToGroupKeeps ==
  ASSUME NEW s, Shape(s), NEW source \in Ids(s), NEW target \in Ids(s), NEW index \in Nat,
         Tabs(s, source) # <<>>
  PROVE  Keeps(s, MoveGroupToGroup(s, source, target, index))
<1> DEFINE tabs     == Tabs(s, target)
           pinned   == Kept(Tabs(s, source), s.pinned)
           unpinned == Kept(Tabs(s, source), Windows \ s.pinned)
           at       == Min({index, Len(tabs)})
           first    == Min({at, LeadingPinned(s.pinned, tabs)})
           led      == InsertAll(s.pinned, tabs, pinned, first)
           behind   == Max({at + Len(pinned), LeadingPinned(s.pinned, led)})
           all      == InsertAll(s.pinned, led, unpinned, behind)
           put      == SetTabs(s, target, all)
           merged   == DropGroup(put, source)
           whole    == WithoutSplit(merged, target)
           shown    == SetActive(whole, target, Visible(s, source))
<1>1. MoveGroupToGroup(s, source, target, index)
        = IF source = target THEN s ELSE ValidSplits(shown)
  BY DEF MoveGroupToGroup
<1>2. /\ tabs \in Seq(Windows) /\ IsInjective(tabs)
      /\ Tabs(s, source) \in Seq(Windows)
  BY ListingFacts DEF Shape
<1>3. pinned \in Seq(Windows) /\ unpinned \in Seq(Windows)
  BY <1>2, KeptSet
<1>4. PinnedLead(s) => Led(s.pinned, tabs)
  BY TabsLed
<1> HIDE DEF tabs, pinned, unpinned
<1>5. Len(tabs) \in Nat /\ Len(pinned) \in Nat /\ LeadingPinned(s.pinned, tabs) \in Nat
  BY <1>2, <1>3, LeadingPinnedLeads
<1>6. at \in Nat
  <2>1. index \in Int /\ Len(tabs) \in Int
    BY <1>5
  <2>2. at \in {index, Len(tabs)}
    BY <2>1, MinOfTwo
  <2> QED
    BY <1>5, <2>2
<1> HIDE DEF at
<1>7. first \in Nat
  <2>1. at \in Int /\ LeadingPinned(s.pinned, tabs) \in Int
    BY <1>5, <1>6
  <2>2. first \in {at, LeadingPinned(s.pinned, tabs)}
    BY <2>1, MinOfTwo
  <2> QED
    BY <1>5, <1>6, <2>2
<1> HIDE DEF first
<1>8. /\ led \in Seq(Windows) /\ IsInjective(led)
      /\ Led(s.pinned, tabs) => Led(s.pinned, led)
  BY <1>2, <1>3, <1>7, InsertAllGives
<1> HIDE DEF led
<1>9. behind \in Nat
  <2>1. LeadingPinned(s.pinned, led) \in Nat
    BY <1>8, LeadingPinnedLeads
  <2>2. at + Len(pinned) \in Int /\ LeadingPinned(s.pinned, led) \in Int /\ at + Len(pinned) \in Nat
    BY <1>5, <1>6, <2>1
  <2>3. behind \in {at + Len(pinned), LeadingPinned(s.pinned, led)}
    BY <2>2, MinOfTwo
  <2> QED
    BY <2>1, <2>2, <2>3
<1> HIDE DEF behind
<1>10. /\ all \in Seq(Windows) /\ IsInjective(all)
       /\ Led(s.pinned, led) => Led(s.pinned, all)
  BY <1>3, <1>8, <1>9, InsertAllGives
<1> HIDE DEF all
<1>11. /\ Shape(put) /\ put.pinned = s.pinned
       /\ Led(s.pinned, all) /\ PinnedLead(s) => PinnedLead(put)
  BY <1>10, SetTabsShape
<1> HIDE DEF put
<1>12. Keeps(put, merged) /\ merged.pinned = put.pinned
  BY <1>11, DropGroupKeeps
<1> HIDE DEF merged
<1>13. Shape(whole) /\ whole.groups = merged.groups /\ whole.pinned = merged.pinned
  BY <1>12, WithoutSplitKeeps DEF Keeps
<1> HIDE DEF whole
<1>14. Visible(s, source) \in Windows
  <2>1. Tabs(s, source)[1] \in Windows
    BY <1>2, Elements
  <2> QED
    BY <2>1, VisibleIsATab
<1>15. Shape(shown) /\ shown.groups = whole.groups /\ shown.pinned = whole.pinned
  BY <1>13, <1>14, SetActiveKeeps
<1> HIDE DEF shown
<1>16. Keeps(shown, ValidSplits(shown))
  BY <1>15, ValidSplitsGives
<1>17. PinnedLead(shown) <=> PinnedLead(merged)
  BY <1>13, <1>15, SameGroups
<1>18. PinnedLead(s) => PinnedLead(shown)
  BY <1>4, <1>8, <1>10, <1>11, <1>12, <1>17 DEF Keeps
<1>19. Keeps(s, s)
  BY DEF Keeps
<1> QED
  BY <1>1, <1>16, <1>18, <1>19 DEF Keeps

\* A group with an id of its own joins a list.
LEMMA InsertGroup ==
  ASSUME NEW q, Listing(q), NEW g \in GroupRecord, IsInjective(g.windows),
         \A h \in ToSet(q) : h.id # g.id, NEW i \in 1 .. Len(q) + 1
  PROVE  Listing(InsertAt(q, i, g)) /\ ToSet(InsertAt(q, i, g)) = ToSet(q) \cup {g}
<1> DEFINE r == InsertAt(q, i, g)
<1>1. q \in Seq(GroupRecord)
  BY DEF Listing
<1>2. /\ IsInjective(q)
      /\ \A x, y \in ToSet(q) : x.id = y.id => x = y
      /\ \A x \in ToSet(q) : IsInjective(x.windows)
  BY <1>1, ListingBySet
<1>3. g \notin ToSet(q)
  OBVIOUS
<1>4. r \in Seq(GroupRecord) /\ ToSet(r) = ToSet(q) \cup {g} /\ IsInjective(r)
  BY <1>1, <1>2, <1>3, InsertAtGives
<1> HIDE DEF r
<1>5. \A x, y \in ToSet(r) : x.id = y.id => x = y
  BY <1>2, <1>4
<1>6. \A x \in ToSet(r) : IsInjective(x.windows)
  BY <1>2, <1>4
<1>7. Listing(r)
  BY <1>4, <1>5, <1>6, ListingBySet
<1> QED
  BY <1>4, <1>7 DEF r

LEMMA OneWindow ==
  ASSUME NEW w \in Windows, NEW id \in Nat
  PROVE  LET g == [id |-> id, windows |-> <<w>>]
         IN  /\ g \in GroupRecord /\ IsInjective(g.windows) /\ g.windows # <<>>
             /\ ToSet(g.windows) = {w} /\ \A pinned : Led(pinned, g.windows)
BY DEF GroupRecord, IsInjective, ToSet, Led

\* The state with w out of its group and in one of its own, before it is active.
Alone(s, w) == [id |-> s.next_group_seq, windows |-> <<w>>]
Detached(s, w) ==
  [TakeOut(s, w) EXCEPT !.groups = InsertAt(@, Place(s, GroupOf(s, w)) + 1, Alone(s, w)),
                        !.next_group_seq = @ + 1]

LEMMA DetachedGives ==
  ASSUME NEW s, Shape(s), NEW w \in AllWindows(s), ~(Len(Tabs(s, GroupOf(s, w))) < 2)
  PROVE  /\ Shape(Detached(s, w)) /\ Detached(s, w).pinned = s.pinned
         /\ Detached(s, w).left = TakeOut(s, w).left
         /\ ToSet(Detached(s, w).groups) = ToSet(TakeOut(s, w).groups) \cup {Alone(s, w)}
         /\ PinnedLead(s) => PinnedLead(Detached(s, w))
         /\ Shape(TakeOut(s, w)) /\ Ids(TakeOut(s, w)) \subseteq Ids(s)
<1> DEFINE id    == GroupOf(s, w)
           place == Place(s, id) + 1
           out   == TakeOut(s, w)
           g     == Alone(s, w)
           split == Detached(s, w)
           groups == InsertAt(out.groups, place, g)
<1>1. /\ Listing(s.groups) /\ id \in Ids(s) /\ w \in Windows
      /\ Tabs(s, id) \in Seq(Windows) /\ IsInjective(Tabs(s, id)) /\ w \in ToSet(Tabs(s, id))
      /\ Place(s, id) \in DOMAIN s.groups
  BY GroupOfFinds, ListingFacts DEF Shape
<1>2. Rest(Tabs(s, id), w) # <<>>
  <2>1. /\ Len(Tabs(s, id)) \in Nat /\ 1 \in DOMAIN Tabs(s, id) /\ 2 \in DOMAIN Tabs(s, id)
    BY <1>1
  <2>2. Tabs(s, id)[1] # Tabs(s, id)[2]
    BY <1>1, <2>1 DEF IsInjective
  <2>3. PICK v \in ToSet(Tabs(s, id)) : v # w
    BY <2>1, <2>2 DEF ToSet
  <2>4. v \in ToSet(Rest(Tabs(s, id), w))
    BY <1>1, <2>3, RestIs
  <2>5. ToSet(<<>>) = {}
    BY DEF ToSet
  <2> QED
    BY <2>4, <2>5
<1>3. /\ Keeps(s, out) /\ out.pinned = s.pinned /\ out.next_group_seq = s.next_group_seq
      /\ Ids(out) \subseteq Ids(s)
      /\ DOMAIN out.groups = DOMAIN s.groups
  BY <1>2, TakeOutKeeps
<1>4. split = [out EXCEPT !.groups = InsertAt(@, place, g), !.next_group_seq = @ + 1]
  BY DEF Detached
<1> HIDE DEF id, out, split
<1>5. Shape(out) /\ Listing(out.groups) /\ IsState(out)
  BY <1>3 DEF Keeps, Shape
<1>6. place \in 1 .. Len(out.groups) + 1
  <2>1. /\ DOMAIN out.groups = 1 .. Len(out.groups) /\ Len(out.groups) \in Nat
    BY <1>5, ListingFacts
  <2> QED
    BY <1>1, <1>3, <2>1
<1> HIDE DEF place
<1>7. s.next_group_seq \in Nat \ {0} /\ \A x \in Ids(s) : x < s.next_group_seq
  BY DEF Shape
<1>8. /\ g \in GroupRecord /\ IsInjective(g.windows) /\ Led(s.pinned, g.windows)
      /\ g.id = s.next_group_seq
  BY <1>1, <1>7, OneWindow DEF Alone
<1> HIDE DEF g
<1>9. \A h \in ToSet(out.groups) : h.id # g.id
  BY <1>3, <1>5, <1>7, <1>8, Members
<1>10. Listing(groups) /\ ToSet(groups) = ToSet(out.groups) \cup {g}
  BY <1>5, <1>6, <1>8, <1>9, InsertGroup
<1>11. split = [groups |-> groups, active |-> out.active, pinned |-> out.pinned,
                left |-> out.left, next_group_seq |-> out.next_group_seq + 1]
  <2>1. split = [out EXCEPT !.groups = groups, !.next_group_seq = out.next_group_seq + 1]
    BY <1>4, <1>5 DEF IsState
  <2> HIDE DEF groups
  <2> QED
    BY <1>5, <2>1 DEF IsState
<1> HIDE DEF groups
<1>12. /\ IsState(split) /\ split.groups = groups /\ split.pinned = s.pinned
       /\ split.active = out.active /\ split.next_group_seq = s.next_group_seq + 1
       /\ split.left = out.left
  BY <1>3, <1>11 DEF IsState
<1>13. Ids(split) = Ids(out) \cup {s.next_group_seq}
  BY <1>8, <1>10, <1>12 DEF Ids
<1>14. \A x \in Ids(split) : x < s.next_group_seq + 1
  <2>1. \A x \in Ids(out) : x < s.next_group_seq /\ x \in Nat
    BY <1>3, <1>5, <1>7, ListingFacts
  <2> QED
    BY <1>7, <1>13, <2>1
<1>15. Shape(split)
  BY <1>3, <1>5, <1>7, <1>10, <1>12, <1>14 DEF Shape
<1>16. PinnedLead(out) => PinnedLead(split)
  BY <1>3, <1>5, <1>8, <1>10, <1>12, LedBySet
<1> QED
  BY <1>3, <1>5, <1>10, <1>12, <1>15, <1>16 DEF Keeps, out, split, g

LEMMA SplitWindowToOwnGroupKeeps ==
  ASSUME NEW s, Shape(s), NEW w \in AllWindows(s)
  PROVE  Keeps(s, SplitWindowToOwnGroup(s, w))
<1> DEFINE split == Detached(s, w)
           shown == SetActive(split, s.next_group_seq, w)
<1>1. SplitWindowToOwnGroup(s, w)
        = IF Len(Tabs(s, GroupOf(s, w))) < 2 THEN s ELSE ValidSplits(shown)
  BY DEF SplitWindowToOwnGroup, Detached, Alone
<1>2. CASE Len(Tabs(s, GroupOf(s, w))) < 2
  BY <1>1, <1>2 DEF Keeps
<1>3. CASE ~(Len(Tabs(s, GroupOf(s, w))) < 2)
  <2>1. w \in Windows
    BY GroupOfFinds DEF Shape
  <2>2. Shape(split) /\ split.pinned = s.pinned /\ (PinnedLead(s) => PinnedLead(split))
    BY <1>3, DetachedGives
  <2> HIDE DEF split
  <2>3. Shape(shown) /\ shown.groups = split.groups /\ shown.pinned = split.pinned
    BY <2>1, <2>2, SetActiveKeeps
  <2> HIDE DEF shown
  <2>4. Keeps(shown, ValidSplits(shown))
    BY <2>3, ValidSplitsGives
  <2>5. PinnedLead(shown) <=> PinnedLead(split)
    BY <2>3, SameGroups
  <2> QED
    BY <1>1, <1>3, <2>2, <2>4, <2>5 DEF Keeps
<1> QED
  BY <1>2, <1>3

\* No window is a tab of two groups.
Apart(s) == \A g, h \in ToSet(s.groups) : g # h => ToSet(g.windows) \cap ToSet(h.windows) = {}

LEMMA SetWindowPinnedKeeps ==
  ASSUME NEW s, Shape(s), Apart(s), NEW w \in AllWindows(s), NEW pin \in BOOLEAN
  PROVE  Keeps(s, SetWindowPinned(s, w, pin))
<1> DEFINE id     == GroupOf(s, w)
           pinned == IF pin THEN s.pinned \cup {w} ELSE s.pinned \ {w}
           rest   == Rest(Tabs(s, id), w)
           lead   == LeadingPinned(pinned, rest)
           tabs   == InsertAt(rest, lead + 1, w)
           put    == SetTabs(s, id, tabs)
           t      == [put EXCEPT !.pinned = pinned]
<1>1. SetWindowPinned(s, w, pin) = IF pin = (w \in s.pinned) THEN s ELSE t
  BY DEF SetWindowPinned
<1>2. /\ Listing(s.groups) /\ id \in Ids(s) /\ w \in Windows
      /\ Tabs(s, id) \in Seq(Windows) /\ IsInjective(Tabs(s, id)) /\ w \in ToSet(Tabs(s, id))
  BY GroupOfFinds, ListingFacts DEF Shape
<1> HIDE DEF id
<1>3. /\ pinned \subseteq Windows /\ \A v : v # w => (v \in pinned <=> v \in s.pinned)
  BY <1>2 DEF Shape
<1> HIDE DEF pinned
<1>4. /\ rest \in Seq(Windows) /\ IsInjective(rest) /\ w \notin ToSet(rest)
      /\ Led(s.pinned, Tabs(s, id)) => Led(s.pinned, rest)
  BY <1>2, RestIs
<1> HIDE DEF rest
<1>5. lead \in 0 .. Len(rest) /\ Len(rest) \in Nat
  BY <1>4, LeadingPinnedLeads
<1>6. lead + 1 \in 1 .. Len(rest) + 1 /\ (lead + 1) - 1 = lead
  BY <1>5
<1>7. tabs \in Seq(Windows) /\ IsInjective(tabs)
  BY <1>2, <1>4, <1>6, InsertAtGives
<1>8. Led(s.pinned, rest) => Led(pinned, rest)
  BY <1>3, <1>4 DEF Led, ToSet
<1>9. Led(pinned, rest) => Led(pinned, tabs)
  <2> SUFFICES ASSUME Led(pinned, rest) PROVE Led(pinned, tabs)
    OBVIOUS
  <2>1. lead = LeadingPinned(pinned, rest) /\ lead <= lead
    BY <1>5
  <2> HIDE DEF lead
  <2>2. IF w \in pinned THEN (lead + 1) - 1 <= LeadingPinned(pinned, rest)
                        ELSE (lead + 1) - 1 >= LeadingPinned(pinned, rest)
    BY <1>6, <2>1
  <2> QED
    BY <1>2, <1>4, <1>6, <2>2, InsertAtLed
<1> HIDE DEF tabs, lead
<1>10. /\ Shape(put) /\ Ids(put) = Ids(s)
       /\ put.active = s.active /\ put.pinned = s.pinned /\ put.left = s.left
       /\ put.next_group_seq = s.next_group_seq
       /\ DOMAIN put.groups = DOMAIN s.groups
       /\ \A i \in DOMAIN s.groups :
            put.groups[i] = IF s.groups[i].id = id THEN [id |-> id, windows |-> tabs]
                            ELSE s.groups[i]
       /\ \A other \in Ids(s) : Tabs(put, other) = IF other = id THEN tabs ELSE Tabs(s, other)
       /\ Led(s.pinned, tabs) /\ PinnedLead(s) => PinnedLead(put)
  BY <1>2, <1>7, SetTabsKeeps
<1> HIDE DEF put
<1>11. t = [groups |-> put.groups, active |-> put.active, pinned |-> pinned,
            left |-> put.left, next_group_seq |-> put.next_group_seq]
  BY <1>10 DEF Shape, IsState
<1> HIDE DEF t
<1>12. IsState(t) /\ t.groups = put.groups /\ t.pinned = pinned /\ t.active = put.active
       /\ t.next_group_seq = put.next_group_seq
  BY <1>11 DEF IsState
<1>13. Ids(t) = Ids(put)
  BY <1>12, SameGroups
<1>14. Shape(t)
  BY <1>3, <1>10, <1>12, <1>13 DEF Shape
<1>15. ASSUME PinnedLead(s), NEW i \in DOMAIN s.groups PROVE Led(pinned, t.groups[i].windows)
  <2>1. CASE s.groups[i].id = id
    <3>1. Led(s.pinned, Tabs(s, id))
      BY <1>2, <1>15, TabsLed
    <3>2. t.groups[i].windows = tabs
      BY <1>10, <1>12, <2>1
    <3> QED
      BY <1>4, <1>8, <1>9, <3>1, <3>2
  <2>2. CASE s.groups[i].id # id
    <3>1. t.groups[i] = s.groups[i]
      BY <1>10, <1>12, <2>2
    <3>2. PICK g \in ToSet(s.groups) : g.id = id /\ g.windows = Tabs(s, id)
      BY <1>2, Members
    <3>3. s.groups[i] \in ToSet(s.groups) /\ s.groups[i] # g
      BY <2>2, <3>2 DEF ToSet
    <3>4. w \notin ToSet(s.groups[i].windows)
      BY <1>2, <3>2, <3>3 DEF Apart
    <3>5. \A j \in DOMAIN s.groups[i].windows : s.groups[i].windows[j] # w
      BY <3>4 DEF ToSet
    <3>6. Led(s.pinned, s.groups[i].windows)
      BY <1>15 DEF PinnedLead
    <3> QED
      BY <1>3, <3>1, <3>5, <3>6 DEF Led
  <2> QED
    BY <2>1, <2>2
<1>16. PinnedLead(s) => PinnedLead(t)
  BY <1>10, <1>12, <1>15 DEF PinnedLead
<1> QED
  BY <1>1, <1>14, <1>16 DEF Keeps

LEMMA EnterSplitKeeps ==
  ASSUME NEW s, Shape(s), NEW id \in Ids(s), NEW w
  PROVE  LET t == EnterSplit(s, id, w)
         IN  Keeps(s, t) /\ t.groups = s.groups /\ t.pinned = s.pinned
<1> DEFINE left  == With(s.left, id, w)
           split == [s EXCEPT !.left = left]
<1>1. EnterSplit(s, id, w) \in {s, ValidSplits(split)}
  BY DEF EnterSplit
<1> HIDE DEF left
<1>2. split = [groups |-> s.groups, active |-> s.active, pinned |-> s.pinned, left |-> left,
               next_group_seq |-> s.next_group_seq]
  BY DEF Shape, IsState
<1> HIDE DEF split
<1>3. /\ IsState(split) /\ split.groups = s.groups /\ split.active = s.active
      /\ split.pinned = s.pinned /\ split.next_group_seq = s.next_group_seq
  BY <1>2 DEF IsState
<1>4. Ids(split) = Ids(s) /\ (PinnedLead(split) <=> PinnedLead(s))
  BY <1>3, SameGroups
<1>5. Shape(split)
  BY <1>3, <1>4 DEF Shape
<1>6. /\ Keeps(split, ValidSplits(split)) /\ ValidSplits(split).groups = split.groups
      /\ ValidSplits(split).pinned = split.pinned
  BY <1>5, ValidSplitsGives
<1>7. Keeps(s, s)
  BY DEF Keeps
<1> QED
  BY <1>1, <1>3, <1>4, <1>6, <1>7 DEF Keeps

-----------------------------------------------------------------------------
(* What reconciling makes of a state.                                      *)

Full(s, live) ==
  /\ Shape(s) /\ Apart(s)
  /\ AllWindows(s) = live
  /\ \A id \in Ids(s) : Tabs(s, id) # <<>>
  /\ DOMAIN s.active = Ids(s)
  /\ \A id \in Ids(s) : s.active[id] \in ToSet(Tabs(s, id))
  /\ s.pinned \subseteq live
  /\ DOMAIN s.left \subseteq Ids(s)
  /\ \A id \in DOMAIN s.left : s.left[id] \in ToSet(Tabs(s, id)) /\ s.active[id] # s.left[id]

HoldsClaimed(q, live, kept) ==
  \A i \in DOMAIN q : \A w \in ToSet(q[i].windows) \cap live :
    (\A j \in DOMAIN q \ {i} : w \notin ToSet(q[j].windows))
    => \E g \in ToSet(kept) : g.id = q[i].id /\ w \in ToSet(g.windows)

\* The groups that stay have tabs, all of them live, none in two groups; a window
\* that one group claims stays in it.
LEMMA ClaimLiveGives ==
  ASSUME NEW q, Listing(q), NEW live
  PROVE  LET r == ClaimLive(q, live)
         IN  /\ Listing(r)
             /\ \A g \in ToSet(r) :
                  /\ g.windows # <<>> /\ ToSet(g.windows) \subseteq live
                  /\ \E h \in ToSet(q) :
                       /\ h.id = g.id
                       /\ \A pinned : Led(pinned, h.windows) => Led(pinned, g.windows)
             /\ \A g, h \in ToSet(r) : g # h => ToSet(g.windows) \cap ToSet(h.windows) = {}
             /\ HoldsClaimed(q, live, r)
<1> DEFINE S(i)    == {w \in live : \A j \in 1 .. i - 1 : ~Contains(q[j].windows, w)}
           claimed == [i \in DOMAIN q |-> [q[i] EXCEPT !.windows = Kept(@, S(i))]]
           r       == Kept(claimed, {g \in ToSet(claimed) : g.windows # <<>>})
<1>1. ClaimLive(q, live) = r
  BY DEF ClaimLive
<1>2. /\ q \in Seq(GroupRecord) /\ DOMAIN q = 1 .. Len(q) /\ Len(q) \in Nat
      /\ \A i \in DOMAIN q : q[i] \in GroupRecord
  BY DEF Listing
<1>3. ASSUME NEW i \in DOMAIN q
      PROVE  /\ claimed[i] = [id |-> q[i].id, windows |-> Kept(q[i].windows, S(i))]
             /\ q[i].id \in Nat /\ q[i].windows \in Seq(Windows) /\ IsInjective(q[i].windows)
             /\ Kept(q[i].windows, S(i)) \in Seq(Windows)
             /\ ToSet(Kept(q[i].windows, S(i))) = ToSet(q[i].windows) \cap S(i)
             /\ IsInjective(Kept(q[i].windows, S(i)))
  <2>1. /\ q[i].id \in Nat /\ q[i].windows \in Seq(Windows) /\ IsInjective(q[i].windows)
        /\ q[i] = [id |-> q[i].id, windows |-> q[i].windows]
    BY <1>2 DEF GroupRecord, Listing
  <2>2. claimed[i] = [q[i] EXCEPT !.windows = Kept(q[i].windows, S(i))]
    BY <2>1
  <2>3. /\ Kept(q[i].windows, S(i)) \in Seq(Windows)
        /\ ToSet(Kept(q[i].windows, S(i))) = ToSet(q[i].windows) \cap S(i)
        /\ IsInjective(Kept(q[i].windows, S(i)))
    BY <2>1, KeptSet
  <2> HIDE DEF claimed, S
  <2>4. claimed[i] = [id |-> q[i].id, windows |-> Kept(q[i].windows, S(i))]
    BY <2>1, <2>2
  <2> QED
    BY <2>1, <2>3, <2>4
<1>4. DOMAIN claimed = DOMAIN q
  OBVIOUS
<1>5. claimed = [i \in DOMAIN q |-> claimed[i]]
  OBVIOUS
<1>6. ASSUME NEW i \in DOMAIN q, NEW j \in DOMAIN q, i < j
      PROVE  ToSet(claimed[i].windows) \cap ToSet(claimed[j].windows) = {}
  <2>1. i \in 1 .. j - 1
    BY <1>2, <1>6
  <2>2. \A w \in S(j) : ~Contains(q[i].windows, w)
    BY <2>1
  <2>3. \A w \in S(j) : w \notin ToSet(q[i].windows)
    BY <1>3, <2>2, Elements
  <2> HIDE DEF claimed, S
  <2> QED
    <3>2. ASSUME NEW k \in DOMAIN q PROVE claimed[k].windows = Kept(q[k].windows, S(k))
      <4> DEFINE kept == Kept(q[k].windows, S(k))
      <4>1. claimed[k] = [id |-> q[k].id, windows |-> kept]
        BY <1>3
      <4> HIDE DEF kept
      <4>2. claimed[k].windows = kept
        BY <4>1
      <4> QED
        BY <4>2 DEF kept
    <3>3. \A k \in DOMAIN q :
            ToSet(Kept(q[k].windows, S(k))) = ToSet(q[k].windows) \cap S(k)
      BY <1>3
    <3> HIDE DEF claimed
    <3>4. \A k \in DOMAIN q : ToSet(claimed[k].windows) = ToSet(q[k].windows) \cap S(k)
      BY <3>2, <3>3
    <3> QED
      BY <2>3, <3>4
<1>7. \A i \in DOMAIN q : S(i) \subseteq live
  OBVIOUS
<1>14. \A i \in DOMAIN q : \A w \in live :
         (\A j \in 1 .. i - 1 : ~Contains(q[j].windows, w)) => w \in S(i)
  OBVIOUS
<1> DEFINE K(i) == Kept(q[i].windows, S(i))
<1> HIDE DEF claimed, S
<1>13. ASSUME NEW i \in DOMAIN q
       PROVE  /\ claimed[i] \in GroupRecord
              /\ claimed[i].id = q[i].id /\ claimed[i].windows = K(i)
              /\ IsInjective(claimed[i].windows)
  <2>1. /\ claimed[i] = [id |-> q[i].id, windows |-> K(i)]
        /\ q[i].id \in Nat /\ K(i) \in Seq(Windows) /\ IsInjective(K(i))
    BY <1>3
  <2> HIDE DEF K
  <2> QED
    BY <2>1 DEF GroupRecord
<1>8. claimed \in Seq(GroupRecord)
  <2>1. \A i \in DOMAIN q : claimed[i] \in GroupRecord
    BY <1>13
  <2>2. claimed \in [1 .. Len(q) -> GroupRecord]
    BY <1>2, <1>5, <2>1
  <2> QED
    BY <1>2, <2>2
<1>9. Listing(claimed)
  <2>1. \A i, j \in DOMAIN q : claimed[i].id = claimed[j].id => i = j
    BY <1>13 DEF Listing
  <2>2. \A i \in DOMAIN q : IsInjective(claimed[i].windows)
    BY <1>13
  <2> QED
    BY <1>4, <1>8, <2>1, <2>2 DEF Listing
<1>10. Listing(r) /\ ToSet(r) = {g \in ToSet(claimed) : g.windows # <<>>}
  BY <1>9, KeptListing
<1> HIDE DEF r
<1>11. ASSUME NEW g \in ToSet(r)
       PROVE  /\ g.windows # <<>> /\ ToSet(g.windows) \subseteq live
              /\ \E h \in ToSet(q) :
                   /\ h.id = g.id
                   /\ \A pinned : Led(pinned, h.windows) => Led(pinned, g.windows)
  <2>1. g.windows # <<>> /\ \E i \in DOMAIN q : g = claimed[i]
    BY <1>4, <1>10 DEF ToSet
  <2>2. PICK i \in DOMAIN q : g = claimed[i]
    BY <2>1
  <2>3. g.id = q[i].id /\ g.windows = Kept(q[i].windows, S(i))
    BY <1>13, <2>2
  <2>4. q[i] \in ToSet(q)
    BY DEF ToSet
  <2>5. ASSUME NEW pinned, Led(pinned, q[i].windows) PROVE Led(pinned, g.windows)
    <3>1. q[i].windows \in Seq(Windows)
      BY <1>3
    <3>2. Led(pinned, Kept(q[i].windows, S(i)))
      BY <2>5, <3>1, KeptLed
    <3> QED
      BY <2>3, <3>2
  <2> QED
    BY <1>3, <1>7, <2>1, <2>3, <2>4, <2>5
<1>12. ASSUME NEW g \in ToSet(r), NEW h \in ToSet(r), g # h
       PROVE  ToSet(g.windows) \cap ToSet(h.windows) = {}
  <2>1. PICK i \in DOMAIN q : g = claimed[i]
    BY <1>4, <1>10 DEF ToSet
  <2>2. PICK j \in DOMAIN q : h = claimed[j]
    BY <1>4, <1>10 DEF ToSet
  <2>3. i \in Nat /\ j \in Nat /\ (i < j \/ j < i)
    BY <1>2, <1>12, <2>1, <2>2
  <2> QED
    BY <1>6, <2>1, <2>2, <2>3
<1>15. ASSUME NEW i \in DOMAIN q, NEW w \in ToSet(q[i].windows) \cap live,
              \A j \in DOMAIN q \ {i} : w \notin ToSet(q[j].windows)
       PROVE  \E g \in ToSet(r) : g.id = q[i].id /\ w \in ToSet(g.windows)
  <2>1. \A j \in 1 .. i - 1 : j \in DOMAIN q \ {i}
    BY ONLY <1>2, i \in DOMAIN q
  <2>2. ASSUME NEW j \in 1 .. i - 1 PROVE ~Contains(q[j].windows, w)
    <3>1. q[j].windows \in Seq(Windows) /\ w \notin ToSet(q[j].windows)
      BY <1>3, <1>15, <2>1
    <3> QED
      BY <3>1, Elements
  <2>3. w \in ToSet(q[i].windows) \cap S(i)
    BY <1>14, <2>2
  <2>4. w \in ToSet(K(i))
    BY <1>3, <2>3
  <2>5. ToSet(<<>>) = {}
    BY DEF ToSet
  <2> HIDE DEF K
  <2>6. claimed[i] \in ToSet(claimed) /\ claimed[i].windows # <<>>
    BY <1>4, <1>13, <2>4, <2>5 DEF ToSet
  <2> QED
    BY <1>10, <1>13, <2>4, <2>6
<1>16. HoldsClaimed(q, live, r)
  BY <1>15 DEF HoldsClaimed
<1> QED
  BY <1>1, <1>10, <1>11, <1>12, <1>16

\* Two lists, one after the other.
LEMMA ConcatListing ==
  ASSUME NEW p, Listing(p), NEW q, Listing(q),
         \A g \in ToSet(p), h \in ToSet(q) : g.id # h.id
  PROVE  Listing(p \o q) /\ ToSet(p \o q) = ToSet(p) \cup ToSet(q)
<1> DEFINE r == p \o q
<1>1. /\ p \in Seq(GroupRecord) /\ q \in Seq(GroupRecord)
      /\ Len(p) \in Nat /\ Len(q) \in Nat
      /\ DOMAIN p = 1 .. Len(p) /\ DOMAIN q = 1 .. Len(q)
  BY DEF Listing
<1>2. /\ r \in Seq(GroupRecord) /\ DOMAIN r = 1 .. Len(p) + Len(q)
      /\ \A i \in 1 .. Len(p) : r[i] = p[i]
      /\ \A i \in Len(p) + 1 .. Len(p) + Len(q) : r[i] = q[i - Len(p)]
  BY <1>1
<1> HIDE DEF r
<1>3. \A i \in DOMAIN r : \/ i \in DOMAIN p /\ r[i] = p[i] /\ p[i] \in ToSet(p)
                          \/ /\ i - Len(p) \in DOMAIN q /\ r[i] = q[i - Len(p)]
                             /\ q[i - Len(p)] \in ToSet(q)
  <2> SUFFICES ASSUME NEW i \in DOMAIN r
               PROVE  \/ i \in DOMAIN p /\ r[i] = p[i] /\ p[i] \in ToSet(p)
                      \/ /\ i - Len(p) \in DOMAIN q /\ r[i] = q[i - Len(p)]
                         /\ q[i - Len(p)] \in ToSet(q)
    OBVIOUS
  <2>1. CASE i <= Len(p)
    BY <1>1, <1>2, <2>1 DEF ToSet
  <2>2. CASE i > Len(p)
    <3>1. i \in Len(p) + 1 .. Len(p) + Len(q) /\ i - Len(p) \in DOMAIN q
      BY <1>1, <1>2, <2>2
    <3> QED
      BY <1>2, <3>1 DEF ToSet
  <2> QED
    BY <1>1, <1>2, <2>1, <2>2
<1>4. ASSUME NEW i \in DOMAIN r, NEW j \in DOMAIN r, r[i].id = r[j].id PROVE i = j
  <2>1. i \in Int /\ j \in Int /\ Len(p) \in Int
    BY <1>1, <1>2
  <2>2. CASE i \in DOMAIN p /\ r[i] = p[i] /\ p[i] \in ToSet(p)
    <3>1. CASE j \in DOMAIN p /\ r[j] = p[j] /\ p[j] \in ToSet(p)
      BY <1>4, <2>2, <3>1 DEF Listing
    <3>2. CASE j - Len(p) \in DOMAIN q /\ r[j] = q[j - Len(p)] /\ q[j - Len(p)] \in ToSet(q)
      BY <1>4, <2>2, <3>2
    <3> QED
      BY <1>3, <3>1, <3>2
  <2>3. CASE i - Len(p) \in DOMAIN q /\ r[i] = q[i - Len(p)] /\ q[i - Len(p)] \in ToSet(q)
    <3>1. CASE j \in DOMAIN p /\ r[j] = p[j] /\ p[j] \in ToSet(p)
      BY <1>4, <2>3, <3>1
    <3>2. CASE j - Len(p) \in DOMAIN q /\ r[j] = q[j - Len(p)] /\ q[j - Len(p)] \in ToSet(q)
      <4>1. i - Len(p) = j - Len(p)
        BY <1>4, <2>3, <3>2 DEF Listing
      <4> QED
        BY <2>1, <4>1
    <3> QED
      BY <1>3, <3>1, <3>2
  <2> QED
    BY <1>3, <2>2, <2>3
<1>5. \A i \in DOMAIN r : IsInjective(r[i].windows)
  BY <1>3 DEF Listing
<1>6. ToSet(r) \subseteq ToSet(p) \cup ToSet(q)
  BY <1>3 DEF ToSet
<1>7. ASSUME NEW g \in ToSet(p) PROVE g \in ToSet(r)
  <2>1. PICK i \in 1 .. Len(p) : g = p[i]
    BY <1>1 DEF ToSet
  <2>2. i \in DOMAIN r /\ r[i] = g
    BY <1>1, <1>2, <2>1
  <2> QED
    BY <2>2 DEF ToSet
<1>8. ASSUME NEW g \in ToSet(q) PROVE g \in ToSet(r)
  <2>1. PICK i \in 1 .. Len(q) : g = q[i]
    BY <1>1 DEF ToSet
  <2>2. i + Len(p) \in Len(p) + 1 .. Len(p) + Len(q) /\ (i + Len(p)) - Len(p) = i
    BY <1>1
  <2>3. i + Len(p) \in DOMAIN r
    BY <1>1, <1>2, <2>2
  <2>4. r[i + Len(p)] = q[(i + Len(p)) - Len(p)]
    BY <1>2, <2>2
  <2>5. r[i + Len(p)] = g
    BY <2>1, <2>2, <2>4
  <2> QED
    BY <2>3, <2>5 DEF ToSet
<1>9. Listing(r)
  BY <1>2, <1>4, <1>5 DEF Listing
<1> QED
  BY <1>6, <1>7, <1>8, <1>9 DEF r

\* New windows get a group each, with ids of their own.
LEMMA GroupsOfOneGives ==
  ASSUME NEW S \in SUBSET Windows, IsFiniteSet(S), NEW seq \in Nat
  PROVE  LET r == GroupsOfOne(Sorted(S), seq)
         IN  /\ Len(Sorted(S)) = Cardinality(S) /\ Cardinality(S) \in Nat
             /\ Listing(r)
             /\ \A g \in ToSet(r) : /\ seq <= g.id /\ g.id < seq + Cardinality(S)
                                    /\ \E w \in S : g.windows = <<w>>
             /\ \A w \in S : \E g \in ToSet(r) : g.windows = <<w>>
             /\ \A g, h \in ToSet(r) : g # h => g.windows # h.windows
<1> DEFINE N == Cardinality(S)
           f == Sorted(S)
           r == GroupsOfOne(f, seq)
<1>1. S \in SUBSET Nat
  BY WorkspaceAssumption
<1>2. /\ N \in Nat /\ f \in [1 .. N -> S]
      /\ \A w \in S : \E i \in 1 .. N : f[i] = w
      /\ \A i, j \in 1 .. N : i < j => f[i] < f[j]
  BY <1>1, SortedSorts
<1> HIDE DEF N, f
<1>3. /\ Len(f) = N /\ DOMAIN f = 1 .. N /\ \A i \in 1 .. N : f[i] \in S
  BY <1>2
<1>4. /\ DOMAIN r = 1 .. N
      /\ \A i \in 1 .. N : r[i] = [id |-> seq + i - 1, windows |-> <<f[i]>>]
      /\ r = [i \in 1 .. N |-> [id |-> seq + i - 1, windows |-> <<f[i]>>]]
  BY <1>3 DEF GroupsOfOne
<1> HIDE DEF r
<1>5. ASSUME NEW i \in 1 .. N
      PROVE  /\ r[i].id = seq + i - 1 /\ r[i].windows = <<f[i]>>
             /\ r[i] \in GroupRecord /\ IsInjective(r[i].windows)
             /\ seq <= r[i].id /\ r[i].id < seq + N
  <2>1. f[i] \in Windows /\ seq + i - 1 \in Nat
    BY <1>2, <1>3
  <2> DEFINE g == [id |-> seq + i - 1, windows |-> <<f[i]>>]
  <2>2. g \in GroupRecord /\ IsInjective(g.windows)
    BY <2>1, OneWindow
  <2>3. r[i] = g /\ g.id = seq + i - 1 /\ g.windows = <<f[i]>>
    BY <1>4
  <2>4. seq <= seq + i - 1 /\ seq + i - 1 < seq + N
    BY <1>2
  <2> HIDE DEF g
  <2> QED
    BY <2>2, <2>3, <2>4
<1>6. r \in Seq(GroupRecord)
  <2>1. r \in [1 .. N -> GroupRecord]
    BY <1>4, <1>5
  <2> QED
    BY <1>2, <2>1
<1>7. \A i, j \in 1 .. N : r[i].id = r[j].id => i = j
  BY <1>2, <1>5
<1>8. Listing(r)
  BY <1>4, <1>5, <1>6, <1>7 DEF Listing
<1>9. \A g \in ToSet(r) : \E i \in 1 .. N : g = r[i]
  BY <1>4 DEF ToSet
<1>10. \A g \in ToSet(r) : /\ seq <= g.id /\ g.id < seq + N
                           /\ \E w \in S : g.windows = <<w>>
  BY <1>3, <1>5, <1>9
<1>11. ASSUME NEW w \in S PROVE \E g \in ToSet(r) : g.windows = <<w>>
  <2>1. PICK i \in 1 .. N : f[i] = w
    BY <1>2
  <2>2. r[i] \in ToSet(r)
    BY <1>4 DEF ToSet
  <2> QED
    BY <1>5, <2>1, <2>2
<1>12. ASSUME NEW g \in ToSet(r), NEW h \in ToSet(r), g.windows = h.windows PROVE g = h
  <2>1. PICK i \in 1 .. N : g = r[i]
    BY <1>9
  <2>2. PICK j \in 1 .. N : h = r[j]
    BY <1>9
  <2>3. f[i] = f[j]
    BY <1>5, <1>12, <2>1, <2>2
  <2>4. f[i] \in S /\ f[j] \in S /\ i \in Nat /\ j \in Nat
    BY <1>2, <1>3, <2>1, <2>2
  <2>5. ~(i < j) /\ ~(j < i)
    <3>1. f[i] \in Nat /\ f[j] \in Nat
      BY <1>1, <2>4
    <3> QED
      BY <1>2, <2>1, <2>2, <2>3, <3>1
  <2> QED
    BY <2>1, <2>2, <2>4, <2>5
<1> QED
  BY <1>2, <1>3, <1>8, <1>10, <1>11, <1>12 DEF r, N, f

\* reconcile_workspace_state: exactly the live windows are tabs, each once, and
\* every group has an active tab and a split that is one.
LEMMA ReconcileMakes ==
  ASSUME NEW s, Shape(s), NEW live \in SUBSET Windows, IsFiniteSet(live)
  PROVE  \E u : /\ Reconcile(s, live) = ValidSplits(u)
                /\ Shape(u) /\ Apart(u) /\ AllWindows(u) = live
                /\ \A id \in Ids(u) : Tabs(u, id) # <<>>
                /\ DOMAIN u.active = Ids(u)
                /\ \A id \in Ids(u) : u.active[id] \in ToSet(Tabs(u, id))
                /\ u.pinned \subseteq live /\ u.left = s.left
                /\ PinnedLead(s) => PinnedLead(u)
                /\ ToSet(ClaimLive(s.groups, live)) \subseteq ToSet(u.groups)
                /\ \A id \in Ids(u) \cap DOMAIN s.active :
                     s.active[id] \in ToSet(Tabs(u, id)) => u.active[id] = s.active[id]
<1> DEFINE kept   == ClaimLive(s.groups, live)
           M      == live \ TabsOf(kept)
           fresh  == Sorted(M)
           ones   == GroupsOfOne(fresh, s.next_group_seq)
           groups == kept \o ones
           next   == [s EXCEPT !.groups = groups, !.pinned = @ \cap live,
                               !.next_group_seq = @ + Len(fresh)]
           active == [id \in Ids(next) |-> StillActive(s.active, Group(next, id))]
           u      == [next EXCEPT !.active = active]
<1>1. Reconcile(s, live) = ValidSplits(u)
  BY DEF Reconcile
<1>2. /\ IsState(s) /\ Listing(s.groups) /\ s.next_group_seq \in Nat \ {0}
      /\ \A id \in Ids(s) : id < s.next_group_seq /\ id \in Nat
      /\ s.pinned \subseteq Windows
  BY ListingFacts DEF Shape
<1> DEFINE seq == s.next_group_seq
           size == Cardinality(M)
<1>3. /\ Listing(kept)
      /\ \A g \in ToSet(kept) :
           /\ g.windows # <<>> /\ ToSet(g.windows) \subseteq live
           /\ \E h \in ToSet(s.groups) :
                /\ h.id = g.id
                /\ \A pinned : Led(pinned, h.windows) => Led(pinned, g.windows)
      /\ \A g, h \in ToSet(kept) : g # h => ToSet(g.windows) \cap ToSet(h.windows) = {}
  <2>1. Listing(s.groups)
    BY <1>2
  <2>2. /\ Listing(kept)
        /\ \A g \in ToSet(kept) :
             /\ g.windows # <<>> /\ ToSet(g.windows) \subseteq live
             /\ \E h \in ToSet(s.groups) :
                  /\ h.id = g.id
                  /\ \A pinned : Led(pinned, h.windows) => Led(pinned, g.windows)
        /\ \A g, h \in ToSet(kept) : g # h => ToSet(g.windows) \cap ToSet(h.windows) = {}
        /\ HoldsClaimed(s.groups, live, kept)
    BY ONLY <2>1, ClaimLiveGives
  <2> QED
    BY <2>2
<1>4. M \in SUBSET Windows /\ IsFiniteSet(M)
  BY FS_Subset
<1>5. /\ Len(fresh) = size /\ size \in Nat
      /\ Listing(ones)
      /\ \A g \in ToSet(ones) : /\ seq <= g.id /\ g.id < seq + size
                                /\ \E w \in M : g.windows = <<w>>
      /\ \A w \in M : \E g \in ToSet(ones) : g.windows = <<w>>
      /\ \A g, h \in ToSet(ones) : g # h => g.windows # h.windows
  <2>1. seq \in Nat
    BY <1>2
  <2> QED
    BY <1>4, <2>1, GroupsOfOneGives
<1>m. M = live \ TabsOf(kept)
  OBVIOUS
<1>n. next = [groups |-> groups, active |-> s.active, pinned |-> s.pinned \cap live,
              left |-> s.left, next_group_seq |-> seq + size]
  <2>1. next = [s EXCEPT !.groups = groups, !.pinned = s.pinned \cap live,
                         !.next_group_seq = seq + size]
    BY <1>2, <1>5 DEF IsState
  <2> HIDE DEF next, groups, size
  <2> QED
    BY <1>2, <2>1 DEF IsState
<1> HIDE DEF kept, M, fresh, ones, next, size
<1>6. ASSUME NEW g \in ToSet(kept) PROVE g.id \in Ids(s) /\ g.id < seq /\ g.id \in Nat
  <2>1. PICK h \in ToSet(s.groups) : h.id = g.id
    BY <1>3
  <2> QED
    BY <1>2, <2>1, Members
<1>7. ASSUME NEW g \in ToSet(ones)
      PROVE  \E w \in M : g.windows = <<w>> /\ ToSet(g.windows) = {w} /\ g.windows # <<>>
  <2>1. PICK w \in M : g.windows = <<w>>
    BY <1>5
  <2>2. ToSet(<<w>>) = {w} /\ <<w>> # <<>>
    BY DEF ToSet
  <2> QED
    BY <2>1, <2>2
<1>8. Listing(groups) /\ ToSet(groups) = ToSet(kept) \cup ToSet(ones)
  <2>1. ASSUME NEW g \in ToSet(kept), NEW h \in ToSet(ones) PROVE g.id # h.id
    <3>1. h \in GroupRecord
      BY <1>5, Elements DEF Listing
    <3>2. h.id \in Nat /\ seq <= h.id
      BY <1>5, <3>1 DEF GroupRecord
    <3> QED
      BY <1>2, <1>6, <3>2
  <2> QED
    BY <1>3, <1>5, <2>1, ConcatListing
<1> HIDE DEF groups
<1>9. /\ IsState(next) /\ next.groups = groups /\ next.active = s.active
      /\ next.pinned = s.pinned \cap live /\ next.left = s.left
      /\ next.next_group_seq = seq + size
  BY <1>n DEF IsState
<1>10. \A g \in ToSet(groups) : g.windows # <<>> /\ ToSet(g.windows) \subseteq live
  BY <1>3, <1>7, <1>8, <1>m
<1>11. ASSUME NEW g \in ToSet(groups), NEW h \in ToSet(groups), g # h
       PROVE  ToSet(g.windows) \cap ToSet(h.windows) = {}
  <2>1. \A x \in ToSet(kept), y \in ToSet(ones) : ToSet(x.windows) \cap ToSet(y.windows) = {}
    <3> SUFFICES ASSUME NEW x \in ToSet(kept), NEW y \in ToSet(ones)
                 PROVE  ToSet(x.windows) \cap ToSet(y.windows) = {}
      OBVIOUS
    <3>1. PICK w \in M : ToSet(y.windows) = {w}
      BY <1>7
    <3>2. w \notin ToSet(x.windows)
      BY <1>m DEF TabsOf
    <3> QED
      BY <3>1, <3>2
  <2>2. CASE g \in ToSet(kept) /\ h \in ToSet(kept)
    BY <1>3, <1>11, <2>2
  <2>3. CASE g \in ToSet(ones) /\ h \in ToSet(ones)
    <3>1. PICK w \in M : g.windows = <<w>> /\ ToSet(g.windows) = {w}
      BY <1>7, <2>3
    <3>2. PICK v \in M : h.windows = <<v>> /\ ToSet(h.windows) = {v}
      BY <1>7, <2>3
    <3>3. w # v
      BY <1>5, <1>11, <2>3, <3>1, <3>2
    <3> QED
      BY <3>1, <3>2, <3>3
  <2> QED
    BY <1>8, <2>1, <2>2, <2>3
<1>12. AllWindows(next) = live
  <2>1. AllWindows(next) = UNION {ToSet(g.windows) : g \in ToSet(groups)}
    BY <1>9 DEF AllWindows, TabsOf
  <2>2. ASSUME NEW w \in live PROVE w \in AllWindows(next)
    <3>1. CASE w \in M
      <4>1. PICK g \in ToSet(ones) : g.windows = <<w>>
        BY <1>5, <3>1
      <4>2. w \in ToSet(g.windows)
        BY <4>1 DEF ToSet
      <4> QED
        BY <1>8, <2>1, <4>2
    <3>2. CASE w \in TabsOf(kept)
      BY <1>8, <2>1, <3>2 DEF TabsOf
    <3> QED
      BY <1>m, <3>1, <3>2
  <2> QED
    BY <1>10, <2>1, <2>2
<1>13. \A id \in Ids(next) : id < seq + size
  <2>1. \A g \in ToSet(groups) : g.id < seq + size
    BY <1>2, <1>5, <1>6, <1>8
  <2> QED
    BY <1>9, <2>1 DEF Ids
<1>14. ASSUME NEW id \in Ids(next)
       PROVE  /\ Tabs(next, id) # <<>>
              /\ active[id] \in ToSet(Tabs(next, id)) /\ active[id] \in Windows
              /\ id \in DOMAIN s.active /\ s.active[id] \in ToSet(Tabs(next, id))
                 => active[id] = s.active[id]
  <2>1. PICK g \in ToSet(groups) : g.id = id /\ g.windows = Tabs(next, id)
    BY <1>8, <1>9, Members
  <2>2. Tabs(next, id) \in Seq(Windows) /\ ToSet(Tabs(next, id)) \subseteq Windows
    BY <1>8, <1>9, ListingFacts
  <2>3. Tabs(next, id) # <<>>
    BY <1>10, <2>1
  <2>4. Group(next, id).windows = Tabs(next, id)
    BY DEF Tabs
  <2>5. active[id] = StillActive(s.active, Group(next, id))
    OBVIOUS
  <2>6. StillActive(s.active, Group(next, id)) \in ToSet(Tabs(next, id))
    BY <2>2, <2>3, <2>4, Elements DEF StillActive
  <2>7. Group(next, id).id = id
    BY <1>8, <1>9, ListingFacts DEF Group
  <2>8. ASSUME id \in DOMAIN s.active, s.active[id] \in ToSet(Tabs(next, id))
        PROVE  active[id] = s.active[id]
    <3>1. Contains(Tabs(next, id), s.active[id])
      BY <2>2, <2>8, Elements
    <3> QED
      BY <2>4, <2>5, <2>7, <2>8, <3>1 DEF StillActive
  <2> QED
    BY <2>2, <2>3, <2>5, <2>6, <2>8
<1>15. DOMAIN active = Ids(next)
  OBVIOUS
<1> HIDE DEF active
<1>16. u = [groups |-> groups, active |-> active, pinned |-> s.pinned \cap live,
            left |-> s.left, next_group_seq |-> seq + size]
  BY <1>n
<1> HIDE DEF u
<1>17. /\ IsState(u) /\ u.groups = groups /\ u.active = active
       /\ u.pinned = s.pinned \cap live /\ u.next_group_seq = seq + size /\ u.left = s.left
  BY <1>16 DEF IsState
<1>18. Ids(u) = Ids(next) /\ AllWindows(u) = AllWindows(next) /\ \A id : Tabs(u, id) = Tabs(next, id)
  BY <1>9, <1>17, SameGroups
<1>19. Shape(u)
  BY <1>2, <1>5, <1>8, <1>13, <1>14, <1>15, <1>17, <1>18 DEF Shape
<1>20. PinnedLead(s) => PinnedLead(u)
  <2> SUFFICES ASSUME PinnedLead(s), NEW g \in ToSet(groups) PROVE Led(u.pinned, g.windows)
    BY <1>8, <1>17, LedBySet
  <2>1. Led(s.pinned, g.windows)
    <3>1. CASE g \in ToSet(kept)
      <4>1. PICK h \in ToSet(s.groups) :
              \A pinned : Led(pinned, h.windows) => Led(pinned, g.windows)
        BY <1>3, <3>1
      <4> QED
        BY <1>2, <4>1, LedBySet
    <3>2. CASE g \in ToSet(ones)
      <4>1. PICK w \in M : g.windows = <<w>>
        BY <1>7, <3>2
      <4> QED
        BY <4>1 DEF Led
    <3> QED
      BY <1>8, <3>1, <3>2
  <2>2. \A i \in DOMAIN g.windows : g.windows[i] \in live
    BY <1>10 DEF ToSet
  <2> QED
    BY <1>17, <2>1, <2>2 DEF Led
<1>21. DOMAIN u.active = Ids(u) /\ \A id \in Ids(u) : u.active[id] \in ToSet(Tabs(u, id))
  BY <1>14, <1>15, <1>17, <1>18
<1>22. \A id \in Ids(u) \cap DOMAIN s.active :
         s.active[id] \in ToSet(Tabs(u, id)) => u.active[id] = s.active[id]
  BY <1>14, <1>17, <1>18
<1>23. Apart(u) /\ AllWindows(u) = live /\ \A id \in Ids(u) : Tabs(u, id) # <<>>
  BY <1>11, <1>12, <1>14, <1>17, <1>18 DEF Apart
<1>24. u.pinned \subseteq live /\ ToSet(kept) \subseteq ToSet(u.groups)
  BY <1>8, <1>17
<1>25. ToSet(ClaimLive(s.groups, live)) \subseteq ToSet(u.groups)
  BY <1>24 DEF kept
<1>26. /\ Reconcile(s, live) = ValidSplits(u)
       /\ Shape(u) /\ Apart(u) /\ AllWindows(u) = live
       /\ \A id \in Ids(u) : Tabs(u, id) # <<>>
       /\ DOMAIN u.active = Ids(u)
       /\ \A id \in Ids(u) : u.active[id] \in ToSet(Tabs(u, id))
       /\ u.pinned \subseteq live /\ u.left = s.left
       /\ PinnedLead(s) => PinnedLead(u)
       /\ ToSet(ClaimLive(s.groups, live)) \subseteq ToSet(u.groups)
       /\ \A id \in Ids(u) \cap DOMAIN s.active :
            s.active[id] \in ToSet(Tabs(u, id)) => u.active[id] = s.active[id]
  BY ONLY <1>1, <1>17, <1>19, <1>20, <1>21, <1>22, <1>23, <1>24, <1>25
<1> QED
  BY ONLY <1>26

\* The splits that are not valid go: what is left is full.
LEMMA ReconcileGives ==
  ASSUME NEW s, Shape(s), NEW live \in SUBSET Windows, IsFiniteSet(live)
  PROVE  Full(Reconcile(s, live), live) /\ Keeps(s, Reconcile(s, live))
<1>1. PICK u : /\ Reconcile(s, live) = ValidSplits(u)
               /\ Shape(u) /\ Apart(u) /\ AllWindows(u) = live
               /\ \A id \in Ids(u) : Tabs(u, id) # <<>>
               /\ DOMAIN u.active = Ids(u)
               /\ \A id \in Ids(u) : u.active[id] \in ToSet(Tabs(u, id))
               /\ u.pinned \subseteq live
               /\ PinnedLead(s) => PinnedLead(u)
  BY ReconcileMakes
<1> DEFINE t == ValidSplits(u)
<1>2. /\ Keeps(u, t)
      /\ t.groups = u.groups /\ t.pinned = u.pinned
      /\ DOMAIN t.left \subseteq Ids(u)
      /\ \A id \in DOMAIN t.left : t.left[id] \in ToSet(Tabs(u, id))
      /\ DOMAIN t.active = Ids(u)
      /\ \A id \in Ids(u) : t.active[id] \in ToSet(Tabs(u, id))
      /\ \A id \in DOMAIN t.left : t.active[id] # t.left[id]
  BY <1>1, ValidSplitsGives
<1> HIDE DEF t
<1>3. Ids(t) = Ids(u) /\ AllWindows(t) = AllWindows(u) /\ \A id : Tabs(t, id) = Tabs(u, id)
  BY <1>2, SameGroups
<1>4. Apart(t)
  BY <1>1, <1>2 DEF Apart
<1>5. Full(t, live)
  BY <1>1, <1>2, <1>3, <1>4 DEF Full, Keeps
<1>6. Keeps(s, t)
  BY <1>1, <1>2 DEF Keeps
<1> QED
  BY <1>1, <1>5, <1>6 DEF t

-----------------------------------------------------------------------------
(* Focus, and the merges of a custom automatic layout.                     *)

LEMMA InductTo ==
  ASSUME NEW n \in Nat, NEW Good, 0 \in Good, \A i \in 1 .. n : i - 1 \in Good => i \in Good
  PROVE  n \in Good
<1> DEFINE Upto == {i \in Nat : i <= n => i \in Good}
<1>1. 0 \in Upto
  OBVIOUS
<1>2. ASSUME NEW k \in Nat, k \in Upto PROVE k + 1 \in Upto
  <2> SUFFICES ASSUME k + 1 <= n PROVE k + 1 \in Good
    OBVIOUS
  <2>1. k + 1 \in 1 .. n /\ (k + 1) - 1 = k /\ k <= n
    OBVIOUS
  <2> QED
    BY <1>2, <2>1
<1> HIDE DEF Upto
<1>3. n \in Upto
  BY <1>1, <1>2, Induct
<1> QED
  BY <1>3 DEF Upto

\* Which windows are tabs where goes by the ids of the groups.
LEMMA TabsByIds ==
  ASSUME NEW s, Listing(s.groups)
  PROVE  /\ Apart(s) <=> \A id, other \in Ids(s) :
                           id # other => ToSet(Tabs(s, id)) \cap ToSet(Tabs(s, other)) = {}
         /\ \A w : w \in AllWindows(s) <=> \E id \in Ids(s) : w \in ToSet(Tabs(s, id))
<1>1. \A g \in ToSet(s.groups) : g.id \in Ids(s) /\ Tabs(s, g.id) = g.windows
  BY Members
<1>2. \A id \in Ids(s) : \E g \in ToSet(s.groups) : g.id = id /\ g.windows = Tabs(s, id)
  BY Members
<1>3. \A g, h \in ToSet(s.groups) : g.id = h.id => g = h
  BY ListingBySet DEF Listing
<1>4. ASSUME Apart(s), NEW id \in Ids(s), NEW other \in Ids(s), id # other
      PROVE  ToSet(Tabs(s, id)) \cap ToSet(Tabs(s, other)) = {}
  <2>1. PICK g \in ToSet(s.groups) : g.id = id /\ g.windows = Tabs(s, id)
    BY <1>2
  <2>2. PICK h \in ToSet(s.groups) : h.id = other /\ h.windows = Tabs(s, other)
    BY <1>2
  <2>3. g # h
    BY <1>4, <2>1, <2>2
  <2>4. ToSet(g.windows) \cap ToSet(h.windows) = {}
    BY <1>4, <2>3 DEF Apart
  <2> QED
    BY <2>1, <2>2, <2>4
<1>5. ASSUME \A id, other \in Ids(s) :
               id # other => ToSet(Tabs(s, id)) \cap ToSet(Tabs(s, other)) = {}
      PROVE  Apart(s)
  BY <1>1, <1>3, <1>5 DEF Apart
<1>6. ASSUME NEW w
      PROVE  w \in AllWindows(s) <=> \E id \in Ids(s) : w \in ToSet(Tabs(s, id))
  BY <1>1, <1>2 DEF AllWindows, TabsOf
<1> QED
  BY <1>4, <1>5, <1>6

LEMMA ConcatTabs ==
  ASSUME NEW a \in Seq(Windows), NEW b \in Seq(Windows), IsInjective(a), IsInjective(b),
         ToSet(a) \cap ToSet(b) = {}
  PROVE  a \o b \in Seq(Windows) /\ IsInjective(a \o b) /\ ToSet(a \o b) = ToSet(a) \cup ToSet(b)
<1> DEFINE r == a \o b
<1>1. /\ Len(a) \in Nat /\ Len(b) \in Nat /\ DOMAIN a = 1 .. Len(a) /\ DOMAIN b = 1 .. Len(b)
      /\ r \in Seq(Windows) /\ DOMAIN r = 1 .. Len(a) + Len(b)
      /\ \A i \in 1 .. Len(a) : r[i] = a[i]
      /\ \A i \in Len(a) + 1 .. Len(a) + Len(b) : r[i] = b[i - Len(a)]
  OBVIOUS
<1> HIDE DEF r
<1>2. ASSUME NEW i \in DOMAIN r
      PROVE  \/ i \in DOMAIN a /\ r[i] = a[i] /\ a[i] \in ToSet(a)
             \/ i - Len(a) \in DOMAIN b /\ r[i] = b[i - Len(a)] /\ b[i - Len(a)] \in ToSet(b)
  <2>1. CASE i <= Len(a)
    BY <1>1, <2>1 DEF ToSet
  <2>2. CASE i > Len(a)
    <3>1. i \in Len(a) + 1 .. Len(a) + Len(b) /\ i - Len(a) \in DOMAIN b
      BY <1>1, <2>2
    <3> QED
      BY <1>1, <3>1 DEF ToSet
  <2> QED
    BY <1>1, <2>1, <2>2
<1>3. ASSUME NEW i \in DOMAIN r, NEW j \in DOMAIN r, r[i] = r[j] PROVE i = j
  <2>1. i \in Int /\ j \in Int /\ Len(a) \in Int
    BY <1>1
  <2>2. CASE i \in DOMAIN a /\ r[i] = a[i] /\ a[i] \in ToSet(a)
    <3>1. CASE j \in DOMAIN a /\ r[j] = a[j] /\ a[j] \in ToSet(a)
      BY <1>3, <2>2, <3>1 DEF IsInjective
    <3>2. CASE j - Len(a) \in DOMAIN b /\ r[j] = b[j - Len(a)] /\ b[j - Len(a)] \in ToSet(b)
      BY <1>3, <2>2, <3>2
    <3> QED
      BY <1>2, <3>1, <3>2
  <2>3. CASE i - Len(a) \in DOMAIN b /\ r[i] = b[i - Len(a)] /\ b[i - Len(a)] \in ToSet(b)
    <3>1. CASE j \in DOMAIN a /\ r[j] = a[j] /\ a[j] \in ToSet(a)
      BY <1>3, <2>3, <3>1
    <3>2. CASE j - Len(a) \in DOMAIN b /\ r[j] = b[j - Len(a)] /\ b[j - Len(a)] \in ToSet(b)
      <4>1. i - Len(a) = j - Len(a)
        BY <1>3, <2>3, <3>2 DEF IsInjective
      <4> QED
        BY <2>1, <4>1
    <3> QED
      BY <1>2, <3>1, <3>2
  <2> QED
    BY <1>2, <2>2, <2>3
<1>4. ToSet(r) \subseteq ToSet(a) \cup ToSet(b)
  BY <1>2 DEF ToSet
<1>5. ASSUME NEW x \in ToSet(a) PROVE x \in ToSet(r)
  <2>1. PICK i \in 1 .. Len(a) : x = a[i]
    BY <1>1 DEF ToSet
  <2>2. i \in DOMAIN r /\ r[i] = x
    BY <1>1, <2>1
  <2> QED
    BY <2>2 DEF ToSet
<1>6. ASSUME NEW x \in ToSet(b) PROVE x \in ToSet(r)
  <2>1. PICK i \in 1 .. Len(b) : x = b[i]
    BY <1>1 DEF ToSet
  <2>2. i + Len(a) \in Len(a) + 1 .. Len(a) + Len(b) /\ (i + Len(a)) - Len(a) = i
    BY <1>1
  <2>3. i + Len(a) \in DOMAIN r
    BY <1>1, <2>2
  <2>4. r[i + Len(a)] = b[(i + Len(a)) - Len(a)]
    BY <1>1, <2>2
  <2>5. r[i + Len(a)] = x
    BY <2>1, <2>2, <2>4
  <2> QED
    BY <2>3, <2>5 DEF ToSet
<1>7. IsInjective(r)
  BY <1>3 DEF IsInjective
<1> QED
  BY <1>1, <1>4, <1>5, <1>6, <1>7 DEF r

LEMMA SelectForFocusGives ==
  ASSUME NEW live \in SUBSET Windows, IsFiniteSet(live), NEW s, Full(s, live), NEW w
  PROVE  Full(SelectForFocus(s, w, live), live) /\ Keeps(s, SelectForFocus(s, w, live))
<1>1. Shape(s)
  BY DEF Full
<1>2. CASE w \notin AllWindows(s) \/ Visible(s, GroupOf(s, w)) = w
  BY <1>1, <1>2 DEF SelectForFocus, Keeps
<1>3. CASE ~(w \notin AllWindows(s) \/ Visible(s, GroupOf(s, w)) = w)
  <2> DEFINE t == SelectTab(s, GroupOf(s, w), w)
  <2>1. SelectForFocus(s, w, live) = Reconcile(t, live)
    BY <1>3 DEF SelectForFocus
  <2>2. GroupOf(s, w) \in Ids(s)
    BY <1>1, <1>3, GroupOfFinds DEF Shape
  <2>3. Keeps(s, t)
    BY <1>1, <2>2, SelectTabKeeps
  <2> HIDE DEF t
  <2>4. Shape(t)
    BY <2>3 DEF Keeps
  <2>5. Full(Reconcile(t, live), live) /\ Keeps(t, Reconcile(t, live))
    BY <2>4, ReconcileGives
  <2> QED
    BY <2>1, <2>3, <2>5 DEF Keeps
<1> QED
  BY <1>2, <1>3

\* workspace_merge_group_into_group keeps the state whole.
LEMMA MergeGives ==
  ASSUME NEW live, NEW s, Full(s, live), NEW source \in Ids(s), NEW target \in Ids(s),
         source # target
  PROVE  LET t == Merge(s, source, target)
         IN  Full(t, live) /\ Ids(t) = Ids(s) \ {source}
<1> DEFINE tabs   == Tabs(s, target) \o Tabs(s, source)
           put    == SetTabs(s, target, tabs)
           merged == DropGroup(put, source)
           shown  == SetActive(merged, target, Visible(s, source))
           t      == WithoutSplit(shown, target)
<1>1. Merge(s, source, target) = t
  BY DEF Merge
<1>2. /\ Shape(s) /\ Listing(s.groups) /\ Apart(s) /\ AllWindows(s) = live
      /\ \A id \in Ids(s) : /\ Tabs(s, id) # <<>> /\ Tabs(s, id) \in Seq(Windows)
                            /\ IsInjective(Tabs(s, id))
                            /\ s.active[id] \in ToSet(Tabs(s, id))
                            /\ ToSet(Tabs(s, id)) \subseteq Windows
      /\ DOMAIN s.active = Ids(s) /\ DOMAIN s.left \subseteq Ids(s)
      /\ \A id \in DOMAIN s.left : s.left[id] \in ToSet(Tabs(s, id)) /\ s.active[id] # s.left[id]
      /\ s.pinned \subseteq live
  BY ListingFacts DEF Full, Shape
<1>3. \A id, other \in Ids(s) : id # other => ToSet(Tabs(s, id)) \cap ToSet(Tabs(s, other)) = {}
  BY <1>2, TabsByIds
<1>4. /\ tabs \in Seq(Windows) /\ IsInjective(tabs)
      /\ ToSet(tabs) = ToSet(Tabs(s, target)) \cup ToSet(Tabs(s, source))
  BY <1>2, <1>3, ConcatTabs
<1>5. Visible(s, source) \in ToSet(Tabs(s, source)) /\ Visible(s, source) \in Windows
  <2>1. Tabs(s, source)[1] \in Windows
    BY <1>2, Elements
  <2>2. Visible(s, source) \in ToSet(Tabs(s, source))
    BY <1>2, <2>1, VisibleIsATab
  <2> QED
    BY <1>2, <2>2
<1> HIDE DEF tabs
<1>6. /\ Shape(put) /\ Ids(put) = Ids(s)
      /\ put.active = s.active /\ put.pinned = s.pinned /\ put.left = s.left
      /\ put.next_group_seq = s.next_group_seq
      /\ DOMAIN put.groups = DOMAIN s.groups
      /\ \A i \in DOMAIN s.groups :
           put.groups[i] = IF s.groups[i].id = target THEN [id |-> target, windows |-> tabs]
                           ELSE s.groups[i]
      /\ \A other \in Ids(s) : Tabs(put, other) = IF other = target THEN tabs ELSE Tabs(s, other)
      /\ Led(s.pinned, tabs) /\ PinnedLead(s) => PinnedLead(put)
  BY <1>2, <1>4, SetTabsKeeps
<1> HIDE DEF put
<1>7. /\ Keeps(put, merged) /\ Ids(merged) = Ids(put) \ {source}
      /\ merged.pinned = put.pinned
      /\ DOMAIN merged.active = DOMAIN put.active \ {source}
      /\ \A other \in DOMAIN put.active \ {source} : merged.active[other] = put.active[other]
      /\ DOMAIN merged.left = DOMAIN put.left \ {source}
      /\ \A other \in DOMAIN put.left \ {source} : merged.left[other] = put.left[other]
      /\ \A other \in Ids(put) \ {source} : Tabs(merged, other) = Tabs(put, other)
  BY <1>6, DropGroupKeeps
<1> HIDE DEF merged
<1>8. Shape(merged)
  BY <1>7 DEF Keeps
<1>9. /\ Shape(shown)
      /\ shown.groups = merged.groups /\ shown.pinned = merged.pinned /\ shown.left = merged.left
      /\ DOMAIN shown.active = DOMAIN merged.active \cup {target}
      /\ shown.active[target] = Visible(s, source)
      /\ \A other \in DOMAIN merged.active \ {target} : shown.active[other] = merged.active[other]
  BY <1>5, <1>8, SetActiveKeeps
<1> HIDE DEF shown
<1>10. /\ Shape(t)
       /\ t.groups = shown.groups /\ t.active = shown.active /\ t.pinned = shown.pinned
       /\ DOMAIN t.left = DOMAIN shown.left \ {target}
       /\ \A other \in DOMAIN shown.left \ {target} : t.left[other] = shown.left[other]
  BY <1>9, WithoutSplitKeeps
<1> HIDE DEF t
<1>11. Ids(t) = Ids(merged) /\ \A id : Tabs(t, id) = Tabs(merged, id)
  BY <1>9, <1>10, SameGroups
<1>12. Ids(t) = Ids(s) \ {source}
  BY <1>6, <1>7, <1>11
<1>13. \A id \in Ids(t) : Tabs(t, id) = IF id = target THEN tabs ELSE Tabs(s, id)
  BY <1>6, <1>7, <1>11, <1>12
<1>14. Apart(t)
  <2>1. ASSUME NEW id \in Ids(t), NEW other \in Ids(t), id # other
        PROVE  ToSet(Tabs(t, id)) \cap ToSet(Tabs(t, other)) = {}
    BY <1>3, <1>4, <1>12, <1>13, <2>1
  <2> QED
    BY <1>10, <2>1, TabsByIds DEF Shape
<1>15. AllWindows(t) = live
  <2>1. \A w : w \in AllWindows(t) <=> \E id \in Ids(t) : w \in ToSet(Tabs(t, id))
    BY <1>10, TabsByIds DEF Shape
  <2>2. \A w : w \in live <=> \E id \in Ids(s) : w \in ToSet(Tabs(s, id))
    BY <1>2, TabsByIds
  <2>3. ASSUME NEW w \in AllWindows(t) PROVE w \in live
    BY <1>4, <1>12, <1>13, <2>1, <2>2
  <2>4. ASSUME NEW w \in live PROVE w \in AllWindows(t)
    <3>1. PICK id \in Ids(s) : w \in ToSet(Tabs(s, id))
      BY <2>2
    <3>2. CASE id = source \/ id = target
      <4>1. target \in Ids(t) /\ w \in ToSet(Tabs(t, target))
        BY <1>4, <1>12, <1>13, <3>1, <3>2
      <4> QED
        BY <2>1, <4>1
    <3>3. CASE id # source /\ id # target
      BY <1>12, <1>13, <2>1, <3>1, <3>3
    <3> QED
      BY <3>2, <3>3
  <2> QED
    BY <2>3, <2>4
<1>16. DOMAIN t.active = Ids(t)
  BY <1>2, <1>6, <1>7, <1>9, <1>10, <1>12
<1>17. \A id \in Ids(t) : id # target => t.active[id] = s.active[id]
  BY <1>2, <1>6, <1>7, <1>9, <1>10, <1>12
<1>18. \A id \in Ids(t) : Tabs(t, id) # <<>> /\ t.active[id] \in ToSet(Tabs(t, id))
  <2>1. tabs # <<>>
    <3>1. Visible(s, source) \in ToSet(tabs)
      BY <1>4, <1>5
    <3>2. ToSet(<<>>) = {}
      BY DEF ToSet
    <3> QED
      BY <3>1, <3>2
  <2>2. t.active[target] \in ToSet(tabs)
    BY <1>4, <1>5, <1>9, <1>10
  <2> QED
    BY <1>2, <1>12, <1>13, <1>17, <2>1, <2>2
<1>19. /\ DOMAIN t.left \subseteq Ids(t)
       /\ \A id \in DOMAIN t.left : id # target /\ id \in DOMAIN s.left /\ t.left[id] = s.left[id]
  BY <1>2, <1>6, <1>7, <1>9, <1>10, <1>12
<1>20. \A id \in DOMAIN t.left : t.left[id] \in ToSet(Tabs(t, id)) /\ t.active[id] # t.left[id]
  BY <1>2, <1>12, <1>13, <1>17, <1>19
<1>21. t.pinned \subseteq live
  BY <1>2, <1>6, <1>7, <1>9, <1>10
<1>22. Full(t, live)
  BY <1>10, <1>14, <1>15, <1>16, <1>18, <1>19, <1>20, <1>21 DEF Full
<1> QED
  BY <1>1, <1>12, <1>22

\* The states while the groups that overflow are merged.
AutoRun(f, s, overflow, n) ==
  f = [i \in 0 .. n |->
         IF i = 0 THEN s
         ELSE IF s.groups[i].id \in overflow.groups
              THEN Merge(f[i - 1], s.groups[i].id, overflow.into)
              ELSE f[i - 1]]

LEMMA AutoRunExists ==
  ASSUME NEW s, NEW overflow, NEW n \in Nat
  PROVE  \E f : AutoRun(f, s, overflow, n)
<1> DEFINE Good == {k \in Nat : \E f : AutoRun(f, s, overflow, k)}
<1>1. AutoRun([i \in 0 .. 0 |-> s], s, overflow, 0)
  BY DEF AutoRun
<1>2. ASSUME NEW k \in Nat, NEW f, AutoRun(f, s, overflow, k)
      PROVE  \E g : AutoRun(g, s, overflow, k + 1)
  <2> DEFINE step(i, t) == IF s.groups[i].id \in overflow.groups
                           THEN Merge(t, s.groups[i].id, overflow.into) ELSE t
             g == [i \in 0 .. k + 1 |-> IF i <= k THEN f[i] ELSE step(k + 1, f[k])]
  <2>1. \A i \in 0 .. k : f[i] = IF i = 0 THEN s ELSE step(i, f[i - 1])
    BY <1>2 DEF AutoRun
  <2>2. AutoRun(g, s, overflow, k + 1)
        <=> g = [i \in 0 .. k + 1 |-> IF i = 0 THEN s ELSE step(i, g[i - 1])]
    BY DEF AutoRun
  <2> HIDE DEF step
  <2>3. ASSUME NEW i \in 0 .. k + 1 PROVE g[i] = IF i = 0 THEN s ELSE step(i, g[i - 1])
    <3>1. CASE i <= k
      BY <2>1, <3>1
    <3>2. CASE i = k + 1
      BY <3>2
    <3> QED
      BY <3>1, <3>2
  <2>4. g = [i \in 0 .. k + 1 |-> g[i]]
    OBVIOUS
  <2> HIDE DEF g
  <2> QED
    BY <2>2, <2>3, <2>4
<1>3. 0 \in Good /\ \A k \in Nat : k \in Good => k + 1 \in Good
  BY <1>1, <1>2
<1> HIDE DEF Good
<1>4. n \in Good
  BY <1>3, Induct
<1> QED
  BY <1>4 DEF Good

LEMMA AutoLayoutGives ==
  ASSUME NEW live, NEW s, Full(s, live), NEW overflow, overflow.groups \subseteq Ids(s),
         overflow.groups # {} => overflow.into \in Ids(s) \ overflow.groups
  PROVE  LET t == AutoLayout(s, overflow)
         IN  Full(t, live) /\ (overflow.groups = {} => t = s)
<1> DEFINE n       == Len(s.groups)
           Gone(i) == {s.groups[j].id : j \in 1 .. i} \cap overflow.groups
<1>1. Shape(s) /\ Listing(s.groups)
  BY DEF Full, Shape
<1>2. n \in Nat /\ DOMAIN s.groups = 1 .. n
  BY <1>1, ListingFacts
<1>3. AutoLayout(s, overflow) = (CHOOSE f : AutoRun(f, s, overflow, n))[n]
  BY DEF AutoLayout, AutoRun
<1>4. PICK f : AutoRun(f, s, overflow, n) /\ AutoLayout(s, overflow) = f[n]
  BY <1>2, <1>3, AutoRunExists
<1> HIDE DEF n
<1>5. \A i \in 0 .. n : f[i] = IF i = 0 THEN s
                               ELSE IF s.groups[i].id \in overflow.groups
                                    THEN Merge(f[i - 1], s.groups[i].id, overflow.into)
                                    ELSE f[i - 1]
  BY <1>4 DEF AutoRun
<1> DEFINE Good == {i \in 0 .. n : /\ Full(f[i], live)
                                   /\ Ids(f[i]) = Ids(s) \ Gone(i)
                                   /\ overflow.groups = {} => f[i] = s}
<1>6. 0 \in Good
  BY <1>2, <1>5
<1>7. ASSUME NEW i \in 1 .. n, i - 1 \in Good PROVE i \in Good
  <2> DEFINE id == s.groups[i].id
             t  == f[i - 1]
  <2>1. i \in 0 .. n /\ i # 0 /\ i \in DOMAIN s.groups /\ i - 1 \in 0 .. n
    BY <1>2
  <2>2. /\ Full(t, live) /\ Ids(t) = Ids(s) \ Gone(i - 1)
        /\ overflow.groups = {} => t = s
    BY <1>7
  <2>3. f[i] = IF id \in overflow.groups THEN Merge(t, id, overflow.into) ELSE t
    BY <1>5, <2>1
  <2>4. id \in Ids(s)
    BY <1>1, <2>1, ListingFacts
  <2>5. {s.groups[j].id : j \in 1 .. i} = {s.groups[j].id : j \in 1 .. i - 1} \cup {id}
    BY <1>2
  <2>6. id \notin {s.groups[j].id : j \in 1 .. i - 1}
    <3>1. ASSUME NEW j \in 1 .. i - 1 PROVE s.groups[j].id # id
      <4>1. j \in DOMAIN s.groups /\ j # i
        BY <1>2
      <4> QED
        BY <1>1, <2>1, <4>1 DEF Listing
    <3> QED
      BY <3>1
  <2> HIDE DEF id, t
  <2>7. CASE id \in overflow.groups
    <3>1. overflow.into \in Ids(s) /\ overflow.into \notin overflow.groups
      BY <2>7
    <3>2. id \in Ids(t) /\ overflow.into \in Ids(t) /\ id # overflow.into
      BY <2>2, <2>4, <2>6, <2>7, <3>1
    <3> DEFINE m == Merge(t, id, overflow.into)
    <3>3. Full(m, live) /\ Ids(m) = Ids(t) \ {id}
      BY <2>2, <3>2, MergeGives
    <3>4. f[i] = m
      BY <2>3, <2>7
    <3> HIDE DEF m
    <3>5. Gone(i) = Gone(i - 1) \cup {id}
      BY <2>5, <2>7
    <3>6. Ids(f[i]) = Ids(s) \ Gone(i)
      BY <2>2, <3>3, <3>4, <3>5
    <3> QED
      BY <2>1, <2>7, <3>3, <3>4, <3>6
  <2>8. CASE id \notin overflow.groups
    <3>1. Gone(i) = Gone(i - 1)
      BY <2>5, <2>8
    <3>2. f[i] = t
      BY <2>3, <2>8
    <3> QED
      BY <2>1, <2>2, <3>1, <3>2
  <2> QED
    BY <2>7, <2>8
<1> HIDE DEF Good
<1>8. n \in Good
  BY <1>2, <1>6, <1>7, InductTo
<1> QED
  BY <1>4, <1>8 DEF Good

-----------------------------------------------------------------------------
(* Restored sessions: groups join one after the other.                     *)

Entry == [id : Nat, windows : Seq(Windows), active : Windows, left : Windows \cup {0}]

LEMMA AppendGroup ==
  ASSUME NEW q, Listing(q), NEW g \in GroupRecord, IsInjective(g.windows),
         \A h \in ToSet(q) : h.id # g.id
  PROVE  Listing(Append(q, g)) /\ ToSet(Append(q, g)) = ToSet(q) \cup {g}
<1> DEFINE r == Append(q, g)
<1>1. /\ q \in Seq(GroupRecord) /\ Len(q) \in Nat /\ DOMAIN q = 1 .. Len(q)
      /\ \A i, j \in DOMAIN q : q[i].id = q[j].id => i = j
      /\ \A i \in DOMAIN q : IsInjective(q[i].windows) /\ q[i] \in ToSet(q)
  BY Elements DEF Listing
<1>2. /\ r \in Seq(GroupRecord) /\ DOMAIN r = 1 .. Len(q) + 1 /\ r[Len(q) + 1] = g
      /\ \A i \in 1 .. Len(q) : r[i] = q[i]
  BY <1>1
<1> HIDE DEF r
<1>3. \A i \in DOMAIN r : (i \in DOMAIN q /\ r[i] = q[i]) \/ (i = Len(q) + 1 /\ r[i] = g)
  BY <1>1, <1>2
<1>4. \A i, j \in DOMAIN r : r[i].id = r[j].id => i = j
  BY <1>1, <1>3
<1>5. \A i \in DOMAIN r : IsInjective(r[i].windows)
  BY <1>1, <1>3
<1>6. ToSet(r) = ToSet(q) \cup {g}
  <2>1. ToSet(r) = {r[i] : i \in DOMAIN r} /\ ToSet(q) = {q[i] : i \in DOMAIN q}
    BY DEF ToSet
  <2>2. ASSUME NEW x \in ToSet(r) PROVE x \in ToSet(q) \cup {g}
    BY <1>3, <2>1
  <2>3. ASSUME NEW x \in ToSet(q) PROVE x \in ToSet(r)
    BY <1>1, <1>2, <2>1
  <2>4. Len(q) + 1 \in DOMAIN r
    BY <1>1, <1>2
  <2>5. g \in ToSet(r)
    BY <1>2, <2>1, <2>4
  <2> QED
    BY <2>2, <2>3, <2>5
<1> QED
  BY <1>2, <1>4, <1>5, <1>6 DEF Listing, r

\* The next unique id is the sequence's own, as no id in use has reached it.
LEMMA UniqueIdIs ==
  ASSUME NEW s, Shape(s)
  PROVE  UniqueId(s) = s.next_group_seq
<1> DEFINE seq == s.next_group_seq
           n   == Len(s.groups)
<1>1. /\ seq \in Nat /\ n \in Nat
      /\ \A id \in Ids(s) : id < seq
  BY ListingFacts DEF Shape
<1> HIDE DEF seq, n
<1>2. seq \notin Ids(s)
  BY <1>1
<1> DEFINE P(m) == m \notin Ids(s) /\ \A i \in seq .. m - 1 : i \in Ids(s)
<1>3. seq \in seq .. seq + n /\ P(seq)
  BY <1>1, <1>2
<1>4. ASSUME NEW m \in seq .. seq + n, P(m) PROVE m = seq
  <2>1. CASE m > seq
    <3>1. seq \in seq .. m - 1
      BY <1>1, <2>1
    <3> QED
      BY <1>2, <1>4, <3>1
  <2> QED
    BY <1>1, <2>1
<1>5. UniqueId(s) = CHOOSE m \in seq .. seq + n : P(m)
  BY DEF UniqueId, seq, n
<1> HIDE DEF P
<1> QED
  BY <1>3, <1>4, <1>5 DEF seq

\* What a group brings: its windows that are live, and in no group yet.
Brought(s, g, live) == Kept(g.windows, live \ AllWindows(s))

\* A group that joins is new or gets a new id; what it has of the windows that
\* are live, and in no group yet, is in it.
LEMMA AdoptGives ==
  ASSUME NEW s, Shape(s), NEW g \in Entry, IsInjective(g.windows), g.id < s.next_group_seq,
         NEW live
  PROVE  LET t == Adopt(s, g, live)
         IN  /\ Shape(t) /\ t.pinned = s.pinned
             /\ s.next_group_seq <= t.next_group_seq
             /\ AllWindows(s) \subseteq AllWindows(t)
             /\ ToSet(g.windows) \cap live \subseteq AllWindows(t)
             /\ \A h \in ToSet(t.groups) :
                  h \in ToSet(s.groups) \/ h.windows = Brought(s, g, live)
<1> DEFINE tabs  == Kept(g.windows, live \ AllWindows(s))
           taken == g.id \in Ids(s)
           id    == IF taken THEN s.next_group_seq ELSE g.id
           new   == [id |-> id, windows |-> tabs]
           active == With(s.active, id, IF Contains(tabs, g.active) THEN g.active ELSE tabs[1])
           left  == IF Contains(tabs, g.left) /\ Len(tabs) > 1
                    THEN With(s.left, id, g.left) ELSE s.left
           seq   == IF taken THEN id + 1 ELSE s.next_group_seq
           t     == [s EXCEPT !.groups = Append(@, new), !.active = active, !.left = left,
                              !.next_group_seq = seq]
<1>1. Adopt(s, g, live) = IF tabs = <<>> THEN s ELSE t
  <2>1. UniqueId(s) = s.next_group_seq
    BY UniqueIdIs
  <2>2. s.groups = s.groups /\ IsState(s)
    BY DEF Shape
  <2>3. t = [s EXCEPT !.groups = Append(s.groups, new), !.active = active, !.left = left,
                      !.next_group_seq = seq]
    BY <2>2 DEF IsState
  <2> QED
    BY <2>1, <2>2, <2>3 DEF Adopt, IsState
<1>2. /\ IsState(s) /\ Listing(s.groups) /\ s.next_group_seq \in Nat \ {0}
      /\ \A other \in Ids(s) : other < s.next_group_seq /\ other \in Nat
      /\ \A other \in DOMAIN s.active : s.active[other] \in Windows
      /\ s.pinned \subseteq Windows
  BY ListingFacts DEF Shape
<1>3. g.id \in Nat /\ g.windows \in Seq(Windows) /\ g.active \in Windows
  BY DEF Entry
<1>4. /\ tabs \in Seq(Windows) /\ IsInjective(tabs)
      /\ ToSet(tabs) = ToSet(g.windows) \cap (live \ AllWindows(s))
  BY <1>3, KeptSet
<1>5. AllWindows(s) = UNION {ToSet(h.windows) : h \in ToSet(s.groups)}
  BY DEF AllWindows, TabsOf
<1>6. CASE tabs = <<>>
  <2>1. ToSet(<<>>) = {}
    BY DEF ToSet
  <2>2. ToSet(g.windows) \cap live \subseteq AllWindows(s)
    BY <1>4, <1>6, <2>1
  <2> QED
    BY <1>1, <1>2, <1>6, <2>2
<1>7. CASE tabs # <<>>
  <2>1. tabs[1] \in Windows
    BY <1>4, <1>7, Elements
  <2>2. /\ id \in Nat /\ id \notin Ids(s) /\ id < seq
        /\ seq \in Nat \ {0} /\ s.next_group_seq <= seq
    BY <1>2, <1>3
  <2>3. \A other \in DOMAIN active : active[other] \in Windows
    BY <1>2, <1>3, <2>1 DEF With
  <2>4. t = [groups |-> Append(s.groups, new), active |-> active, pinned |-> s.pinned,
             left |-> left, next_group_seq |-> seq]
    <3> HIDE DEF new, active, left, seq
    <3>1. t = [s EXCEPT !.groups = Append(s.groups, new), !.active = active, !.left = left,
                        !.next_group_seq = seq]
      BY <1>2 DEF IsState
    <3> HIDE DEF t
    <3> QED
      BY <1>2, <3>1 DEF IsState
  <2>5. /\ new \in GroupRecord /\ IsInjective(new.windows) /\ new.id = id /\ new.windows = tabs
        /\ \A h \in ToSet(s.groups) : h.id # new.id
    <3>1. \A h \in ToSet(s.groups) : h.id \in Ids(s)
      BY DEF Ids
    <3> QED
      BY <1>4, <2>2, <3>1 DEF GroupRecord
  <2> HIDE DEF new, active, left, seq, t, tabs, id, taken
  <2>6. Listing(Append(s.groups, new)) /\ ToSet(Append(s.groups, new)) = ToSet(s.groups) \cup {new}
    BY <1>2, <2>5, AppendGroup
  <2>7. /\ IsState(t) /\ t.groups = Append(s.groups, new) /\ t.active = active
        /\ t.pinned = s.pinned /\ t.next_group_seq = seq
    BY <2>4 DEF IsState
  <2>8. \A other \in Ids(t) : other < seq
    <3>1. \A h \in ToSet(s.groups) : h.id \in Ids(s)
      BY DEF Ids
    <3>2. \A h \in ToSet(t.groups) : h.id < seq
      BY <1>2, <2>2, <2>5, <2>6, <2>7, <3>1
    <3> QED
      BY <3>2 DEF Ids
  <2>9. Shape(t)
    BY <1>2, <2>2, <2>3, <2>6, <2>7, <2>8 DEF Shape
  <2>10. AllWindows(t) = AllWindows(s) \cup ToSet(tabs)
    <3>1. AllWindows(t) = UNION {ToSet(h.windows) : h \in ToSet(s.groups) \cup {new}}
      BY <2>6, <2>7 DEF AllWindows, TabsOf
    <3> QED
      BY <1>5, <2>5, <3>1
  <2>11. Adopt(s, g, live) = t
    BY <1>1, <1>7
  <2>12. \A h \in ToSet(t.groups) : h \in ToSet(s.groups) \/ h.windows = tabs
    BY <2>5, <2>6, <2>7
  <2>13. tabs = Brought(s, g, live)
    BY DEF tabs, Brought
  <2> HIDE DEF tabs
  <2> QED
    BY <1>4, <2>2, <2>7, <2>9, <2>10, <2>11, <2>12, <2>13
<1> QED
  BY <1>6, <1>7

\* The states while the groups of a list join.
AdoptRun(f, s, list, live, n) ==
  f = [i \in 0 .. n |-> IF i = 0 THEN s ELSE Adopt(f[i - 1], list[i], live)]

LEMMA AdoptRunExists ==
  ASSUME NEW s, NEW list, NEW live, NEW n \in Nat
  PROVE  \E f : AdoptRun(f, s, list, live, n)
<1> DEFINE Good == {k \in Nat : \E f : AdoptRun(f, s, list, live, k)}
<1>1. AdoptRun([i \in 0 .. 0 |-> s], s, list, live, 0)
  BY DEF AdoptRun
<1>2. ASSUME NEW k \in Nat, NEW f, AdoptRun(f, s, list, live, k)
      PROVE  \E g : AdoptRun(g, s, list, live, k + 1)
  <2> DEFINE step(i, t) == Adopt(t, list[i], live)
             g == [i \in 0 .. k + 1 |-> IF i <= k THEN f[i] ELSE step(k + 1, f[k])]
  <2>1. \A i \in 0 .. k : f[i] = IF i = 0 THEN s ELSE step(i, f[i - 1])
    BY <1>2 DEF AdoptRun
  <2>2. AdoptRun(g, s, list, live, k + 1)
        <=> g = [i \in 0 .. k + 1 |-> IF i = 0 THEN s ELSE step(i, g[i - 1])]
    BY DEF AdoptRun
  <2> HIDE DEF step
  <2>3. ASSUME NEW i \in 0 .. k + 1 PROVE g[i] = IF i = 0 THEN s ELSE step(i, g[i - 1])
    <3>1. CASE i <= k
      BY <2>1, <3>1
    <3>2. CASE i = k + 1
      BY <3>2
    <3> QED
      BY <3>1, <3>2
  <2>4. g = [i \in 0 .. k + 1 |-> g[i]]
    OBVIOUS
  <2> HIDE DEF g
  <2> QED
    BY <2>2, <2>3, <2>4
<1>3. 0 \in Good /\ \A k \in Nat : k \in Good => k + 1 \in Good
  BY <1>1, <1>2
<1> HIDE DEF Good
<1>4. n \in Good
  BY <1>3, Induct
<1> QED
  BY <1>4 DEF Good

\* X has what is live of the first i groups of the list.
Covered(X, list, live, i) == \A j \in 1 .. i : ToSet(list[j].windows) \cap live \subseteq X

\* What a group of the list brings, once those before it have joined, is led.
LedIn(pinned, list, live) ==
  \A i \in 1 .. Len(list) : \A X :
    Covered(X, list, live, i - 1) => Led(pinned, Kept(list[i].windows, live \ X))

LEMMA AdoptedGives ==
  ASSUME NEW s, Shape(s), s.groups = <<>>, NEW list \in Seq(Entry),
         \A i \in 1 .. Len(list) : IsInjective(list[i].windows) /\ list[i].id < s.next_group_seq,
         NEW live, NEW pinned
  PROVE  LET t == Adopted(s, list, live)
         IN  /\ Shape(t) /\ t.pinned = s.pinned
             /\ s.next_group_seq <= t.next_group_seq
             /\ LedIn(pinned, list, live) => \A g \in ToSet(t.groups) : Led(pinned, g.windows)
<1> DEFINE n == Len(list)
<1>1. n \in Nat /\ \A i \in 1 .. n : list[i] \in Entry
  OBVIOUS
<1>e. \A g \in Entry : g.id \in Nat
  BY DEF Entry
<1>2. Adopted(s, list, live) = (CHOOSE f : AdoptRun(f, s, list, live, n))[n]
  BY DEF Adopted, AdoptRun
<1>3. PICK f : AdoptRun(f, s, list, live, n) /\ Adopted(s, list, live) = f[n]
  BY <1>1, <1>2, AdoptRunExists
<1>4. \A i \in 0 .. n : f[i] = IF i = 0 THEN s ELSE Adopt(f[i - 1], list[i], live)
  BY <1>3 DEF AdoptRun
<1>5. /\ \A i \in 1 .. n : IsInjective(list[i].windows) /\ list[i].id < s.next_group_seq
      /\ s.next_group_seq \in Nat
  BY DEF Shape
<1> HIDE DEF n
<1> DEFINE Lead == LedIn(pinned, list, live)
<1>l. Lead => \A i \in 1 .. n : \A X : Covered(X, list, live, i - 1)
                                => Led(pinned, Kept(list[i].windows, live \ X))
  BY DEF LedIn, n
<1> HIDE DEF Lead
<1> DEFINE Good == {i \in 0 .. n :
                      /\ Shape(f[i]) /\ f[i].pinned = s.pinned
                      /\ s.next_group_seq <= f[i].next_group_seq
                      /\ Covered(AllWindows(f[i]), list, live, i)
                      /\ Lead => \A g \in ToSet(f[i].groups) : Led(pinned, g.windows)}
<1>6. 0 \in Good
  <2>1. 0 \in 0 .. n /\ f[0] = s
    BY <1>1, <1>4
  <2>2. ToSet(s.groups) = {}
    BY DEF ToSet
  <2>3. Covered(AllWindows(s), list, live, 0)
    BY DEF Covered
  <2> QED
    BY <1>5, <2>1, <2>2, <2>3
<1>7. ASSUME NEW i \in 1 .. n, i - 1 \in Good PROVE i \in Good
  <2> DEFINE t == f[i - 1]
             g == list[i]
             u == Adopt(t, g, live)
  <2>1. i \in 0 .. n /\ i # 0 /\ i - 1 \in 0 .. n /\ f[i] = u
    BY <1>1, <1>4
  <2>2. /\ Shape(t) /\ t.pinned = s.pinned
        /\ s.next_group_seq <= t.next_group_seq
        /\ Covered(AllWindows(t), list, live, i - 1)
        /\ Lead => \A h \in ToSet(t.groups) : Led(pinned, h.windows)
    BY <1>7
  <2>3. t.next_group_seq \in Nat
    BY <2>2 DEF Shape
  <2>4. g \in Entry /\ IsInjective(g.windows) /\ g.id < t.next_group_seq
    BY <1>1, <1>e, <1>5, <2>2, <2>3
  <2>5. Lead => Led(pinned, Brought(t, g, live))
    BY <1>l, <2>2 DEF Brought
  <2> HIDE DEF t
  <2>6. /\ Shape(u) /\ u.pinned = t.pinned
        /\ t.next_group_seq <= u.next_group_seq
        /\ AllWindows(t) \subseteq AllWindows(u)
        /\ ToSet(g.windows) \cap live \subseteq AllWindows(u)
        /\ \A h \in ToSet(u.groups) :
             h \in ToSet(t.groups) \/ h.windows = Brought(t, g, live)
    <3> HIDE DEF g, Good, u
    <3>1. Shape(t)
      BY <2>2
    <3>2. /\ Shape(Adopt(t, g, live)) /\ Adopt(t, g, live).pinned = t.pinned
          /\ t.next_group_seq <= Adopt(t, g, live).next_group_seq
      BY <2>4, <3>1, AdoptGives
    <3>3. AllWindows(t) \subseteq AllWindows(Adopt(t, g, live))
      BY <2>4, <3>1, AdoptGives
    <3>4. ToSet(g.windows) \cap live \subseteq AllWindows(Adopt(t, g, live))
      BY <2>4, <3>1, AdoptGives
    <3>5. \A h \in ToSet(Adopt(t, g, live).groups) :
            h \in ToSet(t.groups) \/ h.windows = Brought(t, g, live)
      BY <2>4, <3>1, AdoptGives
    <3> QED
      BY <3>2, <3>3, <3>4, <3>5 DEF u
  <2> HIDE DEF u
  <2>7. u.next_group_seq \in Nat
    BY <2>6 DEF Shape
  <2>8. s.next_group_seq <= u.next_group_seq
    BY <1>5, <2>2, <2>3, <2>6, <2>7
  <2>9. Covered(AllWindows(u), list, live, i)
    <3> SUFFICES ASSUME NEW j \in 1 .. i
                 PROVE  ToSet(list[j].windows) \cap live \subseteq AllWindows(u)
      BY DEF Covered
    <3>1. CASE j = i
      BY <2>6, <3>1
    <3>2. CASE j # i
      <4>1. j \in 1 .. i - 1
        BY <3>2
      <4>2. ToSet(list[j].windows) \cap live \subseteq AllWindows(t)
        BY <2>2, <4>1 DEF Covered
      <4> QED
        BY <2>6, <4>2
    <3> QED
      BY <3>1, <3>2
  <2>10. Lead => \A h \in ToSet(u.groups) : Led(pinned, h.windows)
    BY <2>2, <2>5, <2>6
  <2> QED
    BY <2>1, <2>2, <2>6, <2>8, <2>9, <2>10
<1> HIDE DEF Good
<1>8. n \in Good
  BY <1>1, <1>6, <1>7, InductTo
<1> QED
  BY <1>3, <1>8 DEF Good, Lead

\* The current groups are a list of entries too.
LEMMA AsSessionGives ==
  ASSUME NEW live, NEW s, Full(s, live)
  PROVE  LET r == AsSession(s)
         IN  /\ r \in Seq(Entry) /\ Len(r) = Len(s.groups)
             /\ \A i \in 1 .. Len(s.groups) :
                  r[i].id = s.groups[i].id /\ r[i].windows = s.groups[i].windows
<1> DEFINE e(i) == [id |-> s.groups[i].id, windows |-> s.groups[i].windows,
                    active |-> ActiveTab(s, s.groups[i].id),
                    left |-> IF s.groups[i].id \in DOMAIN s.left
                             THEN s.left[s.groups[i].id] ELSE 0]
           n == Len(s.groups)
<1>1. Shape(s) /\ Listing(s.groups)
  BY DEF Full, Shape
<1>2. /\ DOMAIN s.groups = 1 .. n /\ n \in Nat
      /\ \A i \in DOMAIN s.groups :
           /\ s.groups[i].id \in Ids(s) /\ s.groups[i].id \in Nat
           /\ s.groups[i].windows \in Seq(Windows)
  BY <1>1, ListingFacts
<1>3. \A id \in Ids(s) : ToSet(Tabs(s, id)) \subseteq Windows
  BY <1>1, ListingFacts
<1>4. ASSUME NEW i \in 1 .. n PROVE e(i) \in Entry
  <2> DEFINE id == s.groups[i].id
  <2>1. id \in Ids(s) /\ id \in Nat /\ s.groups[i].windows \in Seq(Windows)
    BY <1>2
  <2> HIDE DEF id
  <2>2. ActiveTab(s, id) \in Windows
    BY <1>3, <2>1 DEF Full, ActiveTab
  <2>3. id \in DOMAIN s.left => s.left[id] \in Windows
    BY <1>3, <2>1 DEF Full
  <2> QED
    BY <2>1, <2>2, <2>3 DEF Entry, id
<1>5. AsSession(s) = [i \in 1 .. n |-> e(i)]
  BY <1>2 DEF AsSession
<1>6. \A i \in 1 .. n : e(i).id = s.groups[i].id /\ e(i).windows = s.groups[i].windows
  OBVIOUS
<1> DEFINE r == [i \in 1 .. n |-> e(i)]
<1> HIDE DEF e, n
<1>7. r \in [1 .. n -> Entry]
  BY <1>4
<1>8. r \in Seq(Entry) /\ Len(r) = n
  BY <1>2, <1>7
<1>9. \A i \in 1 .. n : r[i].id = s.groups[i].id /\ r[i].windows = s.groups[i].windows
  BY <1>6
<1> QED
  BY <1>5, <1>8, <1>9 DEF n

\* The sequence that a restored state starts from is beyond every id.
LEMMA SeqOfBoth ==
  ASSUME NEW ids, NEW a \in Nat, NEW b \in Nat, \A id \in ids : id \in Nat /\ id < a
  PROVE  LET m == Max({a, b, 1} \cup {id + 1 : id \in ids})
         IN  m \in Nat \ {0} /\ a <= m /\ b <= m
<1> DEFINE M == {a, b, 1} \cup {id + 1 : id \in ids}
<1>1. \A x \in M : x \in Int /\ (x <= a \/ x = b \/ x = 1)
  OBVIOUS
<1>2. a \in M /\ b \in M /\ 1 \in M
  OBVIOUS
<1> HIDE DEF M
<1>3. \E x \in M : \A y \in M : x >= y
  <2>1. CASE a >= b /\ a >= 1
    BY <1>1, <1>2, <2>1
  <2>2. CASE b >= a /\ b >= 1
    BY <1>1, <1>2, <2>2
  <2>3. CASE 1 >= a /\ 1 >= b
    BY <1>1, <1>2, <2>3
  <2> QED
    BY <2>1, <2>2, <2>3
<1>4. Max(M) \in M /\ \A y \in M : Max(M) >= y
  BY <1>3 DEF Max
<1>5. Max(M) \in Int /\ Max(M) >= a /\ Max(M) >= b /\ Max(M) >= 1
  BY <1>1, <1>2, <1>4
<1>6. Max(M) \in Nat \ {0} /\ a <= Max(M) /\ b <= Max(M)
  BY <1>5
<1> QED
  BY <1>6 DEF M

LEMMA SessionFacts ==
  ASSUME NEW session \in Sessions
  PROVE  /\ session.groups \in Seq(Entry) /\ session.next_group_seq \in Nat
         /\ session.pinned \subseteq Windows
         /\ session.pinned \subseteq UNION {ToSet(g.windows) : g \in ToSet(session.groups)}
         /\ \A i \in DOMAIN session.groups :
              /\ IsInjective(session.groups[i].windows)
              /\ session.groups[i].id < session.next_group_seq
<1>1. session \in Session
  BY SessionsAssumption
<1>2. session.groups \in Seq(Entry) /\ session.next_group_seq \in Nat
      /\ session.pinned \subseteq Windows
  BY <1>1 DEF Session, Entry
<1>3. /\ session.pinned \subseteq UNION {ToSet(g.windows) : g \in ToSet(session.groups)}
      /\ \A i \in DOMAIN session.groups :
           /\ IsInjective(session.groups[i].windows)
           /\ session.groups[i].id \in 1 .. session.next_group_seq - 1
  BY SessionsAssumption
<1>4. \A x \in 1 .. session.next_group_seq - 1 : x < session.next_group_seq
  BY <1>2
<1> QED
  BY <1>2, <1>3, <1>4

\* The places of two lists that follow each other.
LEMMA TwoParts ==
  ASSUME NEW m \in Nat, NEW n \in Nat, NEW i \in 1 .. m + n
  PROVE  /\ i \in 1 .. m \/ (i - m \in 1 .. n /\ i = m + (i - m))
         /\ i - m \in 1 .. n => \A l \in 1 .. m : l \in 1 .. i - 1
OBVIOUS

LEMMA MembersOf ==
  ASSUME NEW T, NEW q \in Seq(T)
  PROVE  \A i \in 1 .. Len(q) : q[i] \in T
OBVIOUS

LEMMA ConcatFacts ==
  ASSUME NEW T, NEW p \in Seq(T), NEW q \in Seq(T)
  PROVE  /\ p \o q \in Seq(T) /\ Len(p \o q) = Len(p) + Len(q)
         /\ \A i \in 1 .. Len(p) : (p \o q)[i] = p[i]
         /\ \A i \in 1 .. Len(q) : (p \o q)[Len(p) + i] = q[i]
<1> DEFINE r == p \o q
<1>1. Len(p) \in Nat /\ Len(q) \in Nat
  OBVIOUS
<1>2. /\ r \in Seq(T) /\ Len(r) = Len(p) + Len(q)
      /\ \A i \in 1 .. Len(p) : r[i] = p[i]
      /\ \A i \in Len(p) + 1 .. Len(p) + Len(q) : r[i] = q[i - Len(p)]
  BY <1>1
<1> HIDE DEF r
<1>3. ASSUME NEW i \in 1 .. Len(q) PROVE r[Len(p) + i] = q[i]
  <2>1. Len(p) + i \in Len(p) + 1 .. Len(p) + Len(q) /\ (Len(p) + i) - Len(p) = i
    BY <1>1
  <2> QED
    BY <1>2, <2>1
<1> QED
  BY <1>2, <1>3 DEF r

LEMMA LedAgree ==
  ASSUME NEW tabs, NEW pinned, NEW other, Led(pinned, tabs),
         \A i \in DOMAIN tabs : tabs[i] \in other <=> tabs[i] \in pinned
  PROVE  Led(other, tabs)
BY DEF Led

\* The saved tabs are led by what was pinned when they were saved.
SavedLead(session) == \A g \in ToSet(session.groups) : Led(session.pinned, g.windows)

\* What is restored is pinned as the session says, and where it says nothing as
\* it was.
LEMMA RestoredLed ==
  ASSUME NEW live, NEW s, Full(s, live), PinnedLead(s),
         NEW session \in Sessions, SavedLead(session),
         NEW list \in Seq(Entry), Len(list) = Len(session.groups) + Len(s.groups),
         \A i \in 1 .. Len(session.groups) : list[i] = session.groups[i],
         \A i \in 1 .. Len(s.groups) :
           list[Len(session.groups) + i].windows = s.groups[i].windows
  PROVE  LET theirs == UNION {ToSet(g.windows) : g \in ToSet(session.groups)}
         IN  LedIn((s.pinned \ theirs) \cup (session.pinned \cap live), list, live)
<1> DEFINE theirs == UNION {ToSet(g.windows) : g \in ToSet(session.groups)}
           p      == (s.pinned \ theirs) \cup (session.pinned \cap live)
           m      == Len(session.groups)
<1>1. /\ session.groups \in Seq(Entry) /\ session.pinned \subseteq theirs
      /\ DOMAIN session.groups = 1 .. m /\ m \in Nat
  BY SessionFacts, Elements
<1>2. /\ Listing(s.groups) /\ DOMAIN s.groups = 1 .. Len(s.groups) /\ Len(s.groups) \in Nat
      /\ \A i \in DOMAIN s.groups : s.groups[i].windows \in Seq(Windows)
  BY ListingFacts DEF Full, Shape
<1>3. \A w \in theirs \cap live : w \in p <=> w \in session.pinned
  OBVIOUS
<1>4. \A w \in live \ theirs : w \in p <=> w \in s.pinned
  BY <1>1
<1>5. \A w : w \in theirs <=> \E i \in 1 .. m : w \in ToSet(session.groups[i].windows)
  BY <1>1 DEF ToSet
<1>m. /\ \A i \in 1 .. m : list[i] = session.groups[i]
      /\ \A i \in 1 .. Len(s.groups) : list[m + i].windows = s.groups[i].windows
  OBVIOUS
<1>l. Len(list) = m + Len(s.groups) /\ \A i \in 1 .. Len(list) : list[i] \in Entry
  BY MembersOf
<1>e. \A g \in Entry : g.windows \in Seq(Windows)
  BY DEF Entry
<1> HIDE DEF theirs, p, m
<1>6. ASSUME NEW i \in 1 .. Len(list), NEW X, Covered(X, list, live, i - 1)
      PROVE  Led(p, Kept(list[i].windows, live \ X))
  <2> DEFINE q == list[i].windows
             k == Kept(q, live \ X)
  <2>1. q \in Seq(Windows)
    <3>1. list[i] \in Entry
      BY <1>l
    <3> QED
      BY <1>e, <3>1
  <2> HIDE DEF q
  <2>2. \A j \in DOMAIN k : k[j] \in live \ X /\ k[j] \in ToSet(q)
    <3>1. k \in Seq(Windows) /\ ToSet(k) = ToSet(q) \cap (live \ X)
      BY <2>1, KeptSet
    <3> QED
      BY <3>1, Elements
  <2>5. /\ i \in 1 .. m \/ (i - m \in 1 .. Len(s.groups) /\ i = m + (i - m))
        /\ i - m \in 1 .. Len(s.groups) => \A l \in 1 .. m : l \in 1 .. i - 1
    <3>1. i \in 1 .. m + Len(s.groups)
      BY <1>l
    <3> QED
      BY <1>1, <1>2, <3>1, TwoParts
  <2>3. CASE i \in 1 .. m
    <3>1. q = session.groups[i].windows
      BY <1>m, <2>3 DEF q
    <3>2. session.groups[i] \in ToSet(session.groups)
      BY <1>1, <2>3 DEF ToSet
    <3>3. Led(session.pinned, q)
      BY <3>1, <3>2 DEF SavedLead
    <3>4. Led(session.pinned, k)
      BY <2>1, <3>3, KeptLed
    <3>5. \A j \in DOMAIN k : k[j] \in theirs \cap live
      BY <1>5, <2>2, <2>3, <3>1
    <3>6. \A j \in DOMAIN k : k[j] \in p <=> k[j] \in session.pinned
      BY <1>3, <3>5
    <3> HIDE DEF k
    <3>7. Led(p, k)
      BY <3>4, <3>6, LedAgree
    <3> QED
      BY <3>7 DEF k, q
  <2>4. CASE i - m \in 1 .. Len(s.groups) /\ i = m + (i - m)
    <3> DEFINE j == i - m
    <3>1. j \in 1 .. Len(s.groups) /\ i = m + j
      BY <2>4
    <3> HIDE DEF j
    <3>2. q = s.groups[j].windows
      BY <1>m, <3>1 DEF q
    <3>3. Led(s.pinned, q)
      BY <1>2, <3>1, <3>2 DEF PinnedLead
    <3>4. Led(s.pinned, k)
      BY <2>1, <3>3, KeptLed
    <3>5. ASSUME NEW w \in theirs \cap live PROVE w \in X
      <4>1. PICK l \in 1 .. m : w \in ToSet(session.groups[l].windows)
        BY <1>5
      <4>2. l \in 1 .. i - 1 /\ list[l] = session.groups[l]
        BY <1>m, <2>4, <2>5
      <4>3. ToSet(list[l].windows) \cap live \subseteq X
        BY <1>6, <4>2 DEF Covered
      <4> QED
        BY <4>1, <4>2, <4>3
    <3>6. \A l \in DOMAIN k : k[l] \in live \ theirs
      BY <2>2, <3>5
    <3>7. \A l \in DOMAIN k : k[l] \in p <=> k[l] \in s.pinned
      BY <1>4, <3>6
    <3> HIDE DEF k
    <3>8. Led(p, k)
      BY <3>4, <3>7, LedAgree
    <3> QED
      BY <3>8 DEF k, q
  <2> QED
    BY <2>3, <2>4, <2>5
<1> QED
  BY <1>6 DEF LedIn, p, theirs

\* Restoring a session leaves every live window a tab, once.
LEMMA RestoreGives ==
  ASSUME NEW live \in SUBSET Windows, IsFiniteSet(live), NEW s, Full(s, live),
         NEW session \in Sessions
  PROVE  /\ Full(Restore(s, session), live)
         /\ SavedLead(session) /\ PinnedLead(s) => PinnedLead(Restore(s, session))
<1> DEFINE seq    == Max({s.next_group_seq, session.next_group_seq, 1}
                         \cup {id + 1 : id \in Ids(s)})
           empty  == [s EXCEPT !.groups = <<>>, !.active = [g \in {} |-> 0],
                               !.left = [g \in {} |-> 0], !.next_group_seq = seq]
           list   == session.groups \o AsSession(s)
           joined == Adopted(empty, list, live)
           theirs == UNION {ToSet(g.windows) : g \in ToSet(session.groups)}
           p      == (s.pinned \ theirs) \cup (session.pinned \cap live)
           u      == [joined EXCEPT !.pinned = p]
           m      == Len(session.groups)
           n      == Len(s.groups)
<1>1. /\ Shape(s) /\ IsState(s) /\ Listing(s.groups) /\ s.next_group_seq \in Nat
      /\ \A id \in Ids(s) : id < s.next_group_seq /\ id \in Nat
      /\ s.pinned \subseteq Windows /\ AllWindows(s) = live
      /\ DOMAIN s.groups = 1 .. n /\ n \in Nat
      /\ \A i \in DOMAIN s.groups :
           /\ s.groups[i].id \in Ids(s) /\ s.groups[i].windows \in Seq(Windows)
           /\ IsInjective(s.groups[i].windows)
  BY ListingFacts DEF Full, Shape
<1>2. /\ session.groups \in Seq(Entry) /\ session.next_group_seq \in Nat
      /\ session.pinned \subseteq Windows
      /\ m \in Nat /\ DOMAIN session.groups = 1 .. m
      /\ \A i \in 1 .. m : /\ IsInjective(session.groups[i].windows)
                           /\ session.groups[i].id < session.next_group_seq
                           /\ session.groups[i] \in Entry
  BY SessionFacts, Elements
<1>3. seq \in Nat \ {0} /\ s.next_group_seq <= seq /\ session.next_group_seq <= seq
  BY <1>1, <1>2, SeqOfBoth
<1>4. Restore(s, session) = Reconcile([joined EXCEPT !.pinned = (@ \ theirs) \cup
                                                                (session.pinned \cap live)], live)
  BY <1>1 DEF Restore, IsState
<1>5. empty = [groups |-> <<>>, active |-> [g \in {} |-> 0], pinned |-> s.pinned,
               left |-> [g \in {} |-> 0], next_group_seq |-> seq]
  <2> DEFINE nothing == [g \in {} |-> 0]
  <2>1. empty = [s EXCEPT !.groups = <<>>, !.active = nothing, !.left = nothing,
                          !.next_group_seq = seq]
    OBVIOUS
  <2> HIDE DEF seq, empty, nothing
  <2>2. empty = [groups |-> <<>>, active |-> nothing, pinned |-> s.pinned,
                 left |-> nothing, next_group_seq |-> seq]
    BY <1>1, <2>1 DEF IsState
  <2> QED
    BY <2>2 DEF nothing
<1> HIDE DEF seq, empty
<1>6. Shape(empty) /\ empty.groups = <<>> /\ empty.next_group_seq = seq /\ empty.pinned = s.pinned
  <2>1. IsState(empty)
    BY <1>5 DEF IsState
  <2>2. /\ empty.groups = <<>> /\ empty.active = [g \in {} |-> 0] /\ empty.pinned = s.pinned
        /\ empty.next_group_seq = seq
    BY <1>5
  <2>3. Listing(<<>>) /\ ToSet(<<>>) = {}
    BY DEF Listing, ToSet
  <2>4. Ids(empty) = {}
    BY <2>2, <2>3 DEF Ids
  <2> QED
    BY <1>1, <1>3, <2>1, <2>2, <2>3, <2>4 DEF Shape
<1> DEFINE r == AsSession(s)
<1>7. /\ r \in Seq(Entry) /\ Len(r) = n
      /\ \A i \in 1 .. n : r[i].id = s.groups[i].id /\ r[i].windows = s.groups[i].windows
  BY AsSessionGives
<1> HIDE DEF r
<1>8. /\ list \in Seq(Entry) /\ Len(list) = m + n
      /\ \A i \in 1 .. m : list[i] = session.groups[i]
      /\ \A i \in 1 .. n : list[m + i] = r[i]
  <2>1. list = session.groups \o r
    BY DEF r
  <2>2. /\ session.groups \in Seq(Entry) /\ r \in Seq(Entry)
        /\ Len(session.groups) = m /\ Len(r) = n
    BY <1>2, <1>7
  <2> HIDE DEF list, m, n
  <2>3. /\ list \in Seq(Entry) /\ Len(list) = Len(session.groups) + Len(r)
        /\ \A i \in 1 .. Len(session.groups) : list[i] = session.groups[i]
        /\ \A i \in 1 .. Len(r) : list[Len(session.groups) + i] = r[i]
    <3> DEFINE g == session.groups
    <3>1. g \in Seq(Entry) /\ r \in Seq(Entry) /\ list = g \o r
      BY <2>1, <2>2
    <3> HIDE DEF g
    <3>2. /\ g \o r \in Seq(Entry) /\ Len(g \o r) = Len(g) + Len(r)
          /\ \A i \in 1 .. Len(g) : (g \o r)[i] = g[i]
          /\ \A i \in 1 .. Len(r) : (g \o r)[Len(g) + i] = r[i]
      BY <3>1, ConcatFacts
    <3>3. /\ list \in Seq(Entry) /\ Len(list) = Len(g) + Len(r)
          /\ \A i \in 1 .. Len(g) : list[i] = g[i]
          /\ \A i \in 1 .. Len(r) : list[Len(g) + i] = r[i]
      BY <3>1, <3>2
    <3> QED
      BY <3>3 DEF g
  <2> QED
    BY <2>2, <2>3
<1> HIDE DEF list
<1>9. ASSUME NEW i \in 1 .. Len(list)
      PROVE  IsInjective(list[i].windows) /\ list[i].id < seq
  <2>e. \A g \in Entry : g.id \in Nat
    BY DEF Entry
  <2>0. i \in 1 .. m \/ (i - m \in 1 .. n /\ i = m + (i - m))
    <3>1. i \in 1 .. m + n
      BY <1>8
    <3> HIDE DEF m, n
    <3> QED
      BY <1>1, <1>2, <3>1, TwoParts
  <2>1. CASE i \in 1 .. m
    <3>1. i \in 1 .. m /\ list[i] = session.groups[i]
      BY <1>8, <2>1
    <3>2. /\ IsInjective(session.groups[i].windows)
          /\ session.groups[i].id < session.next_group_seq /\ session.groups[i].id \in Nat
      BY <1>2, <2>e, <3>1
    <3> QED
      BY <1>2, <1>3, <3>1, <3>2
  <2>2. CASE i - m \in 1 .. n /\ i = m + (i - m)
    <3> DEFINE j == i - m
    <3>1. j \in 1 .. n /\ i = m + j
      BY <2>2
    <3> HIDE DEF j
    <3>2. list[i].id = s.groups[j].id /\ list[i].windows = s.groups[j].windows
      BY <1>7, <1>8, <3>1
    <3> QED
      BY <1>1, <1>3, <3>1, <3>2
  <2> QED
    BY <2>0, <2>1, <2>2
<1>10. /\ Shape(joined) /\ joined.pinned = empty.pinned
       /\ empty.next_group_seq <= joined.next_group_seq
       /\ LedIn(p, list, live) => \A g \in ToSet(joined.groups) : Led(p, g.windows)
  <2> HIDE DEF p
  <2> QED
    BY <1>6, <1>8, <1>9, AdoptedGives
<1>11. SavedLead(session) /\ PinnedLead(s) => LedIn(p, list, live)
  BY <1>7, <1>8, RestoredLed
<1> HIDE DEF joined
<1>12. p \subseteq Windows
  BY <1>1, <1>2
<1>13. Restore(s, session) = Reconcile(u, live)
  <2>1. u = [joined EXCEPT !.pinned = (@ \ theirs) \cup (session.pinned \cap live)]
    BY <1>6, <1>10 DEF Shape, IsState
  <2> QED
    BY <1>4, <2>1
<1> HIDE DEF p
<1>14. u = [groups |-> joined.groups, active |-> joined.active, pinned |-> p,
            left |-> joined.left, next_group_seq |-> joined.next_group_seq]
  BY <1>10 DEF Shape, IsState
<1> HIDE DEF u
<1>15. /\ IsState(u) /\ u.groups = joined.groups /\ u.active = joined.active
       /\ u.pinned = p /\ u.next_group_seq = joined.next_group_seq
  BY <1>14 DEF IsState
<1>16. Ids(u) = Ids(joined)
  BY <1>15 DEF Ids
<1>17. Shape(u)
  BY <1>10, <1>12, <1>15, <1>16 DEF Shape
<1>18. SavedLead(session) /\ PinnedLead(s) => PinnedLead(u)
  BY <1>10, <1>11, <1>15, <1>17, LedBySet DEF Shape
<1>19. Full(Reconcile(u, live), live) /\ Keeps(u, Reconcile(u, live))
  BY <1>17, ReconcileGives
<1> QED
  BY <1>13, <1>18, <1>19 DEF Keeps

-----------------------------------------------------------------------------
(* The inductive invariant: the state is full of the windows it has, these *)
(* are registered and all that are listed are among them.                  *)

Lead == SessionsLead /\ ~custom_auto => PinnedLead(ws)

IInv ==
  /\ registered \subseteq Windows /\ IsFiniteSet(registered)
  /\ hidden \subseteq registered
  /\ custom_auto \in BOOLEAN
  /\ Full(ws, AllWindows(ws))
  /\ EveryListedWindowIsATab
  /\ ws.next_group_seq <= MaxSeq
  /\ Lead
  /\ request.about \subseteq Windows \cup {0}
  /\ request.activated \in Windows \cup {0}

LEMMA InitGives == Init => IInv
<1> SUFFICES ASSUME Init PROVE IInv
  OBVIOUS
<1> DEFINE nothing == [g \in {} |-> 0]
<1>1. /\ ws = [groups |-> <<>>, active |-> nothing, pinned |-> {}, left |-> nothing,
               next_group_seq |-> 1]
      /\ registered = {} /\ hidden = {} /\ custom_auto \in BOOLEAN
      /\ request = [about |-> {}, activated |-> 0]
      /\ DOMAIN nothing = {}
  BY WorkspaceAssumption DEF Init
<1> HIDE DEF nothing
<1>2. /\ IsState(ws) /\ ws.groups = <<>> /\ ws.active = nothing /\ ws.pinned = {}
      /\ ws.left = nothing /\ ws.next_group_seq = 1
  BY <1>1 DEF IsState
<1>3. Listing(<<>>) /\ ToSet(<<>>) = {} /\ DOMAIN <<>> = {}
  BY DEF Listing, ToSet
<1>4. Ids(ws) = {} /\ AllWindows(ws) = {}
  BY <1>2, <1>3 DEF Ids, AllWindows, TabsOf
<1>5. Shape(ws)
  BY <1>1, <1>2, <1>3, <1>4 DEF Shape
<1>6. Apart(ws) /\ PinnedLead(ws)
  BY <1>2, <1>3 DEF Apart, PinnedLead
<1>7. Full(ws, AllWindows(ws))
  BY <1>1, <1>2, <1>4, <1>5, <1>6 DEF Full
<1>8. IsFiniteSet({})
  BY FS_EmptySet
<1>9. ws.next_group_seq <= MaxSeq
  BY <1>2, WorkspaceAssumption
<1>10. /\ request.about \subseteq Windows \cup {0}
       /\ request.activated \in Windows \cup {0}
  BY <1>1
<1>11. EveryListedWindowIsATab
  BY <1>1, <1>4 DEF EveryListedWindowIsATab, Listed
<1> QED
  BY <1>1, <1>6, <1>7, <1>8, <1>9, <1>10, <1>11 DEF IInv, Lead

\* What a handler leaves.
LEMMA Landed ==
  ASSUME IInv, NEW live, NEW s, Full(s, live), SessionsLead /\ ~custom_auto => PinnedLead(s),
         NEW windows \in SUBSET (Windows \cup {0}), NEW activated \in Windows \cup {0},
         Finish(s, windows, activated),
         registered' \subseteq Windows, IsFiniteSet(registered'), hidden' \subseteq registered',
         registered' \ hidden' \subseteq live, live \subseteq registered'
  PROVE  IInv'
<1>1. /\ ws' = s /\ s.next_group_seq <= MaxSeq /\ custom_auto' = custom_auto
      /\ request'.about = windows /\ request'.activated = activated
  BY DEF Finish
<1>2. AllWindows(s) = live
  BY DEF Full
<1>3. Full(ws, AllWindows(ws))'
  BY <1>1, <1>2
<1>4. EveryListedWindowIsATab'
  BY <1>1, <1>2 DEF EveryListedWindowIsATab, Listed
<1>5. Lead'
  <2>1. SessionsLead' <=> SessionsLead
    BY DEF SessionsLead
  <2>2. PinnedLead(ws)' <=> PinnedLead(s)
    BY <1>1
  <2> QED
    BY <1>1, <2>1, <2>2 DEF Lead
<1>6. (custom_auto \in BOOLEAN)'
  BY <1>1 DEF IInv
<1>7. (ws.next_group_seq <= MaxSeq)'
  BY <1>1
<1>8. (request.about \subseteq Windows \cup {0} /\ request.activated \in Windows \cup {0})'
  BY <1>1
<1> QED
  BY <1>3, <1>4, <1>5, <1>6, <1>7, <1>8 DEF IInv

\* A layout keeps the state full, and merges nothing without a custom one.
LEMMA OverflowsGive ==
  ASSUME NEW live, NEW s, Full(s, live), NEW overflow \in Overflows(s)
  PROVE  /\ Full(AutoLayout(s, overflow), live)
         /\ ~custom_auto => AutoLayout(s, overflow) = s
         /\ UNION {ToSet(Tabs(s, id)) : id \in overflow.groups} \subseteq Windows
<1>1. /\ overflow.groups \subseteq Ids(s)
      /\ overflow.groups # {} => overflow.into \in Ids(s) \ overflow.groups /\ custom_auto
  BY DEF Overflows
<1>2. Listing(s.groups)
  BY DEF Full, Shape
<1>3. \A id \in Ids(s) : ToSet(Tabs(s, id)) \subseteq Windows
  BY <1>2, ListingFacts
<1>4. /\ Full(AutoLayout(s, overflow), live)
      /\ overflow.groups = {} => AutoLayout(s, overflow) = s
  BY <1>1, AutoLayoutGives
<1> QED
  BY <1>1, <1>3, <1>4

LEMMA LandedLaidOut ==
  ASSUME IInv, NEW live, NEW s, Full(s, live), SessionsLead /\ ~custom_auto => PinnedLead(s),
         NEW windows \in SUBSET (Windows \cup {0}), FinishLaidOut(s, windows),
         registered' \subseteq Windows, IsFiniteSet(registered'), hidden' \subseteq registered',
         registered' \ hidden' \subseteq live, live \subseteq registered'
  PROVE  IInv'
<1>1. PICK overflow \in Overflows(s) :
        Finish(AutoLayout(s, overflow),
               windows \cup UNION {ToSet(Tabs(s, id)) : id \in overflow.groups}, 0)
  BY DEF FinishLaidOut
<1> DEFINE t     == AutoLayout(s, overflow)
           about == windows \cup UNION {ToSet(Tabs(s, id)) : id \in overflow.groups}
<1>2. /\ Full(t, live) /\ (~custom_auto => t = s)
      /\ about \in SUBSET (Windows \cup {0})
  BY OverflowsGive
<1>3. Finish(t, about, 0)
  BY <1>1
<1> HIDE DEF t, about
<1>4. SessionsLead /\ ~custom_auto => PinnedLead(t)
  BY <1>2
<1>5. 0 \in Windows \cup {0}
  OBVIOUS
<1> QED
  BY <1>2, <1>3, <1>4, <1>5, Landed

\* Every handler begins by bringing the state in step with some set of windows.
LEMMA Synced ==
  ASSUME IInv, NEW live \in SUBSET registered
  PROVE  /\ live \in SUBSET Windows /\ IsFiniteSet(live)
         /\ Full(Reconcile(ws, live), live)
         /\ SessionsLead /\ ~custom_auto => PinnedLead(Reconcile(ws, live))
<1>1. live \in SUBSET Windows /\ IsFiniteSet(live)
  BY FS_Subset DEF IInv
<1>2. Shape(ws)
  BY DEF IInv, Full
<1>3. Full(Reconcile(ws, live), live) /\ Keeps(ws, Reconcile(ws, live))
  BY <1>1, <1>2, ReconcileGives
<1>4. SessionsLead /\ ~custom_auto => PinnedLead(ws)
  BY DEF IInv, Lead
<1> QED
  BY <1>1, <1>3, <1>4 DEF Keeps

-----------------------------------------------------------------------------
(* The registry changes.                                                   *)

LEMMA RegisterKeeps ==
  ASSUME IInv, NEW w \in Windows, Register(w)
  PROVE  IInv'
<1>1. /\ w \notin registered /\ registered' = registered \cup {w} /\ hidden' = hidden \cup {w}
      /\ ws' = ws /\ custom_auto' = custom_auto /\ request' = request
  BY DEF Register
<1>2. registered' \ hidden' = registered \ hidden
  BY <1>1
<1>3. IsFiniteSet(registered')
  BY <1>1, FS_AddElement DEF IInv
<1>4. EveryListedWindowIsATab'
  BY <1>1, <1>2 DEF IInv, EveryListedWindowIsATab, Listed
<1>5. Full(ws, AllWindows(ws))' /\ Lead'
  <2>1. SessionsLead' <=> SessionsLead
    BY DEF SessionsLead
  <2> QED
    BY <1>1, <2>1 DEF IInv, Lead
<1>6. (registered \subseteq Windows /\ hidden \subseteq registered)'
  BY <1>1 DEF IInv
<1> QED
  BY <1>1, <1>3, <1>4, <1>5, <1>6 DEF IInv

\* What may be shown, hidden or forgotten of the registry.
LEMMA RegistryFacts ==
  ASSUME IInv
  PROVE  /\ registered \subseteq Windows /\ IsFiniteSet(registered) /\ hidden \subseteq registered
         /\ Listed \subseteq registered
         /\ \A w : /\ registered \ {w} \subseteq Windows /\ IsFiniteSet(registered \ {w})
                   /\ hidden \ {w} \subseteq registered \ {w}
                   /\ Listed \ {w} \subseteq registered \ {w}
                   /\ (registered \ {w}) \ (hidden \ {w}) = Listed \ {w}
         /\ \A w \in hidden : registered \ (hidden \ {w}) = Listed \cup {w}
         /\ \A w \in Listed : registered \ (hidden \cup {w}) = Listed \ {w}
<1>1. registered \subseteq Windows /\ IsFiniteSet(registered) /\ hidden \subseteq registered
  BY DEF IInv
<1>2. \A w : IsFiniteSet(registered \ {w})
  BY <1>1, FS_Subset
<1> QED
  BY <1>1, <1>2 DEF Listed

LEMMA ShowKeeps ==
  ASSUME IInv, NEW w \in Windows, Show(w)
  PROVE  IInv'
<1> DEFINE live == Listed \cup {w}
           s    == Reconcile(ws, live)
<1>1. /\ w \in hidden /\ registered' = registered /\ hidden' = hidden \ {w}
      /\ FinishLaidOut(s, {w})
  BY DEF Show
<1>2. live \subseteq registered /\ registered' \ hidden' = live
  BY <1>1, RegistryFacts
<1>3. Full(s, live) /\ (SessionsLead /\ ~custom_auto => PinnedLead(s))
  BY <1>2, Synced
<1>4. /\ registered' \subseteq Windows /\ IsFiniteSet(registered') /\ hidden' \subseteq registered'
      /\ registered' \ hidden' \subseteq live /\ live \subseteq registered'
      /\ {w} \in SUBSET (Windows \cup {0})
  BY <1>1, <1>2, RegistryFacts
<1> HIDE DEF live, s
<1> QED
  BY <1>1, <1>3, <1>4, LandedLaidOut

LEMMA HideKeeps ==
  ASSUME IInv, NEW w \in Windows, Hide(w)
  PROVE  IInv'
<1> DEFINE live == Listed \ {w}
           s    == Reconcile(ws, live)
<1>1. /\ w \in Listed /\ registered' = registered /\ hidden' = hidden \cup {w}
      /\ FinishLaidOut(s, {w})
  BY DEF Hide
<1>2. live \subseteq registered /\ registered' \ hidden' = live
  BY <1>1, RegistryFacts
<1>3. Full(s, live) /\ (SessionsLead /\ ~custom_auto => PinnedLead(s))
  BY <1>2, Synced
<1>4. /\ registered' \subseteq Windows /\ IsFiniteSet(registered') /\ hidden' \subseteq registered'
      /\ registered' \ hidden' \subseteq live /\ live \subseteq registered'
      /\ {w} \in SUBSET (Windows \cup {0})
  BY <1>1, <1>2, RegistryFacts DEF Listed
<1> HIDE DEF live, s
<1> QED
  BY <1>1, <1>3, <1>4, LandedLaidOut

\* Focus keeps the state full of what is live, and the pinned tabs in front.
LEMMA FocusedGives ==
  ASSUME IInv, NEW live \in SUBSET registered, NEW s, Full(s, live),
         SessionsLead /\ ~custom_auto => PinnedLead(s), NEW w
  PROVE  LET t == SelectForFocus(s, w, live)
         IN  Full(t, live) /\ (SessionsLead /\ ~custom_auto => PinnedLead(t))
<1>1. live \in SUBSET Windows /\ IsFiniteSet(live)
  BY Synced
<1>2. Full(SelectForFocus(s, w, live), live) /\ Keeps(s, SelectForFocus(s, w, live))
  BY <1>1, SelectForFocusGives
<1> QED
  BY <1>2 DEF Keeps

LEMMA CloseHostedKeeps ==
  ASSUME IInv, NEW w \in Windows, CloseHosted(w)
  PROVE  IInv'
<1> DEFINE live == Listed \ {w}
           s    == Reconcile(ws, live)
<1>1. w \in Listed /\ registered' = registered \ {w} /\ hidden' = hidden \ {w}
  BY DEF CloseHosted, Forget
<1>2. PICK target \in live \cup {0} : Finish(SelectForFocus(s, target, live), {w, target}, 0)
  BY DEF CloseHosted
<1>3. live \subseteq registered /\ live \subseteq Windows
  BY RegistryFacts
<1>4. Full(s, live) /\ (SessionsLead /\ ~custom_auto => PinnedLead(s))
  BY <1>3, Synced
<1>5. /\ registered' \subseteq Windows /\ IsFiniteSet(registered') /\ hidden' \subseteq registered'
      /\ registered' \ hidden' \subseteq live /\ live \subseteq registered'
  BY <1>1, RegistryFacts
<1>6. {w, target} \in SUBSET (Windows \cup {0}) /\ 0 \in Windows \cup {0}
  BY <1>3
<1> DEFINE t == SelectForFocus(s, target, live)
<1> HIDE DEF live, s
<1>7. Full(t, live) /\ (SessionsLead /\ ~custom_auto => PinnedLead(t))
  BY <1>3, <1>4, FocusedGives
<1>8. Finish(t, {w, target}, 0)
  BY <1>2
<1> HIDE DEF t
<1> QED
  BY <1>5, <1>6, <1>7, <1>8, Landed

LEMMA DestroyDeferredKeeps ==
  ASSUME IInv, NEW w \in Windows, DestroyDeferred(w)
  PROVE  IInv'
<1> DEFINE live == registered \ {w}
           s    == Reconcile(ws, live)
<1>1. /\ w \in hidden /\ registered' = registered \ {w} /\ hidden' = hidden \ {w}
      /\ Finish(s, {w} \cup hidden, 0)
  BY DEF DestroyDeferred, Forget
<1>2. Full(s, live) /\ (SessionsLead /\ ~custom_auto => PinnedLead(s))
  BY Synced
<1>3. /\ registered' \subseteq Windows /\ IsFiniteSet(registered') /\ hidden' \subseteq registered'
      /\ registered' \ hidden' \subseteq live /\ live \subseteq registered'
      /\ {w} \cup hidden \in SUBSET (Windows \cup {0}) /\ 0 \in Windows \cup {0}
  BY <1>1, RegistryFacts
<1> HIDE DEF live, s
<1> QED
  BY <1>1, <1>2, <1>3, Landed

LEMMA DestroyKeeps ==
  ASSUME IInv, NEW w \in Windows, Destroy(w)
  PROVE  IInv'
<1> DEFINE all  == registered \ {w}
           live == Listed \ {w}
           r    == Reconcile(ws, all)
           s    == Reconcile(r, live)
<1>1. w \in registered /\ registered' = registered \ {w} /\ hidden' = hidden \ {w}
  BY DEF Destroy, Forget
<1>2. PICK overflow \in Overflows(s), target \in live \cup {0} :
        Finish(SelectForFocus(AutoLayout(s, overflow), target, live),
               {w, target} \cup UNION {ToSet(Tabs(s, id)) : id \in overflow.groups}, 0)
  BY DEF Destroy
<1>3. live \subseteq registered /\ live \subseteq Windows /\ IsFiniteSet(live)
  BY RegistryFacts, Synced
<1>4. Full(r, all) /\ (SessionsLead /\ ~custom_auto => PinnedLead(r))
  BY Synced
<1>5. /\ registered' \subseteq Windows /\ IsFiniteSet(registered') /\ hidden' \subseteq registered'
      /\ registered' \ hidden' \subseteq live /\ live \subseteq registered'
  BY <1>1, RegistryFacts
<1> HIDE DEF r, live
<1>6. Full(s, live) /\ (SessionsLead /\ ~custom_auto => PinnedLead(s))
  <2>1. Shape(r)
    BY <1>4 DEF Full
  <2>2. Full(s, live) /\ Keeps(r, s)
    BY <1>3, <2>1, ReconcileGives
  <2> QED
    BY <1>4, <2>2 DEF Keeps
<1> HIDE DEF s, all
<1> DEFINE u     == AutoLayout(s, overflow)
           t     == SelectForFocus(u, target, live)
           about == {w, target} \cup UNION {ToSet(Tabs(s, id)) : id \in overflow.groups}
<1>7. /\ Full(u, live) /\ (~custom_auto => u = s)
      /\ UNION {ToSet(Tabs(s, id)) : id \in overflow.groups} \subseteq Windows
  BY <1>6, OverflowsGive
<1>8. Finish(t, about, 0)
  BY <1>2
<1>9. about \in SUBSET (Windows \cup {0}) /\ 0 \in Windows \cup {0}
  BY <1>3, <1>7
<1> HIDE DEF u, about
<1>10. SessionsLead /\ ~custom_auto => PinnedLead(u)
  BY <1>6, <1>7
<1>11. Full(t, live) /\ (SessionsLead /\ ~custom_auto => PinnedLead(t))
  BY <1>3, <1>7, <1>10, FocusedGives
<1> HIDE DEF t
<1> QED
  BY <1>5, <1>8, <1>9, <1>11, Landed

LEMMA MoveEndSurfacelessKeeps ==
  ASSUME IInv, MoveEndSurfaceless
  PROVE  IInv'
<1> DEFINE s == Reconcile(ws, registered)
<1>1. registered' = registered /\ hidden' = hidden /\ Finish(s, hidden, 0)
  BY DEF MoveEndSurfaceless
<1>2. Full(s, registered) /\ (SessionsLead /\ ~custom_auto => PinnedLead(s))
  BY Synced
<1>3. /\ registered' \subseteq Windows /\ IsFiniteSet(registered') /\ hidden' \subseteq registered'
      /\ registered' \ hidden' \subseteq registered /\ registered \subseteq registered'
      /\ hidden \in SUBSET (Windows \cup {0}) /\ 0 \in Windows \cup {0}
  BY <1>1, RegistryFacts
<1> HIDE DEF s
<1> QED
  BY <1>1, <1>2, <1>3, Landed

LEMMA SyncKeeps ==
  ASSUME IInv, Sync
  PROVE  IInv'
<1> DEFINE s == Reconcile(ws, Listed)
<1>1. registered' = registered /\ hidden' = hidden /\ FinishLaidOut(s, {})
  BY DEF Sync
<1>2. Full(s, Listed) /\ (SessionsLead /\ ~custom_auto => PinnedLead(s))
  BY RegistryFacts, Synced
<1>3. /\ registered' \subseteq Windows /\ IsFiniteSet(registered') /\ hidden' \subseteq registered'
      /\ registered' \ hidden' \subseteq Listed /\ Listed \subseteq registered'
      /\ {} \in SUBSET (Windows \cup {0})
  BY <1>1, RegistryFacts DEF Listed
<1> HIDE DEF s
<1> QED
  BY <1>1, <1>2, <1>3, LandedLaidOut

-----------------------------------------------------------------------------
(* Focus and requests.                                                     *)

LEMMA AskedForGives ==
  ASSUME NEW live, NEW s, Full(s, live), NEW w \in Windows
  PROVE  AskedFor(s, w) \in SUBSET (Windows \cup {0})
<1>1. Shape(s) /\ Listing(s.groups)
  BY DEF Full, Shape
<1>2. CASE w \in AllWindows(s)
  <2>1. GroupOf(s, w) \in Ids(s)
    BY <1>1, <1>2, GroupOfFinds
  <2>2. Normalized(s, GroupOf(s, w), w) \in Windows
    BY <1>1, <2>1, VisibleIsATab
  <2> QED
    BY <1>2, <2>2 DEF AskedFor
<1>3. CASE w \notin AllWindows(s)
  BY <1>3 DEF AskedFor
<1> QED
  BY <1>2, <1>3

LEMMA FocusKeeps ==
  ASSUME IInv, NEW w \in Windows, Focus(w)
  PROVE  IInv'
<1> DEFINE s     == Reconcile(ws, Listed)
           t     == SelectForFocus(s, w, Listed)
           about == AskedFor(s, w)
<1>1. registered' = registered /\ hidden' = hidden /\ Finish(t, about, 0)
  BY DEF Focus
<1>2. /\ Listed \subseteq registered
      /\ Full(s, Listed) /\ (SessionsLead /\ ~custom_auto => PinnedLead(s))
  BY RegistryFacts, Synced
<1>3. /\ registered' \subseteq Windows /\ IsFiniteSet(registered') /\ hidden' \subseteq registered'
      /\ registered' \ hidden' \subseteq Listed /\ Listed \subseteq registered'
  BY <1>1, RegistryFacts DEF Listed
<1>4. about \in SUBSET (Windows \cup {0}) /\ 0 \in Windows \cup {0}
  BY <1>2, AskedForGives
<1> HIDE DEF s, about
<1>5. Full(t, Listed) /\ (SessionsLead /\ ~custom_auto => PinnedLead(t))
  BY <1>2, FocusedGives
<1> HIDE DEF t
<1> QED
  BY <1>1, <1>3, <1>4, <1>5, Landed

\* The state that a mutation is applied to.
LEMMA MutatedFrom ==
  ASSUME IInv
  PROVE  LET s == Reconcile(ws, Listed)
         IN  /\ Full(s, Listed) /\ Shape(s) /\ Listing(s.groups) /\ Apart(s)
             /\ AllWindows(s) \subseteq Windows
             /\ \A id \in Ids(s) :
                  /\ Tabs(s, id) # <<>> /\ ToSet(Tabs(s, id)) \subseteq Windows
                  /\ Len(Tabs(s, id)) \in Nat
                  /\ Visible(s, id) \in Windows
<1> DEFINE s == Reconcile(ws, Listed)
<1>1. Full(s, Listed) /\ Listed \subseteq Windows
  BY RegistryFacts, Synced
<1> HIDE DEF s
<1>2. Shape(s) /\ Listing(s.groups) /\ Apart(s) /\ AllWindows(s) = Listed
  BY <1>1 DEF Full, Shape
<1>3. ASSUME NEW id \in Ids(s)
      PROVE  /\ Tabs(s, id) # <<>> /\ ToSet(Tabs(s, id)) \subseteq Windows
             /\ Len(Tabs(s, id)) \in Nat
             /\ Visible(s, id) \in Windows
  <2>1. Tabs(s, id) \in Seq(Windows) /\ ToSet(Tabs(s, id)) \subseteq Windows
    BY <1>2, ListingFacts
  <2>2. Tabs(s, id) # <<>>
    BY <1>1 DEF Full
  <2>3. Tabs(s, id)[1] \in Windows
    BY <2>1, <2>2, Elements
  <2>4. Visible(s, id) \in Windows
    BY <1>2, <2>2, <2>3, VisibleIsATab
  <2> QED
    BY <2>1, <2>2, <2>4
<1> QED
  BY <1>1, <1>2, <1>3 DEF s

\* A mutation that keeps the shape is followed by a synchronisation, and by the
\* focus of what it activates.
LEMMA Applied ==
  ASSUME IInv, NEW next, Keeps(Reconcile(ws, Listed), next),
         NEW windows \in SUBSET (Windows \cup {0}), NEW activated \in Windows \cup {0},
         Apply(Reconcile(ws, Listed), next, windows, activated)
  PROVE  IInv'
<1> DEFINE s == Reconcile(ws, Listed)
           r == Reconcile(next, Listed)
           t == SelectForFocus(r, activated, Listed)
<1>1. /\ registered' = registered /\ hidden' = hidden
      /\ Finish(s, windows, 0) \/ Finish(t, windows, activated)
  BY DEF Apply
<1>2. /\ Listed \subseteq registered /\ Listed \in SUBSET Windows /\ IsFiniteSet(Listed)
      /\ Full(s, Listed) /\ (SessionsLead /\ ~custom_auto => PinnedLead(s))
  BY RegistryFacts, Synced
<1>3. /\ registered' \subseteq Windows /\ IsFiniteSet(registered') /\ hidden' \subseteq registered'
      /\ registered' \ hidden' \subseteq Listed /\ Listed \subseteq registered'
  BY <1>1, RegistryFacts DEF Listed
<1>4. Keeps(s, next)
  OBVIOUS
<1> HIDE DEF s
<1>5. Shape(next) /\ (SessionsLead /\ ~custom_auto => PinnedLead(next))
  BY <1>2, <1>4 DEF Keeps
<1>6. Full(r, Listed) /\ Keeps(next, r)
  BY <1>2, <1>5, ReconcileGives
<1> HIDE DEF r
<1>7. SessionsLead /\ ~custom_auto => PinnedLead(r)
  BY <1>5, <1>6 DEF Keeps
<1>8. Full(t, Listed) /\ (SessionsLead /\ ~custom_auto => PinnedLead(t))
  BY <1>2, <1>6, <1>7, FocusedGives
<1> HIDE DEF t
<1>9. CASE Finish(s, windows, 0)
  <2>1. 0 \in Windows \cup {0}
    OBVIOUS
  <2> QED
    BY <1>2, <1>3, <1>9, <2>1, Landed
<1>10. CASE Finish(t, windows, activated)
  BY <1>3, <1>8, <1>10, Landed
<1> QED
  BY <1>1, <1>9, <1>10

\* What a mutation that leaves the groups shows is a window.
LEMMA StillVisible ==
  ASSUME NEW live, NEW s, Full(s, live), NEW t, Shape(t), t.groups = s.groups, NEW id \in Ids(s)
  PROVE  Visible(t, id) \in Windows
<1>1. Listing(s.groups)
  BY DEF Full, Shape
<1>2. id \in Ids(t) /\ Tabs(t, id) = Tabs(s, id)
  BY SameGroups
<1>3. Tabs(s, id) # <<>> /\ Tabs(s, id) \in Seq(Windows)
  BY <1>1, ListingFacts DEF Full
<1>4. Tabs(s, id)[1] \in Windows
  BY <1>3, Elements
<1> QED
  BY <1>2, <1>3, <1>4, VisibleIsATab

LEMMA ApplySelectTabKeeps ==
  ASSUME IInv, ApplySelectTab(Reconcile(ws, Listed))
  PROVE  IInv'
<1> DEFINE s == Reconcile(ws, Listed)
<1>1. PICK id \in Ids(s) : \E w \in ToSet(Tabs(s, id)) :
        Apply(s, SelectTab(s, id, w), AskedFor(s, w),
              IF Visible(SelectTab(s, id, w), id) = Visible(s, id) THEN 0
              ELSE Visible(SelectTab(s, id, w), id))
  BY DEF ApplySelectTab
<1>2. PICK w \in ToSet(Tabs(s, id)) :
        Apply(s, SelectTab(s, id, w), AskedFor(s, w),
              IF Visible(SelectTab(s, id, w), id) = Visible(s, id) THEN 0
              ELSE Visible(SelectTab(s, id, w), id))
  BY <1>1
<1> DEFINE t == SelectTab(s, id, w)
           activated == IF Visible(t, id) = Visible(s, id) THEN 0 ELSE Visible(t, id)
<1>3. Full(s, Listed) /\ Shape(s) /\ ToSet(Tabs(s, id)) \subseteq Windows
  BY MutatedFrom
<1>4. Apply(Reconcile(ws, Listed), t, AskedFor(s, w), activated)
  BY <1>2
<1>s. s = Reconcile(ws, Listed)
  OBVIOUS
<1> HIDE DEF s
<1>5. Keeps(s, t) /\ t.groups = s.groups
  BY <1>3, SelectTabKeeps
<1>6. AskedFor(s, w) \in SUBSET (Windows \cup {0})
  BY <1>3, AskedForGives
<1> HIDE DEF t
<1>7. Visible(t, id) \in Windows
  BY <1>3, <1>5, StillVisible DEF Keeps
<1>8. activated \in Windows \cup {0}
  BY <1>7
<1> HIDE DEF activated
<1> QED
  BY <1>4, <1>5, <1>6, <1>8, <1>s, Applied

LEMMA ApplyMoveWindowKeeps ==
  ASSUME IInv, ApplyMoveWindow(Reconcile(ws, Listed))
  PROVE  IInv'
<1> DEFINE s == Reconcile(ws, Listed)
<1>1. PICK w \in AllWindows(s), target \in Ids(s) : \E index \in 0 .. Len(Tabs(s, target)) :
        Apply(s, MoveWindowToGroup(s, w, target, index), {w},
              IF GroupOf(s, w) = target THEN 0 ELSE w)
  BY DEF ApplyMoveWindow
<1>2. PICK index \in 0 .. Len(Tabs(s, target)) :
        Apply(s, MoveWindowToGroup(s, w, target, index), {w},
              IF GroupOf(s, w) = target THEN 0 ELSE w)
  BY <1>1
<1>3. Shape(s) /\ w \in Windows /\ Len(Tabs(s, target)) \in Nat
  BY MutatedFrom
<1>s. s = Reconcile(ws, Listed)
  OBVIOUS
<1> HIDE DEF s
<1>4. index \in Nat
  BY <1>3
<1>5. Keeps(s, MoveWindowToGroup(s, w, target, index))
  BY <1>3, <1>4, MoveWindowToGroupKeeps
<1> DEFINE activated == IF GroupOf(s, w) = target THEN 0 ELSE w
<1>6. {w} \in SUBSET (Windows \cup {0}) /\ activated \in Windows \cup {0}
  BY <1>3
<1> HIDE DEF activated
<1>7. Apply(Reconcile(ws, Listed), MoveWindowToGroup(s, w, target, index), {w}, activated)
  BY <1>2, <1>s DEF activated
<1> QED
  BY <1>5, <1>6, <1>7, <1>s, Applied

LEMMA ApplyMoveGroupKeeps ==
  ASSUME IInv, ApplyMoveGroup(Reconcile(ws, Listed))
  PROVE  IInv'
<1> DEFINE s == Reconcile(ws, Listed)
<1>1. PICK source \in Ids(s), target \in Ids(s) : \E index \in 0 .. Len(Tabs(s, target)) :
        Apply(s, MoveGroupToGroup(s, source, target, index), ToSet(Tabs(s, source)),
              Visible(s, source))
  BY DEF ApplyMoveGroup
<1>2. PICK index \in 0 .. Len(Tabs(s, target)) :
        Apply(s, MoveGroupToGroup(s, source, target, index), ToSet(Tabs(s, source)),
              Visible(s, source))
  BY <1>1
<1>3. /\ Shape(s) /\ Len(Tabs(s, target)) \in Nat /\ Tabs(s, source) # <<>>
      /\ ToSet(Tabs(s, source)) \subseteq Windows /\ Visible(s, source) \in Windows
  BY MutatedFrom
<1>s. s = Reconcile(ws, Listed)
  OBVIOUS
<1> HIDE DEF s
<1>4. index \in Nat
  BY <1>3
<1>5. Keeps(s, MoveGroupToGroup(s, source, target, index))
  BY <1>3, <1>4, MoveGroupToGroupKeeps
<1>6. /\ ToSet(Tabs(s, source)) \in SUBSET (Windows \cup {0})
      /\ Visible(s, source) \in Windows \cup {0}
  BY <1>3
<1>7. Apply(Reconcile(ws, Listed), MoveGroupToGroup(s, source, target, index),
            ToSet(Tabs(s, source)), Visible(s, source))
  BY <1>2, <1>s
<1> QED
  BY <1>5, <1>6, <1>7, <1>s, Applied

LEMMA ApplySplitWindowKeeps ==
  ASSUME IInv, ApplySplitWindow(Reconcile(ws, Listed))
  PROVE  IInv'
<1> DEFINE s == Reconcile(ws, Listed)
<1>1. PICK w \in AllWindows(s) : Apply(s, SplitWindowToOwnGroup(s, w), {w}, w)
  BY DEF ApplySplitWindow
<1>2. Shape(s) /\ w \in Windows
  BY MutatedFrom
<1>s. s = Reconcile(ws, Listed)
  OBVIOUS
<1> HIDE DEF s
<1>3. Keeps(s, SplitWindowToOwnGroup(s, w))
  BY <1>2, SplitWindowToOwnGroupKeeps
<1>4. {w} \in SUBSET (Windows \cup {0}) /\ w \in Windows \cup {0}
  BY <1>2
<1>5. Apply(Reconcile(ws, Listed), SplitWindowToOwnGroup(s, w), {w}, w)
  BY <1>1, <1>s
<1> QED
  BY <1>3, <1>4, <1>5, <1>s, Applied

LEMMA ApplyPinKeeps ==
  ASSUME IInv, ApplyPin(Reconcile(ws, Listed))
  PROVE  IInv'
<1> DEFINE s == Reconcile(ws, Listed)
<1>1. PICK w \in AllWindows(s), pin \in BOOLEAN : Apply(s, SetWindowPinned(s, w, pin), {w}, 0)
  BY DEF ApplyPin
<1>2. Shape(s) /\ Apart(s) /\ w \in Windows
  BY MutatedFrom
<1>s. s = Reconcile(ws, Listed)
  OBVIOUS
<1> HIDE DEF s
<1>3. Keeps(s, SetWindowPinned(s, w, pin))
  BY <1>2, SetWindowPinnedKeeps
<1>4. {w} \in SUBSET (Windows \cup {0}) /\ 0 \in Windows \cup {0}
  BY <1>2
<1>5. Apply(Reconcile(ws, Listed), SetWindowPinned(s, w, pin), {w}, 0)
  BY <1>1, <1>s
<1> QED
  BY <1>3, <1>4, <1>5, <1>s, Applied

LEMMA ApplyEnterSplitKeeps ==
  ASSUME IInv, ApplyEnterSplit(Reconcile(ws, Listed))
  PROVE  IInv'
<1> DEFINE s == Reconcile(ws, Listed)
<1>1. PICK id \in Ids(s) : \E w \in ToSet(Tabs(s, id)) :
        Apply(s, EnterSplit(s, id, w), {w}, Visible(EnterSplit(s, id, w), id))
  BY DEF ApplyEnterSplit
<1>2. PICK w \in ToSet(Tabs(s, id)) :
        Apply(s, EnterSplit(s, id, w), {w}, Visible(EnterSplit(s, id, w), id))
  BY <1>1
<1> DEFINE t == EnterSplit(s, id, w)
<1>3. Full(s, Listed) /\ Shape(s) /\ ToSet(Tabs(s, id)) \subseteq Windows
  BY MutatedFrom
<1>4. Apply(Reconcile(ws, Listed), t, {w}, Visible(t, id))
  BY <1>2
<1>s. s = Reconcile(ws, Listed)
  OBVIOUS
<1> HIDE DEF s
<1>5. Keeps(s, t) /\ t.groups = s.groups
  BY <1>3, EnterSplitKeeps
<1> HIDE DEF t
<1>6. Visible(t, id) \in Windows
  BY <1>3, <1>5, StillVisible DEF Keeps
<1>7. {w} \in SUBSET (Windows \cup {0}) /\ Visible(t, id) \in Windows \cup {0}
  BY <1>3, <1>6
<1> QED
  BY <1>4, <1>5, <1>7, <1>s, Applied

LEMMA ApplyExitSplitKeeps ==
  ASSUME IInv, ApplyExitSplit(Reconcile(ws, Listed))
  PROVE  IInv'
<1> DEFINE s == Reconcile(ws, Listed)
<1>1. PICK id \in DOMAIN s.left :
        Apply(s, WithoutSplit(s, id), ToSet(Tabs(s, id)), Visible(WithoutSplit(s, id), id))
  BY DEF ApplyExitSplit
<1> DEFINE t == WithoutSplit(s, id)
<1>2. Full(s, Listed) /\ Shape(s) /\ id \in Ids(s) /\ ToSet(Tabs(s, id)) \subseteq Windows
  BY MutatedFrom DEF Full
<1>3. Apply(Reconcile(ws, Listed), t, ToSet(Tabs(s, id)), Visible(t, id))
  BY <1>1
<1>s. s = Reconcile(ws, Listed)
  OBVIOUS
<1> HIDE DEF s
<1>4. Shape(t) /\ t.groups = s.groups /\ t.pinned = s.pinned
  BY <1>2, WithoutSplitKeeps
<1> HIDE DEF t
<1>5. Keeps(s, t)
  BY <1>4, SameGroups DEF Keeps
<1>6. Visible(t, id) \in Windows
  BY <1>2, <1>4, StillVisible
<1>7. /\ ToSet(Tabs(s, id)) \in SUBSET (Windows \cup {0})
      /\ Visible(t, id) \in Windows \cup {0}
  BY <1>2, <1>6
<1> QED
  BY <1>3, <1>5, <1>7, <1>s, Applied

LEMMA ApplyRestoreKeeps ==
  ASSUME IInv, ApplyRestore(Reconcile(ws, Listed))
  PROVE  IInv'
<1> DEFINE s == Reconcile(ws, Listed)
<1>1. PICK session \in Sessions :
        /\ registered' = registered /\ hidden' = hidden
        /\ FinishLaidOut(Reconcile(Restore(s, session), Listed),
                         UNION {ToSet(g.windows) : g \in ToSet(session.groups)})
  BY DEF ApplyRestore
<1> DEFINE r     == Restore(s, session)
           t     == Reconcile(r, Listed)
           about == UNION {ToSet(g.windows) : g \in ToSet(session.groups)}
<1>2. /\ Listed \subseteq registered /\ Listed \in SUBSET Windows /\ IsFiniteSet(Listed)
      /\ Full(s, Listed) /\ (SessionsLead /\ ~custom_auto => PinnedLead(s))
  BY RegistryFacts, Synced
<1>3. /\ registered' \subseteq Windows /\ IsFiniteSet(registered') /\ hidden' \subseteq registered'
      /\ registered' \ hidden' \subseteq Listed /\ Listed \subseteq registered'
  BY <1>1, RegistryFacts DEF Listed
<1>4. FinishLaidOut(t, about)
  BY <1>1
<1>5. about \in SUBSET (Windows \cup {0})
  <2>1. session.groups \in Seq(Entry)
    BY SessionFacts
  <2>2. \A g \in ToSet(session.groups) : g \in Entry
    BY <2>1, Elements
  <2>3. \A g \in Entry : g.windows \in Seq(Windows)
    BY DEF Entry
  <2>4. \A g \in ToSet(session.groups) : ToSet(g.windows) \subseteq Windows
    BY <2>2, <2>3, Elements
  <2> QED
    BY <2>4
<1> HIDE DEF s, about
<1>6. SessionsLead => SavedLead(session)
  BY DEF SessionsLead, SavedLead, Led
<1>7. Full(r, Listed) /\ (SavedLead(session) /\ PinnedLead(s) => PinnedLead(r))
  BY <1>2, RestoreGives
<1> HIDE DEF r
<1>8. Full(t, Listed) /\ Keeps(r, t)
  <2>1. Shape(r)
    BY <1>7 DEF Full
  <2> QED
    BY <1>2, <2>1, ReconcileGives
<1>9. SessionsLead /\ ~custom_auto => PinnedLead(t)
  BY <1>2, <1>6, <1>7, <1>8 DEF Keeps
<1> HIDE DEF t
<1> QED
  BY <1>3, <1>4, <1>5, <1>8, <1>9, LandedLaidOut

-----------------------------------------------------------------------------
LEMMA MutationKeeps ==
  ASSUME IInv, Mutation
  PROVE  IInv'
<1> DEFINE s == Reconcile(ws, Listed)
<1>1. \/ ApplySelectTab(s) \/ ApplyMoveWindow(s) \/ ApplyMoveGroup(s) \/ ApplySplitWindow(s)
      \/ ApplyPin(s) \/ ApplyEnterSplit(s) \/ ApplyExitSplit(s) \/ ApplyRestore(s)
  BY DEF Mutation
<1> QED
  BY <1>1, ApplySelectTabKeeps, ApplyMoveWindowKeeps, ApplyMoveGroupKeeps, ApplySplitWindowKeeps,
     ApplyPinKeeps, ApplyEnterSplitKeeps, ApplyExitSplitKeeps, ApplyRestoreKeeps

LEMMA NextKeeps == IInv /\ [Next]_vars => IInv'
<1> SUFFICES ASSUME IInv, [Next]_vars PROVE IInv'
  OBVIOUS
<1>1. CASE Registry
  <2>1. PICK w \in Windows :
          \/ Register(w) \/ Show(w) \/ Hide(w)
          \/ CloseHosted(w) \/ DestroyDeferred(w) \/ Destroy(w)
    BY <1>1 DEF Registry
  <2> QED
    BY <2>1, RegisterKeeps, ShowKeeps, HideKeeps, CloseHostedKeeps, DestroyDeferredKeeps,
       DestroyKeeps
<1>2. CASE MoveEndSurfaceless
  BY <1>2, MoveEndSurfacelessKeeps
<1>3. CASE Sync
  BY <1>3, SyncKeeps
<1>4. CASE \E w \in Windows : Focus(w)
  BY <1>4, FocusKeeps
<1>5. CASE Mutation
  BY <1>5, MutationKeeps
<1>6. CASE UNCHANGED vars
  <2>1. SessionsLead' <=> SessionsLead
    BY DEF SessionsLead
  <2>2. Lead' <=> Lead
    BY <1>6, <2>1 DEF vars, Lead
  <2>3. EveryListedWindowIsATab'
    BY <1>6 DEF vars, IInv, EveryListedWindowIsATab, Listed
  <2> QED
    BY <1>6, <2>2, <2>3 DEF vars, IInv
<1> QED
  BY <1>1, <1>2, <1>3, <1>4, <1>5, <1>6 DEF Next

LEMMA Invariant == Spec => []IInv
<1> QED
  BY InitGives, NextKeeps, PTL DEF Spec

-----------------------------------------------------------------------------
(* The state, the registry and what a request was about have their types:  *)
(* workspace_state is made of groups with unique numbers, its entries are  *)
(* of groups there are, and the sequence stays within its bound.           *)
THEOREM TypeCorrect == Spec => []TypeOK
<1>1. IInv => TypeOK
  <2> SUFFICES ASSUME IInv PROVE TypeOK
    OBVIOUS
  <2>1. /\ Shape(ws) /\ Listing(ws.groups) /\ DOMAIN ws.active = Ids(ws)
        /\ DOMAIN ws.left \subseteq Ids(ws) /\ ws.pinned \subseteq Windows
        /\ ws.next_group_seq \in Nat \ {0}
    BY DEF IInv, Full, Shape
  <2>2. ws.next_group_seq \in 1 .. MaxSeq
    BY <2>1, WorkspaceAssumption DEF IInv
  <2>3. \A i \in DOMAIN ws.groups : ws.groups[i].id \in Nat /\ ws.groups[i].windows \in Seq(Windows)
    BY <2>1, ListingFacts
  <2> QED
    BY <2>1, <2>2, <2>3 DEF IInv, TypeOK
<1> QED
  BY <1>1, Invariant, PTL

(* invariant_warnings never finds anything after a handler: whatever the   *)
(* requests, windows and restored sessions, and in whatever order.         *)
THEOREM NothingToWarnOf == Spec => []NoInvariantWarnings
<1>1. IInv => NoInvariantWarnings
  <2> SUFFICES ASSUME IInv PROVE NoInvariantWarnings
    OBVIOUS
  <2>1. Full(ws, AllWindows(ws)) /\ Shape(ws) /\ Listing(ws.groups) /\ Apart(ws)
    BY DEF IInv, Full, Shape
  <2>2. /\ \A id \in Ids(ws) : /\ Tabs(ws, id) # <<>>
                               /\ ws.active[id] \in ToSet(Tabs(ws, id))
        /\ ws.pinned \subseteq AllWindows(ws)
        /\ \A id \in DOMAIN ws.left : /\ ws.left[id] \in ToSet(Tabs(ws, id))
                                      /\ ws.active[id] # ws.left[id]
    BY <2>1 DEF Full
  <2>3. ASSUME NEW i \in DOMAIN ws.groups, NEW j \in DOMAIN ws.groups, i # j
        PROVE  /\ ws.groups[i].id # ws.groups[j].id
               /\ ToSet(ws.groups[i].windows) \cap ToSet(ws.groups[j].windows) = {}
    <3>1. ws.groups[i].id # ws.groups[j].id
      BY <2>1, <2>3 DEF Listing
    <3>2. ws.groups[i] \in ToSet(ws.groups) /\ ws.groups[j] \in ToSet(ws.groups)
      BY <2>1, Elements DEF Listing
    <3>3. ws.groups[i] # ws.groups[j]
      BY <3>1
    <3> QED
      BY <2>1, <3>1, <3>2, <3>3 DEF Apart
  <2>4. ASSUME NEW g \in ToSet(ws.groups)
        PROVE  /\ g.windows # <<>> /\ IsInjective(g.windows)
               /\ Contains(g.windows, ws.active[g.id])
               /\ g.id \in DOMAIN ws.left =>
                    Contains(g.windows, ws.left[g.id]) /\ ws.active[g.id] # ws.left[g.id]
    <3>1. /\ g.id \in Ids(ws) /\ g.windows = Tabs(ws, g.id)
          /\ Tabs(ws, g.id) \in Seq(Windows) /\ IsInjective(Tabs(ws, g.id))
      BY <2>1, Members, ListingFacts
    <3>2. \A x : Contains(g.windows, x) <=> x \in ToSet(g.windows)
      BY <3>1, Elements
    <3> QED
      BY <2>2, <3>1, <3>2
  <2> QED
    BY <2>2, <2>3, <2>4 DEF NoInvariantWarnings
<1> QED
  BY <1>1, Invariant, PTL

(* No window that is listed is missing from the workspace, and no tab is   *)
(* left of a window that is gone, also between synchronisations.           *)
THEOREM ListedAreTabs == Spec => []EveryListedWindowIsATab
<1>1. IInv => EveryListedWindowIsATab
  BY DEF IInv
<1> QED
  BY <1>1, Invariant, PTL

(* reconcile and detach may take the next number without a look at the     *)
(* groups: also after restored sessions, whose groups keep their numbers.  *)
THEOREM NextIdIsFree == Spec => []GroupIdsFresh
<1>1. IInv => GroupIdsFresh
  BY DEF IInv, Full, Shape, GroupIdsFresh
<1> QED
  BY <1>1, Invariant, PTL

(* Pinned tabs stay in front of their group through every mutation, every  *)
(* change of the registry and every restored session, unless an output has *)
(* a custom automatic layout that merges groups, or had when it was saved. *)
THEOREM PinnedFirst == Spec => []PinnedTabsLeadUnmerged
<1>1. IInv => PinnedTabsLeadUnmerged
  <2> SUFFICES ASSUME IInv, SessionsLead, ~custom_auto PROVE PinnedTabsLead
    BY DEF PinnedTabsLeadUnmerged
  <2>1. PinnedLead(ws) /\ Listing(ws.groups)
    BY DEF IInv, Lead, Full, Shape
  <2>2. \A g \in ToSet(ws.groups) : Led(ws.pinned, g.windows)
    BY <2>1, LedBySet
  <2> QED
    BY <2>2 DEF PinnedTabsLead, Led
<1> QED
  BY <1>1, Invariant, PTL
-----------------------------------------------------------------------------
(* What a request activates is shown.                                      *)

\* w is a tab of the group id, of no other, and what the group shows.
Shows(s, id, w) ==
  /\ id \in Ids(s) /\ w \in ToSet(Tabs(s, id))
  /\ \A other \in Ids(s) \ {id} : w \notin ToSet(Tabs(s, other))
  /\ id \in DOMAIN s.active /\ s.active[id] = w
  /\ id \in DOMAIN s.left => s.left[id] # w

LEMMA ShowsVisible ==
  ASSUME NEW s, Shape(s), NEW id, NEW w, Shows(s, id, w)
  PROVE  w \in AllWindows(s) /\ GroupOf(s, w) = id /\ Visible(s, id) = w
<1>1. Listing(s.groups)
  BY DEF Shape
<1>2. w \in AllWindows(s)
  BY <1>1, TabsByIds DEF Shows
<1>3. GroupOf(s, w) \in Ids(s) /\ w \in ToSet(Tabs(s, GroupOf(s, w)))
  BY <1>1, <1>2, GroupOfFinds
<1>4. GroupOf(s, w) = id
  BY <1>3 DEF Shows
<1>5. Visible(s, id) = w
  BY DEF Shows, Visible, Normalized, ActiveTab
<1> QED
  BY <1>2, <1>4, <1>5

\* Where no window is a tab of two groups, an active tab that is not the left one
\* is shown.
LEMMA ActiveShows ==
  ASSUME NEW s, Shape(s), Apart(s), NEW id \in Ids(s), id \in DOMAIN s.active,
         s.active[id] \in ToSet(Tabs(s, id)),
         id \in DOMAIN s.left => s.left[id] # s.active[id]
  PROVE  Shows(s, id, s.active[id])
<1>1. \A other \in Ids(s) \ {id} : s.active[id] \notin ToSet(Tabs(s, other))
  <2>1. Listing(s.groups)
    BY DEF Shape
  <2>2. \A other \in Ids(s) : id # other => ToSet(Tabs(s, id)) \cap ToSet(Tabs(s, other)) = {}
    BY <2>1, TabsByIds
  <2> QED
    BY <2>2
<1> QED
  BY <1>1 DEF Shows

LEMMA ShowsValid ==
  ASSUME NEW s, Shape(s), NEW id, NEW w, Shows(s, id, w)
  PROVE  Shows(ValidSplits(s), id, w)
<1> DEFINE t == ValidSplits(s)
<1>1. /\ t.groups = s.groups
      /\ \A other \in DOMAIN t.left : other \in DOMAIN s.left /\ t.left[other] = s.left[other]
      /\ \A other \in DOMAIN s.active :
           s.active[other] \in ToSet(Tabs(s, other))
             /\ (other \in DOMAIN s.left => s.left[other] # s.active[other])
           => other \in DOMAIN t.active /\ t.active[other] = s.active[other]
  BY ValidSplitsGives
<1> HIDE DEF t
<1>2. Ids(t) = Ids(s) /\ \A other : Tabs(t, other) = Tabs(s, other)
  BY <1>1, SameGroups
<1>3. id \in DOMAIN t.active /\ t.active[id] = w
  BY <1>1 DEF Shows
<1>4. id \in DOMAIN t.left => t.left[id] # w
  BY <1>1 DEF Shows
<1>5. Shows(t, id, w)
  BY <1>2, <1>3, <1>4 DEF Shows
<1> QED
  BY <1>5 DEF t

\* Reconciling leaves a live window where it is shown.
LEMMA ShowsReconciled ==
  ASSUME NEW s, Shape(s), NEW live \in SUBSET Windows, IsFiniteSet(live),
         NEW id, NEW w \in live, Shows(s, id, w)
  PROVE  Shows(Reconcile(s, live), id, w)
<1>1. PICK u : /\ Reconcile(s, live) = ValidSplits(u)
               /\ Shape(u) /\ Apart(u) /\ AllWindows(u) = live
               /\ \A x \in Ids(u) : Tabs(u, x) # <<>>
               /\ DOMAIN u.active = Ids(u)
               /\ \A x \in Ids(u) : u.active[x] \in ToSet(Tabs(u, x))
               /\ u.pinned \subseteq live /\ u.left = s.left
               /\ PinnedLead(s) => PinnedLead(u)
               /\ ToSet(ClaimLive(s.groups, live)) \subseteq ToSet(u.groups)
               /\ \A x \in Ids(u) \cap DOMAIN s.active :
                    s.active[x] \in ToSet(Tabs(u, x)) => u.active[x] = s.active[x]
  BY ReconcileMakes
<1>2. Listing(s.groups) /\ Listing(u.groups)
  BY <1>1 DEF Shape
<1>0. id \in Ids(s) /\ w \in ToSet(Tabs(s, id))
  BY DEF Shows
<1>3. PICK i \in DOMAIN s.groups : s.groups[i].id = id
  BY <1>2, <1>0, ListingFacts
<1>4. w \in ToSet(s.groups[i].windows) \cap live
  <2>1. Tabs(s, s.groups[i].id) = s.groups[i].windows
    BY <1>2, ListingFacts
  <2> QED
    BY <1>3, <1>0, <2>1
<1>5. ASSUME NEW j \in DOMAIN s.groups \ {i} PROVE w \notin ToSet(s.groups[j].windows)
  <2>1. s.groups[j].id # id
    BY <1>2, <1>3, <1>5 DEF Listing
  <2>2. s.groups[j].id \in Ids(s) /\ Tabs(s, s.groups[j].id) = s.groups[j].windows
    BY <1>2, <1>5, ListingFacts
  <2> QED
    BY <2>1, <2>2 DEF Shows
<1>6. HoldsClaimed(s.groups, live, ClaimLive(s.groups, live))
  BY <1>2, ClaimLiveGives
<1>7. PICK g \in ToSet(ClaimLive(s.groups, live)) : g.id = id /\ w \in ToSet(g.windows)
  BY <1>3, <1>4, <1>5, <1>6 DEF HoldsClaimed
<1>8. id \in Ids(u) /\ w \in ToSet(Tabs(u, id))
  <2>1. g \in ToSet(u.groups)
    BY <1>1, <1>7
  <2>2. g.id \in Ids(u) /\ Tabs(u, g.id) = g.windows
    BY <1>2, <2>1, Members
  <2> QED
    BY <1>7, <2>2
<1>9. id \in DOMAIN s.active /\ s.active[id] = w /\ (id \in DOMAIN s.left => s.left[id] # w)
  BY DEF Shows
<1>10. u.active[id] = w
  BY <1>1, <1>8, <1>9
<1>11. Shows(u, id, w)
  BY <1>1, <1>8, <1>9, <1>10, ActiveShows
<1> QED
  BY <1>1, <1>11, ShowsValid

ActivatedShown ==
  request.activated # 0 => Visible(ws, GroupOf(ws, request.activated)) = request.activated

\* A mutation that shows what it activates: focus finds it shown.
LEMMA AppliedShows ==
  ASSUME IInv, NEW next, Keeps(Reconcile(ws, Listed), next), NEW windows, NEW activated,
         Apply(Reconcile(ws, Listed), next, windows, activated),
         next # Reconcile(ws, Listed) /\ activated # 0
         => activated \in Listed /\ \E id : Shows(next, id, activated)
  PROVE  ActivatedShown'
<1> DEFINE s == Reconcile(ws, Listed)
           r == Reconcile(next, Listed)
           t == SelectForFocus(r, activated, Listed)
<1>1. Finish(s, windows, 0) \/ (next # s /\ Finish(t, windows, activated))
  BY DEF Apply
<1>2. next # s /\ activated # 0 => activated \in Listed /\ \E id : Shows(next, id, activated)
  OBVIOUS
<1>3. Shape(next) /\ Listed \in SUBSET Windows /\ IsFiniteSet(Listed)
  BY RegistryFacts, Synced DEF Keeps
<1> HIDE DEF s
<1>4. Full(r, Listed)
  BY <1>3, ReconcileGives
<1>5. CASE Finish(s, windows, 0)
  <2>1. request'.activated = 0
    BY <1>5 DEF Finish
  <2> QED
    BY <2>1 DEF ActivatedShown
<1>6. CASE next # s /\ Finish(t, windows, activated) /\ activated = 0
  <2>1. request'.activated = 0
    BY <1>6 DEF Finish
  <2> QED
    BY <2>1 DEF ActivatedShown
<1>7. CASE next # s /\ Finish(t, windows, activated) /\ activated # 0
  <2>1. PICK id : Shows(next, id, activated)
    BY <1>2, <1>7
  <2>2. activated \in Listed
    BY <1>2, <1>7
  <2>3. Shows(r, id, activated)
    BY <1>3, <2>1, <2>2, ShowsReconciled
  <2> HIDE DEF r
  <2>4. Shape(r)
    BY <1>4 DEF Full
  <2>5. activated \in AllWindows(r) /\ GroupOf(r, activated) = id /\ Visible(r, id) = activated
    BY <2>3, <2>4, ShowsVisible
  <2>6. t = r
    BY <2>5 DEF SelectForFocus
  <2> HIDE DEF t
  <2>7. ws' = r /\ request'.activated = activated
    BY <1>7, <2>6 DEF Finish
  <2>8. GroupOf(ws', activated) = id /\ Visible(ws', id) = activated
    BY <2>5, <2>7
  <2> QED
    BY <2>7, <2>8 DEF ActivatedShown
<1> QED
  BY <1>1, <1>5, <1>6, <1>7

-----------------------------------------------------------------------------
(* What each mutation shows.                                               *)

LEMMA SelectTabShows ==
  ASSUME NEW live, NEW s, Full(s, live), NEW id \in Ids(s), NEW w \in ToSet(Tabs(s, id))
  PROVE  Shows(SelectTab(s, id, w), id, Visible(SelectTab(s, id, w), id))
<1> DEFINE n == Normalized(s, id, w)
           t == SetActive(s, id, n)
<1>1. /\ Shape(s) /\ Apart(s) /\ Listing(s.groups)
      /\ Tabs(s, id) \in Seq(Windows) /\ w \in Windows
  BY ListingFacts DEF Full, Shape
<1>2. SelectTab(s, id, w) = t
  <2>1. Contains(Tabs(s, id), w)
    BY <1>1, Elements
  <2> QED
    BY <2>1 DEF SelectTab
<1>3. n \in Windows /\ n \in ToSet(Tabs(s, id))
  BY <1>1, VisibleIsATab
<1>4. id \in DOMAIN s.left => s.left[id] # n
  <2> SUFFICES ASSUME id \in DOMAIN s.left PROVE s.left[id] # n
    OBVIOUS
  <2> DEFINE rest == Rest(Tabs(s, id), w)
  <2>1. n = IF s.left[id] = w /\ rest # <<>> THEN rest[1] ELSE w
    BY DEF Normalized
  <2>2. s.active[id] \in ToSet(Tabs(s, id)) /\ s.active[id] # s.left[id]
    BY DEF Full
  <2>3. /\ ToSet(rest) = ToSet(Tabs(s, id)) \ {w}
        /\ rest # <<>> => rest[1] \in ToSet(Tabs(s, id)) \ {w}
    BY <1>1, RestIs
  <2>4. ToSet(<<>>) = {}
    BY DEF ToSet
  <2> HIDE DEF n, rest
  <2>5. s.left[id] = w => rest # <<>>
    BY <2>2, <2>3, <2>4
  <2> QED
    BY <2>1, <2>3, <2>5
<1> HIDE DEF n
<1>5. /\ Shape(t) /\ t.groups = s.groups /\ t.left = s.left
      /\ DOMAIN t.active = DOMAIN s.active \cup {id} /\ t.active[id] = n
  BY <1>1, <1>3, SetActiveKeeps
<1> HIDE DEF t
<1>6. Ids(t) = Ids(s) /\ (\A other : Tabs(t, other) = Tabs(s, other)) /\ Apart(t)
  BY <1>1, <1>5, SameGroups DEF Apart
<1>7. Shows(t, id, n)
  BY <1>3, <1>4, <1>5, <1>6, ActiveShows
<1>8. Visible(t, id) = n
  BY <1>5, <1>7, ShowsVisible
<1> QED
  BY <1>2, <1>7, <1>8

LEMMA SetTabsTabs ==
  ASSUME NEW s, Shape(s), NEW id \in Ids(s), NEW tabs \in Seq(Windows), IsInjective(tabs)
  PROVE  /\ Shape(SetTabs(s, id, tabs)) /\ Ids(SetTabs(s, id, tabs)) = Ids(s)
         /\ SetTabs(s, id, tabs).left = s.left
         /\ \A other \in Ids(s) :
              Tabs(SetTabs(s, id, tabs), other) = IF other = id THEN tabs ELSE Tabs(s, other)
<1> DEFINE t == SetTabs(s, id, tabs)
<1>1. /\ Shape(t) /\ Ids(t) = Ids(s)
      /\ t.active = s.active /\ t.pinned = s.pinned /\ t.left = s.left
      /\ t.next_group_seq = s.next_group_seq
      /\ DOMAIN t.groups = DOMAIN s.groups
      /\ \A i \in DOMAIN s.groups :
           t.groups[i] = IF s.groups[i].id = id THEN [id |-> id, windows |-> tabs]
                         ELSE s.groups[i]
      /\ \A other \in Ids(s) : Tabs(t, other) = IF other = id THEN tabs ELSE Tabs(s, other)
      /\ Led(s.pinned, tabs) /\ PinnedLead(s) => PinnedLead(t)
  BY SetTabsKeeps
<1> HIDE DEF t
<1> QED
  BY <1>1 DEF t

\* A window that leaves a group is a tab of none.
LEMMA TakeOutLeaves ==
  ASSUME NEW s, Shape(s), Apart(s), NEW w \in AllWindows(s)
  PROVE  LET t == TakeOut(s, w)
         IN  /\ \A other \in Ids(t) : w \notin ToSet(Tabs(t, other))
             /\ DOMAIN t.left \subseteq DOMAIN s.left
<1> DEFINE t == TakeOut(s, w)
           id == GroupOf(s, w)
           rest == Rest(Tabs(s, id), w)
           cut == SetTabs(s, id, rest)
           then == IF id \in DOMAIN s.active /\ Contains(rest, s.active[id])
                   THEN s.active[id] ELSE rest[1]
<1>1. /\ Listing(s.groups) /\ id \in Ids(s) /\ w \in ToSet(Tabs(s, id))
      /\ Tabs(s, id) \in Seq(Windows) /\ IsInjective(Tabs(s, id))
  BY GroupOfFinds, ListingFacts DEF Shape
<1>2. /\ Ids(t) \subseteq Ids(s)
      /\ \A other \in Ids(s) \ {id} : other \in Ids(t) /\ Tabs(t, other) = Tabs(s, other)
  BY TakeOutKeeps
<1>3. t = IF rest = <<>> THEN DropGroup(s, id) ELSE SetActive(cut, id, then)
  BY DEF TakeOut
<1> HIDE DEF t, id
<1>4. \A other \in Ids(s) \ {id} : w \notin ToSet(Tabs(s, other))
  <2>1. \A other \in Ids(s) : id # other => ToSet(Tabs(s, id)) \cap ToSet(Tabs(s, other)) = {}
    BY <1>1, TabsByIds
  <2> QED
    BY <1>1, <2>1
<1>5. \A other \in Ids(t) \ {id} : w \notin ToSet(Tabs(t, other))
  BY <1>2, <1>4
<1>6. /\ rest \in Seq(Windows) /\ IsInjective(rest) /\ w \notin ToSet(rest)
      /\ rest # <<>> => rest[1] \in Windows
  BY <1>1, RestIs
<1> HIDE DEF rest
<1>7. CASE rest = <<>>
  <2>1. t = DropGroup(s, id)
    BY <1>3, <1>7
  <2>2. Ids(t) = Ids(s) \ {id} /\ DOMAIN t.left = DOMAIN s.left \ {id}
    BY <2>1, DropGroupKeeps
  <2> QED
    BY <1>5, <2>2 DEF t
<1>8. CASE rest # <<>>
  <2>1. t = SetActive(cut, id, then)
    BY <1>3, <1>8
  <2>2. /\ Shape(cut) /\ cut.left = s.left
        /\ \A other \in Ids(s) : Tabs(cut, other) = IF other = id THEN rest ELSE Tabs(s, other)
    BY <1>1, <1>6, SetTabsTabs
  <2>3. then \in Windows
    BY <1>6, <1>8 DEF Shape
  <2> HIDE DEF cut, then
  <2>4. t.groups = cut.groups /\ t.left = cut.left
    BY <2>1, <2>2, <2>3, SetActiveKeeps
  <2>5. Tabs(t, id) = rest
    BY <1>1, <2>2, <2>4, SameGroups
  <2>6. \A other \in Ids(t) : w \notin ToSet(Tabs(t, other))
    BY <1>5, <1>6, <2>5
  <2> QED
    BY <2>2, <2>4, <2>6 DEF t
<1> QED
  BY <1>7, <1>8

LEMMA MoveWindowShows ==
  ASSUME NEW s, Shape(s), Apart(s), NEW w \in AllWindows(s), NEW target \in Ids(s),
         GroupOf(s, w) # target, NEW index \in Nat
  PROVE  Shows(MoveWindowToGroup(s, w, target, index), target, w)
<1> DEFINE tabs == InsertIntoGroup(s.pinned, Tabs(s, target), w, index)
           out  == TakeOut(s, w)
           put  == SetTabs(out, target, tabs)
           whole == WithoutSplit(put, target)
           shown == SetActive(whole, target, w)
<1>1. Listing(s.groups) /\ w \in Windows
  BY GroupOfFinds DEF Shape
<1>2. Tabs(s, target) \in Seq(Windows) /\ IsInjective(Tabs(s, target))
  BY <1>1, ListingFacts
<1>3. /\ tabs \in Seq(Windows) /\ IsInjective(tabs)
      /\ ToSet(tabs) = ToSet(Tabs(s, target)) \cup {w}
      /\ Led(s.pinned, Tabs(s, target)) => Led(s.pinned, tabs)
  BY <1>1, <1>2, InsertIntoGroupGives
<1>4. MoveWindowToGroup(s, w, target, index) = ValidSplits(shown)
  BY DEF MoveWindowToGroup
<1> HIDE DEF tabs
<1>5. Keeps(s, out) /\ target \in Ids(out)
  BY TakeOutKeeps
<1>6. \A other \in Ids(out) : w \notin ToSet(Tabs(out, other))
  BY TakeOutLeaves
<1> HIDE DEF out
<1>7. Shape(out)
  BY <1>5 DEF Keeps
<1>8. /\ Shape(put) /\ Ids(put) = Ids(out)
      /\ \A other \in Ids(out) : Tabs(put, other) = IF other = target THEN tabs ELSE Tabs(out, other)
  BY <1>3, <1>5, <1>7, SetTabsTabs
<1> HIDE DEF put
<1>9. Shape(whole) /\ whole.groups = put.groups /\ DOMAIN whole.left = DOMAIN put.left \ {target}
  BY <1>8, WithoutSplitKeeps
<1> HIDE DEF whole
<1>10. /\ Shape(shown) /\ shown.groups = whole.groups /\ shown.left = whole.left
       /\ DOMAIN shown.active = DOMAIN whole.active \cup {target}
       /\ shown.active[target] = w
  BY <1>1, <1>9, SetActiveKeeps
<1> HIDE DEF shown
<1>11. Ids(shown) = Ids(put) /\ \A other : Tabs(shown, other) = Tabs(put, other)
  BY <1>9, <1>10, SameGroups
<1>12. w \in ToSet(Tabs(shown, target))
  BY <1>3, <1>5, <1>8, <1>11
<1>13. \A other \in Ids(shown) \ {target} : w \notin ToSet(Tabs(shown, other))
  BY <1>6, <1>8, <1>11
<1>14. Shows(shown, target, w)
  BY <1>5, <1>8, <1>9, <1>10, <1>11, <1>12, <1>13 DEF Shows
<1> QED
  BY <1>4, <1>10, <1>14, ShowsValid

LEMMA MoveGroupShows ==
  ASSUME NEW live, NEW s, Full(s, live), NEW source \in Ids(s), NEW target \in Ids(s),
         source # target, NEW index \in Nat
  PROVE  Shows(MoveGroupToGroup(s, source, target, index), target, Visible(s, source))
<1> DEFINE tabs     == Tabs(s, target)
           theirs   == Tabs(s, source)
           pinned   == Kept(theirs, s.pinned)
           unpinned == Kept(theirs, Windows \ s.pinned)
           at       == Min({index, Len(tabs)})
           first    == Min({at, LeadingPinned(s.pinned, tabs)})
           led      == InsertAll(s.pinned, tabs, pinned, first)
           behind   == Max({at + Len(pinned), LeadingPinned(s.pinned, led)})
           all      == InsertAll(s.pinned, led, unpinned, behind)
           put      == SetTabs(s, target, all)
           merged   == DropGroup(put, source)
           whole    == WithoutSplit(merged, target)
           v        == Visible(s, source)
           shown    == SetActive(whole, target, v)
<1>1. MoveGroupToGroup(s, source, target, index) = ValidSplits(shown)
  BY DEF MoveGroupToGroup
<1>2. Shape(s) /\ Apart(s) /\ Listing(s.groups) /\ theirs # <<>>
  BY DEF Full, Shape
<1>3. /\ tabs \in Seq(Windows) /\ IsInjective(tabs)
      /\ theirs \in Seq(Windows) /\ ToSet(theirs) \subseteq Windows
  BY <1>2, ListingFacts
<1>4. v \in ToSet(theirs) /\ v \in Windows
  <2>1. theirs[1] \in Windows
    BY <1>2, <1>3, Elements
  <2>2. source \in DOMAIN s.active => s.active[source] \in ToSet(Tabs(s, source))
    BY DEF Full
  <2> QED
    BY <1>2, <2>1, <2>2, VisibleIsATab
<1>5. \A other \in Ids(s) \ {source} : v \notin ToSet(Tabs(s, other))
  <2>1. \A other \in Ids(s) :
          source # other => ToSet(Tabs(s, source)) \cap ToSet(Tabs(s, other)) = {}
    BY <1>2, TabsByIds
  <2> QED
    BY <1>4, <2>1
<1> HIDE DEF tabs, theirs, v
<1>6. /\ pinned \in Seq(Windows) /\ ToSet(pinned) = ToSet(theirs) \cap s.pinned
      /\ unpinned \in Seq(Windows) /\ ToSet(unpinned) = ToSet(theirs) \cap (Windows \ s.pinned)
  BY <1>3, KeptSet
<1> HIDE DEF pinned, unpinned
<1>7. Len(tabs) \in Nat /\ Len(pinned) \in Nat /\ LeadingPinned(s.pinned, tabs) \in Nat
  BY <1>3, <1>6, LeadingPinnedLeads
<1>8. at \in Nat
  <2>1. index \in Int /\ Len(tabs) \in Int
    BY <1>7
  <2>2. at \in {index, Len(tabs)}
    BY <2>1, MinOfTwo
  <2> QED
    BY <1>7, <2>2
<1> HIDE DEF at
<1>9. first \in Nat
  <2>1. at \in Int /\ LeadingPinned(s.pinned, tabs) \in Int
    BY <1>7, <1>8
  <2>2. first \in {at, LeadingPinned(s.pinned, tabs)}
    BY <2>1, MinOfTwo
  <2> QED
    BY <1>7, <1>8, <2>2
<1> HIDE DEF first
<1>10. /\ led \in Seq(Windows) /\ IsInjective(led)
       /\ ToSet(led) = ToSet(tabs) \cup ToSet(pinned)
       /\ Led(s.pinned, tabs) => Led(s.pinned, led)
  BY <1>3, <1>6, <1>9, InsertAllGives
<1> HIDE DEF led
<1>11. behind \in Nat
  <2>1. LeadingPinned(s.pinned, led) \in Nat
    BY <1>10, LeadingPinnedLeads
  <2>2. at + Len(pinned) \in Int /\ LeadingPinned(s.pinned, led) \in Int /\ at + Len(pinned) \in Nat
    BY <1>7, <1>8, <2>1
  <2>3. behind \in {at + Len(pinned), LeadingPinned(s.pinned, led)}
    BY <2>2, MinOfTwo
  <2> QED
    BY <2>1, <2>2, <2>3
<1> HIDE DEF behind
<1>12. /\ all \in Seq(Windows) /\ IsInjective(all)
       /\ ToSet(all) = ToSet(led) \cup ToSet(unpinned)
       /\ Led(s.pinned, led) => Led(s.pinned, all)
  BY <1>6, <1>10, <1>11, InsertAllGives
<1> HIDE DEF all
<1>13. v \in ToSet(all)
  BY <1>4, <1>6, <1>10, <1>12
<1>14. /\ Shape(put) /\ Ids(put) = Ids(s)
       /\ \A other \in Ids(s) : Tabs(put, other) = IF other = target THEN all ELSE Tabs(s, other)
  BY <1>2, <1>12, SetTabsTabs
<1> HIDE DEF put
<1>15. /\ Keeps(put, merged) /\ Ids(merged) = Ids(put) \ {source}
       /\ \A other \in Ids(put) \ {source} : Tabs(merged, other) = Tabs(put, other)
  BY <1>14, DropGroupKeeps
<1> HIDE DEF merged
<1>16. /\ Shape(whole) /\ whole.groups = merged.groups
       /\ DOMAIN whole.left = DOMAIN merged.left \ {target}
  BY <1>15, WithoutSplitKeeps DEF Keeps
<1> HIDE DEF whole
<1>17. /\ Shape(shown) /\ shown.groups = whole.groups /\ shown.left = whole.left
       /\ DOMAIN shown.active = DOMAIN whole.active \cup {target}
       /\ shown.active[target] = v
  BY <1>4, <1>16, SetActiveKeeps
<1> HIDE DEF shown
<1>18. Ids(shown) = Ids(merged) /\ \A other : Tabs(shown, other) = Tabs(merged, other)
  BY <1>16, <1>17, SameGroups
<1>19. Ids(shown) = Ids(s) \ {source} /\ target \in Ids(shown) /\ Tabs(shown, target) = all
  BY <1>14, <1>15, <1>18
<1>20. \A other \in Ids(shown) \ {target} : v \notin ToSet(Tabs(shown, other))
  BY <1>5, <1>14, <1>15, <1>18, <1>19
<1>21. Shows(shown, target, v)
  BY <1>13, <1>16, <1>17, <1>19, <1>20 DEF Shows
<1>22. Shows(ValidSplits(shown), target, v)
  BY <1>17, <1>21, ShowsValid
<1> QED
  BY <1>1, <1>22 DEF v

LEMMA SplitWindowShows ==
  ASSUME NEW live, NEW s, Full(s, live), NEW w \in AllWindows(s),
         SplitWindowToOwnGroup(s, w) # s
  PROVE  Shows(SplitWindowToOwnGroup(s, w), s.next_group_seq, w)
<1> DEFINE seq   == s.next_group_seq
           out   == TakeOut(s, w)
           split == Detached(s, w)
           shown == SetActive(split, seq, w)
<1>1. SplitWindowToOwnGroup(s, w) = ValidSplits(shown) /\ ~(Len(Tabs(s, GroupOf(s, w))) < 2)
  BY DEF SplitWindowToOwnGroup, Detached, Alone
<1>2. /\ Shape(s) /\ Apart(s) /\ DOMAIN s.left \subseteq Ids(s)
      /\ \A id \in Ids(s) : id < seq
  BY DEF Full, Shape
<1>3. w \in Windows /\ seq \in Nat /\ \A id \in Ids(s) : id \in Nat
  BY <1>2, GroupOfFinds, ListingFacts DEF Shape
<1>4. seq \notin Ids(s)
  BY <1>2, <1>3
<1>5. /\ Shape(split) /\ split.left = out.left
      /\ ToSet(split.groups) = ToSet(out.groups) \cup {Alone(s, w)}
      /\ Shape(out) /\ Ids(out) \subseteq Ids(s)
  BY <1>1, <1>2, DetachedGives
<1>6. /\ \A other \in Ids(out) : w \notin ToSet(Tabs(out, other))
      /\ DOMAIN out.left \subseteq DOMAIN s.left
  BY <1>2, TakeOutLeaves
<1>7. Alone(s, w).id = seq /\ Alone(s, w).windows = <<w>> /\ ToSet(<<w>>) = {w}
  BY DEF Alone, ToSet
<1> HIDE DEF out, split, seq
<1>8. Listing(split.groups) /\ Listing(out.groups)
  BY <1>5 DEF Shape
<1>9. seq \in Ids(split) /\ w \in ToSet(Tabs(split, seq))
  <2>1. Alone(s, w) \in ToSet(split.groups)
    BY <1>5
  <2>2. Alone(s, w).id \in Ids(split) /\ Tabs(split, Alone(s, w).id) = Alone(s, w).windows
    BY <1>8, <2>1, Members
  <2> QED
    BY <1>7, <2>2
<1>10. ASSUME NEW other \in Ids(split) \ {seq} PROVE w \notin ToSet(Tabs(split, other))
  <2>1. PICK g \in ToSet(split.groups) : g.id = other /\ g.windows = Tabs(split, other)
    BY <1>8, Members
  <2>2. g \in ToSet(out.groups)
    BY <1>5, <1>7, <1>10, <2>1
  <2>3. other \in Ids(out) /\ Tabs(out, other) = g.windows
    BY <1>8, <2>1, <2>2, Members
  <2> QED
    BY <1>6, <2>1, <2>3
<1>11. /\ Shape(shown) /\ shown.groups = split.groups /\ shown.left = split.left
       /\ DOMAIN shown.active = DOMAIN split.active \cup {seq}
       /\ shown.active[seq] = w
  BY <1>3, <1>5, SetActiveKeeps
<1> HIDE DEF shown
<1>12. Ids(shown) = Ids(split) /\ \A other : Tabs(shown, other) = Tabs(split, other)
  BY <1>11, SameGroups
<1>13. seq \notin DOMAIN shown.left
  BY <1>2, <1>4, <1>5, <1>6, <1>11
<1>14. Shows(shown, seq, w)
  BY <1>9, <1>10, <1>11, <1>12, <1>13 DEF Shows
<1>15. Shows(ValidSplits(shown), seq, w)
  BY <1>11, <1>14, ShowsValid
<1> QED
  BY <1>1, <1>15 DEF seq

LEMMA EnterSplitShows ==
  ASSUME NEW live, NEW s, Full(s, live), NEW id \in Ids(s), NEW w, EnterSplit(s, id, w) # s
  PROVE  Shows(EnterSplit(s, id, w), id, Visible(EnterSplit(s, id, w), id))
<1> DEFINE left  == With(s.left, id, w)
           split == [s EXCEPT !.left = left]
           t     == ValidSplits(split)
<1>1. EnterSplit(s, id, w) = t
  BY DEF EnterSplit
<1>2. /\ Shape(s) /\ Apart(s) /\ IsState(s) /\ DOMAIN s.active = Ids(s)
      /\ \A x \in Ids(s) : s.active[x] \in ToSet(Tabs(s, x))
  BY DEF Full, Shape
<1> HIDE DEF left
<1>3. split = [groups |-> s.groups, active |-> s.active, pinned |-> s.pinned, left |-> left,
               next_group_seq |-> s.next_group_seq]
  BY <1>2 DEF IsState
<1> HIDE DEF split
<1>4. /\ IsState(split) /\ split.groups = s.groups /\ split.active = s.active
      /\ split.pinned = s.pinned /\ split.next_group_seq = s.next_group_seq
  BY <1>3 DEF IsState
<1>5. Ids(split) = Ids(s) /\ \A x : Tabs(split, x) = Tabs(s, x)
  BY <1>4, SameGroups
<1>6. Shape(split)
  BY <1>2, <1>4, <1>5 DEF Shape
<1>7. DOMAIN split.active = Ids(split) /\ \A x \in Ids(split) : split.active[x] \in ToSet(Tabs(split, x))
  BY <1>2, <1>4, <1>5
<1>8. /\ Keeps(split, t) /\ t.groups = split.groups
      /\ DOMAIN t.active = Ids(split)
      /\ \A x \in Ids(split) : t.active[x] \in ToSet(Tabs(split, x))
      /\ \A x \in DOMAIN t.left : t.active[x] # t.left[x]
  BY <1>6, <1>7, ValidSplitsGives
<1> HIDE DEF t
<1>9. /\ Ids(t) = Ids(s) /\ (\A x : Tabs(t, x) = Tabs(s, x)) /\ Apart(t) /\ Shape(t)
  <2>1. t.groups = s.groups
    BY <1>4, <1>8
  <2> QED
    BY <1>2, <1>8, <2>1, SameGroups DEF Apart, Keeps
<1>10. /\ id \in DOMAIN t.active /\ t.active[id] \in ToSet(Tabs(t, id))
       /\ id \in DOMAIN t.left => t.left[id] # t.active[id]
  BY <1>5, <1>8, <1>9
<1>11. Shows(t, id, t.active[id])
  BY <1>9, <1>10, ActiveShows
<1>12. Visible(t, id) = t.active[id]
  BY <1>9, <1>11, ShowsVisible
<1> QED
  BY <1>1, <1>11, <1>12

LEMMA ExitSplitShows ==
  ASSUME NEW live, NEW s, Full(s, live), NEW id \in Ids(s)
  PROVE  Shows(WithoutSplit(s, id), id, Visible(WithoutSplit(s, id), id))
<1> DEFINE t == WithoutSplit(s, id)
<1>1. Shape(s) /\ Apart(s) /\ id \in DOMAIN s.active /\ s.active[id] \in ToSet(Tabs(s, id))
  BY DEF Full
<1>2. /\ Shape(t) /\ t.groups = s.groups /\ t.active = s.active
      /\ DOMAIN t.left = DOMAIN s.left \ {id}
  BY <1>1, WithoutSplitKeeps
<1> HIDE DEF t
<1>3. Ids(t) = Ids(s) /\ (\A x : Tabs(t, x) = Tabs(s, x)) /\ Apart(t)
  BY <1>1, <1>2, SameGroups DEF Apart
<1>4. Shows(t, id, t.active[id])
  BY <1>1, <1>2, <1>3, ActiveShows
<1>5. Visible(t, id) = t.active[id]
  BY <1>2, <1>4, ShowsVisible
<1> QED
  BY <1>4, <1>5 DEF t

LEMMA ShownIsLive ==
  ASSUME NEW live, NEW s, Full(s, live), NEW t, t.groups = s.groups, NEW id, NEW w,
         Shows(t, id, w)
  PROVE  w \in live
<1>1. Listing(s.groups) /\ AllWindows(s) = live
  BY DEF Full, Shape
<1>2. id \in Ids(s) /\ w \in ToSet(Tabs(s, id))
  BY SameGroups DEF Shows
<1> QED
  BY <1>1, <1>2, TabsByIds

LEMMA SelectTabActivates ==
  ASSUME IInv, ApplySelectTab(Reconcile(ws, Listed))
  PROVE  ActivatedShown'
<1> DEFINE s == Reconcile(ws, Listed)
<1>1. PICK id \in Ids(s) : \E w \in ToSet(Tabs(s, id)) :
        Apply(s, SelectTab(s, id, w), AskedFor(s, w),
              IF Visible(SelectTab(s, id, w), id) = Visible(s, id) THEN 0
              ELSE Visible(SelectTab(s, id, w), id))
  BY DEF ApplySelectTab
<1>2. PICK w \in ToSet(Tabs(s, id)) :
        Apply(s, SelectTab(s, id, w), AskedFor(s, w),
              IF Visible(SelectTab(s, id, w), id) = Visible(s, id) THEN 0
              ELSE Visible(SelectTab(s, id, w), id))
  BY <1>1
<1> DEFINE t == SelectTab(s, id, w)
           v == Visible(t, id)
           activated == IF v = Visible(s, id) THEN 0 ELSE v
           windows == AskedFor(s, w)
<1>3. Full(s, Listed) /\ Shape(s)
  BY MutatedFrom
<1>4. Apply(s, t, windows, activated)
  BY <1>2
<1>5. s = Reconcile(ws, Listed)
  OBVIOUS
<1> HIDE DEF s, windows
<1>6. Keeps(s, t) /\ t.groups = s.groups
  BY <1>3, SelectTabKeeps
<1>7. Shows(t, id, v)
  BY <1>3, SelectTabShows
<1> HIDE DEF t, v
<1>8. v \in Listed
  BY <1>3, <1>6, <1>7, ShownIsLive
<1>9. activated \in {0, v}
  OBVIOUS
<1> HIDE DEF activated
<1>10. activated # 0 => activated \in Listed /\ \E x : Shows(t, x, activated)
  BY <1>7, <1>8, <1>9
<1> QED
  BY <1>4, <1>5, <1>6, <1>10, AppliedShows

LEMMA MoveWindowActivates ==
  ASSUME IInv, ApplyMoveWindow(Reconcile(ws, Listed))
  PROVE  ActivatedShown'
<1> DEFINE s == Reconcile(ws, Listed)
<1>1. PICK w \in AllWindows(s), target \in Ids(s) : \E index \in 0 .. Len(Tabs(s, target)) :
        Apply(s, MoveWindowToGroup(s, w, target, index), {w},
              IF GroupOf(s, w) = target THEN 0 ELSE w)
  BY DEF ApplyMoveWindow
<1>2. PICK index \in 0 .. Len(Tabs(s, target)) :
        Apply(s, MoveWindowToGroup(s, w, target, index), {w},
              IF GroupOf(s, w) = target THEN 0 ELSE w)
  BY <1>1
<1>3. /\ Full(s, Listed) /\ Shape(s) /\ Apart(s) /\ Len(Tabs(s, target)) \in Nat
      /\ AllWindows(s) = Listed
  BY MutatedFrom DEF Full
<1>4. s = Reconcile(ws, Listed)
  OBVIOUS
<1> HIDE DEF s
<1>5. index \in Nat
  BY <1>3
<1> DEFINE t == MoveWindowToGroup(s, w, target, index)
           activated == IF GroupOf(s, w) = target THEN 0 ELSE w
<1>6. Keeps(s, t)
  BY <1>3, <1>5, MoveWindowToGroupKeeps
<1>7. GroupOf(s, w) # target => Shows(t, target, w)
  BY <1>3, <1>5, MoveWindowShows
<1> HIDE DEF t
<1>8. activated # 0 => activated \in Listed /\ \E x : Shows(t, x, activated)
  BY <1>3, <1>7
<1> HIDE DEF activated
<1>9. Apply(s, t, {w}, activated)
  BY <1>2 DEF t, activated
<1> QED
  BY <1>4, <1>6, <1>8, <1>9, AppliedShows

LEMMA MoveGroupActivates ==
  ASSUME IInv, ApplyMoveGroup(Reconcile(ws, Listed))
  PROVE  ActivatedShown'
<1> DEFINE s == Reconcile(ws, Listed)
<1>1. PICK source \in Ids(s), target \in Ids(s) : \E index \in 0 .. Len(Tabs(s, target)) :
        Apply(s, MoveGroupToGroup(s, source, target, index), ToSet(Tabs(s, source)),
              Visible(s, source))
  BY DEF ApplyMoveGroup
<1>2. PICK index \in 0 .. Len(Tabs(s, target)) :
        Apply(s, MoveGroupToGroup(s, source, target, index), ToSet(Tabs(s, source)),
              Visible(s, source))
  BY <1>1
<1>3. /\ Full(s, Listed) /\ Shape(s) /\ Listing(s.groups) /\ Len(Tabs(s, target)) \in Nat
      /\ Tabs(s, source) # <<>> /\ AllWindows(s) = Listed
      /\ Visible(s, source) \in Windows
      /\ source \in DOMAIN s.active => s.active[source] \in ToSet(Tabs(s, source))
  BY MutatedFrom DEF Full
<1>4. s = Reconcile(ws, Listed)
  OBVIOUS
<1> HIDE DEF s
<1>5. index \in Nat
  BY <1>3
<1> DEFINE t == MoveGroupToGroup(s, source, target, index)
           v == Visible(s, source)
           windows == ToSet(Tabs(s, source))
<1>6. Keeps(s, t)
  BY <1>3, <1>5, MoveGroupToGroupKeeps
<1>7. t # s => source # target
  BY DEF MoveGroupToGroup
<1>8. source # target => Shows(t, target, v)
  BY <1>3, <1>5, MoveGroupShows
<1>9. v \in Listed
  <2>1. v \in ToSet(Tabs(s, source))
    BY <1>3, VisibleIsATab
  <2> QED
    BY <1>3, <2>1, TabsByIds
<1>10. Apply(s, t, windows, v)
  BY <1>2
<1> HIDE DEF t, v, windows
<1>11. t # s /\ v # 0 => v \in Listed /\ \E x : Shows(t, x, v)
  BY <1>7, <1>8, <1>9
<1> QED
  BY <1>4, <1>6, <1>10, <1>11, AppliedShows

LEMMA SplitWindowActivates ==
  ASSUME IInv, ApplySplitWindow(Reconcile(ws, Listed))
  PROVE  ActivatedShown'
<1> DEFINE s == Reconcile(ws, Listed)
<1>1. PICK w \in AllWindows(s) : Apply(s, SplitWindowToOwnGroup(s, w), {w}, w)
  BY DEF ApplySplitWindow
<1>2. Full(s, Listed) /\ Shape(s) /\ AllWindows(s) = Listed
  BY MutatedFrom DEF Full
<1>3. s = Reconcile(ws, Listed)
  OBVIOUS
<1> HIDE DEF s
<1> DEFINE t == SplitWindowToOwnGroup(s, w)
<1>4. Keeps(s, t)
  BY <1>2, SplitWindowToOwnGroupKeeps
<1>5. t # s => Shows(t, s.next_group_seq, w)
  BY <1>2, SplitWindowShows
<1>6. Apply(s, t, {w}, w)
  BY <1>1
<1> HIDE DEF t
<1>7. t # s /\ w # 0 => w \in Listed /\ \E x : Shows(t, x, w)
  BY <1>2, <1>5
<1> QED
  BY <1>3, <1>4, <1>6, <1>7, AppliedShows

LEMMA EnterSplitActivates ==
  ASSUME IInv, ApplyEnterSplit(Reconcile(ws, Listed))
  PROVE  ActivatedShown'
<1> DEFINE s == Reconcile(ws, Listed)
<1>1. PICK id \in Ids(s) : \E w \in ToSet(Tabs(s, id)) :
        Apply(s, EnterSplit(s, id, w), {w}, Visible(EnterSplit(s, id, w), id))
  BY DEF ApplyEnterSplit
<1>2. PICK w \in ToSet(Tabs(s, id)) :
        Apply(s, EnterSplit(s, id, w), {w}, Visible(EnterSplit(s, id, w), id))
  BY <1>1
<1> DEFINE t == EnterSplit(s, id, w)
           v == Visible(t, id)
<1>3. Full(s, Listed) /\ Shape(s)
  BY MutatedFrom
<1>4. s = Reconcile(ws, Listed)
  OBVIOUS
<1> HIDE DEF s
<1>5. Keeps(s, t) /\ t.groups = s.groups
  BY <1>3, EnterSplitKeeps
<1>6. t # s => Shows(t, id, v)
  BY <1>3, EnterSplitShows
<1>7. Apply(s, t, {w}, v)
  BY <1>2
<1> HIDE DEF t, v
<1>8. t # s /\ v # 0 => v \in Listed /\ \E x : Shows(t, x, v)
  BY <1>3, <1>5, <1>6, ShownIsLive
<1> QED
  BY <1>4, <1>5, <1>7, <1>8, AppliedShows

LEMMA ExitSplitActivates ==
  ASSUME IInv, ApplyExitSplit(Reconcile(ws, Listed))
  PROVE  ActivatedShown'
<1> DEFINE s == Reconcile(ws, Listed)
<1>1. PICK id \in DOMAIN s.left :
        Apply(s, WithoutSplit(s, id), ToSet(Tabs(s, id)), Visible(WithoutSplit(s, id), id))
  BY DEF ApplyExitSplit
<1> DEFINE t == WithoutSplit(s, id)
           v == Visible(t, id)
           windows == ToSet(Tabs(s, id))
<1>2. Full(s, Listed) /\ Shape(s) /\ id \in Ids(s)
  BY MutatedFrom DEF Full
<1>3. s = Reconcile(ws, Listed)
  OBVIOUS
<1> HIDE DEF s
<1>4. Shape(t) /\ t.groups = s.groups /\ t.pinned = s.pinned
  BY <1>2, WithoutSplitKeeps
<1>5. Shows(t, id, v)
  BY <1>2, ExitSplitShows
<1>6. Apply(s, t, windows, v)
  BY <1>1
<1> HIDE DEF t, v, windows
<1>7. Keeps(s, t)
  BY <1>4, SameGroups DEF Keeps
<1>8. v \in Listed
  BY <1>2, <1>4, <1>5, ShownIsLive
<1> QED
  BY <1>3, <1>5, <1>6, <1>7, <1>8, AppliedShows

\* Other handlers activate nothing.
LEMMA NoneActivated ==
  ASSUME request'.activated = 0
  PROVE  ActivatedShown'
BY DEF ActivatedShown

LEMMA ActivatedShownKept ==
  ASSUME IInv, ActivatedShown, [Next]_vars
  PROVE  ActivatedShown'
<1> DEFINE s == Reconcile(ws, Listed)
<1>1. ASSUME NEW w \in Windows, Register(w) PROVE ActivatedShown'
  <2>1. request' = request /\ ws' = ws
    BY <1>1 DEF Register
  <2> QED
    BY <2>1 DEF ActivatedShown
<1>2. ASSUME NEW w \in Windows,
             Show(w) \/ Hide(w) \/ CloseHosted(w) \/ DestroyDeferred(w) \/ Destroy(w) \/ Focus(w)
      PROVE  ActivatedShown'
  <2>1. request'.activated = 0
    BY <1>2 DEF Show, Hide, CloseHosted, DestroyDeferred, Destroy, Focus, Finish, FinishLaidOut
  <2> QED
    BY <2>1, NoneActivated
<1>3. CASE MoveEndSurfaceless \/ Sync \/ ApplyPin(s) \/ ApplyRestore(s)
  <2>1. request'.activated = 0
    BY <1>3 DEF MoveEndSurfaceless, Sync, ApplyPin, ApplyRestore, Apply, Finish, FinishLaidOut
  <2> QED
    BY <2>1, NoneActivated
<1>4. CASE UNCHANGED vars
  <2>1. request' = request /\ ws' = ws
    BY <1>4 DEF vars
  <2> QED
    BY <2>1 DEF ActivatedShown
<1>5. CASE Mutation
  <2>1. \/ ApplySelectTab(s) \/ ApplyMoveWindow(s) \/ ApplyMoveGroup(s) \/ ApplySplitWindow(s)
        \/ ApplyPin(s) \/ ApplyEnterSplit(s) \/ ApplyExitSplit(s) \/ ApplyRestore(s)
    BY <1>5 DEF Mutation
  <2> QED
    BY <1>3, <2>1, SelectTabActivates, MoveWindowActivates, MoveGroupActivates,
       SplitWindowActivates, EnterSplitActivates, ExitSplitActivates
<1>6. CASE Registry
  BY <1>1, <1>2, <1>6 DEF Registry
<1>7. CASE \E w \in Windows : Focus(w)
  BY <1>2, <1>7
<1> QED
  BY <1>3, <1>4, <1>5, <1>6, <1>7 DEF Next

(* What a request activates and the keyboard goes to is on show in its     *)
(* group when the handler ends: whatever tab is selected, moved, detached  *)
(* or put in a split, and whatever the synchronisations on the way do.     *)
THEOREM ActivatedIsShown == Spec => ActivatedTabIsVisible
<1>1. Init => ActivatedShown
  BY DEF Init, ActivatedShown
<1>2. IInv /\ ActivatedShown /\ [Next]_vars => ActivatedShown'
  BY ActivatedShownKept
<1>3. ActivatedShown'
      => [request'.activated # 0 =>
            Visible(ws', GroupOf(ws', request'.activated)) = request'.activated]_vars
  BY DEF ActivatedShown
<1> QED
  BY <1>1, <1>2, <1>3, Invariant, PTL DEF Spec, ActivatedTabIsVisible
=============================================================================
