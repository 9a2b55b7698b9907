------------------------- MODULE WindowFocusProofs -------------------------
(***************************************************************************)
(* Proofs about WindowFocus, for any number of windows: the state keeps    *)
(* its shape and no window is twice in the order (TypeCorrect); no window  *)
(* is lost (NoWindowIsLost); no native window comes to lie above the one   *)
(* that has the seat but where FocusAgreesWithStack says (FocusOnTop); a   *)
(* window that had the keyboard and goes leaves the focus to another one   *)
(* (FocusRegained); what clients do takes the focus from no window that    *)
(* could keep it but where that was asked for (NoFocusIsStolen).           *)
(*                                                                         *)
(* The handlers are operators that apply one another, so the proofs follow *)
(* them: a lemma for each operator, in the order of the module, says what  *)
(* it keeps of a state, and a lemma for each group of handlers puts those  *)
(* together. What is kept, Good(s, F), names in F[w] the native windows    *)
(* that may lie above w while w has the seat: a lemma for any F serves the *)
(* invariants, with every window in every F[w], and FocusOnTop, with those *)
(* that lay above w before the step or that the step excuses.              *)
(***************************************************************************)
EXTENDS WindowFocus, FiniteSetTheorems, TLAPS

-----------------------------------------------------------------------------
(* Sequences: sorting a set of numbers, and keeping part of a sequence.    *)

Below(S, w) == {v \in S : v < w}

\* How many members of a set lie below one of them tells it from the others.
LEMMA RankGrows ==
  ASSUME NEW S \in SUBSET Nat, IsFiniteSet(S), NEW w \in S, NEW v \in S
  PROVE  /\ Cardinality(Below(S, w)) \in 0 .. Cardinality(S) - 1
         /\ w < v <=> Cardinality(Below(S, w)) < Cardinality(Below(S, v))
<1>1. ASSUME NEW a \in S, NEW b \in S, a < b
      PROVE  Cardinality(Below(S, a)) < Cardinality(Below(S, b))
  <2>1. /\ a \in Below(S, b) /\ a \notin Below(S, a)
        /\ Below(S, b) \subseteq S
    BY <1>1 DEF Below
  <2>2. ASSUME NEW c \in Below(S, a) PROVE c \in Below(S, b)
    <3>1. c \in S /\ c < a
      BY DEF Below
    <3>2. c < b
      BY <1>1, <3>1
    <3> QED
      BY <3>1, <3>2 DEF Below
  <2>3. Below(S, a) \subseteq Below(S, b)
    BY <2>2
  <2>4. IsFiniteSet(Below(S, b))
    BY <2>1, FS_Subset
  <2> QED
    BY <2>1, <2>3, <2>4, FS_Subset, FS_CardinalityType
<1>2. ASSUME NEW a \in S
      PROVE  Cardinality(Below(S, a)) \in 0 .. Cardinality(S) - 1
  <2>1. Below(S, a) \subseteq S /\ a \notin Below(S, a)
    BY DEF Below
  <2>2. /\ Cardinality(Below(S, a)) < Cardinality(S)
        /\ Cardinality(Below(S, a)) \in Nat /\ Cardinality(S) \in Nat
    BY <2>1, FS_Subset, FS_CardinalityType
  <2> QED
    BY <2>2
<1>3. Cardinality(Below(S, w)) \in Nat /\ Cardinality(Below(S, v)) \in Nat
  BY <1>2
<1>4. CASE w < v
  BY <1>1, <1>2, <1>4
<1>5. CASE w = v
  BY <1>2, <1>3, <1>5
<1>6. CASE v < w
  <2>1. Cardinality(Below(S, v)) < Cardinality(Below(S, w))
    BY <1>1, <1>6
  <2> QED
    BY <1>2, <1>3, <1>6, <2>1
<1> QED
  BY <1>4, <1>5, <1>6

\* Sorted gives every member of the set, once, the smallest first.
LEMMA SortedSorts ==
  ASSUME NEW S \in SUBSET Nat, IsFiniteSet(S)
  PROVE  /\ Cardinality(S) \in Nat
         /\ Sorted(S) \in [1 .. Cardinality(S) -> S]
         /\ \A w \in S : \E i \in 1 .. Cardinality(S) : Sorted(S)[i] = w
         /\ \A i, j \in 1 .. Cardinality(S) : i < j => Sorted(S)[i] < Sorted(S)[j]
<1> DEFINE Rank == [w \in S |-> Cardinality(Below(S, w)) + 1]
           N    == Cardinality(S)
           at(i) == CHOOSE w \in S : Cardinality({v \in S : v < w}) = i - 1
<1>1. N \in Nat
  BY FS_CardinalityType
<1>2. \A w \in S : Cardinality(Below(S, w)) \in 0 .. N - 1
  BY RankGrows
<1>3. Rank \in [S -> 1 .. N]
  BY <1>1, <1>2
<1>4. \A w, v \in S : Rank[w] = Rank[v] => w = v
  <2> SUFFICES ASSUME NEW w \in S, NEW v \in S, Rank[w] = Rank[v] PROVE w = v
    OBVIOUS
  <2>1. Cardinality(Below(S, w)) = Cardinality(Below(S, v))
    BY <1>2
  <2>2. ~(w < v) /\ ~(v < w)
    BY <1>2, <2>1, RankGrows
  <2> QED
    BY <2>2
<1>5. \A i \in 1 .. N : \E w \in S : Rank[w] = i
  <2>1. IsFiniteSet(1 .. N) /\ Cardinality(1 .. N) = N
    BY <1>1, FS_Interval
  <2>2. Rank \in Injection(S, 1 .. N)
    BY <1>3, <1>4 DEF Injection, IsInjective
  <2>3. Rank \in Surjection(S, 1 .. N)
    BY <2>1, <2>2, FS_Injection
  <2> QED
    BY <2>3 DEF Surjection
<1>6. ASSUME NEW i \in 1 .. N
      PROVE  at(i) \in S /\ Rank[at(i)] = i
  <2>1. PICK w \in S : Rank[w] = i
    BY <1>5
  <2>2. Cardinality({v \in S : v < w}) = i - 1
    BY <1>1, <1>2, <2>1 DEF Below
  <2>3. at(i) \in S /\ Cardinality({v \in S : v < at(i)}) = i - 1
    BY <2>2
  <2> QED
    BY <1>1, <2>3 DEF Below
<1>7. Sorted(S) = [i \in 1 .. N |-> at(i)]
  BY DEF Sorted
<1> HIDE DEF N, at
<1>8. Sorted(S) \in [1 .. N -> S]
  BY <1>6, <1>7
<1>9. ASSUME NEW w \in S PROVE \E i \in 1 .. N : Sorted(S)[i] = w
  <2>1. Rank[w] \in 1 .. N
    BY <1>3
  <2>2. at(Rank[w]) \in S /\ Rank[at(Rank[w])] = Rank[w]
    BY <1>6, <2>1
  <2> HIDE DEF Rank
  <2>3. at(Rank[w]) = w
    BY <1>4, <2>2
  <2> QED
    BY <1>7, <2>1, <2>3
<1>10. ASSUME NEW i \in 1 .. N, NEW j \in 1 .. N, i < j
       PROVE  Sorted(S)[i] < Sorted(S)[j]
  <2>1. at(i) \in S /\ at(j) \in S /\ Rank[at(i)] = i /\ Rank[at(j)] = j
    BY <1>6
  <2>2. /\ Cardinality(Below(S, at(i))) + 1 = i /\ Cardinality(Below(S, at(i))) \in 0 .. N - 1
        /\ Cardinality(Below(S, at(j))) + 1 = j /\ Cardinality(Below(S, at(j))) \in 0 .. N - 1
    BY <1>2, <2>1
  <2>3. Cardinality(Below(S, at(i))) < Cardinality(Below(S, at(j)))
    BY <1>1, <1>10, <2>2
  <2>4. at(i) < at(j)
    BY <2>1, <2>3, RankGrows
  <2> QED
    BY <1>7, <2>4
<1> QED
  BY <1>1, <1>8, <1>9, <1>10 DEF N

\* The places of q that Kept keeps.
Places(q, S) == {i \in DOMAIN q : q[i] \in S}

\* Kept keeps the members of S in their order, each place once: place[k] is the
\* place in q of what is at k in what is kept.
LEMMA KeptKeeps ==
  ASSUME NEW T, NEW q \in Seq(T), NEW S
  PROVE  /\ Kept(q, S) \in Seq(T)
         /\ \A k \in DOMAIN Kept(q, S) : Kept(q, S)[k] \in S
         /\ \E place \in [DOMAIN Kept(q, S) -> DOMAIN q] :
              /\ \A k \in DOMAIN Kept(q, S) : Kept(q, S)[k] = q[place[k]]
              /\ \A k, l \in DOMAIN Kept(q, S) : k < l => place[k] < place[l]
              /\ \A i \in DOMAIN q :
                   q[i] \in S => \E k \in DOMAIN Kept(q, S) : place[k] = i
<1> DEFINE All == \A i \in DOMAIN q : q[i] \in S
<1>13. CASE All
  <2> DEFINE r    == Kept(q, S)
             here == [k \in DOMAIN r |-> k]
  <2>1. r = q
    BY <1>13 DEF Kept
  <2> HIDE DEF r
  <2>2. /\ here \in [DOMAIN r -> DOMAIN q]
        /\ \A k \in DOMAIN r : r[k] = q[here[k]]
        /\ \A k, l \in DOMAIN r : k < l => here[k] < here[l]
        /\ \A i \in DOMAIN q : q[i] \in S => \E k \in DOMAIN r : here[k] = i
    BY <2>1
  <2> HIDE DEF here
  <2>3. r \in Seq(T) /\ \A k \in DOMAIN r : r[k] \in S
    BY <1>13, <2>1
  <2> QED
    BY <2>2, <2>3 DEF r
<1> SUFFICES ASSUME ~All
             PROVE  /\ Kept(q, S) \in Seq(T)
                    /\ \A k \in DOMAIN Kept(q, S) : Kept(q, S)[k] \in S
                    /\ \E place \in [DOMAIN Kept(q, S) -> DOMAIN q] :
                         /\ \A k \in DOMAIN Kept(q, S) : Kept(q, S)[k] = q[place[k]]
                         /\ \A k, l \in DOMAIN Kept(q, S) : k < l => place[k] < place[l]
                         /\ \A i \in DOMAIN q :
                              q[i] \in S => \E k \in DOMAIN Kept(q, S) : place[k] = i
  BY <1>13
<1> DEFINE P == Places(q, S)
           at == Sorted(P)
<1>1. /\ DOMAIN q = 1 .. Len(q) /\ Len(q) \in Nat
      /\ \A i \in DOMAIN q : q[i] \in T
  OBVIOUS
<1>2. P \subseteq 1 .. Len(q) /\ P \in SUBSET Nat
  BY <1>1 DEF Places
<1> HIDE DEF P
<1>3. IsFiniteSet(P)
  <2>1. IsFiniteSet(1 .. Len(q))
    BY <1>1, FS_Interval
  <2> QED
    BY <1>2, <2>1, FS_Subset
<1>4. /\ Cardinality(P) \in Nat
      /\ at \in [1 .. Cardinality(P) -> P]
      /\ \A w \in P : \E i \in 1 .. Cardinality(P) : at[i] = w
      /\ \A i, j \in 1 .. Cardinality(P) : i < j => at[i] < at[j]
  BY <1>2, <1>3, SortedSorts
<1>5. Kept(q, S) = [k \in DOMAIN at |-> q[at[k]]]
  BY DEF Kept, P, Places
<1> HIDE DEF at
<1>6. /\ DOMAIN Kept(q, S) = 1 .. Cardinality(P)
      /\ \A k \in 1 .. Cardinality(P) : Kept(q, S)[k] = q[at[k]] /\ at[k] \in P
  BY <1>4, <1>5
<1>7. \A i \in P : i \in DOMAIN q /\ q[i] \in S /\ q[i] \in T
  BY <1>1 DEF P, Places
<1>8. Kept(q, S) \in [1 .. Cardinality(P) -> T]
  BY <1>4, <1>5, <1>6, <1>7
<1>9. Kept(q, S) \in Seq(T)
  BY <1>4, <1>8
<1>10. at \in [DOMAIN Kept(q, S) -> DOMAIN q]
  BY <1>4, <1>6, <1>7
<1>11. \A i \in DOMAIN q : q[i] \in S => i \in P
  BY DEF P, Places
<1>12. \A i \in DOMAIN q : q[i] \in S => \E k \in DOMAIN Kept(q, S) : at[k] = i
  BY <1>4, <1>6, <1>11
<1> QED
  <2>1. \A k \in DOMAIN Kept(q, S) : Kept(q, S)[k] \in S
    BY <1>6, <1>7
  <2>2. \A k \in DOMAIN Kept(q, S) : Kept(q, S)[k] = q[at[k]]
    BY <1>6
  <2>3. \A k, l \in DOMAIN Kept(q, S) : k < l => at[k] < at[l]
    BY <1>4, <1>6
  <2> QED
    BY <1>9, <1>10, <1>12, <2>1, <2>2, <2>3

\* No window is twice in q.
Distinct(q) == \A i, j \in DOMAIN q : q[i] = q[j] => i = j

\* w is in q, above every native window but those in F[w].
TopAt(q, w, F) ==
  \E i \in DOMAIN q : q[i] = w /\ \A j \in DOMAIN q : q[j] \in Native \ F[w] => j <= i

\* The window v may lie above any window that has the seat.
Exempt(v, F) == \A w \in Native : v \in F[w]

\* What is kept, r, are the elements of q that are in S.
ElementsOf(r, q, S) ==
  /\ \A k \in DOMAIN r : \E i \in DOMAIN q : r[k] = q[i]
  /\ \A i \in DOMAIN q : q[i] \in S => \E k \in DOMAIN r : r[k] = q[i]

LEMMA KeptElements ==
  ASSUME NEW T, NEW q \in Seq(T), NEW S
  PROVE  ElementsOf(Kept(q, S), q, S)
<1>1. PICK place \in [DOMAIN Kept(q, S) -> DOMAIN q] :
        /\ \A k \in DOMAIN Kept(q, S) : Kept(q, S)[k] = q[place[k]]
        /\ \A k, l \in DOMAIN Kept(q, S) : k < l => place[k] < place[l]
        /\ \A i \in DOMAIN q :
             q[i] \in S => \E k \in DOMAIN Kept(q, S) : place[k] = i
  BY KeptKeeps
<1> DEFINE r == Kept(q, S)
<1>4. /\ place \in [DOMAIN r -> DOMAIN q]
      /\ \A k \in DOMAIN r : r[k] = q[place[k]]
      /\ \A i \in DOMAIN q : q[i] \in S => \E k \in DOMAIN r : place[k] = i
  BY <1>1
<1> HIDE DEF r
<1>2. ASSUME NEW k \in DOMAIN r PROVE \E i \in DOMAIN q : r[k] = q[i]
  BY <1>4
<1>3. ASSUME NEW i \in DOMAIN q, q[i] \in S PROVE \E k \in DOMAIN r : r[k] = q[i]
  BY <1>3, <1>4
<1> QED
  BY <1>2, <1>3 DEF r, ElementsOf

LEMMA KeptDistinct ==
  ASSUME NEW T, NEW q \in Seq(T), NEW S, Distinct(q)
  PROVE  Distinct(Kept(q, S))
<1> DEFINE r == Kept(q, S)
<1>1. r \in Seq(T)
  BY KeptKeeps
<1>2. PICK place \in [DOMAIN r -> DOMAIN q] :
        /\ \A k \in DOMAIN r : r[k] = q[place[k]]
        /\ \A k, l \in DOMAIN r : k < l => place[k] < place[l]
  BY KeptKeeps
<1> HIDE DEF r
<1>3. ASSUME NEW k \in DOMAIN r, NEW l \in DOMAIN r, r[k] = r[l]
      PROVE  k = l
  <2>1. place[k] = place[l] /\ place[k] \in DOMAIN q
    BY <1>2, <1>3 DEF Distinct
  <2>2. k \in Nat /\ l \in Nat /\ place[k] \in Nat
    BY <1>1, <2>1
  <2>3. ~(k < l) /\ ~(l < k)
    BY <1>2, <2>1, <2>2
  <2> QED
    BY <2>2, <2>3
<1> QED
  BY <1>3 DEF Distinct, r

\* What is at the top stays there when it is kept.
LEMMA KeptTop ==
  ASSUME NEW F, NEW T, NEW q \in Seq(T), NEW S, NEW w \in S, TopAt(q, w, F)
  PROVE  TopAt(Kept(q, S), w, F)
<1> DEFINE r == Kept(q, S)
<1>1. r \in Seq(T)
  BY KeptKeeps
<1>2. PICK place \in [DOMAIN r -> DOMAIN q] :
        /\ \A k \in DOMAIN r : r[k] = q[place[k]]
        /\ \A k, l \in DOMAIN r : k < l => place[k] < place[l]
        /\ \A i \in DOMAIN q : q[i] \in S => \E k \in DOMAIN r : place[k] = i
  BY KeptKeeps
<1> HIDE DEF r
<1>3. PICK i \in DOMAIN q : q[i] = w /\ \A j \in DOMAIN q : q[j] \in Native \ F[w] => j <= i
  BY DEF TopAt
<1>4. PICK k \in DOMAIN r : place[k] = i
  BY <1>2, <1>3
<1>5. r[k] = w
  BY <1>2, <1>3, <1>4
<1>6. ASSUME NEW l \in DOMAIN r, r[l] \in Native \ F[w]
      PROVE  l <= k
  <2>1. place[l] \in DOMAIN q /\ place[l] <= i
    BY <1>2, <1>3, <1>6
  <2>2. k \in Nat /\ l \in Nat /\ place[l] \in Nat /\ i \in Nat
    BY <1>1, <2>1
  <2>3. ~(k < l)
    BY <1>2, <1>4, <2>1, <2>2
  <2> QED
    BY <2>2, <2>3
<1> QED
  BY <1>5, <1>6 DEF TopAt, r

\* A window that is put on top of others is the top, and no window is there twice.
LEMMA AppendOnTop ==
  ASSUME NEW T, NEW q \in Seq(T), NEW w \in T, Distinct(q), \A i \in DOMAIN q : q[i] # w
  PROVE  /\ Append(q, w) \in Seq(T) /\ Distinct(Append(q, w))
         /\ \A F : TopAt(Append(q, w), w, F)
<1> DEFINE r == Append(q, w)
<1>1. /\ r \in Seq(T) /\ DOMAIN r = 1 .. Len(q) + 1 /\ Len(q) \in Nat
      /\ DOMAIN q = 1 .. Len(q)
      /\ r[Len(q) + 1] = w
      /\ \A i \in DOMAIN q : r[i] = q[i]
  OBVIOUS
<1> HIDE DEF r
<1>2. ASSUME NEW i \in DOMAIN r, NEW j \in DOMAIN r, r[i] = r[j]
      PROVE  i = j
  <2>1. CASE i \in DOMAIN q /\ j \in DOMAIN q
    BY <1>1, <1>2, <2>1 DEF Distinct
  <2>2. CASE i \notin DOMAIN q /\ j \in DOMAIN q
    BY <1>1, <1>2, <2>2
  <2>3. CASE i \in DOMAIN q /\ j \notin DOMAIN q
    BY <1>1, <1>2, <2>3
  <2>4. CASE i \notin DOMAIN q /\ j \notin DOMAIN q
    BY <1>1, <2>4
  <2> QED
    BY <2>1, <2>2, <2>3, <2>4
<1>3. \A F : TopAt(r, w, F)
  BY <1>1 DEF TopAt
<1> QED
  BY <1>1, <1>2, <1>3 DEF Distinct, r

\* The top stays the top when a window is put above it that may be there.
LEMMA AppendAbove ==
  ASSUME NEW F, NEW T, NEW q \in Seq(T), NEW w, NEW v, TopAt(q, v, F),
         w \notin Native \ F[v]
  PROVE  TopAt(Append(q, w), v, F)
<1> DEFINE r == Append(q, w)
<1>1. /\ DOMAIN r = 1 .. Len(q) + 1 /\ Len(q) \in Nat
      /\ DOMAIN q = 1 .. Len(q)
      /\ r[Len(q) + 1] = w
      /\ \A i \in DOMAIN q : r[i] = q[i]
  OBVIOUS
<1> HIDE DEF r
<1>2. PICK i \in DOMAIN q : q[i] = v /\ \A j \in DOMAIN q : q[j] \in Native \ F[v] => j <= i
  BY DEF TopAt
<1>3. ASSUME NEW j \in DOMAIN r, r[j] \in Native \ F[v]
      PROVE  j <= i
  <2>1. j \in DOMAIN q
    BY <1>1, <1>3
  <2> QED
    BY <1>1, <1>2, <1>3, <2>1
<1>4. i \in DOMAIN r /\ r[i] = v
  BY <1>1, <1>2
<1> QED
  BY <1>3, <1>4 DEF TopAt, r

\* Putting others below changes nothing above.
LEMMA ConcatBelow ==
  ASSUME NEW T, NEW p \in Seq(T), NEW q \in Seq(T)
  PROVE  /\ p \o q \in Seq(T)
         /\ Distinct(p) /\ Distinct(q) /\ (\A i \in DOMAIN p, j \in DOMAIN q : p[i] # q[j])
              => Distinct(p \o q)
         /\ \A w, F : TopAt(q, w, F) => TopAt(p \o q, w, F)
<1> DEFINE r == p \o q
           n == Len(p)
<1>1. /\ r \in Seq(T) /\ n \in Nat /\ Len(q) \in Nat
      /\ DOMAIN p = 1 .. n /\ DOMAIN q = 1 .. Len(q)
      /\ DOMAIN r = 1 .. n + Len(q)
      /\ \A i \in 1 .. n : r[i] = p[i]
      /\ \A i \in 1 .. Len(q) : r[n + i] = q[i]
  OBVIOUS
<1> HIDE DEF r, n
<1>2. \A i \in DOMAIN r : i \in Nat /\ (i \in 1 .. n
                                  \/ (i - n \in 1 .. Len(q) /\ i = n + (i - n)))
  BY <1>1
<1>3. \A i \in DOMAIN r :
        \/ i \in 1 .. n /\ r[i] = p[i]
        \/ i - n \in 1 .. Len(q) /\ r[i] = q[i - n] /\ i > n
  <2> SUFFICES ASSUME NEW i \in DOMAIN r
               PROVE  \/ i \in 1 .. n /\ r[i] = p[i]
                      \/ i - n \in 1 .. Len(q) /\ r[i] = q[i - n] /\ i > n
    OBVIOUS
  <2>1. CASE i \in 1 .. n
    BY <1>1, <2>1
  <2>2. CASE i \notin 1 .. n
    <3>1. i - n \in 1 .. Len(q) /\ i = n + (i - n)
      BY <1>2, <2>2
    <3>2. r[n + (i - n)] = q[i - n]
      BY <1>1, <3>1
    <3> QED
      BY <1>1, <3>1, <3>2
  <2> QED
    BY <2>1, <2>2
<1>4. ASSUME Distinct(p), Distinct(q), \A i \in DOMAIN p, j \in DOMAIN q : p[i] # q[j]
      PROVE  Distinct(r)
  <2> SUFFICES ASSUME NEW i \in DOMAIN r, NEW j \in DOMAIN r, r[i] = r[j] PROVE i = j
    BY DEF Distinct
  <2>0. i \in Nat /\ j \in Nat
    BY <1>2
  <2>1. CASE i \in 1 .. n /\ r[i] = p[i] /\ j \in 1 .. n /\ r[j] = p[j]
    BY <1>1, <1>4, <2>1 DEF Distinct
  <2>2. CASE /\ i - n \in 1 .. Len(q) /\ r[i] = q[i - n]
             /\ j - n \in 1 .. Len(q) /\ r[j] = q[j - n]
    <3>1. i - n = j - n
      BY <1>1, <1>4, <2>2 DEF Distinct
    <3> QED
      BY <1>1, <2>0, <3>1
  <2>3. CASE i \in 1 .. n /\ r[i] = p[i] /\ j - n \in 1 .. Len(q) /\ r[j] = q[j - n]
    BY <1>1, <1>4, <2>3
  <2>4. CASE j \in 1 .. n /\ r[j] = p[j] /\ i - n \in 1 .. Len(q) /\ r[i] = q[i - n]
    BY <1>1, <1>4, <2>4
  <2> QED
    BY <1>3, <2>1, <2>2, <2>3, <2>4
<1>5. ASSUME NEW w, NEW F, TopAt(q, w, F)
      PROVE  TopAt(r, w, F)
  <2>1. PICK i \in DOMAIN q : q[i] = w /\ \A j \in DOMAIN q : q[j] \in Native \ F[w] => j <= i
    BY <1>5 DEF TopAt
  <2>2. n + i \in DOMAIN r /\ r[n + i] = w /\ i \in Nat /\ i > 0
    BY <1>1, <2>1
  <2>3. ASSUME NEW j \in DOMAIN r, r[j] \in Native \ F[w]
        PROVE  j <= n + i
    <3>1. CASE j \in 1 .. n
      BY <1>1, <2>2, <3>1
    <3>2. CASE j - n \in 1 .. Len(q) /\ r[j] = q[j - n]
      <4>1. j - n <= i
        BY <1>1, <2>1, <2>3, <3>2
      <4> QED
        BY <1>1, <1>2, <2>2, <4>1
    <3> QED
      BY <1>3, <3>1, <3>2
  <2> QED
    BY <2>2, <2>3 DEF TopAt
<1> QED
  BY <1>1, <1>4, <1>5 DEF r

-----------------------------------------------------------------------------
(* What is kept of a state.                                                *)

\* NoWindowLost, of any state.
Safe(s) ==
  \A w \in Native :
    /\ Registered(s, w) => w \in s.shown \cup s.handle
    /\ w \in s.shown => Registered(s, w) /\ ~Minimized(s, w)

\* A window that has not been there is in no scratchpad and no modal restores it, and
\* a handle has a row.
Early(s) ==
  /\ \A w \in Windows : s.life[w] = "new" => w \notin s.scratch /\ w # s.capture.restore
  /\ \A w \in s.handle : Registered(s, w)

Base(s) == s \in States /\ Distinct(s.order) /\ Safe(s) /\ Early(s)

\* The window that has the seat has a row and is in the order, above every native
\* window but those in F of it.
OnTop(s, F) == s.seat # None => Registered(s, s.seat) /\ TopAt(s.order, s.seat, F)

Good(s, F) == Base(s) /\ OnTop(s, F)

\* t differs from s in nothing that says which windows there are, and restores no
\* other window.
SameWindows(s, t) ==
  /\ t.life = s.life /\ t.shown = s.shown /\ t.handle = s.handle
  /\ t.pending = s.pending /\ t.scratch = s.scratch
  /\ t.capture.restore \in {None, s.capture.restore}

LEMMA WindowFacts ==
  /\ Native \subseteq Windows /\ Hosted \subseteq Windows /\ Windows \subseteq Nat
  /\ IsFiniteSet(Windows) /\ None \notin Windows /\ None \notin Native /\ None \notin Hosted
  /\ \A w \in Windows : w \in Native <=> w \notin Hosted
BY WindowFocusAssumption DEF Windows

LEMMA CapturesOf ==
  /\ NoCapture \in Captures /\ ShellUi \in Captures
  /\ None \in Option(Windows) /\ None \in Option(Native)
  /\ \A w \in Option(Windows), kind \in Modals : [kind |-> kind, restore |-> w] \in Captures
  /\ NoCapture.restore = None /\ ShellUi.restore = None
  /\ \A c \in Captures : c.restore \in Option(Windows)
BY DEF Captures, NoCapture, ShellUi, Option

\* And then t keeps what s keeps of the windows.
LEMMA SameWindowsBase ==
  ASSUME NEW s, NEW t \in States, Base(s), SameWindows(s, t), Distinct(t.order)
  PROVE  /\ Base(t)
         /\ \A w : Registered(t, w) <=> Registered(s, w)
         /\ \A w : Minimized(t, w) <=> Minimized(s, w)
BY WindowFacts DEF Base, SameWindows, Safe, Early, Registered, Minimized

\* The order as it is listed: every window with a row, those it does not know below.
LEMMA StackFacts ==
  ASSUME NEW s \in States, Distinct(s.order)
  PROVE  /\ StackIds(s) \in Seq(Windows)
         /\ Distinct(StackIds(s))
         /\ \A w \in Windows : \A F :
              Registered(s, w) /\ TopAt(s.order, w, F) => TopAt(StackIds(s), w, F)
<1> DEFINE new == Rows(s) \ InOrder(s)
           p   == Sorted(new)
           q   == Kept(s.order, Rows(s))
<1>1. s.order \in Seq(Windows)
  BY DEF States
<1>2. new \in SUBSET Nat /\ new \subseteq Windows /\ IsFiniteSet(new)
  BY WindowFacts, FS_Subset DEF Rows
<1>3. /\ Cardinality(new) \in Nat
      /\ p \in [1 .. Cardinality(new) -> new]
      /\ \A i, j \in 1 .. Cardinality(new) : i < j => p[i] < p[j]
  <2> HIDE DEF new
  <2> QED
    BY <1>2, SortedSorts
<1> HIDE DEF p
<1>4. p \in Seq(Windows) /\ DOMAIN p = 1 .. Cardinality(new)
  <2>1. p \in [1 .. Cardinality(new) -> Windows]
    BY <1>2, <1>3
  <2> HIDE DEF new
  <2> QED
    BY <1>3, <2>1
<1>5. Distinct(p)
  <2> SUFFICES ASSUME NEW i \in DOMAIN p, NEW j \in DOMAIN p, p[i] = p[j] PROVE i = j
    BY DEF Distinct
  <2>1. p[i] \in Nat /\ p[j] \in Nat
    BY <1>2, <1>3
  <2>2. i \in 1 .. Cardinality(new) /\ j \in 1 .. Cardinality(new)
    BY <1>3
  <2>3. ~(i < j) /\ ~(j < i)
    <3> HIDE DEF new
    <3> QED
      BY <1>3, <2>1, <2>2
  <2> QED
    BY <1>3, <2>2, <2>3
<1>6. q \in Seq(Windows) /\ Distinct(q)
  BY <1>1, KeptKeeps, KeptDistinct
<1>7. ASSUME NEW i \in DOMAIN p, NEW j \in DOMAIN q
      PROVE  p[i] # q[j]
  <2>1. PICK k \in DOMAIN s.order : q[j] = s.order[k]
    BY <1>1, <1>7, KeptKeeps
  <2>2. q[j] \in InOrder(s)
    BY <2>1 DEF InOrder
  <2>3. p[i] \notin InOrder(s)
    BY <1>3
  <2> QED
    BY <2>2, <2>3
<1>8. StackIds(s) = p \o q
  BY DEF StackIds, p
<1>9. ASSUME NEW w \in Windows, NEW F, Registered(s, w), TopAt(s.order, w, F)
      PROVE  TopAt(q, w, F)
  <2>1. w \in Rows(s)
    BY <1>9 DEF Rows
  <2> QED
    BY <1>1, <1>9, <2>1, KeptTop
<1> HIDE DEF q
<1>10. /\ p \o q \in Seq(Windows) /\ Distinct(p \o q)
       /\ \A w, F : TopAt(q, w, F) => TopAt(p \o q, w, F)
  BY <1>4, <1>5, <1>6, <1>7, ConcatBelow
<1> QED
  BY <1>8, <1>9, <1>10

\* The candidates are valid windows, and the first of them is the highest.
LEMMA CandidateFacts ==
  ASSUME NEW s \in States, Distinct(s.order)
  PROVE  /\ Candidates(s) \in Seq(Windows)
         /\ \A i \in DOMAIN Candidates(s) : Valid(s, Candidates(s)[i])
<1> DEFINE V   == {w \in Windows : Valid(s, w)}
           ids == Kept(StackIds(s), V)
<1>1. ids \in Seq(Windows) /\ \A k \in DOMAIN ids : ids[k] \in V
  BY StackFacts, KeptKeeps
<1>2. \A k \in DOMAIN ids : Valid(s, ids[k])
  BY <1>1
<1>3. Candidates(s) = [i \in DOMAIN ids |-> ids[Len(ids) + 1 - i]]
  BY DEF Candidates
<1> HIDE DEF ids
<1>4. /\ DOMAIN ids = 1 .. Len(ids) /\ Len(ids) \in Nat
      /\ \A i \in DOMAIN ids : Len(ids) + 1 - i \in DOMAIN ids
  BY <1>1
<1>5. Candidates(s) \in [1 .. Len(ids) -> Windows]
  BY <1>1, <1>3, <1>4
<1>6. Candidates(s) \in Seq(Windows)
  BY <1>4, <1>5
<1> QED
  BY <1>2, <1>3, <1>4, <1>6

LEMMA PickNextType ==
  ASSUME NEW s \in States, Distinct(s.order), NEW excluded
  PROVE  PickNext(s, excluded) \in Option(Windows)
<1> DEFINE ids == Kept(Candidates(s), Windows \ {excluded})
<1>1. ids \in Seq(Windows)
  BY CandidateFacts, KeptKeeps
<1>2. PickNext(s, excluded) = IF ids = <<>> THEN None ELSE ids[1]
  BY DEF PickNext
<1> HIDE DEF ids
<1>3. ids # <<>> => ids[1] \in Windows
  BY <1>1
<1> QED
  BY <1>2, <1>3 DEF Option

LEMMA CloseTargetType ==
  ASSUME NEW s \in States, Distinct(s.order), NEW w
  PROVE  CloseTarget(s, w) \in Option(Windows)
BY PickNextType DEF CloseTarget

LEMMA FocusTypes ==
  ASSUME NEW s \in States
  PROVE  /\ KeyboardFocused(s) \in Option(Native)
         /\ LogicalFocused(s) \in Option(Windows)
         /\ \A w \in Option(Windows) : IfValid(s, w) \in Option(Windows)
<1>1. s.seat \in Option(Native) /\ s.ui \in Option(Windows)
  BY DEF States
<1>2. s.capture.kind \notin {"None", "ShellUi"} => s.capture.restore \in Option(Windows)
  BY DEF States, Captures, Modals
<1>3. KeyboardFocused(s) \in Option(Native)
  BY <1>1 DEF KeyboardFocused, Option
<1>4. LogicalFocused(s) \in Option(Windows)
  BY <1>1, <1>2, <1>3, WindowFacts DEF LogicalFocused, Option
<1> QED
  BY <1>3, <1>4 DEF IfValid, Option

-----------------------------------------------------------------------------
(* What the operators of the focus keep.                                   *)

SameSeat(s, t) == t.seat = s.seat /\ t.asked = s.asked /\ t.spawned = s.spawned

\* Where windows, order and seat are the same, everything is kept.
LEMMA SameOrderKeeps ==
  ASSUME NEW s, NEW t \in States, Base(s), SameWindows(s, t),
         t.order = s.order, t.seat = s.seat
  PROVE  Base(t) /\ \A F : OnTop(s, F) => OnTop(t, F)
<1>1. Distinct(t.order)
  BY DEF Base
<1>2. Base(t) /\ \A w : Registered(t, w) <=> Registered(s, w)
  BY <1>1, SameWindowsBase
<1> QED
  BY <1>2 DEF OnTop

LEMMA ReplyKeeps ==
  ASSUME NEW s, Base(s)
  PROVE  /\ Base(Reply(s)) /\ SameWindows(s, Reply(s)) /\ SameSeat(s, Reply(s))
         /\ \A F : OnTop(s, F) => OnTop(Reply(s), F)
<1> DEFINE t == Reply(s)
<1>1. s \in States /\ Distinct(s.order)
  BY DEF Base
<1>2. /\ StackIds(s) \in Seq(Windows) /\ Distinct(StackIds(s))
      /\ \A w \in Windows : \A F :
           Registered(s, w) /\ TopAt(s.order, w, F) => TopAt(StackIds(s), w, F)
  BY <1>1, StackFacts
<1>3. t \in States /\ t.order = StackIds(s) /\ SameWindows(s, t) /\ SameSeat(s, t)
  BY <1>1, <1>2 DEF Reply, States, SameWindows, SameSeat
<1> HIDE DEF t
<1>4. Base(t) /\ \A w : Registered(t, w) <=> Registered(s, w)
  BY <1>2, <1>3, SameWindowsBase
<1>5. s.seat \in Option(Native)
  BY <1>1 DEF States
<1>6. ASSUME NEW F, OnTop(s, F) PROVE OnTop(t, F)
  <2> SUFFICES ASSUME s.seat # None PROVE Registered(t, s.seat) /\ TopAt(t.order, s.seat, F)
    BY <1>3 DEF OnTop, SameSeat
  <2>1. s.seat \in Windows
    BY <1>5, WindowFacts DEF Option
  <2> QED
    BY <1>2, <1>3, <1>4, <1>6, <2>1 DEF OnTop
<1> QED
  BY <1>3, <1>4, <1>6 DEF t

LEMMA TouchKeeps ==
  ASSUME NEW s, Base(s), NEW w \in Windows
  PROVE  /\ Base(Touch(s, w)) /\ SameWindows(s, Touch(s, w)) /\ SameSeat(s, Touch(s, w))
         /\ Registered(s, w) => \A F : TopAt(Touch(s, w).order, w, F)
         /\ \A F : OnTop(s, F) /\ (w \in Native => Exempt(w, F)) => OnTop(Touch(s, w), F)
<1>1. CASE ~Registered(s, w)
  BY <1>1 DEF Touch, SameWindows, SameSeat
<1>2. CASE Registered(s, w)
  <2> DEFINE t == Touch(s, w)
             q == Kept(s.order, Windows \ {w})
  <2>1. s \in States /\ Distinct(s.order) /\ s.order \in Seq(Windows)
    BY DEF Base, States
  <2>2. q \in Seq(Windows) /\ Distinct(q) /\ \A k \in DOMAIN q : q[k] # w
    BY <2>1, KeptKeeps, KeptDistinct
  <2>3. t = [s EXCEPT !.order = Append(q, w)]
    BY <1>2 DEF Touch
  <2>4. /\ Append(q, w) \in Seq(Windows) /\ Distinct(Append(q, w))
        /\ \A F : TopAt(Append(q, w), w, F)
    <3> HIDE DEF q
    <3> QED
      BY <2>2, AppendOnTop
  <2> HIDE DEF t
  <2>5. t \in States /\ t.order = Append(q, w) /\ SameWindows(s, t) /\ SameSeat(s, t)
    <3> HIDE DEF q
    <3> QED
      BY <2>1, <2>3, <2>4 DEF States, SameWindows, SameSeat
  <2>6. Base(t) /\ \A v : Registered(t, v) <=> Registered(s, v)
    BY <2>4, <2>5, SameWindowsBase
  <2>7. ASSUME NEW F, OnTop(s, F), w \in Native => Exempt(w, F), s.seat # None, s.seat # w
        PROVE  TopAt(Append(q, w), s.seat, F)
    <3>1. s.seat \in Native
      BY <2>1, <2>7 DEF States, Option
    <3>2. s.seat \in Windows \ {w}
      BY <2>7, <3>1, WindowFacts
    <3>3. TopAt(q, s.seat, F)
      BY <2>1, <2>7, <3>2, KeptTop DEF OnTop
    <3>4. w \notin Native \ F[s.seat]
      BY <2>7, <3>1 DEF Exempt
    <3> HIDE DEF q
    <3> QED
      BY <2>2, <3>3, <3>4, AppendAbove
  <2>8. ASSUME NEW F, OnTop(s, F), w \in Native => Exempt(w, F) PROVE OnTop(t, F)
    BY <2>4, <2>5, <2>6, <2>7, <2>8 DEF OnTop, SameSeat
  <2> QED
    BY <2>4, <2>5, <2>6, <2>8 DEF t
<1> QED
  BY <1>1, <1>2

\* The seat may be given to a window with a row that is the top already if it has
\* the seat already.
LEMMA SetSeatKeeps ==
  ASSUME NEW F, NEW s, Base(s), NEW w \in Option(Native),
         w # None => Registered(s, w),
         w # None /\ s.seat = w => TopAt(s.order, w, F)
  PROVE  /\ Good(SetSeat(s, w), F) /\ SameWindows(s, SetSeat(s, w))
         /\ SetSeat(s, w).seat = w
         /\ SetSeat(s, w).asked = s.asked /\ SetSeat(s, w).spawned = s.spawned
<1>1. CASE s.seat = w
  BY <1>1 DEF SetSeat, Good, OnTop, SameWindows
<1>2. CASE s.seat # w /\ w = None
  <2> DEFINE t == [s EXCEPT !.seat = None]
  <2>1. /\ t \in States /\ SameWindows(s, t) /\ t.order = s.order /\ t.seat = None
        /\ t.asked = s.asked /\ t.spawned = s.spawned
    BY DEF Base, States, SameWindows, Option
  <2>2. SetSeat(s, w) = t
    BY <1>2 DEF SetSeat
  <2> HIDE DEF t
  <2>3. Base(t)
    BY <2>1, SameWindowsBase DEF Base
  <2> QED
    BY <1>2, <2>1, <2>2, <2>3 DEF Good, OnTop
<1>3. CASE s.seat # w /\ w # None
  <2> DEFINE t == [s EXCEPT !.seat = w, !.ui = None]
  <2>0. w \in Native /\ w \in Windows
    BY <1>3, WindowFacts DEF Option
  <2>1. /\ t \in States /\ SameWindows(s, t) /\ t.order = s.order /\ t.seat = w
        /\ t.asked = s.asked /\ t.spawned = s.spawned
    BY DEF Base, States, SameWindows, Option
  <2>2. SetSeat(s, w) = Touch(t, w)
    BY <1>3 DEF SetSeat
  <2> HIDE DEF t
  <2>3. Base(t) /\ Registered(t, w)
    BY <1>3, <2>1, SameWindowsBase DEF Base
  <2> DEFINE u == Touch(t, w)
  <2>4. /\ Base(u) /\ SameWindows(t, u) /\ SameSeat(t, u)
        /\ TopAt(u.order, w, F)
    BY <2>0, <2>3, TouchKeeps
  <2> HIDE DEF u
  <2>5. Registered(u, w)
    BY <2>3, <2>4 DEF Registered, SameWindows
  <2> QED
    BY <2>1, <2>2, <2>4, <2>5 DEF Good, OnTop, SameWindows, SameSeat, u
<1> QED
  BY <1>1, <1>2, <1>3

\* A native window that is raised can be focused if it has a row, is not minimised
\* and is shown.
Raisable(s, w) == Registered(s, w) /\ ~Minimized(s, w) /\ w \in s.shown

\* Raising a window that can be raised puts the seat in order whatever it was.
LEMMA RaiseAndFocusKeeps ==
  ASSUME NEW F, NEW s, Base(s), NEW w \in Windows, OnTop(s, F) \/ Raisable(s, w)
  PROVE  /\ Good(RaiseAndFocus(s, w), F) /\ SameWindows(s, RaiseAndFocus(s, w))
         /\ RaiseAndFocus(s, w).spawned = s.spawned
         /\ Raisable(s, w) => RaiseAndFocus(s, w).seat = w
<1>1. CASE ~Registered(s, w) \/ Minimized(s, w)
  BY <1>1 DEF RaiseAndFocus, Raisable, Good, SameWindows
<1>2. CASE Registered(s, w) /\ ~Minimized(s, w)
  <2> DEFINE freed == [s EXCEPT !.capture = NoCapture, !.ui = None]
             taken == [freed EXCEPT !.asked = IF @ = w THEN None ELSE @]
  <2>0. NoCapture \in Captures
    BY CapturesOf
  <2>1. /\ freed \in States /\ SameWindows(s, freed) /\ SameSeat(s, freed)
        /\ freed.order = s.order
    <3>1. freed.capture.restore \in {None, s.capture.restore}
      BY CapturesOf DEF Base, States
    <3>2. /\ freed \in States /\ SameSeat(s, freed) /\ freed.order = s.order
          /\ freed.life = s.life /\ freed.shown = s.shown /\ freed.handle = s.handle
          /\ freed.pending = s.pending /\ freed.scratch = s.scratch
      BY <2>0 DEF Base, States, SameSeat, Option
    <3> QED
      BY <3>1, <3>2 DEF SameWindows
  <2>2. RaiseAndFocus(s, w) =
          IF w \notin s.shown THEN freed ELSE SetSeat(Touch(taken, w), w)
    BY <1>2 DEF RaiseAndFocus
  <2> HIDE DEF freed
  <2>3. /\ taken \in States /\ SameWindows(s, taken) /\ taken.spawned = s.spawned
        /\ taken.order = s.order
    BY <2>1 DEF States, SameWindows, SameSeat, Option
  <2> HIDE DEF taken
  <2>4. CASE w \notin s.shown
    <3>1. Base(freed) /\ OnTop(freed, F)
      BY <2>1, <2>4, SameOrderKeeps DEF Raisable, SameSeat
    <3> QED
      BY <2>1, <2>2, <2>4, <3>1 DEF Good, SameSeat, Raisable
  <2>5. CASE w \in s.shown
    <3> DEFINE u == Touch(taken, w)
    <3>1. w \in Native
      BY <2>5 DEF Base, States
    <3>2. Base(taken) /\ Registered(taken, w)
      BY <1>2, <2>3, SameWindowsBase DEF Base
    <3>3. Base(u) /\ SameWindows(taken, u) /\ SameSeat(taken, u) /\ TopAt(u.order, w, F)
      BY <3>2, TouchKeeps
    <3> HIDE DEF u
    <3>4. Registered(u, w) /\ w \in Option(Native)
      BY <3>1, <3>2, <3>3 DEF Registered, SameWindows, Option
    <3>5. /\ Good(SetSeat(u, w), F) /\ SameWindows(u, SetSeat(u, w))
          /\ SetSeat(u, w).spawned = u.spawned /\ SetSeat(u, w).seat = w
      BY <3>3, <3>4, SetSeatKeeps
    <3>6. RaiseAndFocus(s, w) = SetSeat(u, w)
      BY <2>2, <2>5 DEF u
    <3> QED
      BY <2>3, <3>3, <3>5, <3>6 DEF SameWindows, SameSeat
  <2> QED
    BY <2>4, <2>5
<1> QED
  BY <1>1, <1>2

LEMMA TakeShellUiKeeps ==
  ASSUME NEW F, NEW s, Good(s, F), NEW w \in Hosted
  PROVE  Good(TakeShellUi(s, w), F) /\ SameWindows(s, TakeShellUi(s, w))
<1> DEFINE a == SetSeat(s, None)
           b == [a EXCEPT !.asked = None, !.capture = ShellUi, !.ui = w]
           c == Touch(b, w)
<1>0. ShellUi \in Captures /\ w \in Windows /\ w \notin Native
  BY CapturesOf, WindowFacts
<1>1. Good(a, F) /\ SameWindows(s, a)
  BY SetSeatKeeps DEF Good, Option
<1>2. TakeShellUi(s, w) = Reply(c)
  BY DEF TakeShellUi
<1> HIDE DEF a
<1>3. /\ b \in States /\ SameWindows(a, b) /\ b.order = a.order /\ b.seat = a.seat
  <2>1. b.capture.restore \in {None, a.capture.restore}
    BY <1>1, CapturesOf DEF Good, Base, States
  <2>2. /\ b \in States /\ b.order = a.order /\ b.seat = a.seat
        /\ b.life = a.life /\ b.shown = a.shown /\ b.handle = a.handle
        /\ b.pending = a.pending /\ b.scratch = a.scratch
    BY <1>0, <1>1 DEF Good, Base, States, Option
  <2> QED
    BY <2>1, <2>2 DEF SameWindows
<1> HIDE DEF b
<1>4. Base(b) /\ OnTop(b, F)
  BY <1>1, <1>3, SameOrderKeeps DEF Good
<1>5. Base(c) /\ OnTop(c, F) /\ SameWindows(b, c)
  BY <1>0, <1>4, TouchKeeps
<1> HIDE DEF c
<1>6. Base(Reply(c)) /\ OnTop(Reply(c), F) /\ SameWindows(c, Reply(c))
  BY <1>5, ReplyKeeps
<1> QED
  BY <1>1, <1>2, <1>3, <1>5, <1>6 DEF Good, SameWindows

LEMMA FocusShellUiKeeps ==
  ASSUME NEW F, NEW s, Good(s, F), NEW w \in Windows
  PROVE  Good(FocusShellUi(s, w), F) /\ SameWindows(s, FocusShellUi(s, w))
BY TakeShellUiKeeps DEF FocusShellUi, SameWindows

LEMMA FocusLogicalKeeps ==
  ASSUME NEW F, NEW s, Good(s, F), NEW w \in Windows
  PROVE  Good(FocusLogical(s, w), F) /\ SameWindows(s, FocusLogical(s, w))
BY FocusShellUiKeeps, RaiseAndFocusKeeps DEF FocusLogical, Good

LEMMA ReplyFocusKeeps ==
  ASSUME NEW F, NEW s, Good(s, F), NEW w \in Windows
  PROVE  Good(Reply(FocusLogical(s, w)), F)
BY FocusLogicalKeeps, ReplyKeeps DEF Good

LEMMA RefocusTopKeeps ==
  ASSUME NEW F, NEW s, Good(s, F)
  PROVE  Good(RefocusTop(s), F)
<1>1. PickNext(s, None) \in Option(Windows)
  BY PickNextType DEF Good, Base
<1>2. CASE PickNext(s, None) = None
  <2>1. RefocusTop(s) = SetSeat(s, None)
    BY <1>2 DEF RefocusTop
  <2> QED
    BY <2>1, SetSeatKeeps DEF Good, Option
<1>3. CASE PickNext(s, None) # None
  <2>1. RefocusTop(s) = Reply(FocusLogical(s, PickNext(s, None)))
    BY <1>3 DEF RefocusTop
  <2> QED
    BY <1>1, <1>3, <2>1, ReplyFocusKeeps DEF Option
<1> QED
  BY <1>2, <1>3

LEMMA RefocusKeeps ==
  ASSUME NEW F, NEW s, Good(s, F), NEW w \in Native, NEW hadFocus \in BOOLEAN
  PROVE  Good(Refocus(s, w, hadFocus), F)
<1> DEFINE target == s.refocus[w]
           taken  == [s EXCEPT !.refocus[w] = None]
<1>1. target \in Option(Windows)
  BY DEF Good, Base, States
<1>2. /\ taken \in States /\ SameWindows(s, taken)
      /\ taken.order = s.order /\ taken.seat = s.seat
  BY DEF Good, Base, States, SameWindows, Option
<1>3. Refocus(s, w, hadFocus) =
        IF IfValid(s, target) # None THEN Reply(FocusLogical(taken, target))
        ELSE IF hadFocus THEN RefocusTop(taken)
        ELSE taken
  BY DEF Refocus
<1> HIDE DEF taken
<1>4. Good(taken, F)
  BY <1>2, SameOrderKeeps DEF Good
<1>5. IfValid(s, target) # None => target \in Windows
  BY <1>1 DEF IfValid, Option
<1> HIDE DEF target
<1> QED
  BY <1>3, <1>4, <1>5, ReplyFocusKeeps, RefocusTopKeeps

-----------------------------------------------------------------------------
(* What minimising, restoring and the scratchpad keep.                     *)

LEMMA HostedLifeKeeps ==
  ASSUME NEW F, NEW s, Good(s, F), NEW w \in Hosted, NEW t \in States,
         NEW l \in {"mapped", "minimized"},
         t.life = [s.life EXCEPT ![w] = l],
         t.shown = s.shown, t.handle = s.handle, t.pending = s.pending,
         t.scratch = s.scratch, t.order = s.order, t.seat = s.seat, t.capture = s.capture
  PROVE  Good(t, F)
<1>1. s.life \in [Windows -> {"new", "deferred", "mapped", "minimized", "closing", "gone"}]
  BY DEF Good, Base, States
<1>2. \A v \in Windows : v # w => t.life[v] = s.life[v]
  BY <1>1, WindowFacts
<1>3. t.life[w] = l
  BY <1>1, WindowFacts
<1>4. Safe(t)
  BY <1>2, WindowFacts DEF Good, Base, Safe, Registered, Minimized
<1>5. Early(t)
  <2>1. s.pending \subseteq Native /\ w \notin s.pending
    BY WindowFacts DEF Good, Base, States
  <2> QED
    BY <1>2, <1>3, <2>1, WindowFacts DEF Good, Base, Early, Registered
<1>6. s.seat \in Option(Native)
  BY DEF Good, Base, States
<1>7. OnTop(t, F)
  BY <1>2, <1>6, WindowFacts DEF Good, OnTop, Registered, Option
<1> QED
  BY <1>4, <1>5, <1>7 DEF Good, Base

LEMMA MinimizeHostedKeeps ==
  ASSUME NEW F, NEW s, Good(s, F), NEW w \in Hosted
  PROVE  Good(MinimizeHosted(s, w), F) /\ MinimizeHosted(s, w).scratch = s.scratch
<1>1. CASE s.life[w] \in {"closing", "minimized"}
  BY <1>1 DEF MinimizeHosted
<1>2. CASE s.life[w] \notin {"closing", "minimized"}
  <2> DEFINE t == [s EXCEPT !.life[w] = "minimized", !.ui = IF @ = w THEN None ELSE @]
  <2>1. /\ t \in States /\ t.life = [s.life EXCEPT ![w] = "minimized"]
        /\ t.shown = s.shown /\ t.handle = s.handle /\ t.pending = s.pending
        /\ t.scratch = s.scratch /\ t.order = s.order /\ t.seat = s.seat
        /\ t.capture = s.capture
    BY WindowFacts DEF Good, Base, States, Option
  <2>2. MinimizeHosted(s, w) = Reply(t)
    BY <1>2 DEF MinimizeHosted
  <2> HIDE DEF t
  <2>3. Good(t, F)
    BY <2>1, HostedLifeKeeps
  <2>4. Base(Reply(t)) /\ OnTop(Reply(t), F) /\ SameWindows(t, Reply(t))
    BY <2>3, ReplyKeeps DEF Good
  <2> QED
    BY <2>1, <2>2, <2>4 DEF Good, SameWindows
<1> QED
  BY <1>1, <1>2

\* A native window that is minimised is hidden, and keeps a handle.
LEMMA MinimizeNativeKeeps ==
  ASSUME NEW F, NEW s, Good(s, F), NEW w \in Native
  PROVE  /\ Good(MinimizeNative(s, w), F) /\ MinimizeNative(s, w).scratch = s.scratch
         /\ s.life[w] = "mapped" /\ w \in s.shown => Minimized(MinimizeNative(s, w), w)
<1>1. CASE ~Registered(s, w) \/ s.life[w] \in {"closing", "minimized"} \/ w \notin s.shown
  BY <1>1 DEF MinimizeNative, Registered
<1>2. CASE ~(~Registered(s, w) \/ s.life[w] \in {"closing", "minimized"} \/ w \notin s.shown)
  <2> DEFINE t == [s EXCEPT !.life[w] = "minimized", !.handle = @ \cup {w}, !.shown = @ \ {w}]
             u == IF KeyboardFocused(t) = w THEN SetSeat(t, None) ELSE t
  <2>1. s \in States /\ w \in Windows
    BY WindowFacts DEF Good, Base
  <2>2. /\ t \in States /\ t.life = [s.life EXCEPT ![w] = "minimized"]
        /\ t.shown = s.shown \ {w} /\ t.handle = s.handle \cup {w} /\ t.pending = s.pending
        /\ t.scratch = s.scratch /\ t.order = s.order /\ t.seat = s.seat
        /\ t.capture = s.capture
    BY <2>1 DEF States
  <2>3. MinimizeNative(s, w) = Reply(u)
    BY <1>2 DEF MinimizeNative
  <2> HIDE DEF t
  <2>4. t.life[w] = "minimized" /\ \A v \in Windows : v # w => t.life[v] = s.life[v]
    BY <2>1, <2>2 DEF States
  <2>5. Safe(t)
    BY <2>2, <2>4, WindowFacts DEF Good, Base, Safe, Registered, Minimized
  <2>6. Early(t)
    BY <2>1, <2>2, <2>4, WindowFacts DEF Good, Base, Early, States, Registered
  <2>7. \A v \in Windows : Registered(s, v) => Registered(t, v)
    BY <2>4 DEF Registered
  <2>8. s.seat \in Option(Native)
    BY <2>1 DEF States
  <2>9. Good(t, F)
    BY <2>2, <2>5, <2>6, <2>7, <2>8, WindowFacts DEF Good, Base, OnTop, Option
  <2>10. Good(u, F) /\ SameWindows(t, u)
    BY <2>9, SetSeatKeeps DEF Good, Option, SameWindows
  <2> HIDE DEF u
  <2>11. Base(Reply(u)) /\ OnTop(Reply(u), F) /\ SameWindows(u, Reply(u))
    BY <2>10, ReplyKeeps DEF Good
  <2> QED
    BY <2>2, <2>3, <2>4, <2>10, <2>11 DEF Good, SameWindows, Minimized
<1> QED
  BY <1>1, <1>2

LEMMA MinimizeKeeps ==
  ASSUME NEW F, NEW s, Good(s, F), NEW w \in Windows
  PROVE  /\ Good(Minimize(s, w), F) /\ Minimize(s, w).scratch = s.scratch
         /\ w \in Native /\ s.life[w] = "mapped" /\ w \in s.shown
              => Minimized(Minimize(s, w), w)
BY MinimizeHostedKeeps, MinimizeNativeKeeps, WindowFacts DEF Minimize

LEMMA RestoreHostedKeeps ==
  ASSUME NEW F, NEW s, Good(s, F), NEW w \in Hosted
  PROVE  Good(RestoreHosted(s, w), F) /\ RestoreHosted(s, w).scratch = s.scratch
<1>1. CASE ~Minimized(s, w)
  BY <1>1 DEF RestoreHosted
<1>2. CASE Minimized(s, w)
  <2> DEFINE t == [s EXCEPT !.life[w] = "mapped"]
  <2>1. /\ t \in States /\ t.life = [s.life EXCEPT ![w] = "mapped"]
        /\ t.shown = s.shown /\ t.handle = s.handle /\ t.pending = s.pending
        /\ t.scratch = s.scratch /\ t.order = s.order /\ t.seat = s.seat
        /\ t.capture = s.capture
    BY WindowFacts DEF Good, Base, States
  <2>2. RestoreHosted(s, w) = Reply(t)
    BY <1>2 DEF RestoreHosted
  <2> HIDE DEF t
  <2>3. Good(t, F)
    BY <2>1, HostedLifeKeeps
  <2>4. Base(Reply(t)) /\ OnTop(Reply(t), F) /\ SameWindows(t, Reply(t))
    BY <2>3, ReplyKeeps DEF Good
  <2> QED
    BY <2>1, <2>2, <2>4 DEF Good, SameWindows
<1> QED
  BY <1>1, <1>2

\* The state in which a native window is back, before it is given the seat.
Back(s, w) == [s EXCEPT !.life[w] = "mapped", !.handle = @ \ {w},
                        !.shown = @ \cup {w}, !.capture = NoCapture]

\* A native window that is minimised has the handle it needs to come back.
LEMMA BackKeeps ==
  ASSUME NEW F, NEW s, Good(s, F), NEW w \in Native, Minimized(s, w)
  PROVE  /\ Restore(s, w) = Reply(SetSeat(Back(s, w), w))
         /\ Good(Back(s, w), F) /\ Back(s, w).scratch = s.scratch
         /\ Back(s, w).capture = NoCapture /\ Valid(Back(s, w), w)
<1> DEFINE t == Back(s, w)
<1>1. s \in States /\ w \in Windows /\ w \notin Hosted /\ NoCapture \in Captures
  BY WindowFacts, CapturesOf DEF Good, Base
<1>2. w \in s.handle
  BY DEF Good, Base, Safe, Registered, Minimized
<1>3. Restore(s, w) = Reply(SetSeat(t, w))
  BY <1>1, <1>2 DEF Restore, Back
<1>4. /\ t \in States /\ t.life = [s.life EXCEPT ![w] = "mapped"]
      /\ t.shown = s.shown \cup {w} /\ t.handle = s.handle \ {w} /\ t.pending = s.pending
      /\ t.scratch = s.scratch /\ t.order = s.order /\ t.seat = s.seat
      /\ t.capture = NoCapture
  BY <1>1 DEF States, Back
<1> HIDE DEF t
<1>5. t.life[w] = "mapped" /\ \A v \in Windows : v # w => t.life[v] = s.life[v]
  BY <1>1, <1>4 DEF States
<1>6. Safe(t)
  BY <1>4, <1>5, WindowFacts DEF Good, Base, Safe, Registered, Minimized
<1>7. Early(t)
  <2>1. s.handle \subseteq Windows
    BY <1>1, WindowFacts DEF States
  <2>2. t.capture.restore = None
    BY <1>4, CapturesOf
  <2> QED
    BY <1>4, <1>5, <2>1, <2>2, WindowFacts DEF Good, Base, Early, Registered
<1>8. \A v \in Windows : Registered(s, v) => Registered(t, v)
  BY <1>5 DEF Registered
<1>9. s.seat \in Option(Native)
  BY <1>1 DEF States
<1>10. Good(t, F)
  BY <1>4, <1>6, <1>7, <1>8, <1>9, WindowFacts DEF Good, Base, OnTop, Option
<1>11. Valid(t, w)
  BY <1>4, <1>5 DEF Valid, Registered, Minimized
<1> QED
  BY <1>3, <1>4, <1>10, <1>11 DEF t

LEMMA RestoreNativeKeeps ==
  ASSUME NEW F, NEW s, Good(s, F), NEW w \in Native
  PROVE  Good(Restore(s, w), F) /\ Restore(s, w).scratch = s.scratch
<1>1. CASE ~Minimized(s, w)
  BY <1>1 DEF Restore
<1>2. CASE Minimized(s, w)
  <2> DEFINE t == Back(s, w)
             u == SetSeat(t, w)
  <2>1. Restore(s, w) = Reply(u) /\ Good(t, F) /\ t.scratch = s.scratch /\ Valid(t, w)
    BY <1>2, BackKeeps
  <2> HIDE DEF t
  <2>2. Good(u, F) /\ SameWindows(t, u)
    BY <2>1, SetSeatKeeps DEF Good, OnTop, Option, Valid
  <2> HIDE DEF u
  <2>3. Base(Reply(u)) /\ OnTop(Reply(u), F) /\ SameWindows(u, Reply(u))
    BY <2>2, ReplyKeeps DEF Good
  <2> QED
    BY <2>1, <2>2, <2>3 DEF Good, SameWindows
<1> QED
  BY <1>1, <1>2

LEMMA ShowHostedKeeps ==
  ASSUME NEW F, NEW s, Good(s, F), NEW w \in Hosted
  PROVE  /\ Good(FocusShellUi(RestoreHosted(s, w), w), F)
         /\ FocusShellUi(RestoreHosted(s, w), w).scratch = s.scratch
<1>1. Good(RestoreHosted(s, w), F) /\ RestoreHosted(s, w).scratch = s.scratch
  BY RestoreHostedKeeps
<1>2. w \in Windows
  BY WindowFacts
<1> QED
  BY <1>1, <1>2, FocusShellUiKeeps DEF SameWindows

LEMMA RestoreKeeps ==
  ASSUME NEW F, NEW s, Good(s, F), NEW w \in Windows
  PROVE  Good(Restore(s, w), F) /\ Restore(s, w).scratch = s.scratch
<1>1. CASE w \in Hosted
  BY <1>1, ShowHostedKeeps DEF Restore
<1>2. CASE w \in Native
  BY <1>2, RestoreNativeKeeps
<1> QED
  BY <1>1, <1>2, WindowFacts

LEMMA ActivateKeeps ==
  ASSUME NEW F, NEW s, Good(s, F), NEW w \in Windows
  PROVE  Good(Activate(s, w), F)
<1>1. CASE w \in Hosted
  BY <1>1, ShowHostedKeeps DEF Activate
<1>2. CASE w \notin Hosted
  BY <1>2, RestoreKeeps, RaiseAndFocusKeeps DEF Activate, Good
<1> QED
  BY <1>1, <1>2

LEMMA TaskbarActivateKeeps ==
  ASSUME NEW F, NEW s, Good(s, F), NEW w \in Windows
  PROVE  Good(TaskbarActivate(s, w), F)
BY RestoreKeeps, MinimizeKeeps, FocusLogicalKeeps DEF TaskbarActivate

\* What waits and what the scratchpad has may be forgotten.
LEMMA FewerKeeps ==
  ASSUME NEW F, NEW s, Good(s, F), NEW t \in States, t.life = s.life, t.shown = s.shown,
         t.handle = s.handle, t.order = s.order, t.seat = s.seat, t.capture = s.capture,
         t.pending \subseteq s.pending, t.scratch \subseteq s.scratch
  PROVE  Good(t, F)
BY DEF Good, Base, Safe, Early, OnTop, Registered, Minimized

LEMMA ScratchForgetKeeps ==
  ASSUME NEW F, NEW s, Good(s, F), NEW w
  PROVE  Good(ScratchForget(s, w), F)
<1> DEFINE t == ScratchForget(s, w)
<1>1. /\ t \in States /\ t.life = s.life /\ t.shown = s.shown
      /\ t.handle = s.handle /\ t.order = s.order /\ t.seat = s.seat
      /\ t.pending = s.pending /\ t.scratch \subseteq s.scratch /\ t.capture = s.capture
  BY DEF Good, Base, States, ScratchForget
<1> HIDE DEF t
<1> QED
  BY <1>1, FewerKeeps DEF t

\* Nothing but a focus that was asked for changes before a window is hidden.
LEMMA ScratchHideKeeps ==
  ASSUME NEW F, NEW s, Good(s, F), NEW w \in Windows
  PROVE  /\ Good(ScratchHide(s, w), F) /\ ScratchHide(s, w).scratch = s.scratch
         /\ w \in Native /\ s.life[w] = "mapped" /\ w \in s.shown
              => Minimized(ScratchHide(s, w), w)
<1> DEFINE t == [s EXCEPT !.asked = IF @ = w THEN None ELSE @]
<1>1. /\ t \in States /\ t.life = s.life /\ t.shown = s.shown
      /\ t.handle = s.handle /\ t.order = s.order /\ t.seat = s.seat
      /\ t.pending = s.pending /\ t.scratch = s.scratch /\ t.capture = s.capture
  BY DEF Good, Base, States, Option
<1>2. ScratchHide(s, w) = Minimize(t, w)
  BY DEF ScratchHide
<1> HIDE DEF t
<1>3. Good(t, F)
  BY <1>1, FewerKeeps
<1> QED
  BY <1>1, <1>2, <1>3, MinimizeKeeps

LEMMA ScratchShowKeeps ==
  ASSUME NEW F, NEW s, Good(s, F), NEW w \in Windows
  PROVE  /\ Good(ScratchShow(s, w), F) /\ ScratchShow(s, w).scratch = s.scratch
         /\ Raisable(s, w) => ScratchShow(s, w).seat = w
<1> DEFINE t == IF Minimized(s, w) THEN Restore(s, w) ELSE RaiseAndFocus(s, w)
<1>1. Good(t, F) /\ t.scratch = s.scratch
  BY RestoreKeeps, RaiseAndFocusKeeps DEF Good, SameWindows
<1>2. Raisable(s, w) => t.seat = w
  BY RaiseAndFocusKeeps DEF Good, Raisable
<1>3. ScratchShow(s, w) = Reply(t)
  BY DEF ScratchShow
<1> HIDE DEF t
<1>4. /\ Base(Reply(t)) /\ OnTop(Reply(t), F) /\ SameWindows(t, Reply(t))
      /\ SameSeat(t, Reply(t))
  BY <1>1, ReplyKeeps DEF Good
<1> QED
  BY <1>1, <1>2, <1>3, <1>4 DEF Good, SameWindows, SameSeat

\* A window that has just been mapped is taken in, hidden or with the seat, or it
\* stays as it is.
LEMMA ScratchConsiderKeeps ==
  ASSUME NEW F, NEW s, Good(s, F), NEW w \in Windows, NEW rule
  PROVE  LET t == ScratchConsider(s, w, rule)
         IN  /\ Good(t, F)
             /\ s.life[w] = "mapped" /\ w \in s.shown =>
                  \/ w \notin t.scratch /\ t.life = s.life /\ t.shown = s.shown
                  \/ w \in s.scratch /\ rule # "none"
                  \/ w \in t.scratch /\ (Minimized(t, w) \/ t.seat = w)
<1> DEFINE t  == ScratchConsider(s, w, rule)
           in == [s EXCEPT !.scratch = @ \cup {w}]
<1>1. CASE ~Registered(s, w)
  BY <1>1, ScratchForgetKeeps DEF ScratchConsider, Registered
<1>2. CASE Registered(s, w) /\ s.life[w] = "deferred"
  BY <1>2 DEF ScratchConsider
<1>3. CASE Registered(s, w) /\ s.life[w] # "deferred" /\ rule = "none" /\ w \notin s.scratch
  BY <1>3 DEF ScratchConsider
<1>4. CASE Registered(s, w) /\ s.life[w] # "deferred" /\ rule = "none" /\ w \in s.scratch
  <2> DEFINE u == ScratchForget(s, w)
  <2>1. Good(u, F) /\ u.life = s.life /\ u.shown = s.shown /\ u.scratch = s.scratch \ {w}
    BY ScratchForgetKeeps DEF ScratchForget, Good, Base, States
  <2>2. t = Reply(u)
    BY <1>4 DEF ScratchConsider, ScratchForget
  <2> HIDE DEF u
  <2>3. Base(Reply(u)) /\ OnTop(Reply(u), F) /\ SameWindows(u, Reply(u))
    BY <2>1, ReplyKeeps DEF Good
  <2> HIDE DEF t
  <2>4. Good(t, F) /\ w \notin t.scratch /\ t.life = s.life /\ t.shown = s.shown
    BY <2>1, <2>2, <2>3 DEF Good, SameWindows
  <2> QED
    BY <2>4 DEF t
<1>5. CASE Registered(s, w) /\ s.life[w] # "deferred" /\ rule # "none" /\ w \in s.scratch
  BY <1>5 DEF ScratchConsider
<1>6. CASE Registered(s, w) /\ s.life[w] # "deferred" /\ rule # "none" /\ w \notin s.scratch
  <2>1. /\ in \in States /\ in.life = s.life /\ in.shown = s.shown /\ in.handle = s.handle
        /\ in.order = s.order /\ in.seat = s.seat /\ in.pending = s.pending
        /\ in.scratch = s.scratch \cup {w} /\ in.capture = s.capture
    BY DEF Good, Base, States
  <2>2. t = IF rule = "visible" THEN ScratchShow(in, w) ELSE Reply(ScratchHide(in, w))
    BY <1>6 DEF ScratchConsider
  <2> HIDE DEF in, t
  <2>3. Good(in, F)
    <3>1. Safe(in)
      BY <2>1 DEF Good, Base, Safe, Registered, Minimized
    <3>2. Early(in)
      BY <1>6, <2>1 DEF Good, Base, Early, Registered
    <3> QED
      BY <2>1, <3>1, <3>2 DEF Good, Base, OnTop, Registered
  <2>4. CASE rule = "visible"
    <3>1. s.life[w] = "mapped" /\ w \in s.shown => Raisable(in, w)
      BY <2>1 DEF Raisable, Registered, Minimized
    <3> QED
      BY <2>1, <2>2, <2>3, <2>4, <3>1, ScratchShowKeeps DEF t
  <2>5. CASE rule # "visible"
    <3> DEFINE u == ScratchHide(in, w)
    <3>1. w \in s.shown => w \in Native
      BY DEF Good, Base, States
    <3>2. /\ Good(u, F) /\ u.scratch = in.scratch
          /\ s.life[w] = "mapped" /\ w \in s.shown => Minimized(u, w)
      BY <1>6, <2>1, <2>3, <3>1, ScratchHideKeeps
    <3> HIDE DEF u
    <3>3. Base(Reply(u)) /\ OnTop(Reply(u), F) /\ SameWindows(u, Reply(u))
      BY <3>2, ReplyKeeps DEF Good
    <3>4. t = Reply(u)
      BY <2>2, <2>5 DEF u
    <3>5. /\ Good(t, F) /\ w \in t.scratch
          /\ s.life[w] = "mapped" /\ w \in s.shown => Minimized(t, w)
      BY <2>1, <3>2, <3>3, <3>4 DEF Good, SameWindows, Minimized
    <3> QED
      BY <3>5 DEF t
  <2> QED
    BY <2>4, <2>5
<1> QED
  BY <1>1, <1>2, <1>3, <1>4, <1>5, <1>6

LEMMA ToggleScratchKeeps ==
  ASSUME NEW F, NEW s, Good(s, F), NEW w \in Windows
  PROVE  Good(ToggleScratch(s, w), F)
<1> DEFINE visible == Unminimized(s)
<1>1. visible \in Seq(Windows) /\ \A k \in DOMAIN visible : visible[k] \in s.scratch
  <2>1. /\ visible \in Seq(Windows)
        /\ \A k \in DOMAIN visible : visible[k] \in {v \in s.scratch : ~Minimized(s, v)}
    BY StackFacts, KeptKeeps DEF Unminimized, Good, Base
  <2> QED
    BY <2>1
<1>2. ToggleScratch(s, w) =
        IF visible # <<>> THEN Reply(ScratchHide(s, visible[Len(visible)]))
        ELSE ScratchShow(s, w)
  BY DEF ToggleScratch
<1> HIDE DEF visible
<1>3. CASE visible # <<>>
  <2>1. visible[Len(visible)] \in Windows
    BY <1>1, <1>3
  <2>2. Good(ScratchHide(s, visible[Len(visible)]), F)
    BY <2>1, ScratchHideKeeps
  <2> QED
    BY <1>2, <1>3, <2>2, ReplyKeeps DEF Good
<1>4. CASE visible = <<>>
  BY <1>2, <1>4, ScratchShowKeeps
<1> QED
  BY <1>3, <1>4

-----------------------------------------------------------------------------
(* What the operators keep by which native windows come and go.            *)

LEMMA FocusSpawnedKeeps ==
  ASSUME NEW F, NEW s, Base(s), NEW w \in Windows,
         OnTop(s, F) \/ (Raisable(s, w) /\ SpawnCandidate(s, w))
  PROVE  Good(FocusSpawned(s, w), F)
<1>1. CASE ~SpawnCandidate(s, w)
  BY <1>1 DEF FocusSpawned, Good
<1>2. CASE SpawnCandidate(s, w)
  <2> DEFINE t == [s EXCEPT !.spawned = {}]
             u == RaiseAndFocus(t, w)
  <2>1. /\ t \in States /\ SameWindows(s, t) /\ t.order = s.order /\ t.seat = s.seat
    BY DEF Base, States, SameWindows
  <2>2. FocusSpawned(s, w) = Reply(u)
    BY <1>2 DEF FocusSpawned
  <2> HIDE DEF t
  <2>3. Base(t) /\ (OnTop(s, F) => OnTop(t, F)) /\ (Raisable(s, w) => Raisable(t, w))
    BY <2>1, SameOrderKeeps DEF Raisable, SameWindows, Registered, Minimized
  <2>4. Good(u, F)
    BY <2>3, RaiseAndFocusKeeps
  <2> HIDE DEF u
  <2> QED
    BY <2>2, <2>4, ReplyKeeps DEF Good
<1> QED
  BY <1>1, <1>2

LEMMA MappedKeeps ==
  ASSUME NEW F, NEW s, Good(s, F), NEW w \in Native
  PROVE  Good([s EXCEPT !.life[w] = "mapped", !.shown = @ \cup {w}, !.pending = @ \ {w}], F)
<1> DEFINE mapped == [s EXCEPT !.life[w] = "mapped", !.shown = @ \cup {w},
                               !.pending = @ \ {w}]
<1>1. s \in States /\ w \in Windows /\ s.seat \in Option(Native)
  BY WindowFacts DEF Good, Base, States
<1>2. /\ mapped \in States /\ mapped.life = [s.life EXCEPT ![w] = "mapped"]
      /\ mapped.shown = s.shown \cup {w} /\ mapped.handle = s.handle
      /\ mapped.pending = s.pending \ {w} /\ mapped.scratch = s.scratch
      /\ mapped.order = s.order /\ mapped.seat = s.seat /\ mapped.capture = s.capture
  BY <1>1 DEF States
<1> HIDE DEF mapped
<1>3. mapped.life[w] = "mapped" /\ \A v \in Windows : v # w => mapped.life[v] = s.life[v]
  BY <1>1, <1>2 DEF States
<1>4. Safe(mapped)
  BY <1>2, <1>3, WindowFacts DEF Good, Base, Safe, Registered, Minimized
<1>5. Early(mapped)
  BY <1>1, <1>2, <1>3, WindowFacts DEF Good, Base, Early, Registered, States
<1>6. \A v \in Windows : Registered(s, v) => Registered(mapped, v)
  BY <1>3 DEF Registered
<1>7. Good(mapped, F)
  BY <1>1, <1>2, <1>4, <1>5, <1>6, WindowFacts DEF Good, Base, OnTop, Option
<1> QED
  BY <1>7 DEF mapped

\* A window that is mapped has a row, is shown and not minimised. It is raised
\* without the focus only where it was in the scratchpad before.
LEMMA MapToplevelKeeps ==
  ASSUME NEW F, NEW s, Good(s, F), NEW w \in Native, NEW rule,
         w \in s.scratch => Exempt(w, F)
  PROVE  Good(MapToplevel(s, w, rule), F)
<1> DEFINE mapped   == [s EXCEPT !.life[w] = "mapped", !.shown = @ \cup {w},
                                 !.pending = @ \ {w}]
           sorted   == ScratchConsider(mapped, w, rule)
           assigned == w \in sorted.scratch
           told     == IF assigned /\ Minimized(sorted, w) THEN sorted
                       ELSE IF SpawnCandidate(sorted, w) THEN Touch(sorted, w) ELSE sorted
<1>1. s \in States /\ w \in Windows /\ s.seat \in Option(Native)
  BY WindowFacts DEF Good, Base, States
<1>2. /\ mapped \in States /\ mapped.life = [s.life EXCEPT ![w] = "mapped"]
      /\ mapped.shown = s.shown \cup {w} /\ mapped.handle = s.handle
      /\ mapped.pending = s.pending \ {w} /\ mapped.scratch = s.scratch
      /\ mapped.order = s.order /\ mapped.seat = s.seat /\ mapped.capture = s.capture
  BY <1>1 DEF States
<1>3. MapToplevel(s, w, rule) =
        IF assigned THEN told
        ELSE IF told.asked = w THEN Reply(RaiseAndFocus(told, w))
        ELSE FocusSpawned(told, w)
  BY DEF MapToplevel
<1> HIDE DEF mapped
<1>4. mapped.life[w] = "mapped" /\ \A v \in Windows : v # w => mapped.life[v] = s.life[v]
  BY <1>1, <1>2 DEF States
<1>5. Good(mapped, F)
  BY MappedKeeps DEF mapped
<1>6. /\ Good(sorted, F)
      /\ \/ w \notin sorted.scratch /\ sorted.life = mapped.life /\ sorted.shown = mapped.shown
         \/ w \in s.scratch
         \/ w \in sorted.scratch /\ (Minimized(sorted, w) \/ sorted.seat = w)
  <2>1. mapped.life[w] = "mapped" /\ w \in mapped.shown /\ mapped.scratch = s.scratch
    BY <1>2, <1>4
  <2> QED
    BY <1>1, <1>5, <2>1, ScratchConsiderKeeps
<1> HIDE DEF sorted
<1> DEFINE u == Touch(sorted, w)
<1>8. /\ Base(u) /\ SameWindows(sorted, u) /\ SameSeat(sorted, u)
      /\ Registered(sorted, w) => TopAt(u.order, w, F)
      /\ Exempt(w, F) => OnTop(u, F)
  BY <1>1, <1>6, TouchKeeps DEF Good
<1>9. \A v : Registered(u, v) <=> Registered(sorted, v)
  BY <1>8 DEF SameWindows, Registered
<1>10. Base(told) /\ SameWindows(sorted, told) /\ (told = sorted \/ told = u)
  BY <1>6, <1>8 DEF Good, SameWindows
<1>11. told = u /\ told # sorted => SpawnCandidate(sorted, w) /\ SpawnCandidate(told, w)
  BY <1>8, <1>9 DEF SpawnCandidate, SameSeat
<1>12. CASE assigned /\ Minimized(sorted, w)
  BY <1>3, <1>6, <1>12
<1>13. CASE assigned /\ ~Minimized(sorted, w)
  <2>1. CASE told = sorted
    BY <1>3, <1>6, <1>13, <2>1
  <2>2. CASE told # sorted
    <3>1. told = u /\ Registered(sorted, w)
      BY <1>10, <1>11, <2>2 DEF SpawnCandidate
    <3>2. CASE sorted.seat = w
      BY <1>3, <1>8, <1>9, <1>13, <3>1, <3>2 DEF Good, OnTop, SameSeat
    <3>3. CASE sorted.seat # w
      <4>1. Exempt(w, F)
        BY <1>6, <1>13, <3>3
      <4> QED
        BY <1>3, <1>8, <1>13, <3>1, <4>1 DEF Good
    <3> QED
      BY <3>2, <3>3
  <2> QED
    BY <2>1, <2>2
<1>14. CASE ~assigned
  <2>1. \/ sorted.life = mapped.life /\ sorted.shown = mapped.shown
        \/ Exempt(w, F)
    BY <1>6, <1>14
  <2>2. Raisable(told, w) \/ (Exempt(w, F) /\ OnTop(told, F))
    <3>1. CASE sorted.life = mapped.life /\ sorted.shown = mapped.shown
      BY <1>2, <1>4, <1>10, <3>1 DEF Raisable, Registered, Minimized, SameWindows
    <3>2. CASE Exempt(w, F)
      BY <1>6, <1>8, <1>10, <3>2 DEF Good
    <3> QED
      BY <2>1, <3>1, <3>2
  <2>3. OnTop(told, F) \/ (Raisable(told, w) /\ SpawnCandidate(told, w))
    BY <1>6, <1>10, <1>11, <2>2 DEF Good
  <2>4. Good(RaiseAndFocus(told, w), F)
    BY <1>1, <1>10, <2>2, RaiseAndFocusKeeps
  <2>5. Good(FocusSpawned(told, w), F)
    BY <1>1, <1>10, <2>3, FocusSpawnedKeeps
  <2> HIDE DEF told
  <2> QED
    BY <1>3, <1>14, <2>4, <2>5, ReplyKeeps DEF Good
<1> QED
  BY <1>12, <1>13, <1>14

\* A row is removed from a state that may no longer show the window.
LEMMA RemoveNativeKeeps ==
  ASSUME NEW F, NEW s, Good(s, F), NEW w \in Native, NEW u \in States, u.life = s.life,
         u.shown \in {s.shown, s.shown \ {w}}, u.handle = s.handle,
         u.pending \subseteq s.pending, u.scratch = s.scratch,
         u.order = s.order, u.seat = s.seat, u.capture = s.capture
  PROVE  Good(RemoveNative(u, w), F)
<1> DEFINE t == RemoveNative(u, w)
           q == Kept(u.order, Windows \ {w})
<1>1. /\ w \in Windows /\ u.order \in Seq(Windows) /\ Distinct(u.order)
      /\ u.seat \in Option(Native) /\ u.asked \in Option(Native)
  BY WindowFacts DEF Good, Base, States
<1>2. q \in Seq(Windows) /\ Distinct(q)
  BY <1>1, KeptKeeps, KeptDistinct
<1>3. t = [ [u EXCEPT !.life[w] = "gone", !.shown = @ \ {w}, !.handle = @ \ {w},
                      !.seat = IF @ = w THEN None ELSE @,
                      !.asked = IF @ = w THEN None ELSE @,
                      !.spawned = @ \ {w}] EXCEPT !.order = q ]
  BY DEF RemoveNative, ForgetInOrder, States
<1> HIDE DEF q, t
<1>4. /\ t \in States /\ t.life = [s.life EXCEPT ![w] = "gone"]
      /\ t.shown = s.shown \ {w} /\ t.handle = s.handle \ {w}
      /\ t.pending \subseteq s.pending /\ t.scratch = s.scratch
      /\ t.order = q /\ t.seat = IF s.seat = w THEN None ELSE s.seat
      /\ t.capture = s.capture
  <2> DEFINE life  == [u.life EXCEPT ![w] = "gone"]
             seat  == IF u.seat = w THEN None ELSE u.seat
             asked == IF u.asked = w THEN None ELSE u.asked
  <2>1. seat \in Option(Native) /\ asked \in Option(Native)
    BY <1>1 DEF Option
  <2>2. life \in [Windows -> {"new", "deferred", "mapped", "minimized", "closing", "gone"}]
    BY <1>1 DEF States
  <2>3. u.shown \ {w} \in SUBSET Native /\ u.handle \ {w} \in SUBSET Native
        /\ u.spawned \ {w} \in SUBSET Native
    BY DEF States
  <2>4. t = [ [u EXCEPT !.life = life, !.shown = u.shown \ {w}, !.handle = u.handle \ {w},
                        !.seat = seat, !.asked = asked, !.spawned = u.spawned \ {w}]
              EXCEPT !.order = q ]
    BY <1>3 DEF States
  <2>5. life = [s.life EXCEPT ![w] = "gone"]
    OBVIOUS
  <2>6. seat = IF s.seat = w THEN None ELSE s.seat
    OBVIOUS
  <2> HIDE DEF life, seat, asked
  <2>7. t = [u EXCEPT !.life = life, !.shown = u.shown \ {w}, !.handle = u.handle \ {w},
                      !.seat = seat, !.asked = asked, !.spawned = u.spawned \ {w}, !.order = q]
    BY <2>4 DEF States
  <2>8. t \in States
    BY <1>2, <2>1, <2>2, <2>3, <2>7 DEF States
  <2>9. /\ t.life = life /\ t.shown = u.shown \ {w} /\ t.handle = u.handle \ {w}
        /\ t.pending = u.pending /\ t.scratch = u.scratch /\ t.order = q /\ t.seat = seat
        /\ t.capture = u.capture
    BY <2>7 DEF States
  <2>10. u.shown \ {w} = s.shown \ {w}
    OBVIOUS
  <2> QED
    BY <2>5, <2>6, <2>8, <2>9, <2>10
<1>5. t.life[w] = "gone" /\ \A v \in Windows : v # w => t.life[v] = s.life[v]
  BY <1>1, <1>4 DEF Good, Base, States
<1>6. Safe(t)
  BY <1>4, <1>5, WindowFacts DEF Good, Base, Safe, Registered, Minimized
<1>7. Early(t)
  BY <1>4, <1>5, WindowFacts DEF Good, Base, Early, Registered, States
<1>8. OnTop(t, F)
  <2> SUFFICES ASSUME t.seat # None PROVE Registered(t, t.seat) /\ TopAt(t.order, t.seat, F)
    BY DEF OnTop
  <2>1. t.seat = s.seat /\ s.seat # w /\ s.seat \in Windows
    BY <1>1, <1>4, WindowFacts DEF Option
  <2>2. Registered(s, s.seat) /\ TopAt(s.order, s.seat, F)
    BY <2>1 DEF Good, OnTop
  <2>3. TopAt(q, s.seat, F)
    BY <1>1, <2>1, <2>2, KeptTop DEF q
  <2> QED
    BY <1>4, <1>5, <2>1, <2>2, <2>3 DEF Registered
<1> QED
  BY <1>2, <1>4, <1>6, <1>7, <1>8 DEF Good, Base, t

LEMMA ForgetAndReplyKeeps ==
  ASSUME NEW F, NEW s, Good(s, F), NEW w
  PROVE  Good(Reply(ScratchForget(s, w)), F)
BY ScratchForgetKeeps, ReplyKeeps DEF Good

LEMMA DestroyedKeeps ==
  ASSUME NEW F, NEW s, Good(s, F), NEW w \in Native
  PROVE  Good(Destroyed(s, w), F)
<1> DEFINE hadFocus == KeyboardFocused(s) = w
           deferred == s.life[w] = "deferred" \/ w \in s.pending
           gone     == RemoveNative(s, w)
           removed  == [gone EXCEPT !.pending = @ \ {w}]
           waiting  == [s EXCEPT !.pending = @ \ {w}]
           left     == IF deferred THEN removed ELSE Reply(ScratchForget(removed, w))
<1>1. Destroyed(s, w) = IF ~Registered(s, w) THEN waiting ELSE Refocus(left, w, hadFocus)
  BY DEF Destroyed
<1>2. Good(waiting, F)
  <2>1. /\ waiting \in States /\ waiting.life = s.life /\ waiting.shown = s.shown
        /\ waiting.handle = s.handle /\ waiting.order = s.order /\ waiting.seat = s.seat
        /\ waiting.pending \subseteq s.pending /\ waiting.scratch = s.scratch
        /\ waiting.capture = s.capture
    BY DEF Good, Base, States
  <2> QED
    BY <2>1, FewerKeeps
<1>3. Good(gone, F)
  BY RemoveNativeKeeps DEF Good, Base
<1> HIDE DEF gone
<1>4. Good(removed, F)
  <2>1. /\ removed \in States /\ removed.life = gone.life /\ removed.shown = gone.shown
        /\ removed.handle = gone.handle /\ removed.order = gone.order
        /\ removed.seat = gone.seat
        /\ removed.pending \subseteq gone.pending /\ removed.scratch = gone.scratch
        /\ removed.capture = gone.capture
    BY <1>3 DEF Good, Base, States
  <2> QED
    BY <1>3, <2>1, FewerKeeps
<1> HIDE DEF removed
<1>5. Good(left, F) /\ hadFocus \in BOOLEAN
  BY <1>4, ForgetAndReplyKeeps
<1> HIDE DEF left, hadFocus, waiting
<1> QED
  BY <1>1, <1>2, <1>5, RefocusKeeps

LEMMA DeadProcessKeeps ==
  ASSUME NEW F, NEW s, Good(s, F), NEW w \in Native
  PROVE  Good(DeadProcess(s, w), F)
<1> DEFINE unmapped == [s EXCEPT !.shown = @ \ {w}, !.pending = @ \ {w},
                                 !.asked = IF @ = w THEN None ELSE @]
           hadFocus == KeyboardFocused(unmapped) = w
           left     == Reply(ScratchForget(RemoveNative(unmapped, w), w))
<1>1. DeadProcess(s, w) = IF ~Registered(s, w) THEN s ELSE Refocus(left, w, hadFocus)
  BY DEF DeadProcess
<1>2. /\ unmapped \in States /\ unmapped.life = s.life /\ unmapped.shown = s.shown \ {w}
      /\ unmapped.handle = s.handle /\ unmapped.pending \subseteq s.pending
      /\ unmapped.scratch = s.scratch /\ unmapped.order = s.order /\ unmapped.seat = s.seat
      /\ unmapped.capture = s.capture
  BY DEF Good, Base, States, Option
<1> HIDE DEF unmapped
<1>3. Good(left, F) /\ hadFocus \in BOOLEAN
  BY <1>2, RemoveNativeKeeps, ForgetAndReplyKeeps
<1> HIDE DEF left, hadFocus
<1> QED
  BY <1>1, <1>3, RefocusKeeps

LEMMA PruneBufferlessKeeps ==
  ASSUME NEW F, NEW s, Good(s, F), NEW w \in Native, NEW removalSeen \in BOOLEAN
  PROVE  Good(PruneBufferless(s, w, removalSeen), F)
<1> DEFINE unmapped == [s EXCEPT !.shown = @ \ {w}, !.asked = IF @ = w THEN None ELSE @]
           hadFocus == KeyboardFocused(unmapped) = w
           left     == Reply(ScratchForget(RemoveNative(unmapped, w), w))
<1>1. PruneBufferless(s, w, removalSeen) =
        IF w \notin s.shown \/ (s.life[w] = "deferred" /\ ~removalSeen) THEN s
        ELSE Refocus(left, w, hadFocus)
  BY DEF PruneBufferless
<1>2. /\ unmapped \in States /\ unmapped.life = s.life /\ unmapped.shown = s.shown \ {w}
      /\ unmapped.handle = s.handle /\ unmapped.pending = s.pending
      /\ unmapped.scratch = s.scratch /\ unmapped.order = s.order /\ unmapped.seat = s.seat
      /\ unmapped.capture = s.capture
  BY DEF Good, Base, States, Option
<1> HIDE DEF unmapped
<1>3. Good(left, F) /\ hadFocus \in BOOLEAN
  BY <1>2, RemoveNativeKeeps, ForgetAndReplyKeeps
<1> HIDE DEF left, hadFocus
<1> QED
  BY <1>1, <1>3, RefocusKeeps

\* A native window that is asked to close is the top and has the seat, and it
\* keeps its row.
LEMMA CloseNativeKeeps ==
  ASSUME NEW F, NEW s, Good(s, F), NEW w \in Native
  PROVE  Good(CloseNative(s, w), F)
<1> DEFINE chosen  == [s EXCEPT !.refocus[w] = CloseTarget(s, w)]
           focused == IF w \in s.shown THEN SetSeat(chosen, w) ELSE chosen
           closing == [focused EXCEPT !.life[w] = "closing"]
<1>1. CloseTarget(s, w) \in Option(Windows) /\ w \in Windows
  BY CloseTargetType, WindowFacts DEF Good, Base
<1>2. /\ chosen \in States /\ SameWindows(s, chosen)
      /\ chosen.order = s.order /\ chosen.seat = s.seat
  BY <1>1 DEF Good, Base, States, SameWindows
<1>3. CloseNative(s, w) = IF w \in s.shown \cup s.handle THEN closing ELSE focused
  BY DEF CloseNative
<1> HIDE DEF chosen
<1>4. Good(chosen, F)
  BY <1>2, SameOrderKeeps DEF Good
<1>5. Good(focused, F) /\ SameWindows(s, focused)
  <2>1. CASE w \in s.shown
    <3>1. Registered(chosen, w) /\ w \in Option(Native)
      BY <1>2, <2>1 DEF Good, Base, Safe, SameWindows, Registered, Option
    <3>2. Good(SetSeat(chosen, w), F) /\ SameWindows(chosen, SetSeat(chosen, w))
      BY <1>4, <3>1, SetSeatKeeps DEF Good, OnTop
    <3> QED
      BY <1>2, <2>1, <3>2 DEF SameWindows
  <2>2. CASE w \notin s.shown
    BY <1>2, <1>4, <2>2
  <2> QED
    BY <2>1, <2>2
<1> HIDE DEF focused
<1>6. ASSUME w \in s.shown \cup s.handle PROVE Good(closing, F)
  <2>1. /\ closing \in States /\ closing.life = [focused.life EXCEPT ![w] = "closing"]
        /\ closing.shown = s.shown /\ closing.handle = s.handle
        /\ closing.pending = s.pending /\ closing.scratch = s.scratch
        /\ closing.order = focused.order /\ closing.seat = focused.seat
        /\ closing.capture = focused.capture
    BY <1>1, <1>5 DEF Good, Base, States, SameWindows
  <2> HIDE DEF closing
  <2>2. /\ closing.life[w] = "closing"
        /\ \A v \in Windows : v # w => closing.life[v] = s.life[v]
    BY <1>1, <1>5, <2>1 DEF Good, Base, States, SameWindows
  <2>3. Safe(closing)
    BY <1>6, <2>1, <2>2, WindowFacts DEF Good, Base, Safe, Registered, Minimized
  <2>4. Early(closing)
    <3>1. Early(focused) /\ SameWindows(s, focused) /\ s.handle \subseteq Windows
      BY <1>5, WindowFacts DEF Good, Base, States
    <3> QED
      BY <2>1, <2>2, <3>1 DEF Early, SameWindows, Registered
  <2>5. \A v \in Windows : Registered(focused, v) => Registered(closing, v)
    BY <1>5, <2>2 DEF Registered, SameWindows
  <2>6. focused.seat \in Option(Native)
    BY <1>5 DEF Good, Base, States
  <2> QED
    BY <1>5, <2>1, <2>3, <2>4, <2>5, <2>6, WindowFacts DEF Good, Base, OnTop, Option
<1> QED
  BY <1>3, <1>5, <1>6

LEMMA CloseHostedKeeps ==
  ASSUME NEW F, NEW s, Good(s, F), NEW w \in Hosted
  PROVE  Good(CloseHosted(s, w), F)
<1> DEFINE next    == IF s.ui = w THEN PickNext(s, w) ELSE None
           freed   == IF s.ui = w THEN [s EXCEPT !.ui = None, !.capture = NoCapture] ELSE s
           gone    == [freed EXCEPT !.life[w] = "gone"]
           lost    == ForgetInOrder(ScratchForget(gone, w), w)
           q       == Kept(s.order, Windows \ {w})
<1>1. next \in Option(Windows) /\ w \in Windows
  BY PickNextType, WindowFacts DEF Good, Base, Option
<1>2. CloseHosted(s, w) = IF next = None THEN Reply(lost)
                          ELSE Reply(FocusLogical(Reply(lost), next))
  BY DEF CloseHosted
<1> HIDE DEF next
<1>3. /\ s \in States /\ s.order \in Seq(Windows) /\ Distinct(s.order)
      /\ s.seat \in Option(Native) /\ NoCapture \in Captures
  BY CapturesOf DEF Good, Base, States
<1>4. q \in Seq(Windows) /\ Distinct(q)
  BY <1>3, KeptKeeps, KeptDistinct
<1>5. /\ freed \in States /\ SameWindows(s, freed) /\ freed.order = s.order
      /\ freed.seat = s.seat
  <2>1. freed.capture.restore \in {None, s.capture.restore}
    BY <1>3, CapturesOf DEF States
  <2>2. /\ freed \in States /\ freed.order = s.order /\ freed.seat = s.seat
        /\ freed.life = s.life /\ freed.shown = s.shown /\ freed.handle = s.handle
        /\ freed.pending = s.pending /\ freed.scratch = s.scratch
    BY <1>3 DEF States, Option
  <2> QED
    BY <2>1, <2>2 DEF SameWindows
<1> HIDE DEF freed
<1>6. /\ gone \in States /\ gone.life = [s.life EXCEPT ![w] = "gone"] /\ gone.shown = s.shown
      /\ gone.handle = s.handle /\ gone.pending = s.pending /\ gone.scratch = s.scratch
      /\ gone.order = s.order /\ gone.seat = s.seat
      /\ gone.capture.restore \in {None, s.capture.restore}
  BY <1>1, <1>5 DEF States, SameWindows
<1> HIDE DEF gone
<1>7. /\ lost = [gone EXCEPT !.scratch = @ \ {w}, !.order = q]
  BY <1>6 DEF ForgetInOrder, ScratchForget, States
<1> HIDE DEF lost, q
<1>8. /\ lost \in States /\ lost.life = [s.life EXCEPT ![w] = "gone"] /\ lost.shown = s.shown
      /\ lost.handle = s.handle /\ lost.pending = s.pending /\ lost.scratch = s.scratch \ {w}
      /\ lost.order = q /\ lost.seat = s.seat
      /\ lost.capture.restore \in {None, s.capture.restore}
  BY <1>4, <1>6, <1>7 DEF States
<1>9. lost.life[w] = "gone" /\ \A v \in Windows : v # w => lost.life[v] = s.life[v]
  BY <1>1, <1>3, <1>8 DEF States
<1>10. Safe(lost)
  BY <1>8, <1>9, WindowFacts DEF Good, Base, Safe, Registered, Minimized
<1>11. Early(lost)
  <2>1. /\ s.pending \subseteq Native /\ w \notin s.pending
        /\ s.handle \subseteq Native /\ w \notin s.handle
    BY WindowFacts DEF Good, Base, States
  <2> QED
    BY <1>8, <1>9, <2>1, WindowFacts DEF Good, Base, Early, Registered
<1>12. OnTop(lost, F)
  <2> SUFFICES ASSUME s.seat # None PROVE Registered(lost, s.seat) /\ TopAt(q, s.seat, F)
    BY <1>8 DEF OnTop
  <2>1. s.seat \in Windows \ {w}
    BY <1>3, WindowFacts DEF Option
  <2>2. TopAt(q, s.seat, F)
    BY <1>3, <2>1, KeptTop DEF Good, OnTop, q
  <2> QED
    BY <1>9, <2>1, <2>2 DEF Good, OnTop, Registered
<1>13. Good(Reply(lost), F)
  BY <1>4, <1>8, <1>10, <1>11, <1>12, ReplyKeeps DEF Good, Base
<1>14. next # None => Good(Reply(FocusLogical(Reply(lost), next)), F)
  BY <1>1, <1>13, ReplyFocusKeeps DEF Option
<1> QED
  BY <1>2, <1>13, <1>14

LEMMA CloseKeeps ==
  ASSUME NEW F, NEW s, Good(s, F), NEW w \in Windows
  PROVE  Good(Close(s, w), F)
BY CloseNativeKeeps, CloseHostedKeeps, WindowFacts DEF Close

\* The state in which the windows of C are gone.
Without(s, C) ==
  [s EXCEPT !.life    = [w \in Windows |-> IF w \in C THEN "gone" ELSE @[w]],
            !.shown   = @ \ C, !.pending = @ \ C, !.handle = @ \ C,
            !.order   = Kept(@, Windows \ C),
            !.scratch = @ \ C,
            !.asked   = IF @ \in C THEN None ELSE @,
            !.seat    = IF @ \in C THEN None ELSE @,
            !.spawned = @ \ C,
            !.refocus = [w \in Native |-> IF w \in C THEN None ELSE @[w]]]

LEMMA WithoutKeeps ==
  ASSUME NEW F, NEW s, Good(s, F), NEW C \in SUBSET Native
  PROVE  /\ Good(Without(s, C), F) /\ Without(s, C).shown = s.shown \ C
         /\ \A w \in Windows : Without(s, C).life[w] = IF w \in C THEN "gone" ELSE s.life[w]
<1> DEFINE q       == Kept(s.order, Windows \ C)
           life    == [w \in Windows |-> IF w \in C THEN "gone" ELSE s.life[w]]
           refocus == [w \in Native |-> IF w \in C THEN None ELSE s.refocus[w]]
           t       == Without(s, C)
<1>1. /\ s \in States /\ s.order \in Seq(Windows) /\ Distinct(s.order)
      /\ s.seat \in Option(Native)
  BY DEF Good, Base, States
<1>2. q \in Seq(Windows) /\ Distinct(q)
  BY <1>1, KeptKeeps, KeptDistinct
<1>3. life \in [Windows -> {"new", "deferred", "mapped", "minimized", "closing", "gone"}]
  BY <1>1 DEF States
<1>4. refocus \in [Native -> Option(Windows)]
  BY <1>1 DEF States, Option
<1>5. /\ t.life = life /\ t.shown = s.shown \ C /\ t.handle = s.handle \ C
      /\ t.pending = s.pending \ C /\ t.scratch = s.scratch \ C
      /\ t.order = q /\ t.seat = IF s.seat \in C THEN None ELSE s.seat
      /\ t.capture = s.capture
  BY <1>1 DEF States, Without
<1>6. t \in States
  <2>1. t = [s EXCEPT !.life = life, !.shown = s.shown \ C, !.pending = s.pending \ C,
                      !.handle = s.handle \ C, !.order = q, !.scratch = s.scratch \ C,
                      !.asked = IF s.asked \in C THEN None ELSE s.asked,
                      !.seat = IF s.seat \in C THEN None ELSE s.seat,
                      !.spawned = s.spawned \ C, !.refocus = refocus]
    BY <1>1 DEF States, Without
  <2> DEFINE seat  == IF s.seat \in C THEN None ELSE s.seat
             asked == IF s.asked \in C THEN None ELSE s.asked
  <2>2. seat \in Option(Native) /\ asked \in Option(Native)
    BY <1>1 DEF States, Option
  <2>3. s.shown \ C \in SUBSET Native /\ s.pending \ C \in SUBSET Native
        /\ s.handle \ C \in SUBSET Native /\ s.scratch \ C \in SUBSET Windows
        /\ s.spawned \ C \in SUBSET Native
    BY <1>1 DEF States
  <2> HIDE DEF t, q, life, refocus, seat, asked
  <2>4. t = [s EXCEPT !.life = life, !.shown = s.shown \ C, !.pending = s.pending \ C,
                      !.handle = s.handle \ C, !.order = q, !.scratch = s.scratch \ C,
                      !.asked = asked, !.seat = seat,
                      !.spawned = s.spawned \ C, !.refocus = refocus]
    BY <2>1 DEF seat, asked
  <2> QED
    BY <1>1, <1>2, <1>3, <1>4, <2>2, <2>3, <2>4 DEF States
<1> HIDE DEF t, q
<1>7. \A w \in Windows : t.life[w] = IF w \in C THEN "gone" ELSE s.life[w]
  BY <1>5
<1>8. Safe(t)
  BY <1>5, <1>7, WindowFacts DEF Good, Base, Safe, Registered, Minimized
<1>9. Early(t)
  <2>1. s.pending \subseteq Windows /\ s.handle \subseteq Windows
    BY <1>1, WindowFacts DEF States
  <2> HIDE DEF life
  <2> QED
    BY <1>5, <1>7, <2>1 DEF Good, Base, Early, Registered
<1>10. OnTop(t, F)
  <2> SUFFICES ASSUME t.seat # None PROVE Registered(t, t.seat) /\ TopAt(t.order, t.seat, F)
    BY DEF OnTop
  <2>1. t.seat = s.seat /\ s.seat \notin C /\ s.seat \in Windows
    BY <1>1, <1>5, WindowFacts DEF Option
  <2>2. Registered(s, s.seat) /\ TopAt(s.order, s.seat, F)
    BY <2>1 DEF Good, OnTop
  <2>3. TopAt(q, s.seat, F)
    BY <1>1, <2>1, <2>2, KeptTop DEF q
  <2> QED
    BY <1>5, <1>7, <2>1, <2>2, <2>3 DEF Registered
<1> QED
  BY <1>2, <1>5, <1>6, <1>7, <1>8, <1>9, <1>10 DEF Good, Base, t

LEMMA DisconnectedIs ==
  ASSUME NEW s, NEW C, NEW first
  PROVE  Disconnected(s, C, first) =
           IF first # None THEN Reply(FocusLogical(Reply(Without(s, C)), s.refocus[first]))
           ELSE IF s.seat \in C /\ KeyboardFocused(s) # None
                THEN RefocusTop(Reply(Without(s, C)))
           ELSE Reply(Without(s, C))
BY DEF Disconnected, Without

LEMMA DisconnectedKeeps ==
  ASSUME NEW F, NEW s, Good(s, F), NEW C \in SUBSET Native,
         NEW first \in IF HaveTarget(s, C) = {} THEN {None} ELSE HaveTarget(s, C)
  PROVE  Good(Disconnected(s, C, first), F)
<1>1. first # None => s.refocus[first] \in Windows
  BY DEF HaveTarget, IfValid, Good, Base, States, Option
<1>2. Good(Reply(Without(s, C)), F)
  BY WithoutKeeps, ReplyKeeps DEF Good
<1> QED
  BY <1>1, <1>2, DisconnectedIs, ReplyFocusKeeps, RefocusTopKeeps

-----------------------------------------------------------------------------
(* The handlers.                                                           *)

LEMMA GoodInit ==
  ASSUME NEW F, Init
  PROVE  Good(st, F)
<1>1. PICK bound \in Bounds :
        st = [ life     |-> [w \in Windows |-> "new"],
               shown    |-> {}, pending |-> {}, handle |-> {},
               order    |-> <<>>,
               seat     |-> None, capture |-> NoCapture, ui |-> None,
               selected |-> None,
               refocus  |-> [w \in Native |-> None],
               asked    |-> None, spawned |-> {},
               scratch  |-> {}, bound |-> bound ]
  BY DEF Init
<1>2. NoCapture \in Captures /\ NoCapture.restore = None
  BY CapturesOf
<1>3. st \in States
  BY <1>1, <1>2 DEF States, Option
<1> QED
  BY <1>1, <1>2, <1>3, WindowFacts
     DEF Good, Base, Distinct, Safe, Early, OnTop, Registered, Minimized

\* What the shell's page has of the keyboard moves no window.
LEMMA CaptureKeeps ==
  ASSUME NEW F, NEW s, Good(s, F), NEW c \in Captures,
         NEW u \in Option(Windows), NEW v \in Option(Windows),
         c.restore # None => s.life[c.restore] # "new"
  PROVE  /\ Good([s EXCEPT !.capture = c], F)
         /\ Good([s EXCEPT !.ui = u], F)
         /\ Good([s EXCEPT !.capture = c, !.ui = u], F)
         /\ Good([s EXCEPT !.ui = u, !.capture = c], F)
         /\ Good([s EXCEPT !.capture = c, !.selected = v], F)
         /\ Good([s EXCEPT !.selected = v, !.capture = c], F)
<1> DEFINE Same(t) == /\ t \in States /\ t.life = s.life /\ t.shown = s.shown
                      /\ t.handle = s.handle /\ t.pending = s.pending /\ t.scratch = s.scratch
                      /\ t.order = s.order /\ t.seat = s.seat /\ t.capture \in {s.capture, c}
<1>1. ASSUME NEW t, Same(t) PROVE Good(t, F)
  <2>1. Safe(t) /\ OnTop(t, F)
    BY <1>1 DEF Good, Base, Safe, OnTop, Registered, Minimized
  <2>2. \A w \in Windows : t.life[w] = "new" => w # t.capture.restore
    BY <1>1, WindowFacts DEF Good, Base, Early
  <2>3. Early(t)
    BY <1>1, <2>2 DEF Good, Base, Early, Registered
  <2> QED
    BY <1>1, <2>1, <2>3 DEF Good, Base
<1>2. /\ Same([s EXCEPT !.capture = c])
      /\ Same([s EXCEPT !.ui = u])
      /\ Same([s EXCEPT !.capture = c, !.ui = u])
      /\ Same([s EXCEPT !.ui = u, !.capture = c])
      /\ Same([s EXCEPT !.capture = c, !.selected = v])
      /\ Same([s EXCEPT !.selected = v, !.capture = c])
  BY DEF Good, Base, States
<1> HIDE DEF Same
<1> QED
  BY <1>1, <1>2

LEMMA NoSeatKeeps ==
  ASSUME NEW F, NEW s, Good(s, F)
  PROVE  Good(SetSeat(s, None), F)
BY SetSeatKeeps, CapturesOf DEF Good

LEMMA NewToplevelStep ==
  ASSUME NEW F, Good(st, F), NEW w \in Native, NEW rule \in RulesOf(w), NewToplevel(w, rule)
  PROVE  Good(st', F)
<1>1. w \notin st.scratch
  BY WindowFacts DEF NewToplevel, Good, Base, Early
<1> QED
  BY <1>1, MapToplevelKeeps DEF NewToplevel

LEMMA NewDeferredToplevelStep ==
  ASSUME NEW F, Good(st, F), NEW w \in Native, NewDeferredToplevel(w)
  PROVE  Good(st', F)
<1>1. st \in States /\ w \in Windows /\ w \in Slow /\ st.life[w] = "new"
  BY WindowFacts DEF Good, Base, NewDeferredToplevel, Late
<1>2. /\ st' \in States /\ st'.life = [st.life EXCEPT ![w] = "deferred"]
      /\ st'.shown = st.shown \cup {w} /\ st'.handle = st.handle
      /\ st'.pending = st.pending \cup {w} /\ st'.scratch = st.scratch
      /\ st'.order = st.order /\ st'.seat = st.seat /\ st'.capture = st.capture
  BY <1>1 DEF NewDeferredToplevel, States
<1>3. st'.life[w] = "deferred" /\ \A v \in Windows : v # w => st'.life[v] = st.life[v]
  BY <1>1, <1>2 DEF States
<1>4. Safe(st')
  BY <1>2, <1>3, WindowFacts DEF Good, Base, Safe, Registered, Minimized
<1>5. Early(st')
  BY <1>1, <1>2, <1>3, WindowFacts DEF Good, Base, Early, Registered, States
<1>6. \A v \in Windows : Registered(st, v) => Registered(st', v)
  BY <1>3 DEF Registered
<1>7. st.seat \in Option(Native)
  BY <1>1 DEF States
<1> QED
  BY <1>2, <1>4, <1>5, <1>6, <1>7, WindowFacts DEF Good, Base, OnTop, Option

LEMMA CommitReadyStep ==
  ASSUME NEW F, Good(st, F), NEW w \in Native, NEW rule \in RulesOf(w), CommitReady(w, rule),
         MapsInScratch(w) => Exempt(w, F)
  PROVE  Good(st', F)
<1>1. w \in st.scratch => Exempt(w, F)
  BY DEF MapsInScratch
<1> QED
  BY <1>1, MapToplevelKeeps DEF CommitReady

LEMMA ActivatedStep ==
  ASSUME NEW F, Good(st, F), NEW w \in Native, Activated(w)
  PROVE  Good(st', F)
<1>0. w \in Windows
  BY WindowFacts
<1>1. CASE Minimized(st, w)
  BY <1>0, <1>1, RestoreKeeps DEF Activated
<1>2. CASE ~Minimized(st, w) /\ st.life[w] = "deferred"
  <2>1. /\ st' \in States /\ st'.life = st.life /\ st'.shown = st.shown
        /\ st'.handle = st.handle /\ st'.order = st.order /\ st'.seat = st.seat
        /\ st'.pending = st.pending /\ st'.scratch = st.scratch /\ st'.capture = st.capture
    BY <1>2 DEF Activated, Good, Base, States, Option
  <2> QED
    BY <2>1, FewerKeeps
<1>3. CASE ~Minimized(st, w) /\ st.life[w] # "deferred"
  BY <1>0, <1>3, RaiseAndFocusKeeps, ReplyKeeps DEF Activated, Good
<1> QED
  BY <1>1, <1>2, <1>3

LEMMA ClientSteps ==
  ASSUME NEW F, Good(st, F), ByClient, \A v \in Native : MapsInScratch(v) => Exempt(v, F)
  PROVE  Good(st', F)
<1>1. ASSUME NEW w \in Native, NEW rule \in RulesOf(w),
             NewToplevel(w, rule) \/ CommitReady(w, rule)
      PROVE  Good(st', F)
  BY <1>1, NewToplevelStep, CommitReadyStep
<1>2. ASSUME NEW w \in Native, NewDeferredToplevel(w)
      PROVE  Good(st', F)
  BY <1>2, NewDeferredToplevelStep
<1>3. ASSUME NEW w \in Native, NEW removed \in BOOLEAN, CommitWithoutExtent(w, removed)
      PROVE  Good(st', F)
  BY <1>3, PruneBufferlessKeeps DEF CommitWithoutExtent
<1>4. ASSUME NEW w \in Native, ToplevelDestroyed(w) \/ ProcessDied(w)
      PROVE  Good(st', F)
  BY <1>4, DestroyedKeeps, DeadProcessKeeps DEF ToplevelDestroyed, ProcessDied
<1>5. ASSUME NEW w \in Native, Activated(w) \/ MinimizeAsked(w)
      PROVE  Good(st', F)
  BY <1>5, ActivatedStep, MinimizeKeeps, WindowFacts DEF MinimizeAsked
<1>6. ASSUME NEW C \in SUBSET Native, ClientDisconnected(C)
      PROVE  Good(st', F)
  BY <1>6, DisconnectedKeeps DEF ClientDisconnected
<1>7. ASSUME NEW w \in Windows, NEW rule \in RulesOf(w), TitleChanged(w, rule)
      PROVE  Good(st', F)
  BY <1>7, ScratchConsiderKeeps DEF TitleChanged
<1> QED
  BY <1>1, <1>2, <1>3, <1>4, <1>5, <1>6, <1>7 DEF ByClient

LEMMA HostedOpenStep ==
  ASSUME NEW F, Good(st, F), NEW w \in Hosted, NEW rule \in RulesOf(w), HostedOpen(w, rule)
  PROVE  Good(st', F)
<1> DEFINE mapped == [st EXCEPT !.life[w] = "mapped"]
           opened == ScratchConsider(mapped, w, rule)
<1>0. w \in Windows
  BY WindowFacts
<1>1. Good(mapped, F)
  <2>1. /\ mapped \in States /\ mapped.life = [st.life EXCEPT ![w] = "mapped"]
        /\ mapped.shown = st.shown /\ mapped.handle = st.handle /\ mapped.pending = st.pending
        /\ mapped.scratch = st.scratch /\ mapped.order = st.order /\ mapped.seat = st.seat
        /\ mapped.capture = st.capture
    BY <1>0 DEF Good, Base, States
  <2> HIDE DEF mapped
  <2> QED
    BY <2>1, HostedLifeKeeps
<1>2. st' = IF Registered(st, w) THEN FocusShellUi(RestoreHosted(st, w), w)
            ELSE IF w \in opened.scratch THEN Reply(opened)
            ELSE FocusShellUi(Reply(opened), w)
  BY DEF HostedOpen
<1> HIDE DEF mapped
<1>3. Good(opened, F)
  BY <1>0, <1>1, ScratchConsiderKeeps
<1> HIDE DEF opened
<1>4. Good(Reply(opened), F)
  BY <1>3, ReplyKeeps DEF Good
<1>5. Good(FocusShellUi(Reply(opened), w), F)
  BY <1>0, <1>4, FocusShellUiKeeps
<1> QED
  BY <1>2, <1>4, <1>5, ShowHostedKeeps

LEMMA ShellUiBlurStep ==
  ASSUME NEW F, Good(st, F), ShellUiBlurRequest
  PROVE  Good(st', F)
<1> DEFINE freed == [st EXCEPT !.ui = None, !.capture = NoCapture]
<1>1. Good(freed, F)
  BY CaptureKeeps, CapturesOf
<1>2. st' = SetSeat(freed, None)
  BY DEF ShellUiBlurRequest
<1> HIDE DEF freed
<1> QED
  BY <1>1, <1>2, NoSeatKeeps

LEMMA ProgramsMenuOpenedStep ==
  ASSUME NEW F, Good(st, F), NEW w \in Option(Windows), ProgramsMenuOpened(w)
  PROVE  Good(st', F)
<1> DEFINE here    == FirstOf(LogicalFocused(st), KeyboardFocused(st))
           restore == FirstOf(IfValid(st, w), IfValid(st, here))
<1>1. here \in Option(Windows)
  BY FocusTypes, WindowFacts DEF FirstOf, Good, Base, Option
<1>2. restore \in Option(Windows)
  BY <1>1, FocusTypes DEF FirstOf, Good, Base
<1>3. st' = [st EXCEPT !.capture = [kind |-> "ProgramsMenu", restore |-> restore]]
  BY DEF ProgramsMenuOpened
<1> HIDE DEF restore
<1>4. [kind |-> "ProgramsMenu", restore |-> restore] \in Captures
  BY <1>2, CapturesOf DEF Modals
<1>5. restore # None => st.life[restore] # "new"
  BY DEF restore, FirstOf, IfValid, Valid, Registered
<1> QED
  BY <1>3, <1>4, <1>5, CaptureKeeps, CapturesOf

\* A capture of the programs menu or the switcher is left for a window, or for none.
LEMMA CaptureEnds ==
  ASSUME NEW F, NEW s, Good(s, F), NEW target \in Option(Windows)
  PROVE  Good(IF target # None THEN FocusLogical(s, target) ELSE s, F)
BY FocusLogicalKeeps DEF Option

LEMMA ProgramsMenuClosedStep ==
  ASSUME NEW F, Good(st, F), ProgramsMenuClosed
  PROVE  Good(st', F)
<1> DEFINE restore == IF st.capture.kind = "ProgramsMenu" THEN st.capture.restore ELSE None
           closed  == [st EXCEPT !.capture = NoCapture]
<1>1. restore \in Option(Windows)
  BY DEF Good, Base, States, Captures, Option
<1>2. Good(closed, F)
  BY CaptureKeeps, CapturesOf
<1>3. st' = IF IfValid(st, restore) # None THEN FocusLogical(closed, restore) ELSE closed
  BY DEF ProgramsMenuClosed
<1> HIDE DEF closed, restore
<1>4. IfValid(st, restore) # None => restore \in Windows
  BY <1>1 DEF IfValid, Option
<1> QED
  BY <1>2, <1>3, <1>4, FocusLogicalKeeps

LEMMA ShellSteps ==
  ASSUME NEW F, Good(st, F), ByShell
  PROVE  Good(st', F)
<1>1. ASSUME NEW w \in Hosted, NEW rule \in RulesOf(w), HostedOpen(w, rule)
      PROVE  Good(st', F)
  BY <1>1, HostedOpenStep
<1>2. ASSUME NEW w \in Hosted, ShellUiFocusRequest(w)
      PROVE  Good(st', F)
  BY <1>2, TakeShellUiKeeps DEF ShellUiFocusRequest
<1>3. ASSUME NEW w \in Windows, CloseRequest(w) \/ MinimizeRequest(w)
      PROVE  Good(st', F)
  BY <1>3, CloseKeeps, MinimizeKeeps DEF CloseRequest, MinimizeRequest, Listed
<1>4. ASSUME NEW w \in Windows, ActivateRequest(w) \/ TaskbarRequest(w)
      PROVE  Good(st', F)
  BY <1>4, ActivateKeeps, TaskbarActivateKeeps DEF ActivateRequest, TaskbarRequest, Listed
<1>5. ASSUME PromotePlacements PROVE Good(st', F)
  BY <1>5, CaptureKeeps, CapturesOf DEF PromotePlacements
<1>6. ASSUME NEW w \in Option(Windows), ProgramsMenuOpened(w)
      PROVE  Good(st', F)
  BY <1>6, ProgramsMenuOpenedStep
<1>7. ASSUME WindowListRequested PROVE Good(st', F)
  BY <1>7, ReplyKeeps DEF WindowListRequested, Good
<1> QED
  BY <1>1, <1>2, <1>3, <1>4, <1>5, <1>6, <1>7, ShellUiBlurStep, ProgramsMenuClosedStep
     DEF ByShell

\* A press or a touch on the page, with or without a window that is hit.
LEMMA FocusPlacementKeeps ==
  ASSUME NEW F, NEW s, Good(s, F), NEW p \in Option(Windows), p \in Native => Exempt(p, F)
  PROVE  Good(FocusPlacement(s, p), F)
<1>1. CASE p = None
  BY <1>1 DEF FocusPlacement
<1>2. CASE p # None
  <2> DEFINE t == Touch(s, p)
             u == [t EXCEPT !.ui = p]
  <2>1. p \in Windows
    BY <1>2 DEF Option
  <2>2. Good(t, F)
    BY <2>1, TouchKeeps DEF Good
  <2> HIDE DEF t
  <2>3. Good(u, F)
    BY <2>2, CaptureKeeps, CapturesOf
  <2> HIDE DEF u
  <2>4. Good(Reply(u), F)
    BY <2>3, ReplyKeeps DEF Good
  <2> QED
    BY <1>2, <2>4 DEF t, u, FocusPlacement
<1> QED
  BY <1>1, <1>2

LEMMA PressOnShellStep ==
  ASSUME NEW F, Good(st, F), NEW p \in Option(Hosted), PressOnShell(p)
  PROVE  Good(st', F)
<1> DEFINE freed   == SetSeat(st, None)
           pressed == [freed EXCEPT !.capture = ShellUi]
<1>1. Good(freed, F)
  BY NoSeatKeeps
<1> HIDE DEF freed
<1>2. Good(pressed, F)
  BY <1>1, CaptureKeeps, CapturesOf
<1>3. st' = FocusPlacement(pressed, p)
  BY DEF PressOnShell, freed
<1>4. p \in Option(Windows) /\ p \notin Native
  BY WindowFacts DEF Option
<1> HIDE DEF pressed
<1> QED
  BY <1>2, <1>3, <1>4, FocusPlacementKeeps

LEMMA TouchOnShellStep ==
  ASSUME NEW F, Good(st, F), NEW p \in Option(Windows), TouchOnShell(p),
         p \in Native => Exempt(p, F)
  PROVE  Good(st', F)
<1> DEFINE touched == [st EXCEPT !.capture = ShellUi]
<1>1. Good(touched, F)
  BY CaptureKeeps, CapturesOf
<1>2. st' = FocusPlacement(touched, p)
  BY DEF TouchOnShell
<1> HIDE DEF touched
<1> QED
  BY <1>1, <1>2, FocusPlacementKeeps

\* The seat is taken by the window that is pressed, which then is raised.
LEMMA PressOnNativeStep ==
  ASSUME NEW F, Good(st, F), NEW w \in Native, PressOnNative(w)
  PROVE  Good(st', F)
<1> DEFINE freed == [st EXCEPT !.capture = NoCapture]
           s     == SetSeat(freed, w)
           t     == Touch(s, w)
<1>1. w \in Windows /\ w \in Option(Native) /\ Registered(st, w)
  BY WindowFacts DEF PressOnNative, Good, Base, Safe, Option
<1>2. Good(freed, F) /\ freed.life = st.life
  <2>1. Good(freed, F)
    BY CaptureKeeps, CapturesOf
  <2>2. freed.life = st.life
    BY DEF Good, Base, States
  <2> QED
    BY <2>1, <2>2
<1>3. st' = Reply(t)
  BY DEF PressOnNative
<1> HIDE DEF freed
<1>4. Registered(freed, w)
  BY <1>1, <1>2 DEF Registered
<1>5. Good(s, F) /\ SameWindows(freed, s) /\ s.seat = w
  <2>1. Base(freed) /\ (w # None /\ freed.seat = w => TopAt(freed.order, w, F))
    BY <1>2 DEF Good, OnTop
  <2> QED
    BY <1>1, <1>4, <2>1, SetSeatKeeps
<1> HIDE DEF s
<1>6. Registered(s, w)
  BY <1>4, <1>5 DEF Registered, SameWindows
<1>7. Base(t) /\ SameWindows(s, t) /\ SameSeat(s, t) /\ TopAt(t.order, w, F)
  BY <1>1, <1>5, <1>6, TouchKeeps DEF Good
<1> HIDE DEF t
<1>8. OnTop(t, F)
  BY <1>5, <1>6, <1>7 DEF OnTop, Registered, SameWindows, SameSeat
<1> QED
  BY <1>3, <1>7, <1>8, ReplyKeeps DEF Good

LEMMA PressOnDesktopStep ==
  ASSUME NEW F, Good(st, F), PressOnDesktop
  PROVE  Good(st', F)
<1> DEFINE freed == [st EXCEPT !.capture = NoCapture, !.ui = None]
<1>1. Good(freed, F)
  BY CaptureKeeps, CapturesOf
<1>2. st' = SetSeat(freed, None)
  BY DEF PressOnDesktop
<1> HIDE DEF freed
<1> QED
  BY <1>1, <1>2, NoSeatKeeps

LEMMA MoveOrResizeBeginStep ==
  ASSUME NEW F, Good(st, F), NEW w \in Windows, MoveOrResizeBegin(w)
  PROVE  Good(st', F)
<1>1. CASE w \in Hosted
  <2> DEFINE t == [st EXCEPT !.capture = ShellUi]
  <2>1. Good(t, F)
    BY CaptureKeeps, CapturesOf
  <2>2. st' = FocusShellUi(t, w)
    BY <1>1 DEF MoveOrResizeBegin
  <2> HIDE DEF t
  <2> QED
    BY <2>1, <2>2, FocusShellUiKeeps
<1>2. CASE w \notin Hosted
  <2>1. st' = SetSeat(st, w) /\ Registered(st, w) /\ w \in Option(Native)
    BY <1>2, WindowFacts DEF MoveOrResizeBegin, Listed, Option
  <2> QED
    BY <2>1, SetSeatKeeps DEF Good, OnTop
<1> QED
  BY <1>1, <1>2

LEMMA SwitcherCycleStep ==
  ASSUME NEW F, Good(st, F), NEW reverse \in BOOLEAN, SwitcherCycle(reverse)
  PROVE  Good(st', F)
<1> DEFINE candidates == Candidates(st)
           here    == FirstOf(LogicalFocused(st), KeyboardFocused(st))
           restore == FirstOf(SwitcherRestore(st), IfValid(st, here))
           pivot   == FirstOf(FirstOf(IfValid(st, st.selected), restore), candidates[1])
           at      == {i \in DOMAIN candidates : candidates[i] = pivot}
           i       == IF at = {} THEN 1 ELSE CHOOSE j \in at : TRUE
           n       == Len(candidates)
           next    == IF reverse THEN ((i + n - 2) % n) + 1 ELSE (i % n) + 1
           capture == IF SwitcherOpen(st) THEN st.capture
                      ELSE [kind |-> "WindowSwitcher", restore |-> restore]
<1>0. st \in States
  BY DEF Good, Base
<1>1. here \in Option(Windows)
  BY <1>0, FocusTypes, WindowFacts DEF FirstOf, Option
<1>2. restore \in Option(Windows)
  BY <1>0, <1>1, FocusTypes
     DEF FirstOf, SwitcherRestore, SwitcherOpen, States, Captures, Option
<1>3. st' = [st EXCEPT !.capture = capture, !.selected = candidates[next]] /\ n >= 2
  BY <1>0 DEF SwitcherCycle, States
<1>4. candidates \in Seq(Windows)
  BY CandidateFacts DEF Good, Base
<1>5. n \in Nat /\ DOMAIN candidates = 1 .. n
  BY <1>4
<1>10. at \subseteq 1 .. n
  BY <1>5
<1> HIDE DEF candidates, n, at, pivot
<1>6. i \in 1 .. n
  BY <1>3, <1>5, <1>10
<1> HIDE DEF i
<1>7. next \in 1 .. n
  <2>1. i \in Nat /\ i + n - 2 \in Nat
    BY <1>3, <1>5, <1>6
  <2>2. ASSUME NEW k \in Nat PROVE (k % n) + 1 \in 1 .. n
    <3>1. n \in Nat /\ n >= 1
      BY <1>3, <1>5
    <3>2. k % n \in 0 .. n - 1
      BY <3>1
    <3> QED
      BY <3>1, <3>2
  <2>3. (i % n) + 1 \in 1 .. n /\ ((i + n - 2) % n) + 1 \in 1 .. n
    BY <2>1, <2>2
  <2> QED
    BY <2>3
<1> HIDE DEF next, restore
<1>8. candidates[next] \in Option(Windows)
  BY <1>4, <1>5, <1>7 DEF Option
<1>9. capture \in Captures
  BY <1>0, <1>2, CapturesOf DEF States, Modals
<1>11. capture.restore # None => st.life[capture.restore] # "new"
  <2>1. CASE SwitcherOpen(st)
    <3>1. st.capture.restore \in Option(Windows)
      BY <1>0, CapturesOf DEF States
    <3> QED
      BY <2>1, <3>1 DEF Good, Base, Early, Option
  <2>2. CASE ~SwitcherOpen(st)
    <3>1. capture.restore = IfValid(st, here)
      BY <2>2 DEF restore, FirstOf, SwitcherRestore
    <3> QED
      BY <3>1 DEF IfValid, Valid, Registered
  <2> QED
    BY <2>1, <2>2
<1> HIDE DEF capture
<1> QED
  BY <1>3, <1>8, <1>9, <1>11, CaptureKeeps, CapturesOf

LEMMA EffectiveSelectedType ==
  ASSUME NEW s \in States, Distinct(s.order)
  PROVE  EffectiveSelected(s) \in Option(Windows)
<1> DEFINE candidates == Candidates(s)
           at == {i \in DOMAIN candidates : candidates[i] = SwitcherRestore(s)}
           n  == Len(candidates)
           i  == CHOOSE j \in at : TRUE
<1>1. candidates \in Seq(Windows)
  BY CandidateFacts
<1>2. n \in Nat /\ DOMAIN candidates = 1 .. n
  BY <1>1
<1>3. s.selected \in Option(Windows)
  BY DEF States
<1>4. EffectiveSelected(s) =
        IF IfValid(s, s.selected) # None THEN s.selected
        ELSE IF at # {} THEN candidates[(i % n) + 1]
        ELSE IF candidates = <<>> THEN None ELSE candidates[1]
  BY DEF EffectiveSelected
<1>5. at \subseteq DOMAIN candidates
  OBVIOUS
<1> HIDE DEF candidates, n, at
<1>6. ASSUME at # {} PROVE candidates[(i % n) + 1] \in Windows
  <2>1. i \in 1 .. n
    BY <1>2, <1>5, <1>6
  <2> HIDE DEF i
  <2>2. i % n \in 0 .. n - 1
    BY <1>2, <2>1
  <2>3. (i % n) + 1 \in 1 .. n
    BY <1>2, <2>2
  <2> QED
    BY <1>1, <1>2, <2>3
<1>7. candidates # <<>> => candidates[1] \in Windows
  BY <1>1
<1> HIDE DEF i
<1> QED
  BY <1>3, <1>4, <1>6, <1>7 DEF Option

LEMMA SwitcherEndStep ==
  ASSUME NEW F, Good(st, F), SwitcherCancel \/ SwitcherCommit
  PROVE  Good(st', F)
<1> DEFINE closed == [st EXCEPT !.selected = None, !.capture = NoCapture]
<1>1. Good(closed, F)
  BY CaptureKeeps, CapturesOf
<1>2. st.capture.restore \in Option(Windows)
  BY DEF SwitcherCancel, SwitcherCommit, SwitcherOpen, Good, Base, States, Captures, Option
<1>3. IfValid(st, st.capture.restore) \in Option(Windows)
  BY <1>2, FocusTypes DEF Good, Base
<1>4. EffectiveSelected(st) \in Option(Windows)
  BY EffectiveSelectedType DEF Good, Base
<1>5. \E target \in Option(Windows) : SwitcherEnd(target)
  BY <1>3, <1>4 DEF SwitcherCancel, SwitcherCommit, FirstOf
<1>6. PICK target \in Option(Windows) :
        st' = IF target # None THEN FocusLogical(closed, target) ELSE closed
  BY <1>5 DEF SwitcherEnd
<1> HIDE DEF closed
<1> QED
  BY <1>1, <1>6, CaptureEnds

LEMMA SpawnStep ==
  ASSUME NEW F, Good(st, F), Spawn \/ SpawnFailed
  PROVE  Good(st', F)
<1>1. /\ st' \in States /\ st'.life = st.life /\ st'.shown = st.shown
      /\ st'.handle = st.handle /\ st'.order = st.order /\ st'.seat = st.seat
      /\ st'.pending = st.pending /\ st'.scratch = st.scratch /\ st'.capture = st.capture
  BY DEF Spawn, SpawnFailed, Good, Base, States
<1> QED
  BY <1>1, FewerKeeps

LEMMA UserSteps ==
  ASSUME NEW F, Good(st, F), ByUser, \A v \in Native : TouchOnShell(v) => Exempt(v, F)
  PROVE  Good(st', F)
<1>1. ASSUME NEW p \in Option(Hosted), PressOnShell(p)
      PROVE  Good(st', F)
  BY <1>1, PressOnShellStep
<1>8. ASSUME NEW p \in Option(Windows), TouchOnShell(p)
      PROVE  Good(st', F)
  BY <1>8, TouchOnShellStep
<1>2. ASSUME PressOnShellOverlay \/ TouchOnDesktop \/ BeginScreenshot PROVE Good(st', F)
  <2>1. CASE PressOnShellOverlay
    BY <2>1, CaptureKeeps, CapturesOf DEF PressOnShellOverlay
  <2>2. CASE TouchOnDesktop
    BY <2>2, CaptureKeeps, CapturesOf DEF TouchOnDesktop
  <2>3. CASE BeginScreenshot
    BY <2>3, CaptureKeeps, CapturesOf DEF BeginScreenshot
  <2> QED
    BY <1>2, <2>1, <2>2, <2>3
<1>3. ASSUME NEW w \in Native, PressOnNative(w)
      PROVE  Good(st', F)
  BY <1>3, PressOnNativeStep
<1>4. ASSUME NEW w \in Windows, MoveOrResizeBegin(w)
      PROVE  Good(st', F)
  BY <1>4, MoveOrResizeBeginStep
<1>5. ASSUME CloseFocused PROVE Good(st', F)
  <2>1. PICK w \in Native : st' = Close(st, w)
    BY <1>5 DEF CloseFocused
  <2> QED
    BY <2>1, CloseKeeps, WindowFacts
<1>6. ASSUME ToggleScratchpad PROVE Good(st', F)
  <2>1. PICK w \in st.scratch : st' = ToggleScratch(st, w)
    BY <1>6 DEF ToggleScratchpad
  <2>2. w \in Windows
    BY <2>1 DEF Good, Base, States
  <2> QED
    BY <2>1, <2>2, ToggleScratchKeeps
<1>7. ASSUME NEW reverse \in BOOLEAN, SwitcherCycle(reverse)
      PROVE  Good(st', F)
  BY <1>7, SwitcherCycleStep
<1> QED
  BY <1>1, <1>2, <1>3, <1>4, <1>5, <1>6, <1>7, <1>8, PressOnDesktopStep, SwitcherEndStep,
     SpawnStep DEF ByUser

\* A step raises a native window that is not given the seat only by a touch on its
\* frame, or as it maps a window of the scratchpad.
LEMMA GoodStep ==
  ASSUME NEW F, Good(st, F), [Next]_st,
         \A v \in Native : TouchOnShell(v) \/ MapsInScratch(v) => Exempt(v, F)
  PROVE  Good(st', F)
<1>1. CASE UNCHANGED st
  BY <1>1
<1>2. CASE ByClient
  BY <1>2, ClientSteps
<1>3. CASE ByShell
  BY <1>3, ShellSteps
<1>4. CASE ByUser
  BY <1>4, UserSteps
<1> QED
  BY <1>1, <1>2, <1>3, <1>4 DEF Next

-----------------------------------------------------------------------------
(* The theorems.                                                           *)

\* Every window may lie above any other.
Every == [w \in Native |-> Native]

LEMMA GoodAlways == Spec => []Good(st, Every)
<1>1. Init => Good(st, Every)
  BY GoodInit
<1>2. Good(st, Every) /\ [Next]_st => Good(st, Every)'
  <2>1. \A v \in Native : Exempt(v, Every)
    BY DEF Exempt, Every
  <2>2. ASSUME Good(st, Every), [Next]_st PROVE Good(st', Every)
    BY <2>1, <2>2, GoodStep
  <2> QED
    BY <2>2
<1> QED
  BY <1>1, <1>2, PTL DEF Spec

\* The state keeps its shape, and no window is twice in the order the shell is sent
\* (shell_window_stack_touch takes a window out before it puts it on top).
THEOREM TypeCorrect == Spec => []TypeOK
<1>1. Good(st, Every) => TypeOK
  BY DEF Good, Base, Distinct, TypeOK
<1> QED
  BY <1>1, GoodAlways, PTL

\* A native window with a row is in the space or has a handle that brings it back,
\* whatever order it is mapped, minimised, restored, pruned and closed in.
THEOREM NoWindowIsLost == Spec => []NoWindowLost
<1>1. Good(st, Every) => NoWindowLost
  BY DEF Good, Base, Safe, NoWindowLost
<1> QED
  BY <1>1, GoodAlways, PTL

\* A window that is not above the one that has the seat is below it.
LEMMA AboveOrBelow ==
  ASSUME NEW F, Good(st, Every), st.seat # None,
         F = [w \in Native |-> (IF w = st.seat THEN {v \in Native : Above(st, v, w)} ELSE {})
                                \cup {v \in Native : TouchOnShell(v) \/ MapsInScratch(v)}]
  PROVE  TopAt(st.order, st.seat, F)
<1> DEFINE w == st.seat
           q == st.order
<1>1. w \in Native /\ q \in Seq(Windows) /\ Distinct(q)
  BY DEF Good, Base, States, Option
<1>2. PICK i \in DOMAIN q : q[i] = w
  BY DEF Good, OnTop, TopAt
<1>3. ASSUME NEW j \in DOMAIN q, q[j] \in Native \ F[w]
      PROVE  j <= i
  <2>1. ~Above(st, q[j], w)
    BY <1>1, <1>3
  <2>2. PICK k \in DOMAIN q : q[k] = w /\ ~(k < j)
    BY <2>1 DEF Above
  <2>3. k = i
    BY <1>2, <2>2, <1>1 DEF Distinct
  <2>4. i \in Nat /\ j \in Nat
    BY <1>1
  <2> QED
    BY <2>2, <2>3, <2>4
<1> QED
  BY <1>2, <1>3 DEF TopAt

\* The native window that has the seat is above the other native windows: every way
\* to the seat raises (focus_changed, shell_raise_and_focus_window), and every way to
\* the top of the native windows takes the seat, but for a touch on a frame that the
\* shell draws and the map of a toplevel that a scratchpad took early.
THEOREM FocusOnTop == Spec => FocusAgreesWithStack
<1> DEFINE Agrees ==
             LET w == st'.seat
             IN  w # None => \A v \in Native :
                   Above(st', v, w) => \/ w = st.seat /\ Above(st, v, w)
                                       \/ TouchOnShell(v) \/ MapsInScratch(v)
<1>1. ASSUME Good(st, Every), [Next]_st, st'.seat # None,
             NEW v \in Native, Above(st', v, st'.seat)
      PROVE  \/ st'.seat = st.seat /\ Above(st, v, st'.seat)
             \/ TouchOnShell(v) \/ MapsInScratch(v)
  <2>1. PICK F : F = [w \in Native |->
                       (IF w = st.seat THEN {u \in Native : Above(st, u, w)} ELSE {})
                       \cup {u \in Native : TouchOnShell(u) \/ MapsInScratch(u)}]
    OBVIOUS
  <2>2. Good(st, F)
    <3>1. st.seat # None => TopAt(st.order, st.seat, F)
      BY <1>1, <2>1, AboveOrBelow
    <3> QED
      BY <1>1, <3>1 DEF Good, OnTop
  <2>3. \A u \in Native : TouchOnShell(u) \/ MapsInScratch(u) => Exempt(u, F)
    BY <2>1 DEF Exempt
  <2>4. Good(st', F)
    BY <1>1, <2>2, <2>3, GoodStep
  <2> DEFINE w == st'.seat
             q == st'.order
  <2>5. w \in Native /\ q \in Seq(Windows)
    BY <1>1, <2>4 DEF Good, Base, States, Option
  <2>6. PICK i \in DOMAIN q :
          q[i] = w /\ \A j \in DOMAIN q : q[j] \in Native \ F[w] => j <= i
    BY <1>1, <2>4 DEF Good, OnTop, TopAt
  <2>7. PICK j \in DOMAIN q : q[j] = v /\ i < j
    BY <1>1, <2>6 DEF Above
  <2>8. i \in Nat /\ j \in Nat /\ ~(j <= i)
    BY <2>5, <2>7
  <2>9. v \in F[w]
    BY <2>6, <2>7, <2>8
  <2> QED
    BY <2>1, <2>5, <2>9
<1>2. Good(st, Every) /\ [Next]_st => [Agrees]_st
  BY <1>1
<1>3. Spec => [][Agrees]_st
  <2> HIDE DEF Agrees
  <2> QED
    BY <1>2, GoodAlways, PTL DEF Spec
<1> QED
  BY <1>3 DEF FocusAgreesWithStack

-----------------------------------------------------------------------------
(* Where the focus is after a window that had it is gone.                  *)

SameCapture(s, t) == t.capture = s.capture /\ t.ui = s.ui

LEMMA ReplyCapture ==
  ASSUME NEW s, Base(s)
  PROVE  /\ SameCapture(s, Reply(s))
         /\ LogicalFocused(Reply(s)) = LogicalFocused(s)
         /\ \A w : Valid(Reply(s), w) <=> Valid(s, w)
<1> DEFINE t == Reply(s)
<1>1. /\ t.life = s.life /\ t.shown = s.shown /\ t.seat = s.seat
      /\ t.capture = s.capture /\ t.ui = s.ui
  BY DEF Reply, Base, States
<1> HIDE DEF t
<1>2. \A w : Valid(t, w) <=> Valid(s, w)
  BY <1>1 DEF Valid, Registered, Minimized
<1>3. KeyboardFocused(t) = KeyboardFocused(s)
  BY <1>1, <1>2 DEF KeyboardFocused
<1>4. LogicalFocused(t) = LogicalFocused(s)
  BY <1>1, <1>2, <1>3 DEF LogicalFocused
<1> QED
  BY <1>1, <1>2, <1>4 DEF SameCapture, t

LEMMA TouchCapture ==
  ASSUME NEW s, Base(s), NEW w
  PROVE  SameCapture(s, Touch(s, w))
BY DEF Touch, Base, States, SameCapture

LEMMA SetSeatCapture ==
  ASSUME NEW s, Base(s), NEW w \in Option(Native)
  PROVE  SetSeat(s, w).capture = s.capture
<1>1. CASE s.seat = w \/ w = None
  BY <1>1 DEF SetSeat, Base, States
<1>2. CASE s.seat # w /\ w # None
  <2> DEFINE t == [s EXCEPT !.seat = w, !.ui = None]
  <2>1. /\ t \in States /\ SameWindows(s, t) /\ t.order = s.order /\ t.capture = s.capture
    BY DEF Base, States, SameWindows, Option
  <2>2. SetSeat(s, w) = Touch(t, w)
    BY <1>2 DEF SetSeat
  <2> HIDE DEF t
  <2>3. Base(t)
    BY <2>1, SameWindowsBase DEF Base
  <2> QED
    BY <2>1, <2>2, <2>3, TouchCapture DEF SameCapture
<1> QED
  BY <1>1, <1>2

\* A valid native window that is raised has the focus.
LEMMA RaisedHasFocus ==
  ASSUME NEW s, Base(s), NEW w \in Native, Valid(s, w)
  PROVE  LogicalFocused(RaiseAndFocus(s, w)) = w
<1> DEFINE taken == [ [s EXCEPT !.capture = NoCapture, !.ui = None]
                        EXCEPT !.asked = IF @ = w THEN None ELSE @]
           u     == Touch(taken, w)
           t     == RaiseAndFocus(s, w)
<1>1. w \in Windows /\ w \in s.shown /\ w # None /\ Raisable(s, w) /\ w \in Option(Native)
  BY WindowFacts DEF Valid, Raisable, Option
<1>2. NoCapture \in Captures
  BY CapturesOf
<1>3. /\ taken \in States /\ SameWindows(s, taken) /\ taken.order = s.order
      /\ taken.capture = NoCapture
  <2>1. /\ taken \in States /\ taken.order = s.order /\ taken.capture = NoCapture
        /\ taken.life = s.life /\ taken.shown = s.shown /\ taken.handle = s.handle
        /\ taken.pending = s.pending /\ taken.scratch = s.scratch
    BY <1>2 DEF Base, States, Option
  <2> QED
    BY <2>1, CapturesOf DEF SameWindows
<1>4. t = SetSeat(u, w)
  BY <1>1 DEF RaiseAndFocus, Raisable
<1> HIDE DEF taken
<1>5. Base(taken)
  BY <1>3, SameWindowsBase DEF Base
<1>6. Base(u) /\ u.capture = NoCapture
  BY <1>1, <1>3, <1>5, TouchKeeps, TouchCapture DEF SameCapture
<1> HIDE DEF u
<1>7. t.capture = NoCapture
  BY <1>1, <1>4, <1>6, SetSeatCapture
<1>8. Good(t, Every) /\ SameWindows(s, t) /\ t.seat = w
  BY <1>1, RaiseAndFocusKeeps
<1> HIDE DEF t
<1>9. Valid(t, w)
  BY <1>8 DEF Valid, SameWindows, Registered, Minimized
<1>10. KeyboardFocused(t) = w
  BY <1>1, <1>8, <1>9 DEF KeyboardFocused
<1> QED
  BY <1>7, <1>10 DEF LogicalFocused, NoCapture, t

\* A window of the shell that is focused has the focus.
LEMMA ShellUiHasFocus ==
  ASSUME NEW F, NEW s, Good(s, F), NEW w \in Hosted, Valid(s, w)
  PROVE  LogicalFocused(FocusShellUi(s, w)) = w
<1> DEFINE a == SetSeat(s, None)
           b == [a EXCEPT !.asked = None, !.capture = ShellUi, !.ui = w]
           c == Touch(b, w)
<1>1. FocusShellUi(s, w) = Reply(c)
  BY DEF FocusShellUi, TakeShellUi, Valid
<1>2. Good(a, F) /\ w \in Windows
  BY NoSeatKeeps, WindowFacts
<1> HIDE DEF a
<1>3. /\ b \in States /\ SameWindows(a, b) /\ b.order = a.order /\ b.seat = a.seat
      /\ b.capture = ShellUi /\ b.ui = w
  BY <1>2, CapturesOf DEF Good, Base, States, SameWindows, Option
<1> HIDE DEF b
<1>4. Base(b)
  BY <1>2, <1>3, SameOrderKeeps DEF Good
<1>5. Base(c) /\ c.capture = ShellUi /\ c.ui = w
  BY <1>2, <1>3, <1>4, TouchKeeps, TouchCapture DEF SameCapture
<1> HIDE DEF c
<1>6. LogicalFocused(c) = w
  BY <1>5 DEF LogicalFocused, ShellUi
<1> QED
  BY <1>1, <1>5, <1>6, ReplyCapture

\* What the code focuses because it is valid has the focus, and still is valid.
HasFocus(s) == LogicalFocused(s) # None /\ Valid(s, LogicalFocused(s))

LEMMA FocusGoesTo ==
  ASSUME NEW F, NEW s, Good(s, F), NEW w \in Windows, Valid(s, w)
  PROVE  /\ LogicalFocused(Reply(FocusLogical(s, w))) = w /\ w # None
         /\ Valid(Reply(FocusLogical(s, w)), w)
<1> DEFINE t == FocusLogical(s, w)
<1>1. Good(t, F) /\ SameWindows(s, t)
  BY FocusLogicalKeeps
<1>2. LogicalFocused(t) = w
  BY RaisedHasFocus, ShellUiHasFocus, WindowFacts DEF FocusLogical, Good
<1> HIDE DEF t
<1>3. Valid(t, w)
  BY <1>1 DEF Valid, SameWindows, Registered, Minimized
<1>4. LogicalFocused(Reply(t)) = w /\ Valid(Reply(t), w)
  BY <1>1, <1>2, <1>3, ReplyCapture DEF Good
<1> QED
  BY <1>4, WindowFacts DEF t

LEMMA FocusGiven ==
  ASSUME NEW F, NEW s, Good(s, F), NEW w \in Windows, Valid(s, w)
  PROVE  HasFocus(Reply(FocusLogical(s, w)))
BY FocusGoesTo DEF HasFocus

\* The top of the stack is a valid window if there is one.
\* When nothing is left out, the first of what is kept is one of the sequence.
LEMMA KeptAll ==
  ASSUME NEW T, NEW q \in Seq(T), NEW S, \A i \in DOMAIN q : q[i] \in S
  PROVE  /\ Kept(q, S) = <<>> => q = <<>>
         /\ Kept(q, S) # <<>> => \E i \in DOMAIN q : Kept(q, S)[1] = q[i]
<1>8. ElementsOf(Kept(q, S), q, S)
  BY KeptElements
<1> DEFINE r == Kept(q, S)
<1>1. r \in Seq(T)
  BY KeptKeeps
<1>2. /\ \A k \in DOMAIN r : \E i \in DOMAIN q : r[k] = q[i]
      /\ \A i \in DOMAIN q : q[i] \in S => \E k \in DOMAIN r : r[k] = q[i]
  BY <1>8 DEF ElementsOf
<1> HIDE DEF r
<1>3. r # <<>> => 1 \in DOMAIN r
  BY <1>1
<1>4. q # <<>> => 1 \in DOMAIN q
  OBVIOUS
<1>5. r = <<>> => DOMAIN r = {}
  OBVIOUS
<1>6. r # <<>> => \E i \in DOMAIN q : r[1] = q[i]
  BY <1>2, <1>3
<1>7. r = <<>> => q = <<>>
  BY <1>2, <1>4, <1>5
<1> QED
  BY <1>6, <1>7 DEF r

LEMMA TopIsValid ==
  ASSUME NEW s \in States, Distinct(s.order)
  PROVE  /\ PickNext(s, None) # None => Valid(s, PickNext(s, None))
         /\ PickNext(s, None) = None => Candidates(s) = <<>>
<1> DEFINE all == Candidates(s)
           ids == Kept(all, Windows \ {None})
<1>1. all \in Seq(Windows) /\ \A i \in DOMAIN all : Valid(s, all[i])
  BY CandidateFacts
<1>2. PickNext(s, None) = IF ids = <<>> THEN None ELSE ids[1]
  BY DEF PickNext
<1> HIDE DEF all
<1>3. \A i \in DOMAIN all : all[i] \in Windows \ {None}
  BY <1>1, WindowFacts
<1>4. /\ ids = <<>> => all = <<>>
      /\ ids # <<>> => \E i \in DOMAIN all : ids[1] = all[i]
  BY <1>1, <1>3, KeptAll
<1> HIDE DEF ids
<1>5. ids # <<>> => Valid(s, ids[1]) /\ ids[1] # None
  BY <1>1, <1>3, <1>4
<1> QED
  BY <1>2, <1>4, <1>5 DEF all

\* RefocusTop focuses a window unless there is none.
LEMMA RefocusTopGives ==
  ASSUME NEW F, NEW s, Good(s, F)
  PROVE  HasFocus(RefocusTop(s)) \/ Candidates(RefocusTop(s)) = <<>>
<1> DEFINE top == PickNext(s, None)
<1>0. s \in States /\ Distinct(s.order)
  BY DEF Good, Base
<1>1. top \in Option(Windows) /\ RefocusTop(s) = IF top = None THEN SetSeat(s, None)
                                                 ELSE Reply(FocusLogical(s, top))
  BY <1>0, PickNextType DEF RefocusTop
<1>2. (top # None => Valid(s, top)) /\ (top = None => Candidates(s) = <<>>)
  BY <1>0, TopIsValid
<1> HIDE DEF top
<1>3. CASE top # None
  BY <1>1, <1>2, <1>3, FocusGiven DEF Option
<1>4. CASE top = None
  <2> DEFINE t == SetSeat(s, None)
  <2>1. t.life = s.life /\ t.shown = s.shown /\ t.order = s.order
    BY <1>0 DEF SetSeat, States
  <2>2. RefocusTop(s) = t /\ Candidates(s) = <<>>
    BY <1>1, <1>2, <1>4
  <2> HIDE DEF t
  <2>3. \A w : Registered(t, w) <=> Registered(s, w)
    BY <2>1 DEF Registered
  <2>4. \A w : Valid(t, w) <=> Valid(s, w)
    BY <2>1, <2>3 DEF Valid, Minimized
  <2>5. Rows(t) = Rows(s) /\ InOrder(t) = InOrder(s)
    BY <2>1, <2>3 DEF Rows, InOrder
  <2>6. StackIds(t) = StackIds(s)
    BY <2>1, <2>5 DEF StackIds
  <2>7. {w \in Windows : Valid(t, w)} = {w \in Windows : Valid(s, w)}
    BY <2>4
  <2>8. Candidates(t) = Candidates(s)
    BY <2>6, <2>7 DEF Candidates
  <2> QED
    BY <2>2, <2>8
<1> QED
  BY <1>3, <1>4

LEMMA RefocusGives ==
  ASSUME NEW F, NEW s, Good(s, F), NEW w \in Native
  PROVE  HasFocus(Refocus(s, w, TRUE)) \/ Candidates(Refocus(s, w, TRUE)) = <<>>
<1> DEFINE target == s.refocus[w]
           taken  == [s EXCEPT !.refocus[w] = None]
<1>1. target \in Option(Windows)
  BY DEF Good, Base, States
<1>2. /\ taken \in States /\ SameWindows(s, taken)
      /\ taken.order = s.order /\ taken.seat = s.seat
  BY DEF Good, Base, States, SameWindows, Option
<1>3. Refocus(s, w, TRUE) =
        IF IfValid(s, target) # None THEN Reply(FocusLogical(taken, target))
        ELSE RefocusTop(taken)
  BY DEF Refocus
<1> HIDE DEF taken
<1>4. Good(taken, F)
  BY <1>2, SameOrderKeeps DEF Good
<1>5. IfValid(s, target) # None => target \in Windows /\ Valid(taken, target)
  BY <1>1, <1>2 DEF IfValid, Option, Valid, SameWindows, Registered, Minimized
<1> HIDE DEF target
<1> QED
  BY <1>3, <1>4, <1>5, FocusGiven, RefocusTopGives

LEMMA DestroyedGives ==
  ASSUME NEW F, NEW s, Good(s, F), NEW w \in Native, Registered(s, w), KeyboardFocused(s) = w
  PROVE  HasFocus(Destroyed(s, w)) \/ Candidates(Destroyed(s, w)) = <<>>
<1> DEFINE deferred == s.life[w] = "deferred" \/ w \in s.pending
           gone     == RemoveNative(s, w)
           removed  == [gone EXCEPT !.pending = @ \ {w}]
           left     == IF deferred THEN removed ELSE Reply(ScratchForget(removed, w))
<1>1. Destroyed(s, w) = Refocus(left, w, TRUE)
  BY DEF Destroyed
<1>2. Good(gone, F)
  BY RemoveNativeKeeps DEF Good, Base
<1> HIDE DEF gone
<1>3. Good(removed, F)
  <2>1. /\ removed \in States /\ removed.life = gone.life /\ removed.shown = gone.shown
        /\ removed.handle = gone.handle /\ removed.order = gone.order
        /\ removed.seat = gone.seat
        /\ removed.pending \subseteq gone.pending /\ removed.scratch = gone.scratch
        /\ removed.capture = gone.capture
    BY <1>2 DEF Good, Base, States
  <2> QED
    BY <1>2, <2>1, FewerKeeps
<1> HIDE DEF removed
<1>4. Good(left, F)
  BY <1>3, ForgetAndReplyKeeps
<1> HIDE DEF left
<1> QED
  BY <1>1, <1>4, RefocusGives

LEMMA DisconnectedGives ==
  ASSUME NEW F, NEW s, Good(s, F), NEW C \in SUBSET Native,
         NEW first \in IF HaveTarget(s, C) = {} THEN {None} ELSE HaveTarget(s, C),
         s.seat \in C, KeyboardFocused(s) # None
  PROVE  HasFocus(Disconnected(s, C, first)) \/ Candidates(Disconnected(s, C, first)) = <<>>
<1> DEFINE gone   == Without(s, C)
           left   == Reply(gone)
           target == s.refocus[first]
<1>1. Disconnected(s, C, first) =
        IF first # None THEN Reply(FocusLogical(left, target)) ELSE RefocusTop(left)
  BY DisconnectedIs
<1>2. /\ Good(gone, F) /\ gone.shown = s.shown \ C
      /\ \A w \in Windows : gone.life[w] = IF w \in C THEN "gone" ELSE s.life[w]
  BY WithoutKeeps
<1> HIDE DEF gone
<1>3. Good(left, F)
  BY <1>2, ReplyKeeps DEF Good
<1>4. first # None => /\ target \in Windows /\ target \notin C /\ Valid(s, target)
  BY DEF HaveTarget, IfValid, Good, Base, States, Option
<1>5. first # None => Valid(gone, target)
  BY <1>2, <1>4 DEF Valid, Registered, Minimized
<1>6. first # None => Valid(left, target)
  BY <1>2, <1>5, ReplyCapture DEF Good
<1> HIDE DEF left, target
<1> QED
  BY <1>1, <1>3, <1>4, <1>6, FocusGiven, RefocusTopGives

\* When the window that has the keyboard is destroyed (toplevel_destroyed) or its
\* client disconnects (cleanup_disconnected_wayland_client), the target of its close,
\* or else the top of the stack, has the focus, if there is a window left.
THEOREM FocusRegained == Spec => FocusSurvivesClose
<1> DEFINE Regained ==
      \A w \in Native :
        /\ st'.life # st.life /\ ~Registered(st', w)
        /\ KeyboardFocused(st) = w /\ Candidates(st') # <<>>
        /\ ToplevelDestroyed(w) \/ \E C \in SUBSET Native : w \in C /\ ClientDisconnected(C)
        => LogicalFocused(st') # None /\ Valid(st', LogicalFocused(st'))
<1>1. Good(st, Every) => Regained
  <2> SUFFICES ASSUME Good(st, Every), NEW w \in Native, KeyboardFocused(st) = w,
                      Candidates(st') # <<>>,
                      ToplevelDestroyed(w)
                        \/ \E C \in SUBSET Native : w \in C /\ ClientDisconnected(C)
               PROVE  HasFocus(st')
    BY DEF HasFocus
  <2>1. Registered(st, w) /\ st.seat = w /\ w # None
    BY WindowFacts DEF KeyboardFocused, Valid
  <2>2. CASE ToplevelDestroyed(w)
    BY <2>1, <2>2, DestroyedGives DEF ToplevelDestroyed
  <2>3. CASE \E C \in SUBSET Native : w \in C /\ ClientDisconnected(C)
    <3>1. PICK C \in SUBSET Native : w \in C /\ ClientDisconnected(C)
      BY <2>3
    <3>2. PICK first \in IF HaveTarget(st, C) = {} THEN {None} ELSE HaveTarget(st, C) :
            st' = Disconnected(st, C, first)
      BY <3>1 DEF ClientDisconnected
    <3> QED
      BY <2>1, <3>1, <3>2, DisconnectedGives
  <2> QED
    BY <2>2, <2>3
<1>2. Spec => []Good(st, Every)
  BY GoodAlways
<1>3. Spec => [][Regained]_st
  <2>1. Good(st, Every) /\ [Next]_st => [Regained]_st
    BY <1>1
  <2> HIDE DEF Regained
  <2> QED
    BY <1>2, <2>1, PTL DEF Spec
<1> QED
  BY <1>3 DEF FocusSurvivesClose

-----------------------------------------------------------------------------
(* Who may have the focus after a step of a client.                        *)

\* t has of the keyboard, of what waits and of which windows are shown what s has.
SameFocus(s, t) ==
  /\ t.life = s.life /\ t.shown = s.shown
  /\ t.capture = s.capture /\ t.ui = s.ui /\ t.seat = s.seat
  /\ t.asked = s.asked /\ t.spawned = s.spawned

LEMMA SameFocusGives ==
  ASSUME NEW s, NEW t, SameFocus(s, t)
  PROVE  /\ LogicalFocused(t) = LogicalFocused(s)
         /\ \A w : Valid(t, w) <=> Valid(s, w)
<1>1. \A w : Valid(t, w) <=> Valid(s, w)
  BY DEF SameFocus, Valid, Registered, Minimized
<1>2. KeyboardFocused(t) = KeyboardFocused(s)
  BY <1>1 DEF SameFocus, KeyboardFocused
<1> QED
  BY <1>1, <1>2 DEF SameFocus, LogicalFocused

LEMMA ReplySameFocus ==
  ASSUME NEW s, Base(s)
  PROVE  SameFocus(s, Reply(s))
BY ReplyKeeps, ReplyCapture DEF SameFocus, SameWindows, SameSeat, SameCapture

LEMMA TouchSameFocus ==
  ASSUME NEW s, Base(s), NEW w \in Windows
  PROVE  SameFocus(s, Touch(s, w))
BY TouchKeeps, TouchCapture DEF SameFocus, SameWindows, SameSeat, SameCapture

\* From s to t nobody was given the focus: it is lost only with the window that had it,
\* and the window that a modal restores is not one that comes back.
Calm(s, t) ==
  /\ t.capture = s.capture
  /\ t.ui = s.ui \/ (t.ui = None /\ ~Valid(t, s.ui))
  /\ t.seat = s.seat \/ (t.seat = None /\ ~Valid(t, s.seat))
  /\ s.capture.restore # None /\ Valid(t, s.capture.restore) => Valid(s, s.capture.restore)

\* A window that could keep the focus keeps it.
Stays(s, t) ==
  LogicalFocused(s) # None /\ Valid(t, LogicalFocused(s))
    => LogicalFocused(t) = LogicalFocused(s)

LEMMA CalmStays ==
  ASSUME NEW s, Base(s), NEW t, Calm(s, t)
  PROVE  Stays(s, t)
<1> SUFFICES ASSUME LogicalFocused(s) # None, Valid(t, LogicalFocused(s))
             PROVE  LogicalFocused(t) = LogicalFocused(s)
  BY DEF Stays
<1>1. CASE s.capture.kind = "None"
  <2>1. /\ LogicalFocused(s) = KeyboardFocused(s)
        /\ LogicalFocused(t) = KeyboardFocused(t)
    BY <1>1 DEF LogicalFocused, Calm
  <2>2. KeyboardFocused(s) = s.seat /\ s.seat # None /\ Valid(t, s.seat)
    BY <2>1 DEF KeyboardFocused
  <2>3. t.seat = s.seat
    BY <2>2 DEF Calm
  <2> QED
    BY <2>1, <2>2, <2>3 DEF KeyboardFocused
<1>2. CASE s.capture.kind = "ShellUi"
  BY <1>2 DEF LogicalFocused, Calm
<1>3. CASE s.capture.kind # "None" /\ s.capture.kind # "ShellUi"
  <2> DEFINE r == s.capture.restore
  <2>1. /\ LogicalFocused(s) = IF r # None /\ Valid(s, r) THEN r ELSE s.ui
        /\ LogicalFocused(t) = IF r # None /\ Valid(t, r) THEN r ELSE t.ui
    BY <1>3 DEF LogicalFocused, Calm
  <2>2. CASE r # None /\ Valid(s, r)
    BY <2>1, <2>2
  <2>3. CASE ~(r # None /\ Valid(s, r))
    BY <2>1, <2>3 DEF Calm
  <2> QED
    BY <2>2, <2>3
<1> QED
  BY <1>1, <1>2, <1>3

\* What has the same focus is calm after a calm step.
LEMMA CalmThenSame ==
  ASSUME NEW s, NEW t, NEW u, Calm(s, t), SameFocus(t, u)
  PROVE  Calm(s, u)
<1>1. \A w : Valid(u, w) <=> Valid(t, w)
  BY SameFocusGives
<1> QED
  BY <1>1 DEF Calm, SameFocus

\* Where fewer windows are valid only the keyboard tells whether it is calm.
LEMMA FewerIsCalm ==
  ASSUME NEW s \in States, NEW t, \A v \in Windows : Valid(t, v) => Valid(s, v),
         t.capture = s.capture,
         t.ui = s.ui \/ (t.ui = None /\ ~Valid(t, s.ui)),
         t.seat = s.seat \/ (t.seat = None /\ ~Valid(t, s.seat))
  PROVE  Calm(s, t)
<1>1. s.capture.restore \in Option(Windows)
  BY CapturesOf DEF States
<1> QED
  BY <1>1 DEF Calm, Option

LEMMA SameIsCalm ==
  ASSUME NEW s, NEW t, SameFocus(s, t)
  PROVE  Calm(s, t)
BY SameFocusGives DEF Calm, SameFocus

\* Minimising a window is calm: the one that had the focus cannot keep it.
LEMMA MinimizeIsCalm ==
  ASSUME NEW F, NEW s, Good(s, F), NEW w \in Windows
  PROVE  Calm(s, Minimize(s, w))
<1> DEFINE h == Minimize(s, w)
<1>1. s \in States
  BY DEF Good, Base
<1>2. h = Minimize(s, w)
  OBVIOUS
<1>3. Good(h, F)
  BY MinimizeKeeps
<1> HIDE DEF h
<1>6. CASE h = s
  BY <1>6 DEF Calm, h
<1>7. CASE h # s /\ w \in Hosted
  <2> DEFINE t == [s EXCEPT !.life[w] = "minimized", !.ui = IF @ = w THEN None ELSE @]
  <2>1. /\ t.life = [s.life EXCEPT ![w] = "minimized"] /\ t.shown = s.shown
        /\ t.capture = s.capture /\ t.ui = (IF s.ui = w THEN None ELSE s.ui)
        /\ t.seat = s.seat /\ t.life = [s.life EXCEPT ![w] = "minimized"]
        /\ t.handle = s.handle /\ t.pending = s.pending
        /\ t.scratch = s.scratch /\ t.order = s.order
    BY <1>1 DEF States
  <2>2. h = Reply(t)
    BY <1>2, <1>7, WindowFacts DEF Minimize, MinimizeHosted, MinimizeNative, Registered
  <2>3. t \in States
    <3> DEFINE life == [s.life EXCEPT ![w] = "minimized"]
               ui   == IF s.ui = w THEN None ELSE s.ui
    <3>1. ui \in Option(Windows)
      BY <1>1 DEF States, Option
    <3>2. life \in [Windows -> {"new", "deferred", "mapped", "minimized", "closing", "gone"}]
      BY <1>1 DEF States
    <3>3. t = [s EXCEPT !.life = life, !.ui = ui]
      BY <1>1 DEF States
    <3>4. s \in States
      BY <1>1
    <3> HIDE DEF t, life, ui
    <3> QED
      BY ONLY <3>1, <3>2, <3>3, <3>4 DEF States
  <2> HIDE DEF t
  <2>4. Good(t, F)
    <3>1. /\ t.life = [s.life EXCEPT ![w] = "minimized"]
          /\ t.shown = s.shown /\ t.handle = s.handle /\ t.pending = s.pending
          /\ t.scratch = s.scratch /\ t.order = s.order /\ t.seat = s.seat
          /\ t.capture = s.capture
      BY <1>1, <2>1
    <3> QED
      BY <1>7, <2>3, <3>1, HostedLifeKeeps
  <2>5. s \in States /\ \A v \in Windows : v # w => t.life[v] = s.life[v]
    BY <2>1 DEF Good, Base, States
  <2>6. Minimized(t, w)
    BY <2>1 DEF Good, Base, States, Minimized
  <2>7. ~Valid(t, w) /\ \A v \in Windows : Valid(t, v) => Valid(s, v)
    BY <2>1, <2>5, <2>6 DEF Valid, Registered, Minimized
  <2>8. Calm(s, t)
    BY <2>1, <2>5, <2>7, FewerIsCalm
  <2>9. SameFocus(t, h) /\ Base(h)
    BY <1>3, <2>2, <2>4, ReplySameFocus DEF Good
  <2> QED
    BY <2>8, <2>9, CalmThenSame DEF h
<1>8. CASE h # s /\ w \in Native
  <2> DEFINE t == [s EXCEPT !.life[w] = "minimized", !.handle = @ \cup {w}, !.shown = @ \ {w}]
  <2>1. w \in Windows /\ w \notin Hosted /\ w # None
    BY <1>8, WindowFacts
  <2>2. /\ t.life = [s.life EXCEPT ![w] = "minimized"] /\ t.shown = s.shown \ {w}
        /\ t.capture = s.capture /\ t.ui = s.ui /\ t.seat = s.seat
    BY <1>1 DEF States
  <2>3. h = Reply(IF KeyboardFocused(t) = w THEN SetSeat(t, None) ELSE t)
    BY <1>2, <1>8, <2>1 DEF Minimize, MinimizeNative
  <2>4. s \in States /\ \A v \in Windows : v # w => t.life[v] = s.life[v]
    BY <2>2 DEF Good, Base, States
  <2>5. Minimized(t, w)
    BY <2>2 DEF Good, Base, States, Minimized
  <2>10. SameFocus(t, Reply(t))
    <3> DEFINE order == StackIds(t)
    <3>1. Reply(t) = [t EXCEPT !.order = order]
      BY DEF Reply
    <3> HIDE DEF order
    <3> QED
      BY <1>1, <3>1 DEF SameFocus, States
  <2> HIDE DEF t
  <2>6. ~Valid(t, w) /\ \A v \in Windows : Valid(t, v) => Valid(s, v)
    BY <2>2, <2>4, <2>5 DEF Valid, Registered, Minimized
  <2>7. KeyboardFocused(t) # w
    BY <2>1, <2>6 DEF KeyboardFocused
  <2>8. Calm(s, t)
    BY <2>2, <2>4, <2>6, FewerIsCalm
  <2>9. SameFocus(t, h)
    BY <2>3, <2>7, <2>10
  <2> QED
    BY <2>8, <2>9, CalmThenSame DEF h
<1> QED
  BY <1>6, <1>7, <1>8, WindowFacts

LEMMA HideIsCalm ==
  ASSUME NEW F, NEW s, Good(s, F), NEW w \in Windows
  PROVE  Calm(s, Reply(ScratchHide(s, w)))
<1> DEFINE a == [s EXCEPT !.asked = IF @ = w THEN None ELSE @]
           h == ScratchHide(s, w)
<1>1. /\ a \in States /\ a.life = s.life /\ a.shown = s.shown /\ a.capture = s.capture
      /\ a.ui = s.ui /\ a.seat = s.seat /\ a.handle = s.handle /\ a.order = s.order
      /\ a.pending = s.pending /\ a.scratch = s.scratch
  BY DEF Good, Base, States, Option
<1>2. h = Minimize(a, w)
  BY DEF ScratchHide
<1>3. Good(h, F)
  BY ScratchHideKeeps
<1> HIDE DEF a, h
<1>4. Good(a, F)
  BY <1>1, FewerKeeps
<1>5. Calm(a, h)
  BY <1>2, <1>4, MinimizeIsCalm
<1>6. Calm(s, h)
  BY <1>1, <1>5 DEF Calm, Valid, Registered, Minimized
<1> QED
  BY <1>3, <1>6, CalmThenSame, ReplySameFocus DEF Good, h

\* A window that is brought back has the focus.
LEMMA RestoredHasFocus ==
  ASSUME NEW F, NEW s, Good(s, F), NEW w \in Windows, Minimized(s, w)
  PROVE  LogicalFocused(Restore(s, w)) = w
<1>1. CASE w \in Hosted
  <2> DEFINE t == RestoreHosted(s, w)
  <2>1. Restore(s, w) = FocusShellUi(t, w) /\ Good(t, F)
    BY <1>1, RestoreHostedKeeps DEF Restore
  <2>2. Valid(t, w)
    <3> DEFINE a == [s EXCEPT !.life[w] = "mapped"]
               order == StackIds(a)
    <3>1. a.life[w] = "mapped"
      BY DEF Good, Base, States
    <3>2. t = [a EXCEPT !.order = order]
      BY DEF RestoreHosted, Reply
    <3> HIDE DEF order
    <3>3. t.life = a.life
      BY <3>2 DEF Good, Base, States
    <3> HIDE DEF a, t
    <3> QED
      BY <1>1, <3>1, <3>3 DEF Valid, Registered, Minimized
  <2> HIDE DEF t
  <2> QED
    BY <1>1, <2>1, <2>2, ShellUiHasFocus
<1>2. CASE w \in Native
  <2> DEFINE t == Back(s, w)
             u == SetSeat(t, w)
  <2>1. Restore(s, w) = Reply(u) /\ Good(t, F) /\ t.capture = NoCapture /\ Valid(t, w)
    BY <1>2, BackKeeps
  <2> HIDE DEF t
  <2>2. w # None /\ w \in Option(Native) /\ Registered(t, w)
    BY <1>2, <2>1, WindowFacts DEF Option, Valid
  <2>3. Good(u, F) /\ SameWindows(t, u) /\ u.seat = w
    <3>1. Base(t) /\ (w # None /\ t.seat = w => TopAt(t.order, w, F))
      BY <2>1 DEF Good, OnTop
    <3> QED
      BY <2>2, <3>1, SetSeatKeeps
  <2>4. u.capture = NoCapture
    BY <2>1, <2>2, SetSeatCapture DEF Good
  <2> HIDE DEF u
  <2>5. Valid(u, w)
    BY <2>1, <2>3 DEF Valid, SameWindows, Registered, Minimized
  <2>6. LogicalFocused(u) = w
    BY <2>2, <2>3, <2>4, <2>5 DEF LogicalFocused, KeyboardFocused, NoCapture
  <2> QED
    BY <2>1, <2>3, <2>6, ReplyCapture DEF Good
<1> QED
  BY <1>1, <1>2, WindowFacts

\* What a scratchpad that considers a window does with the focus: it leaves it, or it
\* takes the window in and shows it.
Considered(s, t, w) ==
  \/ SameFocus(s, t) /\ (w \in t.scratch => w \in s.scratch)
  \/ /\ w \in t.scratch \ s.scratch
     /\ \/ Calm(s, t)
        \/ LogicalFocused(t) = w
        \/ t.life = s.life /\ ~(w \in Native /\ w \in s.shown)

LEMMA ConsiderGives ==
  ASSUME NEW F, NEW s, Good(s, F), NEW w \in Windows, Registered(s, w), s.life[w] # "deferred",
         NEW rule
  PROVE  Considered(s, ScratchConsider(s, w, rule), w)
<1> DEFINE t  == ScratchConsider(s, w, rule)
           in == [s EXCEPT !.scratch = @ \cup {w}]
<1>0. s \in States
  BY DEF Good, Base
<1>1. CASE rule = "none" /\ w \in s.scratch
  <2> DEFINE u == ScratchForget(s, w)
  <2>1. Good(u, F) /\ SameFocus(s, u) /\ u.scratch = s.scratch \ {w}
    BY <1>0, ScratchForgetKeeps DEF ScratchForget, States, SameFocus
  <2>2. t = Reply(u)
    BY <1>1 DEF ScratchConsider, ScratchForget
  <2> HIDE DEF u, t
  <2>3. SameFocus(u, t) /\ t.scratch = u.scratch
    BY <2>1, <2>2, ReplySameFocus, ReplyKeeps DEF Good, SameWindows
  <2>4. SameFocus(s, t)
    BY <2>1, <2>3 DEF SameFocus
  <2> QED
    BY <2>1, <2>3, <2>4 DEF Considered, t
<1>2. CASE (rule = "none" /\ w \notin s.scratch) \/ (rule # "none" /\ w \in s.scratch)
  BY <1>2 DEF ScratchConsider, SameFocus, Considered
<1>3. CASE rule # "none" /\ w \notin s.scratch
  <2>1. /\ in \in States /\ SameFocus(s, in) /\ in.handle = s.handle
        /\ in.order = s.order /\ in.pending = s.pending
        /\ in.scratch = s.scratch \cup {w}
    BY <1>0 DEF States, SameFocus
  <2>2. t = IF rule = "visible" THEN ScratchShow(in, w) ELSE Reply(ScratchHide(in, w))
    BY <1>3 DEF ScratchConsider
  <2>3. Good(in, F)
    <3> HIDE DEF in
    <3>1. Safe(in)
      BY <2>1 DEF Good, Base, Safe, Registered, Minimized, SameFocus
    <3>2. Early(in)
      BY <1>3, <2>1 DEF Good, Base, Early, Registered, SameFocus
    <3> QED
      BY <2>1, <3>1, <3>2 DEF Good, Base, OnTop, Registered, SameFocus
  <2> HIDE DEF in, t
  <2>4. Calm(s, in) /\ \A v : Valid(in, v) <=> Valid(s, v)
    BY <2>1, SameFocusGives DEF Calm, SameFocus
  <2>5. CASE rule = "visible"
    <3> DEFINE u == IF Minimized(in, w) THEN Restore(in, w) ELSE RaiseAndFocus(in, w)
    <3>1. t = Reply(u) /\ Good(u, F) /\ u.scratch = in.scratch
      BY <2>2, <2>3, <2>5, RestoreKeeps, RaiseAndFocusKeeps DEF ScratchShow, Good, SameWindows
    <3>2. CASE Minimized(in, w)
      <4>1. LogicalFocused(u) = w
        BY <2>3, <3>2, RestoredHasFocus
      <4> HIDE DEF u
      <4>2. LogicalFocused(t) = w /\ t.scratch = in.scratch
        BY <3>1, <4>1, ReplyCapture, ReplyKeeps DEF Good, SameWindows
      <4> QED
        BY <1>3, <2>1, <4>2 DEF Considered, t
    <3>3. CASE ~Minimized(in, w)
      <4>1. SameWindows(in, u)
        BY <2>3, <3>3, RaiseAndFocusKeeps DEF Good
      <4>2. w \in Native /\ w \in s.shown => LogicalFocused(u) = w
        <5>1. w \in Native /\ w \in s.shown => Valid(in, w)
          BY <2>1, <3>3 DEF SameFocus, Valid, Registered
        <5> QED
          BY <2>3, <3>3, <5>1, RaisedHasFocus DEF Good
      <4> HIDE DEF u
      <4>3. /\ SameWindows(in, t) /\ t.scratch = in.scratch
            /\ LogicalFocused(t) = LogicalFocused(u)
        BY <3>1, <4>1, ReplyCapture, ReplyKeeps DEF Good, SameWindows
      <4> QED
        BY <1>3, <2>1, <4>2, <4>3 DEF Considered, SameWindows, SameFocus, t
    <3> QED
      BY <3>2, <3>3
  <2>6. CASE rule # "visible"
    <3>1. Calm(in, t) /\ t.scratch = in.scratch
      BY <2>1, <2>2, <2>3, <2>6, HideIsCalm, ScratchHideKeeps, ReplyKeeps
         DEF SameFocus, Good, SameWindows
    <3>2. Calm(s, t)
      BY <2>1, <2>4, <3>1 DEF Calm, SameFocus
    <3> QED
      BY <1>3, <2>1, <3>1, <3>2 DEF Considered, t
  <2> QED
    BY <2>5, <2>6
<1> QED
  BY <1>1, <1>2, <1>3

\* A toplevel that is mapped leaves the focus, or has it because a spawn or a request
\* waits for it, because a scratchpad shows it, or because a modal restores it that it
\* could not restore before.
MapAllows(s, t, w) ==
  \/ Stays(s, t)
  \/ /\ LogicalFocused(t) = w
     /\ \/ w \in s.spawned \/ w = s.asked \/ w \in t.scratch \ s.scratch
        \/ w = s.capture.restore /\ w \in s.pending \ s.shown

LEMMA MapGives ==
  ASSUME NEW F, NEW s, Good(s, F), NEW w \in Native, NEW rule,
         s.life[w] = "new" \/ (w \in s.pending /\ Registered(s, w))
  PROVE  MapAllows(s, MapToplevel(s, w, rule), w)
<1> DEFINE mapped   == [s EXCEPT !.life[w] = "mapped", !.shown = @ \cup {w},
                                 !.pending = @ \ {w}]
           sorted   == ScratchConsider(mapped, w, rule)
           assigned == w \in sorted.scratch
           told     == IF assigned /\ Minimized(sorted, w) THEN sorted
                       ELSE IF SpawnCandidate(sorted, w) THEN Touch(sorted, w) ELSE sorted
           t        == MapToplevel(s, w, rule)
<1>1. s \in States /\ w \in Windows /\ w # None
  BY WindowFacts DEF Good, Base
<1>2. /\ mapped.life = [s.life EXCEPT ![w] = "mapped"]
      /\ mapped.shown = s.shown \cup {w}
      /\ mapped.scratch = s.scratch /\ mapped.capture = s.capture
      /\ mapped.ui = s.ui /\ mapped.seat = s.seat
      /\ mapped.asked = s.asked /\ mapped.spawned = s.spawned
  BY <1>1 DEF States
<1>3. t = IF assigned THEN told
          ELSE IF told.asked = w THEN Reply(RaiseAndFocus(told, w))
          ELSE FocusSpawned(told, w)
  BY DEF MapToplevel
<1>4. Good(mapped, F)
  BY MappedKeeps
<1> HIDE DEF mapped
<1>5. mapped.life[w] = "mapped" /\ \A v \in Windows : v # w => mapped.life[v] = s.life[v]
  BY <1>1, <1>2 DEF States
<1>6. Valid(mapped, w)
  BY <1>2, <1>5 DEF Valid, Registered, Minimized
<1>7. Calm(s, mapped) \/ (w = s.capture.restore /\ w \in s.pending \ s.shown)
  <2> DEFINE r == s.capture.restore
  <2>1. r \in Option(Windows)
    BY <1>1, CapturesOf DEF States
  <2>2. ASSUME r # None, r # w, Valid(mapped, r) PROVE Valid(s, r)
    <3>1. mapped.life[r] = s.life[r] /\ (r \in mapped.shown <=> r \in s.shown)
      BY <1>2, <1>5, <2>1, <2>2 DEF Option
    <3> QED
      BY <2>2, <3>1 DEF Valid, Registered, Minimized
  <2>3. ASSUME r = w, w \in s.shown PROVE Valid(s, r)
    BY <2>3 DEF Good, Base, Safe, Valid
  <2>4. r = w => w \in s.pending
    BY <1>1 DEF Good, Base, Early
  <2>5. CASE r = w /\ w \notin s.shown
    BY <2>4, <2>5
  <2>6. CASE ~(r = w /\ w \notin s.shown)
    <3>1. r # None /\ Valid(mapped, r) => Valid(s, r)
      BY <2>2, <2>3, <2>6
    <3> QED
      BY <1>2, <3>1 DEF Calm
  <2> QED
    BY <2>5, <2>6
<1>13. ASSUME NEW u, Calm(mapped, u) PROVE MapAllows(s, u, w)
  <2>1. /\ u.capture = s.capture
        /\ u.ui = s.ui \/ (u.ui = None /\ ~Valid(u, s.ui))
        /\ u.seat = s.seat \/ (u.seat = None /\ ~Valid(u, s.seat))
    BY <1>2, <1>13 DEF Calm
  <2>2. CASE Calm(s, mapped) \/ ~Valid(u, w)
    <3>1. Calm(s, u)
      BY <1>2, <1>7, <1>13, <2>1, <2>2 DEF Calm
    <3> QED
      BY <3>1, CalmStays DEF Good, MapAllows
  <2>3. CASE ~Calm(s, mapped) /\ Valid(u, w)
    <3>1. w = s.capture.restore /\ w \in s.pending \ s.shown
      BY <1>7, <2>3
    <3>2. s.capture.kind \notin {"None", "ShellUi"}
      BY <1>1, <3>1 DEF States, Captures, Modals
    <3>3. LogicalFocused(u) = w
      BY <1>1, <2>1, <2>3, <3>1, <3>2 DEF LogicalFocused
    <3> QED
      BY <3>1, <3>3 DEF MapAllows
  <2> QED
    BY <2>2, <2>3
<1>8. Good(sorted, F) /\ Considered(mapped, sorted, w)
  BY <1>1, <1>4, <1>5, ConsiderGives, ScratchConsiderKeeps DEF Registered
<1> HIDE DEF sorted
<1>9. SameFocus(sorted, told) /\ told.scratch = sorted.scratch /\ Base(told)
  <2>1. SameFocus(sorted, sorted)
    BY DEF SameFocus
  <2> DEFINE u == Touch(sorted, w)
  <2>2. SameFocus(sorted, u) /\ u.scratch = sorted.scratch /\ Base(u)
    BY <1>1, <1>8, TouchSameFocus, TouchKeeps DEF Good, SameWindows
  <2>3. told = sorted \/ told = u
    OBVIOUS
  <2> HIDE DEF told, u
  <2> QED
    BY <1>8, <2>1, <2>2, <2>3 DEF Good
<1> HIDE DEF told, t
<1>10. CASE assigned /\ Calm(mapped, sorted)
  <2>1. Calm(mapped, t)
    BY <1>3, <1>9, <1>10, CalmThenSame
  <2> QED
    BY <1>13, <2>1 DEF t
<1>11. CASE assigned /\ ~Calm(mapped, sorted)
  <2>1. ~SameFocus(mapped, sorted)
    BY <1>11, SameIsCalm
  <2>2. LogicalFocused(sorted) = w /\ w \in sorted.scratch \ mapped.scratch
    BY <1>2, <1>8, <1>11, <2>1 DEF Considered
  <2>3. LogicalFocused(t) = w /\ w \in t.scratch \ s.scratch
    BY <1>2, <1>3, <1>9, <1>11, <2>2, SameFocusGives
  <2> QED
    BY <2>3 DEF MapAllows, t
<1>12. CASE ~assigned
  <2>1. SameFocus(mapped, sorted)
    BY <1>8, <1>12 DEF Considered
  <2>2. SameFocus(mapped, told)
    BY <1>9, <2>1 DEF SameFocus
  <2>3. Valid(told, w) /\ told.asked = s.asked /\ told.spawned = s.spawned
    BY <1>2, <1>6, <2>2, SameFocusGives DEF SameFocus
  <2>4. CASE told.asked = w
    <3> DEFINE u == RaiseAndFocus(told, w)
    <3>1. Base(u) /\ LogicalFocused(u) = w
      BY <1>1, <1>9, <2>3, RaisedHasFocus, RaiseAndFocusKeeps, WindowFacts
         DEF Good, Valid, Raisable
    <3>2. t = Reply(u)
      BY <1>3, <1>12, <2>4
    <3> HIDE DEF u
    <3>3. LogicalFocused(t) = w
      BY <3>1, <3>2, ReplyCapture
    <3> QED
      BY <2>3, <2>4, <3>3 DEF MapAllows, t
  <2>5. CASE told.asked # w /\ SpawnCandidate(told, w)
    <3> DEFINE a == [told EXCEPT !.spawned = {}]
               u == RaiseAndFocus(a, w)
    <3>1. t = Reply(u)
      BY <1>3, <1>12, <2>5 DEF FocusSpawned
    <3>2. /\ a \in States /\ SameWindows(told, a) /\ a.order = told.order /\ a.seat = told.seat
      BY <1>9 DEF Base, States, SameWindows
    <3> HIDE DEF a
    <3>3. Base(a) /\ Valid(a, w)
      BY <1>9, <2>3, <3>2, SameOrderKeeps DEF SameWindows, Valid, Registered, Minimized
    <3>4. Base(u) /\ LogicalFocused(u) = w
      BY <1>1, <3>3, RaisedHasFocus, RaiseAndFocusKeeps, WindowFacts
         DEF Good, Valid, Raisable
    <3> HIDE DEF u
    <3>5. LogicalFocused(t) = w
      BY <3>1, <3>4, ReplyCapture
    <3> QED
      BY <2>3, <2>5, <3>5 DEF MapAllows, SpawnCandidate, t
  <2>6. CASE told.asked # w /\ ~SpawnCandidate(told, w)
    <3>1. t = told
      BY <1>3, <1>12, <2>6 DEF FocusSpawned
    <3>2. Calm(mapped, t)
      BY <2>2, <3>1, SameIsCalm
    <3> QED
      BY <1>13, <3>2 DEF t
  <2> QED
    BY <2>4, <2>5, <2>6
<1> QED
  BY <1>10, <1>11, <1>12

\* In t the native window w is gone from s, and nobody was given its focus.
Leaves(s, t, w) ==
  /\ t.life = [s.life EXCEPT ![w] = "gone"] /\ t.shown = s.shown \ {w}
  /\ t.capture = s.capture /\ t.ui = s.ui /\ t.refocus = s.refocus
  /\ t.seat = IF s.seat = w THEN None ELSE s.seat

LEMMA RemovedLeaves ==
  ASSUME NEW s, NEW w \in Native, NEW u \in States, u.life = s.life,
         u.shown \in {s.shown, s.shown \ {w}}, u.capture = s.capture, u.ui = s.ui,
         u.refocus = s.refocus, u.seat = s.seat
  PROVE  Leaves(s, RemoveNative(u, w), w)
<1> DEFINE q    == Kept(u.order, Windows \ {w})
           gone == [u EXCEPT !.life[w] = "gone", !.shown = @ \ {w}, !.handle = @ \ {w},
                             !.seat = IF @ = w THEN None ELSE @,
                             !.asked = IF @ = w THEN None ELSE @,
                             !.spawned = @ \ {w}]
           t    == RemoveNative(u, w)
<1>1. /\ gone.life = [s.life EXCEPT ![w] = "gone"] /\ gone.shown = s.shown \ {w}
      /\ gone.capture = s.capture /\ gone.ui = s.ui /\ gone.refocus = s.refocus
      /\ gone.seat = IF s.seat = w THEN None ELSE s.seat
  BY DEF States
<1>2. t = [gone EXCEPT !.order = q]
  BY DEF RemoveNative, ForgetInOrder, States
<1> HIDE DEF q
<1>3. /\ t.life = gone.life /\ t.shown = gone.shown /\ t.capture = gone.capture
      /\ t.ui = gone.ui /\ t.refocus = gone.refocus /\ t.seat = gone.seat
  BY <1>2 DEF States
<1> HIDE DEF gone, t
<1> QED
  BY <1>1, <1>3 DEF Leaves, t

\* It stays gone when the scratchpad forgets it and the list is answered.
LEMMA ForgottenLeaves ==
  ASSUME NEW s, NEW w \in Native, NEW t, Base(t), Leaves(s, t, w)
  PROVE  Leaves(s, Reply(ScratchForget(t, w)), w)
<1> DEFINE u     == ScratchForget(t, w)
           order == StackIds(u)
<1>1. Reply(u) = [u EXCEPT !.order = order]
  BY DEF Reply
<1> HIDE DEF order
<1> QED
  BY <1>1 DEF ScratchForget, Leaves, Base, States

LEMMA LeavesIsCalm ==
  ASSUME NEW s \in States, NEW w \in Native, NEW t, Leaves(s, t, w)
  PROVE  Calm(s, t) /\ ~Registered(t, w)
<1>1. \A v \in Windows : t.life[v] = IF v = w THEN "gone" ELSE s.life[v]
  BY DEF Leaves, States
<1>2. w \in Windows /\ ~Registered(t, w)
  BY <1>1, WindowFacts DEF Registered
<1>3. \A v \in Windows : Valid(t, v) => Valid(s, v)
  BY <1>1, <1>2 DEF Leaves, Valid, Registered, Minimized
<1>4. t.seat = s.seat \/ (t.seat = None /\ ~Valid(t, s.seat))
  BY <1>2 DEF Leaves, Valid
<1> QED
  BY <1>2, <1>3, <1>4, FewerIsCalm DEF Leaves

LEMMA RefocusTopSame ==
  ASSUME NEW F, NEW s, Good(s, F)
  PROVE  SameWindows(s, RefocusTop(s))
<1> DEFINE top == PickNext(s, None)
           t   == FocusLogical(s, top)
<1>1. top \in Option(Windows) /\ RefocusTop(s) = IF top = None THEN SetSeat(s, None)
                                                 ELSE Reply(t)
  BY PickNextType DEF RefocusTop, Good, Base
<1>2. CASE top = None
  BY <1>1, <1>2, SetSeatKeeps, CapturesOf DEF Good
<1>3. CASE top # None
  <2>1. Good(t, F) /\ SameWindows(s, t)
    BY <1>1, <1>3, FocusLogicalKeeps DEF Option
  <2> HIDE DEF t
  <2>2. SameWindows(t, Reply(t))
    BY <2>1, ReplyKeeps DEF Good
  <2> QED
    BY <1>1, <1>3, <2>1, <2>2 DEF SameWindows
<1> QED
  BY <1>2, <1>3

\* The end of a native window leaves the focus unless it had the seat, or gives it to
\* the target that was chosen when it was asked to close.
EndAllows(s, t, w) ==
  \/ Stays(s, t)
  \/ /\ ~Registered(t, w)
     /\ \/ KeyboardFocused(s) = w
        \/ s.refocus[w] = LogicalFocused(t) /\ LogicalFocused(t) # None

LEMMA EndGives ==
  ASSUME NEW F, NEW s, Good(s, F), NEW w \in Native, NEW left,
         Good(left, F), Leaves(s, left, w),
         NEW had \in BOOLEAN, had => KeyboardFocused(s) = w
  PROVE  EndAllows(s, Refocus(left, w, had), w)
<1> DEFINE target == s.refocus[w]
           taken  == [left EXCEPT !.refocus[w] = None]
           t      == Refocus(left, w, had)
           given  == Reply(FocusLogical(taken, target))
<1>1. target \in Option(Windows) /\ left.refocus[w] = target /\ s \in States
  BY DEF Good, Base, States, Leaves
<1>2. t = IF IfValid(left, target) # None THEN given
          ELSE IF had THEN RefocusTop(taken) ELSE taken
  BY <1>1 DEF Refocus
<1>3. /\ taken \in States /\ SameWindows(left, taken) /\ SameFocus(left, taken)
      /\ taken.order = left.order
  BY <1>1 DEF Good, Base, States, SameWindows, SameFocus, Option
<1> HIDE DEF taken
<1>4. Good(taken, F)
  BY <1>3, SameOrderKeeps DEF Good, SameFocus
<1>5. Calm(s, taken) /\ ~Registered(taken, w)
  BY <1>1, <1>3, LeavesIsCalm, CalmThenSame DEF SameFocus, Registered
<1> HIDE DEF t, target
<1>6. CASE IfValid(left, target) # None
  <2>1. target \in Windows /\ Valid(taken, target)
    BY <1>1, <1>3, <1>6, SameFocusGives DEF IfValid, Option
  <2>2. LogicalFocused(given) = target /\ target # None
    BY <1>4, <2>1, FocusGoesTo
  <2>3. SameWindows(taken, given)
    <3> DEFINE u == FocusLogical(taken, target)
    <3>1. Good(u, F) /\ SameWindows(taken, u)
      BY <1>4, <2>1, FocusLogicalKeeps
    <3> HIDE DEF u
    <3>2. SameWindows(u, Reply(u))
      BY <3>1, ReplyKeeps DEF Good
    <3>3. SameWindows(taken, Reply(u))
      BY <3>1, <3>2 DEF SameWindows
    <3> QED
      BY <3>3 DEF u
  <2> HIDE DEF given
  <2>4. ~Registered(given, w)
    BY <1>5, <2>3 DEF SameWindows, Registered
  <2> QED
    BY <1>2, <1>6, <2>2, <2>4 DEF EndAllows, t, target
<1>7. CASE IfValid(left, target) = None /\ had
  <2>1. ~Registered(RefocusTop(taken), w)
    BY <1>4, <1>5, RefocusTopSame DEF SameWindows, Registered
  <2> QED
    BY <1>2, <1>7, <2>1 DEF EndAllows, t
<1>8. CASE IfValid(left, target) = None /\ ~had
  BY <1>2, <1>5, <1>8, CalmStays DEF EndAllows, Good, t
<1> QED
  BY <1>6, <1>7, <1>8

LEMMA DestroyedEnds ==
  ASSUME NEW F, NEW s, Good(s, F), NEW w \in Native, Registered(s, w)
  PROVE  EndAllows(s, Destroyed(s, w), w)
<1> DEFINE deferred == s.life[w] = "deferred" \/ w \in s.pending
           gone     == RemoveNative(s, w)
           removed  == [gone EXCEPT !.pending = @ \ {w}]
           left     == IF deferred THEN removed ELSE Reply(ScratchForget(removed, w))
           had      == KeyboardFocused(s) = w
<1>1. Destroyed(s, w) = Refocus(left, w, had)
  BY DEF Destroyed
<1>2. Good(gone, F) /\ Leaves(s, gone, w)
  BY RemoveNativeKeeps, RemovedLeaves DEF Good, Base
<1> HIDE DEF gone
<1>3. Good(removed, F) /\ Leaves(s, removed, w)
  <2>1. /\ removed \in States /\ removed.life = gone.life /\ removed.shown = gone.shown
        /\ removed.handle = gone.handle /\ removed.order = gone.order
        /\ removed.seat = gone.seat
        /\ removed.pending \subseteq gone.pending /\ removed.scratch = gone.scratch
        /\ removed.capture = gone.capture
    BY <1>2 DEF Good, Base, States
  <2>2. removed.ui = gone.ui /\ removed.refocus = gone.refocus
    BY <1>2 DEF Good, Base, States
  <2> HIDE DEF removed
  <2> QED
    BY <1>2, <2>1, <2>2, FewerKeeps DEF Leaves
<1> HIDE DEF removed
<1>4. Good(left, F) /\ Leaves(s, left, w)
  BY <1>3, ForgetAndReplyKeeps, ForgottenLeaves DEF Good
<1>5. had \in BOOLEAN /\ (had => KeyboardFocused(s) = w)
  OBVIOUS
<1> HIDE DEF left, had
<1>6. EndAllows(s, Refocus(left, w, had), w)
  BY <1>4, <1>5, EndGives
<1> QED
  BY <1>1, <1>6 DEF left, had

\* A dead process, or a commit without extent: whether the window had the focus is
\* asked when it cannot have it any more.
LEMMA UnmappedEnds ==
  ASSUME NEW F, NEW s, Good(s, F), NEW w \in Native, NEW unmapped \in States,
         unmapped.life = s.life,
         unmapped.shown = s.shown \ {w}, unmapped.handle = s.handle,
         unmapped.pending \subseteq s.pending, unmapped.scratch = s.scratch,
         unmapped.order = s.order, unmapped.seat = s.seat, unmapped.capture = s.capture,
         unmapped.ui = s.ui, unmapped.refocus = s.refocus
  PROVE  EndAllows(s, Refocus(Reply(ScratchForget(RemoveNative(unmapped, w), w)), w,
                              KeyboardFocused(unmapped) = w), w)
<1> DEFINE gone == RemoveNative(unmapped, w)
           left == Reply(ScratchForget(gone, w))
           had  == KeyboardFocused(unmapped) = w
<1>1. Good(gone, F) /\ Leaves(s, gone, w)
  BY RemoveNativeKeeps, RemovedLeaves
<1> HIDE DEF gone
<1>2. Good(left, F) /\ Leaves(s, left, w)
  BY <1>1, ForgetAndReplyKeeps, ForgottenLeaves DEF Good
<1>3. ~Valid(unmapped, w) /\ w # None
  BY WindowFacts DEF Valid
<1>4. had = FALSE
  BY <1>3 DEF KeyboardFocused
<1> HIDE DEF left, had
<1>5. EndAllows(s, Refocus(left, w, had), w)
  BY <1>2, <1>4, EndGives
<1> QED
  BY <1>5 DEF left, had, gone

\* All windows of a client that goes end at once: the seat is taken from them, and from
\* no other window.
LEMMA WithoutIsCalm ==
  ASSUME NEW F, NEW s, Good(s, F), NEW C \in SUBSET Native
  PROVE  Calm(s, Without(s, C)) /\ \A w \in C : ~Registered(Without(s, C), w)
<1> DEFINE t == Without(s, C)
<1>1. s \in States /\ C \subseteq Windows
  BY WindowFacts DEF Good, Base
<1>2. /\ t.capture = s.capture /\ t.ui = s.ui
      /\ t.seat = IF s.seat \in C THEN None ELSE s.seat
  BY <1>1 DEF States, Without
<1>3. /\ t.shown = s.shown \ C
      /\ \A w \in Windows : t.life[w] = IF w \in C THEN "gone" ELSE s.life[w]
  BY WithoutKeeps
<1> HIDE DEF t
<1>4. \A w \in C : ~Registered(t, w)
  BY <1>1, <1>3 DEF Registered
<1>5. \A v \in Windows : Valid(t, v) => Valid(s, v)
  BY <1>3 DEF Valid, Registered, Minimized
<1>6. t.seat = s.seat \/ (t.seat = None /\ ~Valid(t, s.seat))
  BY <1>2, <1>4 DEF Valid
<1>7. Calm(s, t)
  BY <1>1, <1>2, <1>5, <1>6, FewerIsCalm
<1> QED
  BY <1>4, <1>7 DEF t

LEMMA DisconnectedEnds ==
  ASSUME NEW F, NEW s, Good(s, F), NEW C \in SUBSET Native, C # {},
         NEW first \in IF HaveTarget(s, C) = {} THEN {None} ELSE HaveTarget(s, C)
  PROVE  \E w \in C : EndAllows(s, Disconnected(s, C, first), w)
<1> DEFINE gone   == Without(s, C)
           left   == Reply(gone)
           target == s.refocus[first]
           given  == Reply(FocusLogical(left, target))
           t      == Disconnected(s, C, first)
<1>1. t = IF first # None THEN given
          ELSE IF s.seat \in C /\ KeyboardFocused(s) # None THEN RefocusTop(left)
          ELSE left
  BY DisconnectedIs
<1>2. /\ Good(gone, F) /\ gone.shown = s.shown \ C
      /\ \A w \in Windows : gone.life[w] = IF w \in C THEN "gone" ELSE s.life[w]
  BY WithoutKeeps
<1>3. Calm(s, gone) /\ \A w \in C : ~Registered(gone, w)
  BY WithoutIsCalm
<1> HIDE DEF gone
<1>4. Good(left, F) /\ SameFocus(gone, left)
  BY <1>2, ReplyKeeps, ReplySameFocus DEF Good
<1>5. Calm(s, left) /\ \A w \in C : ~Registered(left, w)
  BY <1>3, <1>4, CalmThenSame DEF SameFocus, Registered
<1>6. first # None => /\ first \in C /\ target \in Windows /\ target \notin C
                      /\ Valid(s, target)
  BY WindowFacts DEF HaveTarget, IfValid, Good, Base, States, Option
<1>7. first # None => Valid(gone, target)
  BY <1>2, <1>6 DEF Valid, Registered, Minimized
<1>8. first # None => Valid(left, target)
  BY <1>4, <1>7, SameFocusGives
<1> HIDE DEF left, t, target
<1>9. CASE first # None
  <2>1. LogicalFocused(given) = target /\ target # None
    BY <1>4, <1>6, <1>8, <1>9, FocusGoesTo
  <2>2. SameWindows(left, given)
    <3> DEFINE u == FocusLogical(left, target)
    <3>1. Good(u, F) /\ SameWindows(left, u)
      BY <1>4, <1>6, <1>9, FocusLogicalKeeps
    <3> HIDE DEF u
    <3>2. SameWindows(u, Reply(u))
      BY <3>1, ReplyKeeps DEF Good
    <3>3. SameWindows(left, Reply(u))
      BY <3>1, <3>2 DEF SameWindows
    <3> QED
      BY <3>3 DEF u
  <2> HIDE DEF given
  <2>3. ~Registered(given, first)
    BY <1>5, <1>6, <1>9, <2>2 DEF SameWindows, Registered
  <2>4. EndAllows(s, given, first)
    BY <2>1, <2>3 DEF EndAllows, target
  <2> QED
    BY <1>1, <1>6, <1>9, <2>4 DEF t
<1>10. CASE first = None /\ s.seat \in C /\ KeyboardFocused(s) # None
  <2>1. ~Registered(RefocusTop(left), s.seat)
    BY <1>4, <1>5, <1>10, RefocusTopSame DEF SameWindows, Registered
  <2>2. KeyboardFocused(s) = s.seat
    BY <1>10 DEF KeyboardFocused
  <2>3. EndAllows(s, RefocusTop(left), s.seat)
    BY <2>1, <2>2 DEF EndAllows
  <2> QED
    BY <1>1, <1>10, <2>3 DEF t
<1>11. CASE first = None /\ ~(s.seat \in C /\ KeyboardFocused(s) # None)
  <2>1. Stays(s, left)
    BY <1>5, CalmStays DEF Good
  <2>2. PICK w \in C : TRUE
    OBVIOUS
  <2>3. EndAllows(s, left, w)
    BY <2>1 DEF EndAllows
  <2> QED
    BY <1>1, <1>11, <2>3 DEF t
<1> QED
  BY <1>9, <1>10, <1>11

\* What a step of a client may do with the focus: no window that could keep it loses
\* it, or no window comes, is hidden or goes, or it is given where that was asked for.
Allowed(s, t, activated) ==
  LET w == LogicalFocused(t) IN
  \/ Stays(s, t)
  \/ t.life = s.life
  \/ w \in Native /\ (w \in activated \/ w \in s.spawned \/ w = s.asked)
  \/ w \in t.scratch \ s.scratch
  \/ w = s.capture.restore /\ w \in s.pending \ s.shown
  \/ \E v \in Native :
       /\ Registered(s, v) /\ ~Registered(t, v)
       /\ KeyboardFocused(s) = v \/ (s.refocus[v] = w /\ w # None)

LEMMA EndIsAllowed ==
  ASSUME NEW s, NEW t, NEW w \in Native, Registered(s, w), EndAllows(s, t, w), NEW A
  PROVE  Allowed(s, t, A)
BY DEF EndAllows, Allowed

LEMMA MapIsAllowed ==
  ASSUME NEW s, NEW t, NEW w \in Native, MapAllows(s, t, w), NEW A
  PROVE  Allowed(s, t, A)
BY DEF MapAllows, Allowed

LEMMA DeferredIsAllowed ==
  ASSUME NEW F, Good(st, F), NEW w \in Native, NewDeferredToplevel(w)
  PROVE  Allowed(st, st', {})
<1>1. st \in States /\ w \in Windows /\ st.life[w] = "new"
  BY WindowFacts DEF Good, Base, NewDeferredToplevel
<1>2. /\ st'.life = [st.life EXCEPT ![w] = "deferred"]
      /\ st'.shown = st.shown \cup {w}
      /\ st'.seat = st.seat /\ st'.capture = st.capture /\ st'.ui = st.ui
  BY <1>1 DEF NewDeferredToplevel, States
<1>3. \A v \in Windows : v # w => st'.life[v] = st.life[v]
  BY <1>1, <1>2 DEF States
<1>4. \A v \in Windows : v # w /\ Valid(st', v) => Valid(st, v)
  BY <1>2, <1>3 DEF Valid, Registered, Minimized
<1>5. st.capture.restore \in Option(Windows) /\ st.capture.restore # w
  BY <1>1, CapturesOf DEF States, Good, Base, Early
<1>6. Calm(st, st')
  BY <1>2, <1>4, <1>5 DEF Calm, Option
<1> QED
  BY <1>6, CalmStays DEF Good, Allowed

LEMMA ActivatedIsAllowed ==
  ASSUME NEW F, Good(st, F), NEW w \in Native, Activated(w)
  PROVE  Allowed(st, st', {w})
<1>1. w \in Windows
  BY WindowFacts
<1>2. CASE Minimized(st, w) /\ w \in st.scratch
  BY <1>2 DEF Activated, Allowed
<1>3. CASE Minimized(st, w) /\ w \notin st.scratch
  <2>1. LogicalFocused(Restore(st, w)) = w
    BY <1>1, <1>3, RestoredHasFocus
  <2> QED
    BY <1>3, <2>1 DEF Activated, Allowed
<1>4. CASE ~Minimized(st, w) /\ st.life[w] = "deferred"
  <2>1. st'.life = st.life
    BY <1>4 DEF Activated, Good, Base, States
  <2> QED
    BY <2>1 DEF Allowed
<1>5. CASE ~Minimized(st, w) /\ st.life[w] # "deferred"
  <2> DEFINE u == RaiseAndFocus(st, w)
  <2>1. st' = Reply(u) /\ Base(u) /\ SameWindows(st, u)
    BY <1>1, <1>5, RaiseAndFocusKeeps DEF Activated, Good
  <2> HIDE DEF u
  <2>2. st'.life = st.life
    BY <2>1, ReplyKeeps DEF SameWindows
  <2> QED
    BY <2>2 DEF Allowed
<1> QED
  BY <1>2, <1>3, <1>4, <1>5

LEMMA TitleIsAllowed ==
  ASSUME NEW F, Good(st, F), NEW w \in Windows, NEW rule, TitleChanged(w, rule)
  PROVE  Allowed(st, st', {})
<1>1. Considered(st, st', w)
  BY ConsiderGives DEF TitleChanged, Listed
<1> QED
  BY <1>1, CalmStays DEF Considered, SameFocus, Good, Allowed

LEMMA UnmapIsAllowed ==
  ASSUME NEW F, Good(st, F), NEW w \in Native,
         ProcessDied(w) \/ \E removed \in BOOLEAN : CommitWithoutExtent(w, removed)
  PROVE  Allowed(st, st', {})
<1> DEFINE dead == [st EXCEPT !.shown = @ \ {w}, !.pending = @ \ {w},
                              !.asked = IF @ = w THEN None ELSE @]
           bare == [st EXCEPT !.shown = @ \ {w}, !.asked = IF @ = w THEN None ELSE @]
           Ended(u) == Refocus(Reply(ScratchForget(RemoveNative(u, w), w)), w,
                               KeyboardFocused(u) = w)
           Unmapped(u) ==
             /\ u \in States /\ u.life = st.life /\ u.shown = st.shown \ {w}
             /\ u.handle = st.handle /\ u.pending \subseteq st.pending
             /\ u.scratch = st.scratch /\ u.order = st.order /\ u.seat = st.seat
             /\ u.capture = st.capture /\ u.ui = st.ui /\ u.refocus = st.refocus
<1>1. Registered(st, w) /\ (st' = st \/ st' = Ended(dead) \/ st' = Ended(bare))
  BY DEF ProcessDied, DeadProcess, CommitWithoutExtent, PruneBufferless, Good, Base, Safe
<1>2. Unmapped(dead) /\ Unmapped(bare)
  <2>1. st \in States
    BY DEF Good, Base
  <2>2. Unmapped(dead)
    BY <2>1 DEF States, Option
  <2>3. Unmapped(bare)
    BY <2>1 DEF States, Option
  <2> QED
    BY <2>2, <2>3
<1> HIDE DEF dead, bare
<1>3. EndAllows(st, Ended(dead), w) /\ EndAllows(st, Ended(bare), w)
  BY <1>2, UnmappedEnds
<1> HIDE DEF Ended
<1>4. CASE st' = st
  BY <1>4 DEF Allowed
<1>5. CASE st' # st
  BY <1>1, <1>3, <1>5, EndIsAllowed
<1> QED
  BY <1>4, <1>5

LEMMA ClientIsAllowed ==
  ASSUME NEW F, Good(st, F), ByClient
  PROVE  Allowed(st, st', {w \in Native : Activated(w)})
<1> DEFINE A == {w \in Native : Activated(w)}
<1>0. \A B \in SUBSET A : Allowed(st, st', B) => Allowed(st, st', A)
  BY DEF Allowed
<1>1. ASSUME NEW w \in Native, NEW rule, NewToplevel(w, rule) \/ CommitReady(w, rule)
      PROVE  Allowed(st, st', A)
  BY <1>1, MapGives, MapIsAllowed DEF NewToplevel, CommitReady
<1>2. ASSUME NEW w \in Native, NewDeferredToplevel(w)
      PROVE  Allowed(st, st', A)
  BY <1>0, <1>2, DeferredIsAllowed
<1>3. ASSUME NEW w \in Native,
             ProcessDied(w) \/ \E removed \in BOOLEAN : CommitWithoutExtent(w, removed)
      PROVE  Allowed(st, st', A)
  BY <1>0, <1>3, UnmapIsAllowed
<1>4. ASSUME NEW w \in Native, ToplevelDestroyed(w)
      PROVE  Allowed(st, st', A)
  <2>1. CASE Registered(st, w)
    <3>1. EndAllows(st, st', w)
      BY <1>4, <2>1, DestroyedEnds DEF ToplevelDestroyed
    <3> QED
      BY <2>1, <3>1, EndIsAllowed
  <2>2. CASE ~Registered(st, w)
    <3>1. st'.life = st.life
      BY <1>4, <2>2 DEF ToplevelDestroyed, Destroyed, Good, Base, States
    <3> QED
      BY <3>1 DEF Allowed
  <2> QED
    BY <2>1, <2>2
<1>5. ASSUME NEW w \in Native, Activated(w)
      PROVE  Allowed(st, st', A)
  BY <1>0, <1>5, ActivatedIsAllowed
<1>6. ASSUME NEW C \in SUBSET Native, ClientDisconnected(C)
      PROVE  Allowed(st, st', A)
  <2>1. PICK first \in IF HaveTarget(st, C) = {} THEN {None} ELSE HaveTarget(st, C) :
          st' = Disconnected(st, C, first)
    BY <1>6 DEF ClientDisconnected
  <2>2. C # {} /\ \A w \in C : Registered(st, w)
    BY <1>6 DEF ClientDisconnected
  <2>3. PICK w \in C : EndAllows(st, st', w)
    BY <2>1, <2>2, DisconnectedEnds
  <2> QED
    BY <2>2, <2>3, EndIsAllowed
<1>7. ASSUME NEW w \in Windows, NEW rule, TitleChanged(w, rule)
      PROVE  Allowed(st, st', A)
  BY <1>0, <1>7, TitleIsAllowed
<1>8. ASSUME NEW w \in Native, MinimizeAsked(w)
      PROVE  Allowed(st, st', A)
  <2>1. Calm(st, Minimize(st, w))
    BY MinimizeIsCalm, WindowFacts
  <2>2. Stays(st, st')
    BY <1>8, <2>1, CalmStays DEF MinimizeAsked, Good
  <2> QED
    BY <2>2 DEF Allowed
<1> HIDE DEF A
<1>9. Allowed(st, st', A)
  BY <1>1, <1>2, <1>3, <1>4, <1>5, <1>6, <1>7, <1>8 DEF ByClient
<1> QED
  BY <1>9 DEF A

\* What a client does takes the focus from a window that could keep it only for a window
\* that asked for it and was accepted (request_activation, the pending focus of a
\* toplevel), that a spawn waits for, that a scratchpad takes in, or when a window ends
\* that has the keyboard or that left a target when it was asked to close.
THEOREM NoFocusIsStolen == Spec => NoFocusStolen
<1> DEFINE NotStolen ==
      LET had == LogicalFocused(st)
          w   == LogicalFocused(st')
          Ended(v) == Registered(st, v) /\ ~Registered(st', v)
      IN  st'.life # st.life /\ had # None /\ w # had /\ Valid(st', had) /\ ByClient
          => \/ w \in Native /\ (Activated(w) \/ w \in st.spawned \/ w = st.asked)
             \/ w \in st'.scratch \ st.scratch
             \/ w = st.capture.restore /\ w \in st.pending \ st.shown
             \/ \E v \in Native :
                  Ended(v) /\ (KeyboardFocused(st) = v \/ (st.refocus[v] = w /\ w # None))
<1>1. Good(st, Every) => NotStolen
  <2> SUFFICES ASSUME Good(st, Every), ByClient PROVE NotStolen
    OBVIOUS
  <2>1. Allowed(st, st', {w \in Native : Activated(w)})
    BY ClientIsAllowed
  <2> QED
    BY <2>1 DEF Allowed, Stays
<1>2. Spec => []Good(st, Every)
  BY GoodAlways
<1>3. Spec => [][NotStolen]_st
  <2>1. Good(st, Every) /\ [Next]_st => [NotStolen]_st
    BY <1>1
  <2> HIDE DEF NotStolen
  <2> QED
    BY <1>2, <2>1, PTL DEF Spec
<1> QED
  BY <1>3 DEF NoFocusStolen
=============================================================================
