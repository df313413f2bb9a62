-------------------------- MODULE ReviewDeckProofs --------------------------
(***************************************************************************)
(* The ranking, the findings and the cards of a review, for any diffs, any *)
(* number of runs and any failures of them.                                *)
(***************************************************************************)
EXTENDS CardView, FiniteSetTheorems, SequenceTheorems, WellFoundedInduction, TLAPS

-----------------------------------------------------------------------------
(* Numbers.                                                                *)

\* A set of naturals has a least element.
LEMMA Least ==
    ASSUME NEW S \in SUBSET Nat, S # {}
    PROVE  \E x \in S : \A y \in S : x <= y
<1>1. PICK x \in S : \A y \in S : ~(<<y, x>> \in OpToRel(<, Nat))
    BY WFMin, NatLessThanWellFounded, Zenon
<1>2. ASSUME NEW y \in S PROVE x <= y
  <2>1. ~(<<y, x>> \in OpToRel(<, Nat))
      BY <1>1, Zenon
  <2>2. <<y, x>> \in Nat \X Nat /\ <<y, x>>[1] = y /\ <<y, x>>[2] = x
      OBVIOUS
  <2>3. ~(y < x)
      BY <2>1, <2>2, Zenon DEF OpToRel
  <2> QED BY <2>3
<1> QED BY <1>2

LEMMA Interval == ASSUME NEW n \in Nat PROVE IsFiniteSet(1 .. n) /\ Cardinality(1 .. n) = n
<1>1. /\ IsFiniteSet(1 .. n)
      /\ Cardinality(1 .. n) = IF 1 > n THEN 0 ELSE n - 1 + 1
    BY FS_Interval
<1>2. CASE n = 0
    BY <1>1, <1>2
<1>3. CASE n > 0
    BY <1>1, <1>3
<1> QED BY <1>2, <1>3

\* Induction up to n: what holds of 0, and with k of k + 1, holds of all.
LEMMA UpTo ==
    ASSUME NEW n \in Nat, NEW good, 0 \in good,
           \A k \in 0 .. n - 1 : k \in good => k + 1 \in good
    PROVE  \A k \in 0 .. n : k \in good
<1> DEFINE wrong == {k \in 0 .. n : k \notin good}
<1> SUFFICES ASSUME wrong # {} PROVE FALSE
    OBVIOUS
<1>1. wrong \in SUBSET Nat
    OBVIOUS
<1>2. PICK k \in wrong : \A l \in wrong : k <= l
  <2> HIDE DEF wrong
  <2> QED BY <1>1, Least
<1>3. k \in 0 .. n /\ k \notin good /\ k # 0
    OBVIOUS
<1>4. k - 1 \in 0 .. n - 1 /\ (k - 1) + 1 = k /\ ~(k <= k - 1) /\ k - 1 \in 0 .. n
    BY <1>3
<1>5. k - 1 \in good
    BY <1>2, <1>4
<1>6. (k - 1) + 1 \in good
    BY <1>4, <1>5
<1> QED BY <1>3, <1>4, <1>6

\* f are the values of an iteration of next from base.
Iterates(f, n, base, next) ==
    f[0] = base /\ \A k \in 1 .. n : f[k] = next[k][f[k - 1]]

\* A function of the naturals up to n can be defined by recursion.
LEMMA Iteration ==
    ASSUME NEW n \in Nat, NEW S, NEW base \in S, NEW next \in [1 .. n -> [S -> S]]
    PROVE  \E f \in [0 .. n -> S] : Iterates(f, n, base, next)
<1> DEFINE good == {m \in 0 .. n : \E f \in [0 .. m -> S] : Iterates(f, m, base, next)}
<1>1. 0 \in good
  <2> DEFINE f == [k \in 0 .. 0 |-> base]
  <2>1. f \in [0 .. 0 -> S] /\ Iterates(f, 0, base, next)
      BY DEF Iterates
  <2> QED BY <2>1
<1>2. ASSUME NEW m \in 0 .. n - 1, m \in good PROVE m + 1 \in good
  <2>1. PICK f \in [0 .. m -> S] : Iterates(f, m, base, next)
      BY <1>2
  <2>2. m \in Nat /\ m + 1 \in 1 .. n /\ m + 1 \in 0 .. n /\ m \in 0 .. m
      OBVIOUS
  <2> HIDE DEF good
  <2> DEFINE g == [k \in 0 .. m + 1 |-> IF k = m + 1 THEN next[m + 1][f[m]] ELSE f[k]]
  <2>3. /\ g[m + 1] = next[m + 1][f[m]] /\ \A k \in 0 .. m : g[k] = f[k]
      BY <2>2
  <2>4. next[m + 1][f[m]] \in S
    <3>1. next[m + 1] \in [S -> S] /\ f[m] \in S
        BY <2>2
    <3> QED BY <3>1
  <2>5. g \in [0 .. m + 1 -> S]
      BY <2>2, <2>4
  <2> HIDE DEF g
  <2>6. ASSUME NEW k \in 1 .. m + 1 PROVE g[k] = next[k][g[k - 1]]
    <3>1. CASE k = m + 1
        BY <2>2, <2>3, <3>1
    <3>2. CASE k # m + 1
      <4>1. k \in 1 .. m /\ k \in 0 .. m /\ k - 1 \in 0 .. m
          BY <2>2, <3>2
      <4>2. f[k] = next[k][f[k - 1]]
          BY <2>1, <4>1 DEF Iterates
      <4> QED BY <2>3, <4>1, <4>2
    <3> QED BY <3>1, <3>2
  <2>7. g[0] = base
      BY <2>1, <2>2, <2>3 DEF Iterates
  <2>8. Iterates(g, m + 1, base, next)
      BY <2>6, <2>7 DEF Iterates
  <2> QED BY <2>2, <2>5, <2>8 DEF good
<1> HIDE DEF good
<1>3. \A m \in 0 .. n : m \in good
    BY <1>1, <1>2, UpTo
<1>4. n \in 0 .. n
    OBVIOUS
<1> QED BY <1>3, <1>4 DEF good

\* The larger and the smaller of two numbers.
LEMMA Larger ==
    ASSUME NEW x \in Int, NEW y \in Int
    PROVE  /\ Max({x, y}) \in {x, y} /\ Max({x, y}) >= x /\ Max({x, y}) >= y
<1>1. \E z \in {x, y} : \A w \in {x, y} : z >= w
    OBVIOUS
<1> QED BY <1>1 DEF Max

LEMMA Smaller ==
    ASSUME NEW x \in Nat, NEW y \in Nat
    PROVE  /\ Min({x, y}) \in {x, y} /\ Min({x, y}) <= x /\ Min({x, y}) <= y
<1>1. \E z \in {x, y} : \A w \in {x, y} : z <= w
    OBVIOUS
<1> QED BY <1>1 DEF Min

\* The largest of one number.
LEMMA OneMax == ASSUME NEW x \in Nat PROVE Max({x}) = x
    BY DEF Max

-----------------------------------------------------------------------------
(* Sorting.                                                                *)

\* ahead is a strict total order of S.
Orders(ahead, S) ==
    /\ IsFiniteSet(S) /\ ahead \in [S -> SUBSET S]
    /\ \A i \in S : i \notin ahead[i]
    /\ \A i, j \in S : j \in ahead[i] => ahead[j] \subseteq ahead[i]
    /\ \A i, j \in S : i = j \/ i \in ahead[j] \/ j \in ahead[i]

\* s has the elements of S, each once.
Lists(s, S) ==
    /\ s \in [1 .. Cardinality(S) -> S] /\ s \in Seq(S)
    /\ Len(s) = Cardinality(S) /\ Len(s) \in Nat
    /\ \A i \in S : \E k \in 1 .. Len(s) : s[k] = i
    /\ \A k, l \in 1 .. Len(s) : s[k] = s[l] => k = l

\* s has each element behind those that are ahead of it.
Keeps(s, ahead) ==
    /\ \A k \in 1 .. Len(s) : Cardinality(ahead[s[k]]) = k - 1
    /\ \A k, l \in 1 .. Len(s) : s[k] \in ahead[s[l]] <=> k < l

\* Elements that are in a strict total order can be arranged.
LEMMA Arrangement ==
    ASSUME NEW S, NEW ahead, Orders(ahead, S)
    PROVE  Lists(Arranged(S, ahead), S) /\ Keeps(Arranged(S, ahead), ahead)
<1> USE DEF Orders
<1> DEFINE o == Arranged(S, ahead)
<1> DEFINE n == Cardinality(S)
           c == [i \in S |-> Cardinality(ahead[i]) + 1]
<1>1. n \in Nat /\ \A i \in S : IsFiniteSet(ahead[i]) /\ Cardinality(ahead[i]) \in Nat
    BY FS_CardinalityType, FS_Subset
<1>2. ASSUME NEW i \in S, NEW j \in S, j \in ahead[i] PROVE c[j] < c[i]
  <2>1. ahead[j] \subseteq ahead[i] /\ ahead[j] # ahead[i]
      BY <1>2
  <2>2. /\ Cardinality(ahead[j]) <= Cardinality(ahead[i])
        /\ Cardinality(ahead[j]) # Cardinality(ahead[i])
      BY <1>1, <1>2, <2>1, FS_Subset
  <2> QED BY <1>1, <2>1, <2>2
<1>3. \A i \in S : c[i] \in 1 .. n
  <2> SUFFICES ASSUME NEW i \in S PROVE c[i] \in 1 .. n
      OBVIOUS
  <2>1. ahead[i] \subseteq S /\ ahead[i] # S
      OBVIOUS
  <2>2. Cardinality(ahead[i]) <= n /\ Cardinality(ahead[i]) # n
      BY <2>1, FS_Subset
  <2> QED BY <1>1, <2>2
<1>4. \A i, j \in S : c[i] = c[j] => i = j
  <2> SUFFICES ASSUME NEW i \in S, NEW j \in S, c[i] = c[j], i # j PROVE FALSE
      OBVIOUS
  <2>1. c[i] \in 1 .. n /\ c[j] \in 1 .. n
      BY <1>3
  <2>2. i \in ahead[j] \/ j \in ahead[i]
      OBVIOUS
  <2>3. c[i] < c[j] \/ c[j] < c[i]
      BY <1>2, <2>2
  <2> HIDE DEF c
  <2> QED BY <1>1, <2>1, <2>3
<1>5. c \in Surjection(S, 1 .. n)
  <2>1. c \in Injection(S, 1 .. n)
      BY <1>3, <1>4 DEF Injection, IsInjective
  <2>2. IsFiniteSet(1 .. n) /\ Cardinality(1 .. n) = n
      BY <1>1, Interval
  <2> HIDE DEF c
  <2> QED BY <2>1, <2>2, FS_Injection
<1>6. \A k \in 1 .. n : \E i \in S : Cardinality(ahead[i]) = k - 1
  <2> SUFFICES ASSUME NEW k \in 1 .. n PROVE \E i \in S : Cardinality(ahead[i]) = k - 1
      OBVIOUS
  <2>1. PICK i \in S : c[i] = k
      BY <1>5 DEF Surjection
  <2> QED BY <1>1, <2>1
<1> DEFINE f == [k \in 1 .. n |-> CHOOSE i \in S : Cardinality(ahead[i]) = k - 1]
<1>7. \A k \in 1 .. n : f[k] \in S /\ Cardinality(ahead[f[k]]) = k - 1
    BY <1>6
<1>8. f \in [1 .. n -> S] /\ f \in Seq(S) /\ Len(f) = n
    BY <1>1, <1>7
<1>9. o = f
  <2>1. o = f \o << >>
      BY DEF Arranged
  <2> HIDE DEF f, o
  <2> QED BY <1>8, <2>1
<1> HIDE DEF f, o
<1>10. \A k \in 1 .. n : o[k] \in S /\ c[o[k]] = k
    BY <1>1, <1>7, <1>9
<1>11. \A i \in S : \E k \in 1 .. n : o[k] = i
  <2> SUFFICES ASSUME NEW i \in S PROVE o[c[i]] = i /\ c[i] \in 1 .. n
      OBVIOUS
  <2> HIDE DEF c
  <2> QED BY <1>3, <1>4, <1>10
<1>12. \A k, l \in 1 .. n : o[k] \in ahead[o[l]] <=> k < l
  <2> SUFFICES ASSUME NEW k \in 1 .. n, NEW l \in 1 .. n PROVE o[k] \in ahead[o[l]] <=> k < l
      OBVIOUS
  <2>1. o[k] \in S /\ o[l] \in S /\ c[o[k]] = k /\ c[o[l]] = l
      BY <1>10
  <2> HIDE DEF c
  <2>2. o[k] \in ahead[o[l]] => k < l
      BY <1>2, <2>1
  <2>3. o[l] \in ahead[o[k]] => l < k
      BY <1>2, <2>1
  <2> QED BY <1>1, <2>1, <2>2, <2>3
<1>13. \A k, l \in 1 .. n : o[k] = o[l] => k = l
    BY <1>10
<1>14. Lists(o, S)
    BY <1>1, <1>8, <1>9, <1>11, <1>13 DEF Lists
<1>15. Keeps(o, ahead)
    BY <1>7, <1>8, <1>9, <1>12 DEF Keeps
<1> QED BY <1>14, <1>15 DEF o

\* Numbers in ascending order: all of them, each once.
LEMMA AscendingOrder ==
    ASSUME NEW S \in SUBSET Nat, IsFiniteSet(S)
    PROVE  /\ Lists(Ascending(S), S)
           /\ \A k, l \in 1 .. Cardinality(S) : Ascending(S)[k] < Ascending(S)[l] <=> k < l
<1> DEFINE ahead == [i \in S |-> {j \in S : j < i}]
<1>1. ahead \in [S -> SUBSET S] /\ \A i \in S : i \notin ahead[i]
    OBVIOUS
<1>2. \A i, j \in S : j \in ahead[i] => ahead[j] \subseteq ahead[i]
  <2>1. \A i, j, k \in S : k < j /\ j < i => k < i
      OBVIOUS
  <2> QED BY <2>1
<1>3. \A i, j \in S : i = j \/ i \in ahead[j] \/ j \in ahead[i]
    OBVIOUS
<1>4. \A i, j \in S : i \in ahead[j] <=> i < j
    OBVIOUS
<1>5. Ascending(S) = Arranged(S, ahead)
    BY DEF Ascending
<1> HIDE DEF ahead
<1>6. Orders(ahead, S)
    BY <1>1, <1>2, <1>3 DEF Orders
<1>7. Lists(Ascending(S), S) /\ Keeps(Ascending(S), ahead)
    BY <1>5, <1>6, Arrangement
<1>8. \A k, l \in 1 .. Cardinality(S) : Ascending(S)[k] < Ascending(S)[l] <=> k < l
    BY <1>4, <1>7 DEF Lists, Keeps
<1> QED BY <1>7, <1>8

\* r has the elements of s at the places P, in their order; o are the places.
Picks(r, s, P, o) ==
    /\ Len(r) = Cardinality(P) /\ Len(r) \in Nat /\ Len(r) <= Len(s) /\ IsFiniteSet(P)
    /\ o \in [1 .. Len(r) -> P]
    /\ \A k \in 1 .. Len(r) : r[k] = s[o[k]]
    /\ \A i \in P : \E k \in 1 .. Len(r) : o[k] = i
    /\ \A k, l \in 1 .. Len(r) : o[k] < o[l] <=> k < l

LEMMA SublistElements ==
    ASSUME NEW T, NEW s \in Seq(T), NEW P \in SUBSET DOMAIN s
    PROVE  Sublist(s, P) \in Seq(T) /\ Picks(Sublist(s, P), s, P, Ascending(P))
<1>1. DOMAIN s = 1 .. Len(s) /\ Len(s) \in Nat
    OBVIOUS
<1>2. /\ IsFiniteSet(P) /\ P \in SUBSET Nat /\ Cardinality(P) \in Nat /\ Cardinality(P) <= Len(s)
  <2>1. IsFiniteSet(1 .. Len(s)) /\ Cardinality(1 .. Len(s)) = Len(s)
      BY <1>1, Interval
  <2>2. P \subseteq 1 .. Len(s)
      BY <1>1
  <2> QED BY <2>1, <2>2, FS_Subset, FS_CardinalityType
<1> DEFINE o == Ascending(P)
           r == Sublist(s, P)
<1>3. /\ o \in [1 .. Cardinality(P) -> P] /\ o \in Seq(P) /\ Len(o) = Cardinality(P)
      /\ \A i \in P : \E k \in 1 .. Len(o) : o[k] = i
      /\ \A k, l \in 1 .. Len(o) : o[k] < o[l] <=> k < l
    BY <1>2, AscendingOrder DEF Lists
<1>4. r = [k \in DOMAIN o |-> s[o[k]]]
    BY DEF Sublist
<1> HIDE DEF o, r
<1>5. DOMAIN o = 1 .. Cardinality(P) /\ \A k \in DOMAIN o : s[o[k]] \in T
    BY <1>1, <1>3
<1>6. r \in Seq(T) /\ Len(r) = Cardinality(P) /\ \A k \in 1 .. Len(r) : r[k] = s[o[k]]
    BY <1>2, <1>4, <1>5
<1>7. Picks(r, s, P, o)
    BY <1>2, <1>3, <1>6 DEF Picks
<1> QED BY <1>6, <1>7 DEF o, r

\* r has the elements of s at the places p, sorted by key; equal ones keep their
\* order.
Sorts(r, s, key, p) ==
    /\ DOMAIN r = DOMAIN s /\ p \in [DOMAIN s -> DOMAIN s]
    /\ \A k \in DOMAIN s : r[k] = s[p[k]]
    /\ \A i \in DOMAIN s : \E k \in DOMAIN s : p[k] = i
    /\ \A k, l \in DOMAIN s : p[k] = p[l] => k = l
    /\ \A k, l \in DOMAIN s :
          k < l <=> key[p[k]] < key[p[l]] \/ (key[p[k]] = key[p[l]] /\ p[k] < p[l])

LEMMA StableSort ==
    ASSUME NEW T, NEW s \in Seq(T), NEW key \in [DOMAIN s -> Nat]
    PROVE  Sorted(s, key) \in Seq(T) /\ \E p : Sorts(Sorted(s, key), s, key, p)
<1> DEFINE D == DOMAIN s
           ahead == [i \in D |-> {j \in D : key[j] < key[i] \/ (key[j] = key[i] /\ j < i)}]
           p == Arranged(D, ahead)
           r == Sorted(s, key)
<1>1. /\ D \in SUBSET Nat /\ D = 1 .. Len(s) /\ Len(s) \in Nat /\ \A i \in D : s[i] \in T
      /\ IsFiniteSet(D) /\ Cardinality(D) = Len(s)
  <2>1. D = 1 .. Len(s) /\ Len(s) \in Nat /\ \A i \in D : s[i] \in T
      OBVIOUS
  <2> QED BY <2>1, Interval
<1>2. \A i, j \in D : j \in ahead[i] <=> key[j] < key[i] \/ (key[j] = key[i] /\ j < i)
    OBVIOUS
<1>3. ahead \in [D -> SUBSET D]
    OBVIOUS
<1>4. r = [k \in D |-> s[p[k]]]
    BY DEF Sorted
<1> HIDE DEF ahead, p, r
<1>5. \A i \in D : i \notin ahead[i]
    BY <1>1, <1>2
<1>6. \A i, j \in D : j \in ahead[i] => ahead[j] \subseteq ahead[i]
  <2> SUFFICES ASSUME NEW i \in D, NEW j \in D, j \in ahead[i], NEW k \in ahead[j]
               PROVE  k \in ahead[i]
      OBVIOUS
  <2>1. k \in D
      BY <1>3
  <2> QED BY <1>1, <1>2, <2>1
<1>7. \A i, j \in D : i = j \/ i \in ahead[j] \/ j \in ahead[i]
    BY <1>1, <1>2
<1>8. Orders(ahead, D)
    BY <1>1, <1>3, <1>5, <1>6, <1>7 DEF Orders
<1>9. Lists(p, D) /\ Keeps(p, ahead)
    BY <1>8, Arrangement DEF p
<1>10. /\ p \in [D -> D] /\ \A i \in D : \E k \in D : p[k] = i
       /\ \A k, l \in D : p[k] = p[l] => k = l
       /\ \A k, l \in D : p[k] \in ahead[p[l]] <=> k < l
    BY <1>1, <1>9 DEF Lists, Keeps
<1>11. \A k, l \in D : k < l <=> key[p[k]] < key[p[l]] \/ (key[p[k]] = key[p[l]] /\ p[k] < p[l])
  <2> SUFFICES ASSUME NEW k \in D, NEW l \in D
               PROVE  k < l <=> key[p[k]] < key[p[l]] \/ (key[p[k]] = key[p[l]] /\ p[k] < p[l])
      OBVIOUS
  <2>1. p[k] \in D /\ p[l] \in D
      BY <1>10
  <2> QED BY <1>2, <1>10, <2>1
<1>12. DOMAIN r = D /\ \A k \in D : r[k] = s[p[k]]
    BY <1>4
<1>13. r \in [1 .. Len(s) -> T]
    BY <1>1, <1>4, <1>10
<1>14. r \in Seq(T)
    BY <1>1, <1>13
<1>15. Sorts(r, s, key, p)
    BY <1>10, <1>11, <1>12 DEF Sorts
<1> QED BY <1>14, <1>15 DEF r

\* Sorting leaves a sequence that is in order as it is.
LEMMA AlreadySorted ==
    ASSUME NEW s \in Seq(Nat), \A k, l \in 1 .. Len(s) : k <= l => s[k] <= s[l]
    PROVE  Sorted(s, s) = s
<1> DEFINE D == DOMAIN s
           ahead == [i \in D |-> {j \in D : s[j] < s[i] \/ (s[j] = s[i] /\ j < i)}]
           p == Arranged(D, ahead)
<1>1. /\ D = 1 .. Len(s) /\ Len(s) \in Nat /\ IsFiniteSet(D) /\ Cardinality(D) = Len(s)
      /\ \A i \in D : s[i] \in Nat
  <2>1. D = 1 .. Len(s) /\ Len(s) \in Nat /\ \A i \in D : s[i] \in Nat
      OBVIOUS
  <2> QED BY <2>1, Interval
<1>2. \A i, j \in D : j \in ahead[i] <=> j < i
  <2> SUFFICES ASSUME NEW i \in D, NEW j \in D
               PROVE  s[j] < s[i] \/ (s[j] = s[i] /\ j < i) <=> j < i
      OBVIOUS
  <2>1. i \in Nat /\ j \in Nat /\ s[i] \in Nat /\ s[j] \in Nat
      BY <1>1
  <2>2. (i <= j => s[i] <= s[j]) /\ (j <= i => s[j] <= s[i])
      BY <1>1
  <2> QED BY <2>1, <2>2
<1>3. ahead \in [D -> SUBSET D]
    OBVIOUS
<1>4. Sorted(s, s) = [k \in D |-> s[p[k]]]
    BY DEF Sorted
<1> HIDE DEF ahead, p
<1>5. \A i, j \in D : j \in ahead[i] => ahead[j] \subseteq ahead[i]
  <2> SUFFICES ASSUME NEW i \in D, NEW j \in D, j \in ahead[i], NEW k \in ahead[j]
               PROVE  k \in ahead[i]
      OBVIOUS
  <2>1. k \in D
      BY <1>3
  <2> QED BY <1>1, <1>2, <2>1
<1>6. Orders(ahead, D)
  <2>1. \A i \in D : i \notin ahead[i]
      BY <1>1, <1>2
  <2>2. \A i, j \in D : i = j \/ i \in ahead[j] \/ j \in ahead[i]
      BY <1>1, <1>2
  <2> QED BY <1>1, <1>3, <1>5, <2>1, <2>2 DEF Orders
<1>7. Lists(p, D) /\ Keeps(p, ahead)
    BY <1>6, Arrangement DEF p
<1>8. ASSUME NEW k \in D PROVE p[k] = k
  <2>1. p[k] \in D /\ Cardinality(ahead[p[k]]) = k - 1
      BY <1>1, <1>7 DEF Lists, Keeps
  <2>2. ahead[p[k]] = 1 .. p[k] - 1
    <3>1. \A j : j \in ahead[p[k]] => j \in D
        BY <1>3, <2>1
    <3>2. \A j : j \in D /\ j < p[k] <=> j \in 1 .. p[k] - 1
        BY <1>1, <2>1
    <3> QED BY <1>2, <2>1, <3>1, <3>2
  <2>3. p[k] - 1 \in Nat
      BY <1>1, <2>1
  <2>4. Cardinality(1 .. p[k] - 1) = p[k] - 1
      BY <2>3, Interval
  <2> QED BY <1>1, <2>1, <2>2, <2>4
<1> QED BY <1>1, <1>4, <1>8

-----------------------------------------------------------------------------
(* The ranking.                                                            *)

LEMMA PathsAreNumbers == Path \in SUBSET Nat /\ 0 \notin Path
    BY PathAssumption DEF Path

\* The hunks of a diff by their places.
LEMMA Hunks ==
    ASSUME NEW hs \in Seq(Hunk)
    PROVE  /\ DOMAIN hs = 1 .. Len(hs) /\ Len(hs) \in Nat /\ DOMAIN hs \in SUBSET Nat
           /\ IsFiniteSet(DOMAIN hs) /\ Cardinality(DOMAIN hs) = Len(hs)
           /\ \A i \in DOMAIN hs : hs[i] \in Hunk
<1>1. DOMAIN hs = 1 .. Len(hs) /\ Len(hs) \in Nat /\ \A i \in DOMAIN hs : hs[i] \in Hunk
    OBVIOUS
<1> QED BY <1>1, Interval

\* The lines of a hunk are counted.
LEMMA LinesOfHunk ==
    ASSUME NEW h \in Hunk, NEW type
    PROVE  /\ h.changes \in Seq(Change) /\ DOMAIN h.changes = 1 .. Len(h.changes)
           /\ Len(h.changes) \in Nat /\ Of(h, type) \subseteq DOMAIN h.changes
           /\ IsFiniteSet(Of(h, type)) /\ Cardinality(Of(h, type)) \in Nat
<1>1. /\ h.changes \in Seq(Change) /\ DOMAIN h.changes = 1 .. Len(h.changes)
      /\ Len(h.changes) \in Nat
    BY DEF Hunk
<1>2. Of(h, type) \subseteq DOMAIN h.changes
    BY DEF Of
<1> QED BY <1>1, <1>2, Interval, FS_Subset, FS_CardinalityType

LEMMA Counts == ASSUME NEW h \in Hunk PROVE added(h) \in Nat /\ deleted(h) \in Nat
    BY LinesOfHunk DEF added, deleted

LEMMA ScoreIsNat == ASSUME NEW hs, NEW h \in Hunk PROVE score(hs, h) \in Nat
<1> DEFINE size == 1 + added(h) + deleted(h)
           weight(b, w) == IF b THEN w ELSE 1
           risk == weight(PathInfo[h.file].risk, 64)
           api == weight(apiBoundary(h), 16)
           missing == weight(isMissingTestDelta(hs, h), 8)
<1>1. size \in Nat /\ risk \in Nat /\ api \in Nat /\ missing \in Nat
    BY Counts
<1>2. score(hs, h) = size * size * risk * api * missing
    BY DEF score
<1> HIDE DEF size, risk, api, missing
<1>3. size * size \in Nat
    BY <1>1
<1>4. size * size * risk \in Nat
    BY <1>1, <1>3
<1>5. size * size * risk * api \in Nat
    BY <1>1, <1>4
<1>6. size * size * risk * api * missing \in Nat
    BY <1>1, <1>5
<1> QED BY <1>2, <1>6

\* The hunks that come before a hunk.
Ahead(hs) == [i \in DOMAIN hs |-> {j \in DOMAIN hs : Before(hs, j, i)}]

LEMMA RankingOrders == ASSUME NEW hs \in Seq(Hunk) PROVE Orders(Ahead(hs), DOMAIN hs)
<1> DEFINE D == DOMAIN hs
           points == [i \in D |-> score(hs, hs[i])]
           path == [i \in D |-> hs[i].file]
<1>1. /\ D \in SUBSET Nat /\ IsFiniteSet(D) /\ \A i \in D : hs[i] \in Hunk
    BY Hunks
<1>2. \A i \in D : points[i] \in Nat /\ path[i] \in Nat
    BY <1>1, ScoreIsNat, PathsAreNumbers DEF Hunk
<1>3. \A i, j \in D :
         Before(hs, j, i) <=> \/ points[j] > points[i]
                              \/ points[j] = points[i] /\ path[j] < path[i]
                              \/ points[j] = points[i] /\ path[j] = path[i] /\ j < i
    BY DEF Before
<1> HIDE DEF points, path
<1>4. \A i \in D : ~Before(hs, i, i)
    BY <1>1, <1>2, <1>3
<1>5. \A i, j, k \in D : Before(hs, k, j) /\ Before(hs, j, i) => Before(hs, k, i)
    BY <1>1, <1>2, <1>3
<1>6. \A i, j \in D : i = j \/ Before(hs, i, j) \/ Before(hs, j, i)
    BY <1>1, <1>2, <1>3
<1> QED BY <1>1, <1>4, <1>5, <1>6 DEF Orders, Ahead

\* The ranking has every hunk once, behind those that come before it.
LEMMA RankingOfHunks ==
    ASSUME NEW hs \in Seq(Hunk)
    PROVE  /\ Lists(Ranking(hs), DOMAIN hs) /\ Keeps(Ranking(hs), Ahead(hs))
           /\ DOMAIN Ranking(hs) = DOMAIN hs /\ Len(Ranking(hs)) = Len(hs)
           /\ \A k, l \in DOMAIN hs : Before(hs, Ranking(hs)[k], Ranking(hs)[l]) <=> k < l
<1>1. Lists(Ranking(hs), DOMAIN hs) /\ Keeps(Ranking(hs), Ahead(hs))
    BY RankingOrders, Arrangement DEF Ranking, Ahead
<1>2. DOMAIN hs = 1 .. Len(hs) /\ Cardinality(DOMAIN hs) = Len(hs)
    BY Hunks
<1>3. DOMAIN Ranking(hs) = DOMAIN hs /\ Len(Ranking(hs)) = Len(hs)
    BY <1>1, <1>2 DEF Lists
<1>4. \A k, l \in DOMAIN hs : Before(hs, Ranking(hs)[k], Ranking(hs)[l]) <=> k < l
    BY <1>1, <1>2, <1>3 DEF Keeps, Ahead, Lists
<1> QED BY <1>1, <1>3, <1>4

\* A diff whose hunks have different anchors, as AnchorAssumption has it.
Anchored(hs) ==
    /\ hs \in Seq(Hunk)
    /\ \A i, j \in DOMAIN hs : Key(hs[i]) = Key(hs[j]) => i = j

Tiers == {"High", "Medium", "Low"}
TiersOf(hs) == assignTiers(hs, Ranking(hs))

LEMMA HighCount ==
    /\ \A n \in Nat : highCount(n) \in Nat /\ highCount(n) >= 1 /\ medCount(n) \in Nat
    /\ \A m, n \in Nat : m <= n => highCount(m) <= highCount(n)
<1>1. ASSUME NEW n \in Nat
      PROVE  /\ highCount(n) \in {1, (2 * n + 5) \div 10}
             /\ highCount(n) >= 1 /\ highCount(n) >= (2 * n + 5) \div 10
  <2> DEFINE q == (2 * n + 5) \div 10
  <2>1. q \in Nat
      OBVIOUS
  <2>2. highCount(n) = Max({1, q})
      BY DEF highCount
  <2> HIDE DEF q
  <2>3. Max({1, q}) \in {1, q} /\ Max({1, q}) >= 1 /\ Max({1, q}) >= q
    <3>1. \E x \in {1, q} : \A y \in {1, q} : x >= y
        BY <2>1
    <3> QED BY <3>1 DEF Max
  <2> QED BY <2>2, <2>3 DEF q
<1>2. \A n \in Nat : (2 * n + 5) \div 10 \in Nat /\ (3 * n + 5) \div 10 \in Nat
    OBVIOUS
<1>3. \A m, n \in Nat : m <= n => (2 * m + 5) \div 10 <= (2 * n + 5) \div 10
    OBVIOUS
<1>4. \A n \in Nat : highCount(n) \in Nat /\ highCount(n) >= 1 /\ medCount(n) \in Nat
    BY <1>1, <1>2 DEF medCount
<1>5. ASSUME NEW m \in Nat, NEW n \in Nat, m <= n PROVE highCount(m) <= highCount(n)
  <2>1. (2 * m + 5) \div 10 <= (2 * n + 5) \div 10
      BY <1>3, <1>5
  <2> HIDE DEF highCount
  <2> QED BY <1>1, <1>2, <1>4, <2>1
<1> QED BY <1>4, <1>5

\* What the tier of a place says.
LEMMA TierOfPlace ==
    ASSUME NEW place \in Nat, NEW n \in Nat
    PROVE  /\ TierAt(place, n) \in Tiers
           /\ TierAt(place, n) = "High" <=> place < highCount(n)
           /\ TierAt(place, n) = "Medium" <=>
                 place >= highCount(n) /\ place < highCount(n) + medCount(n)
    BY HighCount DEF TierAt, Tiers

\* The places of the real changes that are ranked before the k-th hunk.
RealBefore(hs, k) == {l \in 1 .. k - 1 : Ranking(hs)[l] \in Candidates(hs)}

LEMMA RealChanges ==
    ASSUME NEW hs \in Seq(Hunk)
    PROVE  /\ IsFiniteSet(Candidates(hs)) /\ Cardinality(Candidates(hs)) \in Nat
           /\ Cardinality(Candidates(hs)) <= Len(hs)
           /\ \A k \in DOMAIN hs : /\ IsFiniteSet(RealBefore(hs, k))
                                  /\ Cardinality(RealBefore(hs, k)) \in Nat
<1>1. Candidates(hs) \subseteq DOMAIN hs
    BY DEF Candidates
<1>2. ASSUME NEW k \in DOMAIN hs PROVE IsFiniteSet(1 .. k - 1) /\ RealBefore(hs, k) \subseteq 1 .. k - 1
  <2>1. k - 1 \in Nat
      BY Hunks
  <2> QED BY <2>1, Interval DEF RealBefore
<1> QED BY <1>1, <1>2, Hunks, FS_Subset, FS_CardinalityType

\* The tier of the k-th hunk of the ranking.
LEMMA TierInRanking ==
    ASSUME NEW hs \in Seq(Hunk), NEW k \in DOMAIN hs
    PROVE  LET place == Cardinality(RealBefore(hs, k))
               n == Cardinality(Candidates(hs))
           IN  /\ TiersOf(hs)[k] \in Tiers
               /\ TiersOf(hs)[k] = "High" <=>
                     Ranking(hs)[k] \in Candidates(hs) /\ place < highCount(n)
               /\ TiersOf(hs)[k] = "Medium" <=>
                     /\ Ranking(hs)[k] \in Candidates(hs)
                     /\ place >= highCount(n) /\ place < highCount(n) + medCount(n)
<1> DEFINE place == Cardinality(RealBefore(hs, k))
           n == Cardinality(Candidates(hs))
<1>1. place \in Nat /\ n \in Nat
    BY RealChanges
<1>2. TiersOf(hs)[k] = IF Ranking(hs)[k] \notin Candidates(hs) THEN "Low" ELSE TierAt(place, n)
    BY RankingOfHunks DEF TiersOf, assignTiers, RealBefore
<1> HIDE DEF place, n
<1>3. CASE Ranking(hs)[k] \notin Candidates(hs)
    BY <1>2, <1>3 DEF Tiers, place, n
<1>4. CASE Ranking(hs)[k] \in Candidates(hs)
    BY <1>1, <1>2, <1>4, TierOfPlace DEF place, n
<1> QED BY <1>3, <1>4

\* The k-th ranked hunk: an anchor and a tier.
LEMMA RankedHunk ==
    ASSUME NEW hs \in Seq(Hunk)
    PROVE  /\ DOMAIN rankHunks(hs) = DOMAIN hs
           /\ \A k \in DOMAIN hs :
                 LET h == hs[Ranking(hs)[k]] IN
                 /\ Ranking(hs)[k] \in DOMAIN hs /\ h \in Hunk
                 /\ rankHunks(hs)[k] = [file |-> h.file, side |-> side(h), line |-> line(h),
                                        tier |-> TiersOf(hs)[k]]
<1>1. DOMAIN hs = 1 .. Len(hs) /\ Cardinality(DOMAIN hs) = Len(hs) /\ \A i \in DOMAIN hs : hs[i] \in Hunk
    BY Hunks
<1>2. \A k \in DOMAIN hs : Ranking(hs)[k] \in DOMAIN hs
    BY <1>1, RankingOfHunks DEF Lists
<1> QED BY <1>1, <1>2 DEF rankHunks, TiersOf

\* The tier that is found by the anchor of the k-th hunk is its own.
LEMMA TierByAnchor ==
    ASSUME NEW hs, Anchored(hs), NEW k \in DOMAIN hs
    PROVE  TierOf(rankHunks(hs), Key(hs[Ranking(hs)[k]])) = TiersOf(hs)[k]
<1> DEFINE o == Ranking(hs)
           ranked == rankHunks(hs)
           same == {l \in DOMAIN ranked :
                      <<ranked[l].file, ranked[l].side, ranked[l].line>> = Key(hs[o[k]])}
<1>1. hs \in Seq(Hunk) /\ DOMAIN hs \in SUBSET Nat /\ DOMAIN hs = 1 .. Len(hs)
      /\ Cardinality(DOMAIN hs) = Len(hs)
    BY Hunks DEF Anchored
<1>2. /\ DOMAIN ranked = DOMAIN hs
      /\ \A l \in DOMAIN hs : /\ o[l] \in DOMAIN hs /\ ranked[l].tier = TiersOf(hs)[l]
                              /\ <<ranked[l].file, ranked[l].side, ranked[l].line>> = Key(hs[o[l]])
  <2>1. DOMAIN ranked = DOMAIN hs
      BY <1>1, RankedHunk
  <2> SUFFICES ASSUME NEW l \in DOMAIN hs
               PROVE  /\ o[l] \in DOMAIN hs /\ ranked[l].tier = TiersOf(hs)[l]
                      /\ <<ranked[l].file, ranked[l].side, ranked[l].line>> = Key(hs[o[l]])
      BY <2>1
  <2> DEFINE h == hs[o[l]]
  <2>2. o[l] \in DOMAIN hs
        /\ ranked[l] = [file |-> h.file, side |-> side(h), line |-> line(h),
                        tier |-> TiersOf(hs)[l]]
      BY <1>1, RankedHunk
  <2> HIDE DEF h, ranked
  <2> QED BY <2>2 DEF Key, h
<1>3. \A l \in DOMAIN hs : o[l] = o[k] => l = k
    BY <1>1, RankingOfHunks DEF Lists
<1> HIDE DEF o, ranked
<1>4. \A l \in DOMAIN hs : l \in same <=> l = k
    BY <1>2, <1>3 DEF Anchored
<1>5. same = {k}
    BY <1>2, <1>4
<1>6. TierOf(ranked, Key(hs[o[k]])) = ranked[Max(same)].tier
    BY <1>5 DEF TierOf
<1> QED BY <1>1, <1>2, <1>5, <1>6, OneMax DEF o, ranked

-----------------------------------------------------------------------------
(* Chunks, findings and cards.                                             *)

Chunk == [at : Nat, file : Path, changes : Seq(Change), tier : Tiers]
Review == [file : Path, changes : Seq(Change)]
Result == [chunk : Chunk, review : Review]

LEMMA FingerprintType ==
    ASSUME NEW file \in Path, NEW changes \in Seq(Change)
    PROVE  fingerprintChunk(file, changes) \in Path \X Seq(Change)
<1>1. Counted(changes) \in SUBSET DOMAIN changes
    BY DEF Counted
<1>2. Sublist(changes, Counted(changes)) \in Seq(Change)
    BY <1>1, SublistElements
<1> QED BY <1>2 DEF fingerprintChunk

\* Every hunk is in the ranking.
LEMMA PlaceOfHunk ==
    ASSUME NEW hs \in Seq(Hunk), NEW i \in DOMAIN hs
    PROVE  \E k \in DOMAIN hs : Ranking(hs)[k] = i
<1>1. DOMAIN hs = 1 .. Len(hs) /\ Cardinality(DOMAIN hs) = Len(hs)
    BY Hunks
<1> QED BY <1>1, RankingOfHunks DEF Lists

\* The chunks of a diff are its hunks, each with its tier of the ranking.
LEMMA ChunksOfDiff ==
    ASSUME NEW hs, Anchored(hs)
    PROVE  /\ buildReviewChunks(hs) \in Seq(Chunk)
           /\ DOMAIN buildReviewChunks(hs) = DOMAIN hs
           /\ \A i \in DOMAIN hs :
                 LET c == buildReviewChunks(hs)[i] IN
                 c.at = i /\ c.file = hs[i].file /\ c.changes = hs[i].changes
           /\ \A k \in DOMAIN hs :
                 buildReviewChunks(hs)[Ranking(hs)[k]].tier = TiersOf(hs)[k]
<1> DEFINE cs == buildReviewChunks(hs)
           tier(i) == TierOf(rankHunks(hs), Key(hs[i]))
<1>1. /\ hs \in Seq(Hunk) /\ DOMAIN hs = 1 .. Len(hs) /\ Len(hs) \in Nat
      /\ \A i \in DOMAIN hs : hs[i] \in Hunk
    BY Hunks DEF Anchored
<1>2. cs = [i \in DOMAIN hs |-> [at |-> i, file |-> hs[i].file, changes |-> hs[i].changes,
                                 tier |-> tier(i)]]
    BY DEF buildReviewChunks
<1>3. \A k \in DOMAIN hs : /\ Ranking(hs)[k] \in DOMAIN hs
                           /\ tier(Ranking(hs)[k]) = TiersOf(hs)[k] /\ TiersOf(hs)[k] \in Tiers
    BY <1>1, TierByAnchor, TierInRanking, RankedHunk
<1>4. ASSUME NEW i \in DOMAIN hs PROVE tier(i) \in Tiers
  <2>1. PICK k \in DOMAIN hs : Ranking(hs)[k] = i
      BY <1>1, PlaceOfHunk
  <2>2. tier(Ranking(hs)[k]) \in Tiers
      BY <1>3
  <2> QED BY <2>1, <2>2
<1> HIDE DEF tier, cs
<1>5. \A i \in DOMAIN hs : cs[i] \in Chunk
    BY <1>1, <1>2, <1>4 DEF Chunk, Hunk
<1>6. cs \in Seq(Chunk) /\ DOMAIN cs = DOMAIN hs
    BY <1>1, <1>2, <1>5
<1>7. \A i \in DOMAIN hs : /\ cs[i].at = i /\ cs[i].file = hs[i].file
                           /\ cs[i].changes = hs[i].changes /\ cs[i].tier = tier(i)
    BY <1>2
<1> QED BY <1>3, <1>6, <1>7 DEF cs

\* The pass reads the chunks of tier High.
LEMMA SelectedChunks ==
    ASSUME NEW hs, Anchored(hs)
    PROVE  LET cs == buildReviewChunks(hs)
               s == selectReviewChunks(cs)
               high == {i \in DOMAIN hs : cs[i].tier = "High"}
           IN  /\ s \in Seq(Chunk) /\ Len(s) = Cardinality(high) /\ IsFiniteSet(high)
               /\ \A k \in DOMAIN s : /\ s[k].at \in DOMAIN hs /\ s[k].file = hs[s[k].at].file
                                      /\ s[k].changes = hs[s[k].at].changes
               /\ {c.at : c \in Range(s)} = high
<1> DEFINE cs == buildReviewChunks(hs)
           s == selectReviewChunks(cs)
           high == {i \in DOMAIN cs : cs[i].tier = "High"}
           o == Ascending(high)
<1>1. /\ cs \in Seq(Chunk) /\ DOMAIN cs = DOMAIN hs
      /\ \A i \in DOMAIN hs : cs[i].at = i /\ cs[i].file = hs[i].file /\ cs[i].changes = hs[i].changes
    BY ChunksOfDiff
<1>2. high \in SUBSET DOMAIN cs
    OBVIOUS
<1>3. s = Sublist(cs, high)
    BY DEF selectReviewChunks
<1> HIDE DEF cs, s, high, o
<1>4. s \in Seq(Chunk) /\ Picks(s, cs, high, o)
    BY <1>1, <1>2, <1>3, SublistElements DEF o
<1>5. \A k \in DOMAIN s : o[k] \in high /\ s[k] = cs[o[k]]
    BY <1>4 DEF Picks
<1>6. \A k \in DOMAIN s : s[k].at = o[k] /\ o[k] \in DOMAIN hs
    BY <1>1, <1>2, <1>5
<1>7. {c.at : c \in Range(s)} = high
  <2>1. \A c \in Range(s) : c.at \in high
      BY <1>5, <1>6 DEF Range
  <2>2. \A i \in high : \E c \in Range(s) : c.at = i
    <3> SUFFICES ASSUME NEW i \in high PROVE \E c \in Range(s) : c.at = i
        OBVIOUS
    <3>1. PICK k \in 1 .. Len(s) : o[k] = i
        BY <1>4 DEF Picks
    <3>2. k \in DOMAIN s
        BY <1>4
    <3> QED BY <1>6, <3>1, <3>2 DEF Range
  <2> QED BY <2>1, <2>2
<1>8. high = {i \in DOMAIN hs : cs[i].tier = "High"}
    BY <1>1 DEF high
<1>9. Len(s) = Cardinality(high) /\ IsFiniteSet(high)
    BY <1>4 DEF Picks
<1>10. \A k \in DOMAIN s : /\ s[k].at \in DOMAIN hs /\ s[k].file = hs[s[k].at].file
                           /\ s[k].changes = hs[s[k].at].changes
    BY <1>1, <1>5, <1>6
<1> QED BY <1>4, <1>7, <1>8, <1>9, <1>10 DEF cs, s

\* The k-th card is of the k-th hunk of the ranking.
LEMMA CardOfHunk ==
    ASSUME NEW hs, Anchored(hs), NEW found
    PROVE  /\ DOMAIN buildDeck(hs, found) = DOMAIN hs
           /\ \A k \in DOMAIN hs :
                 LET h == hs[Ranking(hs)[k]] IN
                 /\ Ranking(hs)[k] \in DOMAIN hs /\ h \in Hunk
                 /\ buildDeck(hs, found)[k] = CardOf(h, TiersOf(hs)[k], found)
<1> DEFINE o == Ranking(hs)
           ranked == rankHunks(hs)
           pos(k) == <<ranked[k].file, ranked[k].side, ranked[k].line>>
<1>1. hs \in Seq(Hunk) /\ DOMAIN hs \in SUBSET Nat
    BY Hunks DEF Anchored
<1>2. DOMAIN ranked = DOMAIN hs
    BY <1>1, RankedHunk
<1>3. ASSUME NEW k \in DOMAIN hs
      PROVE  /\ o[k] \in DOMAIN hs /\ hs[o[k]] \in Hunk /\ hunkByPos(hs, pos(k)) = hs[o[k]]
             /\ ranked[k].tier = TiersOf(hs)[k]
  <2> DEFINE h == hs[o[k]]
             r == ranked[k]
  <2>1. /\ o[k] \in DOMAIN hs /\ h \in Hunk
        /\ r = [file |-> h.file, side |-> side(h), line |-> line(h), tier |-> TiersOf(hs)[k]]
      BY <1>1, RankedHunk
  <2> HIDE DEF r
  <2>2. <<r.file, r.side, r.line>> = Key(h) /\ r.tier = TiersOf(hs)[k]
      BY <2>1 DEF Key
  <2>3. {i \in DOMAIN hs : Key(hs[i]) = Key(h)} = {o[k]}
      BY <2>1 DEF Anchored
  <2>4. hunkByPos(hs, Key(h)) = hs[o[k]]
      BY <1>1, <2>1, <2>3, OneMax DEF hunkByPos
  <2> QED BY <2>1, <2>2, <2>4 DEF r
<1>4. buildDeck(hs, found) =
        [k \in DOMAIN ranked |-> CardOf(hunkByPos(hs, pos(k)), ranked[k].tier, found)]
    BY DEF buildDeck
<1> HIDE DEF ranked, pos, o
<1> QED BY <1>2, <1>3, <1>4 DEF o

-----------------------------------------------------------------------------
(* The runs.  A row of the cache is of the change it is kept for, a result *)
(* is the row of its chunk, and the deck is of the diff and the results.   *)

\* The diff of the run was fetched by one.
Fetched == diff = << >> \/ \E n \in 1 .. MaxRuns : diff \in Diffs[n]

Rows ==
    \A p \in DOMAIN cache :
        cache[p] \in Review /\ fingerprintChunk(cache[p].file, cache[p].changes) = p

Pass ==
    /\ selected = selectReviewChunks(buildReviewChunks(diff))
    /\ results \in Seq(Result) /\ Len(results) <= Len(selected)
    /\ \A r \in DOMAIN results :
          LET print == FingerprintOf(results[r].chunk) IN
          /\ results[r].chunk = selected[r]
          /\ print \in DOMAIN cache /\ cache[print] = results[r].review

Outcome ==
    /\ \A f \in DOMAIN findings : findings[f].fingerprint \in Path \X Seq(Change)
    /\ runs \in 0 .. MaxRuns /\ pc \in {"idle", "review", "deck"}
    /\ runs = 0 => deck = << >>
    /\ Done => deck = buildDeck(diff, toFindings(results))
    /\ pc # "idle" => runs > 0

DeckInv == Fetched /\ Rows /\ Pass /\ Outcome

LEMMA FetchedIsAnchored == Fetched => Anchored(diff)
<1>1. Anchored(<< >>)
    BY DEF Anchored
<1>2. ASSUME NEW n \in 1 .. MaxRuns, diff \in Diffs[n] PROVE Anchored(diff)
  <2>1. diff \in Seq(Hunk)
      BY <1>2, DiffAssumption
  <2>2. ASSUME NEW i \in DOMAIN diff, NEW j \in DOMAIN diff, Key(diff[i]) = Key(diff[j])
        PROVE  i = j
    <3>1. /\ diff[i].file = diff[j].file /\ side(diff[i]) = side(diff[j])
          /\ line(diff[i]) = line(diff[j])
        BY <2>2 DEF Key
    <3>2. added(diff[i]) > 0 <=> added(diff[j]) > 0
        BY <3>1 DEF side
    <3>3. IF added(diff[i]) > 0 THEN diff[i].newStart = diff[j].newStart
                                ELSE diff[i].oldStart = diff[j].oldStart
        BY <3>1, <3>2 DEF line
    <3> QED BY <1>2, <3>1, <3>2, <3>3, AnchorAssumption
  <2> QED BY <2>1, <2>2 DEF Anchored
<1> QED BY <1>1, <1>2 DEF Fetched

LEMMA FetchedIsNoted == Fetched => \A i \in DOMAIN diff : NotesInPlace(diff[i])
    BY NoteAssumption DEF Fetched

LEMMA InitDeck == ASSUME Init PROVE DeckInv
<1>1. Fetched /\ Rows /\ Outcome
    BY DiffAssumption DEF Init, Fetched, Rows, Outcome, Done
<1>2. Anchored(diff) /\ diff = << >>
    BY <1>1, FetchedIsAnchored DEF Init
<1>3. selectReviewChunks(buildReviewChunks(diff)) = << >>
  <2> DEFINE cs == buildReviewChunks(diff)
             high == {i \in DOMAIN cs : cs[i].tier = "High"}
             o == Ascending(high)
  <2>1. cs \in Seq(Chunk) /\ DOMAIN cs = {}
      BY <1>2, ChunksOfDiff
  <2>2. high = {} /\ high \in SUBSET DOMAIN cs
      BY <2>1
  <2>3. Sublist(cs, high) = selectReviewChunks(cs)
      BY DEF selectReviewChunks
  <2> HIDE DEF cs, high
  <2>4. Sublist(cs, high) \in Seq(Chunk) /\ Len(Sublist(cs, high)) = Cardinality(high)
      BY <2>1, <2>2, SublistElements DEF Picks
  <2>5. Cardinality(high) = 0
      BY <2>2, FS_EmptySet
  <2> QED BY <2>3, <2>4, <2>5 DEF cs
<1>4. Pass
    BY <1>3 DEF Init, Pass
<1> QED BY <1>1, <1>4 DEF DeckInv

LEMMA RunKeeps == ASSUME DeckInv, Run PROVE DeckInv'
<1>1. PICK hs \in Diffs[runs + 1] : diff' = hs /\ selected' = selectReviewChunks(buildReviewChunks(hs))
    BY DEF Run
<1>2. /\ runs \in 0 .. MaxRuns /\ runs < MaxRuns /\ runs' = runs + 1 /\ MaxRuns \in Nat
      /\ pc' = "review" /\ results' = << >> /\ UNCHANGED <<findings, deck>>
    BY DiffAssumption DEF Run, DeckInv, Outcome
<1>3. Fetched'
    BY <1>1, <1>2 DEF Fetched
<1>4. \A p \in DOMAIN cache' : p \in DOMAIN cache /\ cache'[p] = cache[p]
    BY DEF Run
<1>5. Rows'
    BY <1>4 DEF DeckInv, Rows
<1>6. Pass'
  <2>1. Anchored(diff)'
      BY <1>3, FetchedIsAnchored, PTL
  <2>2. selected' \in Seq(Chunk)
      BY <1>1, <2>1, SelectedChunks DEF Anchored
  <2> QED BY <1>1, <1>2, <2>2 DEF Pass
<1>7. Outcome'
    BY <1>2 DEF DeckInv, Outcome, Done
<1> QED BY <1>3, <1>5, <1>6, <1>7 DEF DeckInv

\* The chunk the pass is at is of the hunk it was made of.
LEMMA NextIsChunk ==
    ASSUME DeckInv, Pending
    PROVE  /\ NextChunk \in Chunk /\ FingerprintOf(NextChunk) \in Path \X Seq(Change)
           /\ NextChunk = selected[Len(results) + 1] /\ Len(results) + 1 <= Len(selected)
           /\ Len(results) \in Nat /\ selected \in Seq(Chunk)
<1>1. Anchored(diff)
    BY FetchedIsAnchored DEF DeckInv
<1>2. selected \in Seq(Chunk) /\ results \in Seq(Result) /\ Len(results) < Len(selected)
    BY <1>1, SelectedChunks DEF DeckInv, Pass, Pending
<1>3. Len(results) + 1 \in 1 .. Len(selected) /\ Len(results) \in Nat
    BY <1>2
<1>4. NextChunk \in Chunk
    BY <1>2, <1>3 DEF NextChunk
<1>5. NextChunk.file \in Path /\ NextChunk.changes \in Seq(Change)
    BY <1>4 DEF Chunk
<1> QED BY <1>2, <1>3, <1>4, <1>5, FingerprintType DEF NextChunk, FingerprintOf

\* A review that is the row of its chunk is a result.
LEMMA ResultKeeps ==
    ASSUME DeckInv, Pending, NEW review \in Review,
           results' = Append(results, [chunk |-> NextChunk, review |-> review]),
           FingerprintOf(NextChunk) \in DOMAIN cache', cache'[FingerprintOf(NextChunk)] = review,
           \A p \in DOMAIN cache : p \in DOMAIN cache' /\ cache'[p] = cache[p],
           UNCHANGED <<diff, selected>>
    PROVE  Pass'
<1> DEFINE new == [chunk |-> NextChunk, review |-> review]
           n == Len(results)
<1>1. /\ NextChunk \in Chunk /\ NextChunk = selected[n + 1] /\ n + 1 <= Len(selected) /\ n \in Nat
    BY NextIsChunk
<1>2. new \in Result /\ new.chunk = NextChunk /\ new.review = review
    BY <1>1 DEF Result
<1> HIDE DEF new
<1>3. /\ results \in Seq(Result) /\ results' = Append(results, new)
      /\ selected = selectReviewChunks(buildReviewChunks(diff))
    BY DEF DeckInv, Pass, new
<1>4. /\ results' \in Seq(Result) /\ Len(results') = n + 1 /\ results'[n + 1] = new
      /\ \A r \in 1 .. n : results'[r] = results[r]
    BY <1>2, <1>3
<1>5. ASSUME NEW r \in DOMAIN results'
      PROVE  /\ results'[r].chunk = selected[r]
             /\ FingerprintOf(results'[r].chunk) \in DOMAIN cache'
             /\ cache'[FingerprintOf(results'[r].chunk)] = results'[r].review
  <2>1. CASE r = n + 1
      BY <1>1, <1>2, <1>4, <2>1
  <2>2. CASE r \in 1 .. n
    <3>1. r \in DOMAIN results /\ results'[r] = results[r]
        BY <1>3, <1>4, <2>2
    <3>2. /\ results[r].chunk = selected[r] /\ FingerprintOf(results[r].chunk) \in DOMAIN cache
          /\ cache[FingerprintOf(results[r].chunk)] = results[r].review
        BY <3>1 DEF DeckInv, Pass
    <3> QED BY <3>1, <3>2
  <2>3. r \in 1 .. n + 1
      BY <1>4
  <2> QED BY <1>1, <2>1, <2>2, <2>3
<1>6. selected' = selectReviewChunks(buildReviewChunks(diff))' /\ Len(results') <= Len(selected')
    BY <1>1, <1>3, <1>4
<1> QED BY <1>4, <1>5, <1>6 DEF Pass, FingerprintOf

LEMMA CacheHitKeeps == ASSUME DeckInv, CacheHit PROVE DeckInv'
<1> DEFINE print == FingerprintOf(NextChunk)
<1>1. /\ Pending /\ print \in DOMAIN cache
      /\ results' = Append(results, [chunk |-> NextChunk, review |-> cache[print]])
      /\ UNCHANGED <<runs, pc, diff, selected, cache, findings, deck>>
    BY DEF CacheHit
<1>2. cache[print] \in Review
    BY <1>1 DEF DeckInv, Rows
<1>3. Pass'
    BY <1>1, <1>2, ResultKeeps
<1>4. Fetched' /\ Rows'
    BY <1>1 DEF DeckInv, Fetched, Rows
<1>5. Outcome'
    BY <1>1 DEF DeckInv, Outcome, Done, Pending
<1> QED BY <1>3, <1>4, <1>5 DEF DeckInv

LEMMA ReviewChunkKeeps == ASSUME DeckInv, reviewChunk PROVE DeckInv'
<1> DEFINE print == FingerprintOf(NextChunk)
           review == [file |-> NextChunk.file, changes |-> NextChunk.changes]
<1>1. /\ Pending /\ print \notin DOMAIN cache
      /\ results' = Append(results, [chunk |-> NextChunk, review |-> review])
      /\ cache' = [p \in DOMAIN cache \cup {print} |-> IF p = print THEN review ELSE cache[p]]
      /\ UNCHANGED <<runs, pc, diff, selected, findings, deck>>
    BY DEF reviewChunk
<1>2. /\ review \in Review /\ review.file = NextChunk.file /\ review.changes = NextChunk.changes
      /\ fingerprintChunk(review.file, review.changes) = print
    BY <1>1, NextIsChunk DEF Review, Chunk, FingerprintOf
<1> HIDE DEF review, print
<1>3. /\ print \in DOMAIN cache' /\ cache'[print] = review
      /\ \A p \in DOMAIN cache : p \in DOMAIN cache' /\ cache'[p] = cache[p]
      /\ \A p \in DOMAIN cache' : p = print \/ p \in DOMAIN cache
    BY <1>1
<1>4. Pass'
    BY <1>1, <1>2, <1>3, ResultKeeps DEF print
<1>5. Rows'
    BY <1>2, <1>3 DEF DeckInv, Rows
<1>6. Fetched' /\ Outcome'
    BY <1>1 DEF DeckInv, Fetched, Outcome, Done, Pending
<1> QED BY <1>4, <1>5, <1>6 DEF DeckInv

\* The findings of the results have the fingerprints of their chunks.
LEMMA FindingsOfResults ==
    ASSUME NEW rs \in Seq(Result)
    PROVE  /\ DOMAIN toFindings(rs) = DOMAIN rs /\ DOMAIN rs = 1 .. Len(rs) /\ Len(rs) \in Nat
           /\ \A f \in DOMAIN rs :
                 /\ rs[f] \in Result
                 /\ toFindings(rs)[f].fingerprint = FingerprintOf(rs[f].chunk)
                 /\ toFindings(rs)[f].review = rs[f].review
                 /\ toFindings(rs)[f].fingerprint \in Path \X Seq(Change)
<1>1. \A f \in DOMAIN rs : rs[f] \in Result /\ rs[f].chunk \in Chunk
  <2>1. \A f \in DOMAIN rs : rs[f] \in Result
      OBVIOUS
  <2>2. \A r \in Result : r.chunk \in Chunk
      BY DEF Result
  <2> QED BY <2>1, <2>2
<1>2. \A c \in Chunk : c.file \in Path /\ c.changes \in Seq(Change)
    BY DEF Chunk
<1>3. \A c \in Chunk : FingerprintOf(c) \in Path \X Seq(Change)
    BY <1>2, FingerprintType DEF FingerprintOf
<1>4. /\ DOMAIN toFindings(rs) = DOMAIN rs
      /\ \A f \in DOMAIN rs : /\ toFindings(rs)[f].fingerprint = FingerprintOf(rs[f].chunk)
                              /\ toFindings(rs)[f].review = rs[f].review
    BY DEF toFindings, FingerprintOf
<1> QED BY <1>1, <1>3, <1>4

LEMMA EndKeeps == ASSUME DeckInv, PassFails \/ replaceForPr \/ persistDeck PROVE DeckInv'
<1>1. UNCHANGED <<runs, diff, selected, cache>>
    BY DEF PassFails, replaceForPr, persistDeck
<1>2. Fetched' /\ Rows'
    BY <1>1 DEF DeckInv, Fetched, Rows
<1>3. CASE PassFails
  <2>1. results' = << >> /\ UNCHANGED <<findings, deck>> /\ pc = "review" /\ pc' = "deck"
      BY <1>3 DEF PassFails
  <2>2. selected \in Seq(Chunk)
      BY SelectedChunks, FetchedIsAnchored DEF DeckInv, Pass
  <2>3. Pass'
      BY <1>1, <2>1, <2>2 DEF DeckInv, Pass
  <2>4. Outcome'
      BY <1>1, <2>1 DEF DeckInv, Outcome, Done
  <2> QED BY <1>2, <2>3, <2>4 DEF DeckInv
<1>4. CASE replaceForPr
  <2>1. /\ findings' = toFindings(results) /\ UNCHANGED <<results, deck>>
        /\ pc = "review" /\ pc' = "deck"
      BY <1>4 DEF replaceForPr
  <2>2. Pass'
      BY <1>1, <2>1 DEF DeckInv, Pass
  <2>3. results \in Seq(Result)
      BY DEF DeckInv, Pass
  <2>4. \A f \in DOMAIN findings' : findings'[f].fingerprint \in Path \X Seq(Change)
      BY <2>1, <2>3, FindingsOfResults
  <2>5. Outcome'
      BY <1>1, <2>1, <2>4 DEF DeckInv, Outcome, Done
  <2> QED BY <1>2, <2>2, <2>5 DEF DeckInv
<1>5. CASE persistDeck
  <2>1. /\ deck' = buildDeck(diff, toFindings(results)) /\ UNCHANGED <<results, findings>>
        /\ pc = "deck" /\ pc' = "idle"
      BY <1>5 DEF persistDeck
  <2>2. Pass'
      BY <1>1, <2>1 DEF DeckInv, Pass
  <2>3. Outcome'
      BY <1>1, <2>1 DEF DeckInv, Outcome, Done
  <2> QED BY <1>2, <2>2, <2>3 DEF DeckInv
<1> QED BY <1>3, <1>4, <1>5

LEMMA DeckInductive == Spec => []DeckInv
<1>1. Init => DeckInv
    BY InitDeck
<1>2. DeckInv /\ [Next]_vars => DeckInv'
  <2>1. DeckInv /\ Next => DeckInv'
      BY RunKeeps, CacheHitKeeps, ReviewChunkKeeps, EndKeeps DEF Next
  <2>2. DeckInv /\ UNCHANGED vars => DeckInv'
      BY DEF vars, DeckInv, Fetched, Rows, Pass, Outcome, Done
  <2> QED BY <2>1, <2>2
<1> QED BY <1>1, <1>2, PTL DEF Spec

\* The largest of some places.
LEMMA Largest ==
    ASSUME NEW n \in Nat, NEW S \in SUBSET (1 .. n), S # {}
    PROVE  Max(S) \in S
<1> DEFINE rest == {n - x : x \in S}
<1>1. rest \in SUBSET Nat /\ rest # {}
  <2>1. \A x \in S : x \in 1 .. n /\ n - x \in Nat
      OBVIOUS
  <2> QED BY <2>1
<1>2. PICK y \in rest : \A z \in rest : y <= z
    BY <1>1, Least
<1>3. PICK x \in S : y = n - x
    BY <1>2
<1>4. \A z \in S : x >= z
  <2> SUFFICES ASSUME NEW z \in S PROVE x >= z
      OBVIOUS
  <2>1. n - z \in rest
      OBVIOUS
  <2>2. n - x <= n - z
      BY <1>2, <1>3, <2>1
  <2> QED BY <2>2
<1> QED BY <1>4 DEF Max

\* A card shows the review that the cache has for its fingerprint, if any.
LEMMA ReviewOfCard ==
    ASSUME DeckInv, NEW print
    PROVE  LET found == findingByFingerprint(toFindings(results), print) IN
           /\ found # NoReview => print \in DOMAIN cache /\ found = cache[print]
           /\ \A r \in DOMAIN results :
                 print = FingerprintOf(results[r].chunk) => found = results[r].review
<1> DEFINE fs == toFindings(results)
           match == {f \in DOMAIN fs : fs[f].fingerprint = print}
           found == findingByFingerprint(fs, print)
<1>1. /\ results \in Seq(Result)
      /\ \A r \in DOMAIN results : /\ FingerprintOf(results[r].chunk) \in DOMAIN cache
                                   /\ cache[FingerprintOf(results[r].chunk)] = results[r].review
    BY DEF DeckInv, Pass
<1>2. /\ DOMAIN fs = DOMAIN results /\ DOMAIN results = 1 .. Len(results) /\ Len(results) \in Nat
      /\ \A f \in DOMAIN results : /\ fs[f].fingerprint = FingerprintOf(results[f].chunk)
                                   /\ fs[f].review = results[f].review
    BY <1>1, FindingsOfResults
<1>3. found = IF match = {} THEN NoReview ELSE fs[Max(match)].review
    BY DEF findingByFingerprint
<1> HIDE DEF fs, found
<1>4. match # {} => Max(match) \in match
  <2>1. match \in SUBSET (1 .. Len(results))
      BY <1>2
  <2> HIDE DEF match
  <2> QED BY <1>2, <2>1, Largest
<1>5. match # {} => print \in DOMAIN cache /\ found = cache[print]
  <2> SUFFICES ASSUME match # {} PROVE print \in DOMAIN cache /\ found = cache[print]
      OBVIOUS
  <2>1. PICK f \in DOMAIN results : f = Max(match) /\ fs[f].fingerprint = print
      BY <1>2, <1>4
  <2>2. found = fs[f].review
      BY <1>3, <2>1
  <2> QED BY <1>1, <1>2, <2>1, <2>2
<1>6. match = {} => found = NoReview
    BY <1>3
<1>7. ASSUME NEW r \in DOMAIN results, print = FingerprintOf(results[r].chunk)
      PROVE  found = results[r].review
  <2>1. r \in match
      BY <1>2, <1>7
  <2> QED BY <1>1, <1>5, <1>7, <2>1
<1> QED BY <1>5, <1>6, <1>7 DEF found, fs

\* Every review of the pass is on the card of its hunk (the join of findings and
\* cards by fingerprint, hunk.ts).
THEOREM EveryFindingShown == Spec => []NoFindingLost
<1>1. ASSUME DeckInv PROVE NoFindingLost
  <2> SUFFICES ASSUME Done, NEW r \in DOMAIN results
               PROVE  \E k \in DOMAIN deck : /\ Ranking(diff)[k] = results[r].chunk.at
                                             /\ deck[k].review = results[r].review
      BY DEF NoFindingLost
  <2> DEFINE c == results[r].chunk
             fs == toFindings(results)
  <2>1. /\ Anchored(diff) /\ diff \in Seq(Hunk) /\ deck = buildDeck(diff, fs)
        /\ results \in Seq(Result) /\ Len(results) <= Len(selected) /\ c = selected[r]
        /\ selected = selectReviewChunks(buildReviewChunks(diff))
      BY <1>1, FetchedIsAnchored DEF DeckInv, Outcome, Pass, Anchored
  <2>2. r \in DOMAIN selected
    <3>1. selected \in Seq(Chunk)
        BY <2>1, SelectedChunks
    <3> QED BY <2>1, <3>1
  <2>3. c.at \in DOMAIN diff /\ c.file = diff[c.at].file /\ c.changes = diff[c.at].changes
    <3>1. \A k \in DOMAIN selected : /\ selected[k].at \in DOMAIN diff
                                     /\ selected[k].file = diff[selected[k].at].file
                                     /\ selected[k].changes = diff[selected[k].at].changes
        BY <2>1, SelectedChunks
    <3> QED BY <2>1, <2>2, <3>1
  <2>4. PICK k \in DOMAIN diff : Ranking(diff)[k] = c.at
      BY <2>1, <2>3, PlaceOfHunk
  <2>5. k \in DOMAIN deck /\ deck[k] = CardOf(diff[c.at], TiersOf(diff)[k], fs)
      BY <2>1, <2>4, CardOfHunk
  <2>6. deck[k].review = findingByFingerprint(fs, FingerprintOf(c))
      BY <2>3, <2>5 DEF CardOf, FingerprintOf
  <2>7. findingByFingerprint(fs, FingerprintOf(c)) = results[r].review
      BY <1>1, ReviewOfCard
  <2> QED BY <2>4, <2>5, <2>6, <2>7
<1> QED BY <1>1, DeckInductive, PTL

\* No line of a change is printed like a header of a file.
Plain(changes) ==
    \A l \in DOMAIN changes : TextInfo[changes[l].text].header # changes[l].type

NoHeaders == \A n \in 1 .. MaxRuns : \A hs \in Diffs[n] : \A i \in DOMAIN hs : Plain(hs[i].changes)

PlainRows == \A p \in DOMAIN cache : Plain(cache[p].changes)

LEMMA PlainRowsKeep == ASSUME NoHeaders, DeckInv, PlainRows, [Next]_vars PROVE PlainRows'
<1>1. CASE reviewChunk
  <2> DEFINE print == FingerprintOf(NextChunk)
             review == [file |-> NextChunk.file, changes |-> NextChunk.changes]
  <2>1. /\ Pending
        /\ cache' = [p \in DOMAIN cache \cup {print} |-> IF p = print THEN review ELSE cache[p]]
      BY <1>1 DEF reviewChunk
  <2>2. Anchored(diff) /\ selected = selectReviewChunks(buildReviewChunks(diff))
      BY FetchedIsAnchored DEF DeckInv, Pass
  <2>3. /\ Len(results) + 1 \in DOMAIN selected /\ NextChunk = selected[Len(results) + 1]
      BY <2>1, NextIsChunk
  <2>4. \A k \in DOMAIN selected : /\ selected[k].at \in DOMAIN diff
                                   /\ selected[k].changes = diff[selected[k].at].changes
      BY <2>2, SelectedChunks
  <2>5. PICK i \in DOMAIN diff : NextChunk.changes = diff[i].changes
      BY <2>3, <2>4
  <2>6. Plain(diff[i].changes)
      BY DEF DeckInv, Fetched, NoHeaders
  <2>7. review.changes = NextChunk.changes
      OBVIOUS
  <2> HIDE DEF print, review
  <2> QED BY <2>1, <2>5, <2>6, <2>7 DEF PlainRows
<1>2. CASE Run
    BY <1>2 DEF Run, PlainRows
<1>3. CASE CacheHit \/ PassFails \/ replaceForPr \/ persistDeck \/ UNCHANGED vars
    BY <1>3 DEF CacheHit, PassFails, replaceForPr, persistDeck, vars, PlainRows
<1> QED BY <1>1, <1>2, <1>3 DEF Next

\* Without such lines the fingerprint is the substance of a change.
LEMMA PlainSubstance ==
    ASSUME NEW file, NEW changes, Plain(changes)
    PROVE  Substance(file, changes) = fingerprintChunk(file, changes)
<1>1. Counted(changes) = {i \in DOMAIN changes : /\ changes[i].type # "normal"
                                                 /\ ~ TextInfo[changes[i].text].blank
                                                 /\ ~ IsNote(changes[i])}
    BY DEF Counted, Plain
<1> QED BY <1>1 DEF Substance, fingerprintChunk

\* A card never shows a review of another change, one of an earlier run
\* included, unless a line looks like a header (fingerprintChunk).
THEOREM ReviewsOfOwnChange ==
    ASSUME NoHeaders
    PROVE  Spec => []ReviewIsOfItsChange
<1>1. ASSUME DeckInv, PlainRows PROVE ReviewIsOfItsChange
  <2> SUFFICES ASSUME Done, NEW k \in DOMAIN deck, deck[k].review # NoReview
               PROVE  LET h == diff[Ranking(diff)[k]] IN
                      Substance(deck[k].review.file, deck[k].review.changes)
                        = Substance(h.file, h.changes)
      BY DEF ReviewIsOfItsChange
  <2> DEFINE h == diff[Ranking(diff)[k]]
             print == fingerprintChunk(h.file, h.changes)
             fs == toFindings(results)
  <2>1. Anchored(diff) /\ deck = buildDeck(diff, fs)
      BY <1>1, FetchedIsAnchored DEF DeckInv, Outcome
  <2>2. /\ Ranking(diff)[k] \in DOMAIN diff
        /\ deck[k].review = findingByFingerprint(fs, print)
    <3>1. k \in DOMAIN diff
        BY <2>1, CardOfHunk
    <3>2. /\ Ranking(diff)[k] \in DOMAIN diff
          /\ deck[k] = CardOf(h, TiersOf(diff)[k], fs)
        BY <2>1, <3>1, CardOfHunk
    <3> HIDE DEF h, fs
    <3> QED BY <3>2 DEF CardOf, h
  <2>3. print \in DOMAIN cache /\ deck[k].review = cache[print]
      BY <1>1, <2>2, ReviewOfCard
  <2>4. /\ fingerprintChunk(cache[print].file, cache[print].changes) = print
        /\ Plain(cache[print].changes)
      BY <1>1, <2>3 DEF DeckInv, Rows, PlainRows
  <2>5. Plain(h.changes)
      BY <1>1, <2>2 DEF DeckInv, Fetched, NoHeaders
  <2> HIDE DEF h
  <2> QED BY <2>3, <2>4, <2>5, PlainSubstance DEF h
<1>2. Init => PlainRows
    BY DEF Init, PlainRows
<1>3. DeckInv /\ PlainRows /\ [Next]_vars => PlainRows'
    BY PlainRowsKeep
<1> QED BY <1>1, <1>2, <1>3, DeckInductive, PTL DEF Spec

-----------------------------------------------------------------------------
(* What is read and listed first.                                          *)

\* The real changes before a hunk are among those before a later one.
LEMMA RealBeforeGrows ==
    ASSUME NEW hs \in Seq(Hunk), NEW k \in DOMAIN hs, NEW l \in DOMAIN hs, l <= k
    PROVE  Cardinality(RealBefore(hs, l)) <= Cardinality(RealBefore(hs, k))
<1>1. k \in Nat /\ l \in Nat
    BY Hunks
<1>2. RealBefore(hs, l) \subseteq RealBefore(hs, k)
    BY <1>1 DEF RealBefore
<1> QED BY <1>2, RealChanges, FS_Subset

\* The first real change of the ranking is High.
LEMMA SomeHigh ==
    ASSUME NEW hs \in Seq(Hunk), Candidates(hs) # {}
    PROVE  \E k \in DOMAIN hs : TiersOf(hs)[k] = "High"
<1> DEFINE S == {k \in DOMAIN hs : Ranking(hs)[k] \in Candidates(hs)}
<1>1. PICK i \in Candidates(hs) : TRUE
    OBVIOUS
<1>2. i \in DOMAIN hs
    BY DEF Candidates
<1>3. \E k \in DOMAIN hs : Ranking(hs)[k] = i
    BY <1>2, PlaceOfHunk
<1>4. S \in SUBSET Nat /\ S # {}
    BY <1>3, Hunks
<1>5. PICK k \in S : \A l \in S : k <= l
    BY <1>4, Least
<1>6. RealBefore(hs, k) = {}
  <2> SUFFICES ASSUME NEW l \in 1 .. k - 1, Ranking(hs)[l] \in Candidates(hs) PROVE FALSE
      BY DEF RealBefore
  <2>1. k \in 1 .. Len(hs) /\ Len(hs) \in Nat /\ DOMAIN hs = 1 .. Len(hs)
      BY Hunks
  <2>2. l \in DOMAIN hs /\ l < k
      BY <2>1
  <2> QED BY <1>5, <2>1, <2>2
<1>7. Cardinality(RealBefore(hs, k)) = 0
    BY <1>6, FS_EmptySet
<1>8. 0 < highCount(Cardinality(Candidates(hs)))
  <2> DEFINE n == Cardinality(Candidates(hs))
  <2>1. n \in Nat
      BY RealChanges
  <2> HIDE DEF n
  <2>2. highCount(n) \in Nat /\ highCount(n) >= 1
      BY <2>1, HighCount
  <2> QED BY <2>2 DEF n
<1>9. k \in DOMAIN hs /\ Ranking(hs)[k] \in Candidates(hs)
    OBVIOUS
<1>10. TiersOf(hs)[k] = "High" <=>
          /\ Ranking(hs)[k] \in Candidates(hs)
          /\ Cardinality(RealBefore(hs, k)) < highCount(Cardinality(Candidates(hs)))
    BY <1>9, TierInRanking
<1> QED BY <1>7, <1>8, <1>9, <1>10

\* The tiers go down along the real changes of the ranking.
LEMMA TiersGoDown ==
    ASSUME NEW hs \in Seq(Hunk), NEW k \in DOMAIN hs, NEW l \in DOMAIN hs, l <= k,
           Ranking(hs)[l] \in Candidates(hs)
    PROVE  /\ TiersOf(hs)[k] = "High" => TiersOf(hs)[l] = "High"
           /\ TiersOf(hs)[k] = "Medium" => TiersOf(hs)[l] \in {"High", "Medium"}
<1> DEFINE n == Cardinality(Candidates(hs))
           here == Cardinality(RealBefore(hs, l))
           there == Cardinality(RealBefore(hs, k))
           high == highCount(n)
           medium == medCount(n)
<1>1. here \in Nat /\ there \in Nat /\ here <= there
    BY RealChanges, RealBeforeGrows
<1>2. high \in Nat /\ medium \in Nat
  <2>1. n \in Nat
      BY RealChanges
  <2> HIDE DEF n
  <2> QED BY <2>1, HighCount
<1>3. /\ TiersOf(hs)[l] = "High" <=> here < high
      /\ TiersOf(hs)[l] = "Medium" <=> here >= high /\ here < high + medium
    BY TierInRanking
<1>4. /\ TiersOf(hs)[k] = "High" => there < high
      /\ TiersOf(hs)[k] = "Medium" => there < high + medium
    BY TierInRanking
<1> HIDE DEF n, here, there, high, medium
<1> QED BY <1>1, <1>2, <1>3, <1>4

\* Hunks that come before a hunk of S, and are real changes, are in S.
AreFirst(S, hs) ==
    /\ S \subseteq Candidates(hs)
    /\ Candidates(hs) # {} => S # {}
    /\ \A i \in S, j \in Candidates(hs) : Before(hs, j, i) => j \in S

\* A hunk that comes before another one has a place before it.
LEMMA PlacedBefore ==
    ASSUME NEW hs \in Seq(Hunk), NEW k \in DOMAIN hs, NEW j \in DOMAIN hs,
           Before(hs, j, Ranking(hs)[k])
    PROVE  \E l \in DOMAIN hs : Ranking(hs)[l] = j /\ l < k
<1>1. PICK l \in DOMAIN hs : Ranking(hs)[l] = j
    BY PlaceOfHunk
<1> QED BY <1>1, RankingOfHunks

\* The pass reads the first of the real changes.
LEMMA ReadFirst ==
    ASSUME NEW hs, Anchored(hs)
    PROVE  AreFirst({c.at : c \in Range(selectReviewChunks(buildReviewChunks(hs)))}, hs)
<1> DEFINE cs == buildReviewChunks(hs)
           high == {i \in DOMAIN hs : cs[i].tier = "High"}
           o == Ranking(hs)
<1>1. hs \in Seq(Hunk)
    BY DEF Anchored
<1>2. {c.at : c \in Range(selectReviewChunks(cs))} = high
    BY SelectedChunks
<1>3. \A k \in DOMAIN hs : o[k] \in DOMAIN hs /\ cs[o[k]].tier = TiersOf(hs)[k]
    BY <1>1, ChunksOfDiff, RankedHunk
<1>4. \A k \in DOMAIN hs : TiersOf(hs)[k] = "High" => o[k] \in Candidates(hs)
    BY <1>1, TierInRanking
<1> HIDE DEF cs, o
<1>5. ASSUME NEW i \in high PROVE \E k \in DOMAIN hs : o[k] = i /\ TiersOf(hs)[k] = "High"
  <2>1. PICK k \in DOMAIN hs : o[k] = i
      BY <1>1, PlaceOfHunk DEF o
  <2> QED BY <1>3, <2>1
<1>6. high \subseteq Candidates(hs)
    BY <1>4, <1>5
<1>7. Candidates(hs) # {} => high # {}
  <2> SUFFICES ASSUME Candidates(hs) # {} PROVE high # {}
      OBVIOUS
  <2>1. PICK k \in DOMAIN hs : TiersOf(hs)[k] = "High"
      BY <1>1, SomeHigh
  <2> QED BY <1>3, <2>1
<1>8. ASSUME NEW i \in high, NEW j \in Candidates(hs), Before(hs, j, i) PROVE j \in high
  <2>1. PICK k \in DOMAIN hs : o[k] = i /\ TiersOf(hs)[k] = "High"
      BY <1>5
  <2>2. j \in DOMAIN hs
      BY DEF Candidates
  <2>3. PICK l \in DOMAIN hs : o[l] = j /\ l < k
      BY <1>1, <1>8, <2>1, <2>2, PlacedBefore DEF o
  <2>4. k \in Nat /\ l \in Nat
      BY <1>1, Hunks
  <2>5. TiersOf(hs)[l] = "High"
      BY <1>1, <2>1, <2>3, <2>4, TiersGoDown DEF o
  <2> QED BY <1>3, <2>3, <2>5
<1> QED BY <1>2, <1>6, <1>7, <1>8 DEF AreFirst, cs

LEMMA RankedIsSeq ==
    ASSUME NEW hs \in Seq(Hunk)
    PROVE  rankHunks(hs) \in Seq(Range(rankHunks(hs))) /\ Len(rankHunks(hs)) = Len(hs)
<1>1. rankHunks(hs) = [k \in DOMAIN hs |-> rankHunks(hs)[k]]
    BY DEF rankHunks
<1>2. DOMAIN hs = 1 .. Len(hs) /\ Len(hs) \in Nat
    BY Hunks
<1>3. \A k \in DOMAIN hs : rankHunks(hs)[k] \in Range(rankHunks(hs))
    BY <1>1 DEF Range
<1> HIDE DEF rankHunks
<1>4. rankHunks(hs) \in [1 .. Len(hs) -> Range(rankHunks(hs))]
    BY <1>1, <1>2, <1>3
<1> QED BY <1>2, <1>4

\* The hunks p, at their places in the ranking, are those the comment lists.
ListsPlaces(ls, hs, p) ==
    /\ DOMAIN ls = 1 .. Len(ls) /\ p \in [1 .. Len(ls) -> DOMAIN hs]
    /\ \A k \in 1 .. Len(ls) :
          ls[k] = rankHunks(hs)[p[k]] /\ TiersOf(hs)[p[k]] \in {"High", "Medium"}
    /\ \A k \in 1 .. Len(ls), l \in DOMAIN hs :
          /\ l < p[k] /\ TiersOf(hs)[l] \in {"High", "Medium"}
          /\ TiersOf(hs)[p[k]] = "High" => TiersOf(hs)[l] = "High"
          => \E m \in 1 .. Len(ls) : p[m] = l
    /\ (\E l \in DOMAIN hs : TiersOf(hs)[l] = "High") => 1 \in 1 .. Len(ls)

\* The comment lists no hunk before one of a higher tier, or an earlier one of
\* its tier.
LEMMA ListedHunks ==
    ASSUME NEW hs \in Seq(Hunk)
    PROVE  \E p : ListsPlaces(renderRankedComment(rankHunks(hs)), hs, p)
<1> DEFINE ranked == rankHunks(hs)
           T == Range(ranked)
           Of_(tier) == {k \in DOMAIN ranked : ranked[k].tier = tier}
           H == Of_("High")
           M == Of_("Medium")
           A == Sublist(ranked, H)
           B == Sublist(ranked, M)
           a == Ascending(H)
           b == Ascending(M)
           n == Len(A)
           m == Len(B)
           flagged == A \o B
           cap == Min({MaxListed, Len(flagged)})
           ls == renderRankedComment(ranked)
<1>1. /\ ranked \in Seq(T) /\ DOMAIN ranked = DOMAIN hs
      /\ \A k \in DOMAIN hs : ranked[k].tier = TiersOf(hs)[k]
  <2>1. ranked \in Seq(T) /\ DOMAIN ranked = DOMAIN hs
      BY RankedIsSeq, RankedHunk
  <2> SUFFICES ASSUME NEW k \in DOMAIN hs PROVE ranked[k].tier = TiersOf(hs)[k]
      BY <2>1
  <2> DEFINE h == hs[Ranking(hs)[k]]
  <2>2. ranked[k] = [file |-> h.file, side |-> side(h), line |-> line(h),
                     tier |-> TiersOf(hs)[k]]
      BY RankedHunk
  <2> HIDE DEF h, ranked
  <2> QED BY <2>2
<1>2. ls = SubSeq(flagged, 1, cap)
    BY DEF renderRankedComment
<1>3. H \in SUBSET DOMAIN ranked /\ M \in SUBSET DOMAIN ranked
    OBVIOUS
<1>4. /\ \A k \in DOMAIN hs : k \in H <=> TiersOf(hs)[k] = "High"
      /\ \A k \in DOMAIN hs : k \in M <=> TiersOf(hs)[k] = "Medium"
      /\ H \subseteq DOMAIN hs /\ M \subseteq DOMAIN hs /\ DOMAIN hs \in SUBSET Nat
    BY <1>1, Hunks
<1> HIDE DEF ranked, Of_, H, M
<1>5. /\ A \in Seq(T) /\ Picks(A, ranked, H, a)
      /\ B \in Seq(T) /\ Picks(B, ranked, M, b)
    BY <1>1, <1>3, SublistElements
<1> HIDE DEF T, A, B, a, b, ls
<1>6. /\ n \in Nat /\ a \in [1 .. n -> H] /\ \A k \in 1 .. n : A[k] = ranked[a[k]]
      /\ \A i \in H : \E k \in 1 .. n : a[k] = i
      /\ \A k, l \in 1 .. n : a[k] < a[l] <=> k < l
    BY <1>5 DEF Picks
<1>7. /\ m \in Nat /\ b \in [1 .. m -> M] /\ \A k \in 1 .. m : B[k] = ranked[b[k]]
      /\ \A i \in M : \E k \in 1 .. m : b[k] = i
      /\ \A k, l \in 1 .. m : b[k] < b[l] <=> k < l
    BY <1>5 DEF Picks
<1>8. /\ flagged \in Seq(T) /\ Len(flagged) = n + m
      /\ \A k \in 1 .. n : flagged[k] = A[k]
      /\ \A k \in n + 1 .. n + m : flagged[k] = B[k - n]
    BY <1>5
<1>9. cap \in Nat /\ cap <= n + m /\ (n + m > 0 => cap >= 1)
  <2> HIDE DEF flagged
  <2>1. MaxListed \in Nat /\ MaxListed >= 1 /\ Len(flagged) \in Nat
      BY <1>6, <1>7, <1>8, DiffAssumption
  <2>2. cap \in {MaxListed, Len(flagged)} /\ cap <= Len(flagged)
      BY <2>1, Smaller
  <2> HIDE DEF cap
  <2> QED BY <1>6, <1>7, <1>8, <2>1, <2>2
<1> HIDE DEF n, m, flagged, cap
<1>10. ls \in Seq(T) /\ Len(ls) = cap /\ \A k \in 1 .. cap : ls[k] = flagged[k]
    BY <1>2, <1>6, <1>7, <1>8, <1>9
<1> DEFINE p == [k \in 1 .. cap |-> IF k <= n THEN a[k] ELSE b[k - n]]
<1>11. ASSUME NEW k \in 1 .. cap
       PROVE  /\ p[k] = IF k <= n THEN a[k] ELSE b[k - n]
              /\ k <= n => k \in 1 .. n /\ p[k] \in H /\ flagged[k] = ranked[p[k]]
              /\ ~(k <= n) => k - n \in 1 .. m /\ p[k] \in M /\ flagged[k] = ranked[p[k]]
  <2>1. p[k] = IF k <= n THEN a[k] ELSE b[k - n]
      OBVIOUS
  <2> HIDE DEF p
  <2>2. ASSUME k <= n PROVE k \in 1 .. n /\ p[k] \in H /\ flagged[k] = ranked[p[k]]
    <3>1. k \in 1 .. n
        BY <1>6, <1>9, <2>2
    <3> QED BY <1>6, <1>8, <2>1, <2>2, <3>1
  <2>3. ASSUME ~(k <= n)
        PROVE  k - n \in 1 .. m /\ p[k] \in M /\ flagged[k] = ranked[p[k]]
    <3>1. k - n \in 1 .. m /\ k \in n + 1 .. n + m
        BY <1>6, <1>7, <1>9, <2>3
    <3>2. p[k] = b[k - n] /\ flagged[k] = B[k - n]
        BY <1>8, <2>1, <2>3, <3>1
    <3> QED BY <1>7, <3>1, <3>2
  <2> QED BY <2>1, <2>2, <2>3
<1>12. p \in [1 .. cap -> DOMAIN hs]
  <2>1. \A k \in 1 .. cap : p[k] \in DOMAIN hs
      BY <1>4, <1>11
  <2>2. p = [k \in 1 .. cap |-> p[k]]
      OBVIOUS
  <2> HIDE DEF p
  <2> QED BY <2>1, <2>2
<1> HIDE DEF p
<1>13. ASSUME NEW k \in 1 .. cap
       PROVE  ls[k] = ranked[p[k]] /\ TiersOf(hs)[p[k]] \in {"High", "Medium"}
  <2>1. (p[k] \in H \/ p[k] \in M) /\ ls[k] = ranked[p[k]] /\ p[k] \in DOMAIN hs
      BY <1>10, <1>11, <1>12
  <2> QED BY <1>4, <2>1
<1>14. ASSUME NEW k \in 1 .. cap, NEW l \in DOMAIN hs, l < p[k],
              TiersOf(hs)[l] \in {"High", "Medium"},
              TiersOf(hs)[p[k]] = "High" => TiersOf(hs)[l] = "High"
       PROVE  \E i \in 1 .. cap : p[i] = l
  <2>1. CASE k <= n
    <3>1. k \in 1 .. n /\ p[k] \in H /\ p[k] = a[k] /\ p[k] \in DOMAIN hs
        BY <1>11, <1>12, <2>1
    <3>2. l \in H
        BY <1>4, <1>14, <3>1
    <3>3. PICK i \in 1 .. n : a[i] = l
        BY <1>6, <3>2
    <3>4. i < k
        BY <1>6, <1>14, <3>1, <3>3
    <3>5. i \in 1 .. cap /\ i <= n
        BY <1>6, <1>9, <3>1, <3>4
    <3> QED BY <1>11, <3>3, <3>5
  <2>2. CASE ~(k <= n)
    <3>1. /\ k - n \in 1 .. m /\ p[k] \in M /\ p[k] = b[k - n]
        BY <1>11, <2>2
    <3>2. CASE l \in H
      <4>1. PICK i \in 1 .. n : a[i] = l
          BY <1>6, <3>2
      <4>2. i \in 1 .. cap /\ i <= n
          BY <1>6, <1>9, <2>2, <4>1
      <4> QED BY <1>11, <4>1, <4>2
    <3>3. CASE l \in M
      <4>1. PICK i \in 1 .. m : b[i] = l
          BY <1>7, <3>3
      <4>2. i < k - n
          BY <1>7, <1>14, <3>1, <4>1
      <4>3. i + n \in 1 .. cap /\ ~(i + n <= n) /\ (i + n) - n = i
          BY <1>6, <1>7, <1>9, <4>1, <4>2
      <4>4. p[i + n] = b[(i + n) - n]
          BY <1>11, <4>3
      <4> QED BY <4>1, <4>3, <4>4
    <3> QED BY <1>4, <1>14, <3>2, <3>3
  <2> QED BY <2>1, <2>2
<1>15. ASSUME NEW l \in DOMAIN hs, TiersOf(hs)[l] = "High" PROVE 1 \in 1 .. Len(ls)
  <2>1. PICK i \in 1 .. n : a[i] = l
      BY <1>4, <1>6, <1>15
  <2>2. cap >= 1
      BY <1>6, <1>7, <1>9, <2>1
  <2> QED BY <1>9, <1>10, <2>2
<1>16. DOMAIN ls = 1 .. Len(ls)
    BY <1>10
<1>17. ListsPlaces(ls, hs, p)
    BY <1>10, <1>12, <1>13, <1>14, <1>15, <1>16 DEF ListsPlaces, ranked
<1> QED BY <1>17 DEF ls, ranked

\* The comment lists the first of the real changes.
LEMMA ListedFirst ==
    ASSUME NEW hs, Anchored(hs)
    PROVE  LET ls == renderRankedComment(rankHunks(hs)) IN
           AreFirst({i \in DOMAIN hs : \E k \in DOMAIN ls :
                        Key(hs[i]) = <<ls[k].file, ls[k].side, ls[k].line>>}, hs)
<1> DEFINE ls == renderRankedComment(rankHunks(hs))
           listed == {i \in DOMAIN hs : \E k \in DOMAIN ls :
                         Key(hs[i]) = <<ls[k].file, ls[k].side, ls[k].line>>}
           o == Ranking(hs)
<1>1. hs \in Seq(Hunk) /\ DOMAIN hs \in SUBSET Nat
    BY Hunks DEF Anchored
<1>2. PICK p : ListsPlaces(ls, hs, p)
    BY <1>1, ListedHunks
<1> HIDE DEF ls
<1>3. ASSUME NEW k \in DOMAIN ls
      PROVE  /\ k \in 1 .. Len(ls) /\ p[k] \in DOMAIN hs /\ o[p[k]] \in DOMAIN hs
             /\ <<ls[k].file, ls[k].side, ls[k].line>> = Key(hs[o[p[k]]])
             /\ TiersOf(hs)[p[k]] \in {"High", "Medium"} /\ o[p[k]] \in Candidates(hs)
  <2>1. /\ k \in 1 .. Len(ls) /\ p[k] \in DOMAIN hs /\ ls[k] = rankHunks(hs)[p[k]]
        /\ TiersOf(hs)[p[k]] \in {"High", "Medium"}
      BY <1>2 DEF ListsPlaces
  <2> DEFINE h == hs[o[p[k]]]
  <2>2. /\ o[p[k]] \in DOMAIN hs
        /\ ls[k] = [file |-> h.file, side |-> side(h), line |-> line(h),
                    tier |-> TiersOf(hs)[p[k]]]
      BY <1>1, <2>1, RankedHunk
  <2> HIDE DEF h
  <2>3. <<ls[k].file, ls[k].side, ls[k].line>> = Key(h)
      BY <2>2 DEF Key
  <2>4. o[p[k]] \in Candidates(hs)
      BY <1>1, <2>1, TierInRanking
  <2> QED BY <2>1, <2>2, <2>3, <2>4 DEF h
<1> HIDE DEF o
<1>4. ASSUME NEW i \in listed PROVE \E k \in DOMAIN ls : o[p[k]] = i
  <2>1. PICK k \in DOMAIN ls : Key(hs[i]) = <<ls[k].file, ls[k].side, ls[k].line>>
      OBVIOUS
  <2>2. i = o[p[k]]
      BY <1>3, <2>1 DEF Anchored
  <2> QED BY <2>2
<1>5. ASSUME NEW k \in DOMAIN ls PROVE o[p[k]] \in listed
    BY <1>3
<1> HIDE DEF listed
<1>6. listed \subseteq Candidates(hs)
    BY <1>3, <1>4
<1>7. ASSUME Candidates(hs) # {} PROVE listed # {}
  <2>1. \E k \in DOMAIN hs : TiersOf(hs)[k] = "High"
      BY <1>1, <1>7, SomeHigh
  <2>2. 1 \in 1 .. Len(ls) /\ DOMAIN ls = 1 .. Len(ls)
      BY <1>2, <2>1 DEF ListsPlaces
  <2>3. 1 \in DOMAIN ls
      BY <2>2
  <2> QED BY <1>5, <2>3
<1>8. ASSUME NEW i \in listed, NEW j \in Candidates(hs), Before(hs, j, i) PROVE j \in listed
  <2>1. PICK k \in DOMAIN ls : o[p[k]] = i
      BY <1>4
  <2>2. p[k] \in DOMAIN hs /\ k \in 1 .. Len(ls)
      BY <1>3
  <2>3. j \in DOMAIN hs
      BY DEF Candidates
  <2>4. PICK l \in DOMAIN hs : o[l] = j /\ l < p[k]
      BY <1>1, <1>8, <2>1, <2>2, <2>3, PlacedBefore DEF o
  <2>5. l <= p[k]
      BY <1>1, <2>2, <2>4
  <2>6. /\ TiersOf(hs)[p[k]] = "High" => TiersOf(hs)[l] = "High"
        /\ TiersOf(hs)[p[k]] = "Medium" => TiersOf(hs)[l] \in {"High", "Medium"}
      BY <1>1, <2>2, <2>4, <2>5, TiersGoDown DEF o
  <2>7. TiersOf(hs)[p[k]] \in {"High", "Medium"}
      BY <1>3
  <2>8. PICK m \in 1 .. Len(ls) : p[m] = l
      BY <1>2, <2>2, <2>4, <2>6, <2>7 DEF ListsPlaces
  <2>9. m \in DOMAIN ls
      BY <1>2 DEF ListsPlaces
  <2> QED BY <1>5, <2>4, <2>8, <2>9
<1> QED BY <1>6, <1>7, <1>8 DEF AreFirst, listed, ls, o

\* What the model reads and what the comment lists are the first of the real
\* changes of the diff, at least one of them, and none of the machine-written
\* ones (rankHunks, selectReviewChunks, renderRankedComment).
THEOREM RiskyPartsFirst == Spec => []AttentionFirst
<1>1. ASSUME DeckInv PROVE AttentionFirst
  <2>1. Anchored(diff) /\ selected = selectReviewChunks(buildReviewChunks(diff))
      BY <1>1, FetchedIsAnchored DEF DeckInv, Pass
  <2>2. AreFirst({c.at : c \in Range(selected)}, diff)
      BY <2>1, ReadFirst
  <2> QED BY <2>1, <2>2, ListedFirst DEF AttentionFirst, AreFirst
<1> QED BY <1>1, DeckInductive, PTL

-----------------------------------------------------------------------------
(* The order of the files.                                                 *)

\* o is an arrangement of the n elements of S.
Arranges(o, n, S, ahead) ==
    /\ o \in [1 .. n -> S]
    /\ \A i \in S : \E k \in 1 .. n : o[k] = i
    /\ \A k, l \in 1 .. n : o[k] \in ahead[o[l]] <=> k < l

\* Elements that are in an order can be arranged in one way only.
LEMMA OneArrangement ==
    ASSUME NEW S, NEW n \in Nat, NEW ahead, NEW o, NEW q,
           Arranges(o, n, S, ahead), Arranges(q, n, S, ahead)
    PROVE  \A k \in 1 .. n : o[k] = q[k]
<1> USE DEF Arranges
<1> DEFINE wrong == {k \in 1 .. n : o[k] # q[k]}
<1> SUFFICES ASSUME wrong # {} PROVE FALSE
    OBVIOUS
<1>1. PICK k \in wrong : \A l \in wrong : k <= l
  <2>1. wrong \in SUBSET Nat
      OBVIOUS
  <2> HIDE DEF wrong
  <2> QED BY <2>1, Least
<1>2. k \in 1 .. n /\ o[k] # q[k] /\ \A l \in 1 .. n : l < k => o[l] = q[l]
  <2>1. \A l \in 1 .. n : l \notin wrong => o[l] = q[l]
      OBVIOUS
  <2>2. \A l \in 1 .. n : l < k => l \notin wrong
      BY <1>1
  <2> QED BY <1>1, <2>1, <2>2
<1> HIDE DEF wrong
<1>3. PICK l \in 1 .. n : q[l] = o[k]
    BY <1>2
<1>4. PICK m \in 1 .. n : o[m] = q[k]
    BY <1>2
<1>5. k < l
  <2>1. ~(l < k)
    <3> SUFFICES ASSUME l < k PROVE FALSE
        OBVIOUS
    <3>1. o[l] = o[k]
        BY <1>2, <1>3
    <3>2. o[l] \in ahead[o[k]] /\ ~(o[k] \in ahead[o[k]])
        BY <1>2
    <3> QED BY <3>1, <3>2
  <2> QED BY <1>2, <1>3, <2>1
<1>6. k < m
  <2>1. ~(m < k)
    <3> SUFFICES ASSUME m < k PROVE FALSE
        OBVIOUS
    <3>1. q[m] = q[k]
        BY <1>2, <1>4
    <3>2. q[m] \in ahead[q[k]] /\ ~(q[k] \in ahead[q[k]])
        BY <1>2
    <3> QED BY <3>1, <3>2
  <2> QED BY <1>2, <1>4, <2>1
<1>7. q[k] \in ahead[o[k]]
    BY <1>2, <1>3, <1>5
<1>8. ~(m < k)
    BY <1>2, <1>4, <1>6
<1>9. o[m] \in ahead[o[k]] <=> m < k
    BY <1>2, <1>4
<1> QED BY <1>4, <1>7, <1>8, <1>9

\* The hunks of the diff hs are those of the diff gs at the places p, and those
\* of one file keep their order.
Reordered(hs, gs, p) ==
    /\ hs \in Seq(Hunk) /\ gs \in Seq(Hunk) /\ DOMAIN hs = DOMAIN gs
    /\ p \in [DOMAIN gs -> DOMAIN gs]
    /\ \A k \in DOMAIN gs : hs[k] = gs[p[k]]
    /\ \A i \in DOMAIN gs : \E k \in DOMAIN gs : p[k] = i
    /\ \A k, l \in DOMAIN gs : p[k] = p[l] => k = l
    /\ \A k, l \in DOMAIN gs : gs[p[k]].file = gs[p[l]].file => (p[k] < p[l] <=> k < l)

LEMMA ByPathReorders == ASSUME NEW hs \in Seq(Hunk) PROVE \E p : Reordered(ByPath(hs), hs, p)
<1> DEFINE D == DOMAIN hs
           path == [i \in D |-> hs[i].file]
<1>1. D \in SUBSET Nat /\ \A i \in D : hs[i] \in Hunk
    BY Hunks
<1>2. path \in [D -> Nat]
    BY <1>1, PathsAreNumbers DEF Hunk
<1>3. ByPath(hs) = Sorted(hs, path)
    BY DEF ByPath
<1>4. \A i \in D : path[i] = hs[i].file
    OBVIOUS
<1> HIDE DEF path
<1>5. ByPath(hs) \in Seq(Hunk)
    BY <1>2, <1>3, StableSort
<1>6. PICK p : Sorts(ByPath(hs), hs, path, p)
    BY <1>2, <1>3, StableSort
<1>7. ASSUME NEW k \in D, NEW l \in D, hs[p[k]].file = hs[p[l]].file
      PROVE  p[k] < p[l] <=> k < l
  <2>1. p[k] \in D /\ p[l] \in D
      BY <1>6 DEF Sorts
  <2>2. path[p[k]] = path[p[l]] /\ path[p[k]] \in Nat
      BY <1>2, <1>4, <1>7, <2>1
  <2>3. k < l <=> path[p[k]] < path[p[l]] \/ (path[p[k]] = path[p[l]] /\ p[k] < p[l])
      BY <1>6 DEF Sorts
  <2> QED BY <2>2, <2>3
<1>8. Reordered(ByPath(hs), hs, p)
    BY <1>5, <1>6, <1>7 DEF Reordered, Sorts
<1> QED BY <1>8

\* No test of the diff is one of the file of h.
Untested(hs, h) ==
    \A i \in DOMAIN hs : PathInfo[hs[i].file].test => PathInfo[hs[i].file].base # PathInfo[h.file].base

\* The score of a hunk does not depend on the order of the diff.
LEMMA ScoreOfReordered ==
    ASSUME NEW hs, NEW gs, NEW p, Reordered(hs, gs, p), NEW h
    PROVE  score(hs, h) = score(gs, h)
<1>1. DOMAIN hs = DOMAIN gs /\ \A k \in DOMAIN gs : p[k] \in DOMAIN gs /\ hs[k] = gs[p[k]]
    BY DEF Reordered
<1>2. \A i \in DOMAIN gs : \E k \in DOMAIN gs : hs[k] = gs[i]
    BY <1>1 DEF Reordered
<1>3. ASSUME Untested(hs, h) PROVE Untested(gs, h)
  <2> SUFFICES ASSUME NEW i \in DOMAIN gs, PathInfo[gs[i].file].test
               PROVE  PathInfo[gs[i].file].base # PathInfo[h.file].base
      BY DEF Untested
  <2>1. PICK k \in DOMAIN gs : hs[k] = gs[i]
      BY <1>2
  <2> QED BY <1>1, <1>3, <2>1 DEF Untested
<1>4. ASSUME Untested(gs, h) PROVE Untested(hs, h)
    BY <1>1, <1>4 DEF Untested
<1>5. isMissingTestDelta(hs, h) = isMissingTestDelta(gs, h)
    BY <1>3, <1>4, Zenon DEF isMissingTestDelta, Untested
<1> QED BY <1>5, Zenon DEF score

LEMMA BeforeInReordered ==
    ASSUME NEW hs, NEW gs, NEW p, Reordered(hs, gs, p), NEW k \in DOMAIN gs, NEW l \in DOMAIN gs
    PROVE  Before(hs, k, l) <=> Before(gs, p[k], p[l])
<1>1. hs[k] = gs[p[k]] /\ hs[l] = gs[p[l]]
    BY DEF Reordered
<1>2. /\ score(hs, hs[k]) = score(gs, gs[p[k]])
      /\ score(hs, hs[l]) = score(gs, gs[p[l]])
    BY <1>1, ScoreOfReordered
<1>3. gs[p[k]].file = gs[p[l]].file => (p[k] < p[l] <=> k < l)
    BY DEF Reordered
<1> HIDE DEF score
<1> QED BY <1>1, <1>2, <1>3 DEF Before

\* The hunk at each place of the ranking is the same.
LEMMA RankingOfReordered ==
    ASSUME NEW hs, NEW gs, NEW p, Reordered(hs, gs, p), NEW k \in DOMAIN gs
    PROVE  /\ Ranking(hs)[k] \in DOMAIN gs /\ p[Ranking(hs)[k]] = Ranking(gs)[k]
           /\ hs[Ranking(hs)[k]] = gs[Ranking(gs)[k]]
<1> DEFINE D == DOMAIN gs
           n == Len(gs)
           q == [i \in 1 .. n |-> p[Ranking(hs)[i]]]
           o == Ranking(gs)
           r == Ranking(hs)
           ahead == Ahead(gs)
<1>1. hs \in Seq(Hunk) /\ gs \in Seq(Hunk) /\ DOMAIN hs = D
    BY DEF Reordered
<1>2. D = 1 .. n /\ n \in Nat /\ Cardinality(D) = n
    BY <1>1, Hunks
<1>3. /\ r \in [1 .. n -> D] /\ \A i \in D : \E m \in 1 .. n : r[m] = i
      /\ \A m, l \in 1 .. n : Before(hs, r[m], r[l]) <=> m < l
    BY <1>1, <1>2, RankingOfHunks DEF Lists
<1>4. /\ o \in [1 .. n -> D] /\ \A i \in D : \E m \in 1 .. n : o[m] = i
      /\ \A m, l \in 1 .. n : Before(gs, o[m], o[l]) <=> m < l
    BY <1>1, <1>2, RankingOfHunks DEF Lists
<1>5. \A i, j \in D : j \in ahead[i] <=> Before(gs, j, i)
    BY DEF Ahead
<1>6. \A m \in 1 .. n : q[m] = p[r[m]] /\ r[m] \in D /\ q[m] \in D
    BY <1>3 DEF Reordered
<1>7. q \in [1 .. n -> D]
    BY <1>6
<1> HIDE DEF q, o, r, ahead
<1>8. \A i \in D : \E m \in 1 .. n : q[m] = i
  <2> SUFFICES ASSUME NEW i \in D PROVE \E m \in 1 .. n : q[m] = i
      OBVIOUS
  <2>1. PICK j \in D : p[j] = i
      BY DEF Reordered
  <2>2. PICK m \in 1 .. n : r[m] = j
      BY <1>3
  <2> QED BY <1>6, <2>1, <2>2
<1>9. \A m, l \in 1 .. n : q[m] \in ahead[q[l]] <=> m < l
  <2> SUFFICES ASSUME NEW m \in 1 .. n, NEW l \in 1 .. n PROVE q[m] \in ahead[q[l]] <=> m < l
      OBVIOUS
  <2>1. Before(hs, r[m], r[l]) <=> Before(gs, q[m], q[l])
      BY <1>6, BeforeInReordered
  <2> QED BY <1>3, <1>5, <1>6, <2>1
<1>10. \A m, l \in 1 .. n : o[m] \in ahead[o[l]] <=> m < l
    BY <1>4, <1>5
<1>11. \A m \in 1 .. n : q[m] = o[m]
  <2>1. Arranges(q, n, D, ahead) /\ Arranges(o, n, D, ahead)
      BY <1>4, <1>7, <1>8, <1>9, <1>10 DEF Arranges
  <2> QED BY <1>2, <2>1, OneArrangement
<1>12. p[r[k]] = o[k] /\ r[k] \in D
    BY <1>2, <1>6, <1>11
<1>13. hs[r[k]] = gs[p[r[k]]]
    BY <1>12 DEF Reordered
<1> QED BY <1>12, <1>13 DEF o, r

LEMMA TiersOfReordered ==
    ASSUME NEW hs, NEW gs, NEW p, Reordered(hs, gs, p)
    PROVE  TiersOf(hs) = TiersOf(gs)
<1> DEFINE D == DOMAIN gs
           r == Ranking(hs)
           o == Ranking(gs)
           f == [i \in Candidates(hs) |-> p[i]]
<1>1. hs \in Seq(Hunk) /\ gs \in Seq(Hunk) /\ DOMAIN hs = D /\ D = 1 .. Len(gs) /\ Len(gs) \in Nat
    BY Hunks DEF Reordered
<1>2. \A k \in D : r[k] \in Candidates(hs) <=> o[k] \in Candidates(gs)
  <2> SUFFICES ASSUME NEW k \in D PROVE r[k] \in Candidates(hs) <=> o[k] \in Candidates(gs)
      OBVIOUS
  <2>1. r[k] \in D /\ hs[r[k]] = gs[o[k]]
      BY RankingOfReordered
  <2>2. o[k] \in D
      BY <1>1, RankedHunk
  <2> QED BY <1>1, <2>1, <2>2 DEF Candidates
<1>3. Cardinality(Candidates(hs)) = Cardinality(Candidates(gs))
  <2>1. \A i \in D : p[i] \in D /\ (i \in Candidates(hs) <=> p[i] \in Candidates(gs))
      BY <1>1 DEF Reordered, Candidates
  <2>2. Candidates(hs) \subseteq D /\ Candidates(gs) \subseteq D
      BY <1>1 DEF Candidates
  <2>3. f \in [Candidates(hs) -> Candidates(gs)]
      BY <2>1, <2>2
  <2>4. \A i, j \in Candidates(hs) : f[i] = f[j] => i = j
      BY <2>2 DEF Reordered
  <2>5. \A i \in Candidates(gs) : \E j \in Candidates(hs) : f[j] = i
      BY <2>1, <2>2 DEF Reordered
  <2> HIDE DEF f
  <2>6. f \in Injection(Candidates(hs), Candidates(gs))
      BY <2>3, <2>4 DEF Injection, IsInjective
  <2>7. f \in Surjection(Candidates(hs), Candidates(gs))
      BY <2>3, <2>5 DEF Surjection
  <2> QED BY <1>1, <2>6, <2>7, RealChanges, FS_Surjection
<1>4. ASSUME NEW k \in D PROVE RealBefore(hs, k) = RealBefore(gs, k)
  <2>1. 1 .. k - 1 \subseteq D
      BY <1>1
  <2> QED BY <1>2, <2>1 DEF RealBefore
<1>5. DOMAIN r = D /\ DOMAIN o = D
    BY <1>1, RankingOfHunks
<1>6. TiersOf(hs) = [k \in D |-> IF r[k] \notin Candidates(hs) THEN "Low"
                                ELSE TierAt(Cardinality(RealBefore(hs, k)), Cardinality(Candidates(hs)))]
    BY <1>5 DEF TiersOf, assignTiers, RealBefore
<1>7. TiersOf(gs) = [k \in D |-> IF o[k] \notin Candidates(gs) THEN "Low"
                                ELSE TierAt(Cardinality(RealBefore(gs, k)), Cardinality(Candidates(gs)))]
    BY <1>5 DEF TiersOf, assignTiers, RealBefore
<1> HIDE DEF r, o
<1> QED BY <1>2, <1>3, <1>4, <1>6, <1>7

LEMMA RankOfReordered ==
    ASSUME NEW hs, NEW gs, NEW p, Reordered(hs, gs, p)
    PROVE  rankHunks(hs) = rankHunks(gs)
<1> DEFINE ranked(h, tier) == [file |-> h.file, side |-> side(h), line |-> line(h), tier |-> tier]
<1>1. DOMAIN hs = DOMAIN gs
    BY DEF Reordered
<1>2. rankHunks(hs) = [k \in DOMAIN gs |-> ranked(hs[Ranking(hs)[k]], TiersOf(hs)[k])]
    BY <1>1 DEF rankHunks, TiersOf
<1>3. rankHunks(gs) = [k \in DOMAIN gs |-> ranked(gs[Ranking(gs)[k]], TiersOf(gs)[k])]
    BY DEF rankHunks, TiersOf
<1>4. \A k \in DOMAIN gs : hs[Ranking(hs)[k]] = gs[Ranking(gs)[k]]
    BY RankingOfReordered
<1>5. TiersOf(hs) = TiersOf(gs)
    BY TiersOfReordered
<1> HIDE DEF ranked
<1> QED BY <1>2, <1>3, <1>4, <1>5

\* The ranking of a diff, tiers included, does not depend on the order in which
\* the diff lists its files (rankHunks).
THEOREM RankingIsOfTheChange == Spec => []OrderOfFilesIrrelevant
<1>1. ASSUME DeckInv PROVE OrderOfFilesIrrelevant
  <2>1. diff \in Seq(Hunk)
      BY <1>1, FetchedIsAnchored DEF DeckInv, Anchored
  <2>2. PICK p : Reordered(ByPath(diff), diff, p)
      BY <2>1, ByPathReorders
  <2>3. rankHunks(ByPath(diff)) = rankHunks(diff)
      BY <2>2, RankOfReordered
  <2> QED BY <2>3 DEF OrderOfFilesIrrelevant
<1> QED BY <1>1, DeckInductive, PTL

-----------------------------------------------------------------------------
(* The ranges of a card.                                                   *)

Span == [start : Nat, end : Nat]

\* A sequence of ranges whose last end is moved.
LEMMA LastMoved ==
    ASSUME NEW rs \in Seq(Span), rs # << >>, NEW e \in Nat
    PROVE  LET new == [rs EXCEPT ![Len(rs)].end = e] IN
           /\ new \in Seq(Span) /\ Len(new) = Len(rs)
           /\ \A m \in 1 .. Len(rs) - 1 : new[m] = rs[m]
           /\ new[Len(rs)].start = rs[Len(rs)].start /\ new[Len(rs)].end = e
<1> DEFINE L == Len(rs)
           new == [rs EXCEPT ![L].end = e]
           moved == [rs[L] EXCEPT !.end = e]
<1>1. L \in Nat /\ L \in 1 .. L /\ rs \in [1 .. L -> Span]
    OBVIOUS
<1>2. \A r \in Span : [r EXCEPT !.end = e] \in Span
    BY DEF Span
<1>3. moved \in Span /\ moved.start = rs[L].start /\ moved.end = e
  <2>1. rs[L] \in Span
      BY <1>1
  <2> QED BY <1>2, <2>1 DEF Span
<1>4. new = [rs EXCEPT ![L] = moved]
    OBVIOUS
<1> HIDE DEF new, L, moved
<1>5. new \in [1 .. L -> Span]
    BY <1>1, <1>3, <1>4
<1>6. new \in Seq(Span) /\ Len(new) = L
    BY <1>1, <1>5
<1>7. new[L] = moved /\ \A m \in 1 .. L - 1 : new[m] = rs[m]
    BY <1>1, <1>4
<1> QED BY <1>3, <1>6, <1>7 DEF new, L

\* coalesce takes one line number after the other.
Extend(rs, n) ==
    IF rs # << >> /\ rs[Len(rs)].end + 1 = n
    THEN [rs EXCEPT ![Len(rs)].end = n]
    ELSE Append(rs, [start |-> n, end |-> n])

LEMMA ExtendType ==
    ASSUME NEW rs \in Seq(Span), NEW n \in Nat
    PROVE  Extend(rs, n) \in Seq(Span)
<1>1. CASE rs # << >> /\ rs[Len(rs)].end + 1 = n
    BY <1>1, LastMoved DEF Extend
<1>2. CASE ~(rs # << >> /\ rs[Len(rs)].end + 1 = n)
  <2>1. [start |-> n, end |-> n] \in Span
      BY DEF Span
  <2>2. Append(rs, [start |-> n, end |-> n]) \in Seq(Span)
      BY <2>1
  <2> QED BY <1>2, <2>2 DEF Extend
<1> QED BY <1>1, <1>2

\* f has the ranges of the first k lines, for each k.
Steps(f, lines) ==
    f = [k \in 0 .. Len(lines) |-> IF k = 0 THEN << >> ELSE Extend(f[k - 1], lines[k])]

\* coalesce sorts the lines before it takes them.
SortedSteps(f, lines, sorted) ==
    f = [k \in 0 .. Len(lines) |-> IF k = 0 THEN << >> ELSE Extend(f[k - 1], sorted[k])]

LEMMA CoalesceSteps ==
    ASSUME NEW lines \in Seq(Nat), \A k, l \in 1 .. Len(lines) : k <= l => lines[k] <= lines[l]
    PROVE  \E f : Steps(f, lines) /\ coalesce(lines) = f[Len(lines)]
<1> DEFINE n == Len(lines)
           next == [k \in 1 .. n |-> [rs \in Seq(Span) |-> Extend(rs, lines[k])]]
<1>1. n \in Nat /\ \A k \in 1 .. n : lines[k] \in Nat
    OBVIOUS
<1>2. next \in [1 .. n -> [Seq(Span) -> Seq(Span)]]
    BY <1>1, ExtendType
<1>3. << >> \in Seq(Span)
    OBVIOUS
<1>4. \A k \in 1 .. n : \A rs \in Seq(Span) : next[k][rs] = Extend(rs, lines[k])
    OBVIOUS
<1> HIDE DEF n, next
<1>5. PICK f \in [0 .. n -> Seq(Span)] : Iterates(f, n, << >>, next)
    BY <1>1, <1>2, <1>3, Iteration
<1>6. ASSUME NEW k \in 0 .. n
      PROVE  f[k] = IF k = 0 THEN << >> ELSE Extend(f[k - 1], lines[k])
  <2>1. CASE k = 0
      BY <1>5, <2>1 DEF Iterates
  <2>2. CASE k # 0
    <3>1. k \in 1 .. n /\ k - 1 \in 0 .. n
        BY <1>1, <2>2
    <3>2. f[k - 1] \in Seq(Span) /\ f[k] = next[k][f[k - 1]]
        BY <1>5, <3>1 DEF Iterates
    <3> QED BY <1>4, <2>2, <3>1, <3>2
  <2> QED BY <2>1, <2>2
<1>7. f = [k \in 0 .. n |-> f[k]]
    OBVIOUS
<1>8. SortedSteps(f, lines, lines)
    BY <1>6, <1>7 DEF SortedSteps, n
<1>9. coalesce(lines) = (CHOOSE g : SortedSteps(g, lines, lines))[n]
  <2>1. coalesce(lines) = (CHOOSE g : SortedSteps(g, lines, Sorted(lines, lines)))[n]
      BY DEF coalesce, Extend, SortedSteps, n
  <2>2. Sorted(lines, lines) = lines
      BY AlreadySorted
  <2> HIDE DEF coalesce, Sorted
  <2> QED BY <2>1, <2>2
<1> HIDE DEF coalesce
<1>10. PICK g : SortedSteps(g, lines, lines) /\ coalesce(lines) = g[n]
    BY <1>8, <1>9
<1> QED BY <1>10 DEF n, Steps, SortedSteps

\* The ranges rs group the first k of the lines, apart from each other.
Groups(rs, lines, k) ==
    /\ rs \in Seq(Span)
    /\ \A m \in 1 .. Len(rs) : rs[m].start <= rs[m].end
    /\ \A l \in 1 .. Len(rs) : \A m \in 1 .. l - 1 : rs[m].end + 1 < rs[l].start
    /\ \A j \in 1 .. k : \E m \in 1 .. Len(rs) : lines[j] \in rs[m].start .. rs[m].end
    /\ \A m \in 1 .. Len(rs) : \A x \in rs[m].start .. rs[m].end : \E j \in 1 .. k : lines[j] = x
    /\ k > 0 => rs # << >> /\ rs[Len(rs)].end = lines[k]

\* The first n lines ascend.
Rising(lines, n) ==
    /\ lines \in Seq(Nat) /\ n \in 0 .. Len(lines)
    /\ \A k, l \in 1 .. n : lines[k] < lines[l] <=> k < l

LEMMA ExtendGroups ==
    ASSUME NEW lines, NEW top, Rising(lines, top), NEW k \in Nat, k + 1 <= top,
           NEW rs, Groups(rs, lines, k)
    PROVE  Groups(Extend(rs, lines[k + 1]), lines, k + 1)
<1> DEFINE n == lines[k + 1]
           L == Len(rs)
           new == Extend(rs, n)
<1>1. /\ lines \in Seq(Nat) /\ Len(lines) \in Nat /\ k + 1 \in 1 .. Len(lines) /\ n \in Nat
      /\ \A j \in 1 .. k : j \in 1 .. Len(lines) /\ lines[j] \in Nat /\ lines[j] < n
  <2>1. /\ lines \in Seq(Nat) /\ Len(lines) \in Nat /\ top \in Nat /\ k + 1 \in 1 .. top
        /\ \A j \in 1 .. top : j \in 1 .. Len(lines)
      BY DEF Rising
  <2>2. \A j \in 1 .. k : j \in 1 .. top /\ j < k + 1
      BY <2>1
  <2> QED BY <2>1, <2>2 DEF Rising
<1>2. /\ rs \in Seq(Span) /\ L \in Nat
      /\ \A m \in 1 .. L : rs[m] \in Span /\ rs[m].start \in Nat /\ rs[m].end \in Nat
                           /\ rs[m].start <= rs[m].end
      /\ \A l \in 1 .. L : \A m \in 1 .. l - 1 : rs[m].end + 1 < rs[l].start
      /\ \A j \in 1 .. k : \E m \in 1 .. L : lines[j] \in rs[m].start .. rs[m].end
      /\ \A m \in 1 .. L : \A x \in rs[m].start .. rs[m].end : \E j \in 1 .. k : lines[j] = x
  <2>1. rs \in Seq(Span)
      BY DEF Groups
  <2>2. L \in Nat /\ \A m \in 1 .. L : rs[m] \in Span
      BY <2>1
  <2>3. \A m \in 1 .. L : rs[m].start \in Nat /\ rs[m].end \in Nat
      BY <2>2 DEF Span
  <2> QED BY <2>1, <2>2, <2>3 DEF Groups
<1>3. L > 0 => k > 0 /\ rs[L].end = lines[k] /\ lines[k] < n
  <2> SUFFICES ASSUME L > 0 PROVE k > 0 /\ rs[L].end = lines[k] /\ lines[k] < n
      OBVIOUS
  <2>1. L \in 1 .. L /\ rs[L].start \in rs[L].start .. rs[L].end
      BY <1>2
  <2>2. \E j \in 1 .. k : lines[j] = rs[L].start
      BY <1>2, <2>1
  <2>3. k > 0 /\ k \in 1 .. k
      BY <2>2
  <2>4. rs[L].end = lines[k]
      BY <2>3 DEF Groups
  <2> QED BY <1>1, <2>3, <2>4
<1>4. rs # << >> <=> L > 0
    BY <1>2
<1>5. k + 1 > 0 /\ \A j \in 1 .. k + 1 : j \in 1 .. k \/ j = k + 1
    OBVIOUS
<1> HIDE DEF n
<1>6. CASE L > 0 /\ rs[L].end + 1 = n
  <2>1. /\ new \in Seq(Span) /\ Len(new) = L
        /\ \A m \in 1 .. L - 1 : new[m] = rs[m]
        /\ new[L].start = rs[L].start /\ new[L].end = n
    <3>1. new = [rs EXCEPT ![L].end = n] /\ rs # << >>
        BY <1>4, <1>6 DEF Extend
    <3> QED BY <1>1, <1>2, <3>1, LastMoved
  <2> HIDE DEF new
  <2>2. \A m \in 1 .. L : m \in 1 .. L - 1 \/ m = L
      BY <1>2
  <2>3. ASSUME NEW m \in 1 .. L
        PROVE  /\ new[m].start = rs[m].start /\ new[m].end \in Nat
               /\ rs[m].end <= new[m].end /\ new[m].start <= new[m].end
               /\ (m = L /\ new[m].end = rs[m].end + 1 /\ new[m].end = n) \/ new[m].end = rs[m].end
    <3>1. rs[m].start \in Nat /\ rs[m].end \in Nat /\ rs[m].start <= rs[m].end
        BY <1>2
    <3>2. CASE m = L
        BY <1>1, <1>6, <2>1, <3>1, <3>2
    <3>3. CASE m \in 1 .. L - 1
        BY <2>1, <3>1, <3>3
    <3> QED BY <2>2, <3>2, <3>3
  <2>4. ASSUME NEW l \in 1 .. L, NEW m \in 1 .. l - 1 PROVE new[m].end + 1 < new[l].start
    <3>1. m \in 1 .. L - 1 /\ new[m] = rs[m] /\ new[l].start = rs[l].start
        BY <1>2, <2>1, <2>3
    <3> QED BY <1>2, <3>1
  <2>5. ASSUME NEW j \in 1 .. k + 1
        PROVE  \E m \in 1 .. L : lines[j] \in new[m].start .. new[m].end
    <3>1. CASE j = k + 1
      <4>1. n \in new[L].start .. new[L].end /\ L \in 1 .. L
          BY <1>1, <1>2, <1>6, <2>1, <2>3
      <4> QED BY <3>1, <4>1 DEF n
    <3>2. CASE j \in 1 .. k
      <4>1. PICK m \in 1 .. L : lines[j] \in rs[m].start .. rs[m].end
          BY <1>2, <3>2
      <4>2. new[m].start = rs[m].start /\ rs[m].end <= new[m].end /\ new[m].end \in Nat
          BY <2>3
      <4> QED BY <1>2, <4>1, <4>2
    <3> QED BY <1>5, <3>1, <3>2
  <2>6. ASSUME NEW m \in 1 .. L, NEW x \in new[m].start .. new[m].end
        PROVE  \E j \in 1 .. k + 1 : lines[j] = x
    <3>1. CASE x = n
      <4>1. k + 1 \in 1 .. k + 1
          OBVIOUS
      <4> QED BY <3>1, <4>1 DEF n
    <3>2. CASE x # n
      <4>1. x \in rs[m].start .. rs[m].end
        <5>1. rs[m].start \in Nat /\ rs[m].end \in Nat
            BY <1>2
        <5> QED BY <2>3, <3>2, <5>1
      <4>2. PICK j \in 1 .. k : lines[j] = x
          BY <1>2, <4>1
      <4> QED BY <4>2
    <3> QED BY <3>1, <3>2
  <2>7. new # << >> /\ new[L].end = lines[k + 1]
      BY <1>6, <2>1 DEF n
  <2> QED BY <2>1, <2>3, <2>4, <2>5, <2>6, <2>7 DEF Groups, new, n
<1>7. CASE ~(L > 0 /\ rs[L].end + 1 = n)
  <2> DEFINE last == [start |-> n, end |-> n]
  <2>1. /\ new \in Seq(Span) /\ Len(new) = L + 1
        /\ \A m \in 1 .. L : new[m] = rs[m]
        /\ new[L + 1].start = n /\ new[L + 1].end = n
    <3>1. new = Append(rs, last)
        BY <1>4, <1>7 DEF Extend
    <3>2. last \in Span /\ last.start = n /\ last.end = n
        BY <1>1 DEF Span
    <3> HIDE DEF last, new
    <3>3. new \in Seq(Span) /\ Len(new) = L + 1 /\ new[L + 1] = last
          /\ \A m \in 1 .. L : new[m] = rs[m]
        BY <1>2, <3>1, <3>2
    <3> QED BY <3>2, <3>3
  <2> HIDE DEF new
  <2>2. \A m \in 1 .. L + 1 : m \in 1 .. L \/ m = L + 1
      BY <1>2
  <2>3. ASSUME NEW m \in 1 .. L + 1 PROVE new[m].start <= new[m].end
    <3>1. CASE m \in 1 .. L
        BY <1>2, <2>1, <3>1
    <3>2. CASE m = L + 1
        BY <1>1, <2>1, <3>2
    <3> QED BY <2>2, <3>1, <3>2
  <2>4. ASSUME NEW l \in 1 .. L + 1, NEW m \in 1 .. l - 1
        PROVE  new[m].end + 1 < new[l].start
    <3>1. m \in 1 .. L /\ new[m] = rs[m] /\ rs[m].end \in Nat
        BY <1>2, <2>1
    <3>2. CASE l = L + 1
      <4>1. L > 0 /\ rs[L].end < n /\ rs[L].end + 1 # n /\ L \in 1 .. L
            /\ rs[L].end \in Nat /\ rs[L].start <= rs[L].end /\ rs[L].start \in Nat
          BY <1>2, <1>3, <1>7, <3>1
      <4>2. m # L => rs[m].end + 1 < rs[L].start
        <5> SUFFICES ASSUME m # L PROVE m \in 1 .. L - 1
            BY <1>2, <4>1
        <5> QED BY <1>2, <3>1
      <4>3. rs[m].end + 1 < n
        <5> DEFINE end == rs[L].end
                   start == rs[L].start
                   before == rs[m].end
        <5>1. /\ end \in Nat /\ start \in Nat /\ before \in Nat /\ n \in Nat
              /\ start <= end /\ end < n /\ end + 1 # n
              /\ m # L => before + 1 < start
            BY <1>1, <3>1, <4>1, <4>2
        <5>2. m = L => before = end
            OBVIOUS
        <5> HIDE DEF end, start, before
        <5>3. before + 1 < n
            BY <5>1, <5>2
        <5> QED BY <5>3 DEF before
      <4> QED BY <2>1, <3>1, <3>2, <4>3
    <3>3. CASE l \in 1 .. L
        BY <1>2, <2>1, <3>1, <3>3
    <3> QED BY <2>2, <3>2, <3>3
  <2>5. ASSUME NEW j \in 1 .. k + 1
        PROVE  \E m \in 1 .. L + 1 : lines[j] \in new[m].start .. new[m].end
    <3>1. CASE j = k + 1
      <4>1. n \in new[L + 1].start .. new[L + 1].end /\ L + 1 \in 1 .. L + 1
          BY <1>1, <1>2, <2>1
      <4> QED BY <3>1, <4>1 DEF n
    <3>2. CASE j \in 1 .. k
      <4>1. PICK m \in 1 .. L : lines[j] \in rs[m].start .. rs[m].end
          BY <1>2, <3>2
      <4>2. m \in 1 .. L + 1 /\ new[m] = rs[m]
          BY <1>2, <2>1
      <4> QED BY <4>1, <4>2
    <3> QED BY <1>5, <3>1, <3>2
  <2>6. ASSUME NEW m \in 1 .. L + 1, NEW x \in new[m].start .. new[m].end
        PROVE  \E j \in 1 .. k + 1 : lines[j] = x
    <3>1. CASE m = L + 1
      <4>1. x = n /\ k + 1 \in 1 .. k + 1
          BY <1>1, <2>1, <3>1
      <4> QED BY <4>1 DEF n
    <3>2. CASE m \in 1 .. L
      <4>1. x \in rs[m].start .. rs[m].end
          BY <2>1, <3>2
      <4>2. PICK j \in 1 .. k : lines[j] = x
          BY <1>2, <3>2, <4>1
      <4> QED BY <4>2
    <3> QED BY <2>2, <3>1, <3>2
  <2>7. new # << >> /\ new[L + 1].end = lines[k + 1] /\ (L + 1) - 1 = L
      BY <1>2, <2>1 DEF n
  <2> QED BY <2>1, <2>3, <2>4, <2>5, <2>6, <2>7 DEF Groups, new, n
<1> QED BY <1>6, <1>7

\* The ranges of the first lines, which ascend, hold those lines and no other,
\* and do not touch.
LEMMA CoalesceGroups ==
    ASSUME NEW lines, NEW n, Rising(lines, n), NEW f, Steps(f, lines)
    PROVE  Groups(f[n], lines, n)
<1>1. lines \in Seq(Nat) /\ Len(lines) \in Nat /\ n \in Nat /\ n \in 0 .. Len(lines)
    BY DEF Rising
<1> DEFINE good == {k \in 0 .. n : Groups(f[k], lines, k)}
<1>3. 0 \in good
  <2>1. f[0] = << >> /\ 0 \in 0 .. n
      BY <1>1 DEF Steps
  <2>2. Groups(<< >>, lines, 0)
      BY DEF Groups
  <2> QED BY <2>1, <2>2
<1>4. ASSUME NEW k \in 0 .. n - 1, k \in good PROVE k + 1 \in good
  <2>1. k \in Nat /\ k + 1 \in 0 .. n /\ k + 1 \in 0 .. Len(lines) /\ k + 1 # 0 /\ k + 1 <= n
        /\ (k + 1) - 1 = k
      BY <1>1
  <2>2. f[k + 1] = Extend(f[k], lines[k + 1])
      BY <2>1 DEF Steps
  <2> QED BY <1>4, <2>1, <2>2, ExtendGroups
<1> HIDE DEF good
<1>5. \A k \in 0 .. n : k \in good
    BY <1>1, <1>3, <1>4, UpTo
<1> QED BY <1>1, <1>5 DEF good

\* What ln counts to number the lines of one type: the lines up to a place.
LinesTo(h, type, i) ==
    {j \in 1 .. i : h.changes[j].type \in {type, "normal"} /\ ~ IsNote(h.changes[j])}

\* Line numbers ascend from line to line, and a note, the last change of its
\* type, repeats the number of the line before it.
LEMMA LineNumbers ==
    ASSUME NEW h \in Hunk, NotesInPlace(h), NEW type \in {"add", "del"}
    PROVE  /\ \A i \in Of(h, type) : ln(h, i) \in Nat
           /\ \A i, j \in Of(h, type) :
                 i < j /\ ~ IsNote(h.changes[j]) => ln(h, i) < ln(h, j)
           /\ \A i \in Of(h, type) : IsNote(h.changes[i]) =>
                 /\ i - 1 \in Of(h, type) /\ ~ IsNote(h.changes[i - 1]) /\ ln(h, i - 1) = ln(h, i)
                 /\ \A j \in Of(h, type) : j <= i
<1> DEFINE O == Of(h, type)
           c == h.changes
           start == IF type = "add" THEN h.newStart ELSE h.oldStart
           count == [i \in O |-> Cardinality(LinesTo(h, type, i))]
<1>1. /\ O \subseteq DOMAIN c /\ DOMAIN c = 1 .. Len(c) /\ Len(c) \in Nat /\ O \in SUBSET Nat
      /\ \A i \in O : c[i].type = type
  <2>1. O \subseteq DOMAIN c /\ DOMAIN c = 1 .. Len(c) /\ Len(c) \in Nat
      BY LinesOfHunk
  <2>2. \A i \in O : c[i].type = type
      BY DEF Of
  <2> HIDE DEF O, c
  <2> QED BY <2>1, <2>2
<1>2. start \in Nat
    BY DEF Hunk
<1>3. ASSUME NEW i \in O PROVE ln(h, i) = start + count[i] - 1
  <2>1. h.changes[i].type = type
      BY <1>1
  <2> QED BY <2>1 DEF ln, LinesTo
<1>4. ASSUME NEW i \in O
      PROVE  IsFiniteSet(LinesTo(h, type, i)) /\ count[i] \in Nat
  <2>1. LinesTo(h, type, i) \subseteq 1 .. i /\ i \in Nat
      BY <1>1 DEF LinesTo
  <2> QED BY <2>1, Interval, FS_Subset, FS_CardinalityType
<1>5. ASSUME NEW i \in O, IsNote(c[i])
      PROVE  /\ i - 1 \in O /\ ~ IsNote(c[i - 1]) /\ LinesTo(h, type, i - 1) = LinesTo(h, type, i)
             /\ \A j \in O : j <= i
  <2>1. /\ i \in DOMAIN c /\ i > 1 /\ ~ IsNote(c[i - 1]) /\ c[i - 1].type = type
        /\ \A j \in DOMAIN c : j > i => c[j].type # type
      BY <1>1, <1>5 DEF NotesInPlace
  <2>2. i - 1 \in O
      BY <1>1, <2>1 DEF Of
  <2>3. \A j \in O : j <= i
      BY <1>1, <2>1
  <2>4. \A j : j \in 1 .. i <=> j \in 1 .. i - 1 \/ j = i
      BY <1>1, <2>1
  <2>5. LinesTo(h, type, i - 1) = LinesTo(h, type, i)
      BY <1>5, <2>4 DEF LinesTo
  <2> QED BY <2>1, <2>2, <2>3, <2>5
<1>6. ASSUME NEW i \in O, NEW j \in O, i < j, ~ IsNote(c[j])
      PROVE  count[i] < count[j]
  <2> DEFINE A == LinesTo(h, type, i)
             B == LinesTo(h, type, j)
  <2>1. i \in Nat /\ j \in Nat /\ c[j].type = type
      BY <1>1
  <2>2. A \subseteq B
    <3>1. 1 .. i \subseteq 1 .. j
        BY <1>6, <2>1
    <3> QED BY <3>1 DEF LinesTo
  <2>3. j \in B /\ j \notin A
    <3>1. j \in 1 .. j /\ j \notin 1 .. i
        BY <1>1, <1>6, <2>1
    <3> QED BY <1>6, <2>1, <3>1 DEF LinesTo
  <2>4. IsFiniteSet(B) /\ count[i] = Cardinality(A) /\ count[j] = Cardinality(B)
      BY <1>4
  <2> HIDE DEF A, B
  <2>5. Cardinality(A) <= Cardinality(B) /\ Cardinality(A) # Cardinality(B)
      BY <2>2, <2>3, <2>4, FS_Subset
  <2> QED BY <1>4, <2>4, <2>5
<1>7. ASSUME NEW i \in O PROVE count[i] > 0
  <2>1. LinesTo(h, type, i) # {}
    <3>1. CASE IsNote(c[i])
      <4>1. i - 1 \in O /\ ~ IsNote(c[i - 1]) /\ LinesTo(h, type, i - 1) = LinesTo(h, type, i)
          BY <1>5, <3>1
      <4>2. i - 1 \in 1 .. i - 1 /\ c[i - 1].type = type
          BY <1>1, <4>1
      <4> QED BY <4>1, <4>2 DEF LinesTo
    <3>2. CASE ~ IsNote(c[i])
      <4>1. i \in 1 .. i /\ c[i].type = type
          BY <1>1
      <4> QED BY <3>2, <4>1 DEF LinesTo
    <3> QED BY <3>1, <3>2
  <2>2. IsFiniteSet(LinesTo(h, type, i)) /\ count[i] \in Nat
      BY <1>4
  <2> QED BY <2>1, <2>2, FS_EmptySet
<1> HIDE DEF start
<1>8. \A i \in O : ln(h, i) \in Nat
  <2> HIDE DEF count, O
  <2> QED BY <1>2, <1>3, <1>4, <1>7
<1>9. \A i, j \in O : i < j /\ ~ IsNote(c[j]) => ln(h, i) < ln(h, j)
  <2> HIDE DEF count, O
  <2> QED BY <1>2, <1>3, <1>4, <1>6
<1>10. ASSUME NEW i \in O, IsNote(c[i]) PROVE ln(h, i - 1) = ln(h, i)
  <2>1. i - 1 \in O /\ count[i - 1] = count[i]
      BY <1>5, <1>10
  <2> QED BY <1>3, <2>1
<1> QED BY <1>5, <1>8, <1>9, <1>10 DEF O, c

\* The first n of the lines are what a card is to mark; if the last of them
\* ends its file without a newline, it is there once more.
NumbersOf(lines, n, h) ==
    /\ Rising(lines, n)
    /\ \A k, l \in 1 .. Len(lines) : k <= l => lines[k] <= lines[l]
    /\ \A x : x \in ChangedLines(h) <=> \E k \in 1 .. n : lines[k] = x
    /\ ~ EndsUnterminated(h) => Len(lines) = n
    /\ EndsUnterminated(h) => n > 0 /\ Len(lines) = n + 1 /\ lines[n + 1] = lines[n]

\* The numbers highlightsOf collects.
LEMMA NumbersOfHunk ==
    ASSUME NEW h \in Hunk, NotesInPlace(h)
    PROVE  \E lines, n : highlightsOf(h) = coalesce(lines) /\ NumbersOf(lines, n, h)
<1> DEFINE type == MarkedType(h)
           O == Of(h, type)
           c == h.changes
           places == Ascending(O)
           N == Cardinality(O)
           lines == [k \in DOMAIN places |-> ln(h, places[k])]
<1>1. type \in {"add", "del"}
    BY DEF MarkedType
<1>2. O \in SUBSET Nat /\ IsFiniteSet(O) /\ N \in Nat
  <2>1. /\ O \subseteq DOMAIN c /\ DOMAIN c = 1 .. Len(c) /\ Len(c) \in Nat
        /\ IsFiniteSet(O) /\ N \in Nat
      BY LinesOfHunk
  <2> HIDE DEF O, N, c
  <2> QED BY <2>1
<1>3. highlightsOf(h) = coalesce(lines)
    BY DEF highlightsOf
<1>4. /\ \A i \in O : ln(h, i) \in Nat
      /\ \A i, j \in O : i < j /\ ~ IsNote(c[j]) => ln(h, i) < ln(h, j)
      /\ \A i \in O : IsNote(c[i]) =>
            i - 1 \in O /\ ~ IsNote(c[i - 1]) /\ ln(h, i - 1) = ln(h, i) /\ \A j \in O : j <= i
  <2> HIDE DEF type
  <2> QED BY <1>1, LineNumbers
<1>5. /\ EndsUnterminated(h) <=> \E i \in O : IsNote(c[i])
      /\ \A x : x \in ChangedLines(h) <=> \E i \in O : ~ IsNote(c[i]) /\ ln(h, i) = x
    BY DEF EndsUnterminated, ChangedLines
<1> HIDE DEF type, O, c
<1>6. /\ places \in [1 .. N -> O] /\ DOMAIN places = 1 .. N
      /\ \A i \in O : \E k \in 1 .. N : places[k] = i
      /\ \A k, l \in 1 .. N : places[k] < places[l] <=> k < l
    BY <1>2, AscendingOrder DEF Lists
<1> HIDE DEF places, N
<1>7. /\ lines \in Seq(Nat) /\ Len(lines) = N
      /\ \A k \in 1 .. N : lines[k] = ln(h, places[k]) /\ lines[k] \in Nat /\ places[k] \in O
                           /\ places[k] \in Nat
  <2>1. \A k \in 1 .. N : lines[k] = ln(h, places[k]) /\ lines[k] \in Nat /\ places[k] \in O
                           /\ places[k] \in Nat
      BY <1>2, <1>4, <1>6
  <2>2. lines \in [1 .. N -> Nat]
      BY <1>6, <2>1
  <2> HIDE DEF lines
  <2> QED BY <1>2, <2>1, <2>2
<1> HIDE DEF lines
<1>8. ASSUME NEW k \in 1 .. N, NEW l \in 1 .. N, k < l, ~ IsNote(c[places[l]])
      PROVE  lines[k] < lines[l]
  <2>1. places[k] < places[l] /\ places[k] \in O /\ places[l] \in O
      BY <1>6, <1>7, <1>8
  <2> QED BY <1>4, <1>7, <1>8, <2>1
<1>9. CASE ~ EndsUnterminated(h)
  <2>1. \A k \in 1 .. N : ~ IsNote(c[places[k]])
      BY <1>5, <1>7, <1>9
  <2>2. \A k, l \in 1 .. N : k < l => lines[k] < lines[l]
      BY <1>8, <2>1
  <2>3. Rising(lines, N)
    <3>1. \A k, l \in 1 .. N : lines[k] < lines[l] <=> k < l
      <4> SUFFICES ASSUME NEW k \in 1 .. N, NEW l \in 1 .. N
                   PROVE  lines[k] < lines[l] <=> k < l
          OBVIOUS
      <4>1. /\ lines[k] \in Nat /\ lines[l] \in Nat /\ k \in Nat /\ l \in Nat
            /\ k < l => lines[k] < lines[l]
            /\ l < k => lines[l] < lines[k]
            /\ l = k => lines[l] = lines[k]
          BY <1>7, <2>2
      <4> QED BY <4>1
    <3> QED BY <1>2, <1>7, <3>1 DEF Rising
  <2>4. \A k, l \in 1 .. Len(lines) : k <= l => lines[k] <= lines[l]
    <3> SUFFICES ASSUME NEW k \in 1 .. N, NEW l \in 1 .. N, k <= l PROVE lines[k] <= lines[l]
        BY <1>7
    <3>1. k = l \/ k < l
        BY <1>2
    <3> QED BY <1>7, <2>2, <3>1
  <2>5. \A x : x \in ChangedLines(h) <=> \E k \in 1 .. N : lines[k] = x
      BY <1>5, <1>6, <1>7, <2>1
  <2>6. NumbersOf(lines, N, h)
      BY <1>7, <1>9, <2>3, <2>4, <2>5 DEF NumbersOf
  <2> QED BY <1>3, <2>6
<1>10. CASE EndsUnterminated(h)
  <2>1. PICK q \in O : IsNote(c[q])
      BY <1>5, <1>10
  <2>2. q - 1 \in O /\ ~ IsNote(c[q - 1]) /\ ln(h, q - 1) = ln(h, q) /\ \A j \in O : j <= q
      BY <1>4, <2>1
  <2>3. PICK e \in 1 .. N : places[e] = q
      BY <1>6
  <2>4. PICK d \in 1 .. N : places[d] = q - 1
      BY <1>6, <2>2
  <2>5. q \in Nat
      BY <1>2
  <2>6. e = N
    <3> SUFFICES ASSUME e # N PROVE FALSE
        OBVIOUS
    <3>1. e < N /\ N \in 1 .. N
        BY <1>2
    <3>2. places[e] < places[N] /\ places[N] \in O
        BY <1>6, <1>7, <3>1
    <3> QED BY <1>7, <2>2, <2>3, <3>1, <3>2
  <2>7. d = N - 1
    <3>1. d < N
        BY <1>6, <2>3, <2>4, <2>5, <2>6
    <3> SUFFICES ASSUME d # N - 1 PROVE FALSE
        OBVIOUS
    <3>2. N - 1 \in 1 .. N /\ d < N - 1 /\ N - 1 < N
        BY <1>2, <3>1
    <3>3. places[d] < places[N - 1] /\ places[N - 1] < places[N]
        BY <1>6, <2>3, <2>6, <3>2
    <3>4. places[N - 1] \in Nat
        BY <1>7, <3>2
    <3> QED BY <2>3, <2>4, <2>5, <2>6, <3>3, <3>4
  <2> DEFINE n == N - 1
  <2>8. n \in Nat /\ n > 0 /\ n \in 1 .. N /\ n + 1 = N /\ N \in 1 .. N
      BY <1>2, <2>7
  <2>9. lines[n + 1] = lines[n]
      BY <1>7, <2>2, <2>3, <2>4, <2>6, <2>7, <2>8
  <2>10. \A k \in 1 .. n : k \in 1 .. N /\ k < N /\ ~ IsNote(c[places[k]])
    <3> SUFFICES ASSUME NEW k \in 1 .. n PROVE k \in 1 .. N /\ k < N /\ ~ IsNote(c[places[k]])
        OBVIOUS
    <3>1. k \in 1 .. N /\ k < N /\ k \in Nat
        BY <2>8
    <3>2. places[k] < places[N] /\ places[k] \in O /\ places[N] = q
        BY <1>6, <1>7, <2>3, <2>6, <2>8, <3>1
    <3>3. IsNote(c[places[k]]) => q <= places[k]
        BY <1>4, <3>2
    <3>4. places[k] \in Nat
        BY <1>7, <3>1
    <3> QED BY <2>5, <3>1, <3>2, <3>3, <3>4
  <2>11. \A i \in O : ~ IsNote(c[i]) => \E k \in 1 .. n : places[k] = i
    <3> SUFFICES ASSUME NEW i \in O, ~ IsNote(c[i]) PROVE \E k \in 1 .. n : places[k] = i
        OBVIOUS
    <3>1. PICK k \in 1 .. N : places[k] = i
        BY <1>6
    <3>2. k # N
        BY <2>1, <2>3, <2>6, <3>1
    <3>3. k \in 1 .. n
        BY <2>8, <3>2
    <3> QED BY <3>1, <3>3
  <2> HIDE DEF n
  <2>12. \A k, l \in 1 .. n : k < l => lines[k] < lines[l]
      BY <1>8, <2>10
  <2>13. Rising(lines, n)
    <3>1. \A k, l \in 1 .. n : lines[k] < lines[l] <=> k < l
      <4> SUFFICES ASSUME NEW k \in 1 .. n, NEW l \in 1 .. n
                   PROVE  lines[k] < lines[l] <=> k < l
          OBVIOUS
      <4>1. /\ lines[k] \in Nat /\ lines[l] \in Nat /\ k \in Nat /\ l \in Nat
            /\ k < l => lines[k] < lines[l]
            /\ l < k => lines[l] < lines[k]
            /\ l = k => lines[l] = lines[k]
          BY <1>7, <2>10, <2>12
      <4> QED BY <4>1
    <3>2. n \in 0 .. Len(lines)
        BY <1>2, <1>7, <2>8
    <3> QED BY <1>7, <3>1, <3>2 DEF Rising
  <2>14. \A k, l \in 1 .. Len(lines) : k <= l => lines[k] <= lines[l]
    <3> SUFFICES ASSUME NEW k \in 1 .. N, NEW l \in 1 .. N, k <= l PROVE lines[k] <= lines[l]
        BY <1>7
    <3>1. lines[k] \in Nat /\ lines[l] \in Nat /\ k \in Nat /\ l \in Nat
        BY <1>7
    <3>2. CASE k = l
        BY <3>1, <3>2
    <3>3. CASE k < l /\ l # N
      <4>1. k \in 1 .. n /\ l \in 1 .. n
          BY <2>8, <3>1, <3>3
      <4> QED BY <2>12, <3>1, <3>3, <4>1
    <3>4. CASE k < l /\ l = N
      <4>1. k \in 1 .. n /\ lines[l] = lines[n] /\ n \in 1 .. n
          BY <2>8, <2>9, <3>1, <3>4
      <4>2. k = n \/ k < n
          BY <2>8, <4>1
      <4> QED BY <2>12, <3>1, <4>1, <4>2
    <3> QED BY <3>1, <3>2, <3>3, <3>4
  <2>15. \A x : x \in ChangedLines(h) <=> \E k \in 1 .. n : lines[k] = x
    <3>1. ASSUME NEW x, x \in ChangedLines(h) PROVE \E k \in 1 .. n : lines[k] = x
      <4>1. PICK i \in O : ~ IsNote(c[i]) /\ ln(h, i) = x
          BY <1>5, <3>1
      <4>2. PICK k \in 1 .. n : places[k] = i
          BY <2>11, <4>1
      <4> QED BY <1>7, <2>10, <4>1, <4>2
    <3>2. ASSUME NEW k \in 1 .. n PROVE lines[k] \in ChangedLines(h)
      <4>1. k \in 1 .. N /\ ~ IsNote(c[places[k]])
          BY <2>10
      <4>2. lines[k] = ln(h, places[k]) /\ places[k] \in O
          BY <1>7, <4>1
      <4> QED BY <1>5, <4>1, <4>2
    <3> QED BY <3>1, <3>2
  <2>16. NumbersOf(lines, n, h)
      BY <1>7, <1>10, <2>8, <2>9, <2>13, <2>14, <2>15 DEF NumbersOf
  <2> QED BY <1>3, <2>16
<1> QED BY <1>9, <1>10

\* The first n ranges do not touch.
ApartTo(rs, n) ==
    /\ rs \in Seq(Span) /\ DOMAIN rs = 1 .. Len(rs) /\ n \in 0 .. Len(rs)
    /\ \A m \in 1 .. n : rs[m].start <= rs[m].end
    /\ \A l \in 1 .. n : \A m \in 1 .. l - 1 : rs[m].end + 1 < rs[l].start

\* What the first k ranges hold.
Held(rs, k) == UNION {rs[m].start .. rs[m].end : m \in 1 .. k}

\* The first n ranges hold the changed lines of a hunk and no other, and do not
\* touch; a last line without a newline has one more range.
Marking(marks, n, h) ==
    /\ ApartTo(marks, n)
    /\ Held(marks, n) = ChangedLines(h)
    /\ ~ EndsUnterminated(h) => Len(marks) = n
    /\ EndsUnterminated(h) => /\ n > 0 /\ Len(marks) = n + 1
                              /\ marks[n + 1] = [start |-> marks[n].end, end |-> marks[n].end]

LEMMA MarksOfHunk ==
    ASSUME NEW h \in Hunk, NotesInPlace(h)
    PROVE  \E n : Marking(highlightsOf(h), n, h)
<1>1. PICK lines, n : highlightsOf(h) = coalesce(lines) /\ NumbersOf(lines, n, h)
    BY NumbersOfHunk
<1>2. /\ lines \in Seq(Nat) /\ n \in 0 .. Len(lines) /\ Len(lines) \in Nat /\ n \in Nat
      /\ Rising(lines, n) /\ \A k, l \in 1 .. Len(lines) : k <= l => lines[k] <= lines[l]
    BY <1>1 DEF NumbersOf, Rising
<1>3. PICK f : Steps(f, lines) /\ coalesce(lines) = f[Len(lines)]
    BY <1>2, CoalesceSteps
<1> DEFINE rs == f[n]
           L == Len(rs)
           marks == highlightsOf(h)
<1>4. Groups(rs, lines, n)
    BY <1>2, <1>3, CoalesceGroups
<1>5. marks = f[Len(lines)]
    BY <1>1, <1>3
<1> HIDE DEF rs, marks
<1>6. /\ rs \in Seq(Span) /\ L \in Nat /\ \A m \in 1 .. L : rs[m].start <= rs[m].end
      /\ \A l \in 1 .. L : \A m \in 1 .. l - 1 : rs[m].end + 1 < rs[l].start
      /\ \A m \in 1 .. L : rs[m] \in Span
  <2>1. rs \in Seq(Span)
      BY <1>4 DEF Groups
  <2>2. L \in Nat /\ \A m \in 1 .. L : rs[m] \in Span
      BY <2>1
  <2> QED BY <1>4, <2>1, <2>2 DEF Groups
<1>7. Held(rs, L) = ChangedLines(h)
  <2>1. \A x : x \in Held(rs, L) <=> \E m \in 1 .. L : x \in rs[m].start .. rs[m].end
      BY DEF Held
  <2>2. \A x : (\E m \in 1 .. L : x \in rs[m].start .. rs[m].end) <=> \E k \in 1 .. n : lines[k] = x
      BY <1>4 DEF Groups
  <2>3. \A x : x \in ChangedLines(h) <=> \E k \in 1 .. n : lines[k] = x
      BY <1>1 DEF NumbersOf
  <2> QED BY <2>1, <2>2, <2>3
<1>8. CASE ~ EndsUnterminated(h)
  <2>1. marks = rs
      BY <1>1, <1>5, <1>8 DEF NumbersOf, rs
  <2>2. ApartTo(rs, L)
    <3>1. DOMAIN rs = 1 .. L /\ L \in 0 .. L
        BY <1>6
    <3> QED BY <1>6, <3>1 DEF ApartTo
  <2> QED BY <1>7, <1>8, <2>1, <2>2 DEF Marking, marks
<1>9. CASE EndsUnterminated(h)
  <2> DEFINE x == lines[n]
             again == [start |-> x, end |-> x]
  <2>1. n > 0 /\ Len(lines) = n + 1 /\ lines[n + 1] = x /\ n \in 1 .. Len(lines) /\ x \in Nat
      BY <1>1, <1>2, <1>9 DEF NumbersOf
  <2>2. rs # << >> /\ rs[L].end = x /\ L > 0
      BY <1>4, <1>6, <2>1 DEF Groups
  <2>3. marks = Extend(rs, x)
    <3>1. n + 1 \in 0 .. Len(lines) /\ n + 1 # 0 /\ (n + 1) - 1 = n
        BY <1>2, <2>1
    <3>2. f[n + 1] = Extend(f[n], lines[n + 1])
        BY <1>3, <3>1 DEF Steps
    <3> QED BY <1>5, <2>1, <3>2 DEF rs
  <2>4. marks = Append(rs, again)
    <3>1. rs[L].end + 1 # x
        BY <2>1, <2>2
    <3> QED BY <2>3, <3>1 DEF Extend
  <2>5. again \in Span
      BY <2>1 DEF Span
  <2> HIDE DEF again
  <2>6. /\ marks \in Seq(Span) /\ Len(marks) = L + 1 /\ DOMAIN marks = 1 .. Len(marks)
        /\ \A m \in 1 .. L : marks[m] = rs[m]
        /\ marks[L + 1] = again
      BY <1>6, <2>4, <2>5
  <2>7. ApartTo(marks, L)
    <3>1. \A l \in 1 .. L : \A m \in 1 .. l - 1 : marks[m] = rs[m] /\ marks[l] = rs[l]
        BY <1>6, <2>6
    <3>2. L \in 0 .. Len(marks)
        BY <1>6, <2>6
    <3> QED BY <1>6, <2>6, <3>1, <3>2 DEF ApartTo
  <2>8. Held(marks, L) = Held(rs, L)
      BY <2>6 DEF Held
  <2>9. L \in 1 .. L /\ marks[L].end = x
      BY <1>6, <2>2, <2>6
  <2>10. marks[L + 1] = [start |-> marks[L].end, end |-> marks[L].end]
      BY <2>6, <2>9 DEF again
  <2> QED BY <1>7, <1>9, <2>2, <2>6, <2>7, <2>8, <2>10 DEF Marking, marks
<1> QED BY <1>8, <1>9

\* The ranges of a card hold the changed lines of its hunk and no other.
LEMMA Highlights ==
    ASSUME NEW h \in Hunk, NotesInPlace(h)
    PROVE  LET marks == highlightsOf(h) IN
           /\ marks \in Seq(Span) /\ DOMAIN marks = 1 .. Len(marks)
           /\ \A m \in 1 .. Len(marks) : marks[m].start <= marks[m].end
           /\ UNION {m.start .. m.end : m \in Range(marks)} = ChangedLines(h)
<1> DEFINE marks == highlightsOf(h)
<1>1. PICK n : Marking(marks, n, h)
    BY MarksOfHunk
<1> HIDE DEF marks
<1>2. /\ marks \in Seq(Span) /\ DOMAIN marks = 1 .. Len(marks) /\ n \in Nat /\ Len(marks) \in Nat
      /\ n <= Len(marks) /\ \A m \in 1 .. n : marks[m].start <= marks[m].end
      /\ \A m \in 1 .. Len(marks) : marks[m] \in Span
  <2>1. ApartTo(marks, n)
      BY <1>1 DEF Marking
  <2>2. /\ marks \in Seq(Span) /\ DOMAIN marks = 1 .. Len(marks) /\ n \in 0 .. Len(marks)
        /\ \A m \in 1 .. n : marks[m].start <= marks[m].end
      BY <2>1 DEF ApartTo
  <2>3. Len(marks) \in Nat /\ n \in Nat /\ n <= Len(marks)
      BY <2>2
  <2>4. \A m \in 1 .. Len(marks) : marks[m] \in Span
      BY <2>2, ElementOfSeq
  <2> QED BY <2>2, <2>3, <2>4
<1>3. Held(marks, n) = ChangedLines(h)
    BY <1>1 DEF Marking
<1>4. ASSUME NEW m \in 1 .. Len(marks)
      PROVE  /\ marks[m].start <= marks[m].end
             /\ marks[m].start .. marks[m].end \subseteq ChangedLines(h)
  <2>1. CASE m \in 1 .. n
      BY <1>2, <1>3, <2>1 DEF Held
  <2>2. CASE m \notin 1 .. n
    <3>1. Len(marks) = n + 1 /\ n > 0 /\ marks[n + 1] = [start |-> marks[n].end, end |-> marks[n].end]
      <4>1. Len(marks) # n
          BY <1>2, <2>2
      <4> QED BY <1>1, <4>1 DEF Marking
    <3>2. m = n + 1 /\ n \in 1 .. n /\ n \in 1 .. Len(marks)
        BY <1>2, <2>2, <3>1
    <3> DEFINE a == marks[n].start
               b == marks[n].end
    <3>3. marks[m].start = b /\ marks[m].end = b /\ a \in Nat /\ b \in Nat /\ a <= b
        BY <1>2, <3>1, <3>2 DEF Span
    <3>4. a .. b \subseteq ChangedLines(h)
        BY <1>3, <3>2 DEF Held
    <3> HIDE DEF a, b
    <3>5. b .. b \subseteq a .. b /\ b <= b
        BY <3>3
    <3> QED BY <3>3, <3>4, <3>5
  <2> QED BY <2>1, <2>2
<1>5. ASSUME NEW x \in ChangedLines(h) PROVE x \in UNION {m.start .. m.end : m \in Range(marks)}
  <2>1. PICK m \in 1 .. n : x \in marks[m].start .. marks[m].end
      BY <1>3 DEF Held
  <2>2. m \in 1 .. Len(marks)
      BY <1>2
  <2>3. marks[m] \in Range(marks)
      BY <1>2, <2>2 DEF Range
  <2> QED BY <2>1, <2>3
<1>6. ASSUME NEW x \in UNION {m.start .. m.end : m \in Range(marks)} PROVE x \in ChangedLines(h)
  <2>1. PICK r \in Range(marks) : x \in r.start .. r.end
      OBVIOUS
  <2>2. PICK m \in 1 .. Len(marks) : r = marks[m]
      BY <1>2 DEF Range
  <2> QED BY <1>4, <2>1, <2>2
<1> QED BY <1>2, <1>4, <1>5, <1>6 DEF marks

-----------------------------------------------------------------------------
(* The cards.                                                              *)

LEMMA CardType ==
    ASSUME DeckInv, NEW h \in Hunk, NotesInPlace(h), NEW tier \in Tiers
    PROVE  CardOf(h, tier, toFindings(results)) \in Card
<1> DEFINE print == fingerprintChunk(h.file, h.changes)
           review == findingByFingerprint(toFindings(results), print)
           marks == highlightsOf(h)
<1>1. h.file \in Path /\ h.changes \in Seq(Change)
    BY DEF Hunk
<1>2. print \in Path \X Seq(Change)
    BY <1>1, FingerprintType
<1>3. marks \in Seq(Span)
    BY Highlights
<1>4. review \in [file : Path \cup {0}, changes : Seq(Change)]
  <2>1. review = NoReview \/ review \in Review
    <3>1. review # NoReview => print \in DOMAIN cache /\ review = cache[print]
        BY ReviewOfCard
    <3> HIDE DEF review, print
    <3> QED BY <3>1 DEF DeckInv, Rows
  <2>2. NoReview \in [file : Path \cup {0}, changes : Seq(Change)]
      BY DEF NoReview
  <2>3. Review \subseteq [file : Path \cup {0}, changes : Seq(Change)]
      BY DEF Review
  <2> HIDE DEF review
  <2> QED BY <2>1, <2>2, <2>3
<1>5. CardOf(h, tier, toFindings(results))
        = [fingerprint |-> print, file |-> h.file, tier |-> tier, side |-> side(h),
           highlights |-> marks, review |-> review]
    BY DEF CardOf
<1>6. side(h) \in {"R", "L"}
    BY DEF side
<1> HIDE DEF print, review, marks
<1> QED BY <1>1, <1>2, <1>3, <1>4, <1>5, <1>6 DEF Card, Tiers, Span

\* The pass reads no more hunks than the share of High.
LEMMA FewSelected ==
    ASSUME NEW hs, Anchored(hs)
    PROVE  Len(selectReviewChunks(buildReviewChunks(hs))) <= highCount(Len(hs))
<1> DEFINE D == DOMAIN hs
           o == Ranking(hs)
           cs == buildReviewChunks(hs)
           high == {i \in D : cs[i].tier = "High"}
           K == {k \in D : TiersOf(hs)[k] = "High"}
           n == Cardinality(Candidates(hs))
           f == [k \in K |-> o[k]]
           g == [k \in K |-> Cardinality(RealBefore(hs, k)) + 1]
<1>1. hs \in Seq(Hunk) /\ D = 1 .. Len(hs) /\ Len(hs) \in Nat
    BY Hunks DEF Anchored
<1>2. n \in Nat /\ n <= Len(hs)
    BY <1>1, RealChanges
<1>3. highCount(n) \in Nat /\ highCount(n) <= highCount(Len(hs)) /\ highCount(Len(hs)) \in Nat
  <2> HIDE DEF n
  <2> QED BY <1>1, <1>2, HighCount
<1>4. Len(selectReviewChunks(cs)) = Cardinality(high) /\ IsFiniteSet(high)
    BY SelectedChunks
<1>5. \A k \in D : o[k] \in D /\ cs[o[k]].tier = TiersOf(hs)[k]
    BY <1>1, ChunksOfDiff, RankedHunk
<1>6. f \in Surjection(K, high)
  <2>1. f \in [K -> high]
      BY <1>5
  <2>2. ASSUME NEW i \in high PROVE \E k \in K : f[k] = i
    <3>1. PICK k \in D : o[k] = i
        BY <1>1, PlaceOfHunk
    <3>2. k \in K
        BY <1>5, <3>1
    <3> QED BY <3>1, <3>2
  <2> HIDE DEF f
  <2> QED BY <2>1, <2>2 DEF Surjection
<1>7. IsFiniteSet(K)
  <2>1. K \subseteq D
      OBVIOUS
  <2> QED BY <1>1, <2>1, Hunks, FS_Subset
<1>8. \A k \in K : /\ o[k] \in Candidates(hs) /\ k \in D
                   /\ Cardinality(RealBefore(hs, k)) \in Nat /\ IsFiniteSet(RealBefore(hs, k))
                   /\ Cardinality(RealBefore(hs, k)) < highCount(n)
  <2> SUFFICES ASSUME NEW k \in D, TiersOf(hs)[k] = "High"
               PROVE  /\ o[k] \in Candidates(hs)
                      /\ Cardinality(RealBefore(hs, k)) \in Nat /\ IsFiniteSet(RealBefore(hs, k))
                      /\ Cardinality(RealBefore(hs, k)) < highCount(n)
      OBVIOUS
  <2> QED BY <1>1, RealChanges, TierInRanking
<1>9. ASSUME NEW k \in K, NEW l \in K, k < l PROVE g[k] < g[l]
  <2>1. k \in 1 .. l - 1
    <3>1. k \in D /\ l \in D
        BY <1>8
    <3> QED BY <1>1, <1>9, <3>1
  <2>2. RealBefore(hs, k) \subseteq RealBefore(hs, l) /\ k \in RealBefore(hs, l)
    <3>1. 1 .. k - 1 \subseteq 1 .. l - 1
        BY <1>1, <2>1
    <3> QED BY <1>8, <2>1, <3>1 DEF RealBefore
  <2>3. k \notin RealBefore(hs, k)
    <3>1. k \notin 1 .. k - 1
        BY <1>1
    <3> QED BY <3>1 DEF RealBefore
  <2>4. /\ Cardinality(RealBefore(hs, k)) <= Cardinality(RealBefore(hs, l))
        /\ Cardinality(RealBefore(hs, k)) # Cardinality(RealBefore(hs, l))
      BY <1>8, <2>2, <2>3, FS_Subset
  <2>5. /\ Cardinality(RealBefore(hs, k)) \in Nat /\ Cardinality(RealBefore(hs, l)) \in Nat
      BY <1>8
  <2> QED BY <2>4, <2>5
<1>10. g \in Injection(K, 1 .. highCount(n))
  <2>1. ASSUME NEW k \in K PROVE g[k] \in 1 .. highCount(n)
    <3> HIDE DEF n
    <3> QED BY <1>3, <1>8
  <2>2. g \in [K -> 1 .. highCount(n)]
    <3> HIDE DEF n
    <3> QED BY <2>1
  <2>3. ASSUME NEW k \in K, NEW l \in K, g[k] = g[l] PROVE k = l
    <3>1. k \in Nat /\ l \in Nat /\ g[k] \in Nat
        BY <1>1, <1>8
    <3> HIDE DEF g, K
    <3> QED BY <1>9, <2>3, <3>1
  <2> HIDE DEF g, K
  <2> QED BY <2>2, <2>3 DEF Injection, IsInjective
<1>11. Cardinality(high) <= Cardinality(K)
    BY <1>6, <1>7, FS_Surjection
<1>12. Cardinality(K) <= highCount(n)
  <2>1. IsFiniteSet(1 .. highCount(n)) /\ Cardinality(1 .. highCount(n)) = highCount(n)
      BY <1>3, Interval
  <2> QED BY <1>10, <2>1, FS_Injection
<1>13. Cardinality(high) \in Nat /\ Cardinality(K) \in Nat
    BY <1>4, <1>7, FS_CardinalityType
<1> HIDE DEF high, K, n, cs
<1> QED BY <1>3, <1>4, <1>11, <1>12, <1>13 DEF cs

\* The cards of the last run are typed.
Cards == deck \in Seq(Card)

LEMMA CardsTyped == Spec => []Cards
<1>1. ASSUME DeckInv PROVE buildDeck(diff, toFindings(results)) \in Seq(Card)
  <2> DEFINE d == buildDeck(diff, toFindings(results))
  <2>1. Anchored(diff) /\ diff \in Seq(Hunk)
      BY <1>1, FetchedIsAnchored DEF DeckInv, Anchored
  <2>2. DOMAIN d = 1 .. Len(diff) /\ Len(diff) \in Nat /\ DOMAIN diff = 1 .. Len(diff)
      BY <2>1, CardOfHunk, Hunks
  <2>3. ASSUME NEW k \in DOMAIN diff PROVE d[k] \in Card
    <3> DEFINE h == diff[Ranking(diff)[k]]
               tier == TiersOf(diff)[k]
    <3>1. /\ h \in Hunk /\ d[k] = CardOf(h, tier, toFindings(results))
          /\ Ranking(diff)[k] \in DOMAIN diff
        BY <2>1, CardOfHunk
    <3>2. tier \in Tiers
        BY <2>1, TierInRanking
    <3>3. NotesInPlace(h)
        BY <1>1, <3>1, FetchedIsNoted DEF DeckInv
    <3> HIDE DEF h, tier, d
    <3> QED BY <1>1, <3>1, <3>2, <3>3, CardType
  <2>4. d = [k \in DOMAIN d |-> d[k]]
      BY DEF buildDeck
  <2> HIDE DEF d
  <2> DEFINE n == Len(diff)
  <2>5. d \in [1 .. n -> Card] /\ n \in Nat
      BY <2>2, <2>3, <2>4
  <2> HIDE DEF n
  <2>6. d \in Seq(Card)
      BY <2>5
  <2> QED BY <2>6 DEF d
<1>2. Init => Cards
    BY DEF Init, Cards
<1>3. DeckInv /\ Cards /\ [Next]_vars => Cards'
  <2> SUFFICES ASSUME DeckInv, Cards, [Next]_vars PROVE Cards'
      OBVIOUS
  <2> USE DEF Cards
  <2>1. CASE persistDeck
      BY <1>1, <2>1 DEF persistDeck
  <2>2. CASE Run \/ CacheHit \/ reviewChunk \/ PassFails \/ replaceForPr \/ UNCHANGED vars
      BY <2>2 DEF Run, CacheHit, reviewChunk, PassFails, replaceForPr, vars
  <2> QED BY <2>1, <2>2 DEF Next
<1> QED BY <1>2, <1>3, DeckInductive, PTL DEF Spec

\* Types, and the bound on the hunks a run pays a model call for
\* (selectReviewChunks).
THEOREM DeckTypeCorrect == Spec => []TypeOK
<1>1. ASSUME DeckInv, Cards PROVE TypeOK
  <2>1. Anchored(diff) /\ diff \in Seq(Hunk)
      BY <1>1, FetchedIsAnchored DEF DeckInv, Anchored
  <2>2. Len(selected) <= highCount(Len(diff))
      BY <1>1, <2>1, FewSelected DEF DeckInv, Pass
  <2>3. \A p \in DOMAIN cache : p \in Path \X Seq(Change)
    <3> SUFFICES ASSUME NEW p \in DOMAIN cache PROVE p \in Path \X Seq(Change)
        OBVIOUS
    <3>1. cache[p] \in Review /\ fingerprintChunk(cache[p].file, cache[p].changes) = p
        BY <1>1 DEF DeckInv, Rows
    <3>2. cache[p].file \in Path /\ cache[p].changes \in Seq(Change)
        BY <3>1 DEF Review
    <3> QED BY <3>1, <3>2, FingerprintType
  <2> QED BY <1>1, <2>1, <2>2, <2>3 DEF TypeOK, DeckInv, Pass, Outcome, Cards
<1> QED BY <1>1, DeckInductive, CardsTyped, PTL

\* What a card of a finished run says of its hunk.
LEMMA CardOfDone ==
    ASSUME DeckInv, Cards, Done, NEW k \in DOMAIN deck
    PROVE  LET h == diff[Ranking(diff)[k]] IN
           /\ h \in Hunk /\ Ranking(diff)[k] \in DOMAIN diff /\ NotesInPlace(h)
           /\ deck[k].file = h.file /\ deck[k].side = side(h)
           /\ deck[k].highlights = highlightsOf(h)
<1> DEFINE h == diff[Ranking(diff)[k]]
<1>1. Anchored(diff) /\ deck = buildDeck(diff, toFindings(results))
    BY FetchedIsAnchored DEF DeckInv, Outcome
<1>2. k \in DOMAIN diff
    BY <1>1, CardOfHunk
<1>3. /\ h \in Hunk /\ Ranking(diff)[k] \in DOMAIN diff
      /\ deck[k] = CardOf(h, TiersOf(diff)[k], toFindings(results))
    BY <1>1, <1>2, CardOfHunk
<1>4. NotesInPlace(h)
    BY <1>3, FetchedIsNoted DEF DeckInv
<1> HIDE DEF h
<1> QED BY <1>3, <1>4 DEF CardOf, h

\* Swiping the deck means seeing every changed line: each hunk has one card, in
\* the order of the ranking, that marks exactly its changed lines (buildDeck),
\* in ranges that do not touch unless a last line without a newline is marked
\* once more (coalesce).
THEOREM WholeDiffOnCards == Spec => []EveryHunkOnItsCard
<1>1. ASSUME DeckInv, Cards PROVE EveryHunkOnItsCard
  <2> DEFINE OnCard(h, card) ==
               LET marks == card.highlights IN
               /\ card.file = h.file /\ card.side = side(h)
               /\ UNION {m.start .. m.end : m \in Range(marks)} = ChangedLines(h)
               /\ \A m \in DOMAIN marks : marks[m].start <= marks[m].end
               /\ \A m \in 1 .. Len(marks) - 1 :
                     \/ marks[m].end + 1 < marks[m + 1].start
                     \/ /\ EndsUnterminated(h) /\ m + 1 = Len(marks)
                        /\ marks[m + 1] = [start |-> marks[m].end, end |-> marks[m].end]
  <2> SUFFICES ASSUME Done
               PROVE  /\ Len(deck) = Len(diff)
                      /\ \A k \in DOMAIN deck : OnCard(diff[Ranking(diff)[k]], deck[k])
      BY DEF EveryHunkOnItsCard
  <2>1. Len(deck) = Len(diff)
    <3>1. Anchored(diff) /\ diff \in Seq(Hunk) /\ deck = buildDeck(diff, toFindings(results))
        BY <1>1, FetchedIsAnchored DEF DeckInv, Outcome, Anchored
    <3>2. DOMAIN deck = DOMAIN diff
        BY <3>1, CardOfHunk
    <3> QED BY <1>1, <3>1, <3>2 DEF Cards
  <2>2. ASSUME NEW k \in DOMAIN deck
        PROVE  OnCard(diff[Ranking(diff)[k]], deck[k])
    <3> DEFINE h == diff[Ranking(diff)[k]]
               marks == deck[k].highlights
    <3>1. /\ h \in Hunk /\ NotesInPlace(h)
          /\ deck[k].file = h.file /\ deck[k].side = side(h) /\ marks = highlightsOf(h)
        BY <1>1, CardOfDone
    <3> HIDE DEF h, marks
    <3>2. /\ UNION {m.start .. m.end : m \in Range(marks)} = ChangedLines(h)
          /\ \A m \in DOMAIN marks : marks[m].start <= marks[m].end
        BY <3>1, Highlights
    <3>3. PICK n : Marking(marks, n, h)
        BY <3>1, MarksOfHunk
    <3>4. /\ n \in Nat /\ Len(marks) \in Nat
          /\ \A l \in 1 .. n : \A m \in 1 .. l - 1 : marks[m].end + 1 < marks[l].start
      <4>1. marks \in Seq(Span) /\ n \in 0 .. Len(marks)
          BY <3>3 DEF Marking, ApartTo
      <4> QED BY <3>3, <4>1 DEF Marking, ApartTo
    <3>5. ASSUME NEW m \in 1 .. Len(marks) - 1
          PROVE  \/ marks[m].end + 1 < marks[m + 1].start
                 \/ /\ EndsUnterminated(h) /\ m + 1 = Len(marks)
                    /\ marks[m + 1] = [start |-> marks[m].end, end |-> marks[m].end]
      <4>1. CASE m + 1 \in 1 .. n
        <5>1. m \in 1 .. (m + 1) - 1
            BY <3>4
        <5> QED BY <3>4, <4>1, <5>1
      <4>2. CASE m + 1 \notin 1 .. n
        <5>1. Len(marks) # n
            BY <3>4, <4>2
        <5>2. EndsUnterminated(h) /\ Len(marks) = n + 1
              /\ marks[n + 1] = [start |-> marks[n].end, end |-> marks[n].end]
            BY <3>3, <5>1 DEF Marking
        <5>3. m = n
            BY <3>4, <4>2, <5>2
        <5> QED BY <5>2, <5>3
      <4> QED BY <4>1, <4>2
    <3> QED BY <3>1, <3>2, <3>5 DEF h, marks
  <2> HIDE DEF OnCard
  <2> QED BY <2>1, <2>2
<1> QED BY <1>1, DeckInductive, CardsTyped, PTL

\* A review comment is placed on changed lines of its card's hunk only, and the
\* composer announces the place exactly when there is one (cardCommentAnchor,
\* toCardView).
THEOREM CommentOnChangedLines == Spec => []CommentSitsOnTheDiff
<1>1. ASSUME DeckInv, Cards PROVE CommentSitsOnTheDiff
  <2> SUFFICES ASSUME Done, NEW k \in DOMAIN deck
               PROVE  LET h == diff[Ranking(diff)[k]]  anchor == cardCommentAnchor(deck[k]) IN
                      /\ toCardView(deck[k], << >>).commentAnchored <=> anchor # NoAnchor
                      /\ anchor # NoAnchor =>
                            /\ side(h) = "R" /\ anchor.file = h.file
                            /\ anchor.startLine <= anchor.line
                            /\ anchor.startLine .. anchor.line \subseteq ChangedLines(h)
      BY DEF CommentSitsOnTheDiff
  <2> DEFINE h == diff[Ranking(diff)[k]]
             card == deck[k]
             marks == card.highlights
             right == OfSide(card, "R")
             anchor == cardCommentAnchor(card)
  <2>1. /\ h \in Hunk /\ card.file = h.file /\ card.side = side(h) /\ marks = highlightsOf(h)
        /\ NotesInPlace(h)
      BY <1>1, CardOfDone
  <2> HIDE DEF h, card
  <2>2. toCardView(card, << >>).commentAnchored <=> right # << >>
      BY DEF toCardView
  <2>3. CASE right = << >>
      BY <2>2, <2>3 DEF cardCommentAnchor, card, right
  <2>4. CASE right # << >>
    <3>1. card.side = "R" /\ right = marks
        BY <2>4 DEF OfSide
    <3>2. /\ marks \in Seq(Span) /\ \A m \in 1 .. Len(marks) : marks[m].start <= marks[m].end
          /\ UNION {m.start .. m.end : m \in Range(marks)} = ChangedLines(h)
        BY <2>1, Highlights
    <3>3. anchor = [file |-> card.file, startLine |-> right[1].start, line |-> right[1].end]
        BY <2>4 DEF cardCommentAnchor
    <3> HIDE DEF right, marks, anchor
    <3>4. 1 \in 1 .. Len(marks) /\ 1 \in DOMAIN marks
        BY <2>4, <3>1, <3>2
    <3>5. marks[1].start .. marks[1].end \subseteq ChangedLines(h)
      <4>1. marks[1] \in Range(marks)
          BY <3>4 DEF Range
      <4> QED BY <3>2, <4>1
    <3>6. /\ anchor.file = h.file /\ anchor.startLine = marks[1].start
          /\ anchor.line = marks[1].end
        BY <2>1, <3>1, <3>3
    <3>7. anchor # NoAnchor
      <4>1. h.file \in Path /\ NoAnchor.file = 0
          BY <2>1 DEF Hunk, NoAnchor
      <4> QED BY <3>6, <4>1, PathsAreNumbers
    <3> QED BY <2>1, <2>2, <2>4, <3>1, <3>2, <3>4, <3>5, <3>6, <3>7 DEF h, card, right, anchor
  <2> QED BY <2>3, <2>4
<1> QED BY <1>1, DeckInductive, CardsTyped, PTL

-----------------------------------------------------------------------------
(* The code of a card.                                                     *)

\* mergeWindows takes one window after the other.
Join(merged, w) ==
    IF merged # << >> /\ w.start <= Last(merged).end + 1
    THEN [merged EXCEPT ![Len(merged)].end = Max({@, w.end})]
    ELSE Append(merged, w)

\* The windows rs hold what the first k of the windows ws hold, apart from each
\* other.
Merges(rs, ws, k) ==
    /\ rs \in Seq(Span)
    /\ \A m \in 1 .. Len(rs) : rs[m].start <= rs[m].end
    /\ \A l \in 1 .. Len(rs) : \A m \in 1 .. l - 1 : rs[m].end + 1 < rs[l].start
    /\ \A j \in 1 .. k : \A x \in ws[j].start .. ws[j].end :
          \E m \in 1 .. Len(rs) : x \in rs[m].start .. rs[m].end
    /\ \A m \in 1 .. Len(rs) : \A x \in rs[m].start .. rs[m].end :
          \E j \in 1 .. k : x \in ws[j].start .. ws[j].end
    /\ k > 0 => rs # << >> /\ rs[Len(rs)].start <= ws[k].start

\* Windows in the order of their starts.
InOrderOfStarts(ws) ==
    /\ ws \in Seq(Span)
    /\ \A l \in 1 .. Len(ws) : ws[l].start <= ws[l].end
    /\ \A l \in 1 .. Len(ws) : \A k \in 1 .. l : ws[k].start <= ws[l].start

LEMMA JoinType ==
    ASSUME NEW rs \in Seq(Span), NEW w \in Span
    PROVE  Join(rs, w) \in Seq(Span)
<1> DEFINE L == Len(rs)
           e == Max({rs[L].end, w.end})
<1>1. CASE rs # << >> /\ w.start <= rs[L].end + 1
  <2>1. L \in 1 .. L /\ rs[L] \in Span
      BY <1>1
  <2>2. rs[L].end \in Nat /\ w.end \in Nat
      BY <2>1 DEF Span
  <2>3. e \in Nat
    <3> DEFINE x == rs[L].end
               y == w.end
    <3>1. x \in Nat /\ y \in Nat /\ x \in Int /\ y \in Int
        BY <2>2
    <3> HIDE DEF x, y
    <3>2. Max({x, y}) \in {x, y}
        BY <3>1, Larger
    <3> QED BY <3>1, <3>2 DEF x, y
  <2>4. Join(rs, w) = [rs EXCEPT ![L].end = e]
      BY <1>1 DEF Join, Last
  <2> HIDE DEF e
  <2> QED BY <1>1, <2>3, <2>4, LastMoved
<1>2. CASE ~(rs # << >> /\ w.start <= rs[L].end + 1)
  <2>1. Join(rs, w) = Append(rs, w)
      BY <1>2 DEF Join, Last
  <2> QED BY <2>1
<1> QED BY <1>1, <1>2

LEMMA JoinMerges ==
    ASSUME NEW ws, InOrderOfStarts(ws), NEW k \in Nat, k + 1 <= Len(ws),
           NEW rs, Merges(rs, ws, k)
    PROVE  Merges(Join(rs, ws[k + 1]), ws, k + 1)
<1> DEFINE w == ws[k + 1]
           L == Len(rs)
           new == Join(rs, w)
           last == rs[L].end
           e == Max({last, w.end})
<1>1. /\ ws \in Seq(Span) /\ k + 1 \in 1 .. Len(ws) /\ w \in Span
      /\ w.start \in Nat /\ w.end \in Nat /\ w.start <= w.end
      /\ k > 0 => ws[k].start <= w.start /\ ws[k].start \in Nat
  <2>1. ws \in Seq(Span) /\ k + 1 \in 1 .. Len(ws) /\ (k > 0 => k \in 1 .. k + 1 /\ k \in 1 .. Len(ws))
      BY DEF InOrderOfStarts
  <2>2. w \in Span /\ (k > 0 => ws[k] \in Span)
      BY <2>1
  <2> QED BY <2>1, <2>2 DEF InOrderOfStarts, Span
<1>2. /\ rs \in Seq(Span) /\ L \in Nat
      /\ \A m \in 1 .. L : rs[m].start \in Nat /\ rs[m].end \in Nat /\ rs[m].start <= rs[m].end
      /\ \A l \in 1 .. L : \A m \in 1 .. l - 1 : rs[m].end + 1 < rs[l].start
  <2>1. rs \in Seq(Span)
      BY DEF Merges
  <2>2. L \in Nat /\ \A m \in 1 .. L : rs[m] \in Span
      BY <2>1
  <2> QED BY <2>1, <2>2 DEF Merges, Span
<1>3. L > 0 => k > 0 /\ rs[L].start <= w.start /\ L \in 1 .. L
  <2> SUFFICES ASSUME L > 0 PROVE k > 0 /\ rs[L].start <= w.start /\ L \in 1 .. L
      OBVIOUS
  <2>1. L \in 1 .. L /\ rs[L].start \in rs[L].start .. rs[L].end /\ rs[L].start \in Nat
      BY <1>2
  <2>2. \E j \in 1 .. k : rs[L].start \in ws[j].start .. ws[j].end
      BY <2>1 DEF Merges
  <2>3. k > 0
      BY <2>2
  <2>4. rs[L].start <= ws[k].start
      BY <2>3 DEF Merges
  <2> QED BY <1>1, <2>1, <2>3, <2>4
<1>4. rs # << >> <=> L > 0
    BY <1>2
<1>5. k + 1 > 0 /\ k + 1 \in 1 .. k + 1 /\ \A j \in 1 .. k + 1 : j \in 1 .. k \/ j = k + 1
    OBVIOUS
<1> HIDE DEF w
<1>6. CASE L > 0 /\ w.start <= last + 1
  <2>1. /\ last \in Nat /\ rs[L].start \in Nat /\ rs[L].start <= last /\ rs[L].start <= w.start
        /\ L \in 1 .. L
      BY <1>2, <1>3, <1>6
  <2>2. e \in Nat /\ e >= last /\ e >= w.end /\ (e = last \/ e = w.end)
    <3> DEFINE y == w.end
    <3>1. last \in Nat /\ y \in Nat /\ last \in Int /\ y \in Int
        BY <1>1, <2>1
    <3> HIDE DEF last, y
    <3>2. Max({last, y}) \in {last, y} /\ Max({last, y}) >= last /\ Max({last, y}) >= y
        BY <3>1, Larger
    <3> QED BY <3>1, <3>2 DEF y
  <2>3. new = [rs EXCEPT ![L].end = e]
      BY <1>4, <1>6 DEF Join, Last
  <2> HIDE DEF e, new
  <2>4. /\ new \in Seq(Span) /\ Len(new) = L
        /\ \A m \in 1 .. L - 1 : new[m] = rs[m]
        /\ new[L].start = rs[L].start /\ new[L].end = e
      BY <1>2, <1>4, <1>6, <2>2, <2>3, LastMoved
  <2>5. \A m \in 1 .. L : m \in 1 .. L - 1 \/ m = L
      BY <1>2
  <2>6. ASSUME NEW m \in 1 .. L
        PROVE  /\ new[m].start = rs[m].start /\ new[m].end \in Nat
               /\ rs[m].end <= new[m].end /\ new[m].start <= new[m].end
    <3>1. rs[m].start \in Nat /\ rs[m].end \in Nat /\ rs[m].start <= rs[m].end
        BY <1>2
    <3>2. CASE m = L
        BY <2>1, <2>2, <2>4, <3>1, <3>2
    <3>3. CASE m \in 1 .. L - 1
        BY <2>4, <3>1, <3>3
    <3> QED BY <2>5, <3>2, <3>3
  <2>7. ASSUME NEW l \in 1 .. L, NEW m \in 1 .. l - 1 PROVE new[m].end + 1 < new[l].start
    <3>1. m \in 1 .. L - 1 /\ new[m] = rs[m] /\ new[l].start = rs[l].start
        BY <1>2, <2>4, <2>6
    <3> QED BY <1>2, <3>1
  <2>8. ASSUME NEW j \in 1 .. k + 1, NEW x \in ws[j].start .. ws[j].end
        PROVE  \E m \in 1 .. L : x \in new[m].start .. new[m].end
    <3>1. CASE j = k + 1
      <4>1. x \in w.start .. w.end
          BY <3>1 DEF w
      <4>2. x \in new[L].start .. new[L].end
          BY <1>1, <2>1, <2>2, <2>4, <4>1
      <4> QED BY <2>1, <4>2
    <3>2. CASE j \in 1 .. k
      <4>1. PICK m \in 1 .. L : x \in rs[m].start .. rs[m].end
          BY <3>2 DEF Merges
      <4>2. /\ new[m].start = rs[m].start /\ rs[m].end <= new[m].end /\ new[m].end \in Nat
            /\ rs[m].start \in Nat /\ rs[m].end \in Nat
          BY <1>2, <2>6
      <4> QED BY <4>1, <4>2
    <3> QED BY <1>5, <3>1, <3>2
  <2>9. ASSUME NEW m \in 1 .. L, NEW x \in new[m].start .. new[m].end
        PROVE  \E j \in 1 .. k + 1 : x \in ws[j].start .. ws[j].end
    <3>1. CASE x \in rs[m].start .. rs[m].end
      <4>1. PICK j \in 1 .. k : x \in ws[j].start .. ws[j].end
          BY <3>1 DEF Merges
      <4> QED BY <4>1
    <3>2. CASE ~(x \in rs[m].start .. rs[m].end)
      <4>1. m = L
          BY <2>4, <2>5, <3>2
      <4>2. x \in w.start .. w.end
          BY <1>1, <1>6, <2>1, <2>2, <2>4, <3>2, <4>1
      <4> QED BY <1>5, <4>2 DEF w
    <3> QED BY <3>1, <3>2
  <2>10. new # << >> /\ new[L].start <= ws[k + 1].start
      BY <1>6, <2>1, <2>4 DEF w
  <2> QED BY <2>4, <2>6, <2>7, <2>8, <2>9, <2>10 DEF Merges, new, w
<1>7. CASE ~(L > 0 /\ w.start <= last + 1)
  <2>1. new = Append(rs, w)
      BY <1>4, <1>7 DEF Join, Last
  <2> HIDE DEF new
  <2>2. /\ new \in Seq(Span) /\ Len(new) = L + 1 /\ new[L + 1] = w
        /\ \A m \in 1 .. L : new[m] = rs[m]
      BY <1>1, <1>2, <2>1
  <2>3. \A m \in 1 .. L + 1 : m \in 1 .. L \/ m = L + 1
      BY <1>2
  <2>4. ASSUME NEW m \in 1 .. L + 1 PROVE new[m].start <= new[m].end
    <3>1. CASE m \in 1 .. L
        BY <1>2, <2>2, <3>1
    <3>2. CASE m = L + 1
        BY <1>1, <2>2, <3>2
    <3> QED BY <2>3, <3>1, <3>2
  <2>5. ASSUME NEW l \in 1 .. L + 1, NEW m \in 1 .. l - 1
        PROVE  new[m].end + 1 < new[l].start
    <3>1. m \in 1 .. L /\ new[m] = rs[m] /\ rs[m].end \in Nat
        BY <1>2, <2>2
    <3>2. CASE l = L + 1
      <4> DEFINE end == rs[L].end
                 start == rs[L].start
                 before == rs[m].end
      <4>1. L > 0 /\ L \in 1 .. L
          BY <1>2, <3>1
      <4>2. /\ end \in Nat /\ start \in Nat /\ before \in Nat /\ w.start \in Nat
            /\ start <= end /\ ~(w.start <= end + 1)
          BY <1>1, <1>2, <1>7, <3>1, <4>1
      <4>3. m # L => before + 1 < start
        <5> SUFFICES ASSUME m # L PROVE m \in 1 .. L - 1
            BY <1>2, <4>1
        <5> QED BY <1>2, <3>1
      <4>4. m = L => before = end
          OBVIOUS
      <4> HIDE DEF end, start, before
      <4>5. before + 1 < w.start
          BY <4>2, <4>3, <4>4
      <4> QED BY <2>2, <3>1, <3>2, <4>5 DEF before
    <3>3. CASE l \in 1 .. L
        BY <1>2, <2>2, <3>1, <3>3
    <3> QED BY <2>3, <3>2, <3>3
  <2>6. ASSUME NEW j \in 1 .. k + 1, NEW x \in ws[j].start .. ws[j].end
        PROVE  \E m \in 1 .. L + 1 : x \in new[m].start .. new[m].end
    <3>1. CASE j = k + 1
      <4>1. x \in new[L + 1].start .. new[L + 1].end /\ L + 1 \in 1 .. L + 1
          BY <1>2, <2>2, <3>1 DEF w
      <4> QED BY <4>1
    <3>2. CASE j \in 1 .. k
      <4>1. PICK m \in 1 .. L : x \in rs[m].start .. rs[m].end
          BY <3>2 DEF Merges
      <4>2. m \in 1 .. L + 1 /\ new[m] = rs[m]
          BY <1>2, <2>2
      <4> QED BY <4>1, <4>2
    <3> QED BY <1>5, <3>1, <3>2
  <2>7. ASSUME NEW m \in 1 .. L + 1, NEW x \in new[m].start .. new[m].end
        PROVE  \E j \in 1 .. k + 1 : x \in ws[j].start .. ws[j].end
    <3>1. CASE m = L + 1
        BY <1>5, <2>2, <3>1 DEF w
    <3>2. CASE m \in 1 .. L
      <4>1. x \in rs[m].start .. rs[m].end
          BY <2>2, <3>2
      <4>2. PICK j \in 1 .. k : x \in ws[j].start .. ws[j].end
          BY <3>2, <4>1 DEF Merges
      <4> QED BY <4>2
    <3> QED BY <2>3, <3>1, <3>2
  <2>8. new # << >> /\ new[L + 1].start <= ws[k + 1].start
    <3>1. new[L + 1].start = ws[k + 1].start /\ ws[k + 1].start \in Nat
        BY <1>1, <2>2 DEF w
    <3> QED BY <1>2, <2>2, <3>1
  <2>9. (L + 1) - 1 = L
      BY <1>2
  <2> QED BY <2>2, <2>4, <2>5, <2>6, <2>7, <2>8, <2>9 DEF Merges, new, w
<1> QED BY <1>6, <1>7

\* f has the merged windows of the first k ones, for each k.
MergeSteps(f, ws) ==
    f = [k \in 0 .. Len(ws) |-> IF k = 0 THEN << >> ELSE Join(f[k - 1], ws[k])]

LEMMA MergingSteps ==
    ASSUME NEW ws \in Seq(Span)
    PROVE  \E f : MergeSteps(f, ws) /\ mergeWindows(ws) = f[Len(ws)]
<1> DEFINE n == Len(ws)
           next == [k \in 1 .. n |-> [rs \in Seq(Span) |-> Join(rs, ws[k])]]
<1>1. n \in Nat /\ \A k \in 1 .. n : ws[k] \in Span
    OBVIOUS
<1>2. next \in [1 .. n -> [Seq(Span) -> Seq(Span)]]
    BY <1>1, JoinType
<1>3. << >> \in Seq(Span)
    OBVIOUS
<1>4. \A k \in 1 .. n : \A rs \in Seq(Span) : next[k][rs] = Join(rs, ws[k])
    OBVIOUS
<1> HIDE DEF n, next
<1>5. PICK f \in [0 .. n -> Seq(Span)] : Iterates(f, n, << >>, next)
    BY <1>1, <1>2, <1>3, Iteration
<1>6. ASSUME NEW k \in 0 .. n
      PROVE  f[k] = IF k = 0 THEN << >> ELSE Join(f[k - 1], ws[k])
  <2>1. CASE k = 0
      BY <1>5, <2>1 DEF Iterates
  <2>2. CASE k # 0
    <3>1. k \in 1 .. n /\ k - 1 \in 0 .. n
        BY <1>1, <2>2
    <3>2. f[k - 1] \in Seq(Span) /\ f[k] = next[k][f[k - 1]]
        BY <1>5, <3>1 DEF Iterates
    <3> QED BY <1>4, <2>2, <3>1, <3>2
  <2> QED BY <2>1, <2>2
<1>7. f = [k \in 0 .. n |-> f[k]]
    OBVIOUS
<1>8. MergeSteps(f, ws)
    BY <1>6, <1>7 DEF MergeSteps, n
<1>9. mergeWindows(ws) = (CHOOSE g : MergeSteps(g, ws))[n]
    BY DEF mergeWindows, Join, MergeSteps, n
<1> HIDE DEF mergeWindows
<1>10. PICK g : MergeSteps(g, ws) /\ mergeWindows(ws) = g[n]
    BY <1>8, <1>9
<1> QED BY <1>10 DEF n

\* Merging keeps what the windows hold and leaves gaps between them.
LEMMA MergedWindows ==
    ASSUME NEW ws, InOrderOfStarts(ws)
    PROVE  Merges(mergeWindows(ws), ws, Len(ws))
<1>1. ws \in Seq(Span) /\ Len(ws) \in Nat
    BY DEF InOrderOfStarts
<1>2. PICK f : MergeSteps(f, ws) /\ mergeWindows(ws) = f[Len(ws)]
    BY <1>1, MergingSteps
<1> DEFINE good == {k \in 0 .. Len(ws) : Merges(f[k], ws, k)}
<1>3. 0 \in good
  <2>1. f[0] = << >> /\ 0 \in 0 .. Len(ws)
      BY <1>1, <1>2 DEF MergeSteps
  <2>2. Merges(<< >>, ws, 0)
      BY DEF Merges
  <2> QED BY <2>1, <2>2
<1>4. ASSUME NEW k \in 0 .. Len(ws) - 1, k \in good PROVE k + 1 \in good
  <2>1. k \in Nat /\ k + 1 \in 0 .. Len(ws) /\ k + 1 # 0 /\ k + 1 <= Len(ws)
        /\ (k + 1) - 1 = k
      BY <1>1
  <2>2. f[k + 1] = Join(f[k], ws[k + 1])
      BY <1>2, <2>1 DEF MergeSteps
  <2> QED BY <1>4, <2>1, <2>2, JoinMerges
<1> HIDE DEF good
<1>5. \A k \in 0 .. Len(ws) : k \in good
    BY <1>1, <1>3, <1>4, UpTo
<1>6. Len(ws) \in 0 .. Len(ws)
    BY <1>1
<1> QED BY <1>2, <1>5, <1>6 DEF good

CodeLine == [number : Nat, highlighted : BOOLEAN]

\* Line n is in one of the ranges.
Marked(n, right) == \E m \in Range(right) : n \in m.start .. m.end

\* The lines of a window.
LinesOf(w, right) ==
    [i \in 1 .. w.end - w.start + 1 |->
        [number |-> w.start + i - 1, highlighted |-> Marked(w.start + i - 1, right)]]

LEMMA LinesOfWindow ==
    ASSUME NEW w \in Span, w.start <= w.end, NEW right
    PROVE  LET ls == LinesOf(w, right)
               n == w.end - w.start + 1
           IN  /\ ls \in Seq(CodeLine) /\ Len(ls) = n /\ n \in Nat
               /\ \A i \in 1 .. n : /\ ls[i].number = w.start + i - 1
                                    /\ ls[i].highlighted = Marked(ls[i].number, right)
<1> DEFINE n == w.end - w.start + 1
           number == [i \in 1 .. n |-> w.start + i - 1]
           mark == [i \in 1 .. n |-> Marked(w.start + i - 1, right)]
           ls == LinesOf(w, right)
<1>1. w.start \in Nat /\ w.end \in Nat /\ n \in Nat
    BY DEF Span
<1>2. \A i \in 1 .. n : number[i] \in Nat /\ mark[i] \in BOOLEAN
  <2>1. \A i \in 1 .. n : number[i] \in Nat
      BY <1>1
  <2>2. \A i \in 1 .. n : mark[i] \in BOOLEAN
      BY Zenon DEF Marked
  <2> QED BY <2>1, <2>2
<1>3. ls = [i \in 1 .. n |-> [number |-> number[i], highlighted |-> mark[i]]]
    BY DEF LinesOf
<1>4. \A i \in 1 .. n : mark[i] = Marked(number[i], right) /\ number[i] = w.start + i - 1
    OBVIOUS
<1> HIDE DEF n, number, mark, ls
<1>5. \A i \in 1 .. n : ls[i].number = number[i] /\ ls[i].highlighted = mark[i] /\ ls[i] \in CodeLine
    BY <1>2, <1>3 DEF CodeLine
<1>6. ls \in [1 .. n -> CodeLine]
    BY <1>3, <1>5
<1>7. ls \in Seq(CodeLine) /\ Len(ls) = n
    BY <1>1, <1>6
<1>8. \A i \in 1 .. n : /\ ls[i].number = w.start + i - 1
                        /\ ls[i].highlighted = Marked(ls[i].number, right)
    BY <1>4, <1>5
<1> QED BY <1>1, <1>7, <1>8 DEF ls, n

\* The code has the lines of the first k windows, once and in order.
Spells(code, rs, k, right) ==
    /\ code \in Seq(CodeLine)
    /\ \A i \in 1 .. Len(code) : code[i].highlighted = Marked(code[i].number, right)
    /\ \A j \in 1 .. Len(code) : \A i \in 1 .. j - 1 : code[i].number < code[j].number
    /\ \A i \in 1 .. Len(code) : \E m \in 1 .. k : code[i].number \in rs[m].start .. rs[m].end
    /\ \A m \in 1 .. k : \A x \in rs[m].start .. rs[m].end :
          \E i \in 1 .. Len(code) : code[i].number = x

\* Windows that do not touch.
Apart(rs) ==
    /\ rs \in Seq(Span)
    /\ \A m \in 1 .. Len(rs) : rs[m].start <= rs[m].end
    /\ \A l \in 1 .. Len(rs) : \A m \in 1 .. l - 1 : rs[m].end + 1 < rs[l].start

LEMMA SpellMore ==
    ASSUME NEW rs, Apart(rs), NEW k \in Nat, k + 1 <= Len(rs), NEW right,
           NEW code, Spells(code, rs, k, right)
    PROVE  Spells(code \o LinesOf(rs[k + 1], right), rs, k + 1, right)
<1> DEFINE w == rs[k + 1]
           ls == LinesOf(w, right)
           n == w.end - w.start + 1
           L == Len(code)
           new == code \o ls
<1>1. /\ k + 1 \in 1 .. Len(rs) /\ w \in Span /\ w.start \in Nat /\ w.end \in Nat
      /\ w.start <= w.end
  <2>1. k + 1 \in 1 .. Len(rs) /\ w \in Span
      BY DEF Apart
  <2> QED BY <2>1 DEF Apart, Span
<1>2. ASSUME NEW m \in 1 .. k
      PROVE  rs[m].start \in Nat /\ rs[m].end \in Nat /\ rs[m].end < w.start
  <2>1. m \in 1 .. Len(rs) /\ m \in 1 .. (k + 1) - 1 /\ rs[m] \in Span
      BY <1>1 DEF Apart
  <2>2. rs[m].start \in Nat /\ rs[m].end \in Nat /\ rs[m].end + 1 < w.start
      BY <1>1, <2>1 DEF Apart, Span
  <2> QED BY <1>1, <2>2
<1> HIDE DEF w
<1>3. /\ ls \in Seq(CodeLine) /\ Len(ls) = n /\ n \in Nat
      /\ \A i \in 1 .. n : /\ ls[i].number = w.start + i - 1
                           /\ ls[i].highlighted = Marked(ls[i].number, right)
    BY <1>1, LinesOfWindow
<1> HIDE DEF ls
<1>4. code \in Seq(CodeLine) /\ L \in Nat
    BY DEF Spells
<1>5. /\ new \in Seq(CodeLine) /\ Len(new) = L + n
      /\ \A i \in 1 .. L : new[i] = code[i]
      /\ \A i \in 1 .. n : new[L + i] = ls[i]
  <2> DEFINE N == Len(ls)
  <2>1. N = n /\ N \in Nat
      BY <1>3
  <2> HIDE DEF n
  <2>2. /\ new \in Seq(CodeLine) /\ Len(new) = L + N
        /\ \A i \in 1 .. L : new[i] = code[i]
        /\ \A i \in L + 1 .. L + N : new[i] = ls[i - L]
    <3>1. /\ new \in Seq(CodeLine) /\ Len(new) = L + N
          /\ \A i \in 1 .. L + N : new[i] = IF i <= L THEN code[i] ELSE ls[i - L]
        BY <1>3, <1>4, ConcatProperties
    <3> HIDE DEF new, L, N
    <3> QED BY <1>4, <2>1, <3>1
  <2>3. \A i \in 1 .. N : new[L + i] = ls[i]
    <3> SUFFICES ASSUME NEW i \in 1 .. N PROVE new[L + i] = ls[i]
        OBVIOUS
    <3>1. L + i \in L + 1 .. L + N /\ (L + i) - L = i
        BY <1>4, <2>1
    <3> HIDE DEF new, N, L
    <3> QED BY <2>2, <3>1
  <2> HIDE DEF N
  <2> QED BY <2>1, <2>2, <2>3
<1> HIDE DEF new
<1>6. ASSUME NEW i \in 1 .. L + n PROVE i \in 1 .. L \/ \E j \in 1 .. n : i = L + j
  <2> SUFFICES ASSUME ~(i \in 1 .. L) PROVE i - L \in 1 .. n /\ i = L + (i - L)
      OBVIOUS
  <2> HIDE DEF n
  <2> QED BY <1>3, <1>4
<1>7. ASSUME NEW i \in 1 .. L PROVE code[i].number \in Nat /\ code[i].number < w.start
  <2>1. PICK m \in 1 .. k : code[i].number \in rs[m].start .. rs[m].end
      BY DEF Spells
  <2> QED BY <1>1, <1>2, <2>1
<1>8. ASSUME NEW i \in 1 .. L + n PROVE new[i].highlighted = Marked(new[i].number, right)
  <2>1. CASE i \in 1 .. L
      BY <1>5, <2>1 DEF Spells
  <2>2. ASSUME NEW j \in 1 .. n, i = L + j PROVE new[i].highlighted = Marked(new[i].number, right)
    <3>1. new[i] = ls[j] /\ ls[j].highlighted = Marked(ls[j].number, right)
        BY <1>3, <1>5, <2>2
    <3> QED BY <3>1
  <2> QED BY <1>6, <2>1, <2>2
<1>9. ASSUME NEW j \in 1 .. L + n, NEW i \in 1 .. j - 1 PROVE new[i].number < new[j].number
  <2>1. i \in 1 .. L + n /\ i < j
    <3> HIDE DEF n
    <3> QED BY <1>3, <1>4
  <2>2. CASE j \in 1 .. L
    <3>1. i \in 1 .. L /\ new[i] = code[i] /\ new[j] = code[j]
        BY <1>4, <1>5, <2>1, <2>2
    <3> QED BY <2>2, <3>1 DEF Spells
  <2>3. ASSUME NEW b \in 1 .. n, j = L + b PROVE new[i].number < new[j].number
    <3>1. new[j].number = w.start + b - 1
        BY <1>3, <1>5, <2>3
    <3>2. CASE i \in 1 .. L
      <4>1. new[i].number \in Nat /\ new[i].number < w.start
          BY <1>5, <1>7, <3>2
      <4> QED BY <1>1, <3>1, <4>1
    <3>3. ASSUME NEW a \in 1 .. n, i = L + a PROVE new[i].number < new[j].number
      <4>1. new[i].number = w.start + a - 1
          BY <1>3, <1>5, <3>3
      <4>2. a < b
          BY <1>4, <2>1, <2>3, <3>3
      <4> QED BY <1>1, <3>1, <4>1, <4>2
    <3> QED BY <1>6, <2>1, <3>2, <3>3
  <2> QED BY <1>6, <2>2, <2>3
<1>10. ASSUME NEW i \in 1 .. L + n
       PROVE  \E m \in 1 .. k + 1 : new[i].number \in rs[m].start .. rs[m].end
  <2>1. CASE i \in 1 .. L
    <3>1. PICK m \in 1 .. k : code[i].number \in rs[m].start .. rs[m].end
        BY <2>1 DEF Spells
    <3> QED BY <1>5, <2>1, <3>1
  <2>2. ASSUME NEW j \in 1 .. n, i = L + j
        PROVE  \E m \in 1 .. k + 1 : new[i].number \in rs[m].start .. rs[m].end
    <3>1. new[i].number = w.start + j - 1
        BY <1>3, <1>5, <2>2
    <3>2. new[i].number \in w.start .. w.end
        BY <1>1, <3>1
    <3>3. k + 1 \in 1 .. k + 1
        OBVIOUS
    <3> QED BY <3>2, <3>3 DEF w
  <2> QED BY <1>6, <2>1, <2>2
<1>11. ASSUME NEW m \in 1 .. k + 1, NEW x \in rs[m].start .. rs[m].end
       PROVE  \E i \in 1 .. L + n : new[i].number = x
  <2>1. CASE m \in 1 .. k
    <3>1. PICK i \in 1 .. L : code[i].number = x
        BY <2>1 DEF Spells
    <3>2. i \in 1 .. L + n
      <4> HIDE DEF n
      <4> QED BY <1>3, <1>4
    <3> QED BY <1>5, <3>1, <3>2
  <2>2. CASE m = k + 1
    <3>1. x \in w.start .. w.end
        BY <2>2 DEF w
    <3>2. x - w.start + 1 \in 1 .. n /\ w.start + (x - w.start + 1) - 1 = x
        BY <1>1, <3>1
    <3>3. new[L + (x - w.start + 1)].number = x
        BY <1>3, <1>5, <3>2
    <3>4. L + (x - w.start + 1) \in 1 .. L + n
      <4> HIDE DEF n
      <4> QED BY <1>1, <1>3, <1>4, <3>1, <3>2
    <3> QED BY <3>3, <3>4
  <2>3. m \in 1 .. k \/ m = k + 1
      OBVIOUS
  <2> QED BY <2>1, <2>2, <2>3
<1> HIDE DEF n, L
<1>12. Spells(new, rs, k + 1, right)
    BY <1>5, <1>8, <1>9, <1>10, <1>11 DEF Spells
<1> QED BY <1>12 DEF new, ls, w

\* f has the code of the first k windows, for each k.
CodeSteps(f, rs, right) ==
    f = [k \in 0 .. Len(rs) |-> IF k = 0 THEN NoCode ELSE f[k - 1] \o LinesOf(rs[k], right)]

LEMMA CodeFromSteps ==
    ASSUME NEW rs, Apart(rs), NEW right
    PROVE  /\ \E f : CodeSteps(f, rs, right)
           /\ \A f : CodeSteps(f, rs, right) => Spells(f[Len(rs)], rs, Len(rs), right)
<1> DEFINE n == Len(rs)
           next == [k \in 1 .. n |-> [code \in Seq(CodeLine) |-> code \o LinesOf(rs[k], right)]]
<1>1. n \in Nat /\ \A k \in 1 .. n : rs[k] \in Span /\ rs[k].start <= rs[k].end
    BY DEF Apart
<1>2. next \in [1 .. n -> [Seq(CodeLine) -> Seq(CodeLine)]]
  <2>1. ASSUME NEW k \in 1 .. n, NEW code \in Seq(CodeLine)
        PROVE  code \o LinesOf(rs[k], right) \in Seq(CodeLine)
    <3>1. LinesOf(rs[k], right) \in Seq(CodeLine)
        BY <1>1, LinesOfWindow
    <3> QED BY <3>1
  <2> HIDE DEF n
  <2> QED BY <2>1
<1>3. NoCode \in Seq(CodeLine)
    BY DEF NoCode
<1>4. \A k \in 1 .. n : \A code \in Seq(CodeLine) : next[k][code] = code \o LinesOf(rs[k], right)
    OBVIOUS
<1> HIDE DEF n, next
<1>5. PICK f \in [0 .. n -> Seq(CodeLine)] : Iterates(f, n, NoCode, next)
    BY <1>1, <1>2, <1>3, Iteration
<1>6. ASSUME NEW k \in 0 .. n
      PROVE  f[k] = IF k = 0 THEN NoCode ELSE f[k - 1] \o LinesOf(rs[k], right)
  <2>1. CASE k = 0
      BY <1>5, <2>1 DEF Iterates
  <2>2. CASE k # 0
    <3>1. k \in 1 .. n /\ k - 1 \in 0 .. n
        BY <1>1, <2>2
    <3>2. f[k - 1] \in Seq(CodeLine) /\ f[k] = next[k][f[k - 1]]
        BY <1>5, <3>1 DEF Iterates
    <3> QED BY <1>4, <2>2, <3>1, <3>2
  <2> QED BY <2>1, <2>2
<1>7. f = [k \in 0 .. n |-> f[k]]
    OBVIOUS
<1>8. CodeSteps(f, rs, right)
    BY <1>6, <1>7 DEF CodeSteps, n
<1>9. ASSUME NEW g, CodeSteps(g, rs, right) PROVE Spells(g[n], rs, n, right)
  <2> DEFINE good == {k \in 0 .. n : Spells(g[k], rs, k, right)}
  <2>1. 0 \in good
    <3>1. g[0] = NoCode /\ 0 \in 0 .. n
        BY <1>1, <1>9 DEF CodeSteps, n
    <3>2. Spells(NoCode, rs, 0, right)
        BY DEF Spells, NoCode
    <3> QED BY <3>1, <3>2
  <2>2. ASSUME NEW k \in 0 .. n - 1, k \in good PROVE k + 1 \in good
    <3>1. k \in Nat /\ k + 1 \in 0 .. n /\ k + 1 # 0 /\ k + 1 <= n /\ (k + 1) - 1 = k
        BY <1>1
    <3>2. g[k + 1] = g[k] \o LinesOf(rs[k + 1], right)
        BY <1>9, <3>1 DEF CodeSteps, n
    <3> QED BY <2>2, <3>1, <3>2, SpellMore DEF n
  <2> HIDE DEF good
  <2>3. \A k \in 0 .. n : k \in good
      BY <1>1, <2>1, <2>2, UpTo
  <2>4. n \in 0 .. n
      BY <1>1
  <2> QED BY <2>3, <2>4 DEF good
<1> QED BY <1>8, <1>9 DEF n

\* Code with these numbers, once and in order, is one code only.
LEMMA OneSpelling ==
    ASSUME NEW S \in SUBSET Nat, IsFiniteSet(S), NEW code \in Seq(CodeLine),
           \A i \in 1 .. Len(code) : code[i].number \in S,
           \A x \in S : \E i \in 1 .. Len(code) : code[i].number = x,
           \A j \in 1 .. Len(code) : \A i \in 1 .. j - 1 : code[i].number < code[j].number
    PROVE  /\ Len(code) = Cardinality(S)
           /\ \A i \in 1 .. Len(code) : code[i].number = Ascending(S)[i]
<1> DEFINE n == Len(code)
           q == [i \in 1 .. n |-> code[i].number]
           ahead == [x \in S |-> {y \in S : y < x}]
           o == Ascending(S)
<1>1. n \in Nat
    OBVIOUS
<1>2. q \in [1 .. n -> S] /\ \A i \in 1 .. n : q[i] = code[i].number
    OBVIOUS
<1>3. \A x \in S : \E i \in 1 .. n : q[i] = x
    OBVIOUS
<1>4. \A j \in 1 .. n : \A i \in 1 .. j - 1 : q[i] < q[j]
  <2> SUFFICES ASSUME NEW j \in 1 .. n, NEW i \in 1 .. j - 1 PROVE q[i] < q[j]
      OBVIOUS
  <2>1. i \in 1 .. n
    <3> HIDE DEF n
    <3> QED BY <1>1
  <2> QED BY <2>1
<1> HIDE DEF n, q
<1>5. \A i, j \in 1 .. n : q[i] < q[j] <=> i < j
  <2> SUFFICES ASSUME NEW i \in 1 .. n, NEW j \in 1 .. n PROVE q[i] < q[j] <=> i < j
      OBVIOUS
  <2>1. i < j => i \in 1 .. j - 1
      BY <1>1
  <2>2. j < i => j \in 1 .. i - 1
      BY <1>1
  <2>3. q[i] \in Nat /\ q[j] \in Nat
      BY <1>2
  <2>4. i < j => q[i] < q[j]
      BY <1>4, <2>1
  <2>5. j < i => q[j] < q[i]
      BY <1>4, <2>2
  <2> QED BY <1>1, <2>3, <2>4, <2>5
<1>6. n = Cardinality(S)
  <2>1. IsFiniteSet(1 .. n) /\ Cardinality(1 .. n) = n
      BY <1>1, Interval
  <2>2. q \in Surjection(1 .. n, S)
      BY <1>2, <1>3 DEF Surjection
  <2>3. \A i, j \in 1 .. n : q[i] = q[j] => i = j
    <3> SUFFICES ASSUME NEW i \in 1 .. n, NEW j \in 1 .. n, q[i] = q[j] PROVE i = j
        OBVIOUS
    <3>1. q[i] \in Nat
        BY <1>2
    <3>2. ~(i < j) /\ ~(j < i)
        BY <1>5, <3>1
    <3> QED BY <1>1, <3>2
  <2>4. q \in Injection(1 .. n, S)
      BY <1>2, <2>3 DEF Injection, IsInjective
  <2>5. Cardinality(S) <= n /\ n <= Cardinality(S)
      BY <2>1, <2>2, <2>4, FS_Surjection, FS_Injection
  <2>6. Cardinality(S) \in Nat
      BY FS_CardinalityType
  <2> QED BY <1>1, <2>5, <2>6
<1>7. /\ o \in [1 .. n -> S] /\ \A x \in S : \E i \in 1 .. n : o[i] = x
      /\ \A i, j \in 1 .. n : o[i] < o[j] <=> i < j
    BY <1>6, AscendingOrder DEF Lists
<1>8. \A x, y \in S : x \in ahead[y] <=> x < y
    OBVIOUS
<1> HIDE DEF o, ahead
<1>9. Arranges(o, n, S, ahead)
    BY <1>7, <1>8 DEF Arranges
<1>10. Arranges(q, n, S, ahead)
    BY <1>2, <1>3, <1>5, <1>8 DEF Arranges
<1>11. \A i \in 1 .. n : q[i] = o[i]
    BY <1>1, <1>9, <1>10, OneArrangement
<1> QED BY <1>2, <1>6, <1>11 DEF n, o

\* A range with its context, clamped to the file.
Around(m, length) == [start |-> Max({1, m.start - Context}), end |-> Min({length, m.end + Context})]

LEMMA AroundRange ==
    ASSUME NEW m \in Span, NEW length \in Nat
    PROVE  /\ Around(m, length) \in Span
           /\ \A n \in Int : n \in Around(m, length).start .. Around(m, length).end
                 <=> n \in 1 .. length /\ n \in m.start - Context .. m.end + Context
<1> DEFINE x == m.start - Context
           y == m.end + Context
           s == Max({1, x})
           e == Min({length, y})
<1>1. x \in Int /\ y \in Nat
    BY CardViewAssumption DEF Span
<1>2. Around(m, length) = [start |-> s, end |-> e]
    BY DEF Around
<1> HIDE DEF x, y
<1>3. s \in {1, x} /\ s >= 1 /\ s >= x
  <2> DEFINE one == 1
  <2>1. one \in Int
      OBVIOUS
  <2> HIDE DEF one
  <2>2. Max({one, x}) \in {one, x} /\ Max({one, x}) >= one /\ Max({one, x}) >= x
      BY <1>1, <2>1, Larger
  <2> QED BY <2>2 DEF one
<1>4. e \in {length, y} /\ e <= length /\ e <= y
    BY <1>1, Smaller
<1> HIDE DEF s, e
<1>5. s \in Nat /\ e \in Nat
    BY <1>1, <1>3, <1>4
<1>6. \A n \in Int : n \in s .. e <=> n \in 1 .. length /\ n \in x .. y
    BY <1>1, <1>3, <1>4, <1>5
<1> QED BY <1>2, <1>5, <1>6 DEF Span, x, y

\* The windows of ranges, in the order of their starts.
Windows(length, right) ==
    LET clamped == [k \in DOMAIN right |-> Around(right[k], length)]
        windows == Sublist(clamped, {k \in DOMAIN right : clamped[k].start <= clamped[k].end})
    IN Sorted(windows, [k \in DOMAIN windows |-> windows[k].start])

LEMMA WindowsHold ==
    ASSUME NEW right \in Seq(Span), NEW length \in Nat
    PROVE  LET ws == Windows(length, right) IN
           /\ InOrderOfStarts(ws)
           /\ \A n \in Int : (\E j \in 1 .. Len(ws) : n \in ws[j].start .. ws[j].end)
                 <=> n \in 1 .. length
                     /\ \E m \in Range(right) : n \in m.start - Context .. m.end + Context
<1> DEFINE L == Len(right)
           clamped == [k \in DOMAIN right |-> Around(right[k], length)]
           P == {k \in DOMAIN right : clamped[k].start <= clamped[k].end}
           windows == Sublist(clamped, P)
           key == [k \in DOMAIN windows |-> windows[k].start]
           ws == Windows(length, right)
<1>1. L \in Nat /\ DOMAIN right = 1 .. L /\ \A k \in 1 .. L : right[k] \in Span
    OBVIOUS
<1>2. ws = Sorted(windows, key)
    BY DEF Windows
<1>3. /\ clamped \in Seq(Span) /\ DOMAIN clamped = DOMAIN right
      /\ \A k \in DOMAIN right : clamped[k] = Around(right[k], length)
  <2>1. clamped \in [1 .. L -> Span]
      BY <1>1, AroundRange
  <2>2. DOMAIN clamped = DOMAIN right /\ \A k \in DOMAIN right : clamped[k] = Around(right[k], length)
      OBVIOUS
  <2> HIDE DEF clamped, L
  <2> QED BY <1>1, <2>1, <2>2
<1> HIDE DEF clamped
<1>4. P \subseteq DOMAIN clamped /\ \A k \in DOMAIN right : k \in P <=> clamped[k].start <= clamped[k].end
    BY <1>3
<1> HIDE DEF P
<1> DEFINE o == Ascending(P)
<1>5. windows \in Seq(Span) /\ Picks(windows, clamped, P, o)
    BY <1>3, <1>4, SublistElements
<1> HIDE DEF windows, o
<1>6. DOMAIN windows = 1 .. Len(windows) /\ \A k \in DOMAIN windows : windows[k] \in Span
    BY <1>5
<1>7. key \in [DOMAIN windows -> Nat] /\ \A k \in DOMAIN windows : key[k] = windows[k].start
    BY <1>6 DEF Span
<1> HIDE DEF key
<1>8. PICK p : ws \in Seq(Span) /\ Sorts(ws, windows, key, p)
    BY <1>2, <1>5, <1>7, StableSort
<1> HIDE DEF ws
<1>9. /\ DOMAIN ws = DOMAIN windows /\ DOMAIN ws = 1 .. Len(ws) /\ Len(ws) \in Nat
      /\ \A k \in DOMAIN ws : p[k] \in DOMAIN windows /\ ws[k] = windows[p[k]]
      /\ \A i \in DOMAIN ws : \E k \in DOMAIN ws : p[k] = i
    BY <1>8 DEF Sorts
<1>10. ASSUME NEW k \in DOMAIN ws
       PROVE  \E i \in P : ws[k] = Around(right[i], length)
  <2>1. p[k] \in 1 .. Len(windows) /\ ws[k] = windows[p[k]]
      BY <1>6, <1>9
  <2>2. o[p[k]] \in P /\ windows[p[k]] = clamped[o[p[k]]]
      BY <1>5, <2>1 DEF Picks
  <2> QED BY <1>3, <1>4, <2>1, <2>2
<1>11. ASSUME NEW i \in P PROVE \E k \in DOMAIN ws : ws[k] = Around(right[i], length)
  <2>1. PICK l \in 1 .. Len(windows) : o[l] = i /\ windows[l] = clamped[i]
      BY <1>5 DEF Picks
  <2>2. PICK k \in DOMAIN ws : p[k] = l
      BY <1>6, <1>9, <2>1
  <2> QED BY <1>3, <1>4, <1>9, <2>1, <2>2
<1>12. InOrderOfStarts(ws)
  <2>1. ASSUME NEW l \in 1 .. Len(ws) PROVE ws[l].start <= ws[l].end
    <3>1. PICK i \in P : ws[l] = Around(right[i], length)
        BY <1>9, <1>10
    <3> QED BY <1>3, <1>4, <3>1
  <2>2. ASSUME NEW l \in 1 .. Len(ws), NEW k \in 1 .. l PROVE ws[k].start <= ws[l].start
    <3>1. k \in DOMAIN ws /\ l \in DOMAIN ws /\ (k < l \/ k = l)
        BY <1>9
    <3>2. ws[k].start = key[p[k]] /\ ws[l].start = key[p[l]] /\ key[p[k]] \in Nat /\ key[p[l]] \in Nat
        BY <1>7, <1>9, <3>1
    <3>3. k < l => key[p[k]] < key[p[l]] \/ key[p[k]] = key[p[l]]
      <4>1. k \in DOMAIN windows /\ l \in DOMAIN windows
          BY <1>9, <3>1
      <4>2. k < l <=> key[p[k]] < key[p[l]] \/ (key[p[k]] = key[p[l]] /\ p[k] < p[l])
          BY <1>8, <4>1 DEF Sorts
      <4> QED BY <4>2
    <3> QED BY <3>1, <3>2, <3>3
  <2> QED BY <1>8, <2>1, <2>2 DEF InOrderOfStarts
<1>13. ASSUME NEW n \in Int, NEW j \in 1 .. Len(ws), n \in ws[j].start .. ws[j].end
       PROVE  n \in 1 .. length /\ \E m \in Range(right) : n \in m.start - Context .. m.end + Context
  <2>1. PICK i \in P : ws[j] = Around(right[i], length)
      BY <1>9, <1>10
  <2>2. i \in DOMAIN right /\ right[i] \in Span /\ right[i] \in Range(right)
      BY <1>1, <1>3, <1>4 DEF Range
  <2>3. n \in 1 .. length /\ n \in right[i].start - Context .. right[i].end + Context
      BY <1>13, <2>1, <2>2, AroundRange
  <2> QED BY <2>2, <2>3
<1>14. ASSUME NEW n \in Int, n \in 1 .. length,
              NEW m \in Range(right), n \in m.start - Context .. m.end + Context
       PROVE  \E j \in 1 .. Len(ws) : n \in ws[j].start .. ws[j].end
  <2>1. PICK i \in DOMAIN right : m = right[i] /\ right[i] \in Span
      BY <1>1 DEF Range
  <2> DEFINE c == Around(m, length)
  <2>2. n \in c.start .. c.end /\ c \in Span
      BY <1>14, <2>1, AroundRange
  <2> HIDE DEF c
  <2>3. c.start <= c.end
      BY <2>2 DEF Span
  <2>4. i \in P
      BY <1>3, <1>4, <2>1, <2>3 DEF c
  <2>5. PICK k \in DOMAIN ws : ws[k] = c
      BY <1>11, <2>1, <2>4 DEF c
  <2> QED BY <1>9, <2>2, <2>5
<1> QED BY <1>12, <1>13, <1>14 DEF ws

\* The code of a file is its lines near the ranges, once and in order, with
\* those in the ranges marked.
LEMMA CodeWindow ==
    ASSUME NEW right \in Seq(Span), NEW length \in Nat, NEW S \in SUBSET (1 .. length),
           \A n \in 1 .. length : n \in S <=>
              \E m \in Range(right) : n \in m.start - Context .. m.end + Context
    PROVE  LET shown == Ascending(S) IN
           buildCodeWindow(length, right)
             = [i \in DOMAIN shown |-> [number |-> shown[i], highlighted |-> Marked(shown[i], right)]]
<1> DEFINE ws == Windows(length, right)
           merged == mergeWindows(ws)
           n == Len(merged)
           shown == Ascending(S)
           code == buildCodeWindow(length, right)
<1>1. S \in SUBSET Nat /\ IsFiniteSet(S)
  <2>1. IsFiniteSet(1 .. length) /\ S \subseteq 1 .. length /\ 1 .. length \subseteq Nat
      BY Interval
  <2> QED BY <2>1, FS_Subset
<1>2. /\ InOrderOfStarts(ws)
      /\ \A x \in Int : (\E j \in 1 .. Len(ws) : x \in ws[j].start .. ws[j].end)
            <=> x \in 1 .. length
                /\ \E m \in Range(right) : x \in m.start - Context .. m.end + Context
    BY WindowsHold
<1>3. code = (CHOOSE f : CodeSteps(f, merged, right))[n]
    BY DEF buildCodeWindow, Windows, Around, CodeSteps, LinesOf, Marked
<1> HIDE DEF ws, code
<1>4. Merges(merged, ws, Len(ws))
    BY <1>2, MergedWindows
<1> HIDE DEF merged
<1>5. Apart(merged)
    BY <1>4 DEF Merges, Apart
<1>6. PICK f : CodeSteps(f, merged, right) /\ code = f[n]
    BY <1>3, <1>5, CodeFromSteps
<1>7. Spells(code, merged, n, right)
    BY <1>5, <1>6, CodeFromSteps
<1>8. \A x \in Int : (\E l \in 1 .. n : x \in merged[l].start .. merged[l].end)
                       <=> \E j \in 1 .. Len(ws) : x \in ws[j].start .. ws[j].end
  <2>1. ASSUME NEW x \in Int, NEW l \in 1 .. n, x \in merged[l].start .. merged[l].end
        PROVE  \E j \in 1 .. Len(ws) : x \in ws[j].start .. ws[j].end
      BY <1>4, <2>1 DEF Merges
  <2>2. ASSUME NEW x \in Int, NEW j \in 1 .. Len(ws), x \in ws[j].start .. ws[j].end
        PROVE  \E l \in 1 .. n : x \in merged[l].start .. merged[l].end
      BY <1>4, <2>2 DEF Merges
  <2> QED BY <2>1, <2>2
<1>9. \A x \in Int : x \in S <=> \E l \in 1 .. n : x \in merged[l].start .. merged[l].end
  <2>1. \A x \in Int : x \in S <=> x \in 1 .. length
                             /\ \E m \in Range(right) : x \in m.start - Context .. m.end + Context
      OBVIOUS
  <2> QED BY <1>2, <1>8, <2>1
<1>10. code \in Seq(CodeLine) /\ Len(code) \in Nat /\ \A i \in 1 .. Len(code) : code[i] \in CodeLine
    BY <1>7 DEF Spells
<1>11. \A i \in 1 .. Len(code) : code[i].number \in S
  <2> SUFFICES ASSUME NEW i \in 1 .. Len(code) PROVE code[i].number \in S
      OBVIOUS
  <2>1. code[i].number \in Int
      BY <1>10 DEF CodeLine
  <2>2. \E l \in 1 .. n : code[i].number \in merged[l].start .. merged[l].end
      BY <1>7 DEF Spells
  <2> QED BY <1>9, <2>1, <2>2
<1>12. \A x \in S : \E i \in 1 .. Len(code) : code[i].number = x
  <2> SUFFICES ASSUME NEW x \in S PROVE \E i \in 1 .. Len(code) : code[i].number = x
      OBVIOUS
  <2>1. \E l \in 1 .. n : x \in merged[l].start .. merged[l].end
      BY <1>1, <1>9
  <2> QED BY <1>7, <2>1 DEF Spells
<1>13. \A j \in 1 .. Len(code) : \A i \in 1 .. j - 1 : code[i].number < code[j].number
    BY <1>7 DEF Spells
<1> HIDE DEF shown
<1>14. Len(code) = Cardinality(S) /\ \A i \in 1 .. Len(code) : code[i].number = shown[i]
    BY <1>1, <1>10, <1>11, <1>12, <1>13, OneSpelling DEF shown
<1>15. DOMAIN shown = 1 .. Len(code)
    BY <1>1, <1>14, AscendingOrder DEF Lists, shown
<1>16. \A i \in 1 .. Len(code) : code[i] = [number |-> shown[i], highlighted |-> Marked(shown[i], right)]
  <2> SUFFICES ASSUME NEW i \in 1 .. Len(code)
               PROVE  code[i] = [number |-> shown[i], highlighted |-> Marked(shown[i], right)]
      OBVIOUS
  <2>1. code[i].number = shown[i] /\ code[i].highlighted = Marked(code[i].number, right)
      BY <1>7, <1>14 DEF Spells
  <2>2. code[i] \in CodeLine
      BY <1>10
  <2>3. code[i] = [number |-> code[i].number, highlighted |-> code[i].highlighted]
      BY <2>2 DEF CodeLine
  <2> QED BY <2>1, <2>3
<1>17. code = [i \in 1 .. Len(code) |-> code[i]]
    BY <1>10
<1> QED BY <1>15, <1>16, <1>17 DEF code, shown

\* deletionSummary adds up the ranges.
SumSteps(f, rs) ==
    f = [k \in 0 .. Len(rs) |-> IF k = 0 THEN 0 ELSE f[k - 1] + (rs[k].end - rs[k].start + 1)]

\* f[k] is the number of lines in the first k ranges.
CountsHeld(f, rs, k) == IsFiniteSet(Held(rs, k)) /\ f[k] = Cardinality(Held(rs, k))

LEMMA SumsOfRanges ==
    ASSUME NEW rs \in Seq(Span), \A m \in 1 .. Len(rs) : rs[m].start <= rs[m].end,
           NEW d, ApartTo(rs, d)
    PROVE  /\ \E f : SumSteps(f, rs)
           /\ \A f : SumSteps(f, rs) => CountsHeld(f, rs, d)
<1> DEFINE n == Len(rs)
           size(k) == rs[k].end - rs[k].start + 1
           next == [k \in 1 .. n |-> [x \in Nat |-> x + size(k)]]
<1>1. /\ n \in Nat
      /\ \A k \in 1 .. n : /\ rs[k].start \in Nat /\ rs[k].end \in Nat
                           /\ rs[k].start <= rs[k].end /\ size(k) \in Nat
  <2>1. n \in Nat /\ \A k \in 1 .. n : rs[k] \in Span
      OBVIOUS
  <2>2. \A k \in 1 .. n : rs[k].start \in Nat /\ rs[k].end \in Nat /\ rs[k].start <= rs[k].end
      BY <2>1 DEF Span
  <2> HIDE DEF n
  <2> QED BY <2>1, <2>2
<1>2. next \in [1 .. n -> [Nat -> Nat]]
  <2>1. \A k \in 1 .. n : \A x \in Nat : x + size(k) \in Nat
    <3> HIDE DEF size
    <3> QED BY <1>1
  <2> HIDE DEF size, n
  <2> QED BY <2>1
<1>3. \A k \in 1 .. n : \A x \in Nat : next[k][x] = x + size(k)
    OBVIOUS
<1> HIDE DEF next, n
<1>4. PICK f \in [0 .. n -> Nat] : Iterates(f, n, 0, next)
    BY <1>1, <1>2, Iteration
<1>5. ASSUME NEW k \in 0 .. n PROVE f[k] = IF k = 0 THEN 0 ELSE f[k - 1] + size(k)
  <2>1. CASE k = 0
      BY <1>4, <2>1 DEF Iterates
  <2>2. CASE k # 0
    <3>1. k \in 1 .. n /\ k - 1 \in 0 .. n
        BY <1>1, <2>2
    <3>2. f[k - 1] \in Nat /\ f[k] = next[k][f[k - 1]]
        BY <1>4, <3>1 DEF Iterates
    <3> HIDE DEF size
    <3> QED BY <1>3, <2>2, <3>1, <3>2
  <2> QED BY <2>1, <2>2
<1>6. f = [k \in 0 .. n |-> f[k]]
    OBVIOUS
<1>7. SumSteps(f, rs)
    BY <1>5, <1>6 DEF SumSteps, n
<1>8. ASSUME NEW g, SumSteps(g, rs) PROVE CountsHeld(g, rs, d)
  <2> DEFINE good == {k \in 0 .. d : CountsHeld(g, rs, k)}
  <2>0. d \in Nat /\ d <= n /\ \A k \in 0 .. d : k \in 0 .. n
      BY <1>1 DEF ApartTo, n
  <2>1. 0 \in good
    <3>1. g[0] = 0 /\ 0 \in 0 .. d
        BY <1>1, <1>8, <2>0 DEF SumSteps, n
    <3>2. Held(rs, 0) = {}
        BY DEF Held
    <3> QED BY <3>1, <3>2, FS_EmptySet DEF CountsHeld
  <2>2. ASSUME NEW k \in 0 .. d - 1, k \in good PROVE k + 1 \in good
    <3> DEFINE H == Held(rs, k)
               w == rs[k + 1].start .. rs[k + 1].end
    <3>1. /\ k \in Nat /\ k + 1 \in 0 .. n /\ k + 1 # 0 /\ k + 1 \in 1 .. n /\ (k + 1) - 1 = k
          /\ k + 1 \in 0 .. d /\ k + 1 \in 1 .. d
        BY <1>1, <2>0
    <3>2. g[k + 1] = g[k] + size(k + 1)
        BY <1>8, <3>1 DEF SumSteps, n
    <3>3. IsFiniteSet(w) /\ Cardinality(w) = size(k + 1)
      <4> DEFINE a == rs[k + 1].start
                 b == rs[k + 1].end
      <4>1. a \in Int /\ b \in Int /\ a <= b
          BY <1>1, <3>1
      <4> HIDE DEF a, b
      <4>2. ~(a > b)
          BY <4>1
      <4>3. /\ IsFiniteSet(a .. b)
            /\ Cardinality(a .. b) = IF a > b THEN 0 ELSE b - a + 1
          BY <4>1, FS_Interval
      <4>4. IsFiniteSet(a .. b) /\ Cardinality(a .. b) = b - a + 1
          BY <4>2, <4>3
      <4> QED BY <4>4 DEF a, b
    <3>4. Held(rs, k + 1) = H \cup w
      <4>1. \A m : m \in 1 .. k + 1 <=> m \in 1 .. k \/ m = k + 1
          BY <3>1
      <4> QED BY <4>1 DEF Held
    <3>5. H \cap w = {}
      <4> SUFFICES ASSUME NEW x \in H, x \in w PROVE FALSE
          OBVIOUS
      <4>1. PICK m \in 1 .. k : x \in rs[m].start .. rs[m].end
          BY DEF Held
      <4>2. m \in 1 .. (k + 1) - 1 /\ m \in 1 .. n
          BY <1>1, <3>1
      <4>3. rs[m].end + 1 < rs[k + 1].start
          BY <3>1, <4>2 DEF ApartTo
      <4>4. rs[m].end \in Nat /\ rs[k + 1].start \in Nat
          BY <1>1, <3>1, <4>2
      <4> QED BY <4>1, <4>3, <4>4
    <3>6. IsFiniteSet(H) /\ g[k] = Cardinality(H) /\ Cardinality(H) \in Nat
        BY <2>2, FS_CardinalityType DEF CountsHeld
    <3> HIDE DEF H, w
    <3>7. IsFiniteSet(H \cup w) /\ Cardinality(H \cup w) = Cardinality(H) + Cardinality(w)
      <4>1. /\ IsFiniteSet(H \cup w)
            /\ Cardinality(H \cup w) = Cardinality(H) + Cardinality(w) - Cardinality(H \cap w)
          BY <3>3, <3>6, FS_Union
      <4>2. Cardinality(H \cap w) = 0
          BY <3>5, FS_EmptySet
      <4>3. Cardinality(w) \in Nat
          BY <3>3, FS_CardinalityType
      <4> QED BY <3>6, <4>1, <4>2, <4>3
    <3>8. CountsHeld(g, rs, k + 1)
        BY <3>2, <3>3, <3>4, <3>6, <3>7 DEF CountsHeld
    <3> QED BY <3>1, <3>8
  <2> HIDE DEF good
  <2>3. \A k \in 0 .. d : k \in good
      BY <2>0, <2>1, <2>2, UpTo
  <2>4. d \in 0 .. d
      BY <2>0
  <2> QED BY <2>3, <2>4 DEF good
<1> QED BY <1>7, <1>8

\* A deletion's card counts the lines in its ranges, the line of the last one
\* twice if it ends its file without a newline.
LEMMA LinesRemoved ==
    ASSUME NEW card, card.side = "L", NEW h \in Hunk, NotesInPlace(h),
           card.highlights = highlightsOf(h)
    PROVE  deletionSummary(card)
             = Cardinality(ChangedLines(h)) + (IF EndsUnterminated(h) THEN 1 ELSE 0)
<1> DEFINE rs == card.highlights
           n == Len(rs)
<1>1. rs = OfSide(card, "L")
    BY DEF OfSide
<1>2. deletionSummary(card) = (CHOOSE f : SumSteps(f, rs))[n]
    BY <1>1 DEF deletionSummary, SumSteps
<1>3. rs \in Seq(Span) /\ DOMAIN rs = 1 .. n /\ \A m \in 1 .. n : rs[m].start <= rs[m].end
    BY Highlights
<1>4. PICK d : Marking(rs, d, h)
    BY MarksOfHunk
<1> HIDE DEF rs
<1>5. n \in Nat /\ d \in 0 .. n /\ ApartTo(rs, d)
  <2>1. ApartTo(rs, d)
      BY <1>4 DEF Marking
  <2>2. Len(rs) \in Nat /\ d \in 0 .. Len(rs)
      BY <2>1 DEF ApartTo
  <2> QED BY <2>1, <2>2
<1>6. PICK f : SumSteps(f, rs) /\ deletionSummary(card) = f[n]
  <2>1. \E f : SumSteps(f, rs)
      BY <1>3, <1>5, SumsOfRanges
  <2> QED BY <1>2, <2>1
<1>7. f[d] = Cardinality(ChangedLines(h)) /\ f[d] \in Nat
  <2>1. CountsHeld(f, rs, d)
      BY <1>3, <1>5, <1>6, SumsOfRanges
  <2>2. Held(rs, d) = ChangedLines(h)
      BY <1>4 DEF Marking
  <2> QED BY <2>1, <2>2, FS_CardinalityType DEF CountsHeld
<1>8. CASE ~ EndsUnterminated(h)
  <2>1. d = n
      BY <1>4, <1>8 DEF Marking
  <2> QED BY <1>6, <1>7, <1>8, <2>1
<1>9. CASE EndsUnterminated(h)
  <2> DEFINE b == rs[d].end
  <2>1. d > 0 /\ n = d + 1 /\ rs[d + 1] = [start |-> b, end |-> b]
      BY <1>4, <1>9 DEF Marking
  <2>2. b \in Nat
    <3>1. d \in 1 .. n
        BY <1>5, <2>1
    <3>2. rs[d] \in Span
        BY <1>3, <3>1
    <3> QED BY <3>2 DEF Span
  <2>3. rs[d + 1].start = b /\ rs[d + 1].end = b /\ d + 1 \in 0 .. n /\ d + 1 # 0 /\ (d + 1) - 1 = d
      BY <1>5, <2>1
  <2> HIDE DEF b
  <2>4. f[d + 1] = f[d] + (b - b + 1)
      BY <1>6, <2>3 DEF SumSteps
  <2>5. f[n] = f[d] + 1
      BY <1>7, <2>1, <2>2, <2>4
  <2> QED BY <1>6, <1>7, <1>9, <2>5
<1> QED BY <1>8, <1>9

FirstPlace(files, k) == Min({i \in 1 .. k : files[i] = files[k]})
FilesBefore(files, i) == {files[j] : j \in 1 .. i - 1}

\* A file is read if the cap is not used up by the files before its first card.
LEMMA FilesRead ==
    ASSUME NEW files, DOMAIN files = 1 .. Len(files), Len(files) \in Nat,
           NEW k \in DOMAIN files, NEW failed, NEW length
    PROVE  LET texts == resolveCardFileTexts(files, failed, length)
               first == FirstPlace(files, k)
           IN  /\ first \in 1 .. k
               /\ files[k] \in DOMAIN texts <=> Cardinality(FilesBefore(files, first)) < MaxFiles
               /\ files[k] \in DOMAIN texts =>
                     texts[files[k]] = IF files[k] \in failed THEN NoText ELSE length
<1> DEFINE texts == resolveCardFileTexts(files, failed, length)
           first == FirstPlace(files, k)
           n == Len(files)
           ahead == [i \in 1 .. n |-> {files[j] : j \in 1 .. i - 1}]
           places == {i \in 1 .. n : Cardinality(ahead[i]) < MaxFiles}
           read == {files[i] : i \in places}
<1>1. k \in 1 .. n /\ n \in Nat /\ k \in Nat
    OBVIOUS
<1>2. texts = [f \in read |-> IF f \in failed THEN NoText ELSE length]
    BY DEF resolveCardFileTexts
<1>3. /\ first \in 1 .. k /\ files[first] = files[k]
      /\ \A i \in 1 .. k : files[i] = files[k] => first <= i
  <2> DEFINE S == {i \in 1 .. k : files[i] = files[k]}
  <2>1. S \in SUBSET Nat /\ S # {}
      BY <1>1
  <2>2. \E i \in S : \A j \in S : i <= j
    <3> HIDE DEF S
    <3> QED BY <2>1, Least
  <2>3. first \in S /\ \A j \in S : first <= j
      BY <2>2 DEF Min, FirstPlace
  <2> HIDE DEF first
  <2> QED BY <2>3
<1> HIDE DEF texts, first
<1>4. first \in 1 .. n
    BY <1>1, <1>3
<1>5. ahead[first] = FilesBefore(files, first)
    BY <1>4 DEF FilesBefore
<1>6. \A i \in 1 .. n : IsFiniteSet(ahead[i]) /\ Cardinality(ahead[i]) \in Nat
  <2> SUFFICES ASSUME NEW i \in 1 .. n PROVE IsFiniteSet(ahead[i]) /\ Cardinality(ahead[i]) \in Nat
      OBVIOUS
  <2> DEFINE f == [j \in 1 .. i - 1 |-> files[j]]
             T == {files[j] : j \in 1 .. i - 1}
  <2>1. ahead[i] = T
      OBVIOUS
  <2>2. f \in Surjection(1 .. i - 1, T)
      BY DEF Surjection
  <2>3. IsFiniteSet(1 .. i - 1)
      BY Interval
  <2> HIDE DEF f, T, ahead
  <2>4. IsFiniteSet(T)
      BY <2>2, <2>3, FS_Surjection
  <2> QED BY <2>1, <2>4, FS_CardinalityType
<1>7. \A i, j \in 1 .. n : i <= j => ahead[i] \subseteq ahead[j]
  <2> SUFFICES ASSUME NEW i \in 1 .. n, NEW j \in 1 .. n, i <= j PROVE ahead[i] \subseteq ahead[j]
      OBVIOUS
  <2>1. 1 .. i - 1 \subseteq 1 .. j - 1
      OBVIOUS
  <2> QED BY <2>1
<1> HIDE DEF ahead
<1>8. ASSUME NEW i \in 1 .. n, files[i] = files[k], Cardinality(ahead[i]) < MaxFiles
      PROVE  Cardinality(ahead[first]) < MaxFiles
  <2>1. first <= i
      BY <1>1, <1>3, <1>8
  <2>2. ahead[first] \subseteq ahead[i]
      BY <1>4, <1>7, <2>1
  <2>3. Cardinality(ahead[first]) <= Cardinality(ahead[i])
      BY <1>6, <2>2, FS_Subset
  <2> QED BY <1>4, <1>6, <1>8, <2>3, CardViewAssumption
<1>9. files[k] \in read <=> Cardinality(ahead[first]) < MaxFiles
  <2>1. files[k] \in read => \E i \in 1 .. n : files[i] = files[k] /\ Cardinality(ahead[i]) < MaxFiles
      OBVIOUS
  <2>2. Cardinality(ahead[first]) < MaxFiles => files[k] \in read
      BY <1>3, <1>4
  <2> HIDE DEF read
  <2> QED BY <1>8, <2>1, <2>2
<1> HIDE DEF read
<1> QED BY <1>2, <1>3, <1>5, <1>9 DEF texts, first

\* The lines a card of added lines is to show are those near its ranges.
LEMMA ShownOfRanges ==
    ASSUME NEW h \in Hunk, NotesInPlace(h), NEW length \in Nat
    PROVE  Shown(h, length)
             = {n \in 1 .. length : \E m \in Range(highlightsOf(h)) :
                                       n \in m.start - Context .. m.end + Context}
<1> DEFINE marks == highlightsOf(h)
           S == {n \in 1 .. length : \E m \in Range(marks) : n \in m.start - Context .. m.end + Context}
<1>1. /\ marks \in Seq(Span) /\ \A m \in 1 .. Len(marks) : marks[m].start <= marks[m].end
      /\ UNION {m.start .. m.end : m \in Range(marks)} = ChangedLines(h)
    BY Highlights
<1> HIDE DEF marks
<1>2. ASSUME NEW m \in Range(marks)
      PROVE  m.start \in Nat /\ m.end \in Nat /\ m.start <= m.end
  <2>1. PICK i \in 1 .. Len(marks) : m = marks[i]
      BY <1>1 DEF Range
  <2>2. m \in Span
      BY <1>1, <2>1
  <2> QED BY <1>1, <2>1, <2>2 DEF Span
<1>3. ASSUME NEW n \in 1 .. length,
             NEW m \in Range(marks), n \in m.start - Context .. m.end + Context
      PROVE  \E c \in ChangedLines(h) : n \in c - Context .. c + Context
  <2> DEFINE a == m.start
             b == m.end
  <2>1. a \in Nat /\ b \in Nat /\ a <= b /\ n \in a - Context .. b + Context
      BY <1>2, <1>3
  <2>2. a .. b \subseteq ChangedLines(h)
      BY <1>1
  <2> HIDE DEF a, b
  <2>3. CASE n < a
    <3>1. a \in a .. b /\ n \in a - Context .. a + Context
        BY <2>1, <2>3, CardViewAssumption
    <3> QED BY <2>2, <3>1
  <2>4. CASE b < n
    <3>1. b \in a .. b /\ n \in b - Context .. b + Context
        BY <2>1, <2>4, CardViewAssumption
    <3> QED BY <2>2, <3>1
  <2>5. CASE ~(n < a) /\ ~(b < n)
    <3>1. n \in a .. b /\ n \in n - Context .. n + Context
        BY <2>1, <2>5, CardViewAssumption
    <3> QED BY <2>2, <3>1
  <2> QED BY <2>3, <2>4, <2>5
<1>4. ASSUME NEW n \in 1 .. length, NEW c \in ChangedLines(h), n \in c - Context .. c + Context
      PROVE  \E m \in Range(marks) : n \in m.start - Context .. m.end + Context
  <2>1. PICK m \in Range(marks) : c \in m.start .. m.end
      BY <1>1
  <2>2. n \in m.start - Context .. m.end + Context
      BY <1>2, <1>4, <2>1, CardViewAssumption
  <2> QED BY <2>2
<1>5. \A n \in 1 .. length :
         (\E c \in ChangedLines(h) : n \in c - Context .. c + Context)
           <=> \E m \in Range(marks) : n \in m.start - Context .. m.end + Context
    BY <1>3, <1>4
<1>6. Shown(h, length) = S
    BY <1>5 DEF Shown
<1> QED BY <1>6 DEF marks

\* The code of a card of added lines.
LEMMA CodeOfAdded ==
    ASSUME NEW h \in Hunk, NotesInPlace(h), NEW length \in Nat
    PROVE  LET shown == Ascending(Shown(h, length)) IN
           buildCodeWindow(length, highlightsOf(h))
             = [i \in DOMAIN shown |-> [number |-> shown[i],
                                        highlighted |-> shown[i] \in ChangedLines(h)]]
<1> DEFINE marks == highlightsOf(h)
           S == Shown(h, length)
           shown == Ascending(S)
<1>1. marks \in Seq(Span) /\ UNION {m.start .. m.end : m \in Range(marks)} = ChangedLines(h)
    BY Highlights
<1>2. buildCodeWindow(length, marks)
        = [i \in DOMAIN shown |-> [number |-> shown[i], highlighted |-> Marked(shown[i], marks)]]
  <2>1. S = {n \in 1 .. length : \E m \in Range(marks) : n \in m.start - Context .. m.end + Context}
      BY ShownOfRanges
  <2>2. /\ S \in SUBSET (1 .. length)
        /\ \A n \in 1 .. length : n \in S <=>
              \E m \in Range(marks) : n \in m.start - Context .. m.end + Context
    <3> HIDE DEF S, marks
    <3> QED BY <2>1
  <2> HIDE DEF S, marks
  <2> QED BY <1>1, <2>2, CodeWindow
<1>3. \A x : Marked(x, marks) <=> x \in ChangedLines(h)
    BY <1>1 DEF Marked
<1> HIDE DEF marks, shown
<1>4. \A i \in DOMAIN shown : Marked(shown[i], marks) = (shown[i] \in ChangedLines(h))
  <2> SUFFICES ASSUME NEW i \in DOMAIN shown
               PROVE  Marked(shown[i], marks) = (shown[i] \in ChangedLines(h))
      OBVIOUS
  <2>1. Marked(shown[i], marks) \in BOOLEAN
      BY Zenon DEF Marked
  <2> QED BY <1>3, <2>1
<1>5. buildCodeWindow(length, marks)
        = [i \in DOMAIN shown |-> [number |-> shown[i], highlighted |-> shown[i] \in ChangedLines(h)]]
    BY <1>2, <1>4, Zenon
<1> QED BY <1>5 DEF marks, shown

\* A card without added lines shows no code.
LEMMA NoCodeOfNothing == ASSUME NEW length \in Nat PROVE buildCodeWindow(length, << >>) = NoCode
<1> DEFINE none == << >>
           shown == Ascending({})
<1>1. none \in Seq(Span) /\ Range(none) = {}
    BY DEF Range
<1> HIDE DEF none
<1>2. DOMAIN shown = {}
  <2>1. {} \in SUBSET Nat /\ IsFiniteSet({}) /\ Cardinality({}) = 0
      BY FS_EmptySet
  <2>2. Lists(Ascending({}), {})
      BY <2>1, AscendingOrder
  <2> QED BY <2>1, <2>2 DEF Lists
<1>3. buildCodeWindow(length, none)
        = [i \in DOMAIN shown |-> [number |-> shown[i], highlighted |-> Marked(shown[i], none)]]
    BY <1>1, CodeWindow
<1> HIDE DEF shown
<1> QED BY <1>2, <1>3 DEF none, NoCode

\* A card shows the changed lines of its hunk in their context, marked, or tells
\* how many are gone, one too many if the last of them ended its file without a
\* newline; it lacks the code only of a file that was not read
\* (buildCardViews).
THEOREM CardsShowTheChange == Spec => []CardShowsItsChange
<1>1. ASSUME DeckInv, Cards PROVE CardShowsItsChange
  <2> SUFFICES ASSUME Done, NEW length \in FileLengths,
                      NEW failed \in SUBSET {h.file : h \in Range(diff)},
                      NEW k \in DOMAIN buildCardViews(deck, failed, length)
               PROVE  LET views == buildCardViews(deck, failed, length)
                          h == diff[Ranking(diff)[k]]
                          first == Min({i \in 1 .. k : views[i].file = h.file})
                          riskier == {views[i].file : i \in 1 .. first - 1}
                          readable == h.file \notin failed /\ Cardinality(riskier) < MaxFiles
                      IN IF side(h) = "R" /\ readable
                         THEN views[k].code =
                                LET shown == Ascending(Shown(h, length)) IN
                                [i \in DOMAIN shown |-> [number |-> shown[i],
                                                         highlighted |-> shown[i] \in ChangedLines(h)]]
                         ELSE /\ views[k].code = NoCode
                              /\ side(h) = "L" =>
                                    views[k].removedLines = Cardinality(ChangedLines(h))
                                      + (IF EndsUnterminated(h) THEN 1 ELSE 0)
      BY DEF CardShowsItsChange
  <2> DEFINE views == buildCardViews(deck, failed, length)
             h == diff[Ranking(diff)[k]]
             card == deck[k]
             files == [i \in DOMAIN deck |-> deck[i].file]
             texts == resolveCardFileTexts(files, failed, length)
             first == Min({i \in 1 .. k : views[i].file = h.file})
             riskier == {views[i].file : i \in 1 .. first - 1}
             readable == h.file \notin failed /\ Cardinality(riskier) < MaxFiles
  <2>1. length \in Nat /\ length # NoText
      BY CardViewAssumption DEF NoText
  <2>2. DOMAIN deck = 1 .. Len(deck) /\ Len(deck) \in Nat
      BY <1>1 DEF Cards
  <2>3. DOMAIN views = DOMAIN deck /\ \A i \in DOMAIN deck : views[i] = toCardView(deck[i], texts)
      BY DEF buildCardViews
  <2>4. k \in DOMAIN deck /\ \A i \in DOMAIN deck : views[i].file = deck[i].file
    <3>1. k \in DOMAIN deck
        BY <2>3
    <3> HIDE DEF texts, views
    <3>2. \A i \in DOMAIN deck : toCardView(deck[i], texts).file = deck[i].file
        BY DEF toCardView
    <3> QED BY <2>3, <3>1, <3>2
  <2>5. /\ h \in Hunk /\ card.file = h.file /\ card.side = side(h)
        /\ card.highlights = highlightsOf(h) /\ NotesInPlace(h)
      BY <1>1, <2>4, CardOfDone
  <2>6. /\ views[k].code = IF card.file \in DOMAIN texts /\ texts[card.file] # NoText
                           THEN buildCodeWindow(texts[card.file], OfSide(card, "R")) ELSE NoCode
        /\ views[k].removedLines = deletionSummary(card)
      BY <2>3, <2>4 DEF toCardView
  <2>7. /\ DOMAIN files = 1 .. Len(files) /\ Len(files) \in Nat /\ Len(files) = Len(deck)
        /\ \A i \in DOMAIN deck : files[i] = deck[i].file
      BY <2>2
  <2> HIDE DEF views, h, card, files, texts
  <2>8. /\ h.file \in DOMAIN texts <=> Cardinality(riskier) < MaxFiles
        /\ h.file \in DOMAIN texts => texts[h.file] = IF h.file \in failed THEN NoText ELSE length
    <3>1. k \in DOMAIN files /\ files[k] = h.file
        BY <2>2, <2>4, <2>5, <2>7 DEF card
    <3>2. \A i \in 1 .. k : views[i].file = files[i]
        BY <2>2, <2>4, <2>7
    <3>3. first = FirstPlace(files, k)
      <4>1. {i \in 1 .. k : views[i].file = h.file} = {i \in 1 .. k : files[i] = files[k]}
          BY <3>1, <3>2
      <4> QED BY <4>1 DEF FirstPlace
    <3> HIDE DEF first
    <3>4. /\ first \in 1 .. k
          /\ files[k] \in DOMAIN texts <=> Cardinality(FilesBefore(files, first)) < MaxFiles
          /\ files[k] \in DOMAIN texts =>
                texts[files[k]] = IF files[k] \in failed THEN NoText ELSE length
        BY <2>7, <3>1, <3>3, FilesRead DEF texts
    <3>5. riskier = FilesBefore(files, first)
      <4>1. \A i \in 1 .. first - 1 : i \in 1 .. k
          BY <2>2, <2>4, <3>4
      <4> QED BY <3>2, <4>1 DEF FilesBefore
    <3> HIDE DEF riskier
    <3> QED BY <3>1, <3>4, <3>5
  <2> HIDE DEF first, riskier
  <2>9. views[k].code = IF readable THEN buildCodeWindow(length, OfSide(card, "R")) ELSE NoCode
      BY <2>1, <2>5, <2>6, <2>8
  <2>10. CASE side(h) = "R"
    <3>1. OfSide(card, "R") = highlightsOf(h)
        BY <2>5, <2>10 DEF OfSide
    <3>2. readable => views[k].code =
             LET shown == Ascending(Shown(h, length)) IN
             [i \in DOMAIN shown |-> [number |-> shown[i],
                                      highlighted |-> shown[i] \in ChangedLines(h)]]
        BY <2>1, <2>5, <2>9, <3>1, CodeOfAdded
    <3>3. ~ readable => views[k].code = NoCode
        BY <2>9
    <3> QED BY <2>10, <3>2, <3>3 DEF views, h, first, riskier
  <2>11. CASE side(h) = "L"
    <3>1. OfSide(card, "R") = << >>
        BY <2>5, <2>11 DEF OfSide
    <3>2. views[k].code = NoCode
        BY <2>1, <2>9, <3>1, NoCodeOfNothing
    <3>3. views[k].removedLines = Cardinality(ChangedLines(h))
                                    + (IF EndsUnterminated(h) THEN 1 ELSE 0)
        BY <2>5, <2>6, <2>11, LinesRemoved
    <3> QED BY <2>11, <3>2, <3>3 DEF views, h, first, riskier
  <2>12. side(h) \in {"R", "L"}
      BY DEF side
  <2> QED BY <2>10, <2>11, <2>12
<1> QED BY <1>1, DeckInductive, CardsTyped, PTL

=============================================================================
