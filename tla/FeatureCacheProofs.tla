------------------------- MODULE FeatureCacheProofs -------------------------
(***************************************************************************)
(* Proofs about the features of a block: an item that stays in the bucket  *)
(* cache keeps its slot, the worker's cache is the one a block was planned *)
(* with, and every row on the GPU is that of its item.                     *)
(*                                                                         *)
(* First numbers in order and what a mask selects, the cache, and how the  *)
(* feature file is read; then the plan, the rows that wait and the files   *)
(* they become; then the invariant, the steps of the plan and of training, *)
(* and what follows.                                                       *)
(***************************************************************************)
EXTENDS FeatureCache, DataLemmas

----------------------------------------------------------------------------
(* Numbers in order *)

\* Places begin at 1: one more than how many are less.
LEMMA NthIsRank ==
  ASSUME NEW S \in SUBSET Nat, IsFiniteSet(S), NEW x \in S
  PROVE  NthOf(S, x) = Rank(S, x) + 1
  <1> DEFINE below == { y \in S : y < x }
  <1>1. { y \in S : y <= x } = below \cup {x}
    <2>1. ASSUME NEW y \in S PROVE y <= x <=> y < x \/ y = x
      <3>1. PICK a \in Nat, b \in Nat : a = x /\ b = y
        OBVIOUS
      <3> QED
        BY <3>1
    <2> QED
      BY <2>1
  <1>2. IsFiniteSet(below) /\ x \notin below
    BY FS_Subset
  <1>3. Cardinality(below \cup {x}) = Cardinality(below) + 1
    BY <1>2, FS_AddElement
  <1> QED
    BY <1>1, <1>3 DEF NthOf, Rank

\* Every number of a finite set has a place, every place a number.
LEMMA NthFacts ==
  ASSUME NEW S \in SUBSET Nat, IsFiniteSet(S)
  PROVE  /\ Cardinality(S) \in Nat
         /\ \A x \in S : NthOf(S, x) \in 1 .. Cardinality(S)
         /\ \A x, y \in S : NthOf(S, x) = NthOf(S, y) => x = y
         /\ \A k \in 1 .. Cardinality(S) : \E x \in S : NthOf(S, x) = k
  <1>1. PICK n \in Nat : n = Cardinality(S)
    BY FS_CardinalityType
  <1>2. /\ \A e \in S : Rank(S, e) \in 0 .. n - 1
        /\ \A e, g \in S : Rank(S, e) = Rank(S, g) => e = g
        /\ \A i \in 0 .. n - 1 : \E e \in S : Rank(S, e) = i
    BY <1>1, RankFacts
  <1>3. ASSUME NEW x \in S PROVE NthOf(S, x) \in 1 .. n /\ NthOf(S, x) = Rank(S, x) + 1
    BY <1>2, NthIsRank
  <1>4. ASSUME NEW x \in S, NEW y \in S, NthOf(S, x) = NthOf(S, y) PROVE x = y
    <2>1. PICK a \in Nat, b \in Nat : a = Rank(S, x) /\ b = Rank(S, y)
      BY <1>2
    <2>2. a + 1 = b + 1
      BY <1>3, <1>4, <2>1
    <2>3. a = b
      BY <2>2
    <2> QED
      BY <1>2, <2>1, <2>3
  <1>5. ASSUME NEW k \in 1 .. n PROVE \E x \in S : NthOf(S, x) = k
    <2>1. PICK i \in 0 .. n - 1 : k = i + 1
      <3>1. k - 1 \in 0 .. n - 1 /\ k = (k - 1) + 1
        OBVIOUS
      <3> QED
        BY <3>1
    <2>2. PICK x \in S : Rank(S, x) = i
      BY <1>2
    <2> QED
      BY <1>3, <2>1, <2>2
  <1> QED
    BY <1>1, <1>3, <1>4, <1>5

\* In order, each number is at its place.
LEMMA SortedFacts ==
  ASSUME NEW S \in SUBSET Nat, IsFiniteSet(S)
  PROVE  /\ Cardinality(S) \in Nat /\ Sorted(S) \in [1 .. Cardinality(S) -> S]
         /\ \A x \in S : NthOf(S, x) \in 1 .. Cardinality(S) /\ Sorted(S)[NthOf(S, x)] = x
         /\ \A k \in 1 .. Cardinality(S) : NthOf(S, Sorted(S)[k]) = k
  <1>1. PICK n \in Nat : n = Cardinality(S)
    BY FS_CardinalityType
  <1>2. /\ \A x \in S : NthOf(S, x) \in 1 .. n
        /\ \A x, y \in S : NthOf(S, x) = NthOf(S, y) => x = y
        /\ \A k \in 1 .. n : \E x \in S : NthOf(S, x) = k
    BY <1>1, NthFacts
  <1>3. ASSUME NEW k \in 1 .. n
        PROVE  Sorted(S)[k] \in S /\ NthOf(S, Sorted(S)[k]) = k
    <2>1. Sorted(S)[k] = CHOOSE x \in S : NthOf(S, x) = k
      BY <1>1 DEF Sorted
    <2>2. \E x \in S : NthOf(S, x) = k
      BY <1>2
    <2> HIDE DEF Sorted
    <2> QED
      BY <2>1, <2>2
  <1>4. Sorted(S) \in [1 .. n -> S]
    BY <1>1, <1>3 DEF Sorted
  <1>5. ASSUME NEW x \in S PROVE Sorted(S)[NthOf(S, x)] = x
    BY <1>2, <1>3
  <1> QED
    BY <1>1, <1>2, <1>3, <1>4, <1>5

\* The numbers from 1 to n are in order.
LEMMA SortedInterval ==
  ASSUME NEW n \in Nat
  PROVE  /\ Cardinality(1 .. n) = n /\ IsFiniteSet(1 .. n)
         /\ \A k \in 1 .. n : NthOf(1 .. n, k) = k /\ Sorted(1 .. n)[k] = k
  <1>1. Cardinality(1 .. n) = n /\ IsFiniteSet(1 .. n) /\ 1 .. n \in SUBSET Nat
    BY FS_Interval
  <1>2. ASSUME NEW k \in 1 .. n PROVE NthOf(1 .. n, k) = k
    <2>1. { y \in 1 .. n : y <= k } = 1 .. k
      OBVIOUS
    <2>2. Cardinality(1 .. k) = k
      BY FS_Interval
    <2> QED
      BY <2>1, <2>2 DEF NthOf
  <1>3. \A k \in 1 .. n : Sorted(1 .. n)[NthOf(1 .. n, k)] = k
    BY <1>1, SortedFacts
  <1> QED
    BY <1>1, <1>2, <1>3

\* What is selected: r, of the places P of s.
IsMasked(r, s, P, X) ==
  /\ r \in [1 .. Cardinality(P) -> X]
  /\ \A k \in 1 .. Cardinality(P) : Sorted(P)[k] \in P /\ r[k] = s[Sorted(P)[k]]
  /\ \A k \in P : NthOf(P, k) \in 1 .. Cardinality(P) /\ r[NthOf(P, k)] = s[k]

LEMMA MaskedFacts ==
  ASSUME NEW n \in Nat, NEW X, NEW s \in [1 .. n -> X], NEW P \in SUBSET (1 .. n)
  PROVE  /\ IsFiniteSet(P) /\ Cardinality(P) \in 0 .. n
         /\ IsMasked(Masked(s, P), s, P, X)
  <1>1. IsFiniteSet(P) /\ P \in SUBSET Nat /\ Cardinality(P) \in Nat /\ Cardinality(P) <= n
    <2>1. IsFiniteSet(1 .. n) /\ Cardinality(1 .. n) = n
      BY SortedInterval
    <2>2. IsFiniteSet(P) /\ Cardinality(P) <= Cardinality(1 .. n)
      BY <2>1, FS_Subset
    <2>3. P \in SUBSET Nat
      OBVIOUS
    <2> QED
      BY <2>1, <2>2, <2>3, FS_CardinalityType
  <1>2. PICK m \in Nat : m = Cardinality(P)
    BY <1>1
  <1>3. /\ Sorted(P) \in [1 .. m -> P]
        /\ \A x \in P : NthOf(P, x) \in 1 .. m /\ Sorted(P)[NthOf(P, x)] = x
    BY <1>1, <1>2, SortedFacts
  <1>4. Masked(s, P) = [k \in 1 .. m |-> s[Sorted(P)[k]]]
    BY <1>2 DEF Masked
  <1>5. \A k \in 1 .. m : Sorted(P)[k] \in P /\ Masked(s, P)[k] = s[Sorted(P)[k]]
    BY <1>3, <1>4
  <1>6. Masked(s, P) \in [1 .. m -> X]
    BY <1>3, <1>4
  <1>7. ASSUME NEW k \in P PROVE Masked(s, P)[NthOf(P, k)] = s[k]
    BY <1>3, <1>5
  <1> QED
    BY <1>1, <1>2, <1>3, <1>5, <1>6, <1>7 DEF IsMasked

\* All places selected.
LEMMA MaskedAll ==
  ASSUME NEW n \in Nat, NEW X, NEW s \in [1 .. n -> X]
  PROVE  Masked(s, 1 .. n) = s
  <1>1. /\ Cardinality(1 .. n) = n
        /\ \A k \in 1 .. n : Sorted(1 .. n)[k] = k
    BY SortedInterval
  <1>2. Masked(s, 1 .. n) = [k \in 1 .. n |-> s[Sorted(1 .. n)[k]]]
    BY <1>1 DEF Masked
  <1> QED
    BY <1>1, <1>2

----------------------------------------------------------------------------
(* The cache *)

\* Items and blocks are finite sets of numbers.
LEMMA DataFacts ==
  /\ Items \in SUBSET Nat /\ IsFiniteSet(Items) /\ Cardinality(Items) = NItems
  /\ NItems \in Nat \ {0} /\ Budget \in Nat \ {0} /\ Budget <= NItems
  /\ NBlocks \in Nat \ {0} /\ Blocks = 0 .. NBlocks - 1 /\ 0 \in Blocks
  <1>1. PICK n \in Nat \ {0} : n = NItems
    BY FeatureAssumption
  <1>2. IsFiniteSet(0 .. n - 1) /\ Cardinality(0 .. n - 1) = n /\ 0 .. n - 1 \in SUBSET Nat
    <2>1. n - 1 \in Int /\ n - 1 - 0 + 1 = n /\ ~(0 > n - 1)
      OBVIOUS
    <2> QED
      BY <2>1, FS_Interval
  <1>3. Budget \in Nat \ {0} /\ Budget <= NItems
    BY FeatureAssumption
  <1>4. NBlocks \in Nat \ {0}
    <2>1. PICK B \in Nat \ {0}, E \in Nat \ {0} : B = BlockSize /\ E = NEdges
      BY FeatureAssumption
    <2>2. (E + B - 1) \div B \in Nat \ {0}
      OBVIOUS
    <2> QED
      BY <2>1, <2>2 DEF NBlocks
  <1>5. Blocks = 0 .. NBlocks - 1 /\ 0 \in Blocks
    BY <1>4 DEF Blocks
  <1> QED
    BY <1>1, <1>2, <1>3, <1>4, <1>5 DEF Items

\* The slots of the cache.
Slots == 1 .. Budget

\* A slot has one item, an item one slot.
IsIndex(f) == f \in [Slots -> Items] /\ \A s, t \in Slots : f[s] = f[t] => s = t

\* What is chosen for the cache has no item twice.
LEMMA HottestFacts ==
  ASSUME NEW cache \in Hottest
  PROVE  IsIndex(cache)
  <1>1. /\ cache \in [Slots -> Items]
        /\ \A s, t \in Slots : s < t => cache[s] # cache[t]
    BY DEF Hottest, Slots
  <1>2. ASSUME NEW s \in Slots, NEW t \in Slots, cache[s] = cache[t] PROVE s = t
    <2>1. PICK a \in Nat, b \in Nat : a = s /\ b = t
      BY DataFacts DEF Slots
    <2>2. ~(a < b) /\ ~(b < a)
      BY <1>1, <1>2, <2>1
    <2> QED
      BY <2>1, <2>2
  <1> QED
    BY <1>1, <1>2 DEF IsIndex

\* Positions of the cache whose items come.
Comes(cache) == { k \in DOMAIN cache : cache[k] \notin ToSet(idx) }

\* As many items come as leave: those that stay are in both.
LEMMA ComesAsGone ==
  ASSUME NEW cache, IsIndex(cache), IsIndex(idx)
  PROVE  /\ Gone(cache) \in SUBSET Slots /\ Comes(cache) \in SUBSET Slots
         /\ Cardinality(Comes(cache)) = Cardinality(Gone(cache)) /\ Cardinality(Gone(cache)) \in Nat
  <1>1. /\ cache \in [Slots -> Items] /\ \A s, t \in Slots : cache[s] = cache[t] => s = t
        /\ idx \in [Slots -> Items] /\ \A s, t \in Slots : idx[s] = idx[t] => s = t
    BY DEF IsIndex
  <1>2. DOMAIN cache = Slots /\ DOMAIN idx = Slots
    BY <1>1
  <1> DEFINE gone == Gone(cache)
             comes == Comes(cache)
             kept == Slots \ gone
             stay == Slots \ comes
             h == [s \in kept |-> CHOOSE k \in Slots : cache[k] = idx[s]]
  <1>3. /\ gone = { s \in Slots : idx[s] \notin ToSet(cache) }
        /\ comes = { k \in Slots : cache[k] \notin ToSet(idx) }
    BY <1>2 DEF Gone, Comes
  <1>4. ToSet(cache) = { cache[k] : k \in Slots } /\ ToSet(idx) = { idx[s] : s \in Slots }
    BY <1>2 DEF ToSet
  <1> HIDE DEF gone, comes
  <1>5. ASSUME NEW s \in kept
        PROVE  h[s] \in stay /\ cache[h[s]] = idx[s]
    <2>1. \E k \in Slots : cache[k] = idx[s]
      BY <1>3, <1>4
    <2>2. h[s] = CHOOSE k \in Slots : cache[k] = idx[s]
      OBVIOUS
    <2>3. h[s] \in Slots /\ cache[h[s]] = idx[s]
      BY <2>1, <2>2
    <2>4. idx[s] \in ToSet(idx)
      BY <1>4
    <2> HIDE DEF h
    <2> QED
      BY <1>3, <2>3, <2>4
  <1>6. h \in [kept -> stay]
    BY <1>5
  <1> HIDE DEF h
  <1>7. ASSUME NEW s \in kept, NEW t \in kept, h[s] = h[t] PROVE s = t
    <2>1. idx[s] = idx[t]
      BY <1>5, <1>7
    <2> QED
      BY <1>1, <2>1
  <1>8. ASSUME NEW k \in stay PROVE \E s \in kept : h[s] = k
    <2>1. cache[k] \in ToSet(idx)
      BY <1>3
    <2>2. PICK s \in Slots : idx[s] = cache[k]
      BY <1>4, <2>1
    <2>3. idx[s] \in ToSet(cache)
      BY <1>4, <2>2
    <2>4. s \in kept
      BY <1>3, <2>3
    <2>5. h[s] = k
      BY <1>1, <1>5, <2>2, <2>4
    <2> QED
      BY <2>4, <2>5
  <1>9. ExistsBijection(kept, stay)
    BY <1>6, <1>7, <1>8 DEF ExistsBijection, Bijection, Injection, IsInjective, Surjection
  <1>10. PICK n \in Nat : n = Budget /\ Slots = 1 .. n /\ IsFiniteSet(Slots) /\ Cardinality(Slots) = n
    BY DataFacts, SortedInterval DEF Slots
  <1>11. /\ gone \in SUBSET Slots /\ comes \in SUBSET Slots
         /\ IsFiniteSet(gone) /\ IsFiniteSet(kept) /\ IsFiniteSet(comes) /\ IsFiniteSet(stay)
    <2>1. gone \in SUBSET Slots /\ comes \in SUBSET Slots
      BY <1>3
    <2> QED
      BY <1>10, <2>1, FS_Subset
  <1>12. Cardinality(kept) = Cardinality(stay)
    BY <1>9, <1>11, FS_Bijection
  <1>13. Cardinality(gone \cup kept) = Cardinality(gone) + Cardinality(kept)
    BY <1>11, DisjointCount
  <1>14. Cardinality(comes \cup stay) = Cardinality(comes) + Cardinality(stay)
    BY <1>11, DisjointCount
  <1>15. gone \cup kept = Slots /\ comes \cup stay = Slots
    BY <1>11
  <1>16. PICK a \in Nat, b \in Nat, c \in Nat :
           a = Cardinality(gone) /\ b = Cardinality(comes) /\ c = Cardinality(kept)
    BY <1>11, FS_CardinalityType
  <1>17. a + c = n /\ b + c = n
    BY <1>10, <1>12, <1>13, <1>14, <1>15, <1>16
  <1>18. a = b
    BY <1>17
  <1> QED
    BY <1>11, <1>16, <1>18 DEF gone, comes

\* The slots of the cache after a period that is not the first: rows of what comes, in
\* the places of what leaves.
Replaced(f, old, P, rows) ==
  /\ P \in SUBSET Slots /\ rows \in [1 .. Cardinality(P) -> Items] /\ Cardinality(P) \in Nat
  /\ \A s \in P : NthOf(P, s) \in 1 .. Cardinality(P)
  /\ f = [s \in Slots |-> IF s \in P THEN rows[NthOf(P, s)] ELSE old[s]]

\* The first cache is taken as it is.
LEMMA FirstCache ==
  ASSUME NEW cache, IsIndex(cache), idx = <<>>
  PROVE  Merge(cache) = cache /\ Incre(cache) = cache /\ Gone(cache) = {}
  <1>1. DOMAIN idx = {} /\ ToSet(idx) = {}
    BY DEF ToSet
  <1>2. cache \in [1 .. Budget -> Items] /\ Budget \in Nat
    BY DataFacts DEF IsIndex, Slots
  <1>3. { k \in DOMAIN cache : cache[k] \notin ToSet(idx) } = 1 .. Budget
    BY <1>1, <1>2
  <1>4. Incre(cache) = cache
    BY <1>2, <1>3, MaskedAll DEF Incre
  <1> QED
    BY <1>1, <1>4 DEF Merge, Gone

\* A later cache: each slot keeps its item or is given one that comes, and no item of the
\* old cache is left that is not wanted.
LEMMA LaterCache ==
  ASSUME NEW cache, IsIndex(cache), IsIndex(idx)
  PROVE  /\ Replaced(Merge(cache), idx, Gone(cache), Incre(cache))
         /\ IsIndex(Merge(cache)) /\ ToSet(Merge(cache)) \subseteq ToSet(cache)
  <1>1. /\ cache \in [Slots -> Items] /\ \A s, t \in Slots : cache[s] = cache[t] => s = t
        /\ idx \in [Slots -> Items] /\ \A s, t \in Slots : idx[s] = idx[t] => s = t
        /\ DOMAIN cache = Slots /\ DOMAIN idx = Slots
    BY DEF IsIndex
  <1> DEFINE P == Gone(cache)
             C == Comes(cache)
             rows == Incre(cache)
             f == Merge(cache)
  <1>2. P \in SUBSET Slots /\ C \in SUBSET Slots /\ Cardinality(C) = Cardinality(P) /\ Cardinality(P) \in Nat
    BY ComesAsGone
  <1>3. IsMasked(rows, cache, C, Items)
    <2>1. rows = Masked(cache, C)
      BY DEF Incre, Comes
    <2>2. cache \in [1 .. Budget -> Items] /\ C \in SUBSET (1 .. Budget) /\ Budget \in Nat
      BY <1>1, <1>2, DataFacts DEF Slots
    <2> HIDE DEF rows, C
    <2> QED
      BY <2>1, <2>2, MaskedFacts
  <1>4. PICK m \in Nat : m = Cardinality(P) /\ m = Cardinality(C)
    BY <1>2
  <1>5. /\ P \in SUBSET Nat /\ C \in SUBSET Nat /\ IsFiniteSet(P) /\ IsFiniteSet(C)
    <2>1. IsFiniteSet(Slots) /\ Slots \in SUBSET Nat
      BY DataFacts, SortedInterval DEF Slots
    <2> HIDE DEF P, C
    <2> QED
      BY <1>2, <2>1, FS_Subset
  <1>6. /\ \A s \in P : NthOf(P, s) \in 1 .. m
        /\ \A s, t \in P : NthOf(P, s) = NthOf(P, t) => s = t
    BY <1>4, <1>5, NthFacts
  <1>7. /\ rows \in [1 .. m -> Items]
        /\ \A k \in 1 .. m : Sorted(C)[k] \in C /\ rows[k] = cache[Sorted(C)[k]]
    BY <1>3, <1>4 DEF IsMasked
  <1>8. \A k \in 1 .. m : NthOf(C, Sorted(C)[k]) = k
    BY <1>4, <1>5, SortedFacts
  <1>9. f = [s \in Slots |-> IF s \in P THEN rows[NthOf(P, s)] ELSE idx[s]]
    <2>1. idx # <<>>
      <3>1. 1 \in Slots
        BY DataFacts DEF Slots
      <3>2. DOMAIN <<>> = {}
        OBVIOUS
      <3> QED
        BY <1>1, <3>1, <3>2
    <2> QED
      BY <1>1, <2>1 DEF Merge
  <1>10. ToSet(cache) = { cache[k] : k \in Slots } /\ ToSet(idx) = { idx[s] : s \in Slots }
    BY <1>1 DEF ToSet
  <1>11. /\ \A k \in C : cache[k] \notin ToSet(idx)
         /\ \A s \in Slots \ P : idx[s] \in ToSet(cache)
    BY <1>1 DEF Comes, Gone
  <1> HIDE DEF P, C, rows, f
  <1>12. ASSUME NEW k \in 1 .. m, NEW l \in 1 .. m, rows[k] = rows[l] PROVE k = l
    <2>1. Sorted(C)[k] = Sorted(C)[l]
      BY <1>1, <1>2, <1>7, <1>12
    <2> QED
      BY <1>8, <2>1
  <1>13. \A k \in 1 .. m : rows[k] \in ToSet(cache) /\ rows[k] \notin ToSet(idx)
    BY <1>2, <1>7, <1>10, <1>11
  <1>14. \A s \in Slots : f[s] = IF s \in P THEN rows[NthOf(P, s)] ELSE idx[s]
    BY <1>9
  <1>15. f \in [Slots -> Items]
    BY <1>1, <1>6, <1>7, <1>9
  <1>16. ASSUME NEW s \in Slots, NEW t \in Slots, f[s] = f[t] PROVE s = t
    <2>1. CASE s \in P /\ t \in P
      BY <1>6, <1>12, <1>14, <1>16, <2>1
    <2>2. CASE s \in P /\ t \notin P
      <3>1. f[s] \notin ToSet(idx) /\ f[t] \in ToSet(idx)
        BY <1>6, <1>10, <1>13, <1>14, <2>2
      <3> QED
        BY <1>16, <3>1
    <2>3. CASE s \notin P /\ t \in P
      <3>1. f[t] \notin ToSet(idx) /\ f[s] \in ToSet(idx)
        BY <1>6, <1>10, <1>13, <1>14, <2>3
      <3> QED
        BY <1>16, <3>1
    <2>4. CASE s \notin P /\ t \notin P
      BY <1>1, <1>14, <1>16, <2>4
    <2> QED
      BY <2>1, <2>2, <2>3, <2>4
  <1>17. ASSUME NEW s \in Slots PROVE f[s] \in ToSet(cache)
    BY <1>6, <1>11, <1>13, <1>14
  <1>18. ToSet(f) \subseteq ToSet(cache)
    BY <1>15, <1>17 DEF ToSet
  <1>19. IsIndex(f)
    BY <1>15, <1>16 DEF IsIndex
  <1>20. Replaced(f, idx, P, rows)
    BY <1>2, <1>4, <1>6, <1>7, <1>9 DEF Replaced
  <1> QED
    BY <1>18, <1>19, <1>20 DEF P, rows, f

----------------------------------------------------------------------------
(* Reading the feature file *)

\* Rows whose item is read before row x of the feature file.
RowsBelow(rows, x) == { k \in DOMAIN rows : rows[k] < x }
RowsIn(rows, start) == { k \in DOMAIN rows : start <= rows[k] /\ rows[k] < start + Window }

\* The whole feature file fits into a window.
OneWindow == Window >= NItems

\* What is read is a row of the file, or no row at all.
LEMMA RowReadFacts ==
  ASSUME NEW start \in Nat, NEW i \in Items, start <= i
  PROVE  RowRead(start, i) \in Feature /\ (start = 0 => RowRead(start, i) = i)
  <1>1. PICK z \in Nat \ {0}, n \in Nat \ {0} : z = ItemSize /\ n = NItems
    BY FeatureAssumption
  <1>2. i \in 0 .. n - 1
    BY <1>1 DEF Items
  <1>3. start \div z \in Nat /\ start \div z <= start
    <2>1. PICK q \in Nat, r \in Nat : q = start \div z /\ start = q * z + r
      <3>1. /\ start \div z \in Nat /\ start % z \in 0 .. z - 1
            /\ start = (start \div z) * z + (start % z)
        BY Division
      <3>2. start % z \in Nat
        BY <3>1
      <3> QED
        BY <3>1, <3>2
    <2>2. q * z >= q
      BY <1>1
    <2>3. PICK p \in Nat : p = q * z
      OBVIOUS
    <2> QED
      BY <2>1, <2>2, <2>3
  <1>4. start \div z + (i - start) \in 0 .. n - 1
    BY <1>2, <1>3
  <1>5. RowRead(start, i) \in {i, start \div z + (i - start), Junk}
    BY <1>1 DEF RowRead
  <1>6. RowRead(start, i) \in Feature
    BY <1>1, <1>4, <1>5 DEF Feature, Items
  <1>7. start = 0 => RowRead(start, i) = i
    BY DEF RowRead
  <1> QED
    BY <1>6, <1>7

\* A window gives as many rows as it has items of the tensor.
LEMMA OfWindowFacts ==
  ASSUME NEW n \in Nat, NEW rows \in [1 .. n -> Items], NEW start \in Nat
  PROVE  LET c == Cardinality(RowsIn(rows, start))
         IN  /\ RowsIn(rows, start) \in SUBSET (1 .. n) /\ c \in Nat
             /\ OfWindow(rows, start) \in [1 .. c -> Feature]
  <1> DEFINE P == RowsIn(rows, start)
             r == InWindow(rows, start)
  <1>1. P \in SUBSET (1 .. n)
    BY DEF RowsIn
  <1>2. r = Masked(rows, P)
    BY DEF InWindow, RowsIn
  <1>3. \A k \in P : start <= rows[k]
    BY DEF RowsIn
  <1> HIDE DEF P, r
  <1>4. Cardinality(P) \in 0 .. n /\ IsMasked(r, rows, P, Items)
    BY <1>1, <1>2, MaskedFacts
  <1>5. PICK c \in Nat : c = Cardinality(P)
    BY <1>4
  <1>6. r \in [1 .. c -> Items] /\ \A k \in 1 .. c : start <= r[k]
    BY <1>3, <1>4, <1>5 DEF IsMasked
  <1>7. OfWindow(rows, start) = [j \in DOMAIN r |-> RowRead(start, r[j])]
    BY DEF OfWindow, r
  <1>8. \A j \in 1 .. c : RowRead(start, r[j]) \in Feature
    BY <1>6, RowReadFacts
  <1>9. OfWindow(rows, start) \in [1 .. c -> Feature]
    BY <1>6, <1>7, <1>8
  <1> QED
    BY <1>1, <1>5, <1>9 DEF P

\* In one window every row is read from its place.
LEMMA FirstWindow ==
  ASSUME NEW n \in Nat, NEW rows \in [1 .. n -> Items], OneWindow
  PROVE  OfWindow(rows, 0) = rows
  <1>1. PICK w \in Nat \ {0}, m \in Nat \ {0} : w = Window /\ m = NItems /\ w >= m
    BY FeatureAssumption DEF OneWindow
  <1>2. \A k \in 1 .. n : rows[k] \in 0 .. m - 1
    BY <1>1 DEF Items
  <1>3. \A k \in 1 .. n : 0 <= rows[k] /\ rows[k] < 0 + Window
    BY <1>1, <1>2
  <1>4. InWindow(rows, 0) = Masked(rows, 1 .. n)
    <2>1. { k \in DOMAIN rows : 0 <= rows[k] /\ rows[k] < 0 + Window } = 1 .. n
      BY <1>3
    <2> QED
      BY <2>1 DEF InWindow
  <1>5. InWindow(rows, 0) = rows
    BY <1>4, MaskedAll
  <1>6. \A k \in 1 .. n : RowRead(0, rows[k]) = rows[k]
    BY DEF RowRead
  <1> QED
    BY <1>5, <1>6 DEF OfWindow

\* How many windows there are.
LEMMA WindowsFacts ==
  /\ Windows \in Nat \ {0} /\ Windows * Window \in Nat /\ Windows * Window >= NItems
  /\ OneWindow => Windows = 1
  <1>1. PICK w \in Nat \ {0}, m \in Nat \ {0} : w = Window /\ m = NItems
    BY FeatureAssumption
  <1>2. PICK q \in Nat, r \in Nat : /\ q = (m + w - 1) \div w /\ r <= w - 1
                                    /\ m + w - 1 = q * w + r
    <2>1. m + w - 1 \in Nat
      OBVIOUS
    <2> QED
      BY <2>1, Division
  <1>3. q * w >= m /\ q * w <= m + w - 1 /\ q * w \in Nat
    <2>1. PICK p \in Nat : p = q * w
      OBVIOUS
    <2> QED
      BY <1>2, <2>1
  <1>4. q # 0
    BY <1>3
  <1>5. ASSUME OneWindow PROVE q = 1
    <2>1. m <= w
      BY <1>1, <1>5 DEF OneWindow
    <2>2. q * w < 2 * w
      <3>1. PICK p \in Nat : p = q * w
        OBVIOUS
      <3> QED
        BY <1>3, <2>1, <3>1
    <2>3. q < 2
      BY <2>2
    <2> QED
      BY <1>4, <2>3
  <1> QED
    BY <1>1, <1>2, <1>3, <1>4, <1>5 DEF Windows

\* The items of the windows up to x and those of the window at x.
LEMMA RowsBelowNext ==
  ASSUME NEW n \in Nat, NEW rows \in [1 .. n -> Items], NEW x \in Nat
  PROVE  /\ IsFiniteSet(RowsBelow(rows, x)) /\ IsFiniteSet(RowsIn(rows, x))
         /\ Cardinality(RowsBelow(rows, x + Window)) =
              Cardinality(RowsBelow(rows, x)) + Cardinality(RowsIn(rows, x))
  <1>1. PICK w \in Nat \ {0} : w = Window
    BY FeatureAssumption
  <1>2. \A k \in 1 .. n : rows[k] \in Nat
    BY DataFacts
  <1>3. RowsBelow(rows, x) \in SUBSET (1 .. n) /\ RowsIn(rows, x) \in SUBSET (1 .. n)
    BY DEF RowsBelow, RowsIn
  <1>4. ASSUME NEW k \in 1 .. n
        PROVE  /\ rows[k] < x + w <=> rows[k] < x \/ (x <= rows[k] /\ rows[k] < x + w)
               /\ ~(rows[k] < x /\ x <= rows[k])
    <2>1. PICK i \in Nat : i = rows[k]
      BY <1>2
    <2> QED
      BY <2>1
  <1>5. /\ RowsBelow(rows, x + Window) = RowsBelow(rows, x) \cup RowsIn(rows, x)
        /\ RowsBelow(rows, x) \cap RowsIn(rows, x) = {}
    BY <1>1, <1>4 DEF RowsBelow, RowsIn
  <1>6. IsFiniteSet(RowsBelow(rows, x)) /\ IsFiniteSet(RowsIn(rows, x))
    <2>1. IsFiniteSet(1 .. n)
      BY SortedInterval
    <2> QED
      BY <1>3, <2>1, FS_Subset
  <1> QED
    BY <1>5, <1>6, DisjointCount

\* The steps of the loop over the windows.
Read(rows) == [p \in Seq(Feature) \X (1 .. Windows) |-> p[1] \o OfWindow(rows, (p[2] - 1) * Window)]

\* Where the w-th window begins.
LEMMA WindowStart ==
  ASSUME NEW k \in 1 .. Windows
  PROVE  /\ k \in Nat /\ k - 1 \in 0 .. Windows - 1 /\ k - 1 \in Nat
         /\ (k - 1) * Window \in Nat /\ (k - 1) * Window + Window = k * Window
  <1>1. PICK w \in Nat \ {0}, N \in Nat : w = Window /\ N = Windows
    BY FeatureAssumption, WindowsFacts
  <1>2. k \in Nat /\ k - 1 \in 0 .. N - 1 /\ k - 1 \in Nat
    BY <1>1
  <1>3. PICK j \in Nat : j = k - 1 /\ k = j + 1
    BY <1>2
  <1>4. j * w \in Nat /\ j * w + w = (j + 1) * w
    BY <1>1
  <1> QED
    BY <1>1, <1>2, <1>3, <1>4

\* What is extracted of a list of items: as many rows, and, in one window, their rows.
LEMMA ExtractedFacts ==
  ASSUME NEW n \in Nat, NEW rows \in [1 .. n -> Items]
  PROVE  /\ Extracted(rows) \in [1 .. n -> Feature]
         /\ OneWindow => Extracted(rows) = rows
  <1>1. PICK N \in Nat \ {0} : N = Windows
    BY WindowsFacts
  <1> DEFINE X == Seq(Feature)
             part(w) == OfWindow(rows, (w - 1) * Window)
             step == Read(rows)
  <1>2. ASSUME NEW w \in 1 .. N
        PROVE  /\ part(w) \in X
               /\ Len(part(w)) = Cardinality(RowsIn(rows, (w - 1) * Window))
               /\ Len(part(w)) \in Nat
    <2>1. (w - 1) * Window \in Nat
      BY <1>1, WindowStart
    <2>2. PICK c \in Nat : /\ c = Cardinality(RowsIn(rows, (w - 1) * Window))
                           /\ part(w) \in [1 .. c -> Feature]
      <3>1. PICK x \in Nat : x = (w - 1) * Window
        BY <2>1
      <3>2. /\ Cardinality(RowsIn(rows, x)) \in Nat
            /\ OfWindow(rows, x) \in [1 .. Cardinality(RowsIn(rows, x)) -> Feature]
        BY OfWindowFacts
      <3> QED
        BY <3>1, <3>2
    <2> HIDE DEF part
    <2> QED
      BY <2>2, FunctionIsSeq
  <1>3. <<>> \in X /\ step \in BoundedSteps(X, N)
    <2>1. <<>> \in X
      BY EmptySeq
    <2>2. ASSUME NEW s \in X, NEW w \in 1 .. N PROVE s \o part(w) \in X
      BY <1>2, ConcatProperties
    <2>3. step = [p \in X \X (1 .. N) |-> p[1] \o part(p[2])]
      BY <1>1 DEF Read
    <2> HIDE DEF part, X, step
    <2> QED
      BY <2>1, <2>2, <2>3 DEF BoundedSteps
  <1>4. PICK f : IsComputed(f, X, N, <<>>, step)
    <2> HIDE DEF X, step
    <2> QED
      BY <1>3, BoundedRecursion
  <1>5. /\ f \in [0 .. N -> X] /\ f[0] = <<>>
        /\ \A k \in 1 .. N : f[k] = f[k - 1] \o part(k)
    <2>1. f \in [0 .. N -> X] /\ f[0] = <<>> /\ \A k \in 1 .. N : f[k] = step[<<f[k - 1], k>>]
      BY <1>4 DEF IsComputed
    <2>2. ASSUME NEW k \in 1 .. N PROVE f[k] = f[k - 1] \o part(k)
      <3>1. k - 1 \in 0 .. N
        OBVIOUS
      <3>2. f[k - 1] \in X
        BY <2>1, <3>1
      <3>3. \A s \in X : step[<<s, k>>] = s \o part(k)
        BY <1>1 DEF Read
      <3> HIDE DEF step, X, part
      <3> QED
        BY <2>1, <3>2, <3>3
    <2> QED
      BY <2>1, <2>2
  <1> HIDE DEF part, step
  <1> DEFINE Loop(d) == d = [k \in 0 .. N |-> IF k = 0 THEN <<>> ELSE d[k - 1] \o part(k)]
             d == CHOOSE d : Loop(d)
  <1>6. Loop(d)
    <2>1. f = [k \in 0 .. N |-> IF k = 0 THEN <<>> ELSE f[k - 1] \o part(k)]
      <3>1. \A k \in 0 .. N : k = 0 \/ k \in 1 .. N
        OBVIOUS
      <3>2. ASSUME NEW k \in 0 .. N PROVE f[k] = IF k = 0 THEN <<>> ELSE f[k - 1] \o part(k)
        BY <1>5, <3>1
      <3>3. DOMAIN f = 0 .. N
        BY <1>5
      <3>4. f = [k \in 0 .. N |-> f[k]]
        BY <1>5
      <3> HIDE DEF X
      <3> QED
        BY <3>2, <3>4
    <2>2. Loop(f)
      BY <2>1
    <2> HIDE DEF Loop
    <2> QED
      BY <2>2
  <1>7. Extracted(rows) = d[N]
    BY <1>1 DEF Extracted, part
  <1>8. \A i \in 0 .. N : d[i] = f[i]
    <2> DEFINE E == { i \in 0 .. N : d[i] = f[i] }
    <2>1. 0 \in E
      <3>1. 0 \in 0 .. N
        OBVIOUS
      <3>2. d[0] = <<>>
        <4> HIDE DEF d
        <4> QED
          BY <1>6, <3>1
      <3> QED
        BY <1>5, <3>1, <3>2
    <2>2. ASSUME NEW i \in 0 .. N - 1, i \in E
          PROVE  i + 1 \in E
      <3>1. i + 1 \in 0 .. N /\ i + 1 # 0 /\ (i + 1) - 1 = i /\ i + 1 \in 1 .. N
        OBVIOUS
      <3>2. d[i + 1] = d[i] \o part(i + 1)
        <4> HIDE DEF d
        <4> QED
          BY <1>6, <3>1
      <3>3. f[i + 1] = f[i] \o part(i + 1)
        BY <1>5, <3>1
      <3> QED
        BY <2>2, <3>1, <3>2, <3>3
    <2>3. \A i \in 0 .. N : i \in E
      <3> HIDE DEF E, d
      <3> QED
        BY <2>1, <2>2, BoundedInduction
    <2> QED
      BY <2>3
  <1> HIDE DEF d
  <1> DEFINE G == { i \in 0 .. N : Len(f[i]) = Cardinality(RowsBelow(rows, i * Window)) }
  <1>9. 0 \in G
    <2>1. ASSUME NEW k \in 1 .. n PROVE ~(rows[k] < 0 * Window)
      <3>1. PICK i \in Nat, w \in Nat : i = rows[k] /\ w = Window
        BY DataFacts, FeatureAssumption
      <3>2. 0 * w = 0 /\ ~(i < 0)
        OBVIOUS
      <3> QED
        BY <3>1, <3>2
    <2>2. RowsBelow(rows, 0 * Window) = {}
      BY <2>1 DEF RowsBelow
    <2>3. Cardinality(RowsBelow(rows, 0 * Window)) = 0
      BY <2>2, FS_EmptySet
    <2>4. Len(f[0]) = 0
      BY <1>5
    <2> QED
      BY <2>3, <2>4
  <1>10. ASSUME NEW i \in 0 .. N - 1, i \in G
         PROVE  i + 1 \in G
    <2>1. i + 1 \in 0 .. N /\ (i + 1) - 1 = i /\ i + 1 \in 1 .. N /\ i \in 0 .. N
      OBVIOUS
    <2>2. PICK x \in Nat : x = i * Window /\ x + Window = (i + 1) * Window
      BY <1>1, <2>1, WindowStart
    <2>3. f[i] \in X /\ part(i + 1) \in X
      BY <1>2, <1>5, <2>1
    <2>4. Len(f[i + 1]) = Len(f[i]) + Len(part(i + 1))
      <3>1. f[i + 1] = f[i] \o part(i + 1)
        BY <1>5, <2>1
      <3> QED
        BY <2>3, <3>1, ConcatProperties
    <2>5. Len(part(i + 1)) = Cardinality(RowsIn(rows, x))
      BY <1>2, <2>1, <2>2
    <2>6. Cardinality(RowsBelow(rows, x + Window)) =
            Cardinality(RowsBelow(rows, x)) + Cardinality(RowsIn(rows, x))
      BY RowsBelowNext
    <2>7. Len(f[i]) = Cardinality(RowsBelow(rows, x))
      BY <1>10, <2>2
    <2>8. Len(f[i + 1]) = Cardinality(RowsBelow(rows, x + Window))
      BY <2>4, <2>5, <2>6, <2>7
    <2> QED
      BY <2>1, <2>2, <2>8
  <1>11. \A i \in 0 .. N : i \in G
    <2> HIDE DEF G
    <2> QED
      BY <1>9, <1>10, BoundedInduction
  <1>12. N \in 0 .. N /\ Len(f[N]) = Cardinality(RowsBelow(rows, N * Window)) /\ f[N] \in X
    BY <1>5, <1>11
  <1>13. RowsBelow(rows, N * Window) = 1 .. n
    <2>1. PICK y \in Nat, m \in Nat : y = N * Window /\ m = NItems /\ y >= m
      BY <1>1, WindowsFacts, DataFacts
    <2>2. \A k \in 1 .. n : rows[k] \in 0 .. m - 1
      BY <2>1 DEF Items
    <2>3. \A k \in 1 .. n : rows[k] < y
      BY <2>1, <2>2
    <2> QED
      BY <2>1, <2>3 DEF RowsBelow
  <1>14. Len(f[N]) = n
    BY <1>12, <1>13, SortedInterval
  <1>15. Extracted(rows) = f[N]
    BY <1>7, <1>8, <1>12
  <1>16. Extracted(rows) \in [1 .. n -> Feature]
    BY <1>12, <1>14, <1>15, LenProperties
  <1>17. ASSUME OneWindow PROVE Extracted(rows) = rows
    <2>1. N = 1 /\ 1 \in 1 .. N /\ 1 - 1 = 0
      BY <1>1, <1>17, WindowsFacts
    <2>2. part(1) = rows
      <3>1. (1 - 1) * Window = 0
        BY FeatureAssumption
      <3>2. part(1) = OfWindow(rows, 0)
        BY <3>1 DEF part
      <3> QED
        BY <1>17, <3>2, FirstWindow
    <2>3. f[1] = <<>> \o part(1)
      BY <1>5, <2>1
    <2>4. f[1] = part(1)
      BY <1>2, <2>1, <2>3, ConcatEmptySeq
    <2> QED
      BY <1>15, <2>1, <2>2, <2>4
  <1> QED
    BY <1>16, <1>17

----------------------------------------------------------------------------
(* The plan *)

\* What a block takes from where, of contents c and a cache f.
PreOf(c, b) == IF b = 0 THEN {} ELSE c[b] \cap c[b - 1]
CachedOf(c, b, f) == IF b = 0 THEN {} ELSE c[b] \cap ToSet(f)
InfoOf(c, b, f) ==
  [pre |-> PreOf(c, b), cached |-> CachedOf(c, b, f),
   slot |-> [i \in CachedOf(c, b, f) |-> CHOOSE s \in DOMAIN f : f[s] = i]]

\* The cache of one block to that of the next.
Follow(F, mk, b) ==
  IF b \in DOMAIN mk THEN Replaced(F[b], F[b - 1], mk[b], Masked(F[b], mk[b]))
                     ELSE F[b] = F[b - 1]

\* The plan of the first d blocks: F is the cache of each of them, ix the last, inf and mk
\* what is saved.
Plan(c, F, d, ix, inf, mk) ==
  /\ d \in 0 .. NBlocks /\ F \in [Blocks -> [Slots -> Items]]
  /\ \A b \in 0 .. d - 1 : IsIndex(F[b])
  /\ ix = IF d = 0 THEN <<>> ELSE F[d - 1]
  /\ DOMAIN inf = 0 .. d - 1 /\ \A b \in 0 .. d - 1 : inf[b] = InfoOf(c, b, F[b])
  /\ DOMAIN mk \subseteq 0 .. d - 1 /\ (d > 0 => 0 \in DOMAIN mk)
  /\ \A b \in DOMAIN mk : mk[b] \subseteq Slots
  /\ \A b \in 1 .. d - 1 : Follow(F, mk, b)

\* The caches after the end of a period.
CacheFrom(F, b, n, f) == [x \in Blocks |-> IF x \in b .. n - 1 THEN f ELSE F[x]]

\* The rows that come are what the slots that change have afterwards.
LEMMA ReplacedRows ==
  ASSUME NEW f, NEW old, NEW P, NEW rows, Replaced(f, old, P, rows)
  PROVE  rows = Masked(f, P)
  <1>1. PICK m \in Nat : m = Cardinality(P)
    BY DEF Replaced
  <1>2. P \in SUBSET Nat /\ IsFiniteSet(P)
    <2>1. IsFiniteSet(Slots) /\ Slots \in SUBSET Nat
      BY DataFacts, SortedInterval DEF Slots
    <2>2. P \in SUBSET Slots
      BY DEF Replaced
    <2> QED
      BY <2>1, <2>2, FS_Subset
  <1>3. Sorted(P) \in [1 .. m -> P] /\ \A k \in 1 .. m : NthOf(P, Sorted(P)[k]) = k
    BY <1>1, <1>2, SortedFacts
  <1>4. ASSUME NEW k \in 1 .. m PROVE f[Sorted(P)[k]] = rows[k]
    <2>1. PICK s \in P : s = Sorted(P)[k] /\ NthOf(P, s) = k
      BY <1>3
    <2>2. f = [x \in Slots |-> IF x \in P THEN rows[NthOf(P, x)] ELSE old[x]] /\ s \in Slots
      BY DEF Replaced
    <2>3. f[s] = rows[NthOf(P, s)]
      BY <2>2
    <2> QED
      BY <2>1, <2>3
  <1>5. Masked(f, P) = [k \in 1 .. m |-> f[Sorted(P)[k]]]
    BY <1>1 DEF Masked
  <1>6. rows = [k \in 1 .. m |-> rows[k]]
    BY <1>1 DEF Replaced
  <1> QED
    BY <1>4, <1>5, <1>6

\* The end of a period plans its blocks.
LEMMA ClosePlan ==
  ASSUME NEW F, Plan(content, F, bucketStart, idx, info, mask),
         bucketStart < nextBlock, nextBlock \in 0 .. NBlocks,
         NEW cache \in Hottest, ClosePeriod(cache)
  PROVE  Plan(content, CacheFrom(F, bucketStart, nextBlock, idx'), nextBlock, idx', info', mask')
  <1>1. PICK d \in Nat, n \in Nat : /\ d = bucketStart /\ n = nextBlock /\ d < n
                                    /\ d \in 0 .. NBlocks /\ n \in 0 .. NBlocks
    BY DataFacts DEF Plan
  <1> DEFINE f == idx'
             G == CacheFrom(F, bucketStart, nextBlock, idx')
  <1>2. Blocks = 0 .. NBlocks - 1 /\ NBlocks \in Nat
    BY DataFacts
  <1>3. /\ F \in [Blocks -> [Slots -> Items]]
        /\ \A b \in 0 .. d - 1 : IsIndex(F[b])
        /\ idx = IF d = 0 THEN <<>> ELSE F[d - 1]
        /\ DOMAIN info = 0 .. d - 1 /\ \A b \in 0 .. d - 1 : info[b] = InfoOf(content, b, F[b])
        /\ DOMAIN mask \subseteq 0 .. d - 1 /\ (d > 0 => 0 \in DOMAIN mask)
        /\ \A b \in DOMAIN mask : mask[b] \subseteq Slots
        /\ \A b \in 1 .. d - 1 : Follow(F, mask, b)
    BY <1>1 DEF Plan
  <1>4. IsIndex(cache)
    BY HottestFacts
  <1>5. f = Merge(cache)
    BY DEF ClosePeriod
  <1>6. /\ IsIndex(f) /\ Gone(cache) \subseteq Slots
        /\ d > 0 => Replaced(f, F[d - 1], Gone(cache), Masked(f, Gone(cache)))
    <2>1. ASSUME d = 0 PROVE IsIndex(f) /\ Gone(cache) = {}
      BY <1>3, <1>4, <1>5, <2>1, FirstCache
    <2>2. ASSUME d > 0
          PROVE  /\ IsIndex(f) /\ Replaced(f, F[d - 1], Gone(cache), Incre(cache))
      <3>1. idx = F[d - 1] /\ IsIndex(F[d - 1])
        BY <1>1, <1>3, <2>2
      <3> QED
        BY <1>4, <1>5, <3>1, LaterCache
    <2>3. ASSUME d > 0
          PROVE  Gone(cache) \subseteq Slots /\ Incre(cache) = Masked(f, Gone(cache))
      BY <2>2, <2>3, ReplacedRows DEF Replaced
    <2> HIDE DEF f
    <2> QED
      BY <1>1, <2>1, <2>2, <2>3
  <1>7. \A b \in Blocks : G[b] = IF b \in d .. n - 1 THEN f ELSE F[b]
    BY <1>1 DEF CacheFrom
  <1>8. BucketHis = d .. n - 1
    BY <1>1 DEF BucketHis
  <1>9. mask' = [b \in DOMAIN mask \cup {d} |-> IF b = d THEN Gone(cache) ELSE mask[b]]
    BY <1>1 DEF ClosePeriod
  <1>10. info' = [b \in DOMAIN info \cup (d .. n - 1) |->
                   IF b \in d .. n - 1 THEN InfoOf(content, b, f) ELSE info[b]]
    <2>1. info' = [b \in DOMAIN info \cup BucketHis |->
                IF b \in BucketHis
                THEN [pre |-> InPre(b), cached |-> InCache(b, f),
                      slot |-> [i \in InCache(b, f) |-> CHOOSE s \in DOMAIN f : f[s] = i]]
                ELSE info[b]]
      BY <1>5 DEF ClosePeriod
    <2>2. \A b : InPre(b) = PreOf(content, b) /\ InCache(b, f) = CachedOf(content, b, f)
      BY DEF InPre, PreOf, InCache, CachedOf
    <2> HIDE DEF f
    <2>3. \A b : InfoOf(content, b, f) =
                    [pre |-> InPre(b), cached |-> InCache(b, f),
                     slot |-> [i \in InCache(b, f) |-> CHOOSE s \in DOMAIN f : f[s] = i]]
      BY <2>2 DEF InfoOf
    <2> QED
      BY <1>8, <2>1, <2>3
  <1> HIDE DEF f, G
  <1>11. G \in [Blocks -> [Slots -> Items]]
    <2>1. G = [x \in Blocks |-> IF x \in d .. n - 1 THEN f ELSE F[x]]
      BY <1>1 DEF CacheFrom, G, f
    <2>2. f \in [Slots -> Items]
      BY <1>6 DEF IsIndex
    <2> QED
      BY <1>3, <2>1, <2>2
  <1>12. \A b \in 0 .. n - 1 : /\ b \in Blocks /\ (b \in 0 .. d - 1 \/ b \in d .. n - 1)
                                /\ ~(b \in 0 .. d - 1 /\ b \in d .. n - 1)
    BY <1>1, <1>2
  <1>13. \A b \in 0 .. n - 1 : IsIndex(G[b])
    BY <1>3, <1>6, <1>7, <1>12
  <1>14. f = IF n = 0 THEN <<>> ELSE G[n - 1]
    <2>1. n - 1 \in d .. n - 1 /\ n - 1 \in Blocks /\ n # 0
      BY <1>1, <1>2
    <2> QED
      BY <1>7, <2>1
  <1>15. DOMAIN info' = 0 .. n - 1 /\ \A b \in 0 .. n - 1 : info'[b] = InfoOf(content, b, G[b])
    <2>1. (0 .. d - 1) \cup (d .. n - 1) = 0 .. n - 1
      BY <1>1
    <2>2. DOMAIN info' = 0 .. n - 1
      BY <1>3, <1>10, <2>1
    <2>3. ASSUME NEW b \in 0 .. n - 1 PROVE info'[b] = InfoOf(content, b, G[b])
      <3>1. b \in DOMAIN info \cup (d .. n - 1)
        BY <1>3, <2>1
      <3>2. info'[b] = IF b \in d .. n - 1 THEN InfoOf(content, b, f) ELSE info[b]
        BY <1>10, <3>1
      <3> QED
        BY <1>3, <1>7, <1>12, <3>2
    <2> QED
      BY <2>2, <2>3
  <1>16. /\ DOMAIN mask' = DOMAIN mask \cup {d}
         /\ \A b \in DOMAIN mask' : mask'[b] = IF b = d THEN Gone(cache) ELSE mask[b]
    BY <1>9
  <1>17. DOMAIN mask' \subseteq 0 .. n - 1 /\ 0 \in DOMAIN mask'
    <2>1. d \in 0 .. n - 1 /\ 0 .. d - 1 \subseteq 0 .. n - 1
      BY <1>1
    <2>2. d = 0 \/ d > 0
      BY <1>1
    <2> QED
      BY <1>3, <1>16, <2>1, <2>2
  <1>18. \A b \in DOMAIN mask' : mask'[b] \subseteq Slots
    BY <1>3, <1>6, <1>16
  <1>19. ASSUME NEW b \in 1 .. n - 1 PROVE Follow(G, mask', b)
    <2>1. /\ b \in 0 .. n - 1 /\ b - 1 \in 0 .. n - 1 /\ b \in Blocks /\ b - 1 \in Blocks
      BY <1>1, <1>2
    <2>2. CASE b < d
      <3>1. b \in 1 .. d - 1 /\ b \notin d .. n - 1 /\ b - 1 \notin d .. n - 1 /\ b # d
        BY <1>1, <2>2
      <3>2. G[b] = F[b] /\ G[b - 1] = F[b - 1]
        BY <1>7, <2>1, <3>1
      <3>3. b \in DOMAIN mask' <=> b \in DOMAIN mask
        BY <1>16, <3>1
      <3>4. b \in DOMAIN mask' => mask'[b] = mask[b]
        BY <1>16, <3>1
      <3> QED
        BY <1>3, <3>1, <3>2, <3>3, <3>4 DEF Follow
    <2>3. CASE b = d
      <3>1. b \in d .. n - 1 /\ d - 1 \notin d .. n - 1 /\ d > 0
        BY <1>1, <2>3
      <3>2. G[b] = f /\ G[b - 1] = F[d - 1]
        BY <1>7, <2>1, <2>3, <3>1
      <3>3. b \in DOMAIN mask' /\ mask'[b] = Gone(cache)
        BY <1>16, <2>3
      <3> QED
        BY <1>6, <3>1, <3>2, <3>3 DEF Follow
    <2>4. CASE b > d
      <3>1. b \in d .. n - 1 /\ b - 1 \in d .. n - 1 /\ b # d /\ b \notin 0 .. d - 1
        BY <1>1, <2>4
      <3>2. G[b] = f /\ G[b - 1] = f
        BY <1>7, <2>1, <3>1
      <3>3. b \notin DOMAIN mask'
        BY <1>3, <1>16, <3>1
      <3> QED
        BY <3>2, <3>3 DEF Follow
    <2>5. b < d \/ b = d \/ b > d
      BY <1>1
    <2> QED
      BY <2>2, <2>3, <2>4, <2>5
  <1>20. Plan(content, G, n, f, info', mask')
    BY <1>1, <1>11, <1>13, <1>14, <1>15, <1>17, <1>18, <1>19 DEF Plan
  <1> QED
    BY <1>1, <1>20 DEF G, f

----------------------------------------------------------------------------
(* The rows to extract *)

\* The path of a block, as it is collected and as stream_extract writes it.
FilePath(b) == BlockPath(b, FALSE)
IncrePath(b) == BlockPath(b, TRUE)
Paths == { FilePath(b) : b \in Blocks } \cup { CachePath(b) : b \in Blocks }

\* Blocks and caches have paths of their own.
LEMMA PathFacts ==
  /\ \A b : FilePath(b).of = "block" /\ FilePath(b).at = b
  /\ \A b : IncrePath(b).of = "block" /\ IncrePath(b).at = b
  /\ \A b : CachePath(b).of # "block" /\ CachePath(b).of = "cache" /\ CachePath(b).at = b
  /\ \A b, e : FilePath(b) = FilePath(e) => b = e
  /\ \A b, e : IncrePath(b) = IncrePath(e) => b = e
  /\ \A b, e : CachePath(b) = CachePath(e) => b = e
  /\ \A b, e : FilePath(b) # CachePath(e) /\ IncrePath(b) # CachePath(e)
  /\ \A b, e : FilePath(b) # IncrePath(e)
  /\ \A b \in Blocks : FilePath(b) \in Paths /\ CachePath(b) \in Paths
  <1>1. /\ \A b : FilePath(b).of = "block" /\ FilePath(b).at = b /\ FilePath(b).incre = FALSE
        /\ \A b : IncrePath(b).of = "block" /\ IncrePath(b).at = b /\ IncrePath(b).incre = TRUE
    BY DEF FilePath, IncrePath, BlockPath
  <1>2. \A b : CachePath(b).of # "block" /\ CachePath(b).of = "cache" /\ CachePath(b).at = b
    BY DEF CachePath
  <1>3. ASSUME NEW b, NEW e, FilePath(b) = IncrePath(e) PROVE FALSE
    <2>1. FilePath(b).incre = IncrePath(e).incre
      BY <1>3
    <2> QED
      BY <1>1, <2>1
  <1>4. \A b \in Blocks : FilePath(b) \in Paths /\ CachePath(b) \in Paths
    BY DEF Paths
  <1>5. \A b, e : FilePath(b) = FilePath(e) => b = e
    BY <1>1
  <1>6. \A b, e : IncrePath(b) = IncrePath(e) => b = e
    BY <1>1
  <1>7. \A b, e : CachePath(b) = CachePath(e) => b = e
    BY <1>2
  <1>8. \A b, e : FilePath(b) # CachePath(e) /\ IncrePath(b) # CachePath(e)
    BY <1>1, <1>2
  <1> QED
    BY <1>1, <1>2, <1>3, <1>4, <1>5, <1>6, <1>7, <1>8

\* What is in the file of a block, and in that of a cache.
OfFileOf(c, inf, b) == c[b] \ (inf[b].pre \cup inf[b].cached)
CacheRows(F, mk, b) == IF b = 0 THEN F[0] ELSE Masked(F[b], mk[b])
Want(c, F, inf, mk, p) ==
  IF p.of = "block" THEN Sorted(OfFileOf(c, inf, p.at)) ELSE CacheRows(F, mk, p.at)

\* A list of items, none of them more often than there are items.
Rows == { r \in Seq(Items) : Len(r) <= NItems }

\* The rows that wait after the plan of d blocks: each file once, with what belongs there.
PathsOf(d, mk) == { FilePath(b) : b \in 0 .. d - 1 } \cup { CachePath(b) : b \in DOMAIN mk }
Collected(c, F, d, inf, mk, hs, ps) ==
  /\ hs \in Seq(Rows) /\ ps \in Seq(Paths) /\ Len(hs) = Len(ps) /\ Len(hs) <= 2 * d
  /\ \A k \in DOMAIN hs : hs[k] = Want(c, F, inf, mk, ps[k])
  /\ Distinct(ps) /\ Elems(ps) = PathsOf(d, mk)
  /\ d > 0 => Len(ps) >= 1 /\ ps[1] = FilePath(0)

\* One list, then as many elements as f has, then one more.
IsClosed(u, S, s, n, f, m, x) ==
  /\ u \in Seq(S) /\ Len(u) = n + m + 1 /\ DOMAIN u = 1 .. n + m + 1
  /\ \A i \in 1 .. n : u[i] = s[i]
  /\ \A i \in 1 .. m : u[n + i] = f[i]
  /\ u[n + m + 1] = x

LEMMA Closed ==
  ASSUME NEW S, NEW s \in Seq(S), NEW n \in Nat, n = Len(s), NEW m \in Nat, NEW f \in [1 .. m -> S],
         NEW x \in S
  PROVE  IsClosed((s \o f) \o <<x>>, S, s, n, f, m, x)
  <1>1. f \in Seq(S) /\ Len(f) = m
    BY FunctionIsSeq
  <1>2. PICK t : t = s \o f
    OBVIOUS
  <1>3. /\ t \in Seq(S) /\ Len(t) = n + m
        /\ \A i \in 1 .. n + m : t[i] = IF i <= n THEN s[i] ELSE f[i - n]
    BY <1>1, <1>2, ConcatProperties
  <1>4. PICK k \in Nat : k = n + m
    OBVIOUS
  <1>5. PICK o : o = <<x>>
    OBVIOUS
  <1>6. o \in Seq(S) /\ Len(o) = 1 /\ o[1] = x
    BY <1>5
  <1>7. PICK u : u = t \o o
    OBVIOUS
  <1>8. /\ u \in Seq(S) /\ Len(u) = k + 1
        /\ \A i \in 1 .. k + 1 : u[i] = IF i <= k THEN t[i] ELSE o[i - k]
    <2>1. /\ t \o o \in Seq(S) /\ Len(t \o o) = Len(t) + Len(o)
          /\ \A i \in 1 .. Len(t) + Len(o) :
               (t \o o)[i] = IF i <= Len(t) THEN t[i] ELSE o[i - Len(t)]
      BY ONLY <1>3, <1>6, ConcatProperties
    <2>2. Len(t) = k
      BY <1>3, <1>4
    <2> QED
      BY <1>6, <1>7, <2>1, <2>2
  <1>9. ASSUME NEW i \in 1 .. n PROVE u[i] = s[i]
    <2>1. i \in 1 .. k + 1 /\ i <= k /\ i \in 1 .. n + m /\ i <= n
      BY <1>4
    <2>2. u[i] = t[i]
      BY <1>8, <2>1
    <2>3. t[i] = s[i]
      BY <1>3, <2>1
    <2> QED
      BY <2>2, <2>3
  <1>10. ASSUME NEW i \in 1 .. m PROVE u[n + i] = f[i]
    <2>1. PICK j \in 1 .. k : j = n + i /\ j \in 1 .. k + 1 /\ j \in 1 .. n + m /\ ~(j <= n) /\ j - n = i
      <3>1. /\ n + i \in 1 .. k /\ n + i \in 1 .. k + 1 /\ n + i \in 1 .. n + m
            /\ ~(n + i <= n) /\ (n + i) - n = i
        BY <1>4
      <3> QED
        BY <3>1
    <2>2. u[j] = t[j]
      BY <1>8, <2>1
    <2>3. t[j] = f[j - n]
      BY <1>3, <2>1
    <2> QED
      BY <2>1, <2>2, <2>3
  <1>11. u[k + 1] = x
    <2>1. k + 1 \in 1 .. k + 1 /\ ~(k + 1 <= k) /\ (k + 1) - k = 1
      BY <1>4
    <2> QED
      BY <1>6, <1>8, <2>1
  <1>12. IsClosed(u, S, s, n, f, m, x)
    <2>1. Len(u) = n + m + 1
      BY <1>4, <1>8
    <2>2. DOMAIN u = 1 .. n + m + 1
      BY <1>8, <2>1, LenProperties
    <2> QED
      BY <1>4, <1>8, <1>9, <1>10, <1>11, <2>1, <2>2 DEF IsClosed
  <1> QED
    BY <1>2, <1>5, <1>7, <1>12

\* The items of a set in order are a list of rows.
LEMMA SortedRows ==
  ASSUME NEW S \in SUBSET Items
  PROVE  Sorted(S) \in Rows /\ Sorted(S) \in [1 .. Cardinality(S) -> S] /\ Cardinality(S) \in Nat
  <1>1. IsFiniteSet(S) /\ Cardinality(S) <= NItems /\ S \in SUBSET Nat
    <2>1. IsFiniteSet(S) /\ Cardinality(S) <= Cardinality(Items)
      BY DataFacts, FS_Subset
    <2> QED
      BY <2>1, DataFacts
  <1>2. PICK c \in Nat : c = Cardinality(S) /\ Sorted(S) \in [1 .. c -> S]
    BY <1>1, SortedFacts
  <1>3. Sorted(S) \in [1 .. c -> Items]
    BY <1>2
  <1>4. Sorted(S) \in Seq(Items) /\ Len(Sorted(S)) = c
    BY <1>3, FunctionIsSeq
  <1> QED
    BY <1>1, <1>2, <1>4 DEF Rows

\* A function on the slots of a part of them is a list of rows.
LEMMA CacheIsRows ==
  ASSUME NEW n \in Nat, n <= Budget, NEW r \in [1 .. n -> Items]
  PROVE  r \in Rows
  <1>1. r \in Seq(Items) /\ Len(r) = n
    BY FunctionIsSeq
  <1>2. n <= NItems
    BY DataFacts
  <1> QED
    BY <1>1, <1>2 DEF Rows

\* What the end of a period changes, and what it does not.
LEMMA CloseParts ==
  ASSUME NEW F, Plan(content, F, bucketStart, idx, info, mask),
         bucketStart < nextBlock, nextBlock \in 0 .. NBlocks,
         NEW cache \in Hottest, ClosePeriod(cache),
         NEW d \in Nat, NEW n \in Nat, d = bucketStart, n = nextBlock
  PROVE  LET G == CacheFrom(F, d, n, idx')
         IN  /\ idx' = Merge(cache)
             /\ \A b \in 0 .. d - 1 : G[b] = F[b] /\ info'[b] = info[b]
             /\ \A b \in d .. n - 1 : G[b] = idx' /\ info'[b] = InfoOf(content, b, idx')
             /\ DOMAIN mask' = DOMAIN mask \cup {d}
             /\ \A b \in DOMAIN mask : b \in 0 .. d - 1 /\ mask'[b] = mask[b]
             /\ Incre(cache) \in Rows /\ Incre(cache) = CacheRows(G, mask', d)
  <1> DEFINE f == idx'
             G == CacheFrom(F, d, n, idx')
  <1>1. d < n /\ d \in 0 .. NBlocks /\ n \in 0 .. NBlocks
    BY DEF Plan
  <1>2. Blocks = 0 .. NBlocks - 1 /\ NBlocks \in Nat
    BY DataFacts
  <1>3. /\ F \in [Blocks -> [Slots -> Items]]
        /\ \A b \in 0 .. d - 1 : IsIndex(F[b])
        /\ idx = IF d = 0 THEN <<>> ELSE F[d - 1]
        /\ DOMAIN info = 0 .. d - 1
        /\ DOMAIN mask \subseteq 0 .. d - 1
    BY <1>1 DEF Plan
  <1>4. IsIndex(cache)
    BY HottestFacts
  <1>5. f = Merge(cache)
    BY DEF ClosePeriod
  <1>6. mask' = [b \in DOMAIN mask \cup {d} |-> IF b = d THEN Gone(cache) ELSE mask[b]]
    BY DEF ClosePeriod
  <1>7. Plan(content, G, n, f, info', mask')
    BY ClosePlan
  <1>8. \A b \in 0 .. n - 1 : info'[b] = InfoOf(content, b, G[b])
    BY <1>7 DEF Plan
  <1>9. \A b \in Blocks : G[b] = IF b \in d .. n - 1 THEN f ELSE F[b]
    BY DEF CacheFrom
  <1> HIDE DEF f, G
  <1>10. ASSUME NEW b \in 0 .. d - 1 PROVE G[b] = F[b] /\ info'[b] = info[b]
    <2>1. b \in 0 .. n - 1 /\ b \in Blocks /\ b \notin d .. n - 1
      BY <1>1, <1>2
    <2>2. G[b] = F[b]
      BY <1>9, <2>1
    <2>3. info[b] = InfoOf(content, b, F[b])
      BY DEF Plan
    <2> QED
      BY <1>8, <2>1, <2>2, <2>3
  <1>11. ASSUME NEW b \in d .. n - 1 PROVE G[b] = f /\ info'[b] = InfoOf(content, b, f)
    <2>1. b \in 0 .. n - 1 /\ b \in Blocks
      BY <1>1, <1>2
    <2>2. G[b] = f
      BY <1>9, <2>1
    <2> QED
      BY <1>8, <2>1, <2>2
  <1>12. DOMAIN mask' = DOMAIN mask \cup {d} /\ mask'[d] = Gone(cache)
    BY <1>6
  <1>13. ASSUME NEW b \in DOMAIN mask PROVE b \in 0 .. d - 1 /\ mask'[b] = mask[b]
    <2>1. b \in 0 .. d - 1 /\ b # d
      BY <1>3
    <2> QED
      BY <1>6, <2>1
  <1>14. G[d] = f
    BY <1>1, <1>11
  <1>15. PICK B \in Nat : B = Budget
    BY DataFacts
  <1>16. ASSUME d = 0 PROVE Incre(cache) \in Rows /\ Incre(cache) = CacheRows(G, mask', d)
    <2>1. f = cache /\ Incre(cache) = cache
      BY <1>3, <1>4, <1>5, <1>16, FirstCache
    <2>2. cache \in [1 .. B -> Items]
      BY <1>4, <1>15 DEF IsIndex, Slots
    <2>3. cache \in Rows
      BY <1>15, <2>2, CacheIsRows
    <2> QED
      BY <1>14, <1>16, <2>1, <2>3 DEF CacheRows
  <1>17. ASSUME d > 0 PROVE Incre(cache) \in Rows /\ Incre(cache) = CacheRows(G, mask', d)
    <2>1. idx = F[d - 1] /\ IsIndex(F[d - 1])
      BY <1>3, <1>17
    <2>2. Replaced(f, F[d - 1], Gone(cache), Incre(cache))
      BY <1>4, <1>5, <2>1, LaterCache
    <2>3. Incre(cache) = Masked(f, Gone(cache))
      BY <2>2, ReplacedRows
    <2>4. PICK c \in Nat : c = Cardinality(Gone(cache)) /\ Incre(cache) \in [1 .. c -> Items]
      BY <2>2 DEF Replaced
    <2>5. c <= B
      <3>1. IsFiniteSet(Slots) /\ Cardinality(Slots) = B
        BY <1>15, SortedInterval DEF Slots
      <3>2. Gone(cache) \in SUBSET Slots
        BY <2>2 DEF Replaced
      <3> QED
        BY <2>4, <3>1, <3>2, FS_Subset
    <2>6. Incre(cache) \in Rows
      BY <1>15, <2>4, <2>5, CacheIsRows
    <2>7. d # 0
      BY <1>17
    <2> QED
      BY <1>12, <1>14, <2>3, <2>6, <2>7 DEF CacheRows
  <1>18. d = 0 \/ d > 0
    OBVIOUS
  <1> QED
    BY <1>5, <1>10, <1>11, <1>12, <1>13, <1>16, <1>17, <1>18 DEF f, G

\* The items of each block.
Contented == content \in [Blocks -> SUBSET Items]

\* The end of a period adds the rows of its blocks and of its cache.
LEMMA CloseCollect ==
  ASSUME NEW F, Plan(content, F, bucketStart, idx, info, mask), Contented,
         bucketStart < nextBlock, nextBlock \in 0 .. NBlocks,
         NEW cache \in Hottest, ClosePeriod(cache),
         Collected(content, F, bucketStart, info, mask, his, paths)
  PROVE  Collected(content, CacheFrom(F, bucketStart, nextBlock, idx'), nextBlock, info', mask',
                   ClosedHis(cache), ClosedPaths)
  <1>1. PICK d \in Nat, n \in Nat : /\ d = bucketStart /\ n = nextBlock /\ d < n
                                    /\ d \in 0 .. NBlocks /\ n \in 0 .. NBlocks
    BY DataFacts DEF Plan
  <1>2. PICK m \in Nat : m = n - d /\ m >= 1 /\ d + m = n
    BY <1>1
  <1>3. PICK G : G = CacheFrom(F, d, n, idx')
    OBVIOUS
  <1>4. PICK f : f = idx'
    OBVIOUS
  <1>5. /\ f = Merge(cache)
        /\ \A b \in 0 .. d - 1 : G[b] = F[b] /\ info'[b] = info[b]
        /\ \A b \in d .. n - 1 : G[b] = f /\ info'[b] = InfoOf(content, b, f)
        /\ DOMAIN mask' = DOMAIN mask \cup {d}
        /\ \A b \in DOMAIN mask : b \in 0 .. d - 1 /\ mask'[b] = mask[b]
        /\ Incre(cache) \in Rows /\ Incre(cache) = CacheRows(G, mask', d)
    BY <1>1, <1>3, <1>4, CloseParts
  <1>6. NBlocks \in Nat /\ Blocks = 0 .. NBlocks - 1
    BY DataFacts
  <1>7. PICK l \in Nat : l = Len(his) /\ l = Len(paths) /\ l <= 2 * d
    BY <1>1, LenProperties DEF Collected
  <1>8. /\ his \in Seq(Rows) /\ paths \in Seq(Paths) /\ DOMAIN his = 1 .. l /\ DOMAIN paths = 1 .. l
        /\ \A k \in 1 .. l : his[k] = Want(content, F, info, mask, paths[k])
        /\ Distinct(paths) /\ Elems(paths) = PathsOf(d, mask)
        /\ d > 0 => l >= 1 /\ paths[1] = FilePath(0)
    BY <1>1, <1>7, LenProperties DEF Collected
  <1> DEFINE fh == [k \in 1 .. m |-> ToSave(d + k - 1, f)]
             fp == [k \in 1 .. m |-> FilePath(d + k - 1)]
             hs == ClosedHis(cache)
             ps == ClosedPaths
  <1>9. \A k \in 1 .. m : d + k - 1 \in d .. n - 1 /\ d + k - 1 \in Blocks
    BY <1>1, <1>2, <1>6
  <1>10. ASSUME NEW b \in Blocks
         PROVE  ToSave(b, f) = Sorted(OfFileOf(content, [x \in Blocks |-> InfoOf(content, x, f)], b))
                /\ ToSave(b, f) \in Rows
    <2>1. InPre(b) = PreOf(content, b) /\ InCache(b, f) = CachedOf(content, b, f)
      BY DEF InPre, PreOf, InCache, CachedOf
    <2>2. content[b] \ (InPre(b) \cup InCache(b, f)) \in SUBSET Items
      BY DEF Contented
    <2>3. InfoOf(content, b, f).pre = InPre(b) /\ InfoOf(content, b, f).cached = InCache(b, f)
      BY <2>1 DEF InfoOf
    <2> QED
      BY <2>2, <2>3, SortedRows DEF ToSave, OfFileOf
  <1>11. fh \in [1 .. m -> Rows]
    BY <1>9, <1>10
  <1>12. fp \in [1 .. m -> Paths]
    BY <1>9, PathFacts
  <1>13. CachePath(d) \in Paths
    <2>1. d \in Blocks
      BY <1>1, <1>6
    <2> QED
      BY <2>1, PathFacts
  <1>14. IsClosed(hs, Rows, his, l, fh, m, Incre(cache))
    <2>1. hs = (his \o fh) \o <<Incre(cache)>>
      BY <1>1, <1>2, <1>5 DEF ClosedHis
    <2> HIDE DEF hs, fh
    <2> QED
      BY <1>5, <1>7, <1>8, <1>11, <2>1, Closed
  <1>15. IsClosed(ps, Paths, paths, l, fp, m, CachePath(d))
    <2>1. ps = (paths \o fp) \o <<CachePath(d)>>
      BY <1>1, <1>2 DEF ClosedPaths, FilePath
    <2> HIDE DEF ps, fp
    <2> QED
      BY <1>7, <1>8, <1>12, <1>13, <2>1, Closed
  <1>16. /\ \A k \in 1 .. m : fh[k] = ToSave(d + k - 1, f) /\ fp[k] = FilePath(d + k - 1)
    OBVIOUS
  <1> HIDE DEF hs, ps, fh, fp
  <1>17. /\ hs \in Seq(Rows) /\ ps \in Seq(Paths)
         /\ Len(hs) = l + m + 1 /\ Len(ps) = l + m + 1
         /\ DOMAIN hs = 1 .. l + m + 1 /\ DOMAIN ps = 1 .. l + m + 1
         /\ \A k \in 1 .. l : hs[k] = his[k] /\ ps[k] = paths[k]
         /\ \A k \in 1 .. m : hs[l + k] = fh[k] /\ ps[l + k] = fp[k]
         /\ hs[l + m + 1] = Incre(cache) /\ ps[l + m + 1] = CachePath(d)
    BY <1>14, <1>15 DEF IsClosed
  <1>18. \A k \in 1 .. l + m + 1 :
           k \in 1 .. l \/ (\E j \in 1 .. m : k = l + j) \/ k = l + m + 1
    <2> SUFFICES ASSUME NEW k \in 1 .. l + m + 1, k \notin 1 .. l, k # l + m + 1
                 PROVE  \E j \in 1 .. m : k = l + j
      OBVIOUS
    <2>1. k - l \in 1 .. m /\ k = l + (k - l)
      OBVIOUS
    <2> QED
      BY <2>1
  <1>19. ASSUME NEW k \in 1 .. l
         PROVE  /\ \/ \E b \in 0 .. d - 1 : paths[k] = FilePath(b)
                   \/ \E b \in DOMAIN mask : b \in 0 .. d - 1 /\ paths[k] = CachePath(b)
    BY <1>5, <1>8 DEF Elems, PathsOf
  <1>20. ASSUME NEW k \in 1 .. l
         PROVE  hs[k] = Want(content, G, info', mask', ps[k])
    <2>1. CASE \E b \in 0 .. d - 1 : paths[k] = FilePath(b)
      <3>1. PICK b \in 0 .. d - 1 : paths[k] = FilePath(b)
        BY <2>1
      <3>2. paths[k].of = "block" /\ paths[k].at = b
        BY <3>1, PathFacts
      <3>3. Want(content, F, info, mask, paths[k]) = Sorted(OfFileOf(content, info, b))
        BY <3>2 DEF Want
      <3>4. Want(content, G, info', mask', paths[k]) = Sorted(OfFileOf(content, info', b))
        BY <3>2 DEF Want
      <3>5. OfFileOf(content, info', b) = OfFileOf(content, info, b)
        BY <1>5 DEF OfFileOf
      <3> QED
        BY <1>8, <1>17, <3>3, <3>4, <3>5
    <2>2. CASE \E b \in DOMAIN mask : b \in 0 .. d - 1 /\ paths[k] = CachePath(b)
      <3>1. PICK b \in DOMAIN mask : b \in 0 .. d - 1 /\ paths[k] = CachePath(b)
        BY <2>2
      <3>2. paths[k].of = "cache" /\ paths[k].at = b /\ paths[k].of # "block"
        BY <3>1, PathFacts
      <3>3. Want(content, F, info, mask, paths[k]) = CacheRows(F, mask, b)
        BY <3>2 DEF Want
      <3>4. Want(content, G, info', mask', paths[k]) = CacheRows(G, mask', b)
        BY <3>2 DEF Want
      <3>5. G[b] = F[b] /\ mask'[b] = mask[b]
        BY <1>5, <3>1
      <3>6. CacheRows(G, mask', b) = CacheRows(F, mask, b)
        BY <3>5 DEF CacheRows
      <3> QED
        BY <1>8, <1>17, <3>3, <3>4, <3>6
    <2> QED
      BY <1>19, <2>1, <2>2
  <1>21. ASSUME NEW j \in 1 .. m
         PROVE  hs[l + j] = Want(content, G, info', mask', ps[l + j])
    <2>1. PICK b \in d .. n - 1 : b = d + j - 1 /\ b \in Blocks
      BY <1>9
    <2>2. hs[l + j] = ToSave(b, f) /\ ps[l + j] = FilePath(b)
      BY <1>16, <1>17, <2>1
    <2>3. ps[l + j].of = "block" /\ ps[l + j].at = b
      BY <2>2, PathFacts
    <2>4. Want(content, G, info', mask', ps[l + j]) = Sorted(OfFileOf(content, info', b))
      BY <2>3 DEF Want
    <2>5. info'[b] = InfoOf(content, b, f)
      BY <1>5, <2>1
    <2>6. OfFileOf(content, info', b) = OfFileOf(content, [x \in Blocks |-> InfoOf(content, x, f)], b)
      BY <2>1, <2>5 DEF OfFileOf
    <2> QED
      BY <1>10, <2>1, <2>2, <2>4, <2>6
  <1>22. hs[l + m + 1] = Want(content, G, info', mask', ps[l + m + 1])
    <2>1. CachePath(d).of = "cache" /\ CachePath(d).at = d /\ CachePath(d).of # "block"
      BY PathFacts
    <2>2. Want(content, G, info', mask', CachePath(d)) = CacheRows(G, mask', d)
      BY <2>1 DEF Want
    <2> QED
      BY <1>5, <1>17, <2>2
  <1>23. \A k \in DOMAIN hs : hs[k] = Want(content, G, info', mask', ps[k])
    <2> SUFFICES ASSUME NEW k \in DOMAIN hs PROVE hs[k] = Want(content, G, info', mask', ps[k])
      OBVIOUS
    <2>1. k \in 1 .. l \/ (\E j \in 1 .. m : k = l + j) \/ k = l + m + 1
      BY <1>17, <1>18
    <2>2. CASE \E j \in 1 .. m : k = l + j
      <3>1. PICK j \in 1 .. m : k = l + j
        BY <2>2
      <3> QED
        BY <1>21, <3>1
    <2> QED
      BY <1>20, <1>22, <2>1, <2>2
  <1>24. \A b \in 0 .. d - 1 : b \notin d .. n - 1 /\ b # d /\ b \in 0 .. n - 1
    BY <1>1
  <1>25. Distinct(ps)
    <2> DEFINE Old(k) == k \in 1 .. l
               New(k) == \E j \in 1 .. m : k = l + j
    <2>1. ASSUME NEW i \in 1 .. l, NEW k \in DOMAIN ps, ps[i] = ps[k] PROVE i = k
      <3>1. CASE k \in 1 .. l
        BY <1>8, <1>17, <2>1, <3>1 DEF Distinct
      <3>2. CASE \E j \in 1 .. m : k = l + j
        <4>1. PICK b \in d .. n - 1 : ps[k] = FilePath(b)
          BY <1>9, <1>16, <1>17, <3>2
        <4> QED
          BY <1>17, <1>19, <1>24, <2>1, <4>1, PathFacts
      <3>3. CASE k = l + m + 1
        BY <1>17, <1>19, <1>24, <2>1, <3>3, PathFacts
      <3> QED
        BY <1>17, <1>18, <3>1, <3>2, <3>3
    <2>2. ASSUME NEW i \in 1 .. m, NEW j \in 1 .. m, ps[l + i] = ps[l + j] PROVE i = j
      <3>1. FilePath(d + i - 1) = FilePath(d + j - 1)
        BY <1>16, <1>17, <2>2
      <3>2. d + i - 1 = d + j - 1
        BY <3>1, PathFacts
      <3> QED
        BY <3>2
    <2>3. ASSUME NEW i \in 1 .. m, ps[l + i] = ps[l + m + 1] PROVE FALSE
      <3>1. FilePath(d + i - 1) = CachePath(d)
        BY <1>16, <1>17, <2>3
      <3> QED
        BY <3>1, PathFacts
    <2>4. ASSUME NEW i \in DOMAIN ps, NEW k \in DOMAIN ps, ps[i] = ps[k] PROVE i = k
      <3>1. CASE i \in 1 .. l \/ k \in 1 .. l
        BY <2>1, <2>4, <3>1
      <3>2. CASE ~(i \in 1 .. l \/ k \in 1 .. l)
        <4>1. /\ (\E j \in 1 .. m : i = l + j) \/ i = l + m + 1
              /\ (\E j \in 1 .. m : k = l + j) \/ k = l + m + 1
          BY <1>17, <1>18, <3>2
        <4> QED
          BY <2>2, <2>3, <2>4, <4>1
      <3> QED
        BY <3>1, <3>2
    <2> QED
      BY <2>4 DEF Distinct
  <1>26. Elems(ps) = PathsOf(n, mask')
    <2>1. ASSUME NEW k \in DOMAIN ps PROVE ps[k] \in PathsOf(n, mask')
      <3>1. CASE k \in 1 .. l
        <4>1. ps[k] = paths[k]
          BY <1>17, <3>1
        <4> QED
          BY <1>5, <1>19, <1>24, <3>1, <4>1 DEF PathsOf
      <3>2. CASE \E j \in 1 .. m : k = l + j
        <4>1. PICK b \in d .. n - 1 : ps[k] = FilePath(b)
          BY <1>9, <1>16, <1>17, <3>2
        <4>2. b \in 0 .. n - 1
          BY <1>1
        <4> QED
          BY <4>1, <4>2 DEF PathsOf
      <3>3. CASE k = l + m + 1
        BY <1>5, <1>17, <3>3 DEF PathsOf
      <3> QED
        BY <1>17, <1>18, <3>1, <3>2, <3>3
    <2>2. ASSUME NEW b \in 0 .. n - 1 PROVE FilePath(b) \in Elems(ps)
      <3>1. CASE b \in 0 .. d - 1
        <4>1. FilePath(b) \in Elems(paths)
          BY <1>8, <3>1 DEF PathsOf
        <4>2. PICK k \in 1 .. l : paths[k] = FilePath(b)
          BY <1>8, <4>1 DEF Elems
        <4>3. k \in DOMAIN ps /\ ps[k] = FilePath(b)
          BY <1>17, <4>2
        <4> QED
          BY <4>3 DEF Elems
      <3>2. CASE ~(b \in 0 .. d - 1)
        <4>1. PICK j \in 1 .. m : b = d + j - 1
          <5>1. b - d + 1 \in 1 .. m /\ b = d + (b - d + 1) - 1
            BY <1>1, <1>2, <3>2
          <5> QED
            BY <5>1
        <4>2. l + j \in DOMAIN ps
          BY <1>17
        <4>3. ps[l + j] = FilePath(b)
          BY <1>16, <1>17, <4>1
        <4> QED
          BY <4>2, <4>3 DEF Elems
      <3> QED
        BY <3>1, <3>2
    <2>3. ASSUME NEW b \in DOMAIN mask' PROVE CachePath(b) \in Elems(ps)
      <3>1. CASE b \in DOMAIN mask
        <4>1. CachePath(b) \in Elems(paths)
          BY <1>8, <3>1 DEF PathsOf
        <4>2. PICK k \in 1 .. l : paths[k] = CachePath(b)
          BY <1>8, <4>1 DEF Elems
        <4>3. k \in DOMAIN ps /\ ps[k] = CachePath(b)
          BY <1>17, <4>2
        <4> QED
          BY <4>3 DEF Elems
      <3>2. CASE b = d
        <4>1. l + m + 1 \in DOMAIN ps
          BY <1>17
        <4> QED
          BY <1>17, <3>2, <4>1 DEF Elems
      <3> QED
        BY <1>5, <3>1, <3>2
    <2> QED
      BY <2>1, <2>2, <2>3 DEF Elems, PathsOf
  <1>27. l + m + 1 >= 1 /\ ps[1] = FilePath(0)
    <2>1. CASE d > 0
      <3>1. 1 \in 1 .. l
        BY <1>8, <2>1
      <3> QED
        BY <1>8, <1>17, <2>1, <3>1
    <2>2. CASE d = 0
      <3>1. l = 0 /\ 1 \in 1 .. m /\ l + 1 = 1 /\ d + 1 - 1 = 0
        BY <1>2, <1>7, <2>2
      <3>2. ps[l + 1] = FilePath(d + 1 - 1)
        BY <1>16, <1>17, <3>1
      <3> QED
        BY <3>1, <3>2
    <2> QED
      BY <2>1, <2>2
  <1>28. l + m + 1 <= 2 * n
    BY <1>1, <1>2, <1>7
  <1>29. Collected(content, G, n, info', mask', hs, ps)
    BY <1>17, <1>23, <1>25, <1>26, <1>27, <1>28 DEF Collected
  <1> QED
    BY <1>1, <1>3, <1>29 DEF hs, ps

----------------------------------------------------------------------------
(* The files of a plan that is made *)

\* The rows of a whole plan are never too many to wait.
Unflushed == HisLimit > (2 * NBlocks) * NItems

\* Until the plan is made nothing is extracted.
LEMMA NotFlushed ==
  ASSUME Unflushed, NEW hs \in Seq(Rows), Len(hs) <= 2 * NBlocks
  PROVE  ~(Waiting(hs) >= HisLimit)
  <1>1. PICK n \in Nat, m \in Nat, h \in Nat, q \in Nat :
           n = Len(hs) /\ m = NItems /\ h = HisLimit /\ q = 2 * NBlocks /\ n <= q
    BY LenProperties, DataFacts, FeatureAssumption
  <1> DEFINE W == UNION { {k} \X DOMAIN hs[k] : k \in DOMAIN hs }
  <1>2. W \in SUBSET ((1 .. n) \X (1 .. m))
    <2> SUFFICES ASSUME NEW k \in DOMAIN hs, NEW j \in DOMAIN hs[k]
                 PROVE  <<k, j>> \in (1 .. n) \X (1 .. m)
      OBVIOUS
    <2>1. k \in 1 .. n
      BY <1>1, LenProperties
    <2>2. hs[k] \in Seq(Items) /\ Len(hs[k]) <= m
      BY <1>1, <2>1, ElementOfSeq DEF Rows
    <2>3. PICK l \in Nat : l = Len(hs[k]) /\ DOMAIN hs[k] = 1 .. l
      BY <2>2, LenProperties
    <2>4. j \in 1 .. m
      BY <2>2, <2>3
    <2> QED
      BY <2>1, <2>4
  <1>3. /\ IsFiniteSet((1 .. n) \X (1 .. m))
        /\ Cardinality((1 .. n) \X (1 .. m)) = n * m
    <2>1. IsFiniteSet(1 .. n) /\ IsFiniteSet(1 .. m) /\ Cardinality(1 .. n) = n /\ Cardinality(1 .. m) = m
      BY SortedInterval
    <2> QED
      BY <2>1, FS_Product
  <1>4. IsFiniteSet(W) /\ Cardinality(W) <= n * m
    BY <1>2, <1>3, FS_Subset
  <1>5. PICK w \in Nat : w = Cardinality(W)
    BY <1>4, FS_CardinalityType
  <1>6. n * m <= q * m
    BY <1>1
  <1>7. PICK x \in Nat, y \in Nat : x = n * m /\ y = q * m
    OBVIOUS
  <1>8. y < h
    BY <1>1, <1>7 DEF Unflushed
  <1>9. w < h
    BY <1>4, <1>5, <1>6, <1>7, <1>8
  <1> QED
    BY <1>1, <1>5, <1>9 DEF Waiting

\* The files of a plan, each with the rows that were collected for it.
FilesOf(mk) == {FilePath(0)} \cup { IncrePath(b) : b \in 1 .. NBlocks - 1 }
                             \cup { CachePath(b) : b \in DOMAIN mk }
Filed(c, F, inf, mk, fs) ==
  /\ DOMAIN fs = FilesOf(mk)
  /\ \A p \in FilesOf(mk) : fs[p] = Extracted(Want(c, F, inf, mk, p))

\* Where the k-th list of rows is written.
Target(ps, k) == IF ps[k].of = "block" /\ k > 1 THEN BlockPath(ps[k].at, TRUE) ELSE ps[k]

\* After the last period every file is written.
LEMMA ExtractFiles ==
  ASSUME NEW c, NEW F, NEW inf, NEW mk, NEW hs, NEW ps,
         Collected(c, F, NBlocks, inf, mk, hs, ps), files = <<>>
  PROVE  Filed(c, F, inf, mk, StreamExtract(hs, ps))
  <1>1. PICK N \in Nat \ {0} : N = NBlocks
    BY DataFacts
  <1>2. PICK l \in Nat : l = Len(ps) /\ l >= 1 /\ DOMAIN ps = 1 .. l /\ DOMAIN hs = 1 .. l
    BY <1>1, LenProperties DEF Collected
  <1>3. /\ \A k \in 1 .. l : hs[k] = Want(c, F, inf, mk, ps[k])
        /\ Distinct(ps) /\ Elems(ps) = PathsOf(N, mk) /\ ps[1] = FilePath(0)
    BY <1>1, <1>2 DEF Collected
  <1> DEFINE T(k) == Target(ps, k)
             targets == { T(k) : k \in DOMAIN hs }
             fs == StreamExtract(hs, ps)
  <1>4. DOMAIN files = {}
    OBVIOUS
  <1>5. fs = [p \in DOMAIN files \cup targets |->
               IF p \in targets THEN Extracted(hs[CHOOSE k \in DOMAIN hs : T(k) = p]) ELSE files[p]]
    BY DEF StreamExtract, Target
  <1>6. T(1) = FilePath(0)
    BY <1>3 DEF Target
  <1>7. ASSUME NEW k \in 1 .. l, k # 1
        PROVE  \/ \E b \in 1 .. N - 1 : ps[k] = FilePath(b) /\ T(k) = IncrePath(b)
               \/ \E b \in DOMAIN mk : ps[k] = CachePath(b) /\ T(k) = CachePath(b)
    <2>1. ps[k] \in PathsOf(N, mk)
      BY <1>2, <1>3 DEF Elems
    <2>2. ps[k] # FilePath(0)
      BY <1>2, <1>3, <1>7 DEF Distinct
    <2>3. k > 1
      BY <1>7
    <2>4. ASSUME NEW b \in 0 .. N - 1, ps[k] = FilePath(b)
          PROVE  b \in 1 .. N - 1 /\ T(k) = IncrePath(b)
      <3>1. b # 0
        BY <2>2, <2>4
      <3>2. ps[k].of = "block" /\ ps[k].at = b
        BY <2>4, PathFacts
      <3>3. T(k) = BlockPath(b, TRUE)
        BY <2>3, <3>2 DEF Target
      <3> QED
        BY <3>1, <3>3 DEF IncrePath
    <2>5. ASSUME NEW b \in DOMAIN mk, ps[k] = CachePath(b)
          PROVE  T(k) = CachePath(b)
      <3>1. ps[k].of # "block"
        BY <2>5, PathFacts
      <3> QED
        BY <2>5, <3>1 DEF Target
    <2> HIDE DEF T
    <2> QED
      BY <2>1, <2>4, <2>5 DEF PathsOf
  <1> HIDE DEF T, fs
  <1>8. ASSUME NEW i \in 1 .. l, NEW k \in 1 .. l, T(i) = T(k) PROVE i = k
    <2>1. CASE i = 1 /\ k # 1
      BY <1>6, <1>7, <1>8, <2>1, PathFacts
    <2>2. CASE i # 1 /\ k = 1
      BY <1>6, <1>7, <1>8, <2>2, PathFacts
    <2>3. CASE i # 1 /\ k # 1
      <3>1. ps[i] = ps[k]
        BY <1>7, <1>8, <2>3, PathFacts
      <3> QED
        BY <1>2, <1>3, <3>1 DEF Distinct
    <2> QED
      BY <2>1, <2>2, <2>3
  <1>9. \A k \in 1 .. l : Want(c, F, inf, mk, T(k)) = hs[k]
    <2> SUFFICES ASSUME NEW k \in 1 .. l PROVE Want(c, F, inf, mk, T(k)) = hs[k]
      OBVIOUS
    <2>1. CASE k = 1
      BY <1>3, <1>6, <2>1
    <2>2. CASE k # 1
      <3>1. T(k).of = ps[k].of /\ T(k).at = ps[k].at
        BY <1>7, <2>2, PathFacts
      <3>2. Want(c, F, inf, mk, T(k)) = Want(c, F, inf, mk, ps[k])
        BY <3>1 DEF Want
      <3> QED
        BY <1>3, <3>2
    <2> QED
      BY <2>1, <2>2
  <1>10. targets = FilesOf(mk)
    <2>1. ASSUME NEW k \in 1 .. l PROVE T(k) \in FilesOf(mk)
      <3>1. CASE k = 1
        BY <1>6, <3>1 DEF FilesOf
      <3>2. CASE k # 1
        BY <1>1, <1>7, <3>2 DEF FilesOf
      <3> QED
        BY <3>1, <3>2
    <2>2. FilePath(0) \in targets
      BY <1>2, <1>6
    <2>3. ASSUME NEW b \in 1 .. N - 1 PROVE IncrePath(b) \in targets
      <3>1. FilePath(b) \in PathsOf(N, mk)
        BY DEF PathsOf
      <3>2. PICK k \in 1 .. l : ps[k] = FilePath(b)
        BY <1>2, <1>3, <3>1 DEF Elems
      <3>3. b # 0
        OBVIOUS
      <3>4. k # 1
        BY <1>3, <3>2, <3>3, PathFacts
      <3>5. T(k) = IncrePath(b)
        BY <1>7, <3>2, <3>4, PathFacts
      <3> QED
        BY <1>2, <3>5
    <2>4. ASSUME NEW b \in DOMAIN mk PROVE CachePath(b) \in targets
      <3>1. CachePath(b) \in PathsOf(N, mk)
        BY DEF PathsOf
      <3>2. PICK k \in 1 .. l : ps[k] = CachePath(b)
        BY <1>2, <1>3, <3>1 DEF Elems
      <3>3. k # 1
        BY <1>3, <3>2, PathFacts
      <3>4. T(k) = CachePath(b)
        BY <1>7, <3>2, <3>3, PathFacts
      <3> QED
        BY <1>2, <3>4
    <2> QED
      BY <1>1, <1>2, <2>1, <2>2, <2>3, <2>4 DEF FilesOf
  <1>11. DOMAIN fs = FilesOf(mk)
    BY <1>4, <1>5, <1>10
  <1>12. ASSUME NEW p \in FilesOf(mk) PROVE fs[p] = Extracted(Want(c, F, inf, mk, p))
    <2>1. p \in targets
      BY <1>10
    <2>2. PICK k \in DOMAIN hs : T(k) = p
      BY <2>1
    <2>3. (CHOOSE j \in DOMAIN hs : T(j) = p) = k
      BY <1>2, <1>8, <2>2
    <2>4. fs[p] = Extracted(hs[k])
      <3>1. fs[p] = Extracted(hs[CHOOSE j \in DOMAIN hs : T(j) = p])
        BY <1>5, <2>1
      <3> QED
        BY <2>3, <3>1
    <2> QED
      BY <1>2, <1>9, <2>2, <2>4
  <1>13. Filed(c, F, inf, mk, fs)
    BY <1>11, <1>12 DEF Filed
  <1> QED
    BY <1>13 DEF fs

\* The elements of the numbers in order are the numbers.
LEMMA SortedElems ==
  ASSUME NEW S \in SUBSET Items
  PROVE  /\ Elems(Sorted(S)) = S /\ Sorted(S) \in Seq(Items)
         /\ \A x \in S : NthOf(S, x) \in 1 .. Cardinality(S) /\ Sorted(S)[NthOf(S, x)] = x
  <1>1. IsFiniteSet(S) /\ S \in SUBSET Nat
    BY DataFacts, FS_Subset
  <1>2. PICK c \in Nat : c = Cardinality(S) /\ Sorted(S) \in [1 .. c -> S]
                         /\ \A x \in S : NthOf(S, x) \in 1 .. c /\ Sorted(S)[NthOf(S, x)] = x
    BY <1>1, SortedFacts
  <1>3. DOMAIN Sorted(S) = 1 .. c
    BY <1>2
  <1>4. Elems(Sorted(S)) = S
    <2>1. \A k \in 1 .. c : Sorted(S)[k] \in S
      BY <1>2
    <2>2. \A x \in S : \E k \in 1 .. c : Sorted(S)[k] = x
      BY <1>2
    <2> QED
      BY <1>3, <2>1, <2>2 DEF Elems
  <1>5. Sorted(S) \in Seq(Items)
    BY SortedRows DEF Rows
  <1> QED
    BY <1>2, <1>4, <1>5

\* What the plan has made of the files.
LEMMA FileFacts ==
  ASSUME NEW F, Plan(content, F, NBlocks, idx, info, mask), Contented,
         Filed(content, F, info, mask, files)
  PROVE  /\ content[0] \in SUBSET Items
         /\ files[FilePath(0)] \in Seq(Feature) /\ files[CachePath(0)] \in [Slots -> Feature]
         /\ OneWindow => files[FilePath(0)] = Sorted(content[0]) /\ files[CachePath(0)] = F[0]
  <1>1. PICK N \in Nat \ {0}, B \in Nat : N = NBlocks /\ B = Budget
    BY DataFacts
  <1>2. 0 \in Blocks /\ 0 \in 0 .. N - 1 /\ N > 0 /\ content[0] \in SUBSET Items
    BY <1>1, DataFacts DEF Contented
  <1>3. 0 \in DOMAIN mask /\ IsIndex(F[0]) /\ info[0] = InfoOf(content, 0, F[0])
    BY <1>1, <1>2 DEF Plan
  <1>4. FilePath(0) \in FilesOf(mask) /\ CachePath(0) \in FilesOf(mask)
    BY <1>3 DEF FilesOf
  <1>5. info[0].pre = {} /\ info[0].cached = {}
    BY <1>3 DEF InfoOf, PreOf, CachedOf
  <1>6. OfFileOf(content, info, 0) = content[0]
    BY <1>5 DEF OfFileOf
  <1>7. Want(content, F, info, mask, FilePath(0)) = Sorted(content[0])
    BY <1>6, PathFacts DEF Want
  <1>8. Want(content, F, info, mask, CachePath(0)) = F[0]
    BY PathFacts DEF Want, CacheRows
  <1>9. files[FilePath(0)] = Extracted(Sorted(content[0])) /\ files[CachePath(0)] = Extracted(F[0])
    BY <1>4, <1>7, <1>8 DEF Filed
  <1>10. PICK c \in Nat : Sorted(content[0]) \in [1 .. c -> Items]
    BY <1>2, SortedRows
  <1>11. /\ files[FilePath(0)] \in [1 .. c -> Feature]
         /\ OneWindow => files[FilePath(0)] = Sorted(content[0])
    BY <1>9, <1>10, ExtractedFacts
  <1>12. F[0] \in [1 .. B -> Items]
    BY <1>1, <1>3 DEF IsIndex, Slots
  <1>13. /\ files[CachePath(0)] \in [1 .. B -> Feature]
         /\ OneWindow => files[CachePath(0)] = F[0]
    BY <1>9, <1>12, ExtractedFacts
  <1>14. files[FilePath(0)] \in Seq(Feature)
    BY <1>11, FunctionIsSeq
  <1> QED
    BY <1>1, <1>2, <1>11, <1>13, <1>14 DEF Slots

\* The rows of a block after the first, and its cache.
LEMMA BlockFiles ==
  ASSUME NEW F, Plan(content, F, NBlocks, idx, info, mask), Contented,
         Filed(content, F, info, mask, files), NEW b \in 1 .. NBlocks - 1,
         NEW S, S = OfFileOf(content, info, b)
  PROVE  /\ S \in SUBSET Items /\ info[b] = InfoOf(content, b, F[b]) /\ IsIndex(F[b])
         /\ content[b] \in SUBSET Items
         /\ files[IncrePath(b)] \in [1 .. Cardinality(S) -> Feature] /\ Cardinality(S) \in Nat
         /\ OneWindow => files[IncrePath(b)] = Sorted(S)
         /\ CachePath(b) \in DOMAIN files <=> b \in DOMAIN mask
         /\ Follow(F, mask, b)
  <1>1. PICK N \in Nat \ {0} : N = NBlocks
    BY DataFacts
  <1>2. b \in Blocks /\ b \in 0 .. N - 1 /\ content[b] \in SUBSET Items
    BY <1>1, DataFacts DEF Contented
  <1>3. IsIndex(F[b]) /\ info[b] = InfoOf(content, b, F[b]) /\ Follow(F, mask, b)
    BY <1>1, <1>2 DEF Plan
  <1>4. S \in SUBSET Items
    BY <1>2 DEF OfFileOf
  <1>5. IncrePath(b) \in FilesOf(mask)
    BY DEF FilesOf
  <1>6. Want(content, F, info, mask, IncrePath(b)) = Sorted(S)
    BY PathFacts DEF Want
  <1>7. files[IncrePath(b)] = Extracted(Sorted(S))
    BY <1>5, <1>6 DEF Filed
  <1>8. PICK c \in Nat : c = Cardinality(S) /\ Sorted(S) \in [1 .. c -> Items]
    BY <1>4, SortedRows
  <1>9. /\ files[IncrePath(b)] \in [1 .. c -> Feature]
        /\ OneWindow => files[IncrePath(b)] = Sorted(S)
    BY <1>7, <1>8, ExtractedFacts
  <1>10. CachePath(b) \in DOMAIN files <=> b \in DOMAIN mask
    BY PathFacts DEF Filed, FilesOf
  <1> QED
    BY <1>2, <1>3, <1>4, <1>8, <1>9, <1>10

\* The cache of the block that is prepared: rows for every slot, and in one window the
\* rows that were planned.
LEMMA AdvanceFacts ==
  ASSUME NEW F, Plan(content, F, NBlocks, idx, info, mask), Contented,
         Filed(content, F, info, mask, files), NEW b \in 1 .. NBlocks - 1,
         bucketFeat \in [Slots -> Feature]
  PROVE  /\ Advance(b) \in [Slots -> Feature]
         /\ OneWindow /\ HasEdges /\ bucketFeat = F[b - 1] => Advance(b) = F[b]
  <1>1. CachePath(b) \in DOMAIN files <=> b \in DOMAIN mask
    BY BlockFiles
  <1>2. Follow(F, mask, b)
    BY BlockFiles
  <1>3. CASE ~(HasEdges /\ b \in DOMAIN mask)
    <2>1. Advance(b) = bucketFeat
      BY <1>1, <1>3 DEF Advance
    <2>2. HasEdges => F[b] = F[b - 1]
      BY <1>2, <1>3 DEF Follow
    <2> QED
      BY <2>1, <2>2
  <1>4. CASE HasEdges /\ b \in DOMAIN mask
    <2> DEFINE P == mask[b]
               r == Masked(F[b], P)
    <2>1. Replaced(F[b], F[b - 1], P, r)
      BY <1>2, <1>4 DEF Follow
    <2> HIDE DEF P, r
    <2>2. PICK c \in Nat : /\ c = Cardinality(P) /\ r \in [1 .. c -> Items] /\ P \in SUBSET Slots
                           /\ \A s \in P : NthOf(P, s) \in 1 .. c
      BY <2>1 DEF Replaced
    <2>3. F[b] = [s \in Slots |-> IF s \in P THEN r[NthOf(P, s)] ELSE F[b - 1][s]]
      BY <2>1 DEF Replaced
    <2>4. Want(content, F, info, mask, CachePath(b)) = r
      <3>1. b # 0
        OBVIOUS
      <3> QED
        BY <3>1, PathFacts DEF Want, CacheRows, P, r
    <2>5. files[CachePath(b)] = Extracted(r)
      BY <1>4, <2>4 DEF Filed, FilesOf
    <2>6. files[CachePath(b)] \in [1 .. c -> Feature] /\ (OneWindow => files[CachePath(b)] = r)
      BY <2>2, <2>5, ExtractedFacts
    <2>7. Advance(b) = [s \in Slots |->
                          IF s \in P THEN files[CachePath(b)][NthOf(P, s)] ELSE bucketFeat[s]]
      BY <1>1, <1>4 DEF Advance, P
    <2>8. Advance(b) \in [Slots -> Feature]
      BY <2>2, <2>6, <2>7
    <2>9. ASSUME OneWindow, bucketFeat = F[b - 1] PROVE Advance(b) = F[b]
      BY <2>3, <2>6, <2>7, <2>9
    <2> QED
      BY <2>8, <2>9
  <1> QED
    BY <1>3, <1>4

----------------------------------------------------------------------------
(* The invariant *)

\* The plan so far, or the plan and its files; F is the cache of each block.
PlanInv(F) ==
  /\ nextBlock \in 0 .. Planned /\ bucketStart \in 0 .. NBlocks /\ periods \in 0 .. NEdges
  /\ his \in Seq(Rows)
  /\ nextBlock = Planned =>
       Plan(content, F, NBlocks, idx, info, mask) /\ Filed(content, F, info, mask, files)
  /\ nextBlock # Planned =>
       /\ Plan(content, F, bucketStart, idx, info, mask)
       /\ Collected(content, F, bucketStart, info, mask, his, paths)
       /\ files = <<>> /\ bucketStart <= nextBlock /\ (nextBlock = 0 \/ bucketStart < nextBlock)

\* The block the worker has prepared.
Prepared == IF share = None THEN curBlock ELSE share.at

\* What is on the GPU and in the shared tensors is of the blocks it should be of.
TrainInv ==
  /\ curBlock \in 0 .. NotStarted
  /\ curBlock = NotStarted => gpu = <<>> /\ bucketFeat = <<>> /\ share = None
  /\ curBlock # NotStarted =>
       /\ nextBlock = Planned /\ curBlock \in Blocks /\ bucketFeat \in [Slots -> Feature]
       /\ DOMAIN gpu \subseteq Items /\ content[curBlock] \subseteq DOMAIN gpu
  /\ share # None =>
       /\ curBlock # NotStarted /\ share.at = curBlock + 1 /\ share.at \in Blocks
       /\ DOMAIN share.feats \subseteq Items /\ content[share.at] \subseteq DOMAIN share.feats

\* Rows are right, or wait for the GPU's, which are.
RightInv(F) ==
  /\ curBlock # NotStarted => bucketFeat = F[Prepared] /\ \A i \in DOMAIN gpu : gpu[i] = i
  /\ share # None =>
       /\ share.dInd \subseteq DOMAIN gpu
       /\ \A i \in DOMAIN share.feats \ share.dInd : share.feats[i] = i

\* The feature file is read at once, and the worker's caches are replaced.
Plain == OneWindow /\ HasEdges
\* What no step changes.
Fixed == content \in Contents /\ kind \in {"node", "edge"} /\ dataIncre \in BOOLEAN
\* The inductive invariant: F, which no variable holds, is the cache each block was planned
\* with.  Whatever Plain, the plan and its files are made of F; the rows need Plain.
Inv == Fixed /\ TrainInv /\ \E F : PlanInv(F) /\ (Plain => RightInv(F))

\* While the plan is made no block is on the GPU.
LEMMA NotTraining ==
  ASSUME TrainInv, nextBlock # Planned
  PROVE  curBlock = NotStarted /\ gpu = <<>> /\ bucketFeat = <<>> /\ share = None
  BY DEF TrainInv

\* So a step of the plan leaves all of it alone.
LEMMA StillNotTraining ==
  ASSUME TrainInv, nextBlock # Planned, UNCHANGED trainVars
  PROVE  TrainInv' /\ \A F : RightInv(F)'
  <1>1. curBlock = NotStarted /\ gpu = <<>> /\ bucketFeat = <<>> /\ share = None
    BY NotTraining
  <1>2. curBlock' = NotStarted /\ gpu' = <<>> /\ bucketFeat' = <<>> /\ share' = None
    BY <1>1 DEF trainVars
  <1>3. NotStarted \in 0 .. NotStarted
    BY DataFacts DEF NotStarted
  <1> QED
    BY <1>2, <1>3 DEF TrainInv, RightInv, NotStarted, None

\* Blocks have items of the feature file.
LEMMA ContentFacts == ASSUME Fixed PROVE Contented
  BY FeatureAssumption DEF Fixed, Contented

\* At the start the plan is empty.
LEMMA InitInv == Init => Inv
  <1> SUFFICES ASSUME Init PROVE Inv
    OBVIOUS
  <1> USE DEF Init
  <1>1. PICK N \in Nat \ {0}, E \in Nat : N = NBlocks /\ E = NEdges
    BY DataFacts, FeatureAssumption
  <1>2. Fixed
    BY FeatureAssumption DEF Fixed
  <1>3. TrainInv
    BY <1>1 DEF TrainInv, NotStarted
  <1> DEFINE F == [b \in Blocks |-> [s \in Slots |-> 0]]
  <1>4. F \in [Blocks -> [Slots -> Items]]
    <2>1. 0 \in Items
      BY DataFacts DEF Items
    <2> QED
      BY <2>1
  <1> HIDE DEF F
  <1>5. DOMAIN <<>> = {} /\ Len(<<>>) = 0 /\ \A S : <<>> \in Seq(S)
    BY EmptySeq
  <1>6. 0 .. 0 - 1 = {}
    OBVIOUS
  <1>7. Plan(content, F, 0, <<>>, <<>>, <<>>)
    <2>1. \A b \in 1 .. 0 - 1 : FALSE
      OBVIOUS
    <2> QED
      BY <1>1, <1>4, <1>5, <1>6, <2>1 DEF Plan
  <1>8. Collected(content, F, 0, <<>>, <<>>, <<>>, <<>>)
    <2>1. Elems(<<>>) = {} /\ Distinct(<<>>)
      BY NoElems
    <2>2. PathsOf(0, <<>>) = {}
      BY <1>5, <1>6 DEF PathsOf
    <2> QED
      BY <1>5, <2>1, <2>2 DEF Collected
  <1>9. PlanInv(F)
    <2>1. 0 \in 0 .. Planned /\ 0 \in 0 .. NBlocks /\ 0 \in 0 .. NEdges /\ 0 # Planned
      BY <1>1 DEF Planned
    <2> QED
      BY <1>5, <1>7, <1>8, <2>1 DEF PlanInv
  <1>10. RightInv(F)
    BY DEF RightInv, NotStarted
  <1> QED
    BY <1>2, <1>3, <1>9, <1>10 DEF Inv

\* A block within a period changes no part of the plan.
LEMMA BlockStep == ASSUME Inv, PlanBlock PROVE Inv'
  <1>1. PICK F : PlanInv(F)
    BY DEF Inv
  <1>2. PICK N \in Nat \ {0}, d \in Nat, n \in Nat :
           N = NBlocks /\ d = bucketStart /\ n = nextBlock /\ n < N /\ d <= n
    BY <1>1, DataFacts DEF PlanInv, PlanBlock, Planned
  <1>3. nextBlock # Planned /\ nextBlock' = n + 1 /\ n + 1 # Planned /\ n + 1 \in 0 .. Planned
    BY <1>2 DEF PlanBlock, Planned
  <1>4. /\ UNCHANGED <<content, kind, dataIncre, periods, bucketStart, idx, info, mask, his, paths, files>>
        /\ UNCHANGED trainVars
    BY DEF PlanBlock
  <1>5. Fixed'
    BY <1>4 DEF Inv, Fixed
  <1>6. TrainInv' /\ RightInv(F)'
    BY <1>3, <1>4, StillNotTraining DEF Inv
  <1>7. PlanInv(F)'
    <2>1. /\ bucketStart \in 0 .. NBlocks /\ periods \in 0 .. NEdges /\ his \in Seq(Rows)
          /\ Plan(content, F, bucketStart, idx, info, mask)
          /\ Collected(content, F, bucketStart, info, mask, his, paths) /\ files = <<>>
      BY <1>1, <1>3 DEF PlanInv
    <2>2. d < n + 1 /\ d <= n + 1
      BY <1>2
    <2> QED
      BY <1>2, <1>3, <1>4, <2>1, <2>2 DEF PlanInv
  <1> QED
    BY <1>5, <1>6, <1>7 DEF Inv

\* Before the first block there is no period to end.
LEMMA FirstNotClosed == ~(Right(0) \div Threshold > 0)
  <1>1. PICK B \in Nat \ {0}, E \in Nat \ {0}, T \in Nat \ {0} :
           B = BlockSize /\ E = NEdges /\ T = Threshold /\ T > B
    BY FeatureAssumption
  <1>2. Right(0) \in Nat /\ Right(0) < T
    BY <1>1 DEF Right
  <1>3. PICK r \in Nat : r = Right(0) /\ r < T
    BY <1>2
  <1>4. r \div T = 0
    <2>1. r \div T \in Nat /\ r % T \in 0 .. T - 1 /\ r = (r \div T) * T + (r % T)
      BY Division
    <2>2. PICK q \in Nat, m \in Nat : q = r \div T /\ m = r % T /\ r = q * T + m
      BY <2>1
    <2>3. q >= 1 => q * T >= T
      OBVIOUS
    <2>4. PICK x \in Nat : x = q * T
      OBVIOUS
    <2>5. ~(q >= 1)
      BY <1>3, <2>2, <2>3, <2>4
    <2> QED
      BY <2>2, <2>5
  <1> QED
    BY <1>1, <1>3, <1>4

\* Periods are no more than edges.
LEMMA PeriodsBound ==
  ASSUME NEW b \in Nat, NEW p \in Nat, Right(b) \div Threshold > p
  PROVE  p + 1 \in 0 .. NEdges
  <1>1. PICK E \in Nat \ {0}, T \in Nat \ {0} : E = NEdges /\ T = Threshold
    BY FeatureAssumption
  <1>2. PICK r \in Nat : r = Right(b) /\ r <= E
    <2>1. (b + 1) * BlockSize \in Nat
      BY FeatureAssumption
    <2> QED
      BY <1>1, <2>1 DEF Right
  <1>3. PICK q \in Nat, m \in Nat : q = r \div T /\ r = q * T + m
    <2>1. r \div T \in Nat /\ r % T \in 0 .. T - 1 /\ r = (r \div T) * T + (r % T)
      BY Division
    <2>2. r % T \in Nat
      BY <2>1
    <2> QED
      BY <2>1, <2>2
  <1>4. q * T >= q
    OBVIOUS
  <1>5. q <= E
    <2>1. PICK x \in Nat : x = q * T
      OBVIOUS
    <2> QED
      BY <1>2, <1>3, <1>4, <2>1
  <1>6. q > p
    BY <1>1, <1>2, <1>3
  <1> QED
    BY <1>1, <1>5, <1>6

\* Of the stream there are at least as many blocks as full ones.
LEMMA FullBlocks == NEdges \div BlockSize \in 0 .. NBlocks
  <1>1. PICK B \in Nat \ {0}, E \in Nat \ {0} : B = BlockSize /\ E = NEdges
    BY FeatureAssumption
  <1>2. PICK q \in Nat, r \in Nat : q = E \div B /\ E = q * B + r
    <2>1. E \div B \in Nat /\ E % B \in 0 .. B - 1 /\ E = (E \div B) * B + (E % B)
      BY Division
    <2>2. E % B \in Nat
      BY <2>1
    <2> QED
      BY <2>1, <2>2
  <1>3. PICK x \in Nat : x = E + B - 1
    OBVIOUS
  <1>4. PICK n \in Nat, s \in Nat : n = x \div B /\ s <= B - 1 /\ x = n * B + s
    <2>1. x \div B \in Nat /\ x % B \in 0 .. B - 1 /\ x = (x \div B) * B + (x % B)
      BY Division
    <2>2. x % B \in Nat /\ x % B <= B - 1
      BY <2>1
    <2> QED
      BY <2>1, <2>2
  <1>5. q * B <= n * B
    <2>1. PICK y \in Nat, z \in Nat : y = q * B /\ z = n * B
      OBVIOUS
    <2> QED
      BY <1>2, <1>3, <1>4, <2>1
  <1>6. q <= n
    <2> SUFFICES ASSUME q > n PROVE FALSE
      OBVIOUS
    <2>1. PICK k \in Nat : q = n + 1 + k
      <3>1. q - n - 1 \in Nat /\ q = n + 1 + (q - n - 1)
        OBVIOUS
      <3> QED
        BY <3>1
    <2>2. q * B = n * B + B + k * B /\ k * B \in Nat
      BY <2>1
    <2>3. PICK y \in Nat, z \in Nat, w \in Nat : y = q * B /\ z = n * B /\ w = k * B
      BY <2>2
    <2> QED
      BY <1>5, <2>2, <2>3
  <1> QED
    BY <1>1, <1>2, <1>3, <1>4, <1>6 DEF NBlocks

\* The plan at the end of a period.
LEMMA PeriodPlan ==
  ASSUME NEW F, PlanInv(F), Fixed, nextBlock \in 1 .. NBlocks, NEW cache \in Hottest,
         ClosePeriod(cache), NEW G, G = CacheFrom(F, bucketStart, nextBlock, idx')
  PROVE  /\ Plan(content, G, nextBlock, idx', info', mask')
         /\ Collected(content, G, nextBlock, info', mask', ClosedHis(cache), ClosedPaths)
         /\ files = <<>>
  <1>1. PICK N \in Nat \ {0}, n \in Nat \ {0} : N = NBlocks /\ n = nextBlock /\ n <= N
    BY DataFacts
  <1>2. nextBlock # Planned /\ nextBlock # 0 /\ nextBlock \in 0 .. NBlocks
    BY <1>1 DEF Planned
  <1>3. /\ Plan(content, F, bucketStart, idx, info, mask) /\ bucketStart < nextBlock
        /\ Collected(content, F, bucketStart, info, mask, his, paths) /\ files = <<>>
    BY <1>2 DEF PlanInv
  <1>4. Contented
    BY ContentFacts
  <1>5. Plan(content, G, nextBlock, idx', info', mask')
    BY <1>2, <1>3, ClosePlan
  <1>6. Collected(content, G, nextBlock, info', mask', ClosedHis(cache), ClosedPaths)
    BY <1>2, <1>3, <1>4, CloseCollect
  <1> QED
    BY <1>3, <1>5, <1>6

\* The end of a period, when not too many rows wait.
LEMMA PeriodStep == ASSUME Inv, Unflushed, PlanPeriod PROVE Inv'
  <1>1. PICK F : PlanInv(F)
    BY DEF Inv
  <1>2. PICK N \in Nat \ {0}, n \in Nat : N = NBlocks /\ n = nextBlock /\ n < N
    BY <1>1, DataFacts DEF PlanInv, PlanPeriod, Planned
  <1>3. PICK p \in Nat : p = periods /\ p + 1 \in 0 .. NEdges
    <2>1. periods \in Nat /\ Right(nextBlock) \div Threshold > periods
      BY <1>1, FeatureAssumption DEF PlanInv, PlanPeriod, Closes
    <2> QED
      BY <1>2, <2>1, PeriodsBound
  <1>4. n # 0
    <2>1. Right(n) \div Threshold > p
      BY <1>2, <1>3 DEF PlanPeriod, Closes
    <2>2. p = 0 \/ p > 0
      BY <1>3
    <2>3. ASSUME n = 0 PROVE FALSE
      <3>1. PICK q \in Nat : q = Right(0) \div Threshold
        <4>1. PICK x \in Nat, t \in Nat \ {0} : x = Right(0) /\ t = Threshold
          BY FeatureAssumption DEF Right
        <4>2. x \div t \in Nat
          BY Division
        <4> QED
          BY <4>1, <4>2
      <3>2. q > p /\ ~(q > 0)
        BY <2>1, <2>3, <3>1, FirstNotClosed
      <3> QED
        BY <1>3, <3>2
    <2> QED
      BY <2>3
  <1>5. nextBlock \in 1 .. NBlocks
    BY <1>2, <1>4
  <1>6. PICK cache \in Hottest :
          /\ ClosePeriod(cache)
          /\ IF Waiting(ClosedHis(cache)) >= HisLimit
             THEN his' = <<>> /\ files' = StreamExtract(ClosedHis(cache), ClosedPaths)
             ELSE his' = ClosedHis(cache) /\ files' = files
    BY Zenon DEF PlanPeriod
  <1>7. PICK G : G = CacheFrom(F, bucketStart, nextBlock, idx')
    OBVIOUS
  <1>8. /\ Plan(content, G, nextBlock, idx', info', mask')
        /\ Collected(content, G, nextBlock, info', mask', ClosedHis(cache), ClosedPaths)
        /\ files = <<>>
    BY <1>1, <1>5, <1>6, <1>7, PeriodPlan DEF Inv
  <1>9. ClosedHis(cache) \in Seq(Rows) /\ Len(ClosedHis(cache)) <= 2 * NBlocks
    <2>1. ClosedHis(cache) \in Seq(Rows) /\ Len(ClosedHis(cache)) <= 2 * n
      BY <1>2, <1>8 DEF Collected
    <2>2. PICK l \in Nat : l = Len(ClosedHis(cache))
      BY <2>1, LenProperties
    <2> QED
      BY <1>2, <2>1, <2>2
  <1>10. his' = ClosedHis(cache) /\ files' = files
    BY <1>6, <1>9, NotFlushed
  <1>11. paths' = ClosedPaths
    BY <1>6 DEF ClosePeriod
  <1>12. /\ periods' = p + 1 /\ bucketStart' = n /\ nextBlock' = n + 1
         /\ UNCHANGED <<content, kind, dataIncre>> /\ UNCHANGED trainVars
    BY <1>2, <1>3 DEF PlanPeriod
  <1>13. Fixed'
    BY <1>12 DEF Inv, Fixed
  <1>14. nextBlock # Planned /\ nextBlock' # Planned /\ nextBlock' \in 0 .. Planned
         /\ bucketStart' \in 0 .. NBlocks
    BY <1>2, <1>12 DEF Planned
  <1>15. TrainInv' /\ RightInv(G)'
    BY <1>12, <1>14, StillNotTraining DEF Inv
  <1>16. /\ Plan(content', G, bucketStart', idx', info', mask')
         /\ Collected(content', G, bucketStart', info', mask', his', paths')
    BY <1>2, <1>8, <1>10, <1>11, <1>12
  <1>17. files' = <<>> /\ his' \in Seq(Rows) /\ periods' \in 0 .. NEdges
    BY <1>3, <1>8, <1>9, <1>10, <1>12
  <1>18. bucketStart' <= nextBlock' /\ bucketStart' < nextBlock'
    BY <1>12
  <1>19. PlanInv(G)'
    BY <1>14, <1>16, <1>17, <1>18 DEF PlanInv
  <1> QED
    BY <1>13, <1>15, <1>19 DEF Inv

\* The last period: what was collected is filed.
LEMMA EndStep == ASSUME Inv, PlanEnd PROVE Inv'
  <1>1. PICK F : PlanInv(F)
    BY DEF Inv
  <1>2. PICK N \in Nat \ {0} : N = NBlocks /\ nextBlock = N
    BY DataFacts DEF PlanEnd
  <1>3. nextBlock \in 1 .. NBlocks
    BY <1>2
  <1>4. PICK cache \in Hottest :
          ClosePeriod(cache) /\ his' = ClosedHis(cache) /\ files' = StreamExtract(his', ClosedPaths)
    BY DEF PlanEnd
  <1>5. PICK G : G = CacheFrom(F, bucketStart, nextBlock, idx')
    OBVIOUS
  <1>6. /\ Plan(content, G, NBlocks, idx', info', mask')
        /\ Collected(content, G, NBlocks, info', mask', ClosedHis(cache), ClosedPaths)
        /\ files = <<>>
    BY <1>1, <1>2, <1>3, <1>4, <1>5, PeriodPlan DEF Inv
  <1>7. Filed(content, G, info', mask', StreamExtract(ClosedHis(cache), ClosedPaths))
    BY <1>6, ExtractFiles
  <1>8. /\ nextBlock' = Planned /\ bucketStart' = NEdges \div BlockSize
        /\ UNCHANGED <<content, kind, dataIncre, periods>> /\ UNCHANGED trainVars
    BY DEF PlanEnd
  <1>9. Fixed'
    BY <1>8 DEF Inv, Fixed
  <1>10. nextBlock # Planned /\ Planned \in 0 .. Planned
    BY <1>2 DEF Planned
  <1>11. TrainInv' /\ RightInv(G)'
    BY <1>8, <1>10, StillNotTraining DEF Inv
  <1>12. his' \in Seq(Rows) /\ periods' \in 0 .. NEdges /\ bucketStart' \in 0 .. NBlocks
    BY <1>1, <1>4, <1>6, <1>8, FullBlocks DEF PlanInv, Collected
  <1>13. /\ Plan(content', G, NBlocks, idx', info', mask')
         /\ Filed(content', G, info', mask', files')
    BY <1>4, <1>6, <1>7, <1>8
  <1>14. PlanInv(G)'
    BY <1>8, <1>10, <1>12, <1>13 DEF PlanInv
  <1> QED
    BY <1>9, <1>11, <1>14 DEF Inv

----------------------------------------------------------------------------
(* Training *)

\* While blocks are trained the plan is made and its files are written.
LEMMA Trained ==
  ASSUME Inv, nextBlock = Planned
  PROVE  /\ Contented
         /\ \E F : /\ PlanInv(F) /\ (Plain => RightInv(F))
                   /\ Plan(content, F, NBlocks, idx, info, mask)
                   /\ Filed(content, F, info, mask, files)
  <1>1. PICK F : PlanInv(F) /\ (Plain => RightInv(F))
    BY DEF Inv
  <1>2. Plan(content, F, NBlocks, idx, info, mask) /\ Filed(content, F, info, mask, files)
    BY <1>1 DEF PlanInv
  <1>3. Contented
    BY ContentFacts DEF Inv
  <1> QED
    BY <1>1, <1>2, <1>3

\* Training leaves the plan alone.
LEMMA PlanKept ==
  ASSUME NEW F, PlanInv(F), Fixed, UNCHANGED <<content, kind, dataIncre, planVars>>
  PROVE  PlanInv(F)' /\ Fixed'
  <1>1. /\ UNCHANGED <<content, kind, dataIncre, nextBlock, periods, bucketStart>>
        /\ UNCHANGED <<idx, info, mask, his, paths, files>>
    BY DEF planVars
  <1>2. Fixed'
    BY <1>1 DEF Fixed
  <1>3. PlanInv(F)'
    BY <1>1 DEF PlanInv
  <1> QED
    BY <1>2, <1>3

\* The rows r of the items s, which stand in the same order.
Placed(s, r) == [i \in ToSet(s) |-> r[CHOOSE k \in DOMAIN s : s[k] = i]]

\* The rows of block 0 and those of its negatives are in the order of their items.
LEMMA Loaded ==
  ASSUME NEW S \in SUBSET Items, NEW D \in SUBSET Items, NEW r \in Seq(Feature)
  PROVE  LET g == Placed(Sorted(S) \o Sorted(D), r \o Sorted(D))
         IN  /\ DOMAIN g = S \cup D
             /\ r = Sorted(S) => \A i \in DOMAIN g : g[i] = i
  <1> DEFINE s == Sorted(S) \o Sorted(D)
             g == Placed(s, r \o Sorted(D))
  <1>1. Sorted(S) \in Seq(Items) /\ Sorted(D) \in Seq(Items) /\ Elems(Sorted(S)) = S /\ Elems(Sorted(D)) = D
    BY SortedElems
  <1>2. Elems(s) = S \cup D
    BY <1>1, ConcatElems
  <1>3. ToSet(s) = Elems(s)
    BY DEF ToSet, Elems
  <1>4. DOMAIN g = S \cup D
    BY <1>2, <1>3 DEF Placed
  <1>5. ASSUME r = Sorted(S), NEW i \in DOMAIN g PROVE g[i] = i
    <2>1. i \in Elems(s)
      BY <1>2, <1>4, <1>5
    <2>2. \E k \in DOMAIN s : s[k] = i
      BY <2>1 DEF Elems
    <2>3. g = Placed(s, s)
      BY <1>5
    <2>4. i \in ToSet(s)
      BY <1>3, <2>1
    <2> HIDE DEF s, g
    <2>5. g[i] = s[CHOOSE k \in DOMAIN s : s[k] = i]
      BY <2>3, <2>4 DEF Placed
    <2> QED
      BY <2>2, <2>5
  <1> QED
    BY <1>4, <1>5

\* Block 0 is read from its file, the cache from that of the first period.
LEMMA LoadStep == ASSUME Inv, NEW neg \in Negatives, LoadPart(neg) PROVE Inv'
  <1>1. nextBlock = Planned /\ curBlock = NotStarted
    BY DEF LoadPart
  <1>2. Contented
    BY <1>1, Trained
  <1>3. PICK F : /\ PlanInv(F) /\ Plan(content, F, NBlocks, idx, info, mask)
                 /\ Filed(content, F, info, mask, files)
    BY <1>1, Trained
  <1>4. PICK S \in SUBSET Items, D \in SUBSET Items : S = content[0] /\ D = neg \ content[0]
    <2>1. neg \in SUBSET Items
      BY FeatureAssumption
    <2>2. content[0] \in SUBSET Items
      BY <1>2, <1>3, FileFacts
    <2> QED
      BY <2>1, <2>2
  <1>5. PICK r \in Seq(Feature) : r = files[BlockPath(0, FALSE)] /\ (OneWindow => r = Sorted(S))
    BY <1>2, <1>3, <1>4, FileFacts DEF FilePath
  <1>6. files[CachePath(0)] \in [Slots -> Feature] /\ (OneWindow => files[CachePath(0)] = F[0])
    BY <1>2, <1>3, FileFacts
  <1>7. gpu' = Placed(Sorted(S) \o Sorted(D), r \o Sorted(D))
    BY <1>4, <1>5 DEF LoadPart, Placed
  <1>8. DOMAIN gpu' = S \cup D /\ (OneWindow => \A i \in DOMAIN gpu' : gpu'[i] = i)
    <2>1. PICK g : g = Placed(Sorted(S) \o Sorted(D), r \o Sorted(D))
      OBVIOUS
    <2>2. DOMAIN g = S \cup D /\ (r = Sorted(S) => \A i \in DOMAIN g : g[i] = i)
      BY <2>1, Loaded
    <2> QED
      BY <1>5, <1>7, <2>1, <2>2
  <1>9. /\ bucketFeat' = files[CachePath(0)] /\ curBlock' = 0 /\ share' = share
        /\ UNCHANGED <<content, kind, dataIncre, planVars>>
    BY DEF LoadPart
  <1>10. share' = None
    BY <1>1, <1>9 DEF Inv, TrainInv
  <1>11. PlanInv(F)' /\ Fixed'
    BY <1>3, <1>9, PlanKept DEF Inv
  <1>12. nextBlock' = Planned /\ content' = content
    BY <1>1, <1>9 DEF planVars
  <1>13. 0 \in 0 .. NotStarted /\ 0 \in Blocks /\ 0 # NotStarted
    BY DataFacts DEF NotStarted
  <1>14. TrainInv'
    BY <1>4, <1>6, <1>8, <1>9, <1>10, <1>12, <1>13 DEF TrainInv
  <1>15. Plain => RightInv(F)'
    BY <1>6, <1>8, <1>9, <1>10 DEF Plain, RightInv, Prepared
  <1> QED
    BY <1>11, <1>14, <1>15 DEF Inv

\* A row of the cache is in the slot that is saved.
LEMMA CachedRow ==
  ASSUME NEW c, NEW b, NEW f, IsIndex(f), NEW i \in CachedOf(c, b, f)
  PROVE  /\ InfoOf(c, b, f).slot[i] \in Slots /\ f[InfoOf(c, b, f).slot[i]] = i
  <1>1. \E s \in DOMAIN f : f[s] = i
    BY DEF CachedOf, ToSet
  <1>2. InfoOf(c, b, f).slot[i] = CHOOSE s \in DOMAIN f : f[s] = i
    BY DEF InfoOf
  <1>3. DOMAIN f = Slots
    BY DEF IsIndex
  <1> QED
    BY <1>1, <1>2, <1>3

\* What PreFetch puts into the shared tensors for item i of block b, and all of it.
FileRow(b, neg, i) ==
  LET saved  == info[b]
      ofFile == content[b] \ (saved.pre \cup saved.cached)
  IN  CASE i \in saved.cached  -> Advance(b)[saved.slot[i]]
        [] i \in ofFile        -> files[BlockPath(b, TRUE)][NthOf(ofFile, i)]
        [] i \in DDNeg(b, neg) -> i
        [] OTHER               -> Zeros
Handed(b, neg) ==
  [at |-> b, feats |-> [i \in content[b] \cup neg |-> FileRow(b, neg, i)],
   dInd |-> info[b].pre \cup (DisNeg(b, neg) \ DDNeg(b, neg))]

\* A block is put together: a row of the file, of the cache or of the store is right, and one
\* that is left for the GPU is there.
LEMMA PrepareStep == ASSUME Inv, NEW neg \in Negatives, PreFetch(neg) PROVE Inv'
  <1>1. curBlock # NotStarted /\ share = None
    BY DEF PreFetch
  <1>2. /\ nextBlock = Planned /\ curBlock \in Blocks /\ bucketFeat \in [Slots -> Feature]
        /\ DOMAIN gpu \subseteq Items /\ content[curBlock] \subseteq DOMAIN gpu
    BY <1>1 DEF Inv, TrainInv
  <1>3. PICK N \in Nat \ {0}, b \in Nat \ {0} :
          N = NBlocks /\ b = curBlock + 1 /\ curBlock = b - 1 /\ b < N /\ b \in 1 .. NBlocks - 1
    <2>1. PICK N \in Nat \ {0}, c \in Nat : N = NBlocks /\ c = curBlock
      BY <1>2, DataFacts
    <2>2. c + 1 < N
      BY <2>1 DEF PreFetch
    <2>3. c + 1 \in Nat \ {0} /\ c = (c + 1) - 1 /\ c + 1 \in 1 .. N - 1
      BY <2>2
    <2> QED
      BY <2>1, <2>2, <2>3
  <1>4. Contented
    BY <1>2, Trained
  <1>5. PICK F : /\ PlanInv(F) /\ Plan(content, F, NBlocks, idx, info, mask)
                 /\ Filed(content, F, info, mask, files) /\ (Plain => RightInv(F))
    BY <1>2, Trained
  <1>6. PICK C \in SUBSET Items, M \in SUBSET Items : C = content[b] /\ M = neg
    <2>1. neg \in SUBSET Items
      BY FeatureAssumption
    <2>2. content[b] \in SUBSET Items
      BY <1>3, <1>4, <1>5, BlockFiles
    <2> QED
      BY <2>1, <2>2
  <1> DEFINE saved == info[b]
  <1>7. PICK S \in SUBSET Items : S = OfFileOf(content, info, b) /\ S = C \ (saved.pre \cup saved.cached)
    BY <1>6 DEF OfFileOf
  <1>8. PICK rows : /\ rows = files[BlockPath(b, TRUE)]
                    /\ OneWindow => rows = Sorted(S)
    BY <1>3, <1>4, <1>5, <1>7, BlockFiles DEF IncrePath
  <1>9. saved = InfoOf(content, b, F[b]) /\ IsIndex(F[b])
    BY <1>3, <1>4, <1>5, <1>7, BlockFiles
  <1>10. saved.pre = C \cap content[b - 1] /\ saved.cached = CachedOf(content, b, F[b])
    <2>1. b # 0
      OBVIOUS
    <2> HIDE DEF saved
    <2>2. saved.pre = PreOf(content, b) /\ saved.cached = CachedOf(content, b, F[b])
      BY <1>9 DEF InfoOf
    <2> QED
      BY <1>6, <2>1, <2>2 DEF PreOf
  <1>11. PICK cache : /\ cache = Advance(b) /\ cache \in [Slots -> Feature]
                      /\ OneWindow /\ HasEdges /\ bucketFeat = F[b - 1] => cache = F[b]
    BY <1>2, <1>3, <1>4, <1>5, AdvanceFacts
  <1>12. PICK dis, dd : dis = DisNeg(b, neg) /\ dd = DDNeg(b, neg)
    OBVIOUS
  <1> DEFINE Row(i) == FileRow(b, neg, i)
             feats == [i \in content[b] \cup neg |-> Row(i)]
  <1>13. /\ share' = [at |-> b, feats |-> feats, dInd |-> saved.pre \cup (DisNeg(b, neg) \ DDNeg(b, neg))]
         /\ bucketFeat' = Advance(b)
         /\ UNCHANGED <<content, kind, dataIncre, planVars, curBlock, gpu>>
    <2>1. curBlock + 1 = b
      BY <1>3
    <2>2. share' = Handed(curBlock + 1, neg) /\ bucketFeat' = Advance(curBlock + 1)
      BY DEF PreFetch, Handed, FileRow
    <2>3. share' = Handed(b, neg) /\ bucketFeat' = Advance(b)
      BY <2>1, <2>2
    <2>4. share' = [at |-> b, feats |-> feats, dInd |-> saved.pre \cup (DisNeg(b, neg) \ DDNeg(b, neg))]
      BY <2>3 DEF Handed
    <2>5. UNCHANGED <<content, kind, dataIncre, planVars, curBlock, gpu>>
      BY DEF PreFetch
    <2> QED
      BY <2>3, <2>4, <2>5
  <1>14. /\ share'.at = b /\ share'.feats = feats /\ DOMAIN share'.feats = C \cup M
         /\ share'.dInd = saved.pre \cup (dis \ dd) /\ bucketFeat' = cache
    BY <1>6, <1>11, <1>12, <1>13
  <1>15. share' # None
    <2>1. "feats" \in DOMAIN share'
      BY <1>13
    <2>2. DOMAIN None = {"at"} /\ "feats" # "at"
      BY DEF None
    <2> QED
      BY <2>1, <2>2
  <1>16. dis = M \ C /\ dd \subseteq dis /\ dis \ dd \subseteq DOMAIN gpu
    BY <1>6, <1>12 DEF DisNeg, DDNeg
  <1>17. share'.dInd \subseteq DOMAIN gpu
    BY <1>2, <1>3, <1>10, <1>14, <1>16
  <1>18. PlanInv(F)' /\ Fixed'
    BY <1>5, <1>13, PlanKept DEF Inv
  <1>19. nextBlock' = nextBlock /\ content' = content /\ curBlock' = curBlock /\ gpu' = gpu
    BY <1>13 DEF planVars
  <1>20. b \in Blocks
    BY <1>3, DataFacts
  <1>21. TrainInv'
    <2>1. curBlock \in 0 .. NotStarted
      BY DEF Inv, TrainInv
    <2> HIDE DEF feats, saved
    <2> QED
      BY <1>1, <1>2, <1>3, <1>6, <1>11, <1>14, <1>15, <1>19, <1>20, <2>1 DEF TrainInv, NotStarted
  <1>22. ASSUME Plain PROVE RightInv(F)'
    <2>1. OneWindow /\ HasEdges /\ RightInv(F) /\ Prepared = b - 1
      BY <1>1, <1>3, <1>5, <1>22 DEF Plain, Prepared
    <2>2. cache = F[b] /\ \A i \in DOMAIN gpu : gpu[i] = i
      BY <1>1, <1>11, <2>1 DEF RightInv
    <2>3. rows = Sorted(S)
      BY <1>8, <2>1
    <2>4. saved.cached \subseteq C
      BY <1>6, <1>10 DEF CachedOf
    <2>5. ASSUME NEW i \in saved.cached PROVE Row(i) = i
      <3>1. F[b][saved.slot[i]] = i
        BY <1>9, <1>10, <2>5, CachedRow
      <3>2. i \notin S /\ i \notin dd
        BY <1>7, <1>16, <2>4, <2>5
      <3>3. Row(i) = Advance(b)[saved.slot[i]]
        BY <1>6, <1>7, <1>12, <2>5, <3>2 DEF FileRow
      <3> QED
        BY <1>11, <2>2, <3>1, <3>3
    <2>6. ASSUME NEW i \in S, i \notin saved.cached PROVE Row(i) = i
      <3>1. rows[NthOf(S, i)] = i
        BY <2>3, <2>6, SortedElems
      <3>2. i \notin dd
        BY <1>7, <1>16, <2>6
      <3>3. S = content[b] \ (saved.pre \cup saved.cached)
        BY <1>6, <1>7
      <3>4. Row(i) = files[BlockPath(b, TRUE)][NthOf(S, i)]
        BY <1>12, <2>6, <3>2, <3>3 DEF FileRow
      <3> QED
        BY <1>8, <3>1, <3>4
    <2>7. ASSUME NEW i \in dd, i \notin saved.cached, i \notin S PROVE Row(i) = i
      BY <1>6, <1>7, <1>12, <2>7 DEF FileRow
    <2>8. ASSUME NEW i \in (C \cup M) \ share'.dInd PROVE i \in saved.cached \/ i \in S \/ i \in dd
      BY <1>7, <1>14, <1>16, <2>8
    <2>9. ASSUME NEW i \in DOMAIN share'.feats \ share'.dInd PROVE share'.feats[i] = i
      <3>1. i \in (C \cup M) \ share'.dInd /\ i \in content[b] \cup neg
        BY <1>6, <1>14, <2>9
      <3>2. share'.feats[i] = Row(i)
        BY <1>14, <3>1
      <3> HIDE DEF Row, saved, feats
      <3> QED
        BY <2>5, <2>6, <2>7, <2>8, <3>1, <3>2
    <2>10. Prepared' = b
      BY <1>14, <1>15 DEF Prepared
    <2> QED
      BY <1>14, <1>17, <1>19, <2>2, <2>9, <2>10 DEF RightInv
  <1> QED
    BY <1>18, <1>21, <1>22 DEF Inv

\* The rows that were left are copied on the GPU.
LEMMA AfterStep == ASSUME Inv, PrefetchAfter PROVE Inv'
  <1>1. share # None
    BY DEF PrefetchAfter
  <1>2. /\ curBlock # NotStarted /\ share.at \in Blocks
        /\ DOMAIN share.feats \subseteq Items /\ content[share.at] \subseteq DOMAIN share.feats
    BY <1>1 DEF Inv, TrainInv
  <1>3. nextBlock = Planned /\ bucketFeat \in [Slots -> Feature]
    BY <1>2 DEF Inv, TrainInv
  <1>4. PICK F : PlanInv(F) /\ (Plain => RightInv(F))
    BY DEF Inv
  <1>5. /\ gpu' = [i \in DOMAIN share.feats |-> IF i \in share.dInd THEN GetFeat(i) ELSE share.feats[i]]
        /\ curBlock' = share.at /\ share' = None
        /\ UNCHANGED <<content, kind, dataIncre, planVars, bucketFeat>>
    BY DEF PrefetchAfter
  <1>6. PlanInv(F)' /\ Fixed'
    BY <1>4, <1>5, PlanKept DEF Inv
  <1>7. nextBlock' = nextBlock /\ content' = content /\ bucketFeat' = bucketFeat
    BY <1>5 DEF planVars
  <1>8. share.at \in 0 .. NotStarted /\ share.at # NotStarted
    <2>1. PICK N \in Nat \ {0} : N = NBlocks /\ share.at \in 0 .. N - 1
      BY <1>2, DataFacts
    <2> QED
      BY <2>1 DEF NotStarted
  <1>9. TrainInv'
    BY <1>2, <1>3, <1>5, <1>7, <1>8 DEF TrainInv, NotStarted
  <1>10. ASSUME Plain PROVE RightInv(F)'
    <2>1. RightInv(F) /\ Prepared = share.at /\ Prepared' = share.at
      BY <1>1, <1>4, <1>5, <1>10 DEF Prepared
    <2>2. /\ bucketFeat = F[share.at] /\ \A i \in DOMAIN gpu : gpu[i] = i
          /\ share.dInd \subseteq DOMAIN gpu
          /\ \A i \in DOMAIN share.feats \ share.dInd : share.feats[i] = i
      BY <1>1, <1>2, <2>1 DEF RightInv
    <2>3. \A i \in DOMAIN gpu' : gpu'[i] = i
      BY <1>5, <2>2 DEF GetFeat
    <2> QED
      BY <1>5, <1>7, <2>1, <2>2, <2>3 DEF RightInv
  <1> QED
    BY <1>6, <1>9, <1>10 DEF Inv

\* A step that changes nothing.
LEMMA InvStutters == ASSUME Inv, UNCHANGED vars PROVE Inv'
  <1>1. /\ UNCHANGED <<content, kind, dataIncre, planVars>>
        /\ UNCHANGED <<curBlock, gpu, bucketFeat, share>>
    BY DEF vars, trainVars
  <1>2. PICK F : PlanInv(F) /\ (Plain => RightInv(F))
    BY DEF Inv
  <1>3. PlanInv(F)' /\ Fixed'
    BY <1>1, <1>2, PlanKept DEF Inv
  <1>4. nextBlock' = nextBlock /\ content' = content
    BY <1>1 DEF planVars
  <1>5. TrainInv'
    BY <1>1, <1>4 DEF Inv, TrainInv, NotStarted
  <1>6. Plain => RightInv(F)'
    BY <1>1, <1>2 DEF RightInv, Prepared, NotStarted
  <1> QED
    BY <1>3, <1>5, <1>6 DEF Inv

\* Every step keeps the invariant.
LEMMA NextStep == ASSUME Inv, Unflushed, [Next]_vars PROVE Inv'
  <1>1. CASE PlanBlock
    BY <1>1, BlockStep
  <1>2. CASE PlanPeriod
    BY <1>2, PeriodStep
  <1>3. CASE PlanEnd
    BY <1>3, EndStep
  <1>4. CASE \E neg \in Negatives : LoadPart(neg) \/ PreFetch(neg)
    BY <1>4, LoadStep, PrepareStep
  <1>5. CASE PrefetchAfter
    BY <1>5, AfterStep
  <1>6. CASE Terminated \/ UNCHANGED vars
    BY <1>6, InvStutters DEF Terminated
  <1> QED
    BY <1>1, <1>2, <1>3, <1>4, <1>5, <1>6 DEF Next

----------------------------------------------------------------------------
(* The theorems *)

\* Every behaviour of gen_part_stream, load_part, pre_fetch and prefetch_after keeps the
\* invariant, while the rows that wait stay below his_mem_threshold: beyond it the paths of
\* the rows that were written stay in node_save_paths, and files are written under the
\* names of others.
THEOREM FeatureInductive == ASSUME Unflushed PROVE Spec => []Inv
  <1>1. Init => Inv
    BY InitInv
  <1>2. Inv /\ [Next]_vars => Inv'
    BY NextStep
  <1> QED
    BY <1>1, <1>2, PTL DEF Spec

\* An index has as many items as slots.
LEMMA IndexCount ==
  ASSUME NEW f, IsIndex(f)
  PROVE  DOMAIN f = 1 .. Budget /\ Cardinality(ToSet(f)) = Budget /\ ToSet(f) \subseteq Items
  <1>1. PICK n \in Nat : n = Budget /\ f \in [1 .. n -> Items]
    BY DataFacts DEF IsIndex, Slots
  <1>2. f \in Seq(Items) /\ Len(f) = n /\ DOMAIN f = 1 .. n
    BY <1>1, FunctionIsSeq
  <1>3. Distinct(f)
    BY <1>1, <1>2 DEF IsIndex, Slots, Distinct
  <1>4. Cardinality(Elems(f)) = n
    BY <1>2, <1>3, CountElems
  <1>5. ToSet(f) = Elems(f)
    BY DEF ToSet, Elems
  <1>6. ToSet(f) \subseteq Items
    BY <1>1 DEF ToSet
  <1> QED
    BY <1>1, <1>2, <1>4, <1>5, <1>6

\* The files hold rows of features.
LEMMA FilesTyped ==
  ASSUME NEW F, Plan(content, F, NBlocks, idx, info, mask), Contented,
         Filed(content, F, info, mask, files), NEW p \in DOMAIN files
  PROVE  ToSet(files[p]) \subseteq Feature
  <1>1. p \in FilesOf(mask)
    BY DEF Filed
  <1>2. CASE p = FilePath(0)
    <2>1. files[p] \in Seq(Feature)
      BY <1>2, FileFacts
    <2>2. PICK n \in Nat : files[p] \in [1 .. n -> Feature]
      BY <2>1, SeqDef
    <2> QED
      BY <2>2 DEF ToSet
  <1>3. ASSUME NEW b \in 1 .. NBlocks - 1, p = IncrePath(b) PROVE ToSet(files[p]) \subseteq Feature
    <2>1. PICK S : S = OfFileOf(content, info, b)
      OBVIOUS
    <2>2. files[p] \in [1 .. Cardinality(S) -> Feature]
      BY <1>3, <2>1, BlockFiles
    <2> QED
      BY <2>2 DEF ToSet
  <1>4. ASSUME NEW b \in DOMAIN mask, p = CachePath(b) PROVE ToSet(files[p]) \subseteq Feature
    <2>1. CASE b = 0
      <3>1. files[p] \in [Slots -> Feature]
        BY <1>4, <2>1, FileFacts
      <3> QED
        BY <3>1 DEF ToSet
    <2>2. CASE b # 0
      <3>1. PICK N \in Nat \ {0}, B \in Nat : N = NBlocks /\ B = Budget
        BY DataFacts
      <3>2. b \in 0 .. N - 1 /\ mask[b] \in SUBSET (1 .. B) /\ IsIndex(F[b])
        BY <3>1 DEF Plan, Slots
      <3>3. F[b] \in [1 .. B -> Items]
        BY <3>1, <3>2 DEF IsIndex, Slots
      <3>4. Want(content, F, info, mask, p) = Masked(F[b], mask[b])
        BY <1>4, <2>2, PathFacts DEF Want, CacheRows
      <3>5. PICK n \in Nat : Masked(F[b], mask[b]) \in [1 .. n -> Items]
        <4>1. Cardinality(mask[b]) \in Nat /\ IsMasked(Masked(F[b], mask[b]), F[b], mask[b], Items)
          BY <3>1, <3>2, <3>3, MaskedFacts
        <4> QED
          BY <4>1 DEF IsMasked
      <3>6. files[p] = Extracted(Masked(F[b], mask[b]))
        BY <1>1, <3>4 DEF Filed
      <3>7. files[p] \in [1 .. n -> Feature]
        BY <3>5, <3>6, ExtractedFacts
      <3> QED
        BY <3>7 DEF ToSet
    <2> QED
      BY <2>1, <2>2
  <1> QED
    BY <1>1, <1>2, <1>3, <1>4 DEF FilesOf

\* What the plan so far says of its parts.
LEMMA PlanTyped ==
  ASSUME NEW F, NEW d \in 0 .. NBlocks, Plan(content, F, d, idx, info, mask)
  PROVE  /\ idx = <<>> \/ (DOMAIN idx = 1 .. Budget /\ Cardinality(ToSet(idx)) = Budget)
         /\ ToSet(idx) \subseteq Items
         /\ DOMAIN info = 0 .. d - 1
         /\ \A b \in DOMAIN info : ToSet(info[b].slot) \subseteq 1 .. Budget
         /\ \A b \in DOMAIN mask : mask[b] \subseteq 1 .. Budget
  <1>1. PICK n \in Nat : n = d /\ n \in 0 .. NBlocks
    BY DataFacts
  <1>2. /\ DOMAIN info = 0 .. d - 1 /\ \A b \in DOMAIN mask : mask[b] \subseteq 1 .. Budget
        /\ \A b \in 0 .. d - 1 : IsIndex(F[b]) /\ info[b] = InfoOf(content, b, F[b])
        /\ idx = IF d = 0 THEN <<>> ELSE F[d - 1]
    BY DEF Plan, Slots
  <1>3. idx = <<>> \/ IsIndex(idx)
    BY <1>1, <1>2
  <1>4. /\ idx = <<>> \/ (DOMAIN idx = 1 .. Budget /\ Cardinality(ToSet(idx)) = Budget)
        /\ ToSet(idx) \subseteq Items
    <2>1. CASE idx = <<>>
      BY <2>1 DEF ToSet
    <2>2. CASE IsIndex(idx)
      BY <2>2, IndexCount
    <2> QED
      BY <1>3, <2>1, <2>2
  <1>5. ASSUME NEW b \in DOMAIN info PROVE ToSet(info[b].slot) \subseteq 1 .. Budget
    <2>1. IsIndex(F[b]) /\ info[b] = InfoOf(content, b, F[b])
      BY <1>2
    <2>2. DOMAIN InfoOf(content, b, F[b]).slot = CachedOf(content, b, F[b])
      BY DEF InfoOf
    <2>3. \A i \in CachedOf(content, b, F[b]) : InfoOf(content, b, F[b]).slot[i] \in Slots
      BY <2>1, CachedRow
    <2> QED
      BY <2>1, <2>2, <2>3 DEF ToSet, Slots
  <1> QED
    BY <1>2, <1>4, <1>5

\* The parts of the invariant give the types.
LEMMA InvTyped == ASSUME Inv PROVE FeatureTypeOK
  <1>1. PICK F : PlanInv(F)
    BY DEF Inv
  <1>2. PICK d \in 0 .. NBlocks : /\ d = (IF nextBlock = Planned THEN NBlocks ELSE bucketStart)
                                  /\ Plan(content, F, d, idx, info, mask)
    <2>1. CASE nextBlock = Planned
      <3>1. NBlocks \in 0 .. NBlocks
        BY DataFacts
      <3> QED
        BY <1>1, <2>1, <3>1 DEF PlanInv
    <2>2. CASE nextBlock # Planned
      BY <1>1, <2>2 DEF PlanInv
    <2> QED
      BY <2>1, <2>2
  <1>3. content \in Contents /\ kind \in {"node", "edge"} /\ dataIncre \in BOOLEAN
    BY DEF Inv, Fixed
  <1>4. nextBlock \in 0 .. Planned /\ bucketStart \in 0 .. NBlocks /\ periods \in 0 .. NEdges
    BY <1>1 DEF PlanInv
  <1>5. \A k \in DOMAIN his : ToSet(his[k]) \subseteq Items
    <2>1. his \in Seq(Rows)
      BY <1>1 DEF PlanInv
    <2>2. ASSUME NEW k \in DOMAIN his PROVE ToSet(his[k]) \subseteq Items
      <3>1. PICK n \in Nat : his \in [1 .. n -> Rows]
        BY <2>1, SeqDef
      <3>2. his[k] \in Seq(Items)
        BY <3>1, <2>2 DEF Rows
      <3>3. PICK m \in Nat : his[k] \in [1 .. m -> Items]
        BY <3>2, SeqDef
      <3> QED
        BY <3>3 DEF ToSet
    <2> QED
      BY <2>2
  <1>6. \A p \in DOMAIN files : ToSet(files[p]) \subseteq Feature
    <2>1. CASE nextBlock = Planned
      <3>1. Contented /\ Plan(content, F, NBlocks, idx, info, mask) /\ Filed(content, F, info, mask, files)
        BY <1>1, <2>1, ContentFacts DEF Inv, PlanInv
      <3> QED
        BY <3>1, FilesTyped
    <2>2. CASE nextBlock # Planned
      BY <1>1, <2>2 DEF PlanInv
    <2> QED
      BY <2>1, <2>2
  <1>7. curBlock \in 0 .. NotStarted /\ DOMAIN gpu \subseteq Items /\ ToSet(bucketFeat) \subseteq Feature
    <2>1. CASE curBlock = NotStarted
      BY <2>1 DEF Inv, TrainInv, ToSet
    <2>2. CASE curBlock # NotStarted
      <3>1. /\ curBlock \in 0 .. NotStarted /\ DOMAIN gpu \subseteq Items
            /\ bucketFeat \in [Slots -> Feature]
        BY <2>2 DEF Inv, TrainInv
      <3> QED
        BY <3>1 DEF ToSet
    <2> QED
      BY <2>1, <2>2
  <1> QED
    BY <1>2, <1>3, <1>4, <1>5, <1>6, <1>7, PlanTyped DEF FeatureTypeOK

\* No plan names a slot, a block or an item that is not there, no file holds anything but
\* rows of the feature file (or what stands between two of them), and the index has an item
\* for each slot.
THEOREM FeaturesTyped == ASSUME Unflushed PROVE Spec => []FeatureTypeOK
  <1>1. Inv => FeatureTypeOK
    BY InvTyped
  <1> QED
    BY <1>1, FeatureInductive, PTL

\* In one window and with edge features the rows are those that were planned.
LEMMA RightRows == ASSUME Inv, OneWindow, HasEdges PROVE FeaturesRight /\ CacheFollowsPlan
  <1>1. PICK F : PlanInv(F) /\ RightInv(F)
    BY DEF Inv, Plain
  <1>2. FeaturesRight
    <2>1. CASE curBlock = NotStarted
      BY <2>1 DEF Inv, TrainInv, FeaturesRight
    <2>2. CASE curBlock # NotStarted
      BY <1>1, <2>2 DEF RightInv, FeaturesRight
    <2> QED
      BY <2>1, <2>2
  <1>3. ASSUME curBlock # NotStarted, NEW b, b = Prepared, b \in DOMAIN info, NEW i \in info[b].cached
        PROVE  bucketFeat[info[b].slot[i]] = i
    <2>1. nextBlock = Planned
      BY <1>3 DEF Inv, TrainInv
    <2>2. Plan(content, F, NBlocks, idx, info, mask)
      BY <1>1, <2>1 DEF PlanInv
    <2>3. IsIndex(F[b]) /\ info[b] = InfoOf(content, b, F[b])
      BY <1>3, <2>2 DEF Plan
    <2>4. info[b].cached = CachedOf(content, b, F[b])
      BY <2>3 DEF InfoOf
    <2>5. F[b][info[b].slot[i]] = i
      BY <1>3, <2>3, <2>4, CachedRow
    <2>6. bucketFeat = F[b]
      BY <1>1, <1>3 DEF RightInv
    <2> QED
      BY <2>5, <2>6
  <1> QED
    BY <1>2, <1>3 DEF CacheFollowsPlan, Prepared

\* Every item on the GPU has its own feature, from whichever of the file, the cache, the GPU
\* and the store its row came (what err_detection in get_n_feat compares).  A file of more
\* windows is read from the wrong places, and without edge features the worker keeps the
\* cache of the first period: the runs feature_cache_windows and feature_cache_no_edges.
THEOREM FeaturesOfItems ==
  ASSUME Unflushed, OneWindow, HasEdges PROVE Spec => []FeaturesRight
  <1>1. Inv => FeaturesRight
    BY RightRows
  <1> QED
    BY <1>1, FeatureInductive, PTL

\* The worker's cache is the one the block it prepares was planned with: pre_fetch replaces
\* it with exactly the first block of each period, and puts each row into the slot that
\* node_cache_indices names.
THEOREM CacheAsPlanned ==
  ASSUME Unflushed, OneWindow, HasEdges PROVE Spec => []CacheFollowsPlan
  <1>1. Inv => CacheFollowsPlan
    BY RightRows
  <1> QED
    BY <1>1, FeatureInductive, PTL

----------------------------------------------------------------------------
(* The files suffice *)

\* Every file the worker opens is there, with a row for each item of a block that it has
\* to find in the file, and for each slot of the cache it has to replace.
FilesSuffice ==
  nextBlock = Planned =>
    /\ BlockPath(0, FALSE) \in DOMAIN files /\ CachePath(0) \in DOMAIN files
    /\ Len(files[BlockPath(0, FALSE)]) = Cardinality(content[0])
    /\ Len(files[CachePath(0)]) = Budget
    /\ \A b \in 1 .. NBlocks - 1 :
         LET rest == content[b] \ (info[b].pre \cup info[b].cached)
         IN  /\ BlockPath(b, TRUE) \in DOMAIN files
             /\ Len(files[BlockPath(b, TRUE)]) = Cardinality(rest)
    /\ \A b \in DOMAIN mask \ {0} :
         CachePath(b) \in DOMAIN files /\ Len(files[CachePath(b)]) = Cardinality(mask[b])

\* What is extracted has as many rows.
LEMMA ExtractedLen ==
  ASSUME NEW n \in Nat, NEW rows \in [1 .. n -> Items]
  PROVE  Len(Extracted(rows)) = n
  <1>1. Extracted(rows) \in [1 .. n -> Feature]
    BY ExtractedFacts
  <1> QED
    BY <1>1, FunctionIsSeq

\* A sorted set of items, extracted, has a row for each item.
LEMMA SortedLen ==
  ASSUME NEW S \in SUBSET Items
  PROVE  Len(Extracted(Sorted(S))) = Cardinality(S)
  <1>1. PICK n \in Nat : n = Cardinality(S) /\ Sorted(S) \in [1 .. n -> S]
    BY SortedRows
  <1>2. Sorted(S) \in [1 .. n -> Items]
    BY <1>1
  <1> QED
    BY <1>1, <1>2, ExtractedLen

\* What the files were made from gives their lengths: the items of the block that the file is
\* for, the slots of the budget, the slots of the mask.
LEMMA InvSuffices == ASSUME Inv PROVE FilesSuffice
  <1> SUFFICES ASSUME nextBlock = Planned PROVE FilesSuffice
    BY DEF FilesSuffice
  <1>1. PICK F : /\ Plan(content, F, NBlocks, idx, info, mask)
                 /\ Filed(content, F, info, mask, files)
    BY Trained
  <1>2. Contented
    BY Trained
  <1>3. DOMAIN files = FilesOf(mask) /\ \A p \in FilesOf(mask) :
          files[p] = Extracted(Want(content, F, info, mask, p))
    BY <1>1 DEF Filed
  <1>4. PICK N \in Nat \ {0}, B \in Nat : N = NBlocks /\ B = Budget
    BY DataFacts
  <1>5. 0 \in 0 .. N - 1 /\ N > 0
    BY <1>4
  <1>6. 0 \in DOMAIN mask /\ IsIndex(F[0]) /\ info[0] = InfoOf(content, 0, F[0])
    BY <1>1, <1>4, <1>5 DEF Plan
  <1>7. FilePath(0) \in DOMAIN files /\ CachePath(0) \in DOMAIN files
    BY <1>3, <1>6 DEF FilesOf
  <1>8. Len(files[FilePath(0)]) = Cardinality(content[0])
    <2>1. info[0].pre = {} /\ info[0].cached = {}
      BY <1>6 DEF InfoOf, PreOf, CachedOf
    <2>2. OfFileOf(content, info, 0) = content[0] /\ content[0] \in SUBSET Items
      BY <1>2, <2>1, DataFacts DEF OfFileOf, Contented
    <2>3. Want(content, F, info, mask, FilePath(0)) = Sorted(content[0])
      BY <2>2, PathFacts DEF Want
    <2> QED
      BY <1>3, <1>7, <2>2, <2>3, SortedLen
  <1>9. Len(files[CachePath(0)]) = Budget
    <2>1. Want(content, F, info, mask, CachePath(0)) = F[0]
      BY PathFacts DEF Want, CacheRows
    <2>2. F[0] \in [1 .. B -> Items]
      BY <1>4, <1>6 DEF IsIndex, Slots
    <2> QED
      BY <1>3, <1>4, <1>7, <2>1, <2>2, ExtractedLen
  <1>10. ASSUME NEW b \in 1 .. NBlocks - 1, NEW S, S = content[b] \ (info[b].pre \cup info[b].cached)
         PROVE  IncrePath(b) \in DOMAIN files /\ Len(files[IncrePath(b)]) = Cardinality(S)
    <2>1. S = OfFileOf(content, info, b)
      BY <1>10 DEF OfFileOf
    <2>2. S \in SUBSET Items
      BY <1>1, <1>2, <2>1, BlockFiles
    <2>3. IncrePath(b) \in FilesOf(mask)
      BY DEF FilesOf
    <2>4. Want(content, F, info, mask, IncrePath(b)) = Sorted(S)
      BY <2>1, PathFacts DEF Want
    <2> QED
      BY <1>3, <2>2, <2>3, <2>4, SortedLen
  <1>11. ASSUME NEW b \in DOMAIN mask \ {0}
         PROVE  CachePath(b) \in DOMAIN files /\ Len(files[CachePath(b)]) = Cardinality(mask[b])
    <2>1. CachePath(b) \in FilesOf(mask)
      BY DEF FilesOf
    <2>2. b \in 0 .. N - 1 /\ mask[b] \in SUBSET (1 .. B) /\ IsIndex(F[b])
      BY <1>1, <1>4, <1>11 DEF Plan, Slots
    <2>3. F[b] \in [1 .. B -> Items]
      BY <1>4, <2>2 DEF IsIndex, Slots
    <2>4. Want(content, F, info, mask, CachePath(b)) = Masked(F[b], mask[b])
      BY <1>11, PathFacts DEF Want, CacheRows
    <2>5. PICK n \in Nat : n = Cardinality(mask[b]) /\ Masked(F[b], mask[b]) \in [1 .. n -> Items]
      <3>1. Cardinality(mask[b]) \in Nat /\ IsMasked(Masked(F[b], mask[b]), F[b], mask[b], Items)
        BY <1>4, <2>2, <2>3, MaskedFacts
      <3> QED
        BY <3>1 DEF IsMasked
    <2> QED
      BY <1>3, <2>1, <2>4, <2>5, ExtractedLen
  <1> QED
    BY <1>7, <1>8, <1>9, <1>10, <1>11 DEF FilesSuffice, FilePath, IncrePath

\* pre_fetch and load_part find their files, with the rows they expect, however many windows
\* the feature file has: no block stops the worker.
THEOREM FilesAreThere == ASSUME Unflushed PROVE Spec => []FilesSuffice
  <1>1. Inv => FilesSuffice
    BY InvSuffices
  <1> QED
    BY <1>1, FeatureInductive, PTL

----------------------------------------------------------------------------
(* The slots *)

\* The index is empty or has an item in each slot; an item that stays keeps its slot.
IndexInv == idx = <<>> \/ IsIndex(idx)
KeepSlots == \A s \in DOMAIN idx : idx[s] \in ToSet(idx') => idx'[s] = idx[s]

\* What the end of a period does to the index.
LEMMA MergeKeeps ==
  ASSUME IndexInv, NEW cache \in Hottest, idx' = Merge(cache)
  PROVE  IndexInv' /\ KeepSlots
  <1>1. IsIndex(cache)
    BY HottestFacts
  <1>2. CASE idx = <<>>
    <2>1. idx' = cache
      BY <1>1, <1>2, FirstCache
    <2> QED
      BY <1>1, <1>2, <2>1 DEF IndexInv, KeepSlots
  <1>3. CASE IsIndex(idx)
    <2>1. /\ Replaced(idx', idx, Gone(cache), Incre(cache))
          /\ IsIndex(idx') /\ ToSet(idx') \subseteq ToSet(cache)
      BY <1>1, <1>3, LaterCache
    <2>2. ASSUME NEW s \in DOMAIN idx, idx[s] \in ToSet(idx') PROVE idx'[s] = idx[s]
      <3>1. s \notin Gone(cache)
        BY <2>1, <2>2 DEF Gone
      <3>2. s \in Slots
        BY <1>3, <2>2 DEF IsIndex
      <3> QED
        BY <2>1, <3>1, <3>2 DEF Replaced
    <2>3. IndexInv'
      BY <2>1 DEF IndexInv
    <2> QED
      BY <2>2, <2>3 DEF KeepSlots
  <1> QED
    BY <1>2, <1>3 DEF IndexInv

\* No other step changes the index.
LEMMA SlotsStep == ASSUME IndexInv, [Next]_vars PROVE IndexInv' /\ KeepSlots
  <1>1. ASSUME idx' = idx PROVE IndexInv' /\ KeepSlots
    BY <1>1 DEF IndexInv, KeepSlots
  <1>2. CASE PlanPeriod
    <2>1. PICK cache \in Hottest : idx' = Merge(cache)
      BY <1>2 DEF PlanPeriod, ClosePeriod
    <2> QED
      BY <2>1, MergeKeeps
  <1>3. CASE PlanEnd
    <2>1. PICK cache \in Hottest : idx' = Merge(cache)
      BY <1>3 DEF PlanEnd, ClosePeriod
    <2> QED
      BY <2>1, MergeKeeps
  <1>4. CASE PlanBlock
    BY <1>1, <1>4 DEF PlanBlock
  <1>5. CASE \E neg \in Negatives : LoadPart(neg) \/ PreFetch(neg)
    BY <1>1, <1>5 DEF LoadPart, PreFetch, planVars
  <1>6. CASE PrefetchAfter
    BY <1>1, <1>6 DEF PrefetchAfter, planVars
  <1>7. CASE Terminated \/ UNCHANGED vars
    BY <1>1, <1>7 DEF Terminated, vars, planVars
  <1> QED
    BY <1>2, <1>3, <1>4, <1>5, <1>6, <1>7 DEF Next

\* An item that stays in the cache over the end of a period keeps its slot, whatever is
\* chosen for the cache and however many rows wait (gen_part_stream, pre_notin_cur).
THEOREM SlotsKept == Spec => ItemsKeepSlots
  <1>1. Init => IndexInv
    BY DEF Init, IndexInv
  <1>2. IndexInv /\ [Next]_vars => IndexInv' /\ KeepSlots
    BY SlotsStep
  <1>3. Spec => []IndexInv
    BY <1>1, <1>2, PTL DEF Spec
  <1>4. Spec => [][KeepSlots]_vars
    BY <1>2, <1>3, PTL DEF Spec
  <1> QED
    BY <1>4, PTL DEF ItemsKeepSlots, KeepSlots
=============================================================================
