----------------------- MODULE TrainingBatchesProofs -----------------------
(***************************************************************************)
(* Proofs about the batches of training: the list of batches has every     *)
(* edge once, an adaptive batch is as stale as it must be and no longer    *)
(* than that needs, and what training reads, stores and samples fits the   *)
(* batch and the block it is at.                                           *)
(*                                                                         *)
(* First the two loops of the adaptive split, as functions on sequences;   *)
(* then the invariant, one lemma per action, and what follows from it.     *)
(***************************************************************************)
EXTENDS TrainingBatches, DataLemmas

\* In ascending order.
Increasing(s) == \A i, j \in DOMAIN s : i < j => s[i] < s[j]

\* What the lemmas about the lists need of the settings.
Settings == ends \in [Edges -> Nodes \X Nodes] /\ threshold \in Nat

----------------------------------------------------------------------------
(* Deleting by position *)

\* Without deletes the positions collected, whatever shift the deletions cause.
LEMMA WithoutTaken ==
  ASSUME NEW S, NEW rest \in Seq(S), Distinct(rest),
         NEW taken \in Seq(1 .. Len(rest)), Increasing(taken)
  PROVE  LET w == Without(rest, taken) IN
         /\ w \in Seq(S) /\ Distinct(w)
         /\ Elems(w) = Elems(rest) \ { rest[taken[i]] : i \in DOMAIN taken }
  <1>0. PICK N \in Nat, R \in Nat : N = Len(taken) /\ R = Len(rest)
    BY LenProperties
  <1> DEFINE gone(i) == { rest[taken[j]] : j \in { k \in DOMAIN taken : k > N - i } }
             step == [p \in Seq(S) \X (1 .. N) |->
                        IF taken[N - p[2] + 1] \in 1 .. Len(p[1])
                        THEN RemoveAt(p[1], taken[N - p[2] + 1]) ELSE p[1]]
  <1>1. /\ DOMAIN taken = 1 .. N /\ DOMAIN rest = 1 .. R
        /\ \A i \in 1 .. N : taken[i] \in 1 .. R
    BY <1>0, LenProperties, ElementOfSeq
  <1>2. step \in BoundedSteps(Seq(S), N)
    <2>1. ASSUME NEW p \in Seq(S) \X (1 .. N)
          PROVE  (IF taken[N - p[2] + 1] \in 1 .. Len(p[1])
                  THEN RemoveAt(p[1], taken[N - p[2] + 1]) ELSE p[1]) \in Seq(S)
      <3>1. p[1] \in Seq(S)
        OBVIOUS
      <3> QED
        BY <3>1, RemoveOne
    <2> QED
      BY <2>1 DEF BoundedSteps
  <1>3. PICK f \in [0 .. N -> Seq(S)] :
          f[0] = rest /\ \A k \in 1 .. N : f[k] = step[<<f[k - 1], k>>]
    <2> HIDE DEF step
    <2>1. PICK f : IsComputed(f, Seq(S), N, rest, step)
      BY <1>2, BoundedRecursion
    <2> QED
      BY <2>1 DEF IsComputed
  <1>4. f[0] = rest
    BY <1>3
  <1>5. ASSUME NEW k \in 1 .. N
        PROVE  f[k] = IF taken[N - k + 1] \in 1 .. Len(f[k - 1])
                      THEN RemoveAt(f[k - 1], taken[N - k + 1]) ELSE f[k - 1]
    <2>1. k \in 0 .. N /\ k # 0 /\ k - 1 \in 0 .. N
      BY <1>1
    <2>2. f[k] = step[<<f[k - 1], k>>]
      <3> HIDE DEF step
      <3> QED
        BY <1>3, <2>1
    <2>3. <<f[k - 1], k>> \in Seq(S) \X (1 .. N)
      BY <2>1
    <2> QED
      BY <2>2, <2>3
  <1> HIDE DEF step
  <1> DEFINE G == { i \in 0 .. N :
                      /\ Len(f[i]) = R - i /\ Distinct(f[i])
                      /\ Elems(f[i]) = Elems(rest) \ gone(i)
                      /\ i < N => /\ taken[N - i] \in 1 .. R - i
                                  /\ \A p \in 1 .. taken[N - i] : f[i][p] = rest[p] }
  <1>6. 0 \in G
    <2>1. gone(0) = {}
      BY <1>1
    <2>2. N - 0 = N /\ R - 0 = R /\ 0 \in 0 .. N
      BY <1>1
    <2> QED
      BY <1>1, <1>4, <2>1, <2>2
  <1>7. ASSUME NEW i \in 0 .. N - 1, i \in G
        PROVE  i + 1 \in G
    <2>0. PICK q \in Nat : q = taken[N - i] /\ q >= 1
      BY <1>1
    <2>1. i + 1 \in 1 .. N /\ N - (i + 1) + 1 = N - i /\ (i + 1) - 1 = i /\ i \in 0 .. N
          /\ N - i \in 1 .. N /\ i < N
      BY <1>1
    <2>2. q \in 1 .. Len(f[i]) /\ Len(f[i]) = R - i
      BY <1>7, <2>0, <2>1
    <2>3. f[i + 1] = RemoveAt(f[i], q)
      BY <1>5, <2>0, <2>1, <2>2
    <2>4. f[i] \in Seq(S)
      BY <2>1
    <2>12. /\ Len(RemoveAt(f[i], q)) = Len(f[i]) - 1
           /\ \A j \in 1 .. Len(f[i]) - 1 :
                RemoveAt(f[i], q)[j] = IF j < q THEN f[i][j] ELSE f[i][j + 1]
      <3> QED
        BY <2>2, <2>4, RemoveOne
    <2>5. /\ Len(f[i + 1]) = R - (i + 1)
          /\ \A j \in 1 .. R - i - 1 : f[i + 1][j] = IF j < q THEN f[i][j] ELSE f[i][j + 1]
      <3>1. Len(f[i]) - 1 = R - (i + 1) /\ R - i - 1 = Len(f[i]) - 1
        BY <1>1, <2>1, <2>2
      <3> QED
        BY <2>3, <2>12, <3>1
    <2>6. Distinct(f[i + 1]) /\ Elems(f[i + 1]) = Elems(f[i]) \ {f[i][q]}
      <3>1. Distinct(f[i])
        BY <1>7
      <3> QED
        BY <2>2, <2>3, <2>4, <3>1, RemoveDistinct
    <2>7. f[i][q] = rest[taken[N - i]]
      <3>1. q \in 1 .. q
        BY <1>1, <2>2
      <3> QED
        BY <1>7, <2>0, <2>1, <3>1
    <2>8. gone(i + 1) = gone(i) \cup {rest[taken[N - i]]}
      <3>1. { k \in DOMAIN taken : k > N - (i + 1) } =
              { k \in DOMAIN taken : k > N - i } \cup {N - i}
        <4>1. \A k \in 1 .. N : k > N - (i + 1) <=> k > N - i \/ k = N - i
          BY <1>1
        <4> QED
          BY <1>1, <2>1, <4>1
      <3> QED
        BY <3>1
    <2>9. Elems(f[i + 1]) = Elems(rest) \ gone(i + 1)
      BY <1>7, <2>6, <2>7, <2>8
    <2>10. ASSUME i + 1 < N
           PROVE  /\ taken[N - (i + 1)] \in 1 .. R - (i + 1)
                  /\ \A p \in 1 .. taken[N - (i + 1)] : f[i + 1][p] = rest[p]
      <3>1. N - (i + 1) \in 1 .. N /\ N - (i + 1) < N - i
        BY <1>1, <2>10
      <3>2. taken[N - (i + 1)] < q /\ taken[N - (i + 1)] \in 1 .. R
        BY <1>1, <2>0, <2>1, <3>1 DEF Increasing
      <3>3. q \in 1 .. R - i
        BY <1>1, <2>2
      <3>4. ASSUME NEW p \in 1 .. taken[N - (i + 1)]
            PROVE  f[i + 1][p] = rest[p]
        <4>1. p \in 1 .. R - i - 1 /\ p < q /\ p \in 1 .. q
          BY <1>1, <3>2, <3>3
        <4>2. f[i][p] = rest[p]
          BY <1>7, <2>0, <2>1, <4>1
        <4>3. f[i + 1][p] = f[i][p]
          BY <2>5, <4>1
        <4> QED
          BY <4>2, <4>3
      <3>5. taken[N - (i + 1)] \in 1 .. R - (i + 1)
        BY <3>2, <3>3
      <3> QED
        BY <3>4, <3>5
    <2>11. i + 1 \in 0 .. N
      BY <2>1
    <2> HIDE DEF gone
    <2> QED
      BY <2>5, <2>6, <2>9, <2>10, <2>11
  <1>8. \A i \in 0 .. N : i \in G
    <2> HIDE DEF G
    <2> QED
      BY <1>1, <1>6, <1>7, BoundedInduction
  <1>9. ASSUME NEW k \in 1 .. N
        PROVE  f[k] = RemoveAt(f[k - 1], taken[N - k + 1])
    <2>1. k - 1 \in 0 .. N /\ k - 1 < N /\ N - (k - 1) = N - k + 1
      BY <1>1
    <2>2. k - 1 \in G
      BY <1>8, <2>1
    <2> QED
      BY <1>5, <2>1, <2>2
  <1>10. f = [k \in 0 .. N |-> IF k = 0 THEN rest ELSE RemoveAt(f[k - 1], taken[N - k + 1])]
    <2> HIDE DEF G
    <2> QED
      BY <1>4, <1>9
  <1> DEFINE Deletes(d) == d = [k \in 0 .. N |-> IF k = 0 THEN rest
                                               ELSE RemoveAt(d[k - 1], taken[N - k + 1])]
             d == CHOOSE d : Deletes(d)
  <1>11. Deletes(d)
    <2>1. Deletes(f)
      BY <1>10
    <2> HIDE DEF Deletes
    <2> QED
      BY <2>1
  <1>12. Without(rest, taken) = d[N]
    BY <1>0 DEF Without
  <1>13. \A i \in 0 .. N : d[i] = f[i]
    <2> DEFINE E == { i \in 0 .. N : d[i] = f[i] }
    <2>1. 0 \in E
      <3>1. 0 \in 0 .. N
        BY <1>1
      <3>2. d[0] = rest
        <4> HIDE DEF d
        <4> QED
          BY <1>11, <3>1
      <3> QED
        BY <1>4, <3>1, <3>2
    <2>2. ASSUME NEW i \in 0 .. N - 1, i \in E
          PROVE  i + 1 \in E
      <3>1. i + 1 \in 0 .. N /\ i + 1 # 0 /\ (i + 1) - 1 = i /\ i + 1 \in 1 .. N
        BY <1>1
      <3>2. d[i + 1] = RemoveAt(d[i], taken[N - (i + 1) + 1])
        <4> HIDE DEF d
        <4> QED
          BY <1>11, <3>1
      <3>3. f[i + 1] = RemoveAt(f[i], taken[N - (i + 1) + 1])
        BY <1>9, <3>1
      <3> QED
        BY <2>2, <3>1, <3>2, <3>3
    <2>3. \A i \in 0 .. N : i \in E
      <3> HIDE DEF E, d
      <3> QED
        BY <1>1, <2>1, <2>2, BoundedInduction
    <2> QED
      BY <2>3
  <1>14. N \in 0 .. N /\ N \in G
    <2>1. N \in 0 .. N
      BY <1>1
    <2> HIDE DEF G
    <2> QED
      BY <1>8, <2>1
  <1>15. gone(N) = { rest[taken[i]] : i \in DOMAIN taken }
    <2>1. { k \in DOMAIN taken : k > N - N } = DOMAIN taken
      BY <1>1
    <2> QED
      BY <2>1
  <1>16. Without(rest, taken) = f[N]
    BY <1>12, <1>13, <1>14
  <1>17. f[N] \in Seq(S)
    BY <1>14
  <1> HIDE DEF gone
  <1> QED
    BY <1>14, <1>15, <1>16, <1>17

\* Edges of s from a node to itself.
Loops(s) == Cardinality({ k \in DOMAIN s : Src(s[k]) = Dst(s[k]) })

----------------------------------------------------------------------------
(* Counting end points *)

\* End points are nodes, and finitely many.
LEMMA EndsFinite ==
  ASSUME Settings, NEW s \in Seq(Edges)
  PROVE  /\ IsFiniteSet(EndPoints(s)) /\ EndPoints(s) \subseteq Nodes
         /\ Cardinality(EndPoints(s)) \in Nat /\ Staleness(s) \in Int /\ Loops(s) \in Nat
  <1>1. Len(s) \in Nat /\ DOMAIN s = 1 .. Len(s) /\ \A i \in 1 .. Len(s) : s[i] \in Edges
    BY LenProperties, ElementOfSeq
  <1>2. \A e \in Edges : Src(e) \in Nodes /\ Dst(e) \in Nodes
    BY DEF Src, Dst, Settings
  <1> DEFINE A == { Src(s[i]) : i \in 1 .. Len(s) }
             B == { Dst(s[i]) : i \in 1 .. Len(s) }
             L == { k \in DOMAIN s : Src(s[k]) = Dst(s[k]) }
  <1>3. IsFiniteSet(1 .. Len(s))
    BY <1>1, FS_Interval
  <1>4. IsFiniteSet(A) /\ IsFiniteSet(B)
    <2> DEFINE f == [i \in 1 .. Len(s) |-> Src(s[i])]
               g == [i \in 1 .. Len(s) |-> Dst(s[i])]
    <2>1. f \in Surjection(1 .. Len(s), A) /\ g \in Surjection(1 .. Len(s), B)
      BY DEF Surjection
    <2> HIDE DEF f, g, A, B
    <2> QED
      BY <1>3, <2>1, FS_Surjection
  <1>5. EndPoints(s) = A \cup B
    BY <1>1 DEF EndPoints
  <1>6. EndPoints(s) \subseteq Nodes
    BY <1>1, <1>2, <1>5
  <1>7. IsFiniteSet(EndPoints(s))
    <2> HIDE DEF A, B
    <2> QED
      BY <1>4, <1>5, FS_Union
  <1>8. L \subseteq 1 .. Len(s)
    BY <1>1
  <1>9. Loops(s) \in Nat
    <2>1. IsFiniteSet(L)
      <3> HIDE DEF L
      <3> QED
        BY <1>3, <1>8, FS_Subset
    <2> QED
      BY <2>1, FS_CardinalityType DEF Loops
  <1>10. Cardinality(EndPoints(s)) \in Nat
    BY <1>7, FS_CardinalityType
  <1> QED
    BY <1>1, <1>6, <1>7, <1>9, <1>10 DEF Staleness

\* End points of two lists.
LEMMA EndsOfConcat ==
  ASSUME NEW s \in Seq(Edges), NEW t \in Seq(Edges)
  PROVE  EndPoints(s \o t) = EndPoints(s) \cup EndPoints(t)
  <1>1. PICK m \in Nat, n \in Nat : m = Len(s) /\ n = Len(t)
    BY LenProperties
  <1>2. DOMAIN s = 1 .. m /\ DOMAIN t = 1 .. n
    BY <1>1, LenProperties
  <1>3. /\ s \o t \in Seq(Edges) /\ Len(s \o t) = m + n /\ DOMAIN (s \o t) = 1 .. m + n
        /\ \A i \in 1 .. m + n : (s \o t)[i] = IF i <= m THEN s[i] ELSE t[i - m]
    BY <1>1, ConcatProperties, LenProperties
  <1>4. \A i \in 1 .. m : i \in 1 .. m + n /\ (s \o t)[i] = s[i]
    BY <1>3
  <1>5. \A i \in 1 .. n : m + i \in 1 .. m + n /\ (s \o t)[m + i] = t[i]
    <2> SUFFICES ASSUME NEW i \in 1 .. n
                 PROVE  m + i \in 1 .. m + n /\ (s \o t)[m + i] = t[i]
      OBVIOUS
    <2>1. m + i \in 1 .. m + n /\ ~(m + i <= m) /\ (m + i) - m = i
      OBVIOUS
    <2> QED
      BY <1>3, <2>1
  <1>6. ASSUME NEW x \in EndPoints(s \o t)
        PROVE  x \in EndPoints(s) \cup EndPoints(t)
    <2>1. PICK i \in 1 .. m + n : x \in {Src((s \o t)[i]), Dst((s \o t)[i])}
      BY <1>3 DEF EndPoints
    <2>2. CASE i <= m
      <3>1. i \in 1 .. m
        BY <2>2
      <3>2. (s \o t)[i] = s[i]
        BY <1>4, <3>1
      <3> QED
        BY <1>2, <2>1, <3>1, <3>2 DEF EndPoints
    <2>3. CASE ~(i <= m)
      <3>1. i - m \in 1 .. n /\ (s \o t)[i] = t[i - m]
        BY <1>3, <2>3
      <3> QED
        BY <1>2, <2>1, <3>1 DEF EndPoints
    <2> QED
      BY <2>2, <2>3
  <1>7. ASSUME NEW x \in EndPoints(s) PROVE x \in EndPoints(s \o t)
    <2>1. PICK i \in 1 .. m : x \in {Src(s[i]), Dst(s[i])}
      BY <1>2, <1>7 DEF EndPoints
    <2> QED
      BY <1>3, <1>4, <2>1 DEF EndPoints
  <1>8. ASSUME NEW x \in EndPoints(t) PROVE x \in EndPoints(s \o t)
    <2>1. PICK i \in 1 .. n : x \in {Src(t[i]), Dst(t[i])}
      BY <1>2, <1>8 DEF EndPoints
    <2> QED
      BY <1>3, <1>5, <2>1 DEF EndPoints
  <1> QED
    BY <1>6, <1>7, <1>8

\* A longer list has no fewer loops.
LEMMA LoopsOfConcat ==
  ASSUME Settings, NEW s \in Seq(Edges), NEW t \in Seq(Edges)
  PROVE  Loops(s) <= Loops(s \o t)
  <1>1. PICK m \in Nat, n \in Nat : m = Len(s) /\ n = Len(t)
    BY LenProperties
  <1>2. DOMAIN s = 1 .. m
    BY <1>1, LenProperties
  <1>3. /\ DOMAIN (s \o t) = 1 .. m + n
        /\ \A i \in 1 .. m + n : (s \o t)[i] = IF i <= m THEN s[i] ELSE t[i - m]
    BY <1>1, ConcatProperties, LenProperties
  <1> DEFINE A == { k \in DOMAIN s : Src(s[k]) = Dst(s[k]) }
             B == { k \in DOMAIN (s \o t) : Src((s \o t)[k]) = Dst((s \o t)[k]) }
  <1>4. A \subseteq B
    <2>1. \A i \in 1 .. m : i \in 1 .. m + n /\ (s \o t)[i] = s[i]
      BY <1>3
    <2> QED
      BY <1>2, <1>3, <2>1
  <1>5. IsFiniteSet(B)
    <2>1. IsFiniteSet(1 .. m + n) /\ B \subseteq 1 .. m + n
      BY <1>3, FS_Interval
    <2> HIDE DEF B
    <2> QED
      BY <2>1, FS_Subset
  <1>6. Cardinality(A) <= Cardinality(B)
    <2> HIDE DEF A, B
    <2> QED
      BY <1>4, <1>5, FS_Subset
  <1> QED
    BY <1>6 DEF Loops

\* One edge more: the staleness grows by the end points that are not new, and
\* the count of calculate_delta is one short for a new node with an edge to itself.
LEMMA AppendStaleness ==
  ASSUME Settings, NEW s \in Seq(Edges), NEW e \in Edges
  PROVE  /\ Append(s, e) \in Seq(Edges) /\ Len(Append(s, e)) = Len(s) + 1
         /\ EndPoints(Append(s, e)) = EndPoints(s) \cup {Src(e), Dst(e)}
         /\ Delta(e, EndPoints(s)) \in 0 .. 2
         /\ Staleness(s) + Delta(e, EndPoints(s)) <= Staleness(Append(s, e))
         /\ Staleness(Append(s, e)) - Loops(Append(s, e)) <=
              Staleness(s) + Delta(e, EndPoints(s)) - Loops(s)
  <1>1. PICK n \in Nat : n = Len(s) /\ DOMAIN s = 1 .. n
    BY LenProperties
  <1> DEFINE a == Append(s, e)
  <1>2. /\ a \in Seq(Edges) /\ Len(a) = n + 1 /\ DOMAIN a = 1 .. n + 1
        /\ \A i \in 1 .. n : a[i] = s[i]
        /\ a[n + 1] = e
    BY <1>1, AppendProperties, LenProperties
  <1> HIDE DEF a
  <1>3. EndPoints(a) = EndPoints(s) \cup {Src(e), Dst(e)}
    <2>1. \A i \in 1 .. n + 1 : i \in 1 .. n \/ i = n + 1
      OBVIOUS
    <2>2. \A i \in 1 .. n : i \in 1 .. n + 1
      OBVIOUS
    <2>3. n + 1 \in 1 .. n + 1
      OBVIOUS
    <2>4. ASSUME NEW x \in EndPoints(a) PROVE x \in EndPoints(s) \cup {Src(e), Dst(e)}
      BY <1>1, <1>2, <2>1 DEF EndPoints
    <2>5. ASSUME NEW x \in EndPoints(s) PROVE x \in EndPoints(a)
      BY <1>1, <1>2, <2>2 DEF EndPoints
    <2>6. {Src(e), Dst(e)} \subseteq EndPoints(a)
      BY <1>1, <1>2, <2>3 DEF EndPoints
    <2> QED
      BY <2>4, <2>5, <2>6
  <1> DEFINE l(x, k) == { j \in 1 .. k : Src(x[j]) = Dst(x[j]) }
  <1>4. Loops(a) = Loops(s) + (IF Src(e) = Dst(e) THEN 1 ELSE 0)
    <2>1. Loops(a) = Cardinality(l(a, n + 1)) /\ Loops(s) = Cardinality(l(s, n))
      BY <1>1, <1>2 DEF Loops
    <2>2. l(a, n + 1) = IF Src(e) = Dst(e) THEN l(s, n) \cup {n + 1} ELSE l(s, n)
      <3>1. \A j \in 1 .. n + 1 : j \in 1 .. n \/ j = n + 1
        OBVIOUS
      <3>2. \A j \in 1 .. n : j \in 1 .. n + 1
        OBVIOUS
      <3>3. n + 1 \in 1 .. n + 1 /\ n + 1 \notin 1 .. n
        OBVIOUS
      <3> QED
        BY <1>2, <3>1, <3>2, <3>3
    <2>3. IsFiniteSet(l(s, n)) /\ n + 1 \notin l(s, n)
      <3>1. IsFiniteSet(1 .. n) /\ l(s, n) \subseteq 1 .. n /\ n + 1 \notin 1 .. n
        BY FS_Interval
      <3> HIDE DEF l
      <3> QED
        BY <3>1, FS_Subset
    <2> HIDE DEF l
    <2>4. /\ Cardinality(l(s, n) \cup {n + 1}) = Cardinality(l(s, n)) + 1
          /\ Cardinality(l(s, n)) \in Nat
      BY <2>3, FS_AddElement, FS_CardinalityType
    <2> QED
      BY <2>1, <2>2, <2>4
  <1> DEFINE N == EndPoints(s)
  <1>5. IsFiniteSet(N) /\ Cardinality(N) \in Nat /\ Loops(s) \in Nat
    BY EndsFinite
  <1>6. Cardinality(EndPoints(a)) =
          Cardinality(N) + (IF Src(e) \notin N THEN 1 ELSE 0)
            + (IF Dst(e) \notin N /\ Dst(e) # Src(e) THEN 1 ELSE 0)
    <2>1. EndPoints(a) = (N \cup {Src(e)}) \cup {Dst(e)}
      BY <1>3
    <2> HIDE DEF N
    <2>2. /\ IsFiniteSet(N \cup {Src(e)})
          /\ Cardinality(N \cup {Src(e)}) =
               IF Src(e) \in N THEN Cardinality(N) ELSE Cardinality(N) + 1
      BY <1>5, FS_AddElement
    <2>3. /\ Cardinality((N \cup {Src(e)}) \cup {Dst(e)}) =
               IF Dst(e) \in (N \cup {Src(e)}) THEN Cardinality(N \cup {Src(e)})
               ELSE Cardinality(N \cup {Src(e)}) + 1
      BY <2>2, FS_AddElement
    <2> QED
      BY <1>5, <2>1, <2>2, <2>3
  <1>7. Delta(e, N) = 2 - (IF Src(e) \notin N THEN 1 ELSE 0) - (IF Dst(e) \notin N THEN 1 ELSE 0)
    BY DEF Delta
  <1>8. /\ Staleness(a) = 2 * (n + 1) - Cardinality(EndPoints(a))
        /\ Staleness(s) = 2 * n - Cardinality(N)
    BY <1>1, <1>2 DEF Staleness
  <1> HIDE DEF N
  <1>9. Delta(e, N) \in 0 .. 2 /\ Staleness(s) + Delta(e, N) <= Staleness(a)
        /\ Staleness(a) - Loops(a) <= Staleness(s) + Delta(e, N) - Loops(s)
    BY <1>4, <1>5, <1>6, <1>7, <1>8
  <1> QED
    BY <1>1, <1>2, <1>3, <1>9 DEF a, N

\* Edges that bring no new node: each counts twice.
LEMMA FillStaleness ==
  ASSUME Settings, NEW s \in Seq(Edges), NEW t \in Seq(Edges),
         \A i \in DOMAIN t : Src(t[i]) \in EndPoints(s) /\ Dst(t[i]) \in EndPoints(s)
  PROVE  Staleness(s \o t) = Staleness(s) + 2 * Len(t)
  <1>1. EndPoints(t) \subseteq EndPoints(s)
    BY DEF EndPoints
  <1>2. EndPoints(s \o t) = EndPoints(s)
    <2>1. EndPoints(s \o t) = EndPoints(s) \cup EndPoints(t)
      BY EndsOfConcat
    <2> QED
      BY <1>1, <2>1
  <1>3. Len(s \o t) = Len(s) + Len(t) /\ Len(s) \in Nat /\ Len(t) \in Nat
    BY ConcatProperties, LenProperties
  <1>4. Cardinality(EndPoints(s)) \in Nat
    BY EndsFinite
  <1> QED
    BY <1>2, <1>3, <1>4 DEF Staleness

----------------------------------------------------------------------------
(* The first loop *)

\* A batch with the edges of rest at the positions taken.
Picks(first, rest, taken) == first \o [i \in 1 .. Len(taken) |-> rest[taken[i]]]

\* Picks are edges; one position more is one edge more.
LEMMA PicksAppend ==
  ASSUME NEW first \in Seq(Edges), NEW rest \in Seq(Edges),
         NEW taken \in Seq(1 .. Len(rest)), NEW k \in 1 .. Len(rest)
  PROVE  /\ Picks(first, rest, taken) \in Seq(Edges)
         /\ Len(Picks(first, rest, taken)) = Len(first) + Len(taken)
         /\ Picks(first, rest, Append(taken, k)) = Append(Picks(first, rest, taken), rest[k])
  <1>1. PICK m \in Nat, n \in Nat : m = Len(first) /\ n = Len(taken) /\ DOMAIN first = 1 .. m
    BY LenProperties
  <1>2. \A i \in 1 .. n : taken[i] \in 1 .. Len(rest)
    BY <1>1, ElementOfSeq
  <1>3. rest[k] \in Edges /\ \A i \in 1 .. n : rest[taken[i]] \in Edges
    BY <1>2, ElementOfSeq
  <1>4. /\ Append(taken, k) \in Seq(1 .. Len(rest)) /\ Len(Append(taken, k)) = n + 1
        /\ \A i \in 1 .. n : Append(taken, k)[i] = taken[i]
        /\ Append(taken, k)[n + 1] = k
    BY <1>1, AppendProperties
  <1> DEFINE u == [i \in 1 .. n |-> rest[taken[i]]]
             v == [i \in 1 .. n + 1 |-> rest[Append(taken, k)[i]]]
  <1>5. u \in Seq(Edges) /\ Len(u) = n /\ \A i \in 1 .. n : u[i] = rest[taken[i]]
    <2>1. u \in [1 .. n -> Edges]
      BY <1>3
    <2>2. \A i \in 1 .. n : u[i] = rest[taken[i]]
      OBVIOUS
    <2> HIDE DEF u
    <2> QED
      BY <2>1, <2>2, FunctionIsSeq
  <1>6. /\ v \in Seq(Edges) /\ Len(v) = n + 1
        /\ \A i \in 1 .. n : v[i] = u[i]
        /\ v[n + 1] = rest[k]
    <2>1. \A i \in 1 .. n + 1 : i \in 1 .. n \/ i = n + 1
      OBVIOUS
    <2>2. \A i \in 1 .. n + 1 : rest[Append(taken, k)[i]] \in Edges
      BY <1>3, <1>4, <2>1
    <2>3. v \in Seq(Edges) /\ Len(v) = n + 1
      <3>1. v \in [1 .. n + 1 -> Edges]
        BY <2>2
      <3> HIDE DEF v
      <3> QED
        BY <3>1, FunctionIsSeq
    <2>4. n + 1 \in 1 .. n + 1 /\ \A i \in 1 .. n : i \in 1 .. n + 1
      OBVIOUS
    <2>5. v[n + 1] = rest[k]
      BY <1>4, <2>4
    <2>6. \A i \in 1 .. n : v[i] = u[i]
      BY <1>4, <2>4
    <2> QED
      BY <2>3, <2>5, <2>6
  <1>7. Picks(first, rest, taken) = first \o u /\ Picks(first, rest, Append(taken, k)) = first \o v
    BY <1>1, <1>4 DEF Picks
  <1> HIDE DEF u, v
  <1>8. /\ first \o u \in Seq(Edges) /\ Len(first \o u) = m + n
        /\ \A i \in 1 .. m + n : (first \o u)[i] = IF i <= m THEN first[i] ELSE u[i - m]
    <2>1. /\ first \o u \in Seq(Edges) /\ Len(first \o u) = Len(first) + Len(u)
          /\ \A i \in 1 .. Len(first) + Len(u) :
               (first \o u)[i] = IF i <= Len(first) THEN first[i] ELSE u[i - Len(first)]
      BY <1>5, ConcatProperties
    <2> QED
      BY <1>1, <1>5, <2>1
  <1>9. /\ first \o v \in Seq(Edges) /\ Len(first \o v) = m + (n + 1)
        /\ \A i \in 1 .. m + (n + 1) : (first \o v)[i] = IF i <= m THEN first[i] ELSE v[i - m]
    <2>1. /\ first \o v \in Seq(Edges) /\ Len(first \o v) = Len(first) + Len(v)
          /\ \A i \in 1 .. Len(first) + Len(v) :
               (first \o v)[i] = IF i <= Len(first) THEN first[i] ELSE v[i - Len(first)]
      BY <1>6, ConcatProperties
    <2> QED
      BY <1>1, <1>6, <2>1
  <1>10. /\ Append(first \o u, rest[k]) \in Seq(Edges)
         /\ Len(Append(first \o u, rest[k])) = m + n + 1
         /\ \A i \in 1 .. m + n : Append(first \o u, rest[k])[i] = (first \o u)[i]
         /\ Append(first \o u, rest[k])[m + n + 1] = rest[k]
    BY <1>3, <1>8, AppendProperties
  <1>11. ASSUME NEW i \in 1 .. m + n + 1
         PROVE  (first \o v)[i] = Append(first \o u, rest[k])[i]
    <2>0. i \in 1 .. m + (n + 1)
      OBVIOUS
    <2>1. CASE i <= m
      <3>1. i \in 1 .. m + n
        BY <2>1
      <3> QED
        BY <1>8, <1>9, <1>10, <2>0, <2>1, <3>1
    <2>2. CASE ~(i <= m) /\ i # m + n + 1
      <3>1. i \in 1 .. m + n /\ i - m \in 1 .. n
        BY <2>2
      <3>2. (first \o v)[i] = v[i - m] /\ (first \o u)[i] = u[i - m]
        BY <1>8, <1>9, <2>0, <2>2, <3>1
      <3> QED
        BY <1>6, <1>10, <3>1, <3>2
    <2>3. CASE i = m + n + 1
      <3>1. i - m = n + 1 /\ ~(i <= m)
        BY <2>3
      <3>2. (first \o v)[i] = v[n + 1]
        BY <1>9, <2>0, <3>1
      <3> QED
        BY <1>6, <1>10, <2>3, <3>2
    <2> QED
      BY <2>1, <2>2, <2>3
  <1>12. first \o v = Append(first \o u, rest[k])
    <2>1. Len(first \o v) = m + n + 1
      BY <1>9
    <2> QED
      BY <1>9, <1>10, <1>11, <2>1, SeqEqual
  <1> QED
    BY <1>1, <1>7, <1>8, <1>12

\* The values of the variables of the first loop.
Accumulators(rest) == [stale : Int, nodes : SUBSET Nodes, taken : Seq(1 .. Len(rest))]

\* The first loop has seen the first k edges of rest.  An edge that is not taken
\* before the threshold brings no new node, and what the last edge was added to
\* was below the threshold.
LoopAt(first, rest, t, k) ==
  LET p == Picks(first, rest, t.taken) IN
  /\ t \in Accumulators(rest)
  /\ Increasing(t.taken) /\ \A i \in DOMAIN t.taken : t.taken[i] <= k
  /\ t.nodes = EndPoints(p)
  /\ t.stale <= Staleness(p) /\ Staleness(p) - Loops(p) <= t.stale
  /\ t.taken # <<>> =>
       \E u \in Seq(Edges), e \in Edges : p = Append(u, e) /\ Staleness(u) - Loops(u) < threshold
  /\ t.stale < threshold =>
       \A j \in 1 .. k : (\A i \in DOMAIN t.taken : t.taken[i] # j) =>
         Src(rest[j]) \in t.nodes /\ Dst(rest[j]) \in t.nodes

\* A step of the loop stays among the values of its variables.
LEMMA TakeType ==
  ASSUME Settings, NEW rest \in Seq(Edges), NEW t \in Accumulators(rest), NEW k \in 1 .. Len(rest)
  PROVE  Take(t, rest, k) \in Accumulators(rest)
  <1>1. rest[k] \in Edges
    BY ElementOfSeq
  <1>2. Src(rest[k]) \in Nodes /\ Dst(rest[k]) \in Nodes
    BY <1>1 DEF Src, Dst, Settings
  <1>3. t.stale \in Int /\ t.nodes \in SUBSET Nodes /\ t.taken \in Seq(1 .. Len(rest))
    BY DEF Accumulators
  <1>4. Delta(rest[k], t.nodes) \in Int
    BY DEF Delta
  <1>5. Append(t.taken, k) \in Seq(1 .. Len(rest))
    BY <1>3, AppendProperties
  <1>6. [stale |-> t.stale + Delta(rest[k], t.nodes),
         nodes |-> t.nodes \cup {Src(rest[k]), Dst(rest[k])},
         taken |-> Append(t.taken, k)] \in Accumulators(rest)
    BY <1>2, <1>3, <1>4, <1>5 DEF Accumulators
  <1> QED
    BY <1>6 DEF Take

\* A step of the loop.
LEMMA TakeStep ==
  ASSUME Settings, NEW first \in Seq(Edges), NEW rest \in Seq(Edges), NEW k \in 1 .. Len(rest),
         NEW t, LoopAt(first, rest, t, k - 1)
  PROVE  LoopAt(first, rest, Take(t, rest, k), k)
  <1> DEFINE p == Picks(first, rest, t.taken)
             e == rest[k]
             N == t.nodes
  <1>1. e \in Edges
    BY ElementOfSeq
  <1>2. t \in Accumulators(rest) /\ t.stale \in Int /\ t.taken \in Seq(1 .. Len(rest))
    BY DEF LoopAt, Accumulators
  <1>3. p \in Seq(Edges)
    BY <1>2, PicksAppend
  <1>4. N = EndPoints(p) /\ t.stale <= Staleness(p) /\ Staleness(p) - Loops(p) <= t.stale
    BY DEF LoopAt
  <1>5. PICK n \in Nat : n = Len(t.taken) /\ DOMAIN t.taken = 1 .. n
    BY <1>2, LenProperties
  <1>6. \A i \in 1 .. n : t.taken[i] \in 1 .. k - 1
    <2>1. \A i \in 1 .. n : t.taken[i] \in 1 .. Len(rest)
      BY <1>2, <1>5, ElementOfSeq
    <2> QED
      BY <1>5, <2>1 DEF LoopAt
  <1>7. Staleness(p) \in Int /\ Loops(p) \in Nat
    BY <1>3, EndsFinite
  <1>8. Take(t, rest, k) \in Accumulators(rest)
    BY <1>2, TakeType
  <1>9. CASE t.stale < threshold /\ Delta(e, N) # 2
    <2> DEFINE r == [stale |-> t.stale + Delta(e, N), nodes |-> N \cup {Src(e), Dst(e)},
                     taken |-> Append(t.taken, k)]
    <2>1. Take(t, rest, k) = r
      BY <1>9 DEF Take
    <2>2. r.stale = t.stale + Delta(e, N) /\ r.nodes = N \cup {Src(e), Dst(e)}
          /\ r.taken = Append(t.taken, k)
      OBVIOUS
    <2> HIDE DEF r
    <2>3. Picks(first, rest, r.taken) = Append(p, e)
      BY <1>2, <2>2, PicksAppend
    <2> HIDE DEF p, e, N
    <2>4. /\ EndPoints(Append(p, e)) = EndPoints(p) \cup {Src(e), Dst(e)}
          /\ Delta(e, EndPoints(p)) \in 0 .. 2
          /\ Staleness(p) + Delta(e, EndPoints(p)) <= Staleness(Append(p, e))
          /\ Staleness(Append(p, e)) - Loops(Append(p, e)) <=
               Staleness(p) + Delta(e, EndPoints(p)) - Loops(p)
          /\ Append(p, e) \in Seq(Edges)
      BY <1>1, <1>3, AppendStaleness
    <2>5. Staleness(Append(p, e)) \in Int /\ Loops(Append(p, e)) \in Nat
      BY <2>4, EndsFinite
    <2>6. /\ r.stale <= Staleness(Append(p, e))
          /\ Staleness(Append(p, e)) - Loops(Append(p, e)) <= r.stale
          /\ Staleness(p) - Loops(p) < threshold
      <3>1. threshold \in Int /\ t.stale < threshold
        BY <1>9 DEF Settings
      <3>2. Delta(e, N) = Delta(e, EndPoints(p)) /\ Delta(e, N) \in Int
        BY <1>4, <2>4
      <3>3. PICK d \in Int, ts \in Int, sp \in Int, lp \in Nat, sa \in Int, la \in Nat :
              /\ d = Delta(e, N) /\ ts = t.stale /\ sp = Staleness(p) /\ lp = Loops(p)
              /\ sa = Staleness(Append(p, e)) /\ la = Loops(Append(p, e))
        BY <1>2, <1>7, <2>5, <3>2, Zenon
      <3>4. sp + d <= sa /\ sa - la <= sp + d - lp /\ ts <= sp /\ sp - lp <= ts
        BY <1>4, <2>4, <3>2, <3>3, Zenon
      <3>5. ts + d <= sa /\ sa - la <= ts + d
        BY <3>4
      <3>6. sp - lp < threshold
        <4>1. ts < threshold
          BY <3>1, <3>3, Zenon
        <4> QED
          BY ONLY <3>1, <3>4, <4>1, sp \in Int, lp \in Nat, ts \in Int
      <3>7. r.stale = ts + d
        BY <2>2, <3>3
      <3> QED
        BY <3>3, <3>5, <3>6, <3>7
    <2>7. /\ Len(r.taken) = n + 1 /\ r.taken \in Seq(1 .. Len(rest)) /\ DOMAIN r.taken = 1 .. n + 1
          /\ \A i \in 1 .. n : r.taken[i] = t.taken[i]
          /\ r.taken[n + 1] = k
      BY <1>2, <1>5, <2>2, AppendProperties, LenProperties
    <2>8. \A i \in 1 .. n + 1 : i \in 1 .. n \/ i = n + 1
      OBVIOUS
    <2>9. \A i \in 1 .. n + 1 : r.taken[i] <= k
      BY <1>6, <2>7, <2>8
    <2>10. Increasing(r.taken)
      <3> SUFFICES ASSUME NEW i \in 1 .. n + 1, NEW j \in 1 .. n + 1, i < j
                   PROVE  r.taken[i] < r.taken[j]
        BY <2>7 DEF Increasing
      <3>1. i \in 1 .. n
        OBVIOUS
      <3>2. CASE j = n + 1
        BY <1>6, <2>7, <3>1, <3>2
      <3>3. CASE j # n + 1
        <4>1. j \in 1 .. n
          BY <3>3
        <4>2. t.taken[i] < t.taken[j]
          BY <1>5, <3>1, <4>1 DEF LoopAt, Increasing
        <4> QED
          BY <2>7, <3>1, <4>1, <4>2
      <3> QED
        BY <3>2, <3>3
    <2>11. ASSUME r.stale < threshold, NEW j \in 1 .. k,
                  \A i \in DOMAIN r.taken : r.taken[i] # j
           PROVE  Src(rest[j]) \in r.nodes /\ Dst(rest[j]) \in r.nodes
      <3>1. j # k
        <4>1. n + 1 \in 1 .. n + 1
          OBVIOUS
        <4> QED
          BY <2>7, <2>11, <4>1
      <3>2. j \in 1 .. k - 1
        BY <3>1
      <3>3. \A i \in DOMAIN t.taken : t.taken[i] # j
        <4>1. \A i \in 1 .. n : i \in 1 .. n + 1
          OBVIOUS
        <4> QED
          BY <1>5, <2>7, <2>11, <4>1
      <3>4. Src(rest[j]) \in N /\ Dst(rest[j]) \in N
        BY <1>9, <3>2, <3>3 DEF LoopAt, N
      <3> QED
        BY <2>2, <3>4
    <2>12. LoopAt(first, rest, r, k)
      <3>1. r \in Accumulators(rest)
        BY <1>8, <2>1
      <3>2. r.nodes = EndPoints(Append(p, e))
        BY <1>4, <2>2, <2>4
      <3>3. \E u \in Seq(Edges), f \in Edges :
              Append(p, e) = Append(u, f) /\ Staleness(u) - Loops(u) < threshold
        BY <1>1, <1>3, <2>6
      <3> QED
        BY <2>3, <2>6, <2>7, <2>9, <2>10, <2>11, <3>1, <3>2, <3>3 DEF LoopAt
    <2> QED
      BY <2>1, <2>12
  <1>10. CASE ~(t.stale < threshold /\ Delta(e, N) # 2)
    <2>1. Take(t, rest, k) = t
      BY <1>10 DEF Take
    <2>2. ASSUME t.stale < threshold PROVE Src(e) \in N /\ Dst(e) \in N
      BY <1>10, <2>2 DEF Delta
    <2>3. \A j \in 1 .. k : j \in 1 .. k - 1 \/ j = k
      OBVIOUS
    <2>4. \A i \in DOMAIN t.taken : t.taken[i] <= k
      BY <1>5, <1>6
    <2>5. ASSUME t.stale < threshold, NEW j \in 1 .. k, \A i \in DOMAIN t.taken : t.taken[i] # j
          PROVE  Src(rest[j]) \in t.nodes /\ Dst(rest[j]) \in t.nodes
      <3>1. CASE j = k
        BY <2>2, <2>5, <3>1
      <3>2. CASE j \in 1 .. k - 1
        BY <2>5, <3>2 DEF LoopAt
      <3> QED
        BY <2>3, <3>1, <3>2
    <2>6. LoopAt(first, rest, t, k)
      <3> HIDE DEF p, e, N
      <3> QED
        BY <2>4, <2>5 DEF LoopAt
    <2> QED
      BY <2>1, <2>6
  <1> QED
    BY <1>9, <1>10

\* The first loop goes through the edges that are left.
LEMMA TakenFacts ==
  ASSUME Settings, NEW first \in Seq(Edges), NEW rest \in Seq(Edges)
  PROVE  LoopAt(first, rest, Taken(first, rest), Len(rest))
  <1>0. PICK R \in Nat : R = Len(rest)
    BY LenProperties
  <1> DEFINE t0 == [stale |-> Staleness(first), nodes |-> EndPoints(first), taken |-> <<>>]
             step == [p \in Accumulators(rest) \X (1 .. R) |-> Take(p[1], rest, p[2])]
  <1>1. t0 \in Accumulators(rest)
    <2>1. Staleness(first) \in Int /\ EndPoints(first) \in SUBSET Nodes
      BY EndsFinite
    <2>2. <<>> \in Seq(1 .. Len(rest))
      OBVIOUS
    <2> QED
      BY <2>1, <2>2 DEF Accumulators
  <1>2. step \in BoundedSteps(Accumulators(rest), R)
    <2>1. ASSUME NEW p \in Accumulators(rest) \X (1 .. R)
          PROVE  Take(p[1], rest, p[2]) \in Accumulators(rest)
      <3>1. p[1] \in Accumulators(rest) /\ p[2] \in 1 .. Len(rest)
        BY <1>0
      <3> QED
        BY <3>1, TakeType
    <2> QED
      BY <2>1 DEF BoundedSteps
  <1>3. PICK f : IsComputed(f, Accumulators(rest), R, t0, step)
    <2> HIDE DEF t0, step
    <2> QED
      BY <1>1, <1>2, BoundedRecursion
  <1>4. f \in [0 .. R -> Accumulators(rest)] /\ f[0] = t0
    BY <1>3 DEF IsComputed
  <1>5. ASSUME NEW k \in 1 .. R
        PROVE  f[k] = Take(f[k - 1], rest, k)
    <2>1. f[k] = step[<<f[k - 1], k>>]
      BY <1>3 DEF IsComputed
    <2>2. k - 1 \in 0 .. R
      OBVIOUS
    <2>3. <<f[k - 1], k>> \in Accumulators(rest) \X (1 .. R)
      BY <1>4, <2>2
    <2> QED
      BY <2>1, <2>3
  <1> HIDE DEF step
  <1>6. LoopAt(first, rest, t0, 0)
    <2>1. t0.stale = Staleness(first) /\ t0.nodes = EndPoints(first) /\ t0.taken = <<>>
      OBVIOUS
    <2>2. Picks(first, rest, <<>>) = first
      <3>1. [i \in 1 .. Len(<<>>) |-> rest[<<>>[i]]] = <<>>
        OBVIOUS
      <3>2. first \o <<>> = first
        BY ConcatEmptySeq
      <3> QED
        BY <3>1, <3>2 DEF Picks
    <2>3. Increasing(<<>>) /\ \A i \in DOMAIN <<>> : <<>>[i] <= 0
      BY DEF Increasing
    <2>4. Staleness(first) \in Int /\ Loops(first) \in Nat
      BY EndsFinite
    <2>5. /\ Staleness(first) <= Staleness(first)
          /\ Staleness(first) - Loops(first) <= Staleness(first)
      BY <2>4
    <2>6. \A j \in 1 .. 0 : FALSE
      OBVIOUS
    <2> HIDE DEF t0
    <2> QED
      BY <1>1, <2>1, <2>2, <2>3, <2>5, <2>6 DEF LoopAt
  <1> DEFINE G == { k \in 0 .. R : LoopAt(first, rest, f[k], k) }
  <1>7. 0 \in G
    BY <1>4, <1>6
  <1>8. ASSUME NEW k \in 0 .. R - 1, k \in G
        PROVE  k + 1 \in G
    <2>1. k + 1 \in 1 .. R /\ (k + 1) - 1 = k /\ k + 1 \in 0 .. R
      OBVIOUS
    <2>2. f[k + 1] = Take(f[k], rest, k + 1)
      BY <1>5, <2>1
    <2>3. LoopAt(first, rest, f[k], (k + 1) - 1)
      BY <1>8, <2>1
    <2>4. LoopAt(first, rest, Take(f[k], rest, k + 1), k + 1)
      BY <1>0, <2>1, <2>3, TakeStep
    <2> QED
      BY <2>1, <2>2, <2>4
  <1>9. \A k \in 0 .. R : k \in G
    <2> HIDE DEF G
    <2> QED
      BY <1>7, <1>8, BoundedInduction
  <1>10. LoopAt(first, rest, f[R], R)
    <2>1. R \in 0 .. R
      OBVIOUS
    <2> QED
      BY <1>9, <2>1
  <1> DEFINE IsLoop(s) == s = [k \in 0 .. R |-> IF k = 0 THEN t0 ELSE Take(s[k - 1], rest, k)]
             s == CHOOSE s : IsLoop(s)
  <1>11. IsLoop(f)
    <2> HIDE DEF G, t0
    <2> QED
      BY <1>4, <1>5
  <1>12. IsLoop(s)
    <2> HIDE DEF IsLoop
    <2> QED
      BY <1>11
  <1>13. Taken(first, rest) = s[R]
    BY <1>0 DEF Taken
  <1>14. \A k \in 0 .. R : s[k] = f[k]
    <2> DEFINE E == { k \in 0 .. R : s[k] = f[k] }
    <2> HIDE DEF t0, G, s
    <2>1. 0 \in E
      BY <1>4, <1>12
    <2>2. ASSUME NEW k \in 0 .. R - 1, k \in E
          PROVE  k + 1 \in E
      <3>1. k + 1 \in 0 .. R /\ k + 1 # 0 /\ (k + 1) - 1 = k /\ k + 1 \in 1 .. R
        OBVIOUS
      <3>2. s[k + 1] = Take(s[k], rest, k + 1)
        BY <1>12, <3>1
      <3>3. f[k + 1] = Take(f[k], rest, k + 1)
        BY <1>5, <3>1
      <3> QED
        BY <2>2, <3>1, <3>2, <3>3
    <2>3. \A k \in 0 .. R : k \in E
      <3> HIDE DEF E
      <3> QED
        BY <2>1, <2>2, BoundedInduction
    <2> QED
      BY <2>3
  <1>15. Taken(first, rest) = f[R]
    <2>1. R \in 0 .. R
      OBVIOUS
    <2> HIDE DEF s
    <2> QED
      BY <1>13, <1>14, <2>1
  <1> QED
    BY <1>0, <1>10, <1>15

----------------------------------------------------------------------------
(* One round of the adaptive split *)

\* The second loop adds at most what is there, all of it unless the threshold is
\* met, and its last edge only while it is not.
LEMMA FilledFacts ==
  ASSUME Settings, NEW stale \in Int, NEW n \in Nat
  PROVE  /\ Filled(stale, n) \in 0 .. n
         /\ Filled(stale, n) < n => stale + 2 * Filled(stale, n) >= threshold
         /\ Filled(stale, n) > 0 => stale + 2 * (Filled(stale, n) - 1) < threshold
  <1>1. PICK th \in Nat : th = threshold
    BY DEF Settings
  <1>2. CASE stale >= th
    <2>1. Filled(stale, n) = 0
      BY <1>1, <1>2 DEF Filled
    <2> QED
      BY <1>1, <1>2, <2>1
  <1>3. CASE stale < th
    <2>1. PICK h \in Nat : h = (th - stale + 1) \div 2
      BY <1>3
    <2>2. 2 * h >= th - stale /\ 2 * (h - 1) < th - stale /\ h > 0
      BY <1>3, <2>1
    <2>3. Filled(stale, n) = IF n < h THEN n ELSE h
      BY <1>1, <1>3, <2>1 DEF Filled, Smaller
    <2> QED
      BY <1>1, <2>2, <2>3
  <1> QED
    BY <1>2, <1>3

\* One round makes one batch.  It begins with the first edge that is left; every
\* edge that was left goes into the batch or stays, and none goes twice.  Unless
\* nothing stays the batch is as stale as the threshold, and if it is longer than a
\* fixed batch it was not so without its last edge.
LEMMA SplitOffFacts ==
  ASSUME Settings, NEW eids \in Seq(Edges), eids # <<>>, Distinct(eids)
  PROVE  LET r == SplitOff(eids)
             b == r.batch
             front == SubSeq(b, 1, Len(b) - 1)
         IN  /\ b \in Seq(Edges) /\ r.left \in Seq(Edges)
             /\ Len(b) >= 1 /\ b[1] = eids[1]
             /\ Distinct(b) /\ Distinct(r.left)
             /\ Elems(eids) = Elems(b) \cup Elems(r.left) /\ Elems(b) \cap Elems(r.left) = {}
             /\ r.left = <<>> \/ Staleness(b) >= threshold
             /\ Len(b) > BatchSize => Staleness(front) < threshold + Loops(front)
  <1>1. PICK m \in Nat : m = Len(eids) /\ m >= 1
    BY LenProperties, EmptySeq
  <1>2. PICK n \in Nat : n = Smaller(BatchSize, Len(eids)) /\ n >= 1 /\ n <= m /\ n <= BatchSize
    BY <1>1, BatchesAssumption DEF Smaller
  <1> DEFINE first == SubSeq(eids, 1, n)
             rest == SubSeq(eids, n + 1, Len(eids))
             t == Taken(first, rest)
             others == Without(rest, t.taken)
             p == Picks(first, rest, t.taken)
             k == Filled(t.stale, Len(others))
             fill == SubSeq(others, 1, k)
             keep == SubSeq(others, k + 1, Len(others))
             b == p \o fill
  <1>3. SplitOff(eids).batch = b /\ SplitOff(eids).left = keep
    BY <1>2 DEF SplitOff, Picks
  <1>4. /\ first \in Seq(Edges) /\ Len(first) = n /\ first[1] = eids[1]
        /\ rest \in Seq(Edges)
        /\ Elems(eids) = Elems(first) \cup Elems(rest)
        /\ Distinct(first) /\ Distinct(rest) /\ Elems(first) \cap Elems(rest) = {}
    <2>1. n \in 0 .. Len(eids) /\ 1 \in 1 .. n
      BY <1>1, <1>2
    <2>2. IsCut(eids, n, first, rest, Edges)
      BY <2>1, CutElems
    <2> QED
      BY <2>1, <2>2 DEF IsCut
  <1> HIDE DEF first, rest
  <1>5. LoopAt(first, rest, t, Len(rest))
    BY <1>4, TakenFacts
  <1> HIDE DEF t
  <1>6. /\ t.stale \in Int /\ t.taken \in Seq(1 .. Len(rest)) /\ Increasing(t.taken)
        /\ t.nodes = EndPoints(p)
        /\ t.stale <= Staleness(p) /\ Staleness(p) - Loops(p) <= t.stale
    BY <1>5 DEF LoopAt, Accumulators
  <1>7. /\ others \in Seq(Edges) /\ Distinct(others)
        /\ Elems(others) = Elems(rest) \ { rest[t.taken[i]] : i \in DOMAIN t.taken }
    BY <1>4, <1>6, WithoutTaken
  <1> HIDE DEF others
  <1>8. PICK q \in Nat, w \in Nat :
          /\ q = Len(t.taken) /\ w = Len(rest)
          /\ DOMAIN t.taken = 1 .. q /\ DOMAIN rest = 1 .. w
          /\ \A i \in 1 .. q : t.taken[i] \in 1 .. w
    BY <1>4, <1>6, LenProperties, ElementOfSeq
  <1> DEFINE u == [i \in 1 .. q |-> rest[t.taken[i]]]
  <1>9. /\ u \in Seq(Edges) /\ Len(u) = q /\ Distinct(u)
        /\ Elems(u) = { rest[t.taken[i]] : i \in DOMAIN t.taken }
    <2>1. u \in [1 .. q -> Edges]
      BY <1>4, <1>8, ElementOfSeq
    <2>2. DOMAIN u = 1 .. q
      OBVIOUS
    <2>3. Distinct(u)
      <3> SUFFICES ASSUME NEW i \in 1 .. q, NEW j \in 1 .. q, rest[t.taken[i]] = rest[t.taken[j]]
                   PROVE  i = j
        BY <2>2 DEF Distinct
      <3>1. t.taken[i] = t.taken[j]
        BY <1>4, <1>8 DEF Distinct
      <3>2. t.taken[i] \in 1 .. w
        BY <1>8
      <3>3. ASSUME i < j PROVE FALSE
        <4>1. t.taken[i] < t.taken[j]
          BY <1>6, <1>8, <3>3 DEF Increasing
        <4> QED
          BY <3>1, <3>2, <4>1
      <3>4. ASSUME j < i PROVE FALSE
        <4>1. t.taken[j] < t.taken[i]
          BY <1>6, <1>8, <3>4 DEF Increasing
        <4> QED
          BY <3>1, <3>2, <4>1
      <3> QED
        BY <3>3, <3>4
    <2>4. Elems(u) = { rest[t.taken[i]] : i \in DOMAIN t.taken }
      BY <1>8 DEF Elems
    <2>5. u \in Seq(Edges) /\ Len(u) = q
      <3> HIDE DEF u
      <3> QED
        BY <2>1, FunctionIsSeq
    <2> QED
      BY <2>3, <2>4, <2>5
  <1>10. p = first \o u
    BY <1>8 DEF Picks
  <1> HIDE DEF u, p
  <1>11. Elems(u) \subseteq Elems(rest)
    BY <1>8, <1>9 DEF Elems
  <1>12. /\ p \in Seq(Edges) /\ Len(p) = n + q /\ Elems(p) = Elems(first) \cup Elems(u)
         /\ Distinct(p) /\ p[1] = eids[1]
    <2>1. /\ p \in Seq(Edges) /\ Len(p) = Len(first) + Len(u)
          /\ \A i \in 1 .. Len(first) + Len(u) :
               p[i] = IF i <= Len(first) THEN first[i] ELSE u[i - Len(first)]
      <3>1. first \in Seq(Edges) /\ u \in Seq(Edges)
        BY <1>4, <1>9
      <3>2. /\ first \o u \in Seq(Edges) /\ Len(first \o u) = Len(first) + Len(u)
            /\ \A i \in 1 .. Len(first) + Len(u) :
                 (first \o u)[i] = IF i <= Len(first) THEN first[i] ELSE u[i - Len(first)]
        BY <3>1, ConcatProperties
      <3> QED
        BY <1>10, <3>2
    <2>2. Elems(p) = Elems(first) \cup Elems(u)
      BY <1>4, <1>9, <1>10, ConcatElems
    <2>3. Distinct(p)
      <3>1. Elems(first) \cap Elems(u) = {}
        BY <1>4, <1>11
      <3> QED
        BY <1>4, <1>9, <1>10, <3>1, ConcatElems
    <2>4. p[1] = eids[1]
      <3>1. 1 \in 1 .. Len(first) + Len(u) /\ 1 <= Len(first)
        BY <1>2, <1>4, <1>9
      <3> QED
        BY <1>4, <2>1, <3>1
    <2> QED
      BY <1>4, <1>9, <2>1, <2>2, <2>3, <2>4
  <1>13. PICK l \in Nat : l = Len(others)
    BY <1>7, LenProperties
  <1>14. /\ k \in 0 .. l
         /\ k < l => t.stale + 2 * k >= threshold
         /\ k > 0 => t.stale + 2 * (k - 1) < threshold
    BY <1>6, <1>13, FilledFacts
  <1> HIDE DEF k
  <1>15. /\ fill \in Seq(Edges) /\ Len(fill) = k /\ \A i \in 1 .. k : fill[i] = others[i]
         /\ keep \in Seq(Edges) /\ Len(keep) = l - k
         /\ Elems(others) = Elems(fill) \cup Elems(keep)
         /\ Distinct(fill) /\ Distinct(keep) /\ Elems(fill) \cap Elems(keep) = {}
    <2>1. k \in 0 .. Len(others)
      BY <1>13, <1>14
    <2>2. /\ fill \in Seq(Edges) /\ Len(fill) = k /\ \A i \in 1 .. k : fill[i] = others[i]
          /\ keep \in Seq(Edges) /\ Len(keep) = Len(others) - k
          /\ Elems(others) = Elems(fill) \cup Elems(keep)
          /\ Distinct(fill) /\ Distinct(keep) /\ Elems(fill) \cap Elems(keep) = {}
      <3>1. IsCut(others, k, fill, keep, Edges)
        BY <1>7, <2>1, CutElems
      <3> HIDE DEF fill, keep
      <3> QED
        BY <1>7, <3>1 DEF IsCut
    <2> HIDE DEF fill, keep
    <2> QED
      BY <1>13, <2>2
  <1> HIDE DEF fill, keep
  <1>16. /\ b \in Seq(Edges) /\ Len(b) = n + q + k /\ Elems(b) = Elems(p) \cup Elems(fill)
         /\ Distinct(b) /\ b[1] = eids[1]
    <2>1. /\ b \in Seq(Edges) /\ Len(b) = Len(p) + Len(fill)
          /\ \A i \in 1 .. Len(p) + Len(fill) :
               b[i] = IF i <= Len(p) THEN p[i] ELSE fill[i - Len(p)]
      <3>1. p \in Seq(Edges) /\ fill \in Seq(Edges)
        BY <1>12, <1>15
      <3>2. /\ p \o fill \in Seq(Edges) /\ Len(p \o fill) = Len(p) + Len(fill)
            /\ \A i \in 1 .. Len(p) + Len(fill) :
                 (p \o fill)[i] = IF i <= Len(p) THEN p[i] ELSE fill[i - Len(p)]
        BY ONLY <3>1, ConcatProperties
      <3> QED
        BY <3>2
    <2>2. Elems(b) = Elems(p) \cup Elems(fill)
      BY <1>12, <1>15, ConcatElems
    <2>3. Distinct(b)
      <3>1. Elems(p) \cap Elems(fill) = {}
        BY <1>4, <1>7, <1>9, <1>12, <1>15
      <3> QED
        BY <1>12, <1>15, <3>1, ConcatElems
    <2>4. b[1] = eids[1]
      <3>1. 1 \in 1 .. Len(p) + Len(fill) /\ 1 <= Len(p)
        BY <1>2, <1>12, <1>14, <1>15
      <3> QED
        BY <1>12, <2>1, <3>1
    <2> QED
      BY <1>12, <1>15, <2>1, <2>2, <2>3, <2>4
  <1>17. Elems(eids) = Elems(b) \cup Elems(keep)
    BY <1>4, <1>7, <1>9, <1>11, <1>12, <1>15, <1>16
  <1>18. Elems(b) \cap Elems(keep) = {}
    BY <1>4, <1>7, <1>9, <1>12, <1>15, <1>16
  <1>19. t.stale < threshold =>
           \A e \in Elems(others) : Src(e) \in EndPoints(p) /\ Dst(e) \in EndPoints(p)
    <2> SUFFICES ASSUME t.stale < threshold, NEW e \in Elems(others)
                 PROVE  Src(e) \in EndPoints(p) /\ Dst(e) \in EndPoints(p)
      OBVIOUS
    <2>1. PICK j \in 1 .. w : e = rest[j]
      BY <1>7, <1>8 DEF Elems
    <2>2. \A i \in DOMAIN t.taken : t.taken[i] # j
      BY <1>7, <2>1
    <2>3. Src(rest[j]) \in t.nodes /\ Dst(rest[j]) \in t.nodes
      BY <1>5, <1>8, <2>2 DEF LoopAt
    <2> QED
      BY <1>6, <2>1, <2>3
  <1>20. Staleness(p) \in Int /\ Loops(p) \in Nat
    BY <1>12, EndsFinite
  <1>21. ASSUME t.stale < threshold, NEW v \in Seq(Edges), Elems(v) \subseteq Elems(others)
         PROVE  Staleness(p \o v) = Staleness(p) + 2 * Len(v)
    <2>1. \A i \in DOMAIN v : Src(v[i]) \in EndPoints(p) /\ Dst(v[i]) \in EndPoints(p)
      BY <1>19, <1>21 DEF Elems
    <2> QED
      BY <1>12, <2>1, FillStaleness
  <1>22. ASSUME keep # <<>>
         PROVE  Staleness(b) >= threshold
    <2>1. k < l
      <3>1. Len(keep) # 0
        BY <1>15, <1>22, EmptySeq
      <3> QED
        BY <1>14, <1>15, <3>1
    <2>2. t.stale + 2 * k >= threshold
      BY <1>14, <2>1
    <2>3. CASE t.stale < threshold
      <3>1. Staleness(b) = Staleness(p) + 2 * k
        BY <1>15, <1>21, <2>3
      <3>2. k \in Int /\ threshold \in Int
        BY <1>14 DEF Settings
      <3> QED
        BY <1>6, <1>20, <2>2, <3>1, <3>2
    <2>4. CASE ~(t.stale < threshold)
      <3>1. threshold \in Int
        BY DEF Settings
      <3>2. k = 0
        <4>1. CASE k > 0
          <5>1. t.stale + 2 * (k - 1) < threshold
            BY <1>14, <4>1
          <5> QED
            BY <1>6, <1>14, <2>4, <3>1, <4>1, <5>1
        <4> QED
          BY <1>14, <4>1
      <3>3. fill = <<>>
        BY <1>15, <3>2, EmptySeq
      <3>4. b = p
        BY <1>12, <3>3, ConcatEmptySeq
      <3> QED
        BY <1>6, <1>20, <2>4, <3>1, <3>4
    <2> QED
      BY <2>3, <2>4
  <1> DEFINE front == SubSeq(b, 1, Len(b) - 1)
  <1>23. ASSUME Len(b) > BatchSize
         PROVE  Staleness(front) < threshold + Loops(front)
    <2>1. q + k > 0
      BY <1>2, <1>14, <1>16, <1>23, BatchesAssumption
    <2>2. CASE k > 0
      <3> DEFINE v == SubSeq(others, 1, k - 1)
      <3>1. k - 1 \in 0 .. l /\ k - 1 \in Nat
        BY <1>14, <2>2
      <3>2. /\ v \in Seq(Edges) /\ Len(v) = k - 1 /\ \A i \in 1 .. k - 1 : v[i] = others[i]
            /\ Elems(v) \subseteq Elems(others)
        <4>1. k - 1 \in 0 .. Len(others)
          BY <1>13, <3>1
        <4>2. IsCut(others, k - 1, v, SubSeq(others, (k - 1) + 1, Len(others)), Edges)
          BY <1>7, <4>1, CutElems
        <4> HIDE DEF v
        <4> QED
          BY <4>2 DEF IsCut
      <3> HIDE DEF v
      <3>3. front = p \o v
        <4> DEFINE x == p \o v
        <4>1. /\ x \in Seq(Edges) /\ Len(x) = Len(p) + Len(v)
              /\ \A i \in 1 .. Len(p) + Len(v) : x[i] = IF i <= Len(p) THEN p[i] ELSE v[i - Len(p)]
          BY <1>12, <3>2, ConcatProperties
        <4>2. /\ \A i \in 1 .. Len(p) + Len(fill) :
                   b[i] = IF i <= Len(p) THEN p[i] ELSE fill[i - Len(p)]
          BY <1>12, <1>15, ConcatProperties
        <4>3. PICK g \in Nat : g = n + q + k - 1 /\ g = Len(b) - 1 /\ g \in 0 .. Len(b)
          BY <1>14, <1>16, <2>1
        <4>4. front \in Seq(Edges) /\ Len(front) = g /\ \A i \in 1 .. g : front[i] = b[i]
          <5>1. IsCut(b, g, front, SubSeq(b, g + 1, Len(b)), Edges)
            BY <1>16, <4>3, CutElems
          <5> HIDE DEF front, b
          <5> QED
            BY <5>1 DEF IsCut
        <4> HIDE DEF x, front, b
        <4>5. ASSUME NEW i \in 1 .. g PROVE x[i] = front[i]
          <5>1. CASE i <= n + q
            <6>1. i \in 1 .. Len(p) + Len(v) /\ i \in 1 .. Len(p) + Len(fill) /\ i <= Len(p)
              BY <1>12, <1>14, <1>15, <3>1, <3>2, <5>1
            <6> QED
              BY <4>1, <4>2, <4>4, <6>1
          <5>2. CASE ~(i <= n + q)
            <6>1. /\ i \in 1 .. Len(p) + Len(v) /\ i \in 1 .. Len(p) + Len(fill) /\ ~(i <= Len(p))
                  /\ i - Len(p) \in 1 .. k - 1 /\ i - Len(p) \in 1 .. k
              BY <1>12, <1>14, <1>15, <3>1, <3>2, <4>3, <5>2
            <6>2. x[i] = v[i - Len(p)] /\ b[i] = fill[i - Len(p)]
              BY <4>1, <4>2, <6>1
            <6>3. v[i - Len(p)] = fill[i - Len(p)]
              BY <1>15, <3>2, <6>1
            <6> QED
              BY <4>4, <6>2, <6>3
          <5> QED
            BY <5>1, <5>2
        <4>6. Len(x) = g
          BY <1>12, <1>14, <3>1, <3>2, <4>1, <4>3
        <4>7. x = front
          BY <4>1, <4>4, <4>5, <4>6, SeqEqual
        <4> QED
          BY <4>7 DEF x
      <3>4. t.stale + 2 * (k - 1) < threshold
        BY <1>14, <2>2
      <3>5. threshold \in Int /\ k \in Int
        BY <1>14 DEF Settings
      <3>6. t.stale < threshold
        BY <1>6, <2>2, <3>4, <3>5
      <3>7. Staleness(p \o v) = Staleness(p) + 2 * (k - 1)
        BY <1>21, <3>2, <3>6
      <3>8. Loops(p) <= Loops(p \o v)
        BY <1>12, <3>2, LoopsOfConcat
      <3>9. p \o v \in Seq(Edges)
        BY <1>12, <3>2, ConcatProperties
      <3>10. Loops(p \o v) \in Nat
        BY <3>9, EndsFinite
      <3> HIDE DEF front
      <3> QED
        BY <1>6, <1>20, <3>3, <3>4, <3>5, <3>7, <3>8, <3>10
    <2>3. CASE ~(k > 0)
      <3>1. k = 0 /\ q > 0
        BY <1>14, <2>1, <2>3
      <3>2. b = p
        <4>1. fill = <<>>
          BY <1>15, <3>1, EmptySeq
        <4> QED
          BY <1>12, <4>1, ConcatEmptySeq
      <3>3. t.taken # <<>>
        BY <1>6, <1>8, <3>1, EmptySeq
      <3>4. PICK v \in Seq(Edges), e \in Edges :
              Picks(first, rest, t.taken) = Append(v, e) /\ Staleness(v) - Loops(v) < threshold
        BY <1>5, <3>3 DEF LoopAt
      <3>5. b = Append(v, e)
        BY <3>2, <3>4 DEF p
      <3>6. front = v
        <4>1. PICK g \in Nat : g = Len(v)
          BY LenProperties
        <4>2. Len(b) = g + 1 /\ \A i \in 1 .. g : b[i] = v[i]
          BY <3>5, <4>1, AppendProperties
        <4>3. Len(b) - 1 = g /\ g \in 0 .. Len(b)
          BY <4>2
        <4>4. front \in Seq(Edges) /\ Len(front) = g /\ \A i \in 1 .. g : front[i] = b[i]
          <5>1. IsCut(b, g, front, SubSeq(b, g + 1, Len(b)), Edges)
            BY <1>16, <4>3, CutElems
          <5> HIDE DEF front, b
          <5> QED
            BY <5>1 DEF IsCut
        <4> HIDE DEF front, b
        <4> QED
          BY <4>1, <4>2, <4>4, SeqEqual
      <3>7. Staleness(v) \in Int /\ Loops(v) \in Nat /\ threshold \in Int
        BY EndsFinite DEF Settings
      <3> HIDE DEF front
      <3> QED
        BY <3>4, <3>6, <3>7
    <2> QED
      BY <2>2, <2>3
  <1> HIDE DEF b
  <1>24. b \in Seq(Edges) /\ keep \in Seq(Edges) /\ b[1] = eids[1] /\ Distinct(b) /\ Distinct(keep)
    BY <1>15, <1>16
  <1>25. Len(b) >= 1
    BY <1>1, <1>2, <1>14, <1>16
  <1>26. Len(b) > BatchSize => Staleness(SubSeq(b, 1, Len(b) - 1)) < threshold + Loops(SubSeq(b, 1, Len(b) - 1))
    BY <1>23 DEF front
  <1> HIDE DEF front
  <1> QED
    BY ONLY <1>3, <1>17, <1>18, <1>22, <1>24, <1>25, <1>26

----------------------------------------------------------------------------
(* The inductive invariant *)

\* The large batch of an edge.
LargeOf(e) == e \div LargeBatch

\* A batch that begins with e can come after one of large batch w.
Follows(w, e) ==
  \/ e % LargeBatch = 0 /\ LargeOf(e) = w + 1
  \/ e % LargeBatch # 0 /\ LargeOf(e) = w

\* The edges of a list of batches.
Listed(bs) == UNION { Elems(bs[i]) : i \in DOMAIN bs }

\* No edge is in the list twice, and the list is in the order of time as finely as
\* Tick says.
Ordered(bs) ==
  \A i, j \in DOMAIN bs : \A k \in DOMAIN bs[i], m \in DOMAIN bs[j] :
    /\ bs[i][k] = bs[j][m] => i = j /\ k = m
    /\ i < j \/ (i = j /\ k <= m) => Tick(bs[i][k]) <= Tick(bs[j][m])

\* Every batch is a part of one large batch, and begins one exactly if the batch
\* before is of the large batch before.
ListOf(bs) ==
  /\ bs \in Seq(Seq(Edges))
  /\ \A i \in DOMAIN bs :
       Len(bs[i]) >= 1 /\ \A k \in DOMAIN bs[i] : LargeOf(bs[i][k]) = LargeOf(bs[i][1])
  /\ bs # <<>> => bs[1][1] = 0
  /\ \A i \in DOMAIN bs : i + 1 \in DOMAIN bs => Follows(LargeOf(bs[i][1]), bs[i + 1][1])

\* What is left of large batch lg is not in the list, is not before an edge of it
\* and is all that is missing.
RestOf(bs, rest, lg) ==
  /\ rest \in Seq(Edges) /\ lg \in 0 .. NBlocks - 1 /\ Distinct(rest)
  /\ Listed(bs) \cap Elems(rest) = {}
  /\ \A e \in Listed(bs), f \in Elems(rest) : Tick(e) <= Tick(f)
  /\ \A e \in Edges : (file = "adaptive" => LargeOf(e) <= lg) => e \in Listed(bs) \cup Elems(rest)
  /\ rest # <<>> => IF bs = <<>> THEN rest[1] = 0
                    ELSE Follows(LargeOf(bs[Len(bs)][1]), rest[1])

\* What is left of a fixed list is the end of the edges.
FixedRest(rest) ==
  file = "fixed" =>
    /\ \A i \in DOMAIN rest : rest[i] = rest[1] + i - 1
    /\ rest # <<>> => rest[1] % BatchSize = 0

\* What is left of a large batch begins with its first edge or is without it.
AdaptiveRest(bs, rest, lg) ==
  file = "adaptive" =>
    /\ \A e \in Elems(rest) : LargeOf(e) = lg
    /\ \A i \in DOMAIN rest : i > 1 => rest[i] # lg * LargeBatch
    /\ rest = <<>> => lg = NBlocks - 1
    /\ \A e \in Listed(bs) : LargeOf(e) <= lg

\* A batch is long enough, or the next one begins a large batch; and not too long.
StaleOf(bs, rest) ==
  file = "adaptive" =>
    \A i \in DOMAIN bs :
      LET front == SubSeq(bs[i], 1, Len(bs[i]) - 1) IN
      /\ \/ Staleness(bs[i]) >= threshold
         \/ IF i + 1 \in DOMAIN bs THEN bs[i + 1][1] % LargeBatch = 0
            ELSE rest # <<>> => rest[1] % LargeBatch = 0
      /\ Len(bs[i]) > BatchSize => Staleness(front) < threshold + Loops(front)

\* The list of batches, what is left and the large batch being split.
Lists(bs, rest, lg) ==
  /\ ListOf(bs) /\ Ordered(bs) /\ RestOf(bs, rest, lg)
  /\ FixedRest(rest) /\ AdaptiveRest(bs, rest, lg) /\ StaleOf(bs, rest)

\* The list of batches and what it was made of.
SplitInv ==
  /\ Settings /\ file \in Files
  /\ Lists(batches, left, large)

\* Training is at block curBlock - 1, whose negatives are loaded, with those of the
\* next block, if there is one.
BlockInv ==
  /\ trained \in 0 .. Len(batches) /\ (trained > 0 => left = <<>>)
  /\ trained = 0 => curBlock = 0 /\ negs = None /\ negsAsync = None
  /\ trained > 0 =>
       /\ curBlock = LargeOf(batches[trained][1]) + 1
       /\ negs = curBlock - 1
       /\ negsAsync = IF curBlock * LargeBatch < NEdges THEN curBlock ELSE curBlock - 1

\* The edges of the first k batches.
TrainedOn(k) == UNION { Elems(batches[i]) : i \in 1 .. k }

\* A mail: its edge, and its time.
Mails == [edge : Edges, ts : Edges]

\* Mails and clocks are those of edges trained on; what was read for a batch is of
\* the batches before.
MailInv ==
  /\ mail \in [Nodes -> Mails \cup {None}] /\ read \in [Nodes -> Mails \cup {None}]
  /\ memTs \in [Nodes -> Edges \cup {None}]
  /\ \A n \in Nodes :
       /\ mail[n] # None => mail[n].edge \in TrainedOn(trained) /\ mail[n].ts \in TrainedOn(trained)
       /\ memTs[n] # None => memTs[n] \in TrainedOn(trained)
       /\ read[n] # None =>
            /\ trained > 0
            /\ read[n].edge \in TrainedOn(trained - 1) /\ read[n].ts \in TrainedOn(trained - 1)

\* The mail of a node is that of the last edge trained on that it is an end point of.
LatestOf(n) ==
  IF mail[n] = None THEN \A e \in TrainedOn(trained) : n \notin {Src(e), Dst(e)}
  ELSE /\ n \in {Src(mail[n].edge), Dst(mail[n].edge)}
       /\ \A e \in TrainedOn(trained) : n \in {Src(e), Dst(e)} => Tick(e) <= Tick(mail[n].edge)

\* The inductive invariant.
Inv == SplitInv /\ BlockInv /\ MailInv /\ \A n \in Nodes : LatestOf(n)

----------------------------------------------------------------------------
(* Large batches *)

\* The large batch of an edge is a block of the run, and the edge lies in it.
LEMMA LargeFacts ==
  ASSUME NEW e \in Edges
  PROVE  /\ e \in Nat /\ e < NEdges /\ LargeOf(e) \in 0 .. NBlocks - 1
         /\ e % LargeBatch \in 0 .. LargeBatch - 1
         /\ e = LargeOf(e) * LargeBatch + (e % LargeBatch)
  <1>1. e \in Nat /\ e < NEdges /\ LargeBatch \in Nat \ {0} /\ NEdges \in Nat
    BY BatchesAssumption DEF Edges
  <1>2. LargeOf(e) \in Nat
    BY <1>1 DEF LargeOf
  <1>3. LargeOf(e) \in 0 .. NBlocks - 1
    BY <1>1 DEF LargeOf, NBlocks
  <1> QED
    BY <1>1, <1>3, Division DEF LargeOf

\* Which large batch a number is in.
LEMMA LargeOfRange ==
  ASSUME NEW e \in Nat, NEW q \in Nat, NEW r \in 0 .. LargeBatch - 1, e = q * LargeBatch + r
  PROVE  LargeOf(e) = q /\ e % LargeBatch = r
  BY BatchesAssumption DEF LargeOf

\* There are NBlocks large batches.
LEMMA BlockBound ==
  ASSUME NEW q \in Nat
  PROVE  q < NBlocks <=> q * LargeBatch < NEdges
  BY BatchesAssumption DEF NBlocks

\* Blocks are numbers, at least one.
LEMMA BlocksNat == NBlocks \in Nat \ {0}
  BY BatchesAssumption DEF NBlocks

\* Later edges are in the same large batch or in a later one.
LEMMA LargeMonotone ==
  ASSUME NEW e \in Nat, NEW f \in Nat, e <= f
  PROVE  LargeOf(e) <= LargeOf(f) /\ LargeOf(e) \in Nat /\ LargeOf(f) \in Nat
  BY BatchesAssumption DEF LargeOf

\* A fixed batch begins at a multiple of BatchSize, which divides LargeBatch: it
\* does not leave its large batch, and the next one stays there or begins the next.
LEMMA FixedInLarge ==
  ASSUME NEW x \in Nat, x % BatchSize = 0
  PROVE  /\ \A j \in 0 .. BatchSize - 1 : LargeOf(x + j) = LargeOf(x)
         /\ Follows(LargeOf(x), x + BatchSize)
         /\ (x + BatchSize) % BatchSize = 0
  <1>1. PICK L \in Nat \ {0}, B \in Nat \ {0} : L = LargeBatch /\ B = BatchSize /\ L % B = 0
    BY BatchesAssumption
  <1>2. PICK q \in Nat, r \in 0 .. L - 1 : x = q * L + r
    <2>1. x \div L \in Nat /\ x % L \in 0 .. L - 1 /\ x = (x \div L) * L + (x % L)
      BY Division
    <2> QED
      BY <2>1
  <1>3. PICK m \in Nat : L = m * B
    <2>1. L = (L \div B) * B + (L % B) /\ L \div B \in Nat
      BY Division
    <2> QED
      BY <1>1, <2>1
  <1>4. PICK k \in Nat : x = k * B
    <2>1. x = (x \div B) * B + (x % B) /\ x \div B \in Nat
      BY Division
    <2> QED
      BY <1>1, <2>1
  <1>5. r = (k - q * m) * B
    <2>1. q * (m * B) = (q * m) * B /\ q * m \in Nat
      OBVIOUS
    <2>2. k * B - (q * m) * B = (k - q * m) * B
      BY <2>1
    <2> QED
      BY <1>2, <1>3, <1>4, <2>1, <2>2
  <1>6. PICK d \in Int : r = d * B /\ d = k - q * m
    BY <1>5
  <1>7. r + B <= L
    <2>1. d < m
      <3>1. ASSUME d >= m PROVE FALSE
        <4>1. d * B >= m * B
          BY <3>1
        <4> QED
          BY <1>2, <1>3, <1>6, <4>1
      <3> QED
        BY <3>1
    <2>2. (d + 1) * B <= m * B
      BY <2>1
    <2>3. (d + 1) * B = d * B + B
      OBVIOUS
    <2> QED
      BY <1>3, <1>6, <2>2, <2>3
  <1>8. LargeOf(x) = q
    BY <1>1, <1>2, LargeOfRange
  <1>9. ASSUME NEW j \in 0 .. B - 1
        PROVE  LargeOf(x + j) = q
    <2>1. x + j \in Nat /\ r + j \in 0 .. L - 1 /\ x + j = q * L + (r + j)
      BY <1>2, <1>7
    <2> QED
      BY <1>1, <2>1, LargeOfRange
  <1>10. Follows(q, x + B)
    <2>1. CASE r + B < L
      <3>1. x + B \in Nat /\ r + B \in 0 .. L - 1 /\ x + B = q * L + (r + B) /\ r + B # 0
        BY <1>2, <2>1
      <3>2. LargeOf(x + B) = q /\ (x + B) % L = r + B
        BY <1>1, <3>1, LargeOfRange
      <3> QED
        BY <1>1, <3>1, <3>2 DEF Follows
    <2>2. CASE r + B = L
      <3>1. x + B \in Nat /\ 0 \in 0 .. L - 1 /\ x + B = (q + 1) * L + 0 /\ q + 1 \in Nat
        BY <1>2, <2>2
      <3>2. LargeOf(x + B) = q + 1 /\ (x + B) % L = 0
        BY <1>1, <3>1, LargeOfRange
      <3> QED
        BY <1>1, <3>2 DEF Follows
    <2> QED
      BY <1>7, <2>1, <2>2
  <1>11. (x + B) % B = 0
    <2>1. PICK y \in Nat, k2 \in Nat : y = x + B /\ k2 = k + 1
      OBVIOUS
    <2>2. y = k2 * B + 0
      BY <1>4, <2>1
    <2>3. y % B = 0
      BY <2>2
    <2> QED
      BY <2>1, <2>3
  <1> QED
    BY <1>1, <1>8, <1>9, <1>10, <1>11

\* The eids of an interval.
LEMMA EidsFacts ==
  ASSUME NEW from \in Nat, NEW to \in Nat, from < to, to <= NEdges
  PROVE  LET s == Eids(from, to) IN
         /\ s \in Seq(Edges) /\ Len(s) = to - from /\ DOMAIN s = 1 .. to - from /\ s # <<>>
         /\ \A i \in DOMAIN s : s[i] = from + i - 1
         /\ Distinct(s) /\ Elems(s) = from .. to - 1
  <1>1. PICK n \in Nat : n = to - from /\ n >= 1
    OBVIOUS
  <1>2. NEdges \in Nat
    BY BatchesAssumption
  <1> DEFINE s == Eids(from, to)
  <1>3. s = [i \in 1 .. n |-> from + i - 1]
    BY <1>1 DEF Eids
  <1>4. s \in [1 .. n -> Edges]
    <2>1. \A i \in 1 .. n : from + i - 1 \in Edges
      BY <1>1, <1>2 DEF Edges
    <2> QED
      BY <1>3, <2>1
  <1>5. \A i \in 1 .. n : s[i] = from + i - 1
    BY <1>3
  <1> HIDE DEF s
  <1>6. s \in Seq(Edges) /\ Len(s) = n /\ DOMAIN s = 1 .. n
    BY <1>4, FunctionIsSeq
  <1>7. s # <<>>
    BY <1>1, <1>6, EmptySeq
  <1>8. Distinct(s)
    BY <1>5, <1>6 DEF Distinct
  <1>9. Elems(s) = from .. to - 1
    <2>1. ASSUME NEW x \in Elems(s) PROVE x \in from .. to - 1
      <3>1. PICK i \in 1 .. n : x = s[i]
        BY <1>6, <2>1 DEF Elems
      <3> QED
        BY <1>1, <1>5, <3>1
    <2>2. ASSUME NEW x \in from .. to - 1 PROVE x \in Elems(s)
      <3>1. x - from + 1 \in 1 .. n /\ from + (x - from + 1) - 1 = x
        BY <1>1
      <3>2. s[x - from + 1] = x
        BY <1>5, <3>1
      <3> QED
        BY <1>6, <3>1, <3>2 DEF Elems
    <2> QED
      BY <2>1, <2>2
  <1> QED
    BY <1>1, <1>5, <1>6, <1>7, <1>8, <1>9 DEF s

\* The eids of a large batch.
LEMMA LargeEidsFacts ==
  ASSUME NEW l \in 0 .. NBlocks - 1
  PROVE  LET s == LargeEids(l) IN
         /\ s \in Seq(Edges) /\ s # <<>> /\ Distinct(s) /\ s[1] = l * LargeBatch
         /\ s[1] % LargeBatch = 0 /\ \A i \in DOMAIN s : i > 1 => s[i] # l * LargeBatch
         /\ \A e \in Edges : e \in Elems(s) <=> LargeOf(e) = l
  <1>1. PICK L \in Nat \ {0} : L = LargeBatch
    BY BatchesAssumption
  <1>2. l \in Nat /\ l < NBlocks /\ NEdges \in Nat
    BY BlocksNat, BatchesAssumption
  <1>3. l * L < NEdges
    BY <1>1, <1>2, BlockBound
  <1>4. PICK from \in Nat : from = l * L
    BY <1>2
  <1>5. (l + 1) * L = from + L
    BY <1>2, <1>4
  <1>6. PICK to \in Nat : /\ to = Smaller(NEdges, (l + 1) * L)
                          /\ from < to /\ to <= NEdges /\ to <= from + L
                          /\ (to = NEdges \/ to = from + L)
    BY <1>2, <1>3, <1>4, <1>5 DEF Smaller
  <1> DEFINE s == LargeEids(l)
  <1>7. s = Eids(from, to)
    BY <1>1, <1>4, <1>6 DEF LargeEids
  <1> HIDE DEF s
  <1>8. /\ s \in Seq(Edges) /\ DOMAIN s = 1 .. to - from /\ s # <<>>
        /\ \A i \in DOMAIN s : s[i] = from + i - 1
        /\ Distinct(s) /\ Elems(s) = from .. to - 1
    BY <1>6, <1>7, EidsFacts
  <1>9. s[1] = from /\ \A i \in DOMAIN s : i > 1 => s[i] # from
    <2>1. 1 \in 1 .. to - from
      BY <1>6
    <2> QED
      BY <1>8, <2>1
  <1>10. from % L = 0
    <2>1. from = l * L + 0 /\ 0 \in 0 .. L - 1
      BY <1>2, <1>4
    <2> QED
      BY <1>1, <1>2, <2>1, LargeOfRange
  <1>11. ASSUME NEW e \in Edges
         PROVE  e \in Elems(s) <=> LargeOf(e) = l
    <2>1. e \in Nat /\ e < NEdges /\ LargeOf(e) \in Nat /\ e % L \in 0 .. L - 1
          /\ e = LargeOf(e) * L + (e % L)
      BY <1>1, LargeFacts, BlocksNat
    <2>2. ASSUME e \in Elems(s) PROVE LargeOf(e) = l
      <3>1. e - from \in 0 .. L - 1 /\ e = l * L + (e - from)
        BY <1>4, <1>6, <1>8, <2>1, <2>2
      <3> QED
        BY <1>1, <1>2, <2>1, <3>1, LargeOfRange
    <2>3. ASSUME LargeOf(e) = l PROVE e \in Elems(s)
      <3>1. PICK r \in 0 .. L - 1 : e = from + r
        BY <1>4, <2>1, <2>3
      <3>2. e \in from .. to - 1
        BY <1>6, <2>1, <3>1
      <3> QED
        BY <1>8, <3>2
    <2> QED
      BY <2>2, <2>3
  <1> QED
    BY <1>1, <1>4, <1>8, <1>9, <1>10, <1>11 DEF s

----------------------------------------------------------------------------
(* One batch more *)

\* A batch more that begins what was left.
LEMMA ListAppend ==
  ASSUME NEW bs, NEW rest, NEW lg, ListOf(bs), Ordered(bs), RestOf(bs, rest, lg), rest # <<>>,
         NEW b \in Seq(Edges), Len(b) >= 1, b[1] = rest[1], Distinct(b),
         Elems(b) \subseteq Elems(rest),
         \A k \in DOMAIN b : LargeOf(b[k]) = LargeOf(b[1]),
         \A k, m \in DOMAIN b : k <= m => Tick(b[k]) <= Tick(b[m])
  PROVE  /\ ListOf(Append(bs, b)) /\ Ordered(Append(bs, b))
         /\ Listed(Append(bs, b)) = Listed(bs) \cup Elems(b)
         /\ Append(bs, b) # <<>> /\ Append(bs, b)[Len(Append(bs, b))] = b
  <1>1. PICK n \in Nat : n = Len(bs) /\ DOMAIN bs = 1 .. n
    BY LenProperties DEF ListOf
  <1> DEFINE a == Append(bs, b)
  <1>2. /\ a \in Seq(Seq(Edges)) /\ a # <<>> /\ Len(a) = n + 1 /\ DOMAIN a = 1 .. n + 1
        /\ \A i \in 1 .. n : a[i] = bs[i]
        /\ a[n + 1] = b
    <2>1. bs \in Seq(Seq(Edges))
      BY DEF ListOf
    <2>2. /\ a \in Seq(Seq(Edges)) /\ a # <<>> /\ Len(a) = Len(bs) + 1
          /\ \A i \in 1 .. Len(bs) : a[i] = bs[i]
          /\ a[Len(bs) + 1] = b
      BY <2>1, AppendProperties
    <2> QED
      BY <1>1, <2>2, LenProperties
  <1> HIDE DEF a
  <1>3. \A i \in 1 .. n + 1 : (i \in 1 .. n /\ a[i] = bs[i]) \/ (i = n + 1 /\ a[i] = b)
    <2>1. \A i \in 1 .. n + 1 : i \in 1 .. n \/ i = n + 1
      OBVIOUS
    <2> QED
      BY <1>2, <2>1
  <1>4. n + 1 \in 1 .. n + 1 /\ \A i \in 1 .. n : i \in 1 .. n + 1
    OBVIOUS
  <1>5. Listed(a) = Listed(bs) \cup Elems(b)
    <2>1. ASSUME NEW x \in Listed(a) PROVE x \in Listed(bs) \cup Elems(b)
      BY <1>1, <1>2, <1>3, <2>1 DEF Listed
    <2>2. ASSUME NEW x \in Listed(bs) PROVE x \in Listed(a)
      BY <1>1, <1>2, <1>4, <2>2 DEF Listed
    <2>3. ASSUME NEW x \in Elems(b) PROVE x \in Listed(a)
      BY <1>2, <1>4, <2>3 DEF Listed
    <2> QED
      BY <2>1, <2>2, <2>3
  <1>6. \A i \in 1 .. n : \A k : k \in DOMAIN bs[i] => bs[i][k] \in Listed(bs)
    BY <1>1 DEF Listed, Elems
  <1>7. \A k \in DOMAIN b : b[k] \in Elems(rest)
    BY DEF Elems
  <1>8. ListOf(a)
    <2>1. \A i \in 1 .. n + 1 :
            Len(a[i]) >= 1 /\ \A k \in DOMAIN a[i] : LargeOf(a[i][k]) = LargeOf(a[i][1])
      BY <1>1, <1>3 DEF ListOf
    <2>2. a[1][1] = 0
      <3>1. CASE n = 0
        <4>1. bs = <<>>
          BY <1>1, <3>1, EmptySeq DEF ListOf
        <4>2. a[1] = b /\ rest[1] = 0
          BY <1>2, <3>1, <4>1 DEF RestOf
        <4> QED
          BY <4>2
      <3>2. CASE n # 0
        <4>1. bs # <<>> /\ 1 \in 1 .. n
          BY <1>1, <3>2, EmptySeq
        <4> QED
          BY <1>2, <4>1 DEF ListOf
      <3> QED
        BY <3>1, <3>2
    <2>3. ASSUME NEW i \in 1 .. n + 1, i + 1 \in 1 .. n + 1
          PROVE  Follows(LargeOf(a[i][1]), a[i + 1][1])
      <3>1. i \in 1 .. n /\ a[i] = bs[i]
        BY <1>2, <2>3
      <3>2. CASE i + 1 \in 1 .. n
        BY <1>1, <1>2, <3>1, <3>2 DEF ListOf
      <3>3. CASE i = n
        <4>1. bs # <<>>
          BY <1>1, <3>1, EmptySeq
        <4>2. Follows(LargeOf(bs[n][1]), rest[1])
          BY <1>1, <4>1 DEF RestOf
        <4> QED
          BY <1>2, <3>1, <3>3, <4>2
      <3> QED
        BY <2>3, <3>2, <3>3
    <2> QED
      BY <1>2, <2>1, <2>2, <2>3 DEF ListOf
  <1>9. Ordered(a)
    <2> SUFFICES ASSUME NEW i \in 1 .. n + 1, NEW j \in 1 .. n + 1,
                        NEW k \in DOMAIN a[i], NEW m \in DOMAIN a[j]
                 PROVE  /\ a[i][k] = a[j][m] => i = j /\ k = m
                        /\ i < j \/ (i = j /\ k <= m) => Tick(a[i][k]) <= Tick(a[j][m])
      BY <1>2 DEF Ordered
    <2>1. CASE i \in 1 .. n /\ j \in 1 .. n
      <3>1. a[i] = bs[i] /\ a[j] = bs[j]
        BY <1>2, <2>1
      <3> QED
        BY <1>1, <2>1, <3>1 DEF Ordered
    <2>2. CASE i \in 1 .. n /\ j = n + 1
      <3>1. a[i] = bs[i] /\ a[j] = b
        BY <1>2, <2>2
      <3>2. bs[i][k] \in Listed(bs) /\ b[m] \in Elems(rest)
        BY <1>6, <1>7, <2>2, <3>1
      <3> QED
        BY <3>1, <3>2 DEF RestOf
    <2>3. CASE i = n + 1 /\ j \in 1 .. n
      <3>1. a[i] = b /\ a[j] = bs[j]
        BY <1>2, <2>3
      <3>2. bs[j][m] \in Listed(bs) /\ b[k] \in Elems(rest)
        BY <1>6, <1>7, <2>3, <3>1
      <3>3. ~(i < j) /\ i # j
        BY <2>3
      <3> QED
        BY <3>1, <3>2, <3>3 DEF RestOf
    <2>4. CASE i = n + 1 /\ j = n + 1
      <3>1. a[i] = b /\ a[j] = b
        BY <1>2, <2>4
      <3>2. ~(i < j) /\ i = j
        BY <2>4
      <3> QED
        BY <3>1, <3>2 DEF Distinct
    <2> QED
      BY <1>3, <2>1, <2>2, <2>3, <2>4
  <1> QED
    BY <1>2, <1>5, <1>8, <1>9 DEF a

\* What is left stays as it must, if the batch and the rest are the parts of it.
LEMMA RestAppend ==
  ASSUME NEW bs, NEW rest, NEW lg, NEW b, NEW r \in Seq(Edges), RestOf(bs, rest, lg),
         Listed(Append(bs, b)) = Listed(bs) \cup Elems(b),
         Elems(rest) = Elems(b) \cup Elems(r), Elems(b) \cap Elems(r) = {}, Distinct(r),
         \A e \in Elems(b), f \in Elems(r) : Tick(e) <= Tick(f),
         Append(bs, b) # <<>>, Append(bs, b)[Len(Append(bs, b))] = b,
         r # <<>> => Follows(LargeOf(b[1]), r[1])
  PROVE  RestOf(Append(bs, b), r, lg)
  <1>1. /\ lg \in 0 .. NBlocks - 1
        /\ Listed(bs) \cap Elems(rest) = {}
        /\ \A e \in Listed(bs), f \in Elems(rest) : Tick(e) <= Tick(f)
        /\ \A e \in Edges :
             (file = "adaptive" => LargeOf(e) <= lg) => e \in Listed(bs) \cup Elems(rest)
    BY DEF RestOf
  <1>2. Listed(Append(bs, b)) \cap Elems(r) = {}
    BY <1>1
  <1>3. \A e \in Listed(Append(bs, b)), f \in Elems(r) : Tick(e) <= Tick(f)
    BY <1>1
  <1>4. \A e \in Edges : (file = "adaptive" => LargeOf(e) <= lg) =>
           e \in Listed(Append(bs, b)) \cup Elems(r)
    BY <1>1
  <1> QED
    BY <1>1, <1>2, <1>3, <1>4 DEF RestOf

\* A fixed batch more: the next BatchSize edges, or what is left.
LEMMA FixedStep ==
  ASSUME file = "fixed", NEW bs, NEW rest, NEW lg, Lists(bs, rest, lg), rest # <<>>
  PROVE  LET n == Smaller(BatchSize, Len(rest)) IN
         Lists(Append(bs, SubSeq(rest, 1, n)), SubSeq(rest, n + 1, Len(rest)), lg)
  <1>1. PICK B \in Nat \ {0}, r \in Nat \ {0} :
           B = BatchSize /\ r = Len(rest) /\ rest \in Seq(Edges)
    <2>1. rest \in Seq(Edges)
      BY DEF Lists, RestOf
    <2>2. Len(rest) \in Nat /\ Len(rest) # 0
      BY <2>1, LenProperties, EmptySeq
    <2> QED
      BY <2>1, <2>2, BatchesAssumption
  <1>2. PICK n \in 1 .. r : n = Smaller(BatchSize, Len(rest)) /\ n <= B /\ (n = B \/ n = r)
    BY <1>1 DEF Smaller
  <1> DEFINE b == SubSeq(rest, 1, n)
             l == SubSeq(rest, n + 1, Len(rest))
             x == rest[1]
  <1>3. IsCut(rest, n, b, l, Edges)
    <2>1. n \in 0 .. Len(rest)
      BY <1>1, <1>2
    <2> QED
      BY <1>1, <2>1, CutElems
  <1> HIDE DEF b, l
  <1>4. /\ b \in Seq(Edges) /\ Len(b) = n /\ DOMAIN b = 1 .. n /\ \A i \in 1 .. n : b[i] = rest[i]
        /\ l \in Seq(Edges) /\ Len(l) = r - n /\ DOMAIN l = 1 .. r - n
        /\ \A i \in 1 .. r - n : l[i] = rest[n + i]
        /\ Elems(rest) = Elems(b) \cup Elems(l)
        /\ Distinct(b) /\ Distinct(l) /\ Elems(b) \cap Elems(l) = {}
    <2>1. Distinct(rest)
      BY DEF Lists, RestOf
    <2>2. /\ b \in Seq(Edges) /\ Len(b) = n /\ \A i \in 1 .. n : b[i] = rest[i]
          /\ l \in Seq(Edges) /\ Len(l) = Len(rest) - n
          /\ \A i \in 1 .. Len(rest) - n : l[i] = rest[n + i]
          /\ Elems(rest) = Elems(b) \cup Elems(l)
          /\ Distinct(b) /\ Distinct(l) /\ Elems(b) \cap Elems(l) = {}
      BY <1>3, <2>1 DEF IsCut
    <2> QED
      BY <1>1, <2>2, LenProperties
  <1>5. \A i \in 1 .. r : rest[i] = x + i - 1
    <2>1. \A i \in DOMAIN rest : rest[i] = rest[1] + i - 1
      BY DEF Lists, FixedRest
    <2>2. DOMAIN rest = 1 .. r
      BY <1>1, LenProperties
    <2> QED
      BY <2>1, <2>2
  <1>6. x \in Nat /\ x % B = 0
    <2>1. rest[1] % BatchSize = 0
      BY DEF Lists, FixedRest
    <2>2. rest[1] \in Edges
      BY <1>1, FirstElem
    <2> QED
      BY <1>1, <2>1, <2>2, LargeFacts
  <1>7. 1 \in 1 .. n /\ b[1] = x /\ b[1] = rest[1]
    BY <1>2, <1>4
  <1> HIDE DEF x
  <1>8. /\ \A j \in 0 .. B - 1 : LargeOf(x + j) = LargeOf(x)
        /\ Follows(LargeOf(x), x + B) /\ (x + B) % B = 0
    BY <1>1, <1>6, FixedInLarge
  <1>9. ASSUME NEW k \in 1 .. n
        PROVE  b[k] = x + k - 1 /\ LargeOf(b[k]) = LargeOf(x)
    <2>1. b[k] = x + k - 1
      <3>1. k \in 1 .. r
        BY <1>2
      <3>2. b[k] = rest[k]
        BY <1>4
      <3> QED
        BY <1>5, <3>1, <3>2
    <2>2. k - 1 \in 0 .. B - 1 /\ x + k - 1 = x + (k - 1)
      BY <1>2, <1>6
    <2> QED
      BY <1>8, <2>1, <2>2
  <1>10. \A k, m \in DOMAIN b : k <= m => Tick(b[k]) <= Tick(b[m])
    <2> SUFFICES ASSUME NEW k \in 1 .. n, NEW m \in 1 .. n, k <= m
                 PROVE  Tick(b[k]) <= Tick(b[m])
      BY <1>4
    <2>1. b[k] = x + k - 1 /\ b[m] = x + m - 1
      BY <1>9
    <2> QED
      BY <1>6, <2>1 DEF Tick
  <1>11. /\ ListOf(Append(bs, b)) /\ Ordered(Append(bs, b))
         /\ Listed(Append(bs, b)) = Listed(bs) \cup Elems(b)
         /\ Append(bs, b) # <<>> /\ Append(bs, b)[Len(Append(bs, b))] = b
    <2>1. ListOf(bs) /\ Ordered(bs) /\ RestOf(bs, rest, lg)
      BY DEF Lists
    <2>2. Len(b) >= 1 /\ Elems(b) \subseteq Elems(rest)
      BY <1>2, <1>4
    <2>3. \A k \in DOMAIN b : LargeOf(b[k]) = LargeOf(b[1])
      BY <1>4, <1>7, <1>9
    <2>4. b \in Seq(Edges) /\ b[1] = rest[1] /\ Distinct(b)
      BY <1>4, <1>7
    <2> QED
      BY ONLY rest # <<>>, <1>10, <2>1, <2>2, <2>3, <2>4, ListAppend
  <1>12. ASSUME NEW e \in Elems(b), NEW f \in Elems(l)
         PROVE  Tick(e) <= Tick(f)
    <2>1. PICK i \in 1 .. n : e = b[i]
      BY <1>4, <1>12 DEF Elems
    <2>2. PICK j \in 1 .. r - n : f = l[j]
      BY <1>4, <1>12 DEF Elems
    <2>3. e = x + i - 1
      BY <1>9, <2>1
    <2>4. f = x + (n + j) - 1
      <3>1. n + j \in 1 .. r
        OBVIOUS
      <3>2. f = rest[n + j]
        BY <1>4, <2>2
      <3> QED
        BY <1>5, <3>1, <3>2
    <2> QED
      BY <1>6, <2>3, <2>4 DEF Tick
  <1>13. l # <<>> => n = B /\ l[1] = x + B
    <2>1. ASSUME l # <<>> PROVE n = B /\ l[1] = x + B
      <3>1. r - n # 0
        BY <1>4, <2>1, EmptySeq
      <3>2. n = B /\ 1 \in 1 .. r - n /\ n + 1 \in 1 .. r
        BY <1>2, <3>1
      <3>3. l[1] = rest[n + 1] /\ rest[n + 1] = x + (n + 1) - 1
        BY <1>4, <1>5, <3>2
      <3> QED
        BY <1>6, <3>2, <3>3
    <2> QED
      BY <2>1
  <1>14. RestOf(Append(bs, b), l, lg)
    <2>1. RestOf(bs, rest, lg)
      BY DEF Lists
    <2>2. l # <<>> => Follows(LargeOf(b[1]), l[1])
      BY <1>7, <1>8, <1>13
    <2> QED
      BY <1>4, <1>11, <1>12, <2>1, <2>2, RestAppend
  <1>15. FixedRest(l)
    <2>1. ASSUME NEW i \in 1 .. r - n PROVE l[i] = l[1] + i - 1
      <3>1. 1 \in 1 .. r - n /\ n + 1 \in 1 .. r /\ n + i \in 1 .. r
        BY <1>2, <2>1
      <3>2. l[i] = x + (n + i) - 1 /\ l[1] = x + (n + 1) - 1
        BY <1>4, <1>5, <3>1
      <3> QED
        BY <1>6, <3>2
    <2> QED
      BY <1>1, <1>4, <1>8, <1>13, <2>1 DEF FixedRest
  <1>16. AdaptiveRest(Append(bs, b), l, lg) /\ StaleOf(Append(bs, b), l)
    BY DEF AdaptiveRest, StaleOf
  <1>17. Lists(Append(bs, b), l, lg)
    BY <1>11, <1>14, <1>15, <1>16 DEF Lists
  <1> QED
    BY <1>2, <1>17 DEF b, l

\* What is left of large batch lg of an adaptive list, or the next large batch.
LEMMA AdaptiveStep ==
  ASSUME Settings, file = "adaptive", NEW bs, NEW rest, NEW lg, Lists(bs, rest, lg), rest # <<>>
  PROVE  LET s == SplitOff(rest) IN
         IF s.left = <<>> /\ lg + 1 < NBlocks
         THEN Lists(Append(bs, s.batch), LargeEids(lg + 1), lg + 1)
         ELSE Lists(Append(bs, s.batch), s.left, lg)
  <1>1. /\ ListOf(bs) /\ Ordered(bs) /\ RestOf(bs, rest, lg)
        /\ AdaptiveRest(bs, rest, lg) /\ StaleOf(bs, rest)
        /\ rest \in Seq(Edges) /\ Distinct(rest)
    BY DEF Lists, RestOf
  <1>2. PICK b \in Seq(Edges), l \in Seq(Edges) :
           b = SplitOff(rest).batch /\ l = SplitOff(rest).left
    BY <1>1, SplitOffFacts
  <1>3. /\ Len(b) >= 1 /\ b[1] = rest[1]
        /\ Distinct(b) /\ Distinct(l)
        /\ Elems(rest) = Elems(b) \cup Elems(l) /\ Elems(b) \cap Elems(l) = {}
        /\ l = <<>> \/ Staleness(b) >= threshold
        /\ Len(b) > BatchSize =>
             Staleness(SubSeq(b, 1, Len(b) - 1)) < threshold + Loops(SubSeq(b, 1, Len(b) - 1))
    BY <1>1, <1>2, SplitOffFacts
  <1>4. lg \in 0 .. NBlocks - 1 /\ NBlocks \in Nat
    BY <1>1, BlocksNat DEF RestOf
  <1>5. Elems(b) \subseteq Edges /\ Elems(l) \subseteq Edges /\ Elems(rest) \subseteq Edges
        /\ b[1] \in Elems(b) /\ (l # <<>> => l[1] \in Elems(l))
    <2>1. \A t \in Seq(Edges) : Elems(t) \subseteq Edges
      <3>1. \A t \in Seq(Edges) : \A i \in DOMAIN t : t[i] \in Edges
        BY LenProperties, ElementOfSeq
      <3> QED
        BY <3>1 DEF Elems
    <2>2. b # <<>>
      BY <1>3, EmptySeq
    <2> QED
      BY <1>1, <2>1, <2>2, FirstElem
  <1>6. \A e \in Elems(rest) : LargeOf(e) = lg
    BY <1>1 DEF AdaptiveRest
  <1>7. \A k \in DOMAIN b : b[k] \in Elems(b)
    BY DEF Elems
  <1>8. \A e, f \in Elems(rest) : Tick(e) <= Tick(f)
    <2>1. \A e \in Elems(rest) : Tick(e) = lg
      BY <1>6 DEF Tick, LargeOf
    <2> QED
      BY <1>4, <2>1
  <1> DEFINE a == Append(bs, b)
  <1>9. /\ ListOf(a) /\ Ordered(a) /\ Listed(a) = Listed(bs) \cup Elems(b)
        /\ a # <<>> /\ a[Len(a)] = b
    <2>1. \A k \in DOMAIN b : LargeOf(b[k]) = LargeOf(b[1])
      BY <1>3, <1>5, <1>6, <1>7
    <2>2. \A k, m \in DOMAIN b : k <= m => Tick(b[k]) <= Tick(b[m])
      BY <1>3, <1>7, <1>8
    <2>3. Elems(b) \subseteq Elems(rest)
      BY <1>3
    <2> QED
      BY <1>1, <1>3, <2>1, <2>2, <2>3, ListAppend
  <1>10. lg * LargeBatch \notin Elems(l)
    <2> SUFFICES ASSUME lg * LargeBatch \in Elems(l) PROVE FALSE
      OBVIOUS
    <2>1. PICK i \in DOMAIN rest : rest[i] = lg * LargeBatch
      BY <1>3 DEF Elems
    <2>2. i = 1
      <3>1. i \in Nat /\ i >= 1
        BY <1>1, LenProperties
      <3>2. ~(i > 1)
        BY <1>1, <2>1 DEF AdaptiveRest
      <3> QED
        BY <3>1, <3>2
    <2>3. b[1] \in Elems(l)
      BY <1>3, <2>1, <2>2
    <2> QED
      BY <1>3, <1>5, <2>3
  <1>11. l # <<>> => Follows(LargeOf(b[1]), l[1])
    <2> SUFFICES ASSUME l # <<>> PROVE Follows(LargeOf(b[1]), l[1])
      OBVIOUS
    <2>1. l[1] \in Elems(l) /\ l[1] \in Edges /\ LargeOf(l[1]) = lg /\ LargeOf(b[1]) = lg
      BY <1>3, <1>5, <1>6
    <2>2. l[1] % LargeBatch # 0
      <3>1. l[1] = LargeOf(l[1]) * LargeBatch + (l[1] % LargeBatch)
        BY <2>1, LargeFacts
      <3>2. lg * LargeBatch \in Int
        BY <1>4, BatchesAssumption
      <3>3. l[1] % LargeBatch = 0 => l[1] = lg * LargeBatch
        BY <2>1, <3>1, <3>2
      <3> QED
        BY <1>10, <2>1, <3>3
    <2> QED
      BY <2>1, <2>2 DEF Follows
  <1> HIDE DEF a
  <1>12. RestOf(a, l, lg)
    <2>1. \A e \in Elems(b), f \in Elems(l) : Tick(e) <= Tick(f)
      BY <1>3, <1>8
    <2>2. RestOf(Append(bs, b), l, lg)
      BY <1>1, <1>3, <1>9, <1>11, <2>1, RestAppend DEF a
    <2> QED
      BY <2>2 DEF a
  <1>13. \A e \in Listed(a) : LargeOf(e) <= lg
    <2>1. \A e \in Listed(bs) : LargeOf(e) <= lg
      BY <1>1 DEF AdaptiveRest
    <2>2. \A e \in Elems(b) : LargeOf(e) <= lg
      BY <1>3, <1>4, <1>6
    <2> QED
      BY <1>9, <2>1, <2>2
  <1>14. ASSUME NEW r, l = <<>> => r = <<>> \/ r[1] % LargeBatch = 0
         PROVE  StaleOf(a, r)
    <2>1. PICK n \in Nat : n = Len(bs) /\ DOMAIN bs = 1 .. n /\ bs \in Seq(Seq(Edges))
      BY <1>1, LenProperties DEF ListOf
    <2>2. DOMAIN a = 1 .. n + 1 /\ a[n + 1] = b /\ \A i \in 1 .. n : a[i] = bs[i]
      <3>1. /\ a \in Seq(Seq(Edges)) /\ Len(a) = Len(bs) + 1 /\ a[Len(bs) + 1] = b
            /\ \A i \in 1 .. Len(bs) : a[i] = bs[i]
        BY <2>1, AppendProperties DEF a
      <3> QED
        BY <2>1, <3>1, LenProperties
    <2> SUFFICES ASSUME NEW i \in 1 .. n + 1
                 PROVE  /\ \/ Staleness(a[i]) >= threshold
                           \/ IF i + 1 \in DOMAIN a THEN a[i + 1][1] % LargeBatch = 0
                              ELSE r # <<>> => r[1] % LargeBatch = 0
                        /\ Len(a[i]) > BatchSize =>
                             Staleness(SubSeq(a[i], 1, Len(a[i]) - 1)) <
                               threshold + Loops(SubSeq(a[i], 1, Len(a[i]) - 1))
      BY <2>2 DEF StaleOf
    <2>3. \A j \in DOMAIN bs :
            /\ \/ Staleness(bs[j]) >= threshold
               \/ IF j + 1 \in DOMAIN bs THEN bs[j + 1][1] % LargeBatch = 0
                  ELSE rest # <<>> => rest[1] % LargeBatch = 0
            /\ Len(bs[j]) > BatchSize =>
                 Staleness(SubSeq(bs[j], 1, Len(bs[j]) - 1)) <
                   threshold + Loops(SubSeq(bs[j], 1, Len(bs[j]) - 1))
      BY <1>1 DEF StaleOf
    <2>4. CASE i \in 1 .. n - 1
      <3>1. i \in 1 .. n /\ i + 1 \in 1 .. n /\ i + 1 \in 1 .. n + 1
        BY <2>1, <2>4
      <3>2. a[i] = bs[i] /\ a[i + 1] = bs[i + 1]
        BY <2>2, <3>1
      <3> QED
        BY <2>1, <2>2, <2>3, <3>1, <3>2
    <2>5. CASE i = n /\ n # 0
      <3>1. i \in 1 .. n /\ i + 1 \notin 1 .. n /\ i + 1 \in 1 .. n + 1 /\ i + 1 = n + 1
        BY <2>1, <2>5
      <3>2. a[i] = bs[i] /\ a[i + 1] = b
        BY <2>2, <3>1
      <3> QED
        BY <1>3, <2>1, <2>2, <2>3, <3>1, <3>2
    <2>6. CASE i = n + 1
      <3>1. i + 1 \notin 1 .. n + 1 /\ a[i] = b
        BY <2>1, <2>2, <2>6
      <3>2. Staleness(b) >= threshold \/ (r # <<>> => r[1] % LargeBatch = 0)
        BY <1>3, <1>14
      <3> QED
        BY <1>3, <2>2, <3>1, <3>2
    <2>7. i \in 1 .. n - 1 \/ (i = n /\ n # 0) \/ i = n + 1
      BY <2>1
    <2> QED
      BY <2>4, <2>5, <2>6, <2>7
  <1>15. CASE l = <<>> /\ lg + 1 < NBlocks
    <2>1. PICK r \in Seq(Edges) : r = LargeEids(lg + 1)
      BY <1>4, <1>15, LargeEidsFacts
    <2>2. lg + 1 \in 0 .. NBlocks - 1
      BY <1>4, <1>15
    <2>3. /\ r # <<>> /\ Distinct(r) /\ r[1] = (lg + 1) * LargeBatch
          /\ r[1] % LargeBatch = 0 /\ \A i \in DOMAIN r : i > 1 => r[i] # (lg + 1) * LargeBatch
          /\ \A e \in Edges : e \in Elems(r) <=> LargeOf(e) = lg + 1
      BY <2>1, <2>2, LargeEidsFacts
    <2>4. Elems(r) \subseteq Edges /\ r[1] \in Elems(r)
      BY <2>1, <2>3, FirstElem
    <2>5. Listed(a) \subseteq Edges
      <3>1. \A t \in Seq(Edges) : \A i \in DOMAIN t : t[i] \in Edges
        BY LenProperties, ElementOfSeq
      <3>2. a \in Seq(Seq(Edges))
        BY <1>9 DEF ListOf
      <3>3. \A i \in DOMAIN a : a[i] \in Seq(Edges)
        BY <3>2, LenProperties, ElementOfSeq
      <3> QED
        BY <3>1, <3>3 DEF Listed, Elems
    <2>6. Elems(l) = {}
      BY <1>15, NoElems
    <2>7. \A e \in Edges : LargeOf(e) <= lg => e \in Listed(a)
      BY <1>12, <2>6 DEF RestOf
    <2>8. RestOf(a, r, lg + 1)
      <3>1. Listed(a) \cap Elems(r) = {}
        <4>1. \A e \in Listed(a) : LargeOf(e) # lg + 1
          <5>1. \A e \in Listed(a) : LargeOf(e) <= lg /\ LargeOf(e) \in Nat
            BY <1>13, <2>5, LargeFacts, BlocksNat
          <5> QED
            BY <1>4, <5>1
        <4> QED
          BY <2>3, <2>4, <4>1
      <3>2. \A e \in Listed(a), f \in Elems(r) : Tick(e) <= Tick(f)
        <4> SUFFICES ASSUME NEW e \in Listed(a), NEW f \in Elems(r) PROVE Tick(e) <= Tick(f)
          OBVIOUS
        <4>1. LargeOf(e) <= lg /\ LargeOf(f) = lg + 1 /\ LargeOf(e) \in Nat
          BY <1>13, <2>3, <2>4, <2>5, LargeFacts, BlocksNat
        <4>2. LargeOf(e) <= LargeOf(f)
          BY <1>4, <4>1
        <4> QED
          BY <4>2 DEF Tick, LargeOf
      <3>3. \A e \in Edges : LargeOf(e) <= lg + 1 => e \in Listed(a) \cup Elems(r)
        <4> SUFFICES ASSUME NEW e \in Edges, LargeOf(e) <= lg + 1
                     PROVE  e \in Listed(a) \cup Elems(r)
          OBVIOUS
        <4>1. LargeOf(e) <= lg \/ LargeOf(e) = lg + 1
          BY <1>4, LargeFacts, BlocksNat
        <4> QED
          BY <2>3, <2>7, <4>1
      <3>4. Follows(LargeOf(a[Len(a)][1]), r[1])
        <4>1. LargeOf(b[1]) = lg /\ LargeOf(r[1]) = lg + 1
          BY <1>3, <1>5, <1>6, <2>3, <2>4
        <4> QED
          BY <1>9, <2>3, <4>1 DEF Follows
      <3> QED
        BY <1>9, <2>1, <2>2, <2>3, <3>1, <3>2, <3>3, <3>4 DEF RestOf
    <2>9. AdaptiveRest(a, r, lg + 1)
      <3>1. \A e \in Listed(a) : LargeOf(e) <= lg + 1
        <4>1. \A e \in Listed(a) : LargeOf(e) <= lg /\ LargeOf(e) \in Nat
          BY <1>13, <2>5, LargeFacts, BlocksNat
        <4> QED
          BY <1>4, <4>1
      <3>2. \A e \in Elems(r) : LargeOf(e) = lg + 1
        BY <2>3, <2>4
      <3> QED
        BY <2>3, <3>1, <3>2 DEF AdaptiveRest
    <2>10. FixedRest(r)
      BY DEF FixedRest
    <2>11. StaleOf(a, r)
      BY <1>14, <2>3
    <2>12. Lists(a, r, lg + 1)
      BY <1>9, <2>8, <2>9, <2>10, <2>11 DEF Lists
    <2> QED
      BY <1>2, <1>15, <2>1, <2>12 DEF a
  <1>16. CASE ~(l = <<>> /\ lg + 1 < NBlocks)
    <2>1. AdaptiveRest(a, l, lg)
      <3>1. \A e \in Elems(l) : LargeOf(e) = lg
        BY <1>3, <1>6
      <3>2. \A i \in DOMAIN l : l[i] # lg * LargeBatch
        BY <1>10 DEF Elems
      <3>3. l = <<>> => lg = NBlocks - 1
        BY <1>4, <1>16
      <3> QED
        BY <1>13, <3>1, <3>2, <3>3 DEF AdaptiveRest
    <2>2. FixedRest(l)
      BY DEF FixedRest
    <2>3. StaleOf(a, l)
      BY <1>14
    <2>4. Lists(a, l, lg)
      BY <1>9, <1>12, <2>1, <2>2, <2>3 DEF Lists
    <2> QED
      BY <1>2, <1>16, <2>4 DEF a
  <1> QED
    BY <1>15, <1>16

----------------------------------------------------------------------------
(* The steps *)

\* The first state.
LEMMA InvInit == Init => Inv
  <1> SUFFICES ASSUME Init PROVE Inv
    OBVIOUS
  <1>1. /\ Settings /\ file \in Files /\ batches = <<>> /\ large = 0
        /\ trained = 0 /\ curBlock = 0 /\ negs = None /\ negsAsync = None
        /\ left = IF file = "adaptive" THEN LargeEids(0) ELSE Eids(0, NEdges)
    BY BatchesAssumption DEF Init, Settings
  <1>2. DOMAIN batches = {} /\ Listed(batches) = {} /\ Len(batches) = 0
        /\ batches \in Seq(Seq(Edges))
    <2>1. Listed(batches) = {}
      BY <1>1 DEF Listed
    <2>2. batches \in Seq(Seq(Edges)) /\ Len(batches) = 0
      BY <1>1, EmptySeq
    <2> QED
      BY <1>1, <2>1, <2>2
  <1>3. ListOf(batches) /\ Ordered(batches) /\ StaleOf(batches, left)
    BY <1>1, <1>2 DEF ListOf, Ordered, StaleOf
  <1>4. 0 \in 0 .. NBlocks - 1 /\ NEdges \in Nat /\ 0 < NEdges /\ 0 * LargeBatch = 0
    BY BlocksNat, BatchesAssumption
  <1>5. ASSUME file = "adaptive" PROVE Lists(batches, left, large)
    <2>1. PICK s : s = LargeEids(0) /\ left = s
      BY <1>1, <1>5
    <2>2. /\ s \in Seq(Edges) /\ s # <<>> /\ Distinct(s) /\ s[1] = 0 * LargeBatch
          /\ \A i \in DOMAIN s : i > 1 => s[i] # 0 * LargeBatch
          /\ \A e \in Edges : e \in Elems(s) <=> LargeOf(e) = 0
      BY <1>4, <2>1, LargeEidsFacts
    <2>3. Elems(s) \subseteq Edges
      BY <2>2, FirstElem
    <2>4. \A e \in Edges : LargeOf(e) <= 0 => e \in Elems(s)
      BY <2>2, LargeFacts, BlocksNat
    <2>5. RestOf(batches, left, large)
      <3>1. left \in Seq(Edges) /\ large \in 0 .. NBlocks - 1 /\ Distinct(left) /\ left[1] = 0
        BY <1>1, <1>4, <2>1, <2>2
      <3>2. \A e \in Edges : (file = "adaptive" => LargeOf(e) <= large) => e \in Elems(left)
        BY <1>1, <1>5, <2>1, <2>4
      <3> QED
        BY <1>1, <1>2, <3>1, <3>2 DEF RestOf
    <2>6. AdaptiveRest(batches, left, large) /\ FixedRest(left)
      BY <1>1, <1>2, <1>5, <2>1, <2>2, <2>3 DEF AdaptiveRest, FixedRest
    <2> QED
      BY <1>3, <2>5, <2>6 DEF Lists
  <1>6. ASSUME file # "adaptive" PROVE Lists(batches, left, large)
    <2>1. PICK s : s = Eids(0, NEdges) /\ left = s
      BY <1>1, <1>6
    <2>2. /\ s \in Seq(Edges) /\ s # <<>> /\ Distinct(s) /\ DOMAIN s = 1 .. NEdges - 0
          /\ \A i \in DOMAIN s : s[i] = 0 + i - 1
          /\ Elems(s) = 0 .. NEdges - 1
      BY <1>4, <2>1, EidsFacts
    <2>3. s[1] = 0 /\ \A i \in DOMAIN s : s[i] = s[1] + i - 1
      BY <1>4, <2>2
    <2>4. 0 % BatchSize = 0
      BY BatchesAssumption
    <2>5. RestOf(batches, left, large)
      BY <1>1, <1>2, <1>4, <2>1, <2>2, <2>3 DEF RestOf, Edges
    <2>6. AdaptiveRest(batches, left, large) /\ FixedRest(left)
      <3>1. /\ \A i \in DOMAIN left : left[i] = left[1] + i - 1
            /\ left # <<>> => left[1] % BatchSize = 0
        BY <2>1, <2>3, <2>4
      <3> QED
        BY <1>6, <3>1 DEF AdaptiveRest, FixedRest
    <2> QED
      BY <1>3, <2>5, <2>6 DEF Lists
  <1>7. SplitInv
    BY <1>1, <1>5, <1>6, <1>3 DEF SplitInv
  <1>8. BlockInv
    BY <1>1, <1>2 DEF BlockInv
  <1>9. TrainedOn(0) = {}
    BY DEF TrainedOn
  <1>10. MailInv
    <2>1. \A n \in Nodes : mail[n] = None /\ memTs[n] = None /\ read[n] = None
      BY DEF Init
    <2>2. /\ mail \in [Nodes -> Mails \cup {None}] /\ read \in [Nodes -> Mails \cup {None}]
          /\ memTs \in [Nodes -> Edges \cup {None}]
      BY DEF Init
    <2> QED
      BY <2>1, <2>2 DEF MailInv
  <1>11. \A n \in Nodes : LatestOf(n)
    <2>1. \A n \in Nodes : mail[n] = None
      BY DEF Init
    <2> QED
      BY <1>1, <1>9, <2>1 DEF LatestOf
  <1> QED
    BY <1>7, <1>8, <1>10, <1>11 DEF Inv

\* The settings are constant: lists that are right are right in the next state.
LEMMA ListsNext ==
  ASSUME UNCHANGED settings, Lists(batches', left', large')
  PROVE  Lists(batches, left, large)'
  <1>1. ends' = ends /\ file' = file /\ threshold' = threshold
    BY DEF settings
  <1>2. /\ ListOf(batches') /\ Ordered(batches') /\ RestOf(batches', left', large')
        /\ FixedRest(left') /\ AdaptiveRest(batches', left', large') /\ StaleOf(batches', left')
    BY DEF Lists
  <1>3. ListOf(batches)'
    BY <1>2 DEF ListOf
  <1>4. Ordered(batches)'
    BY <1>1, <1>2 DEF Ordered, Tick
  <1>5. RestOf(batches, left, large)'
    BY <1>1, <1>2 DEF RestOf, Tick
  <1>6. FixedRest(left)' /\ AdaptiveRest(batches, left, large)'
    BY <1>1, <1>2 DEF FixedRest, AdaptiveRest
  <1>7. StaleOf(batches, left)'
    <2> SUFFICES ASSUME file = "adaptive", NEW i \in DOMAIN batches'
                 PROVE  LET front == SubSeq(batches[i], 1, Len(batches[i]) - 1) IN
                        (/\ \/ Staleness(batches[i]) >= threshold
                            \/ IF i + 1 \in DOMAIN batches THEN batches[i + 1][1] % LargeBatch = 0
                               ELSE left # <<>> => left[1] % LargeBatch = 0
                         /\ Len(batches[i]) > BatchSize =>
                              Staleness(front) < threshold + Loops(front))'
      BY <1>1 DEF StaleOf
    <2> DEFINE f == SubSeq(batches[i], 1, Len(batches[i]) - 1)
    <2>1. PICK s, t : s = batches'[i] /\ t = SubSeq(s, 1, Len(s) - 1)
      OBVIOUS
    <2>2. /\ \/ Staleness(s) >= threshold
             \/ IF i + 1 \in DOMAIN batches' THEN batches'[i + 1][1] % LargeBatch = 0
                ELSE left' # <<>> => left'[1] % LargeBatch = 0
          /\ Len(s) > BatchSize => Staleness(t) < threshold + Loops(t)
      BY <1>2, <2>1 DEF StaleOf
    <2>3. EndPoints(batches[i])' = EndPoints(s)
      BY <1>1, <2>1 DEF EndPoints, Src, Dst
    <2>4. EndPoints(f)' = EndPoints(t)
      BY <1>1, <2>1 DEF EndPoints, Src, Dst
    <2>5. Staleness(batches[i])' = Staleness(s) /\ Staleness(f)' = Staleness(t)
      BY <2>1, <2>3, <2>4 DEF Staleness
    <2>6. Loops(f)' = Loops(t)
      BY <1>1, <2>1 DEF Loops, Src, Dst
    <2> QED
      BY <1>1, <2>1, <2>2, <2>5, <2>6
  <1> QED
    BY <1>3, <1>4, <1>5, <1>6, <1>7 DEF Lists

\* Nothing has been trained on while the list is made.
LEMMA InvSplit ==
  ASSUME Inv, SplitFixed \/ SplitAdaptive
  PROVE  Inv'
  <1>1. /\ UNCHANGED settings /\ UNCHANGED trainVars /\ left # <<>>
        /\ Settings /\ file \in Files /\ Lists(batches, left, large)
    BY DEF SplitFixed, SplitAdaptive, Inv, SplitInv
  <1>2. Lists(batches', left', large')
    <2>1. CASE SplitFixed
      <3>1. PICK n : n = Smaller(BatchSize, Len(left))
        OBVIOUS
      <3>2. /\ file = "fixed" /\ batches' = Append(batches, SubSeq(left, 1, n))
            /\ left' = SubSeq(left, n + 1, Len(left)) /\ large' = large
        BY <2>1, <3>1 DEF SplitFixed, Collected
      <3>3. Lists(Append(batches, SubSeq(left, 1, n)), SubSeq(left, n + 1, Len(left)), large)
        BY <1>1, <3>1, <3>2, FixedStep
      <3> QED
        BY <3>2, <3>3
    <2>2. CASE SplitAdaptive
      <3>1. PICK s : s = SplitOff(left)
        OBVIOUS
      <3>2. /\ file = "adaptive" /\ batches' = Append(batches, s.batch)
            /\ IF s.left = <<>> /\ large + 1 < NBlocks
               THEN large' = large + 1 /\ left' = LargeEids(large + 1)
               ELSE large' = large /\ left' = s.left
        BY <2>2, <3>1 DEF SplitAdaptive, Collected
      <3>3. IF s.left = <<>> /\ large + 1 < NBlocks
            THEN Lists(Append(batches, s.batch), LargeEids(large + 1), large + 1)
            ELSE Lists(Append(batches, s.batch), s.left, large)
        BY <1>1, <3>1, <3>2, AdaptiveStep
      <3> QED
        BY <3>2, <3>3
    <2> QED
      BY <2>1, <2>2
  <1>3. ends' = ends /\ file' = file /\ threshold' = threshold
    BY <1>1 DEF settings
  <1>4. SplitInv'
    <2>1. Settings'
      BY <1>1, <1>3 DEF Settings
    <2> QED
      BY <1>1, <1>2, <1>3, <2>1, ListsNext DEF SplitInv
  <1>5. /\ trained = 0 /\ trained' = 0 /\ curBlock' = curBlock /\ negs' = negs
        /\ negsAsync' = negsAsync /\ mail' = mail /\ memTs' = memTs /\ read' = read
    <2>1. trained \in Nat /\ ~(trained > 0)
      <3>1. trained \in 0 .. Len(batches) /\ Len(batches) \in Nat
        BY <1>1, LenProperties DEF Inv, BlockInv, Lists, ListOf
      <3> QED
        BY <1>1, <3>1 DEF Inv, BlockInv
    <2> QED
      BY <1>1, <2>1 DEF trainVars
  <1>6. BlockInv'
    <2>1. Len(batches') \in Nat
      BY <1>2, LenProperties DEF Lists, ListOf
    <2> QED
      BY <1>5, <2>1 DEF Inv, BlockInv
  <1>7. TrainedOn(0) = {} /\ TrainedOn(0)' = {}
    BY DEF TrainedOn
  <1>8. \A n \in Nodes : mail[n] = None /\ memTs[n] = None /\ read[n] = None
    BY <1>5, <1>7 DEF Inv, MailInv
  <1>9. MailInv'
    BY <1>5, <1>8 DEF Inv, MailInv
  <1>10. \A n \in Nodes : LatestOf(n)'
    BY <1>5, <1>7, <1>8 DEF LatestOf, TrainedOn
  <1> QED
    BY <1>4, <1>6, <1>9, <1>10 DEF Inv

----------------------------------------------------------------------------
(* What one batch stores *)

\* The end points of a batch as update_mailbox lists them.
Alternating(b) ==
  [p \in 1 .. 2 * Len(b) |-> IF p % 2 = 1 THEN Src(b[(p + 1) \div 2]) ELSE Dst(b[p \div 2])]

\* As update_memory lists them.
SourcesFirst(b) == [i \in 1 .. Len(b) |-> Src(b[i])] \o [i \in 1 .. Len(b) |-> Dst(b[i])]

\* The position the mail of node n comes from.
MailAt(b, n) == LastOf(Alternating(b), n)

\* The position the clock of node n comes from.
ClockAt(b, n) == LastOf(SourcesFirst(b), n)

\* Batch b stores for node n the mail of its last edge with this end point, and a
\* time of one of its edges.
Stores(b, n, m) ==
  /\ m \in Mails
  /\ \E i \in DOMAIN b : m.edge = b[i] /\ n \in {Src(b[i]), Dst(b[i])}
                         /\ \A j \in DOMAIN b : n \in {Src(b[j]), Dst(b[j])} => j <= i
  /\ m.ts \in Elems(b)

\* The last position of an element that a list of length N has.
LEMMA LastOfFacts ==
  ASSUME NEW s, NEW N \in Nat, DOMAIN s = 1 .. N, NEW n, \E p \in DOMAIN s : s[p] = n
  PROVE  LET p == LastOf(s, n) IN
         p \in 1 .. N /\ s[p] = n /\ \A q \in 1 .. N : s[q] = n => q <= p
  <1> DEFINE T == { p \in 1 .. N : s[p] = n }
  <1>1. T \in SUBSET (1 .. N) /\ T # {}
    OBVIOUS
  <1>2. \E x \in T : \A y \in T : y <= x
    BY <1>1, LargestNatural
  <1>3. \E p \in DOMAIN s : s[p] = n /\ \A q \in DOMAIN s : s[q] = n => q <= p
    BY <1>2
  <1> QED
    BY <1>3 DEF LastOf

\* Mails are written in pairs, the source's and the destination's.
LEMMA MailStored ==
  ASSUME Settings, NEW b \in Seq(Edges), NEW n \in EndPoints(b)
  PROVE  LET p == MailAt(b, n) IN
         Stores(b, n, [edge |-> b[(p + 1) \div 2], ts |-> b[((p - 1) % Len(b)) + 1]])
  <1>1. PICK m \in Nat : m = Len(b) /\ DOMAIN b = 1 .. m /\ \A i \in 1 .. m : b[i] \in Edges
    BY LenProperties, ElementOfSeq
  <1> DEFINE s == Alternating(b)
  <1>2. DOMAIN s = 1 .. 2 * m
    BY <1>1 DEF Alternating
  <1>3. ASSUME NEW i \in 1 .. m
        PROVE  /\ 2 * i - 1 \in 1 .. 2 * m /\ s[2 * i - 1] = Src(b[i])
               /\ 2 * i \in 1 .. 2 * m /\ s[2 * i] = Dst(b[i])
    <2>1. /\ 2 * i - 1 \in 1 .. 2 * m /\ (2 * i - 1) % 2 = 1 /\ ((2 * i - 1) + 1) \div 2 = i
          /\ 2 * i \in 1 .. 2 * m /\ (2 * i) % 2 # 1 /\ (2 * i) \div 2 = i
      OBVIOUS
    <2> QED
      BY <1>1, <2>1 DEF Alternating
  <1>4. ASSUME NEW p \in 1 .. 2 * m
        PROVE  /\ (p + 1) \div 2 \in 1 .. m
               /\ s[p] \in {Src(b[(p + 1) \div 2]), Dst(b[(p + 1) \div 2])}
    <2>1. (p + 1) \div 2 \in 1 .. m
      OBVIOUS
    <2>2. CASE p % 2 = 1
      BY <1>1, <2>2 DEF Alternating
    <2>3. CASE p % 2 # 1
      <3>1. p \div 2 = (p + 1) \div 2
        BY <2>3
      <3> QED
        BY <1>1, <2>3, <3>1 DEF Alternating
    <2> QED
      BY <2>1, <2>2, <2>3
  <1> HIDE DEF s
  <1>5. PICK i0 \in 1 .. m : n \in {Src(b[i0]), Dst(b[i0])}
    BY <1>1 DEF EndPoints
  <1>6. \E p \in DOMAIN s : s[p] = n
    BY <1>2, <1>3, <1>5
  <1>7. PICK p \in 1 .. 2 * m : /\ p = MailAt(b, n) /\ s[p] = n
                                /\ \A q \in 1 .. 2 * m : s[q] = n => q <= p
    <2>1. 2 * m \in Nat
      OBVIOUS
    <2>2. LET p == LastOf(s, n) IN
          p \in 1 .. 2 * m /\ s[p] = n /\ \A q \in 1 .. 2 * m : s[q] = n => q <= p
      BY <1>2, <1>6, <2>1, LastOfFacts
    <2> QED
      BY <2>2 DEF MailAt, s
  <1>8. PICK i \in 1 .. m : i = (p + 1) \div 2 /\ n \in {Src(b[i]), Dst(b[i])}
    BY <1>4, <1>7
  <1>9. ASSUME NEW j \in 1 .. m, n \in {Src(b[j]), Dst(b[j])}
        PROVE  j <= i
    <2>1. 2 * j - 1 <= p
      <3>1. 2 * j - 1 <= p \/ 2 * j <= p
        BY <1>3, <1>7, <1>9
      <3> QED
        BY <3>1
    <2> QED
      BY <1>8, <2>1
  <1>10. b[((p - 1) % Len(b)) + 1] \in Elems(b) /\ b[((p - 1) % Len(b)) + 1] \in Edges
    <2>1. m \in Nat \ {0} /\ p - 1 \in Nat
      OBVIOUS
    <2>2. (p - 1) % m \in 0 .. m - 1
      BY <2>1, Division
    <2>3. ((p - 1) % m) + 1 \in 1 .. m
      BY <2>2
    <2> QED
      BY <1>1, <2>3 DEF Elems
  <1> QED
    BY <1>1, <1>7, <1>8, <1>9, <1>10 DEF Stores, Mails

\* The clock of a node is set to the time of an edge of the batch.
LEMMA ClockStored ==
  ASSUME Settings, NEW b \in Seq(Edges), NEW n \in EndPoints(b)
  PROVE  b[((ClockAt(b, n) - 1) % Len(b)) + 1] \in Elems(b)
  <1>1. PICK m \in Nat : m = Len(b) /\ DOMAIN b = 1 .. m /\ \A i \in 1 .. m : b[i] \in Edges
    BY LenProperties, ElementOfSeq
  <1>2. Settings /\ \A e \in Edges : Src(e) \in Nodes /\ Dst(e) \in Nodes
    BY DEF Settings, Src, Dst
  <1> DEFINE u == [i \in 1 .. m |-> Src(b[i])]
             v == [i \in 1 .. m |-> Dst(b[i])]
             s == u \o v
  <1>3. u \in [1 .. m -> Nodes] /\ v \in [1 .. m -> Nodes]
    BY <1>1, <1>2
  <1>4. \A i \in 1 .. m : u[i] = Src(b[i]) /\ v[i] = Dst(b[i])
    OBVIOUS
  <1>5. SourcesFirst(b) = s
    BY <1>1 DEF SourcesFirst
  <1> HIDE DEF u, v
  <1>6. u \in Seq(Nodes) /\ Len(u) = m /\ v \in Seq(Nodes) /\ Len(v) = m
    BY <1>3, FunctionIsSeq
  <1>7. /\ s \in Seq(Nodes) /\ Len(s) = Len(u) + Len(v)
        /\ \A i \in 1 .. Len(u) + Len(v) : s[i] = IF i <= Len(u) THEN u[i] ELSE v[i - Len(u)]
    BY ONLY <1>6, ConcatProperties
  <1>8. DOMAIN s = 1 .. m + m
    BY <1>6, <1>7, LenProperties
  <1> HIDE DEF s
  <1>9. PICK i0 \in 1 .. m : n \in {Src(b[i0]), Dst(b[i0])}
    BY <1>1 DEF EndPoints
  <1>10. \E p \in DOMAIN s : s[p] = n
    <2>1. i0 \in 1 .. m + m /\ i0 <= m /\ m + i0 \in 1 .. m + m /\ ~(m + i0 <= m) /\ m + i0 - m = i0
      OBVIOUS
    <2>2. s[i0] = Src(b[i0]) /\ s[m + i0] = Dst(b[i0])
      BY <1>4, <1>6, <1>7, <2>1
    <2> QED
      BY <1>8, <1>9, <2>1, <2>2
  <1>11. PICK p \in 1 .. m + m : p = ClockAt(b, n)
    <2>1. m + m \in Nat
      OBVIOUS
    <2>2. LET p == LastOf(s, n) IN p \in 1 .. m + m
      BY <1>8, <1>10, <2>1, LastOfFacts
    <2> QED
      BY <1>5, <2>2 DEF ClockAt
  <1>12. m \in Nat \ {0} /\ p - 1 \in Nat
    OBVIOUS
  <1>13. (p - 1) % m \in 0 .. m - 1
    BY <1>12, Division
  <1>14. ((p - 1) % m) + 1 \in 1 .. m
    BY <1>13
  <1> QED
    BY <1>1, <1>11, <1>14 DEF Elems

\* What a round of training changes.
LEMMA TrainChanges ==
  ASSUME Train
  PROVE  LET b == batches[trained + 1] IN
         /\ trained < Len(batches) /\ left = <<>> /\ trained' = trained + 1 /\ read' = mail
         /\ UNCHANGED <<ends, file, threshold, large, left, batches>>
         /\ RunBatch(b[1])
         /\ mail' = [n \in Nodes |->
                       IF n \notin EndPoints(b) THEN mail[n]
                       ELSE [edge |-> b[(MailAt(b, n) + 1) \div 2],
                             ts |-> b[((MailAt(b, n) - 1) % Len(b)) + 1]]]
         /\ memTs' = [n \in Nodes |->
                        IF n \notin EndPoints(b) THEN memTs[n]
                        ELSE b[((ClockAt(b, n) - 1) % Len(b)) + 1]]
  <1> DEFINE b == batches[trained + 1]
  <1>1. /\ trained < Len(batches) /\ left = <<>> /\ trained' = trained + 1 /\ read' = mail
        /\ UNCHANGED <<ends, file, threshold, large, left, batches>>
        /\ RunBatch(b[1]) /\ UpdateMailbox(b) /\ UpdateMemory(b)
    BY DEF Train, settings, splitVars
  <1>2. mail' = [n \in Nodes |->
                   IF n \notin EndPoints(b) THEN mail[n]
                   ELSE [edge |-> b[(MailAt(b, n) + 1) \div 2],
                         ts |-> b[((MailAt(b, n) - 1) % Len(b)) + 1]]]
    BY <1>1, Zenon DEF UpdateMailbox, MailAt, Alternating
  <1>3. memTs' = [n \in Nodes |->
                    IF n \notin EndPoints(b) THEN memTs[n]
                    ELSE b[((ClockAt(b, n) - 1) % Len(b)) + 1]]
    BY <1>1, Zenon DEF UpdateMemory, ClockAt, SourcesFirst
  <1> QED
    BY <1>1, <1>2, <1>3

\* The edges of one batch more.
LEMMA TrainedOnNext ==
  ASSUME NEW k \in Nat
  PROVE  /\ TrainedOn(k + 1) = TrainedOn(k) \cup Elems(batches[k + 1])
         /\ k > 0 => TrainedOn(k - 1) \subseteq TrainedOn(k)
  <1>1. 1 .. k + 1 = 1 .. k \cup {k + 1} /\ 1 .. k - 1 \subseteq 1 .. k
    OBVIOUS
  <1> QED
    BY <1>1 DEF TrainedOn

\* A batch of the list, and how it lies to the batches before.
LEMMA BatchFacts ==
  ASSUME Lists(batches, left, large), NEW k \in 1 .. Len(batches)
  PROVE  LET b == batches[k] IN
         /\ b \in Seq(Edges) /\ Len(b) >= 1 /\ 1 \in DOMAIN b /\ Elems(b) \subseteq Edges
         /\ TrainedOn(k - 1) \subseteq Edges
         /\ \A e \in Elems(b) : LargeOf(e) = LargeOf(b[1])
         /\ \A e \in TrainedOn(k - 1), f \in Elems(b) : e # f /\ Tick(e) <= Tick(f)
         /\ \A i, j \in DOMAIN b : i <= j => Tick(b[i]) <= Tick(b[j])
         /\ k = 1 => b[1] = 0
         /\ k > 1 => Follows(LargeOf(batches[k - 1][1]), b[1])
  <1>1. PICK N \in Nat : N = Len(batches) /\ DOMAIN batches = 1 .. N
                         /\ \A i \in 1 .. N : batches[i] \in Seq(Edges)
    <2>1. batches \in Seq(Seq(Edges))
      BY DEF Lists, ListOf
    <2> QED
      BY <2>1, LenProperties, ElementOfSeq
  <1> DEFINE b == batches[k]
  <1>2. b \in Seq(Edges) /\ Len(b) >= 1 /\ \A i \in DOMAIN b : LargeOf(b[i]) = LargeOf(b[1])
    BY <1>1 DEF Lists, ListOf
  <1>3. \A t \in Seq(Edges) : Elems(t) \subseteq Edges
    <2>1. \A t \in Seq(Edges) : \A i \in DOMAIN t : t[i] \in Edges
      BY LenProperties, ElementOfSeq
    <2> QED
      BY <2>1 DEF Elems
  <1>4. \A i \in 1 .. k - 1 : i \in 1 .. N /\ i < k
    BY <1>1
  <1>5. 1 \in DOMAIN b
    BY <1>2, LenProperties
  <1>6. TrainedOn(k - 1) \subseteq Edges
    BY <1>1, <1>3, <1>4 DEF TrainedOn
  <1>7. \A e \in Elems(b) : LargeOf(e) = LargeOf(b[1])
    BY <1>2 DEF Elems
  <1>8. ASSUME NEW e \in TrainedOn(k - 1), NEW f \in Elems(b)
        PROVE  e # f /\ Tick(e) <= Tick(f)
    <2>1. PICK i \in 1 .. k - 1 : e \in Elems(batches[i])
      BY DEF TrainedOn
    <2>2. PICK x \in DOMAIN batches[i] : e = batches[i][x]
      BY <2>1 DEF Elems
    <2>3. PICK y \in DOMAIN b : f = b[y]
      BY <1>8 DEF Elems
    <2>4. Ordered(batches) /\ i \in DOMAIN batches /\ k \in DOMAIN batches /\ i # k /\ i < k
      BY <1>1, <1>4 DEF Lists
    <2> QED
      BY <2>2, <2>3, <2>4 DEF Ordered
  <1>9. \A i, j \in DOMAIN b : i <= j => Tick(b[i]) <= Tick(b[j])
    BY <1>1 DEF Lists, Ordered
  <1>10. k = 1 => b[1] = 0
    <2>1. k = 1 => batches # <<>>
      BY EmptySeq
    <2> QED
      BY <2>1 DEF Lists, ListOf
  <1>11. k > 1 => Follows(LargeOf(batches[k - 1][1]), b[1])
    <2> SUFFICES ASSUME k > 1 PROVE Follows(LargeOf(batches[k - 1][1]), b[1])
      OBVIOUS
    <2>1. k - 1 \in DOMAIN batches /\ (k - 1) + 1 \in DOMAIN batches /\ (k - 1) + 1 = k
      BY <1>1
    <2>2. \A i \in DOMAIN batches : i + 1 \in DOMAIN batches =>
            Follows(LargeOf(batches[i][1]), batches[i + 1][1])
      BY DEF Lists, ListOf
    <2> QED
      BY <2>1, <2>2
  <1> QED
    BY <1>2, <1>3, <1>5, <1>6, <1>7, <1>8, <1>9, <1>10, <1>11

\* The blocks: at the first batch of a large batch the prefetched data is taken.
LEMMA BlockTrain ==
  ASSUME Inv, Train
  PROVE  BlockInv'
  <1>1. PICK N \in Nat, k \in Nat : N = Len(batches) /\ k = trained /\ k <= N
    <2>1. batches \in Seq(Seq(Edges)) /\ trained \in 0 .. Len(batches)
      BY DEF Inv, SplitInv, BlockInv, Lists, ListOf
    <2> QED
      BY <2>1, LenProperties
  <1>2. /\ k < N /\ left = <<>> /\ trained' = k + 1
        /\ left' = left /\ batches' = batches
        /\ RunBatch(batches[k + 1][1])
    BY <1>1, TrainChanges
  <1> DEFINE b == batches[k + 1]
  <1>3. k + 1 \in 1 .. Len(batches) /\ Lists(batches, left, large)
    BY <1>1, <1>2 DEF Inv, SplitInv
  <1>4. /\ b[1] \in Edges
        /\ k = 0 => b[1] = 0
        /\ k > 0 => Follows(LargeOf(batches[k][1]), b[1])
    <2>1. (k + 1) - 1 = k /\ (k + 1 = 1 <=> k = 0) /\ (k + 1 > 1 <=> k > 0)
      OBVIOUS
    <2>2. /\ 1 \in DOMAIN b /\ Elems(b) \subseteq Edges
          /\ k + 1 = 1 => b[1] = 0
          /\ k + 1 > 1 => Follows(LargeOf(batches[(k + 1) - 1][1]), b[1])
      BY <1>3, BatchFacts
    <2> QED
      BY <2>1, <2>2 DEF Elems
  <1>5. PICK q \in Nat, L \in Nat \ {0} : q = LargeOf(b[1]) /\ L = LargeBatch /\ q * L < NEdges
    <2>1. LargeOf(b[1]) \in Nat /\ LargeOf(b[1]) < NBlocks
      BY <1>4, LargeFacts, BlocksNat
    <2> QED
      BY <2>1, BlockBound, BatchesAssumption
  <1>6. RunBatch(b[1])
    BY <1>2
  <1>7. BlockInv
    BY DEF Inv
  <1> HIDE DEF b
  <1>8. /\ curBlock' = q + 1 /\ negs' = q
        /\ negsAsync' = IF (q + 1) * L < NEdges THEN q + 1 ELSE q
    <2>1. CASE k = 0
      <3>1. curBlock = 0 /\ negsAsync = None
        BY <1>1, <1>7, <2>1 DEF BlockInv
      <3>2. b[1] = 0 /\ 0 % L = 0 /\ q = 0
        BY <1>4, <1>5, <2>1 DEF LargeOf
      <3>3. PreNegSample(0, None) = 0
        BY <1>5, BatchesAssumption DEF PreNegSample
      <3>4. /\ negs' = 0 /\ negsAsync' = PreNegSample(0 + 1, 0) /\ curBlock' = 0 + 1
        BY <1>5, <1>6, <3>1, <3>2, <3>3 DEF RunBatch
      <3>5. PreNegSample(0 + 1, 0) = IF (0 + 1) * L < NEdges THEN 0 + 1 ELSE 0
        BY <1>5, BatchesAssumption DEF PreNegSample
      <3> QED
        BY <3>2, <3>4, <3>5
    <2>2. CASE k > 0
      <3>1. PICK w \in Nat : w = LargeOf(batches[k][1]) /\ curBlock = w + 1 /\ negs = w
                             /\ negsAsync = IF (w + 1) * L < NEdges THEN w + 1 ELSE w
        <4>1. k \in 1 .. Len(batches)
          BY <1>1, <2>2
        <4>2. 1 \in DOMAIN batches[k] /\ Elems(batches[k]) \subseteq Edges
          BY <1>3, <4>1, BatchFacts
        <4>3. PICK w \in Nat : w = LargeOf(batches[k][1])
          BY <4>2, LargeFacts, BlocksNat DEF Elems
        <4>4. /\ curBlock = w + 1 /\ negs = curBlock - 1
              /\ negsAsync = IF curBlock * L < NEdges THEN curBlock ELSE curBlock - 1
          BY <1>1, <1>5, <1>7, <2>2, <4>3 DEF BlockInv
        <4> QED
          BY <4>3, <4>4
      <3>2. CASE b[1] % LargeBatch = 0
        <4>1. q = w + 1
          BY <1>4, <1>5, <2>2, <3>1, <3>2 DEF Follows
        <4>2. negsAsync = q /\ curBlock = q /\ curBlock # 0
          BY <1>5, <3>1, <4>1
        <4>3. /\ negs' = q /\ negsAsync' = PreNegSample(q + 1, q) /\ curBlock' = q + 1
          BY <1>6, <3>2, <4>2 DEF RunBatch
        <4>4. PreNegSample(q + 1, q) = IF (q + 1) * L < NEdges THEN q + 1 ELSE q
          <5>1. (q + 1) * L \in Nat /\ NEdges \in Nat
            BY BatchesAssumption
          <5> QED
            BY <1>5, <5>1 DEF PreNegSample
        <4> QED
          BY <4>3, <4>4
      <3>3. CASE b[1] % LargeBatch # 0
        <4>1. q = w
          BY <1>4, <1>5, <2>2, <3>1, <3>3 DEF Follows
        <4>2. curBlock' = curBlock /\ negs' = negs /\ negsAsync' = negsAsync
          BY <1>6, <3>3 DEF RunBatch
        <4> QED
          BY <3>1, <4>1, <4>2
      <3> QED
        BY <3>2, <3>3
    <2> QED
      BY <2>1, <2>2
  <1>9. /\ trained' \in 0 .. Len(batches') /\ left' = <<>> /\ trained' # 0
        /\ curBlock' = LargeOf(batches'[trained'][1]) + 1 /\ negs' = curBlock' - 1
        /\ negsAsync' = IF curBlock' * LargeBatch < NEdges THEN curBlock' ELSE curBlock' - 1
    <2>1. trained' \in 0 .. Len(batches') /\ left' = <<>> /\ trained' # 0
      BY <1>1, <1>2
    <2>2. batches'[trained'][1] = b[1]
      BY <1>2 DEF b
    <2>3. (q + 1) - 1 = q
      OBVIOUS
    <2> QED
      BY <1>5, <1>8, <2>1, <2>2, <2>3
  <1> QED
    BY <1>9 DEF BlockInv

\* The mails and the clocks.
LEMMA MailTrain ==
  ASSUME Inv, Train
  PROVE  MailInv' /\ \A n \in Nodes : LatestOf(n)'
  <1>1. PICK N \in Nat, k \in Nat : N = Len(batches) /\ k = trained /\ k <= N
    <2>1. batches \in Seq(Seq(Edges)) /\ trained \in 0 .. Len(batches)
      BY DEF Inv, SplitInv, BlockInv, Lists, ListOf
    <2> QED
      BY <2>1, LenProperties
  <1>2. PICK b : b = batches[k + 1]
    OBVIOUS
  <1>3. /\ k < N /\ trained' = k + 1 /\ read' = mail
        /\ ends' = ends /\ file' = file /\ batches' = batches
        /\ mail' = [n \in Nodes |->
                       IF n \notin EndPoints(b) THEN mail[n]
                       ELSE [edge |-> b[(MailAt(b, n) + 1) \div 2],
                             ts |-> b[((MailAt(b, n) - 1) % Len(b)) + 1]]]
        /\ memTs' = [n \in Nodes |->
                        IF n \notin EndPoints(b) THEN memTs[n]
                        ELSE b[((ClockAt(b, n) - 1) % Len(b)) + 1]]
    BY <1>1, <1>2, TrainChanges
  <1>4. k + 1 \in 1 .. Len(batches) /\ Lists(batches, left, large) /\ Settings
    BY <1>1, <1>3 DEF Inv, SplitInv
  <1>5. /\ b \in Seq(Edges) /\ Elems(b) \subseteq Edges /\ TrainedOn(k) \subseteq Edges
        /\ \A e \in TrainedOn(k), f \in Elems(b) : e # f /\ Tick(e) <= Tick(f)
        /\ \A i, j \in DOMAIN b : i <= j => Tick(b[i]) <= Tick(b[j])
    <2>1. (k + 1) - 1 = k
      OBVIOUS
    <2> QED
      BY <1>2, <1>4, <2>1, BatchFacts
  <1>6. TrainedOn(trained)' = TrainedOn(k) \cup Elems(b)
    <2>1. TrainedOn(k + 1) = TrainedOn(k) \cup Elems(b)
      BY <1>2, TrainedOnNext
    <2> QED
      BY <1>3, <2>1 DEF TrainedOn
  <1>7. TrainedOn(trained - 1)' = TrainedOn(k)
    <2>1. (k + 1) - 1 = k
      OBVIOUS
    <2> QED
      BY <1>3, <2>1 DEF TrainedOn
  <1>8. MailInv /\ \A n \in Nodes : LatestOf(n)
    BY DEF Inv
  <1>9. /\ mail \in [Nodes -> Mails \cup {None}] /\ memTs \in [Nodes -> Edges \cup {None}]
        /\ \A n \in Nodes :
             /\ mail[n] # None => mail[n].edge \in TrainedOn(k) /\ mail[n].ts \in TrainedOn(k)
             /\ memTs[n] # None => memTs[n] \in TrainedOn(k)
    BY <1>1, <1>8 DEF MailInv
  <1>10. ASSUME NEW n \in Nodes
         PROVE  \/ n \notin EndPoints(b) /\ mail'[n] = mail[n] /\ memTs'[n] = memTs[n]
                \/ n \in EndPoints(b) /\ Stores(b, n, mail'[n]) /\ memTs'[n] \in Elems(b)
    <2>1. CASE n \notin EndPoints(b)
      BY <1>3, <2>1
    <2>2. CASE n \in EndPoints(b)
      <3>1. mail'[n] = [edge |-> b[(MailAt(b, n) + 1) \div 2],
                        ts |-> b[((MailAt(b, n) - 1) % Len(b)) + 1]]
        BY <1>3, <2>2
      <3>2. memTs'[n] = b[((ClockAt(b, n) - 1) % Len(b)) + 1]
        BY <1>3, <2>2
      <3>3. Stores(b, n, [edge |-> b[(MailAt(b, n) + 1) \div 2],
                          ts |-> b[((MailAt(b, n) - 1) % Len(b)) + 1]])
        BY <1>4, <1>5, <2>2, MailStored
      <3>4. b[((ClockAt(b, n) - 1) % Len(b)) + 1] \in Elems(b)
        BY <1>4, <1>5, <2>2, ClockStored
      <3> QED
        BY <2>2, <3>1, <3>2, <3>3, <3>4
    <2> QED
      BY <2>1, <2>2
  <1>11. ASSUME NEW n \in Nodes, n \in EndPoints(b)
         PROVE  mail'[n] \in Mails /\ mail'[n].edge \in Elems(b) /\ mail'[n].ts \in Elems(b)
    BY <1>10, <1>11 DEF Stores, Elems
  <1>12. MailInv'
    <2>1. mail' \in [Nodes -> Mails \cup {None}]
      <3>1. \A n \in Nodes : mail'[n] \in Mails \cup {None}
        BY <1>9, <1>10, <1>11
      <3>2. mail' = [n \in Nodes |-> mail'[n]]
        BY <1>3
      <3> QED
        BY <3>1, <3>2
    <2>2. memTs' \in [Nodes -> Edges \cup {None}]
      <3>1. \A n \in Nodes : memTs'[n] \in Edges \cup {None}
        BY <1>5, <1>9, <1>10
      <3>2. memTs' = [n \in Nodes |-> memTs'[n]]
        BY <1>3
      <3> QED
        BY <3>1, <3>2
    <2>3. ASSUME NEW n \in Nodes
          PROVE  /\ mail'[n] # None =>
                      mail'[n].edge \in TrainedOn(trained)' /\ mail'[n].ts \in TrainedOn(trained)'
                 /\ memTs'[n] # None => memTs'[n] \in TrainedOn(trained)'
      BY <1>6, <1>9, <1>10, <1>11
    <2>4. ASSUME NEW n \in Nodes, read'[n] # None
          PROVE  /\ trained' > 0 /\ read'[n].edge \in TrainedOn(trained - 1)'
                 /\ read'[n].ts \in TrainedOn(trained - 1)'
      <3>1. mail[n] # None
        BY <1>3, <2>4
      <3> QED
        BY <1>1, <1>3, <1>7, <1>9, <3>1
    <2>5. read' \in [Nodes -> Mails \cup {None}]
      BY <1>3, <1>9
    <2> QED
      BY <2>1, <2>2, <2>3, <2>4, <2>5 DEF MailInv
  <1>13. ASSUME NEW n \in Nodes
         PROVE  LatestOf(n)'
    <2>1. \A e : Src(e)' = Src(e) /\ Dst(e)' = Dst(e) /\ Tick(e)' = Tick(e)
      BY <1>3 DEF Src, Dst, Tick
    <2>2. \A i \in DOMAIN b : b[i] \in Elems(b)
      BY DEF Elems
    <2>3. CASE n \notin EndPoints(b)
      <3>1. mail'[n] = mail[n]
        BY <1>10, <2>3
      <3>2. \A e \in Elems(b) : n \notin {Src(e), Dst(e)}
        BY <2>3 DEF Elems, EndPoints
      <3>3. LatestOf(n)
        BY <1>8
      <3>4. IF mail'[n] = None THEN \A e \in TrainedOn(trained)' : n \notin {Src(e), Dst(e)}
            ELSE /\ n \in {Src(mail'[n].edge), Dst(mail'[n].edge)}
                 /\ \A e \in TrainedOn(trained)' : n \in {Src(e), Dst(e)} =>
                      Tick(e) <= Tick(mail'[n].edge)
        BY <1>1, <1>6, <3>1, <3>2, <3>3 DEF LatestOf
      <3> QED
        BY <1>3, <3>4 DEF LatestOf, Src, Dst, Tick
    <2>4. CASE n \in EndPoints(b)
      <3>1. Stores(b, n, mail'[n])
        BY <1>10, <2>4
      <3>2. PICK i \in DOMAIN b : mail'[n].edge = b[i] /\ n \in {Src(b[i]), Dst(b[i])}
                         /\ \A j \in DOMAIN b : n \in {Src(b[j]), Dst(b[j])} => j <= i
        BY <3>1 DEF Stores
      <3>3. mail'[n] # None
        BY <3>1, BatchesAssumption DEF Stores, Mails
      <3>4. ASSUME NEW e \in TrainedOn(trained)', n \in {Src(e), Dst(e)}
            PROVE  Tick(e) <= Tick(b[i])
        <4>1. CASE e \in TrainedOn(k)
          BY <1>5, <2>2, <4>1
        <4>2. CASE e \in Elems(b)
          <5>1. PICK j \in DOMAIN b : e = b[j]
            BY <4>2 DEF Elems
          <5>2. j <= i
            BY <3>2, <3>4, <5>1
          <5> QED
            BY <1>5, <5>1, <5>2
        <4> QED
          BY <1>6, <3>4, <4>1, <4>2
      <3> QED
        BY <1>3, <3>2, <3>3, <3>4 DEF LatestOf, Src, Dst, Tick
    <2> QED
      BY <2>3, <2>4
  <1> QED
    BY <1>12, <1>13

\* A round of training.
LEMMA InvTrain ==
  ASSUME Inv, Train
  PROVE  Inv'
  <1>1. UNCHANGED settings /\ UNCHANGED splitVars
    BY DEF Train
  <1>2. SplitInv'
    <2>1. Settings'
      BY <1>1 DEF settings, Inv, SplitInv, Settings
    <2>2. Lists(batches', left', large')
      BY <1>1 DEF splitVars, Inv, SplitInv
    <2> QED
      BY <1>1, <2>1, <2>2, ListsNext DEF settings, Inv, SplitInv
  <1> QED
    BY <1>2, BlockTrain, MailTrain DEF Inv

\* Nothing changes.
LEMMA InvStutter ==
  ASSUME Inv, UNCHANGED vars
  PROVE  Inv'
  <1>1. UNCHANGED settings /\ UNCHANGED splitVars /\ UNCHANGED trainVars
    BY DEF vars
  <1>2. SplitInv'
    <2>1. Settings'
      BY <1>1 DEF settings, Inv, SplitInv, Settings
    <2>2. Lists(batches', left', large')
      BY <1>1 DEF splitVars, Inv, SplitInv
    <2> QED
      BY <1>1, <2>1, <2>2, ListsNext DEF settings, Inv, SplitInv
  <1>3. BlockInv' /\ MailInv'
    BY <1>1 DEF splitVars, trainVars, Inv, BlockInv, MailInv, TrainedOn
  <1>4. \A n \in Nodes : LatestOf(n)'
    BY <1>1 DEF settings, splitVars, trainVars, Inv, LatestOf, TrainedOn, Src, Dst, Tick
  <1> QED
    BY <1>2, <1>3, <1>4 DEF Inv

\* The invariant holds in every state of every run.
THEOREM BatchesInductive == Spec => []Inv
  <1>1. Inv /\ [Next]_vars => Inv'
    <2> SUFFICES ASSUME Inv, [Next]_vars PROVE Inv'
      OBVIOUS
    <2>1. CASE SplitFixed
      BY <2>1, InvSplit
    <2>2. CASE SplitAdaptive
      BY <2>2, InvSplit
    <2>3. CASE Train
      BY <2>3, InvTrain
    <2>4. CASE Terminated
      BY <2>4, InvStutter DEF Terminated
    <2>5. CASE UNCHANGED vars
      BY <2>5, InvStutter
    <2> QED
      BY <2>1, <2>2, <2>3, <2>4, <2>5 DEF Next
  <1> QED
    BY <1>1, InvInit, PTL DEF Spec

----------------------------------------------------------------------------
(* What follows *)

\* The state has its types: batches, mails, times and negatives are those of edges
\* and blocks that exist.
THEOREM BatchesTyped == Spec => []BatchesTypeOK
  <1>1. Inv => BatchesTypeOK
    <2> SUFFICES ASSUME Inv PROVE BatchesTypeOK
      OBVIOUS
    <2>1. /\ Settings /\ file \in Files /\ Lists(batches, left, large) /\ BlockInv /\ MailInv
      BY DEF Inv, SplitInv
    <2>2. /\ large \in 0 .. NBlocks - 1 /\ left \in Seq(Edges) /\ batches \in Seq(Seq(Edges))
      BY <2>1 DEF Lists, ListOf, RestOf
    <2>3. PICK N \in Nat : N = Len(batches)
      BY <2>2, LenProperties
    <2>4. /\ trained \in 0 .. N /\ curBlock \in 0 .. NBlocks
          /\ negs \in 0 .. NBlocks - 1 \cup {None} /\ negsAsync \in 0 .. NBlocks - 1 \cup {None}
      <3>1. trained \in 0 .. N
        BY <2>1, <2>3 DEF BlockInv
      <3>2. CASE trained = 0
        BY <2>1, <3>1, <3>2, BlocksNat DEF BlockInv
      <3>3. CASE trained # 0
        <4>1. trained > 0 /\ trained \in 1 .. Len(batches)
          BY <2>3, <3>1, <3>3
        <4>2. 1 \in DOMAIN batches[trained] /\ Elems(batches[trained]) \subseteq Edges
          BY <2>1, <4>1, BatchFacts
        <4>3. PICK q \in 0 .. NBlocks - 1 : q = LargeOf(batches[trained][1])
          BY <4>2, LargeFacts DEF Elems
        <4>4. /\ curBlock = q + 1 /\ negs = q
              /\ negsAsync = IF curBlock * LargeBatch < NEdges THEN curBlock ELSE curBlock - 1
          BY <2>1, <4>1, <4>3, BlocksNat DEF BlockInv
        <4>5. q + 1 \in Nat /\ (curBlock * LargeBatch < NEdges => q + 1 < NBlocks)
          BY <4>3, <4>4, BlocksNat, BlockBound
        <4>6. negsAsync = q \/ (negsAsync = q + 1 /\ q + 1 < NBlocks)
          <5>1. curBlock - 1 = q
            BY <4>3, <4>4, BlocksNat
          <5> QED
            BY <4>4, <4>5, <5>1
        <4>7. /\ q \in 0 .. NBlocks - 1 /\ q + 1 \in 0 .. NBlocks
              /\ q + 1 < NBlocks => q + 1 \in 0 .. NBlocks - 1
          BY <4>3, BlocksNat
        <4>8. negsAsync \in 0 .. NBlocks - 1
          BY <4>6, <4>7
        <4>9. negs \in 0 .. NBlocks - 1 /\ curBlock \in 0 .. NBlocks
          BY <4>4, <4>7
        <4> QED
          BY <3>1, <4>8, <4>9
      <3> QED
        BY <3>2, <3>3
    <2> QED
      BY <2>1, <2>2, <2>3, <2>4 DEF BatchesTypeOK, Settings, MailInv, Mails
  <1> QED
    BY <1>1, BatchesInductive, PTL

\* A complete list has every edge at one place.
THEOREM EdgesOnce == Spec => []EveryEdgeOnce
  <1>1. Inv => EveryEdgeOnce
    <2> SUFFICES ASSUME Inv, left = <<>>, NEW e \in Edges
                 PROVE  \E p \in Places : \A q \in Places : batches[q[1]][q[2]] = e <=> q = p
      BY DEF EveryEdgeOnce
    <2>1. /\ Ordered(batches) /\ RestOf(batches, left, large) /\ AdaptiveRest(batches, left, large)
      BY DEF Inv, SplitInv, Lists
    <2>2. e \in Listed(batches)
      <3>1. Elems(left) = {}
        BY NoElems
      <3>2. file = "adaptive" => LargeOf(e) <= large
        BY <2>1, LargeFacts, BlocksNat DEF AdaptiveRest
      <3> QED
        BY <2>1, <3>1, <3>2 DEF RestOf
    <2>i. PICK i \in DOMAIN batches : \E k : k \in DOMAIN batches[i] /\ batches[i][k] = e
      BY <2>2 DEF Listed, Elems
    <2>3. PICK k : k \in DOMAIN batches[i] /\ batches[i][k] = e
      BY <2>i
    <2>4. <<i, k>> \in Places
      <3>1. <<i, k>> \in {i} \X DOMAIN batches[i]
        BY <2>3
      <3> QED
        BY <3>1 DEF Places
    <2>5. ASSUME NEW q \in Places
          PROVE  batches[q[1]][q[2]] = e <=> q = <<i, k>>
      <3>1. q[1] \in DOMAIN batches /\ q[2] \in DOMAIN batches[q[1]] /\ q = <<q[1], q[2]>>
        BY <2>5 DEF Places
      <3>2. batches[q[1]][q[2]] = e => q[1] = i /\ q[2] = k
        BY <2>1, <2>3, <3>1 DEF Ordered
      <3>3. batches[q[1]][q[2]] = e => q = <<i, k>>
        BY <3>1, <3>2
      <3>4. q = <<i, k>> => batches[q[1]][q[2]] = e
        BY <2>3
      <3> QED
        BY <3>3, <3>4
    <2> QED
      BY <2>4, <2>5
  <1> QED
    BY <1>1, BatchesInductive, PTL

\* An adaptive batch is as stale as the threshold, or ends its large batch, and would
\* not be without its last edge.
THEOREM BatchesStale == Spec => []StalenessAtThreshold
  <1>1. Inv => StalenessAtThreshold
    <2> SUFFICES ASSUME Inv, file = "adaptive", NEW i \in 1 .. Len(batches)
                 PROVE  LET front == SubSeq(batches[i], 1, Len(batches[i]) - 1) IN
                        /\ \/ IF i < Len(batches) THEN batches[i + 1][1] % LargeBatch = 0 ELSE TRUE
                           \/ Staleness(batches[i]) >= threshold
                        /\ Len(batches[i]) > BatchSize =>
                             Staleness(front) < threshold + Loops(front)
      BY DEF StalenessAtThreshold, Loops
    <2>1. PICK N \in Nat : N = Len(batches) /\ DOMAIN batches = 1 .. N
      BY LenProperties DEF Inv, SplitInv, Lists, ListOf
    <2> DEFINE front == SubSeq(batches[i], 1, Len(batches[i]) - 1)
    <2>2. /\ \/ Staleness(batches[i]) >= threshold
             \/ IF i + 1 \in DOMAIN batches THEN batches[i + 1][1] % LargeBatch = 0
                ELSE left # <<>> => left[1] % LargeBatch = 0
          /\ Len(batches[i]) > BatchSize => Staleness(front) < threshold + Loops(front)
      BY <2>1 DEF Inv, SplitInv, Lists, StaleOf
    <2>3. i < N => i + 1 \in 1 .. N
      BY <2>1
    <2> QED
      BY <2>1, <2>2, <2>3
  <1> QED
    BY <1>1, BatchesInductive, PTL

\* The block on the GPU, its negatives and the batch trained on belong together.
THEOREM NegativesFit == Spec => []NegativesOfBlock
  <1>1. Inv => NegativesOfBlock
    <2> SUFFICES ASSUME Inv, trained > 0
                 PROVE  LET b == batches[trained] IN
                        /\ negs = curBlock - 1
                        /\ \A i \in DOMAIN b :
                             /\ b[i] \in Window(curBlock - 1)
                             /\ b[i] % LargeBatch < Cardinality(Window(negs))
      BY DEF NegativesOfBlock
    <2>1. Lists(batches, left, large) /\ BlockInv
      BY DEF Inv, SplitInv
    <2>2. trained \in 1 .. Len(batches)
      <3>1. PICK N \in Nat : N = Len(batches)
        BY <2>1, LenProperties DEF Lists, ListOf
      <3> QED
        BY <2>1, <3>1 DEF BlockInv
    <2> DEFINE b == batches[trained]
    <2>3. /\ 1 \in DOMAIN b /\ Elems(b) \subseteq Edges
          /\ \A e \in Elems(b) : LargeOf(e) = LargeOf(b[1])
      BY <2>1, <2>2, BatchFacts
    <2>4. \A i \in DOMAIN b : b[i] \in Edges /\ LargeOf(b[i]) = LargeOf(b[1])
      BY <2>3 DEF Elems
    <2>5. PICK q \in 0 .. NBlocks - 1, L \in Nat \ {0}, E \in Nat :
             q = LargeOf(b[1]) /\ L = LargeBatch /\ E = NEdges
      BY <2>3, <2>4, LargeFacts, BatchesAssumption
    <2>6. negs = q /\ curBlock - 1 = q /\ negs = curBlock - 1
      <3>1. negs = curBlock - 1 /\ curBlock = q + 1 /\ q \in Int
        BY <2>1, <2>5, BlocksNat DEF BlockInv
      <3> QED
        BY <3>1
    <2> HIDE DEF b
    <2>7. ASSUME NEW i \in DOMAIN b
          PROVE  b[i] \in Window(q) /\ b[i] % LargeBatch < Cardinality(Window(q))
      <3>1. PICK e \in Nat, r \in 0 .. L - 1 :
               e = b[i] /\ e < E /\ r = b[i] % LargeBatch /\ e = q * L + r
        BY <2>4, <2>5, LargeFacts
      <3>2. PICK from \in Nat, to \in Int :
               from = q * L /\ to = Smaller(NEdges, (q + 1) * LargeBatch) - 1
               /\ Window(q) = from .. to /\ from + r <= to
        <4>1. PICK from \in Nat : from = q * L
          BY <2>5, BlocksNat
        <4>2. (q + 1) * L = from + L
          BY <4>1, <2>5, BlocksNat
        <4>3. PICK to \in Int : to = Smaller(NEdges, (q + 1) * LargeBatch) - 1
                                /\ (to = E - 1 \/ to = from + L - 1)
          BY <2>5, <4>1, <4>2 DEF Smaller
        <4>4. from + r <= to
          BY <3>1, <4>1, <4>3
        <4>5. Window(q) = from .. to
          BY <2>5, <4>1, <4>3 DEF Window
        <4> QED
          BY <4>1, <4>3, <4>4, <4>5
      <3>3. Cardinality(from .. to) = to - from + 1
        <4>1. Cardinality(from .. to) = IF from > to THEN 0 ELSE to - from + 1
          BY FS_Interval
        <4> QED
          BY <3>2, <4>1
      <3>4. e \in from .. to /\ r < to - from + 1
        BY <3>1, <3>2
      <3> QED
        BY <3>1, <3>2, <3>3, <3>4
    <2> QED
      BY <2>6, <2>7 DEF b
  <1> QED
    BY <1>1, BatchesInductive, PTL

\* No batch is computed from a mail of itself or of its future.
THEOREM MailsOfThePast == Spec => []NoFutureMail
  <1>1. Inv => NoFutureMail
    <2> SUFFICES ASSUME Inv, NEW n \in Nodes, trained > 0, read[n] # None,
                        NEW i \in DOMAIN batches[trained]
                 PROVE  LET e == batches[trained][i] IN
                        IF file = "fixed" THEN read[n].edge < e /\ read[n].ts < e
                        ELSE read[n].edge # e /\ Tick(read[n].edge) <= Tick(e)
      BY DEF NoFutureMail
    <2>1. Lists(batches, left, large) /\ BlockInv /\ MailInv
      BY DEF Inv, SplitInv
    <2>2. trained \in 1 .. Len(batches)
      <3>1. PICK N \in Nat : N = Len(batches)
        BY <2>1, LenProperties DEF Lists, ListOf
      <3> QED
        BY <2>1, <3>1 DEF BlockInv
    <2>3. PICK e : e = batches[trained][i] /\ e \in Elems(batches[trained])
      BY DEF Elems
    <2>4. PICK f, t : f = read[n].edge /\ t = read[n].ts /\ f \in TrainedOn(trained - 1)
                      /\ t \in TrainedOn(trained - 1)
      BY <2>1 DEF MailInv
    <2>5. e \in Edges /\ f \in Edges /\ t \in Edges /\ f # e /\ t # e
          /\ Tick(f) <= Tick(e) /\ Tick(t) <= Tick(e)
      BY <2>1, <2>2, <2>3, <2>4, BatchFacts
    <2>6. e \in Nat /\ f \in Nat /\ t \in Nat
      BY <2>5, LargeFacts
    <2>7. file = "fixed" => f < e /\ t < e
      BY <2>5, <2>6 DEF Tick
    <2> QED
      BY <2>3, <2>4, <2>5, <2>7
  <1> QED
    BY <1>1, BatchesInductive, PTL

\* The mail of a node is that of the latest edge trained on.
THEOREM MailsLatest == Spec => []LatestMail
  <1>1. Inv => LatestMail
    <2> SUFFICES ASSUME Inv, NEW n \in Nodes
                 PROVE  LET met == { e \in TrainedOn(trained) : n \in {Src(e), Dst(e)} } IN
                        IF mail[n] = None THEN met = {}
                        ELSE mail[n].edge \in met /\ \A e \in met : Tick(e) <= Tick(mail[n].edge)
      BY Zenon DEF LatestMail, TrainedOn, Elems
    <2>1. LatestOf(n) /\ (mail[n] # None => mail[n].edge \in TrainedOn(trained))
      BY DEF Inv, MailInv
    <2> QED
      BY <2>1 DEF LatestOf
  <1> QED
    BY <1>1, BatchesInductive, PTL

\* The mail of a node, its time and the clock of its memory are of one batch, the last
\* trained on that has the node.
THEOREM MailsStoredTogether == Spec => []StoredTogether
  <1> DEFINE Of(n, i) == /\ n \in EndPoints(batches[i])
                         /\ {mail[n].edge, mail[n].ts, memTs[n]} \subseteq Elems(batches[i])
  <1>1. StoredTogether <=>
          \A n \in Nodes : mail[n] # None =>
            \E i \in 1 .. trained :
              Of(n, i) /\ \A j \in i + 1 .. trained : n \notin EndPoints(batches[j])
    BY Zenon DEF StoredTogether, ToSet, Elems
  <1>2. Init => StoredTogether
    BY DEF Init, StoredTogether
  <1>3. Inv /\ StoredTogether /\ [Next]_vars => StoredTogether'
    <2> SUFFICES ASSUME Inv, StoredTogether, [Next]_vars PROVE StoredTogether'
      OBVIOUS
    <2>1. CASE SplitFixed \/ SplitAdaptive
      <3>1. left # <<>> /\ UNCHANGED trainVars /\ BlockInv /\ MailInv
        BY <2>1 DEF SplitFixed, SplitAdaptive, Inv
      <3>2. trained = 0
        <4>1. trained \in 0 .. Len(batches) /\ Len(batches) \in Nat
          BY <3>1, LenProperties DEF BlockInv, Inv, SplitInv, Lists, ListOf
        <4> QED
          BY <3>1, <4>1 DEF BlockInv
      <3>3. \A n \in Nodes : mail[n] = None
        BY <3>1, <3>2 DEF MailInv, TrainedOn
      <3> QED
        BY <3>1, <3>3 DEF StoredTogether, trainVars
    <2>2. CASE Terminated \/ UNCHANGED vars
      <3>1. UNCHANGED <<ends, batches, trained, mail, memTs>>
        BY <2>2 DEF Terminated, vars, settings, splitVars, trainVars
      <3> QED
        BY <3>1 DEF StoredTogether, EndPoints, Src, Dst
    <2>3. CASE Train
      <3>1. PICK N \in Nat, k \in Nat : N = Len(batches) /\ k = trained
        <4>1. batches \in Seq(Seq(Edges)) /\ trained \in 0 .. Len(batches)
          BY DEF Inv, SplitInv, BlockInv, Lists, ListOf
        <4> QED
          BY <4>1, LenProperties
      <3>2. PICK b : b = batches[k + 1]
        OBVIOUS
      <3>3. /\ k < N /\ trained' = k + 1 /\ ends' = ends /\ batches' = batches
            /\ mail' = [n \in Nodes |->
                           IF n \notin EndPoints(b) THEN mail[n]
                           ELSE [edge |-> b[(MailAt(b, n) + 1) \div 2],
                                 ts |-> b[((MailAt(b, n) - 1) % Len(b)) + 1]]]
            /\ memTs' = [n \in Nodes |->
                            IF n \notin EndPoints(b) THEN memTs[n]
                            ELSE b[((ClockAt(b, n) - 1) % Len(b)) + 1]]
        BY <2>3, <3>1, <3>2, TrainChanges
      <3>4. Settings /\ b \in Seq(Edges)
        <4>1. k + 1 \in 1 .. Len(batches) /\ Lists(batches, left, large) /\ Settings
          BY <3>1, <3>3 DEF Inv, SplitInv
        <4> QED
          BY <3>2, <4>1, BatchFacts
      <3>5. \A i : EndPoints(batches[i])' = EndPoints(batches[i])
        BY <3>3 DEF EndPoints, Src, Dst
      <3>6. SUFFICES ASSUME NEW n \in Nodes, mail'[n] # None
                     PROVE  \E i \in 1 .. k + 1 :
                              /\ n \in EndPoints(batches[i])
                              /\ {mail'[n].edge, mail'[n].ts, memTs'[n]} \subseteq Elems(batches[i])
                              /\ \A j \in i + 1 .. k + 1 : n \notin EndPoints(batches[j])
        <4>1. SUFFICES ASSUME NEW n \in Nodes, mail'[n] # None
                       PROVE  \E i \in 1 .. trained' :
                                /\ n \in EndPoints(batches[i])'
                                /\ \A j \in i + 1 .. trained' : n \notin EndPoints(batches[j])'
                                /\ {mail'[n].edge, mail'[n].ts, memTs'[n]} \subseteq ToSet(batches'[i])
          BY DEF StoredTogether
        <4>2. \A i : ToSet(batches'[i]) = Elems(batches[i])
          BY <3>3 DEF ToSet, Elems
        <4>3. PICK i \in 1 .. k + 1 :
                /\ n \in EndPoints(batches[i])
                /\ {mail'[n].edge, mail'[n].ts, memTs'[n]} \subseteq Elems(batches[i])
                /\ \A j \in i + 1 .. k + 1 : n \notin EndPoints(batches[j])
          BY <3>6, <4>1
        <4> QED
          BY <3>3, <3>5, <4>2, <4>3
      <3>7. CASE n \in EndPoints(b)
        <4>1. /\ mail'[n] = [edge |-> b[(MailAt(b, n) + 1) \div 2],
                             ts |-> b[((MailAt(b, n) - 1) % Len(b)) + 1]]
              /\ memTs'[n] = b[((ClockAt(b, n) - 1) % Len(b)) + 1]
          BY <3>3, <3>7
        <4>2. Stores(b, n, mail'[n]) /\ memTs'[n] \in Elems(b)
          BY <3>4, <3>7, <4>1, MailStored, ClockStored
        <4>3. {mail'[n].edge, mail'[n].ts, memTs'[n]} \subseteq Elems(b)
          BY <4>2 DEF Stores, Elems
        <4>4. k + 1 \in 1 .. k + 1 /\ (k + 1) + 1 .. k + 1 = {}
          OBVIOUS
        <4> QED
          BY <3>2, <3>7, <4>3, <4>4
      <3>8. CASE n \notin EndPoints(b)
        <4>1. mail'[n] = mail[n] /\ memTs'[n] = memTs[n]
          BY <3>3, <3>8
        <4>2. PICK i \in 1 .. k :
                Of(n, i) /\ \A j \in i + 1 .. k : n \notin EndPoints(batches[j])
          BY <1>1, <3>1, <3>6, <4>1
        <4>3. \A j \in i + 1 .. k + 1 : j \in i + 1 .. k \/ j = k + 1
          OBVIOUS
        <4>4. i \in 1 .. k + 1
          OBVIOUS
        <4> QED
          BY <3>2, <3>8, <4>1, <4>2, <4>3, <4>4
      <3> QED
        BY <3>7, <3>8
    <2> QED
      BY <2>1, <2>2, <2>3 DEF Next
  <1> QED
    BY <1>2, <1>3, BatchesInductive, PTL DEF Spec

\* The clock of a node's memory does not go back.
THEOREM ClocksForward == Spec => MemoryClockForward
  <1> DEFINE Forward == \A n \in Nodes : memTs[n] # None => Tick(memTs[n]) <= Tick(memTs'[n])
  <1>1. Inv /\ [Next]_vars => [Forward]_vars
    <2> SUFFICES ASSUME Inv, Next, NEW n \in Nodes, memTs[n] # None
                 PROVE  Tick(memTs[n]) <= Tick(memTs'[n])
      OBVIOUS
    <2>1. Lists(batches, left, large) /\ Settings /\ BlockInv /\ MailInv
      BY DEF Inv, SplitInv
    <2>2. memTs[n] \in Edges /\ memTs[n] \in TrainedOn(trained)
      BY <2>1 DEF MailInv
    <2>3. Tick(memTs[n]) \in Int
      BY <2>2, LargeFacts, BlocksNat DEF Tick, LargeOf
    <2>4. CASE SplitFixed \/ SplitAdaptive \/ Terminated
      <3>1. memTs' = memTs
        BY <2>4 DEF SplitFixed, SplitAdaptive, Terminated, vars, trainVars
      <3> QED
        BY <2>3, <3>1
    <2>5. CASE Train
      <3>1. PICK b : b = batches[trained + 1]
        OBVIOUS
      <3>2. /\ trained < Len(batches)
            /\ memTs' = [m \in Nodes |->
                           IF m \notin EndPoints(b) THEN memTs[m]
                           ELSE b[((ClockAt(b, m) - 1) % Len(b)) + 1]]
        BY <2>5, <3>1, TrainChanges
      <3>3. trained + 1 \in 1 .. Len(batches) /\ (trained + 1) - 1 = trained
        <4>1. PICK N \in Nat : N = Len(batches)
          BY <2>1, LenProperties DEF Lists, ListOf
        <4>2. trained \in 0 .. N
          BY <2>1, <4>1 DEF BlockInv
        <4> QED
          BY <3>2, <4>1, <4>2
      <3>4. b \in Seq(Edges) /\ \A e \in TrainedOn(trained), f \in Elems(b) : Tick(e) <= Tick(f)
        BY <2>1, <3>1, <3>3, BatchFacts
      <3>5. CASE n \notin EndPoints(b)
        BY <2>3, <3>2, <3>5
      <3>6. CASE n \in EndPoints(b)
        <4>1. memTs'[n] = b[((ClockAt(b, n) - 1) % Len(b)) + 1]
          BY <3>2, <3>6
        <4>2. b[((ClockAt(b, n) - 1) % Len(b)) + 1] \in Elems(b)
          BY <2>1, <3>4, <3>6, ClockStored
        <4> QED
          BY <2>2, <3>4, <4>1, <4>2
      <3> QED
        BY <3>5, <3>6
    <2> QED
      BY <2>4, <2>5 DEF Next
  <1> QED
    BY <1>1, BatchesInductive, PTL DEF Spec, MemoryClockForward
=============================================================================
