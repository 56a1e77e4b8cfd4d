---------------------------- MODULE DataLemmas ----------------------------
(***************************************************************************)
(* Induction without an operator as parameter: over a set of naturals,     *)
(* from the least element that is missing; functions defined by recursion  *)
(* on the naturals, from a function that gives the next value; and         *)
(* sequences without repetition, cut, joined, shortened and counted.       *)
(***************************************************************************)
EXTENDS Integers, Sequences, SequencesExt, FiniteSetTheorems, SequenceTheorems, TLAPS

----------------------------------------------------------------------------
(* Numbers *)

\* Every set of naturals that is not empty has a least element.
LEMMA LeastNatural ==
  ASSUME NEW T \in SUBSET Nat, T # {}
  PROVE  \E x \in T : \A y \in T : x <= y
  <1>1. \E x \in T : \A y \in T : ~ (<<y, x>> \in OpToRel(<, Nat))
    BY NatLessThanWellFounded, WFMin
  <1>2. PICK x \in T : \A y \in T : ~ (<<y, x>> \in OpToRel(<, Nat))
    BY <1>1
  <1>3. \A y \in T : ~(y < x)
    BY <1>2 DEF OpToRel
  <1> QED
    BY <1>3

\* Induction over the naturals.
LEMMA SetInduction ==
  ASSUME NEW S, 0 \in S, \A n \in Nat : n \in S => n + 1 \in S
  PROVE  \A n \in Nat : n \in S
  <1> DEFINE T == { n \in Nat : n \notin S }
  <1> SUFFICES ASSUME T # {} PROVE FALSE
    OBVIOUS
  <1>1. PICK x \in T : \A y \in T : x <= y
    BY LeastNatural
  <1>2. x - 1 \in Nat /\ x - 1 \in S
    BY <1>1
  <1> QED
    BY <1>1, <1>2

\* What gives the value after the n-th, over the set of values X.
Steps(X) == [X \X Nat -> X]
BoundedSteps(X, N) == [X \X (1 .. N) -> X]

\* Recursion over the naturals.
LEMMA Recursion ==
  ASSUME NEW X, NEW first \in X, NEW step \in Steps(X)
  PROVE  \E f \in [Nat -> X] : f[0] = first /\ \A n \in Nat : f[n + 1] = step[<<f[n], n>>]
  <1> DEFINE Upto(n, g) == /\ g \in [0 .. n -> X] /\ g[0] = first
                           /\ \A i \in 0 .. n - 1 : g[i + 1] = step[<<g[i], i>>]
             S == { n \in Nat : \E g : Upto(n, g) }
             U == { n \in Nat : \A m \in Nat : \A g, h :
                       n <= m /\ Upto(n, g) /\ Upto(m, h) => g[n] = h[n] }
  <1> USE DEF Steps
  <1>1. \A n \in Nat : n \in S
    <2>1. 0 \in S
      <3>1. Upto(0, [i \in 0 .. 0 |-> first])
        OBVIOUS
      <3> QED
        BY <3>1
    <2>2. ASSUME NEW n \in Nat, n \in S
          PROVE  n + 1 \in S
      <3>1. PICK g : Upto(n, g)
        BY <2>2
      <3> DEFINE h == [i \in 0 .. n + 1 |-> IF i <= n THEN g[i] ELSE step[<<g[n], n>>]]
      <3>2. Upto(n + 1, h)
        <4>1. h \in [0 .. n + 1 -> X]
          BY <3>1
        <4>2. h[0] = first
          BY <3>1
        <4>3. ASSUME NEW i \in 0 .. n
              PROVE  h[i + 1] = step[<<h[i], i>>]
          <5>1. h[i] = g[i] /\ i + 1 \in 0 .. n + 1
            OBVIOUS
          <5>2. CASE i < n
            <6>1. i \in 0 .. n - 1 /\ h[i + 1] = g[i + 1]
              BY <5>2
            <6> QED
              BY <3>1, <5>1, <6>1
          <5>3. CASE i = n
            <6>1. h[i + 1] = step[<<g[n], n>>]
              BY <5>1, <5>3
            <6> QED
              BY <5>1, <5>3, <6>1
          <5> QED
            BY <5>2, <5>3
        <4>4. (n + 1) - 1 = n
          OBVIOUS
        <4> HIDE DEF h
        <4> QED
          BY <4>1, <4>2, <4>3, <4>4
      <3> HIDE DEF h, Upto
      <3> QED
        BY <3>2
    <2> HIDE DEF S
    <2> QED
      BY <2>1, <2>2, SetInduction
  <1>2. \A n \in Nat : n \in U
    <2>1. 0 \in U
      OBVIOUS
    <2>2. ASSUME NEW n \in Nat, n \in U
          PROVE  n + 1 \in U
      <3>1. ASSUME NEW m \in Nat, NEW g, NEW h, n + 1 <= m, Upto(n + 1, g), Upto(m, h)
            PROVE  g[n + 1] = h[n + 1]
        <4> DEFINE k == [i \in 0 .. n |-> g[i]]
        <4>1. Upto(n, k)
          BY <3>1
        <4>2. k[n] = h[n]
          <5> HIDE DEF k, Upto
          <5> QED
            BY <2>2, <3>1, <4>1
        <4>3. g[n + 1] = step[<<g[n], n>>] /\ h[n + 1] = step[<<h[n], n>>]
          BY <3>1
        <4> QED
          BY <4>2, <4>3
      <3> HIDE DEF Upto
      <3> QED
        BY <3>1
    <2> HIDE DEF U
    <2> QED
      BY <2>1, <2>2, SetInduction
  <1> DEFINE G(n) == CHOOSE g : Upto(n, g)
             f == [n \in Nat |-> G(n)[n]]
  <1>3. \A n \in Nat : Upto(n, G(n))
    <2> HIDE DEF Upto
    <2> QED
      BY <1>1
  <1>4. f \in [Nat -> X] /\ f[0] = first
    <2>1. \A n \in Nat : G(n) \in [0 .. n -> X] /\ G(n)[0] = first
      BY <1>3
    <2> HIDE DEF G
    <2>2. \A n \in Nat : n \in 0 .. n /\ G(n)[n] \in X
      BY <2>1
    <2> QED
      BY <2>1, <2>2
  <1>5. ASSUME NEW n \in Nat
        PROVE  f[n + 1] = step[<<f[n], n>>]
    <2>1. G(n)[n] = G(n + 1)[n]
      <3> HIDE DEF Upto, G
      <3> QED
        BY <1>2, <1>3
    <2>2. G(n + 1)[n + 1] = step[<<G(n + 1)[n], n>>]
      <3> HIDE DEF G
      <3> QED
        BY <1>3
    <2> HIDE DEF G, Upto
    <2> QED
      BY <2>1, <2>2
  <1> HIDE DEF f
  <1> QED
    BY <1>4, <1>5

\* f is what the steps make of first.
IsComputed(f, X, N, first, step) ==
  /\ f \in [0 .. N -> X] /\ f[0] = first
  /\ \A k \in 1 .. N : f[k] = step[<<f[k - 1], k>>]

\* Recursion up to a bound, as a model writes it.
LEMMA BoundedRecursion ==
  ASSUME NEW N \in Nat, NEW X, NEW first \in X, NEW step \in BoundedSteps(X, N)
  PROVE  \E f : IsComputed(f, X, N, first, step)
  <1> DEFINE next == [p \in X \X Nat |-> IF p[2] + 1 \in 1 .. N THEN step[<<p[1], p[2] + 1>>]
                                        ELSE first]
  <1>1. next \in Steps(X)
    BY DEF Steps, BoundedSteps
  <1>2. \A x \in X : \A n \in 0 .. N - 1 : next[<<x, n>>] = step[<<x, n + 1>>]
    OBVIOUS
  <1> HIDE DEF next
  <1>3. \E g \in [Nat -> X] : g[0] = first /\ \A n \in Nat : g[n + 1] = next[<<g[n], n>>]
    BY <1>1, Recursion
  <1>4. PICK g \in [Nat -> X] : g[0] = first /\ \A n \in Nat : g[n + 1] = next[<<g[n], n>>]
    BY <1>3
  <1> DEFINE f == [k \in 0 .. N |-> g[k]]
  <1>5. f \in [0 .. N -> X]
    OBVIOUS
  <1>6. f[0] = first
    BY <1>4
  <1>7. ASSUME NEW k \in 1 .. N
        PROVE  f[k] = step[<<f[k - 1], k>>]
    <2>1. k - 1 \in 0 .. N - 1 /\ k - 1 \in Nat /\ (k - 1) + 1 = k /\ k - 1 \in 0 .. N
      OBVIOUS
    <2>2. g[k] = step[<<g[k - 1], k>>]
      BY <1>2, <1>4, <2>1
    <2>3. f[k] = g[k] /\ f[k - 1] = g[k - 1]
      BY <2>1
    <2> QED
      BY <2>2, <2>3
  <1> HIDE DEF f
  <1>8. IsComputed(f, X, N, first, step)
    BY <1>5, <1>6, <1>7 DEF IsComputed
  <1> QED
    BY <1>8

\* Induction up to a bound.
LEMMA BoundedInduction ==
  ASSUME NEW N \in Nat, NEW S, 0 \in S, \A n \in 0 .. N - 1 : n \in S => n + 1 \in S
  PROVE  \A n \in 0 .. N : n \in S
  <1> DEFINE T == { n \in Nat : n \in S \/ n > N }
  <1>1. 0 \in T
    OBVIOUS
  <1>2. \A n \in Nat : n \in T => n + 1 \in T
    OBVIOUS
  <1>3. \A n \in Nat : n \in T
    <2> HIDE DEF T
    <2> QED
      BY <1>1, <1>2, SetInduction
  <1> QED
    BY <1>3

\* A set of numbers of 1 .. n that is not empty has a largest element.
LEMMA LargestNatural ==
  ASSUME NEW n \in Nat, NEW T \in SUBSET (1 .. n), T # {}
  PROVE  \E x \in T : \A y \in T : y <= x
  <1> DEFINE U == { n - y : y \in T }
  <1>1. U \in SUBSET Nat /\ U # {}
    <2>1. \A y \in T : n - y \in Nat
      OBVIOUS
    <2> QED
      BY <2>1
  <1>2. PICK u \in U : \A v \in U : u <= v
    <2> HIDE DEF U
    <2> QED
      BY <1>1, LeastNatural
  <1>3. PICK x \in T : u = n - x
    OBVIOUS
  <1>4. \A y \in T : n - x <= n - y
    BY <1>2, <1>3
  <1> QED
    BY <1>4

\* A number is its quotient and its remainder.
LEMMA Division ==
  ASSUME NEW e \in Nat, NEW L \in Nat \ {0}
  PROVE  /\ e \div L \in Nat /\ e % L \in 0 .. L - 1
         /\ e = (e \div L) * L + (e % L)
  OBVIOUS

----------------------------------------------------------------------------
(* Sequences *)

\* The elements of a sequence.
Elems(s) == { s[i] : i \in DOMAIN s }

\* No two positions have the same element.
Distinct(s) == \A i, j \in DOMAIN s : s[i] = s[j] => i = j

\* Nothing of an empty sequence.
LEMMA NoElems == ASSUME NEW s, s = <<>> PROVE Elems(s) = {} /\ Distinct(s)
  BY DEF Elems, Distinct

\* The first element and all elements are among the elements.
LEMMA FirstElem ==
  ASSUME NEW S, NEW s \in Seq(S), s # <<>>
  PROVE  1 \in DOMAIN s /\ s[1] \in Elems(s) /\ Elems(s) \subseteq S /\ Len(s) >= 1
  <1>1. DOMAIN s = 1 .. Len(s) /\ Len(s) \in Nat /\ Len(s) # 0 /\ \A i \in 1 .. Len(s) : s[i] \in S
    BY LenProperties, EmptySeq, ElementOfSeq
  <1>2. 1 \in DOMAIN s
    BY <1>1
  <1> QED
    BY <1>1, <1>2 DEF Elems

\* A function on 1 .. n is a sequence of length n.
LEMMA FunctionIsSeq ==
  ASSUME NEW S, NEW n \in Nat, NEW f \in [1 .. n -> S]
  PROVE  f \in Seq(S) /\ Len(f) = n /\ DOMAIN f = 1 .. n
  <1>1. f \in Seq(S)
    BY SeqDef
  <1>2. DOMAIN f = 1 .. n /\ DOMAIN f = 1 .. Len(f) /\ Len(f) \in Nat
    BY <1>1, LenProperties
  <1> QED
    BY <1>1, <1>2

\* A list and what follows it.
LEMMA ConcatElems ==
  ASSUME NEW S, NEW s \in Seq(S), NEW t \in Seq(S)
  PROVE  /\ Elems(s \o t) = Elems(s) \cup Elems(t)
         /\ Distinct(s) /\ Distinct(t) /\ Elems(s) \cap Elems(t) = {} => Distinct(s \o t)
  <1>1. PICK m \in Nat, n \in Nat : /\ m = Len(s) /\ n = Len(t)
                                    /\ DOMAIN s = 1 .. m /\ DOMAIN t = 1 .. n
    BY LenProperties
  <1>2. /\ DOMAIN (s \o t) = 1 .. m + n
        /\ \A i \in 1 .. m + n : (s \o t)[i] = IF i <= m THEN s[i] ELSE t[i - m]
    BY <1>1, ConcatProperties, LenProperties
  <1>3. \A i \in 1 .. m + n : \/ i \in 1 .. m /\ (s \o t)[i] = s[i]
                              \/ i - m \in 1 .. n /\ (s \o t)[i] = t[i - m]
    BY <1>2
  <1>4. \A i \in 1 .. m : i \in 1 .. m + n /\ (s \o t)[i] = s[i]
    BY <1>2
  <1>5. ASSUME NEW i \in 1 .. n
        PROVE  m + i \in 1 .. m + n /\ (s \o t)[m + i] = t[i]
    <2>1. m + i \in 1 .. m + n /\ ~(m + i <= m) /\ (m + i) - m = i
      OBVIOUS
    <2> QED
      BY <1>2, <2>1
  <1>6. Elems(s \o t) = Elems(s) \cup Elems(t)
    <2>1. ASSUME NEW x \in Elems(s \o t) PROVE x \in Elems(s) \cup Elems(t)
      <3>1. PICK i \in 1 .. m + n : x = (s \o t)[i]
        BY <1>2, <2>1 DEF Elems
      <3> QED
        BY <1>1, <1>3, <3>1 DEF Elems
    <2>2. ASSUME NEW x \in Elems(s) PROVE x \in Elems(s \o t)
      <3>1. PICK i \in 1 .. m : x = s[i]
        BY <1>1, <2>2 DEF Elems
      <3> QED
        BY <1>2, <1>4, <3>1 DEF Elems
    <2>3. ASSUME NEW x \in Elems(t) PROVE x \in Elems(s \o t)
      <3>1. PICK i \in 1 .. n : x = t[i]
        BY <1>1, <2>3 DEF Elems
      <3> QED
        BY <1>2, <1>5, <3>1 DEF Elems
    <2> QED
      BY <2>1, <2>2, <2>3
  <1>7. ASSUME Distinct(s), Distinct(t), Elems(s) \cap Elems(t) = {}
        PROVE  Distinct(s \o t)
    <2> SUFFICES ASSUME NEW i \in 1 .. m + n, NEW j \in 1 .. m + n, (s \o t)[i] = (s \o t)[j]
                 PROVE  i = j
      BY <1>2 DEF Distinct
    <2>1. CASE i \in 1 .. m /\ (s \o t)[i] = s[i] /\ j \in 1 .. m /\ (s \o t)[j] = s[j]
      BY <1>1, <1>7, <2>1 DEF Distinct
    <2>2. CASE i \in 1 .. m /\ (s \o t)[i] = s[i] /\ j - m \in 1 .. n /\ (s \o t)[j] = t[j - m]
      <3>1. s[i] \in Elems(s) /\ t[j - m] \in Elems(t)
        BY <1>1, <2>2 DEF Elems
      <3> QED
        BY <1>7, <2>2, <3>1
    <2>3. CASE j \in 1 .. m /\ (s \o t)[j] = s[j] /\ i - m \in 1 .. n /\ (s \o t)[i] = t[i - m]
      <3>1. s[j] \in Elems(s) /\ t[i - m] \in Elems(t)
        BY <1>1, <2>3 DEF Elems
      <3> QED
        BY <1>7, <2>3, <3>1
    <2>4. CASE /\ i - m \in 1 .. n /\ (s \o t)[i] = t[i - m]
               /\ j - m \in 1 .. n /\ (s \o t)[j] = t[j - m]
      <3>1. i - m = j - m
        BY <1>1, <1>7, <2>4 DEF Distinct
      <3> QED
        BY <3>1
    <2> QED
      BY <1>3, <2>1, <2>2, <2>3, <2>4
  <1> QED
    BY <1>6, <1>7

\* a and b are the two parts of s, cut after k elements.
IsCut(s, k, a, b, S) ==
  /\ a \in Seq(S) /\ Len(a) = k /\ \A i \in 1 .. k : a[i] = s[i]
  /\ b \in Seq(S) /\ Len(b) = Len(s) - k /\ \A i \in 1 .. Len(s) - k : b[i] = s[k + i]
  /\ Elems(s) = Elems(a) \cup Elems(b)
  /\ Distinct(s) => Distinct(a) /\ Distinct(b) /\ Elems(a) \cap Elems(b) = {}

\* A list in two parts.
LEMMA CutElems ==
  ASSUME NEW S, NEW s \in Seq(S), NEW k \in 0 .. Len(s)
  PROVE  IsCut(s, k, SubSeq(s, 1, k), SubSeq(s, k + 1, Len(s)), S)
  <1>1. PICK n \in Nat : n = Len(s) /\ DOMAIN s = 1 .. n /\ \A j \in 1 .. n : s[j] \in S
    BY LenProperties, ElementOfSeq
  <1>2. k \in 0 .. n
    BY <1>1
  <1> DEFINE a == SubSeq(s, 1, k)
             b == SubSeq(s, k + 1, n)
  <1>3. a \in Seq(S) /\ Len(a) = k /\ \A i \in 1 .. k : a[i] = s[i]
    <2>1. \A i \in 1 .. k : s[i] \in S
      BY <1>1, <1>2
    <2>2. /\ a \in Seq(S) /\ Len(a) = IF 1 <= k THEN k - 1 + 1 ELSE 0
          /\ \A i \in 1 .. k - 1 + 1 : a[i] = s[1 + i - 1]
      BY <1>2, <2>1, SubSeqProperties
    <2>3. k - 1 + 1 = k /\ \A i \in 1 .. k : 1 + i - 1 = i
      BY <1>2
    <2>4. Len(a) = k
      BY <1>2, <2>2
    <2> HIDE DEF a
    <2> QED
      BY <2>2, <2>3, <2>4
  <1>4. b \in Seq(S) /\ Len(b) = n - k /\ \A i \in 1 .. n - k : b[i] = s[k + i]
    <2>1. \A i \in k + 1 .. n : s[i] \in S
      BY <1>1, <1>2
    <2>0. k + 1 \in Int /\ n \in Int
      BY <1>2
    <2>2. /\ b \in Seq(S) /\ Len(b) = IF k + 1 <= n THEN n - (k + 1) + 1 ELSE 0
          /\ \A i \in 1 .. n - (k + 1) + 1 : b[i] = s[(k + 1) + i - 1]
      BY <2>0, <2>1, SubSeqProperties
    <2>3. n - (k + 1) + 1 = n - k /\ \A i \in 1 .. n - k : (k + 1) + i - 1 = k + i
      BY <1>2
    <2>4. Len(b) = n - k
      BY <1>2, <2>2
    <2> HIDE DEF b
    <2> QED
      BY <2>2, <2>3, <2>4
  <1> HIDE DEF a, b
  <1>5. DOMAIN a = 1 .. k /\ DOMAIN b = 1 .. n - k
    BY <1>3, <1>4, LenProperties
  <1>6. \A i \in 1 .. k : i \in 1 .. n
    BY <1>2
  <1>7. \A i \in 1 .. n - k : k + i \in 1 .. n /\ k + i \notin 1 .. k
    BY <1>2
  <1>8. \A i \in 1 .. n : i \in 1 .. k \/ (i - k \in 1 .. n - k /\ k + (i - k) = i)
    BY <1>2
  <1>9. Elems(s) = Elems(a) \cup Elems(b)
    <2>1. ASSUME NEW x \in Elems(s) PROVE x \in Elems(a) \cup Elems(b)
      <3>1. PICK i \in 1 .. n : x = s[i]
        BY <1>1, <2>1 DEF Elems
      <3>2. CASE i \in 1 .. k
        BY <1>3, <1>5, <3>1, <3>2 DEF Elems
      <3>3. CASE i - k \in 1 .. n - k /\ k + (i - k) = i
        <4>1. b[i - k] = x
          BY <1>4, <3>1, <3>3
        <4> QED
          BY <1>5, <3>3, <4>1 DEF Elems
      <3> QED
        BY <1>8, <3>2, <3>3
    <2>2. ASSUME NEW x \in Elems(a) PROVE x \in Elems(s)
      BY <1>1, <1>3, <1>5, <1>6, <2>2 DEF Elems
    <2>3. ASSUME NEW x \in Elems(b) PROVE x \in Elems(s)
      BY <1>1, <1>4, <1>5, <1>7, <2>3 DEF Elems
    <2> QED
      BY <2>1, <2>2, <2>3
  <1>10. ASSUME Distinct(s)
         PROVE  Distinct(a) /\ Distinct(b) /\ Elems(a) \cap Elems(b) = {}
    <2>1. Distinct(a)
      BY <1>1, <1>3, <1>5, <1>6, <1>10 DEF Distinct
    <2>2. Distinct(b)
      <3> SUFFICES ASSUME NEW i \in 1 .. n - k, NEW j \in 1 .. n - k, b[i] = b[j] PROVE i = j
        BY <1>5 DEF Distinct
      <3>1. k + i = k + j
        BY <1>1, <1>4, <1>7, <1>10 DEF Distinct
      <3> QED
        BY <1>2, <3>1
    <2>3. ASSUME NEW x, x \in Elems(a), x \in Elems(b) PROVE FALSE
      <3>1. PICK i \in 1 .. k : x = a[i]
        BY <1>5, <2>3 DEF Elems
      <3>2. PICK j \in 1 .. n - k : x = b[j]
        BY <1>5, <2>3 DEF Elems
      <3>3. s[i] = s[k + j] /\ i \in 1 .. n /\ k + j \in 1 .. n /\ i # k + j
        BY <1>3, <1>4, <1>6, <1>7, <3>1, <3>2
      <3> QED
        BY <1>1, <1>10, <3>3 DEF Distinct
    <2> QED
      BY <2>1, <2>2, <2>3
  <1> QED
    BY <1>1, <1>3, <1>4, <1>9, <1>10 DEF a, b, IsCut

\* A sequence without the element at one position.
LEMMA RemoveOne ==
  ASSUME NEW S, NEW s \in Seq(S), NEW i \in 1 .. Len(s)
  PROVE  /\ RemoveAt(s, i) \in Seq(S) /\ Len(RemoveAt(s, i)) = Len(s) - 1
         /\ \A j \in 1 .. Len(s) - 1 : RemoveAt(s, i)[j] = IF j < i THEN s[j] ELSE s[j + 1]
  <1> DEFINE a == SubSeq(s, 1, i - 1)
             b == SubSeq(s, i + 1, Len(s))
  <1>0. Len(s) \in Nat /\ \A j \in 1 .. Len(s) : s[j] \in S
    BY LenProperties, ElementOfSeq
  <1>1. a \in Seq(S) /\ Len(a) = i - 1 /\ \A j \in 1 .. i - 1 : a[j] = s[j]
    <2>1. \A j \in 1 .. i - 1 : s[j] \in S
      BY <1>0
    <2>2. 1 \in Int /\ i - 1 \in Int /\ (i - 1) - 1 + 1 = i - 1
      BY <1>0
    <2>3. /\ a \in Seq(S) /\ Len(a) = IF 1 <= i - 1 THEN (i - 1) - 1 + 1 ELSE 0
          /\ \A j \in 1 .. (i - 1) - 1 + 1 : a[j] = s[1 + j - 1]
      BY <2>1, <2>2, SubSeqProperties
    <2> QED
      BY <1>0, <2>3
  <1>2. b \in Seq(S) /\ Len(b) = Len(s) - i /\ \A j \in 1 .. Len(s) - i : b[j] = s[i + j]
    <2>1. \A j \in i + 1 .. Len(s) : s[j] \in S
      BY <1>0
    <2>2. i + 1 \in Int /\ Len(s) \in Int
      BY <1>0
    <2>3. /\ b \in Seq(S) /\ Len(b) = IF i + 1 <= Len(s) THEN Len(s) - (i + 1) + 1 ELSE 0
          /\ \A j \in 1 .. Len(s) - (i + 1) + 1 : b[j] = s[(i + 1) + j - 1]
      BY <2>1, <2>2, SubSeqProperties
    <2>4. Len(s) - (i + 1) + 1 = Len(s) - i /\ \A j \in 1 .. Len(s) - i : (i + 1) + j - 1 = i + j
      BY <1>0
    <2>5. Len(b) = Len(s) - i
      BY <1>0, <2>3
    <2>6. \A j \in 1 .. Len(s) - i : b[j] = s[i + j]
      <3> HIDE DEF b
      <3> QED
        BY <2>3, <2>4
    <2> QED
      BY <2>3, <2>5, <2>6
  <1>3. RemoveAt(s, i) = a \o b
    BY DEF RemoveAt
  <1> HIDE DEF a, b
  <1>4. /\ a \o b \in Seq(S) /\ Len(a \o b) = Len(a) + Len(b)
        /\ \A j \in 1 .. Len(a) + Len(b) : (a \o b)[j] = IF j <= Len(a) THEN a[j] ELSE b[j - Len(a)]
    BY <1>1, <1>2, ConcatProperties
  <1>5. ASSUME NEW j \in 1 .. Len(s) - 1
        PROVE  (a \o b)[j] = IF j < i THEN s[j] ELSE s[j + 1]
    <2>1. CASE j < i
      BY <1>0, <1>1, <1>2, <1>4, <2>1
    <2>2. CASE ~(j < i)
      <3>1. j - (i - 1) \in 1 .. Len(s) - i /\ i + (j - (i - 1)) = j + 1 /\ ~(j <= i - 1)
            /\ j \in 1 .. (i - 1) + (Len(s) - i)
        BY <1>0, <2>2
      <3>2. (a \o b)[j] = b[j - (i - 1)]
        BY <1>1, <1>2, <1>4, <3>1
      <3>3. b[j - (i - 1)] = s[j + 1]
        BY <1>2, <3>1
      <3> QED
        BY <2>2, <3>2, <3>3
    <2> QED
      BY <2>1, <2>2
  <1> QED
    BY <1>0, <1>1, <1>2, <1>3, <1>4, <1>5

\* Without distinct elements, one is gone and the others are left.
LEMMA RemoveDistinct ==
  ASSUME NEW S, NEW s \in Seq(S), NEW i \in 1 .. Len(s), Distinct(s)
  PROVE  Distinct(RemoveAt(s, i)) /\ Elems(RemoveAt(s, i)) = Elems(s) \ {s[i]}
  <1> DEFINE r == RemoveAt(s, i)
  <1>1. /\ r \in Seq(S) /\ Len(r) = Len(s) - 1
        /\ \A j \in 1 .. Len(s) - 1 : r[j] = IF j < i THEN s[j] ELSE s[j + 1]
    BY RemoveOne
  <1>2. DOMAIN s = 1 .. Len(s) /\ DOMAIN r = 1 .. Len(s) - 1 /\ Len(s) \in Nat
    BY <1>1, LenProperties
  <1> HIDE DEF r
  <1> DEFINE old(j) == IF j < i THEN j ELSE j + 1
  <1>6. \A j \in 1 .. Len(s) - 1 : old(j) \in 1 .. Len(s) /\ r[j] = s[old(j)] /\ old(j) # i
    BY <1>1, <1>2
  <1>3. Distinct(r)
    <2> SUFFICES ASSUME NEW a \in 1 .. Len(s) - 1, NEW b \in 1 .. Len(s) - 1, r[a] = r[b]
                 PROVE  a = b
      BY <1>2 DEF Distinct
    <2>1. old(a) = old(b)
      <3> HIDE DEF old
      <3> QED
        BY <1>2, <1>6 DEF Distinct
    <2> QED
      BY <1>2, <2>1
  <1>4. ASSUME NEW x \in Elems(s), x # s[i]
        PROVE  x \in Elems(r)
    <2>1. PICK j \in 1 .. Len(s) : x = s[j]
      BY <1>2 DEF Elems
    <2>2. CASE j < i
      <3>1. j \in 1 .. Len(s) - 1 /\ r[j] = x
        BY <1>1, <1>2, <2>1, <2>2
      <3> QED
        BY <1>2, <3>1 DEF Elems
    <2>3. CASE j > i
      <3>1. j - 1 \in 1 .. Len(s) - 1 /\ r[j - 1] = x
        BY <1>1, <1>2, <2>1, <2>3
      <3> QED
        BY <1>2, <3>1 DEF Elems
    <2> QED
      BY <1>2, <1>4, <2>1, <2>2, <2>3
  <1>5. ASSUME NEW x \in Elems(r)
        PROVE  x \in Elems(s) /\ x # s[i]
    <2>1. PICK j \in 1 .. Len(s) - 1 : x = r[j]
      BY <1>2, <1>5 DEF Elems
    <2> HIDE DEF old
    <2> QED
      BY <1>2, <1>6, <2>1 DEF Elems, Distinct
  <1> QED
    BY <1>3, <1>4, <1>5 DEF r

\* A sequence over a set is one over a larger set.
LEMMA SeqWiden ==
  ASSUME NEW S, NEW T, S \subseteq T, NEW s \in Seq(S)
  PROVE  s \in Seq(T)
  <1>1. PICK n \in Nat : s \in [1 .. n -> S]
    BY SeqDef
  <1>2. s \in [1 .. n -> T]
    BY <1>1
  <1> QED
    BY <1>2, FunctionIsSeq

\* A sequence over S of length n without repetitions, whose elements are those of X.
IsJoin(u, S, n, X) == u \in Seq(S) /\ Len(u) = n /\ Distinct(u) /\ Elems(u) = X

\* Two sequences with no element in common, joined.
LEMMA Joined ==
  ASSUME NEW S, NEW s \in Seq(S), NEW t \in Seq(S), Distinct(s), Distinct(t),
         NEW h \in Nat, NEW g \in Nat, Len(s) = h, Len(t) = g, Elems(s) \cap Elems(t) = {}
  PROVE  IsJoin(s \o t, S, h + g, Elems(s) \cup Elems(t))
  <1>1. s \o t \in Seq(S) /\ Len(s \o t) = Len(s) + Len(t)
    BY ONLY ConcatProperties, s \in Seq(S), t \in Seq(S)
  <1>2. Len(s \o t) = h + g
    BY <1>1
  <1> QED
    BY <1>1, <1>2, ConcatElems DEF IsJoin

\* Counting by sequence: no element is counted twice.
LEMMA CountElems ==
  ASSUME NEW S, NEW s \in Seq(S), Distinct(s)
  PROVE  IsFiniteSet(Elems(s)) /\ Cardinality(Elems(s)) = Len(s)
  <1>1. PICK n \in Nat : n = Len(s) /\ DOMAIN s = 1 .. n
    BY LenProperties
  <1> DEFINE f == [i \in 1 .. n |-> s[i]]
  <1>2. f \in Bijection(1 .. n, Elems(s))
    <2>1. f \in [1 .. n -> Elems(s)]
      BY <1>1 DEF Elems
    <2>2. \A x \in Elems(s) : \E i \in 1 .. n : f[i] = x
      BY <1>1 DEF Elems
    <2>3. \A i, j \in 1 .. n : f[i] = f[j] => i = j
      BY <1>1 DEF Distinct
    <2> QED
      BY <2>1, <2>2, <2>3 DEF Bijection, Injection, Surjection, IsInjective
  <1>3. ExistsBijection(1 .. n, Elems(s))
    BY <1>2 DEF ExistsBijection
  <1> QED
    BY <1>1, <1>3, FS_CountingElements, FS_NatBijection

\* Two sets without a common element, counted.
LEMMA DisjointCount ==
  ASSUME NEW S, NEW T, IsFiniteSet(S), IsFiniteSet(T), S \cap T = {}
  PROVE  Cardinality(S \cup T) = Cardinality(S) + Cardinality(T)
  <1>1. Cardinality(S \cup T) = Cardinality(S) + Cardinality(T) - Cardinality(S \cap T)
    BY FS_Union
  <1>2. Cardinality(S \cap T) = 0
    BY FS_EmptySet
  <1>3. Cardinality(S) \in Nat /\ Cardinality(T) \in Nat
    BY FS_CardinalityType
  <1> QED
    BY <1>1, <1>2, <1>3

\* How many elements of T are less than e.
Rank(T, e) == Cardinality({ f \in T : f < e })

\* A rank is less than the number of elements; the greater element has the greater rank.
LEMMA RankOrder ==
  ASSUME NEW T \in SUBSET Nat, IsFiniteSet(T)
  PROVE  /\ \A e \in T : Rank(T, e) \in Nat /\ Rank(T, e) < Cardinality(T)
         /\ \A e, g \in T : e < g => Rank(T, e) < Rank(T, g)
  <1>1. PICK n \in Nat : n = Cardinality(T)
    BY FS_CardinalityType
  <1> DEFINE lower(e) == { f \in T : f < e }
  <1>2. ASSUME NEW e \in T
        PROVE  IsFiniteSet(lower(e)) /\ Rank(T, e) \in Nat /\ Rank(T, e) < n
    <2>1. lower(e) \subseteq T /\ lower(e) # T
      BY <1>2
    <2>2. IsFiniteSet(lower(e)) /\ Cardinality(lower(e)) <= n /\ Cardinality(lower(e)) # n
      BY <1>1, <2>1, FS_Subset
    <2>3. Cardinality(lower(e)) \in Nat
      BY <2>2, FS_CardinalityType
    <2> QED
      BY <2>2, <2>3 DEF Rank
  <1>3. ASSUME NEW e \in T, NEW g \in T, e < g
        PROVE  Rank(T, e) < Rank(T, g)
    <2>1. lower(e) \subseteq lower(g) /\ e \in lower(g) /\ e \notin lower(e)
      <3>1. PICK a \in Nat, c \in Nat : a = e /\ c = g /\ a < c
        BY <1>3
      <3>2. ~(a < a)
        OBVIOUS
      <3>3. ASSUME NEW f \in T, f < a PROVE f < c
        <4>1. PICK d \in Nat : d = f
          OBVIOUS
        <4>2. d < c
          BY <3>1, <3>3, <4>1
        <4> QED
          BY <4>1, <4>2
      <3> QED
        BY <3>1, <3>2, <3>3
    <2>2. PICK A, B : /\ A = lower(e) /\ A = { f \in T : f < e }
                      /\ B = lower(g) /\ B = { f \in T : f < g }
      OBVIOUS
    <2>3. A \subseteq B /\ A # B /\ IsFiniteSet(B)
      BY <1>2, <2>1, <2>2
    <2>4. IsFiniteSet(A) /\ Cardinality(A) <= Cardinality(B) /\ Cardinality(A) # Cardinality(B)
      BY <2>3, FS_Subset
    <2>5. Cardinality(A) \in Nat /\ Cardinality(B) \in Nat
      BY <2>3, <2>4, FS_CardinalityType
    <2>6. Rank(T, e) = Cardinality(A) /\ Rank(T, g) = Cardinality(B)
      BY <2>2 DEF Rank
    <2> QED
      BY <2>4, <2>5, <2>6
  <1> QED
    BY <1>1, <1>2, <1>3

\* The elements of a finite set of numbers, by rank.
LEMMA RankFacts ==
  ASSUME NEW T \in SUBSET Nat, IsFiniteSet(T)
  PROVE  /\ \A e \in T : Rank(T, e) \in 0 .. Cardinality(T) - 1
         /\ \A e, g \in T : Rank(T, e) = Rank(T, g) => e = g
         /\ \A i \in 0 .. Cardinality(T) - 1 : \E e \in T : Rank(T, e) = i
  <1>1. PICK n \in Nat : n = Cardinality(T)
    BY FS_CardinalityType
  <1>2. \A e \in T : Rank(T, e) \in Nat /\ Rank(T, e) < n
    BY <1>1, RankOrder
  <1>3. \A e, g \in T : e < g => Rank(T, e) < Rank(T, g)
    BY RankOrder
  <1>4. \A e, g \in T : Rank(T, e) = Rank(T, g) => e = g
    <2> SUFFICES ASSUME NEW e \in T, NEW g \in T, e # g PROVE Rank(T, e) # Rank(T, g)
      OBVIOUS
    <2>1. e < g \/ g < e
      OBVIOUS
    <2>2. Rank(T, e) \in Nat /\ Rank(T, g) \in Nat
      BY <1>2
    <2>3. Rank(T, e) < Rank(T, g) \/ Rank(T, g) < Rank(T, e)
      BY <1>3, <2>1
    <2> QED
      BY <2>2, <2>3
  <1>5. \A e \in T : Rank(T, e) \in 0 .. n - 1
    <2> SUFFICES ASSUME NEW e \in T PROVE Rank(T, e) \in 0 .. n - 1
      OBVIOUS
    <2>1. Rank(T, e) \in Nat /\ Rank(T, e) < n
      BY <1>2
    <2> QED
      BY <2>1
  <1> DEFINE r == [e \in T |-> Rank(T, e)]
  <1>6. r \in [T -> 0 .. n - 1] /\ r \in Injection(T, 0 .. n - 1)
    <2>1. r \in [T -> 0 .. n - 1]
      BY <1>5
    <2>2. \A e, g \in T : r[e] = r[g] => e = g
      BY <1>4
    <2> QED
      BY <2>1, <2>2 DEF Injection, IsInjective
  <1>7. IsFiniteSet(0 .. n - 1) /\ Cardinality(0 .. n - 1) = n
    <2>1. /\ IsFiniteSet(0 .. n - 1)
          /\ Cardinality(0 .. n - 1) = IF 0 > n - 1 THEN 0 ELSE n - 1 - 0 + 1
      BY FS_Interval
    <2> QED
      BY <2>1
  <1>8. r \in Surjection(T, 0 .. n - 1)
    <2> HIDE DEF r
    <2> QED
      BY <1>1, <1>6, <1>7, FS_Injection
  <1>9. \A i \in 0 .. n - 1 : \E e \in T : Rank(T, e) = i
    BY <1>8 DEF Surjection
  <1> QED
    BY <1>1, <1>4, <1>5, <1>9
=============================================================================
