----------------------------- MODULE DataLemmas -----------------------------
(***************************************************************************)
(* Induction over numbers and what follows from it: a fold over a sequence *)
(* and a recursion over an interval have the values they are written to    *)
(* have, quotient and remainder are unique, products grow, and a           *)
(* congruential generator whose modulus is a power of two has its full     *)
(* period.  The induction comes from least elements (WFMin): of the        *)
(* library's theorems that is the form the provers can instantiate.        *)
(***************************************************************************)
EXTENDS Integers, Sequences, SequenceTheorems, WellFoundedInduction, TLAPS

-----------------------------------------------------------------------------
\* Induction over the natural numbers: what the provers can instantiate is the
\* library's theorem about the least elements of a well-founded relation.

\* A set on which a relation is well founded has an element with none below it.
LEMMA NoneBelow ==
    ASSUME NEW T, NEW R, NEW S, T \subseteq S, T # {}, IsWellFoundedOn(R, S)
    PROVE  \E n \in T : \A m \in T : ~ (<<m, n>> \in R)
BY WFMin

\* The least element with respect to a relation that contains "less than".
LEMMA LeastIn ==
    ASSUME NEW T \in SUBSET Nat, T # {}, NEW R, IsWellFoundedOn(R, Nat),
           \A a, b \in Nat : a < b => <<a, b>> \in R
    PROVE  \E n \in T : \A m \in T : n <= m
<1>1. PICK n \in T : \A m \in T : ~ (<<m, n>> \in R)
  BY NoneBelow
<1>2. n \in Nat /\ \A m \in T : m \in Nat
  OBVIOUS
<1>3. \A m \in T : ~(m < n)
  BY <1>1, <1>2
<1> QED BY <1>2, <1>3

\* A set of natural numbers that is not empty has a least element.
LEMMA LeastNat ==
    ASSUME NEW T \in SUBSET Nat, T # {}
    PROVE  \E n \in T : \A m \in T : n <= m
<1>1. IsWellFoundedOn(OpToRel(<, Nat), Nat)
  BY NatLessThanWellFounded
<1>2. \A a, b \in Nat : a < b => <<a, b>> \in OpToRel(<, Nat)
  BY DEF OpToRel
<1> QED BY <1>1, <1>2, LeastIn, Zenon

\* A set that has 0, and with every number the next one, has all of them.
LEMMA NatInd ==
    ASSUME NEW S \in SUBSET Nat, 0 \in S, \A n \in S : n + 1 \in S
    PROVE  S = Nat
<1> SUFFICES ASSUME Nat \ S # {} PROVE FALSE
  OBVIOUS
<1>1. PICK n \in Nat \ S : \A m \in Nat \ S : n <= m
  BY LeastNat
<1>2. n # 0 /\ n - 1 \in Nat /\ n = (n - 1) + 1
  OBVIOUS
<1>3. n - 1 \in S
  BY <1>1, <1>2
<1> QED BY <1>2, <1>3

\* The largest element of a set, as the library's folds choose it.
Largest(s) == CHOOSE x \in s : \A y \in s : x >= y

\* f is the function a fold over 1 .. n goes through: it takes the largest index last.
IsFold(f, A, b, G, n) ==
    /\ f \in [SUBSET (1 .. n) -> A]
    /\ \A s \in SUBSET (1 .. n) : f[s] = (IF s = {} THEN b ELSE G[<<f[s \ {Largest(s)}], Largest(s)>>])

\* The recursive function of a fold exists.
LEMMA FoldExists ==
    ASSUME NEW A, NEW b \in A, NEW n \in Nat, NEW G \in [A \X (1 .. n) -> A]
    PROVE  \E f : IsFold(f, A, b, G, n)
<1> DEFINE S == {k \in Nat : k <= n => \E f : IsFold(f, A, b, G, k)}
<1>1. 0 \in S
  <2> DEFINE f == [s \in SUBSET (1 .. 0) |-> b]
  <2>1. \A s \in SUBSET (1 .. 0) : s = {}
    OBVIOUS
  <2>2. f \in [SUBSET (1 .. 0) -> A] /\ \A s \in SUBSET (1 .. 0) : f[s] = b
    OBVIOUS
  <2> HIDE DEF f
  <2>3. IsFold(f, A, b, G, 0)
    BY <2>1, <2>2 DEF IsFold
  <2> QED BY <2>3
<1>2. ASSUME NEW k \in S PROVE k + 1 \in S
  <2> SUFFICES ASSUME k + 1 <= n PROVE \E g : IsFold(g, A, b, G, k + 1)
    BY <1>2
  <2>1. PICK f : IsFold(f, A, b, G, k)
    BY <1>2
  <2> DEFINE g == [s \in SUBSET (1 .. k + 1) |-> IF k + 1 \in s THEN G[<<f[s \ {k + 1}], k + 1>>] ELSE f[s]]
  <2>2. k \in Nat /\ k + 1 \in 1 .. n
    BY <1>2
  <2>3. \A s \in SUBSET (1 .. k + 1) : s \ {k + 1} \in SUBSET (1 .. k)
    BY <2>2
  <2>4. \A s \in SUBSET (1 .. k + 1) : k + 1 \notin s => s \in SUBSET (1 .. k)
    BY <2>2
  <2>5. \A s \in SUBSET (1 .. k) : f[s] \in A
    BY <2>1 DEF IsFold
  <2>6. g \in [SUBSET (1 .. k + 1) -> A]
    BY <2>2, <2>3, <2>4, <2>5
  <2>7. \A s \in SUBSET (1 .. k) : s \in SUBSET (1 .. k + 1) /\ k + 1 \notin s
    BY <2>2
  <2>8. \A s \in SUBSET (1 .. k) : g[s] = f[s]
    BY <2>7
  <2>9. ASSUME NEW s \in SUBSET (1 .. k + 1)
        PROVE  g[s] = (IF s = {} THEN b ELSE G[<<g[s \ {Largest(s)}], Largest(s)>>])
    <3>1. CASE k + 1 \in s
      <4>1. \A y \in s : y \in Nat /\ k + 1 >= y
        BY <2>2
      <4>2. \A x \in s : (\A y \in s : x >= y) => x = k + 1
        BY <3>1, <4>1
      <4>3. Largest(s) = k + 1
        BY <3>1, <4>1, <4>2 DEF Largest
      <4>4. g[s] = G[<<f[s \ {k + 1}], k + 1>>]
        BY <3>1
      <4>5. g[s \ {k + 1}] = f[s \ {k + 1}]
        BY <2>3, <2>8
      <4> QED BY <3>1, <4>3, <4>4, <4>5
    <3>2. CASE k + 1 \notin s
      <4>1. s \in SUBSET (1 .. k)
        BY <2>4, <3>2
      <4>2. f[s] = (IF s = {} THEN b ELSE G[<<f[s \ {Largest(s)}], Largest(s)>>])
        BY <4>1, <2>1 DEF IsFold
      <4>3. g[s \ {Largest(s)}] = f[s \ {Largest(s)}] /\ g[s] = f[s]
        BY <4>1, <2>8
      <4> QED BY <4>2, <4>3
    <3> QED BY <3>1, <3>2
  <2> HIDE DEF g
  <2>10. IsFold(g, A, b, G, k + 1)
    BY <2>6, <2>9 DEF IsFold
  <2> QED BY <2>10
<1> HIDE DEF S
<1>3. S = Nat
  <2>1. S \in SUBSET Nat
    BY DEF S
  <2> QED BY <1>1, <1>2, <2>1, NatInd
<1> QED BY <1>3 DEF S

\* The largest element of a set of indices is one of them.
LEMMA LargestIn ==
    ASSUME NEW n \in Nat, NEW s \in SUBSET (1 .. n), s # {}
    PROVE  Largest(s) \in s
<1> DEFINE T == {m \in Nat : \A y \in s : m >= y}
<1>1. n \in T
  OBVIOUS
<1>2. PICK m \in T : \A k \in T : m <= k
  <2> HIDE DEF T
  <2>1. T \in SUBSET Nat /\ T # {}
    BY <1>1 DEF T
  <2> QED BY <2>1, LeastNat
<1>3. m \in s
  <2> SUFFICES ASSUME m \notin s PROVE FALSE
    OBVIOUS
  <2>1. PICK y \in s : TRUE
    OBVIOUS
  <2>2. m \in Nat /\ m > y /\ y \in Nat
    BY <1>2
  <2>3. m - 1 \in T
    BY <2>2, <1>2
  <2>4. m <= m - 1
    BY <2>3, <1>2
  <2> QED BY <2>2, <2>4
<1>4. \A y \in s : m >= y
  BY <1>2
<1> QED BY <1>3, <1>4 DEF Largest

\* The last index is the largest.
LEMMA LargestOf ==
    ASSUME NEW n \in Nat, NEW k \in Nat, k + 1 <= n
    PROVE  /\ 1 .. k + 1 \in SUBSET (1 .. n) /\ 1 .. k + 1 # {}
           /\ Largest(1 .. k + 1) = k + 1 /\ (1 .. k + 1) \ {k + 1} = 1 .. k
<1>1. 1 .. k + 1 \in SUBSET (1 .. n) /\ k + 1 \in 1 .. k + 1
  OBVIOUS
<1>2. \A y \in 1 .. k + 1 : y \in Nat /\ k + 1 >= y
  OBVIOUS
<1>3. \A x \in 1 .. k + 1 : (\A y \in 1 .. k + 1 : x >= y) => x = k + 1
  BY <1>1, <1>2
<1>4. Largest(1 .. k + 1) = k + 1
  BY <1>1, <1>2, <1>3 DEF Largest
<1>5. (1 .. k + 1) \ {k + 1} = 1 .. k
  OBVIOUS
<1> QED BY <1>1, <1>4, <1>5

\* h solves a recursion over 0 .. n.
IsRecursion(h, A, b, G, n) ==
    h \in [0 .. n -> A] /\ h[0] = b /\ \A k \in 1 .. n : h[k] = G[<<h[k - 1], k>>]

\* Such a recursion has a solution.
LEMMA RecursionExists ==
    ASSUME NEW A, NEW b \in A, NEW n \in Nat, NEW G \in [A \X (1 .. n) -> A]
    PROVE  \E h : IsRecursion(h, A, b, G, n)
<1> DEFINE S == {m \in Nat : m <= n => \E h \in [0 .. m -> A] : h[0] = b /\ \A k \in 1 .. m : h[k] = G[<<h[k - 1], k>>]}
<1>1. 0 \in S
  <2> DEFINE h == [k \in 0 .. 0 |-> b]
  <2>1. h \in [0 .. 0 -> A] /\ h[0] = b /\ \A k \in 1 .. 0 : h[k] = G[<<h[k - 1], k>>]
    OBVIOUS
  <2> QED BY <2>1
<1>2. ASSUME NEW m \in S PROVE m + 1 \in S
  <2> SUFFICES ASSUME m + 1 <= n
               PROVE  \E h \in [0 .. m + 1 -> A] : h[0] = b /\ \A k \in 1 .. m + 1 : h[k] = G[<<h[k - 1], k>>]
    BY <1>2
  <2>1. PICK h \in [0 .. m -> A] : h[0] = b /\ \A k \in 1 .. m : h[k] = G[<<h[k - 1], k>>]
    BY <1>2
  <2> DEFINE g == [k \in 0 .. m + 1 |-> IF k = m + 1 THEN G[<<h[m], m + 1>>] ELSE h[k]]
  <2>2. h[m] \in A /\ m + 1 \in 1 .. n /\ m \in Nat
    BY <1>2
  <2>3. G[<<h[m], m + 1>>] \in A
    BY <2>2
  <2>4. g \in [0 .. m + 1 -> A]
    BY <2>2, <2>3
  <2>5. g[m + 1] = G[<<h[m], m + 1>>] /\ \A k \in 0 .. m : g[k] = h[k]
    BY <2>2
  <2> HIDE DEF g
  <2>6. g[0] = b
    BY <2>1, <2>2, <2>5
  <2>7. ASSUME NEW k \in 1 .. m + 1 PROVE g[k] = G[<<g[k - 1], k>>]
    <3>1. CASE k = m + 1
      <4>1. k - 1 = m /\ m \in 0 .. m
        BY <3>1, <2>2
      <4> QED BY <3>1, <4>1, <2>5
    <3>2. CASE k # m + 1
      <4>1. k \in 1 .. m /\ k - 1 \in 0 .. m /\ k \in 0 .. m
        BY <3>2, <2>2
      <4> QED BY <4>1, <2>1, <2>5
    <3> QED BY <3>1, <3>2
  <2> QED BY <2>4, <2>6, <2>7
<1> HIDE DEF S
<1>3. S = Nat
  <2>1. S \in SUBSET Nat
    BY DEF S
  <2> QED BY <1>1, <1>2, <2>1, NatInd
<1>4. n \in S
  BY <1>3
<1>5. PICK h \in [0 .. n -> A] : h[0] = b /\ \A k \in 1 .. n : h[k] = G[<<h[k - 1], k>>]
  BY <1>4 DEF S
<1>6. IsRecursion(h, A, b, G, n)
  BY <1>5 DEF IsRecursion
<1> QED BY <1>6

\* Concatenation is associative.
Associates(s, t, u) == (s \o t) \o u = s \o (t \o u)

LEMMA ConcatAssociates ==
    ASSUME NEW S, NEW s \in Seq(S), NEW t \in Seq(S), NEW u \in Seq(S)
    PROVE  Associates(s, t, u)
  BY DEF Associates

-----------------------------------------------------------------------------
\* A multiple is at least one step from the next.
LEMMA Multiples ==
    ASSUME NEW B \in Nat \ {0}, NEW a \in Int, NEW b \in Int, a < b
    PROVE  B * a \in Int /\ B * b \in Int /\ B * b >= B * a + B
<1>1. b >= a + 1
  OBVIOUS
<1>2. B * b >= B * (a + 1)
  BY <1>1
<1>3. B * (a + 1) = B * a + B
  OBVIOUS
<1> QED BY <1>2, <1>3

\* Quotient and remainder make the number.
LEMMA Division ==
    ASSUME NEW B \in Nat \ {0}, NEW x \in Nat
    PROVE  /\ x \div B \in Nat /\ x % B \in 0 .. (B - 1)
           /\ B * (x \div B) \in Nat
           /\ x = B * (x \div B) + (x % B)
<1>1. x \div B \in Nat /\ x % B \in 0 .. (B - 1)
  OBVIOUS
<1>2. x = B * (x \div B) + (x % B)
  OBVIOUS
<1>3. B * (x \div B) \in Nat
  BY <1>1
<1> QED BY <1>1, <1>2, <1>3

\* ... and no others do.
LEMMA DivisionIsUnique ==
    ASSUME NEW B \in Nat \ {0}, NEW p \in Nat, NEW q \in Nat, NEW r \in 0 .. (B - 1), NEW s \in 0 .. (B - 1),
           B * p + r = B * q + s
    PROVE  p = q /\ r = s
<1>0. B * p \in Nat /\ B * q \in Nat
  OBVIOUS
<1>1. ASSUME p < q PROVE FALSE
  <2>1. B * q >= B * p + B
    BY <1>1, Multiples
  <2> QED BY <1>0, <2>1
<1>2. ASSUME q < p PROVE FALSE
  <2>1. B * p >= B * q + B
    BY <1>2, Multiples
  <2> QED BY <1>0, <2>1
<1>3. p = q
  BY <1>1, <1>2
<1> QED BY <1>0, <1>3

\* The remainder and quotient of a number given by its parts.
LEMMA PartsOfSum ==
    ASSUME NEW B \in Nat \ {0}, NEW q \in Nat, NEW r \in 0 .. (B - 1)
    PROVE  (B * q + r) \div B = q /\ (B * q + r) % B = r
<1> DEFINE x == B * q + r
<1>1. x \in Nat
  <2>1. B * q \in Nat
    OBVIOUS
  <2> QED BY <2>1
<1>2. /\ x \div B \in Nat /\ x % B \in 0 .. (B - 1)
      /\ x = B * (x \div B) + (x % B)
  BY <1>1, Division
<1> QED BY <1>2, DivisionIsUnique

\* Products with a fixed factor.
LEMMA Product ==
    ASSUME NEW g \in Nat, NEW k \in Int
    PROVE  /\ k * g \in Int /\ (k - 1) * g \in Int /\ k * g = g * k
           /\ (k - 1) * g = k * g - g /\ (k + 1) * g = k * g + g
<1>1. k * g \in Int /\ (k - 1) * g \in Int
  OBVIOUS
<1>2. k * g = g * k
  OBVIOUS
<1>3. (k - 1) * g = k * g - g
  OBVIOUS
<1>4. (k + 1) * g = k * g + g
  OBVIOUS
<1> QED BY <1>1, <1>2, <1>3, <1>4

LEMMA ProductGrows ==
    ASSUME NEW g \in Nat, NEW k \in Int, NEW n \in Int, k <= n
    PROVE  k * g <= n * g
  OBVIOUS

LEMMA ProductNat ==
    ASSUME NEW g \in Nat, NEW k \in Nat
    PROVE  k * g \in Nat
  OBVIOUS

-----------------------------------------------------------------------------
\* Congruential generators (Hull and Dobell), for powers of two.

\* The sequence of a generator before remainders are taken; the multiplier is 4b + 1
\* and the increment 2e + 1.
Congruential(y, N, b, e) ==
    y \in [0 .. N -> Int] /\ \A n \in 0 .. N - 1 : y[n + 1] = y[n] + 4 * (b * y[n]) + 2 * e + 1

\* x is z and a multiple of p.
ApartBy(x, z, p) == \E s \in Int : x = z + p * s

\* p steps move by an odd multiple of p.
MovesBy(y, N, p) == \A n \in Nat : n + p <= N => \E t \in Int : y[n + p] = y[n] + p + 2 * (p * t)

\* Only multiples of p steps move by a multiple of p.
ReturnsBy(y, N, p) ==
    \A j, d \in Nat : j + d <= N /\ ApartBy(y[j + d], y[j], p) => \E f \in Nat : d = p * f

LEMMA Distribute ==
    ASSUME NEW p \in Int, NEW u \in Int, NEW v \in Int
    PROVE  /\ p * u \in Int /\ p * v \in Int
           /\ p * (u + v) = p * u + p * v /\ p * (u - v) = p * u - p * v /\ p * (2 * u) = 2 * (p * u)
           /\ (2 * p) * u = 2 * (p * u) /\ p * (u + 1) = p * u + p
<1>1. p * u \in Int /\ p * v \in Int
  OBVIOUS
<1>2. p * (u + v) = p * u + p * v
  OBVIOUS
<1>3. p * (u - v) = p * u - p * v
  OBVIOUS
<1>4. p * (2 * u) = 2 * (p * u)
  OBVIOUS
<1>5. (2 * p) * u = 2 * (p * u)
  OBVIOUS
<1>6. p * (u + 1) = p * u + p
  OBVIOUS
<1> QED BY <1>1, <1>2, <1>3, <1>4, <1>5, <1>6

LEMMA Regroup ==
    ASSUME NEW p \in Int, NEW b \in Int, NEW t \in Int
    PROVE  b * (p + 2 * (p * t)) = p * (b * (1 + 2 * t)) /\ b * (1 + 2 * t) \in Int
<1>1. b * (1 + 2 * t) \in Int
  OBVIOUS
<1>2. p + 2 * (p * t) = p * (1 + 2 * t)
  OBVIOUS
<1>3. b * (p * (1 + 2 * t)) = p * (b * (1 + 2 * t))
  <2> DEFINE x == 1 + 2 * t
  <2>1. x \in Int
    OBVIOUS
  <2> HIDE DEF x
  <2> QED BY <2>1 DEF x
<1> QED BY <1>1, <1>2, <1>3

\* The difference of p steps changes by multiples of 4p.
Drifts(y, n, i, p) == \E u \in Int : y[n + i + p] = y[n + i] + (y[n + p] - y[n]) + 4 * (p * u)

LEMMA Drift ==
    ASSUME NEW N \in Nat, NEW b \in Int, NEW e \in Int, NEW y, Congruential(y, N, b, e),
           NEW p \in Nat, MovesBy(y, N, p), NEW n \in Nat, NEW i \in Nat, n + i + p <= N
    PROVE  Drifts(y, n, i, p)
<1> DEFINE S == {k \in Nat : n + k + p <= N => \E u \in Int : y[n + k + p] = y[n + k] + (y[n + p] - y[n]) + 4 * (p * u)}
<1>0. \A k \in 0 .. N : y[k] \in Int
  BY DEF Congruential
<1>1. 0 \in S
  <2>1. n \in 0 .. N /\ n + p \in 0 .. N /\ n + 0 = n /\ n + 0 + p = n + p
    OBVIOUS
  <2>2. y[n + 0 + p] = y[n + 0] + (y[n + p] - y[n]) + 4 * (p * 0)
    BY <1>0, <2>1
  <2> QED BY <2>2
<1>2. ASSUME NEW k \in S PROVE k + 1 \in S
  <2> SUFFICES ASSUME n + (k + 1) + p <= N
               PROVE  \E u \in Int : y[n + (k + 1) + p] = y[n + (k + 1)] + (y[n + p] - y[n]) + 4 * (p * u)
    BY <1>2
  <2> DEFINE lo == n + k  hi == n + k + p  d == y[n + p] - y[n]
  <2>1. k \in Nat /\ lo \in 0 .. N - 1 /\ hi \in 0 .. N - 1 /\ lo \in Nat /\ hi = lo + p /\ lo + p <= N
        /\ n + (k + 1) = lo + 1 /\ n + (k + 1) + p = hi + 1 /\ n \in 0 .. N /\ n + p \in 0 .. N
    BY <1>2
  <2>2. y[lo] \in Int /\ y[hi] \in Int /\ d \in Int
    BY <1>0, <2>1
  <2>3. PICK u \in Int : y[hi] = y[lo] + d + 4 * (p * u)
    BY <1>2, <2>1
  <2>4. PICK t \in Int : y[hi] = y[lo] + p + 2 * (p * t)
    BY <2>1 DEF MovesBy
  <2>5. y[lo + 1] = y[lo] + 4 * (b * y[lo]) + 2 * e + 1 /\ y[hi + 1] = y[hi] + 4 * (b * y[hi]) + 2 * e + 1
    BY <2>1 DEF Congruential
  <2> DEFINE v == b * (1 + 2 * t)
  <2>6. b * (y[hi] - y[lo]) = b * y[hi] - b * y[lo] /\ b * y[hi] \in Int /\ b * y[lo] \in Int
    BY <2>2, Distribute
  <2>7. y[hi] - y[lo] = p + 2 * (p * t)
    BY <2>2, <2>4
  <2>8. b * (p + 2 * (p * t)) = p * v /\ v \in Int
    BY Regroup
  <2>9. p * (u + v) = p * u + p * v /\ p * u \in Int /\ p * v \in Int /\ u + v \in Int
    BY <2>8, Distribute
  <2> HIDE DEF v, lo, hi, d
  <2>10. b * y[hi] - b * y[lo] = p * v
    BY <2>6, <2>7, <2>8
  <2> DEFINE A == y[hi]  B == y[lo]  bA == b * y[hi]  bB == b * y[lo]  pu == p * u  pv == p * v
  <2>11. A \in Int /\ B \in Int /\ bA \in Int /\ bB \in Int /\ pu \in Int /\ pv \in Int /\ d \in Int
    BY <2>2, <2>6, <2>9
  <2>12. y[hi + 1] = A + 4 * bA + 2 * e + 1 /\ y[lo + 1] = B + 4 * bB + 2 * e + 1 /\ bA - bB = pv /\ A = B + d + 4 * pu
    BY <2>3, <2>5, <2>10
  <2>13. p * (u + v) = pu + pv
    BY <2>9
  <2> HIDE DEF A, B, bA, bB, pu, pv
  <2>14. y[hi + 1] = y[lo + 1] + d + 4 * (pu + pv)
    BY <2>11, <2>12
  <2>15. y[hi + 1] = y[lo + 1] + d + 4 * (p * (u + v))
    BY <2>13, <2>14
  <2> QED BY <2>1, <2>9, <2>15 DEF d
<1> HIDE DEF S
<1>3. S = Nat
  <2>1. S \in SUBSET Nat
    BY DEF S
  <2> QED BY <1>1, <1>2, <2>1, NatInd
<1>4. i \in S
  BY <1>3
<1> QED BY <1>4 DEF S, Drifts

\* Twice as many steps.
LEMMA MovesByTwice ==
    ASSUME NEW N \in Nat, NEW b \in Int, NEW e \in Int, NEW y, Congruential(y, N, b, e),
           NEW p \in Nat, MovesBy(y, N, p)
    PROVE  MovesBy(y, N, 2 * p)
<1> SUFFICES ASSUME NEW n \in Nat, n + 2 * p <= N
             PROVE  \E t \in Int : y[n + 2 * p] = y[n] + 2 * p + 2 * ((2 * p) * t)
  BY DEF MovesBy
<1>1. n + p + p <= N /\ n + p + p = n + 2 * p /\ n + p <= N /\ n \in 0 .. N /\ n + p \in 0 .. N
  OBVIOUS
<1>2. PICK u \in Int : y[n + p + p] = y[n + p] + (y[n + p] - y[n]) + 4 * (p * u)
  <2>1. Drifts(y, n, p, p)
    BY <1>1, Drift
  <2> QED BY <2>1 DEF Drifts
<1>3. PICK t \in Int : y[n + p] = y[n] + p + 2 * (p * t)
  BY <1>1 DEF MovesBy
<1>4. y[n] \in Int /\ y[n + p] \in Int
  BY <1>1 DEF Congruential
<1>5. t + u \in Int /\ (2 * p) * (t + u) = 2 * (p * (t + u)) /\ p * (t + u) = p * t + p * u /\ p * t \in Int /\ p * u \in Int
  BY Distribute
<1> DEFINE pt == p * t  pu == p * u
<1>6. y[n + p + p] = y[n + p] + (y[n + p] - y[n]) + 4 * pu /\ y[n + p] = y[n] + p + 2 * pt /\ pt \in Int /\ pu \in Int
      /\ (2 * p) * (t + u) = 2 * (pt + pu)
  BY <1>2, <1>3, <1>5
<1> HIDE DEF pt, pu
<1>7. y[n + p + p] = y[n] + 2 * p + 2 * (2 * (pt + pu))
  BY <1>4, <1>6
<1>8. y[n + 2 * p] = y[n] + 2 * p + 2 * ((2 * p) * (t + u))
  BY <1>1, <1>6, <1>7
<1> QED BY <1>5, <1>8

\* Two ways from a to c.
LEMMA TwoWays ==
    ASSUME NEW a \in Int, NEW b, NEW c, NEW u \in Int, NEW v \in Int, NEW w \in Int, NEW p \in Nat \ {0},
           c = a + u, b = a + v, c = b + p + 2 * w
    PROVE  u = v + p + 2 * w
  OBVIOUS

\* Multiples of p steps move by multiples of p.
LEMMA MovesByMultiples ==
    ASSUME NEW N \in Nat, NEW y \in [0 .. N -> Int], NEW p \in Nat, MovesBy(y, N, p),
           NEW j \in Nat, NEW f \in Nat, j + p * f <= N
    PROVE  ApartBy(y[j + p * f], y[j], p)
<1> DEFINE S == {k \in Nat : j + p * k <= N => \E s \in Int : y[j + p * k] = y[j] + p * s}
<1>1. 0 \in S
  <2>1. p * 0 = 0 /\ j + 0 = j
    OBVIOUS
  <2> SUFFICES ASSUME j + p * 0 <= N PROVE \E s \in Int : y[j + p * 0] = y[j] + p * s
    OBVIOUS
  <2>2. y[j] \in Int
    BY <2>1
  <2>3. p * 0 = 0 /\ y[j + p * 0] = y[j] + 0 /\ 0 \in Int
    BY <2>1, <2>2
  <2> DEFINE z == y[j + p * 0]
  <2> HIDE DEF z
  <2>4. z = y[j] + p * 0
    BY <2>3 DEF z
  <2>5. \E s \in Int : z = y[j] + p * s
    BY <2>3, <2>4
  <2> QED BY <2>5 DEF z
<1>2. ASSUME NEW k \in S PROVE k + 1 \in S
  <2> SUFFICES ASSUME j + p * (k + 1) <= N PROVE \E s \in Int : y[j + p * (k + 1)] = y[j] + p * s
    BY <1>2
  <2>1. k \in Nat /\ p * (k + 1) = p * k + p /\ p * k \in Nat
    BY <1>2
  <2> DEFINE m == j + p * k
  <2>2. m \in Nat /\ m + p <= N /\ m <= N /\ m + p = j + p * (k + 1) /\ j \in 0 .. N /\ m \in 0 .. N
    BY <2>1
  <2>3. PICK s \in Int : y[m] = y[j] + p * s
    BY <1>2, <2>2
  <2>4. PICK t \in Int : y[m + p] = y[m] + p + 2 * (p * t)
    BY <2>2 DEF MovesBy
  <2>5. y[j] \in Int /\ y[m] \in Int
    BY <2>2
  <2> HIDE DEF m
  <2> DEFINE w == s + 1 + 2 * t
  <2>6. w \in Int
    OBVIOUS
  <2>7. p * w = p * s + p + 2 * (p * t)
    OBVIOUS
  <2>8. y[m + p] = y[j] + p * w
    <3>1. p * s \in Int /\ p * t \in Int
      OBVIOUS
    <3> HIDE DEF w
    <3> QED BY <3>1, <2>3, <2>4, <2>5, <2>7
  <2> QED BY <2>2, <2>6, <2>8
<1> HIDE DEF S
<1>3. S = Nat
  <2>1. S \in SUBSET Nat
    BY DEF S
  <2> QED BY <1>1, <1>2, <2>1, NatInd
<1>4. f \in S
  BY <1>3
<1> QED BY <1>4 DEF S, ApartBy

\* Only multiples of 2p steps move by a multiple of 2p, if it is so for p.
LEMMA ReturnsByTwice ==
    ASSUME NEW N \in Nat, NEW y \in [0 .. N -> Int], NEW p \in Nat \ {0},
           MovesBy(y, N, p), MovesBy(y, N, 2 * p), ReturnsBy(y, N, p)
    PROVE  ReturnsBy(y, N, 2 * p)
<1> SUFFICES ASSUME NEW j \in Nat, NEW d \in Nat, j + d <= N, NEW s \in Int, y[j + d] = y[j] + (2 * p) * s
             PROVE  \E f \in Nat : d = (2 * p) * f
  BY DEF ReturnsBy, ApartBy
<1>1. (2 * p) * s = p * (2 * s) /\ 2 * s \in Int
  OBVIOUS
<1>2. PICK f \in Nat : d = p * f
  <2>1. ApartBy(y[j + d], y[j], p)
    BY <1>1 DEF ApartBy
  <2> QED BY <2>1 DEF ReturnsBy
<1>3. PICK g \in Nat : f = 2 * g \/ f = 2 * g + 1
  <2>1. f \div 2 \in Nat /\ (f = 2 * (f \div 2) \/ f = 2 * (f \div 2) + 1)
    OBVIOUS
  <2> QED BY <2>1
<1>4. CASE f = 2 * g
  <2>1. d = (2 * p) * g
    BY <1>2, <1>4
  <2> QED BY <2>1
<1>5. CASE f = 2 * g + 1
  <2>1. d = (2 * p) * g + p /\ (2 * p) * g \in Nat
    BY <1>2, <1>5
  <2> DEFINE m == j + (2 * p) * g
  <2>2. m \in Nat /\ m + p = j + d /\ m <= N /\ m + p <= N /\ 2 * p \in Nat /\ j \in 0 .. N /\ m \in 0 .. N
    <3> DEFINE M == (2 * p) * g
    <3>1. M \in Nat /\ d = M + p /\ 2 * p \in Nat
      BY <2>1
    <3> HIDE DEF M
    <3>2. j + M \in Nat /\ j + M + p = j + d /\ j + M <= N /\ j + M + p <= N /\ j \in 0 .. N /\ j + M \in 0 .. N
      BY <3>1
    <3> QED BY <3>1, <3>2 DEF M
  <2>3. PICK r \in Int : y[m] = y[j] + (2 * p) * r
    <3> DEFINE q == 2 * p
    <3>1. q \in Nat /\ MovesBy(y, N, q) /\ j + q * g <= N
      BY <2>2
    <3> HIDE DEF q
    <3>2. ApartBy(y[j + q * g], y[j], q)
      BY <3>1, MovesByMultiples
    <3> QED BY <3>2 DEF ApartBy, q
  <2>4. PICK t \in Int : y[m + p] = y[m] + p + 2 * (p * t)
    BY <2>2 DEF MovesBy
  <2>5. y[j] \in Int /\ y[m] \in Int
    BY <2>2
  <2> HIDE DEF m
  <2>6. (2 * p) * s \in Int /\ (2 * p) * r \in Int /\ p * t \in Int
    OBVIOUS
  <2>7. (2 * p) * s = (2 * p) * r + p + 2 * (p * t)
    <3> DEFINE S == (2 * p) * s  R == (2 * p) * r  T == p * t
    <3>1. S \in Int /\ R \in Int /\ T \in Int
      BY <2>6
    <3>2. y[m + p] = y[j] + S /\ y[m] = y[j] + R /\ y[m + p] = y[m] + p + 2 * T
      BY <2>2, <2>3, <2>4
    <3> HIDE DEF S, R, T
    <3>3. S = R + p + 2 * T
      BY <3>1, <3>2, <2>5, TwoWays
    <3> QED BY <3>3 DEF S, R, T
  <2> DEFINE x == 2 * s - 2 * r - 2 * t - 1
  <2>8. p * x = (2 * p) * s - (2 * p) * r - p - 2 * (p * t)
    OBVIOUS
  <2>9. x \in Int /\ x # 0
    OBVIOUS
  <2>10. p * x # 0
    BY <2>9 DEF x
  <2> HIDE DEF x
  <2> QED BY <2>6, <2>7, <2>8, <2>10
<1> QED BY <1>3, <1>4, <1>5

\* Both hold for every power of two.
LEMMA PowersReturn ==
    ASSUME NEW K \in Nat, NEW P, P[0] = 1, \A k \in 1 .. K : P[k] = 2 * P[k - 1],
           NEW N \in Nat, NEW b \in Int, NEW e \in Int, NEW y, Congruential(y, N, b, e)
    PROVE  P[K] \in Nat \ {0} /\ ReturnsBy(y, N, P[K])
<1> DEFINE S == {k \in Nat : k <= K => P[k] \in Nat \ {0} /\ MovesBy(y, N, P[k]) /\ ReturnsBy(y, N, P[k])}
<1>0. y \in [0 .. N -> Int]
  BY DEF Congruential
<1>1. 0 \in S
  <2>1. MovesBy(y, N, 1)
    <3> SUFFICES ASSUME NEW n \in Nat, n + 1 <= N PROVE \E t \in Int : y[n + 1] = y[n] + 1 + 2 * (1 * t)
      BY DEF MovesBy
    <3>1. n \in 0 .. N - 1 /\ y[n] \in Int
      BY <1>0
    <3>2. y[n + 1] = y[n] + 4 * (b * y[n]) + 2 * e + 1 /\ b * y[n] \in Int
      BY <3>1 DEF Congruential
    <3> DEFINE t == 2 * (b * y[n]) + e
    <3>3. t \in Int /\ y[n + 1] = y[n] + 1 + 2 * (1 * t)
      BY <3>1, <3>2
    <3> HIDE DEF t
    <3> QED BY <3>3
  <2>2. ReturnsBy(y, N, 1)
    <3>1. \A d \in Nat : d = 1 * d
      OBVIOUS
    <3> QED BY <3>1 DEF ReturnsBy
  <2> QED BY <2>1, <2>2
<1>2. ASSUME NEW k \in S PROVE k + 1 \in S
  <2> SUFFICES ASSUME k + 1 <= K
               PROVE  P[k + 1] \in Nat \ {0} /\ MovesBy(y, N, P[k + 1]) /\ ReturnsBy(y, N, P[k + 1])
    BY <1>2
  <2> DEFINE p == P[k]
  <2>1. p \in Nat \ {0} /\ MovesBy(y, N, p) /\ ReturnsBy(y, N, p)
    BY <1>2
  <2>2. k + 1 \in 1 .. K /\ (k + 1) - 1 = k
    BY <1>2
  <2>3. P[k + 1] = 2 * p
    BY <2>2
  <2> HIDE DEF p
  <2>4. p \in Nat /\ MovesBy(y, N, 2 * p)
    BY <2>1, MovesByTwice
  <2>5. ReturnsBy(y, N, 2 * p)
    BY <1>0, <2>1, <2>4, ReturnsByTwice
  <2> QED BY <2>1, <2>3, <2>4, <2>5
<1> HIDE DEF S
<1>3. S = Nat
  <2>1. S \in SUBSET Nat
    BY DEF S
  <2> QED BY <1>1, <1>2, <2>1, NatInd
<1>4. K \in S
  BY <1>3
<1> QED BY <1>4 DEF S

\* Equal remainders are apart by a multiple.
LEMMA EqualRemainders ==
    ASSUME NEW m \in Nat \ {0}, NEW a \in Nat, NEW b \in Nat, a % m = b % m
    PROVE  ApartBy(b, a, m)
<1> DEFINE q == a \div m  r == b \div m  x == m * q  z == m * r  w == a % m
<1>1. q \in Nat /\ w \in 0 .. (m - 1) /\ x \in Nat /\ a = x + w
  BY Division
<1>2. r \in Nat /\ z \in Nat /\ b = z + w
  BY Division
<1> HIDE DEF q, r, w
<1>3. m * (r - q) = z - x /\ r - q \in Int
  BY <1>1, <1>2, Distribute
<1> HIDE DEF x, z
<1>4. b = a + m * (r - q)
  BY <1>1, <1>2, <1>3
<1> QED BY <1>3, <1>4 DEF ApartBy

\* Within a period remainders differ.
PeriodIs(y, N, m) == \A i, j \in 0 .. N : i < j /\ j - i < m => y[i] % m # y[j] % m

LEMMA RemaindersAreApart ==
    ASSUME NEW m \in Nat \ {0}, NEW N \in Nat, NEW y \in [0 .. N -> Nat], ReturnsBy(y, N, m)
    PROVE  PeriodIs(y, N, m)
<1> SUFFICES ASSUME NEW i \in 0 .. N, NEW j \in 0 .. N, i < j, j - i < m, y[i] % m = y[j] % m PROVE FALSE
  BY DEF PeriodIs
<1> DEFINE d == j - i
<1>1. y[i] \in Nat /\ y[j] \in Nat /\ d \in Nat \ {0} /\ i \in Nat /\ i + d = j /\ j <= N
  OBVIOUS
<1>2. ApartBy(y[i + d], y[i], m)
  BY <1>1, EqualRemainders
<1> HIDE DEF d
<1>3. PICK f \in Nat : d = m * f
  BY <1>1, <1>2 DEF ReturnsBy
<1>4. f # 0
  BY <1>1, <1>3
<1>5. m * f >= m
  BY <1>4
<1> QED BY <1>3, <1>5 DEF d

\* A multiple of the modulus does not change a remainder.
LEMMA RemainderOfSum ==
    ASSUME NEW m \in Nat \ {0}, NEW w \in Nat, NEW x \in Nat
    PROVE  (m * w + x) % m = x % m
<1> DEFINE q == x \div m  r == x % m
<1>1. q \in Nat /\ r \in 0 .. (m - 1) /\ m * q \in Nat /\ x = m * q + r
  BY Division
<1>2. m * (w + q) = m * w + m * q /\ m * w \in Nat /\ w + q \in Nat
  BY <1>1, Distribute
<1>3. m * w + x = m * (w + q) + r
  <2> DEFINE u == m * w  v == m * q
  <2>1. u \in Nat /\ v \in Nat /\ r \in Nat /\ x = v + r /\ m * (w + q) = u + v
    BY <1>1, <1>2
  <2> HIDE DEF u, v, q, r
  <2>2. u + x = u + v + r
    BY <2>1
  <2> QED BY <2>1, <2>2 DEF u
<1> HIDE DEF q, r
<1>4. (m * (w + q) + r) % m = r
  BY <1>1, <1>2, PartsOfSum
<1> QED BY <1>3, <1>4 DEF r

\* The remainders of the sequence are what the generator steps through.
LEMMA RemainderSteps ==
    ASSUME NEW m \in Nat \ {0}, NEW b \in Nat, NEW c \in Nat, NEW x \in Nat
    PROVE  ((4 * b + 1) * (x % m) + c) % m = (x + 4 * (b * x) + c) % m
<1> DEFINE q == x \div m  r == x % m  a == 4 * b + 1  w == a * q  z == a * r + c
<1>1. q \in Nat /\ r \in 0 .. (m - 1) /\ m * q \in Nat /\ x = m * q + r
  BY Division
<1>2. a \in Nat
  OBVIOUS
<1> HIDE DEF q, r
<1>3. x + 4 * (b * x) = a * x
  OBVIOUS
<1> HIDE DEF a
<1>4. w \in Nat /\ z \in Nat
  <2>1. r \in Nat
    BY <1>1
  <2>2. a * r \in Nat
    BY <1>2, <2>1
  <2> QED BY <1>1, <1>2, <2>2
<1>5. a * (m * q + r) = a * (m * q) + a * r
  BY <1>1, <1>2, Distribute
<1>6. a * (m * q) = m * (a * q)
  BY <1>1, <1>2
<1>7. a * x + c = m * w + z
  <2> DEFINE u == m * w  v == a * r
  <2>1. u \in Nat /\ v \in Nat /\ a * x = u + v /\ z = v + c
    BY <1>1, <1>2, <1>4, <1>5, <1>6
  <2> HIDE DEF u, v
  <2>2. (u + v) + c = u + (v + c)
    BY <2>1
  <2> QED BY <2>1, <2>2 DEF u
<1> HIDE DEF w, z
<1>8. (m * w + z) % m = z % m
  BY <1>4, RemainderOfSum
<1> QED BY <1>3, <1>7, <1>8 DEF z, r, a

=============================================================================
