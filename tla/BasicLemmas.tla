------------------------------ MODULE BasicLemmas ---------------------------
(***************************************************************************)
(* Facts about numbers, least elements, loops and sums that the other      *)
(* proofs use.                                                             *)
(***************************************************************************)
EXTENDS Integers, FiniteSetTheorems, WellFoundedInduction, TLAPS

-----------------------------------------------------------------------------
(* Numbers.                                                                *)

\* Quotient and remainder.
LEMMA DivMod ==
  ASSUME NEW N \in Nat \ {0}, NEW a \in Int
  PROVE  /\ a \div N \in Int /\ a % N \in 0..(N - 1)
         /\ a = N * (a \div N) + (a % N)
OBVIOUS

\* Numbers below the modulus are their own remainder.
LEMMA ModSmall == ASSUME NEW N \in Nat \ {0}, NEW x \in Nat, x < N PROVE x % N = x
OBVIOUS

\* The only multiple of N within N of zero is zero.
LEMMA OnlyMultiple ==
  ASSUME NEW N \in Nat \ {0}, NEW k \in Int, -N < N * k, N * k < N
  PROVE  k = 0
<1>1. CASE k >= 1
  <2>1. N * k >= N
    BY <1>1
  <2> QED
    BY <2>1
<1>2. CASE k <= -1
  <2>1. N * k <= -N
    BY <1>2
  <2> QED
    BY <2>1
<1> QED
  BY <1>1, <1>2

\* Whole multiples do not change a remainder.
LEMMA ModShift ==
  ASSUME NEW N \in Nat \ {0}, NEW x \in Int, NEW y \in Int, NEW k \in Int, x = y + N * k
  PROVE  x % N = y % N
<1> DEFINE d == (x \div N) - (y \div N) - k
<1>1. x \div N \in Int /\ y \div N \in Int /\ x % N \in 0..(N - 1) /\ y % N \in 0..(N - 1)
  BY DivMod
<1>2. x = N * (x \div N) + (x % N) /\ y = N * (y \div N) + (y % N)
  BY DivMod
<1>3. N * d = N * (x \div N) - N * (y \div N) - N * k
  BY <1>1
<1>4. N * d = (y % N) - (x % N)
  BY <1>1, <1>2, <1>3
<1>5. d = 0
  <2>1. d \in Int
    BY <1>1
  <2> HIDE DEF d
  <2> QED
    BY <1>1, <1>4, <2>1, OnlyMultiple
<1> QED
  BY <1>1, <1>4, <1>5

\* A quotient and a remainder are the only ones.
LEMMA DivIs ==
  ASSUME NEW N \in Nat \ {0}, NEW x \in Int, NEW q \in Int, NEW r \in 0..(N - 1), x = N * q + r
  PROVE  x \div N = q /\ x % N = r
<1> DEFINE k == (x \div N) - q
<1>1. x \div N \in Int /\ x % N \in 0..(N - 1) /\ x = N * (x \div N) + (x % N)
  BY DivMod
<1>2. N * k = N * (x \div N) - N * q
  BY <1>1
<1>3. N * k = r - (x % N) /\ k \in Int
  BY <1>1, <1>2
<1>4. k = 0
  <2> HIDE DEF k
  <2> QED
    BY <1>1, <1>3, OnlyMultiple
<1> QED
  BY <1>1, <1>3, <1>4

\* Dividing twice, and the remainder by a product.
LEMMA DivDiv ==
  ASSUME NEW N \in Nat \ {0}, NEW M \in Nat \ {0}, NEW x \in Int
  PROVE  (x \div N) \div M = x \div (N * M) /\ x % (N * M) = (x % N) + N * ((x \div N) % M)
<1> DEFINE y == x \div N
           r == x % N
           q == y \div M
           s == y % M
           K == N * M
           z == r + N * s
<1>1. y \in Int /\ r \in 0..(N - 1) /\ x = N * y + r
  BY DivMod
<1> HIDE DEF y, r
<1>2. q \in Int /\ s \in 0..(M - 1) /\ y = M * q + s
  BY <1>1, DivMod
<1> HIDE DEF q, s
<1>3. K \in Nat \ {0}
  OBVIOUS
<1>4. z \in 0..(K - 1)
  <2>1. N * s <= N * (M - 1) /\ N * (M - 1) = N * M - N /\ N * s \in Nat /\ N * M \in Nat
    BY <1>2
  <2> QED
    BY <1>1, <2>1
<1>5. x = K * q + z
  <2>1. N * y = N * (M * q) + N * s
    BY <1>2
  <2>2. N * (M * q) = (N * M) * q
    BY <1>2
  <2>3. N * (M * q) \in Int /\ N * s \in Int
    BY <1>2
  <2> QED
    BY <1>1, <2>1, <2>2, <2>3
<1> HIDE DEF K, z
<1>6. x \div K = q /\ x % K = z
  BY <1>2, <1>3, <1>4, <1>5, DivIs
<1> QED
  BY <1>6 DEF K, q, y, z, r, s

\* A bit, from the number above it and the one below it.
LEMMA BitIs ==
  ASSUME NEW p \in Nat \ {0}, NEW v \in Int, NEW h \in Int, NEW e \in {0, 1}, NEW r \in 0..(p - 1),
         v = p * (2 * h + e) + r
  PROVE  (v \div p) % 2 = e
<1> DEFINE q == 2 * h + e
<1>1. q \in Int /\ v = p * q + r
  OBVIOUS
<1>2. q % 2 = e
  OBVIOUS
<1> HIDE DEF q
<1>3. v \div p = q
  BY <1>1, DivIs
<1> QED
  BY <1>2, <1>3

LEMMA AtBit ==
  ASSUME NEW p \in Nat \ {0}, NEW v \in Int
  PROVE  /\ (v \div p) % 2 \in {0, 1}
         /\ \E h \in Int, r \in 0..(p - 1) : v = p * (2 * h + ((v \div p) % 2)) + r
<1> DEFINE q == v \div p
<1>1. q \in Int /\ v % p \in 0..(p - 1) /\ v = p * q + (v % p)
  BY DivMod
<1> HIDE DEF q
<1>2. q % 2 \in {0, 1} /\ q \div 2 \in Int /\ q = 2 * (q \div 2) + (q % 2)
  BY <1>1, DivMod
<1>3. v = p * (2 * (q \div 2) + (q % 2)) + (v % p)
  BY <1>1, <1>2
<1> QED
  BY <1>1, <1>2, <1>3 DEF q

-----------------------------------------------------------------------------
(* Recursive functions.                                                    *)

\* A nonempty set of numbers has a least one.
LEMMA Least ==
  ASSUME NEW S \in SUBSET Nat, S # {}
  PROVE  \E x \in S : \A y \in S : x <= y
<1>1. IsWellFoundedOn(OpToRel(<, Nat), Nat)
  BY NatLessThanWellFounded
<1>2. PICK x \in S : \A y \in S : ~ (<<y, x>> \in OpToRel(<, Nat))
  BY <1>1, WFMin
<1>3. ASSUME NEW y \in S PROVE x <= y
  <2>1. x \in Nat /\ y \in Nat
    OBVIOUS
  <2>2. y < x => <<y, x>> \in OpToRel(<, Nat)
    BY <2>1 DEF OpToRel
  <2>3. ~ (<<y, x>> \in OpToRel(<, Nat))
    BY <1>2, Zenon
  <2>4. ~ (y < x)
    BY <2>2, <2>3, Zenon
  <2> QED
    BY <2>1, <2>4
<1> QED
  BY <1>3

\* A loop's values are in V when its first is and each comes from the one before.
LEMMA LoopStays ==
  ASSUME NEW V, NEW lo \in Nat, NEW n \in Nat, NEW f, f[lo] \in V,
         \A i \in (lo + 1)..n : f[i - 1] \in V => f[i] \in V
  PROVE  \A i \in lo..n : f[i] \in V
<1> DEFINE Out == {i \in lo..n : f[i] \notin V}
<1> SUFFICES ASSUME Out # {} PROVE FALSE
  OBVIOUS
<1>1. PICK k \in Out : \A i \in Out : k <= i
  <2>1. Out \in SUBSET Nat
    OBVIOUS
  <2> HIDE DEF Out
  <2> QED
    BY <2>1, Least
<1>2. k # lo /\ k \in lo..n /\ f[k] \notin V
  OBVIOUS
<1>3. k \in (lo + 1)..n /\ k - 1 \in lo..n
  BY <1>2
<1>4. f[k - 1] \in V
  <2>1. k - 1 \notin Out
    BY <1>1, <1>3
  <2> QED
    BY <1>3, <2>1
<1> QED
  BY <1>2, <1>3, <1>4

\* Counting up from zero reaches what zero and every turn lead to.
LEMMA CountUp ==
  ASSUME NEW n \in Nat, NEW S, 0 \in S, \A k \in 1..n : k - 1 \in S => k \in S
  PROVE  \A k \in 0..n : k \in S
<1> DEFINE f == [k \in 0..n |-> k]
<1>1. f[0] \in S /\ \A k \in (0 + 1)..n : f[k - 1] \in S => f[k] \in S
  OBVIOUS
<1>2. \A k \in 0..n : f[k] = k
  OBVIOUS
<1>3. 0 \in Nat
  OBVIOUS
<1> HIDE DEF f
<1>4. \A k \in 0..n : f[k] \in S
  BY <1>1, <1>3, LoopStays, Zenon
<1> QED
  BY <1>2, <1>4

\* What a loop from b computes, turn by turn.
Loops(f, V, lo, n, b, G) ==
  f \in [lo..n -> V] /\ f[lo] = b /\ \A i \in (lo + 1)..n : f[i] = G[i][f[i - 1]]

\* A loop whose turns are functions on V is a function.
LEMMA LoopIsFunction ==
  ASSUME NEW V, NEW lo \in Nat, NEW n \in Nat, lo <= n, NEW b \in V, NEW G \in [lo..n -> [V -> V]]
  PROVE  \E f : Loops(f, V, lo, n, b, G)
<1> DEFINE Good(f, k) == f[lo] = b /\ \A i \in (lo + 1)..k : f[i] = G[i][f[i - 1]]
           Out == {k \in lo..n : ~ \E f \in [lo..n -> V] : Good(f, k)}
<1>1. ASSUME Out # {} PROVE FALSE
  <2>1. PICK k \in Out : \A i \in Out : k <= i
    <3>1. Out \in SUBSET Nat
      OBVIOUS
    <3> HIDE DEF Out
    <3> QED
      BY <1>1, <3>1, Least
  <2>2. k \in lo..n /\ ~ \E f \in [lo..n -> V] : Good(f, k)
    OBVIOUS
  <2>3. CASE k = lo
    <3> DEFINE f == [i \in lo..n |-> b]
    <3>1. f \in [lo..n -> V] /\ f[lo] = b
      OBVIOUS
    <3>2. \A i \in (lo + 1)..k : FALSE
      BY <2>3
    <3> HIDE DEF f
    <3> QED
      BY <2>2, <3>1, <3>2
  <2>4. CASE k # lo
    <3>1. k - 1 \in lo..n /\ k - 1 \notin Out /\ k \in Nat
      <4>1. k \in Nat /\ k - 1 \in lo..n
        BY <2>2, <2>4
      <4>2. ASSUME k - 1 \in Out PROVE FALSE
        <5>1. k <= k - 1
          BY <2>1, <4>2
        <5> QED
          BY <4>1, <5>1
      <4> QED
        BY <4>1, <4>2
    <3>2. PICK f \in [lo..n -> V] : Good(f, k - 1)
      BY <3>1
    <3> DEFINE g == [f EXCEPT ![k] = G[k][f[k - 1]]]
    <3>3. g \in [lo..n -> V] /\ g[k] = G[k][f[k - 1]] /\ \A i \in lo..n : i # k => g[i] = f[i]
      <4>1. G[k][f[k - 1]] \in V
        <5>1. G[k] \in [V -> V] /\ f[k - 1] \in V
          BY <2>2, <3>1
        <5> QED
          BY <5>1
      <4> QED
        BY <2>2, <4>1
    <3> HIDE DEF g
    <3>4. g[lo] = b
      BY <2>2, <2>4, <3>2, <3>3
    <3>5. ASSUME NEW i \in (lo + 1)..k PROVE g[i] = G[i][g[i - 1]]
      <4>1. i \in lo..n /\ i - 1 \in lo..n /\ i - 1 # k
        BY <2>2
      <4>2. g[i - 1] = f[i - 1]
        BY <3>3, <4>1
      <4>3. CASE i = k
        BY <3>3, <4>2, <4>3
      <4>4. CASE i # k
        <5>1. i \in (lo + 1)..(k - 1)
          BY <2>2, <4>4
        <5>2. f[i] = G[i][f[i - 1]]
          BY <3>2, <5>1
        <5>3. g[i] = f[i]
          BY <3>3, <4>1, <4>4
        <5> QED
          BY <4>2, <5>2, <5>3
      <4> QED
        BY <4>3, <4>4
    <3> QED
      BY <2>2, <3>3, <3>4, <3>5
  <2> QED
    BY <2>3, <2>4
<1>2. n \in lo..n /\ n \notin Out
  BY <1>1
<1>3. PICK f \in [lo..n -> V] : Good(f, n)
  BY <1>2
<1> QED
  BY <1>3 DEF Loops

-----------------------------------------------------------------------------
(* Sums over sets of small numbers, and the folds of the library.          *)

\* t adds up f over s, the smallest element first.
AddsUp(t, n, f, s) ==
  t = [k \in 0..n |-> IF k = 0 THEN 0 ELSE t[k - 1] + (IF k - 1 \in s THEN f[k - 1] ELSE 0)]

\* A fold of f over the subsets of B, in the order CHOOSE takes.
SumFold(fold, B, f) ==
  fold = [s \in SUBSET B |-> IF s = {} THEN 0
                             ELSE LET x == CHOOSE x \in s : TRUE IN f[x] + fold[s \ {x}]]

Total(n, f, s) == (CHOOSE t : AddsUp(t, n, f, s))[n]

LEMMA SumsTurns ==
  ASSUME NEW n \in Nat, NEW f, NEW s, NEW t, AddsUp(t, n, f, s)
  PROVE  /\ t[0] = 0
         /\ \A k \in 1..n : t[k] = t[k - 1] + (IF k - 1 \in s THEN f[k - 1] ELSE 0)
BY DEF AddsUp

LEMMA SumsExist ==
  ASSUME NEW n \in Nat, NEW f, \A k \in 0..(n - 1) : f[k] \in Int, NEW s
  PROVE  \E t : AddsUp(t, n, f, s)
<1> DEFINE G == [k \in 0..n |-> [v \in Int |-> IF k = 0 THEN v ELSE v + (IF k - 1 \in s THEN f[k - 1] ELSE 0)]]
<1>1. G \in [0..n -> [Int -> Int]]
  <2>1. ASSUME NEW k \in 0..n, NEW v \in Int
        PROVE  (IF k = 0 THEN v ELSE v + (IF k - 1 \in s THEN f[k - 1] ELSE 0)) \in Int
    <3>1. CASE k = 0
      BY <3>1
    <3>2. CASE k # 0
      <4>1. k - 1 \in 0..(n - 1)
        BY <3>2
      <4>2. f[k - 1] \in Int
        BY <4>1
      <4> QED
        BY <3>2, <4>2
    <3> QED
      BY <3>1, <3>2
  <2> QED
    BY <2>1
<1>2. \A k \in 1..n, v \in Int : G[k][v] = v + (IF k - 1 \in s THEN f[k - 1] ELSE 0)
  OBVIOUS
<1> HIDE DEF G
<1>3. PICK t : Loops(t, Int, 0, n, 0, G)
  <2>1. 0 \in Int /\ 0 \in Nat /\ 0 <= n
    OBVIOUS
  <2> QED
    BY <1>1, <2>1, LoopIsFunction, Zenon
<1>4. t \in [0..n -> Int] /\ t[0] = 0 /\ \A k \in 1..n : t[k] = G[k][t[k - 1]]
  BY <1>3 DEF Loops
<1>5. ASSUME NEW k \in 0..n
      PROVE  t[k] = IF k = 0 THEN 0 ELSE t[k - 1] + (IF k - 1 \in s THEN f[k - 1] ELSE 0)
  <2>1. CASE k = 0
    BY <1>4, <2>1
  <2>2. CASE k # 0
    <3>1. k \in 1..n /\ k - 1 \in 0..n
      BY <2>2
    <3> QED
      BY <1>2, <1>4, <2>2, <3>1
  <2> QED
    BY <2>1, <2>2
<1>6. t = [k \in 0..n |-> IF k = 0 THEN 0 ELSE t[k - 1] + (IF k - 1 \in s THEN f[k - 1] ELSE 0)]
  BY <1>4, <1>5
<1> QED
  BY <1>6 DEF AddsUp

\* AddsUp of the same elements are the same, and the sum without an element is smaller by it.
LEMMA SumsAreInts ==
  ASSUME NEW n \in Nat, NEW f, \A k \in 0..(n - 1) : f[k] \in Int, NEW s, NEW t, AddsUp(t, n, f, s)
  PROVE  \A k \in 0..n : t[k] \in Int
<1> DEFINE S == {k \in 0..n : t[k] \in Int}
<1>1. 0 \in S
  BY SumsTurns
<1>2. ASSUME NEW k \in 1..n, k - 1 \in S PROVE k \in S
  <2>1. f[k - 1] \in Int /\ t[k - 1] \in Int
    BY <1>2
  <2>2. t[k] = t[k - 1] + (IF k - 1 \in s THEN f[k - 1] ELSE 0)
    BY SumsTurns
  <2> QED
    BY <2>1, <2>2
<1> HIDE DEF S
<1>3. \A k \in 0..n : k \in S
  BY <1>1, <1>2, CountUp
<1> QED
  BY <1>3 DEF S

LEMMA SumsDiffer ==
  ASSUME NEW n \in Nat, NEW f, \A k \in 0..(n - 1) : f[k] \in Int, NEW s, NEW x \in s \cap (0..(n - 1)),
         NEW t, AddsUp(t, n, f, s), NEW u, AddsUp(u, n, f, s \ {x})
  PROVE  t[n] = f[x] + u[n]
<1> DEFINE S == {k \in 0..n : t[k] = u[k] + (IF k > x THEN f[x] ELSE 0)}
<1>0. \A k \in 0..n : u[k] \in Int /\ t[k] \in Int
  BY SumsAreInts
<1>1. 0 \in S
  <2>1. u[0] = 0 /\ t[0] = 0 /\ ~(0 > x)
    BY SumsTurns
  <2> QED
    BY <2>1
<1>2. ASSUME NEW k \in 1..n, k - 1 \in S PROVE k \in S
  <2>1. /\ t[k] = t[k - 1] + (IF k - 1 \in s THEN f[k - 1] ELSE 0)
        /\ u[k] = u[k - 1] + (IF k - 1 \in s \ {x} THEN f[k - 1] ELSE 0)
    BY SumsTurns
  <2>2. k - 1 \in 0..(n - 1) /\ f[k - 1] \in Int /\ u[k - 1] \in Int /\ t[k - 1] \in Int /\ f[x] \in Int
    BY <1>0
  <2>3. t[k - 1] = u[k - 1] + (IF k - 1 > x THEN f[x] ELSE 0)
    BY <1>2
  <2>4. CASE k - 1 = x
    BY <2>1, <2>2, <2>3, <2>4
  <2>5. CASE k - 1 # x
    <3>1. (k > x <=> k - 1 > x) /\ (k - 1 \in s <=> k - 1 \in s \ {x})
      BY <2>5
    <3> QED
      BY <2>1, <2>2, <2>3, <3>1
  <2> QED
    BY <2>4, <2>5
<1> HIDE DEF S
<1>3. n \in S
  BY <1>1, <1>2, CountUp
<1>4. n > x /\ f[x] \in Int /\ u[n] \in Int
  BY <1>0
<1> QED
  BY <1>3, <1>4 DEF S

LEMMA SumsAgree ==
  ASSUME NEW n \in Nat, NEW f, NEW s, NEW t, AddsUp(t, n, f, s), NEW u, AddsUp(u, n, f, s)
  PROVE  t[n] = u[n]
<1> DEFINE S == {k \in 0..n : t[k] = u[k]}
<1>1. 0 \in S
  BY SumsTurns
<1>2. ASSUME NEW k \in 1..n, k - 1 \in S PROVE k \in S
  <2>1. /\ t[k] = t[k - 1] + (IF k - 1 \in s THEN f[k - 1] ELSE 0)
        /\ u[k] = u[k - 1] + (IF k - 1 \in s THEN f[k - 1] ELSE 0)
    BY SumsTurns
  <2> QED
    BY <1>2, <2>1
<1> HIDE DEF S
<1>3. n \in S
  BY <1>1, <1>2, CountUp
<1> QED
  BY <1>3 DEF S

LEMMA TotalIs ==
  ASSUME NEW n \in Nat, NEW f, \A k \in 0..(n - 1) : f[k] \in Int, NEW s, NEW t, AddsUp(t, n, f, s)
  PROVE  Total(n, f, s) = t[n]
<1>1. AddsUp(CHOOSE u : AddsUp(u, n, f, s), n, f, s)
  OBVIOUS
<1> QED
  BY <1>1, SumsAgree DEF Total

LEMMA TotalTurns ==
  ASSUME NEW n \in Nat, NEW f, \A k \in 0..(n - 1) : f[k] \in Int, NEW s \in SUBSET (0..(n - 1))
  PROVE  /\ s = {} => Total(n, f, s) = 0
         /\ \A x \in s : Total(n, f, s) = f[x] + Total(n, f, s \ {x})
<1>1. PICK t : AddsUp(t, n, f, s)
  BY SumsExist
<1>2. ASSUME NEW x \in s PROVE Total(n, f, s) = f[x] + Total(n, f, s \ {x})
  <2>1. PICK u : AddsUp(u, n, f, s \ {x})
    BY SumsExist
  <2>2. x \in s \cap (0..(n - 1))
    OBVIOUS
  <2>3. t[n] = f[x] + u[n]
    BY <1>1, <2>1, <2>2, SumsDiffer
  <2> QED
    BY <1>1, <2>1, <2>3, TotalIs
<1>3. ASSUME s = {} PROVE Total(n, f, s) = 0
  <2> DEFINE S == {k \in 0..n : t[k] = 0}
  <2>1. 0 \in S
    BY <1>1, SumsTurns
  <2>2. ASSUME NEW k \in 1..n, k - 1 \in S PROVE k \in S
    <3>1. t[k] = t[k - 1] + 0
      BY <1>1, <1>3, SumsTurns
    <3> QED
      BY <2>2, <3>1
  <2> HIDE DEF S
  <2>3. n \in S
    BY <2>1, <2>2, CountUp
  <2>4. t[n] = 0
    BY <2>3 DEF S
  <2> QED
    BY <1>1, <2>4, TotalIs
<1> QED
  BY <1>2, <1>3

\* The fold there is adds up, in whatever order.
LEMMA FoldExists ==
  ASSUME NEW n \in Nat, NEW f, \A k \in 0..(n - 1) : f[k] \in Int, NEW B \in SUBSET (0..(n - 1))
  PROVE  \E fold : SumFold(fold, B, f)
<1> DEFINE g == [s \in SUBSET B |-> Total(n, f, s)]
<1>1. ASSUME NEW s \in SUBSET B
      PROVE  g[s] = IF s = {} THEN 0 ELSE LET x == CHOOSE x \in s : TRUE IN f[x] + g[s \ {x}]
  <2>0. s \in SUBSET (0..(n - 1)) /\ g[s] = Total(n, f, s)
    OBVIOUS
  <2>1. CASE s = {}
    BY <2>0, <2>1, TotalTurns
  <2>2. CASE s # {}
    <3> DEFINE x == CHOOSE x \in s : TRUE
    <3>1. x \in s
      BY <2>2
    <3> HIDE DEF x
    <3>2. g[s \ {x}] = Total(n, f, s \ {x})
      OBVIOUS
    <3>3. Total(n, f, s) = f[x] + Total(n, f, s \ {x})
      BY <2>0, <3>1, TotalTurns
    <3>4. g[s] = f[x] + g[s \ {x}]
      BY <2>0, <3>2, <3>3
    <3> QED
      BY <2>2, <3>4 DEF x
  <2> QED
    BY <2>1, <2>2
<1>2. g = [s \in SUBSET B |-> g[s]]
  OBVIOUS
<1> HIDE DEF g
<1>3. g = [s \in SUBSET B |-> IF s = {} THEN 0
                              ELSE LET x == CHOOSE x \in s : TRUE IN f[x] + g[s \ {x}]]
  BY <1>1, <1>2
<1> QED
  BY <1>3 DEF SumFold

LEMMA FoldIsTotal ==
  ASSUME NEW n \in Nat, NEW f, \A k \in 0..(n - 1) : f[k] \in Int, NEW B \in SUBSET (0..(n - 1)),
         NEW fold, SumFold(fold, B, f)
  PROVE  fold[B] = Total(n, f, B)
<1>0. IsFiniteSet(B) /\ Cardinality(B) \in Nat
  <2>1. IsFiniteSet(0..(n - 1))
    BY FS_Interval
  <2>2. IsFiniteSet(B)
    BY <2>1, FS_Subset
  <2> QED
    BY <2>2, FS_CardinalityType
<1> DEFINE S == {c \in 0..Cardinality(B) : \A s \in SUBSET B : Cardinality(s) = c => fold[s] = Total(n, f, s)}
<1>1. 0 \in S
  <2>1. ASSUME NEW s \in SUBSET B, Cardinality(s) = 0 PROVE fold[s] = Total(n, f, s)
    <3>1. s = {}
      BY <1>0, <2>1, FS_Subset, FS_EmptySet
    <3>2. fold[s] = 0
      BY <3>1 DEF SumFold
    <3>3. s \in SUBSET (0..(n - 1))
      OBVIOUS
    <3> QED
      BY <3>1, <3>2, <3>3, TotalTurns
  <2> QED
    BY <1>0, <2>1
<1>2. ASSUME NEW c \in 1..Cardinality(B), c - 1 \in S PROVE c \in S
  <2>1. ASSUME NEW s \in SUBSET B, Cardinality(s) = c PROVE fold[s] = Total(n, f, s)
    <3>1. s # {}
      BY <1>0, <2>1, FS_EmptySet
    <3> DEFINE x == CHOOSE x \in s : TRUE
    <3>2. fold[s] = f[x] + fold[s \ {x}]
      BY <3>1 DEF SumFold
    <3>3. x \in s
      BY <3>1
    <3> HIDE DEF x
    <3>4. IsFiniteSet(s)
      BY <1>0, FS_Subset
    <3>5. Cardinality(s \ {x}) = c - 1
      BY <2>1, <3>3, <3>4, FS_RemoveElement
    <3>6. fold[s \ {x}] = Total(n, f, s \ {x})
      BY <1>2, <3>5
    <3>7. s \in SUBSET (0..(n - 1))
      OBVIOUS
    <3> QED
      BY <3>2, <3>3, <3>6, <3>7, TotalTurns
  <2> QED
    BY <2>1
<1> HIDE DEF S
<1>3. Cardinality(B) \in S
  BY <1>0, <1>1, <1>2, CountUp
<1> QED
  BY <1>3 DEF S
=============================================================================
