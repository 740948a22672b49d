---------------------------- MODULE PipelineProofs ---------------------------
(***************************************************************************)
(* The pipeline executes one instruction at a time: for every width of a   *)
(* word, every program, its divisions included, and every timing of the    *)
(* interrupt, its registers, memory and control registers are those of     *)
(* Isa, as long as what the core does not keep apart stays apart.          *)
(*                                                                         *)
(* First the units: the ALU, the branch unit, the multiplier, the divider  *)
(* and the accesses to memory compute what Golden says.  Then every        *)
(* register keeps the type of its wires, and then the order of execution.  *)
(***************************************************************************)
EXTENDS Pipeline, BasicLemmas

-----------------------------------------------------------------------------
(* Words.                                                                  *)

LEMMA WidthFacts ==
  /\ Xlen \in {8, 16, 32}
  /\ W \in Nat /\ W >= 256 /\ W = 2 * IMIN /\ IMIN \in Nat /\ IMIN >= 128
  /\ ByteW \in Nat /\ ByteW >= 4 /\ ByteW % 2 = 0 /\ W = ByteW * (ByteW * (ByteW * ByteW))
  /\ 0 \in Word /\ 1 \in Word
<1>1. Xlen \in {8, 16, 32}
  BY XlenAssumption
<1>2. CASE Xlen = 8
  <2>1. W = 256 /\ IMIN = 128 /\ ByteW = 4
    BY <1>2, SMT DEF W, IMIN, ByteW
  <2> QED
    BY <1>1, <2>1, SMT DEF Word
<1>3. CASE Xlen = 16
  <2>1. W = 65536 /\ IMIN = 32768 /\ ByteW = 16
    BY <1>3, SMT DEF W, IMIN, ByteW
  <2> QED
    BY <1>1, <2>1, SMT DEF Word
<1>4. CASE Xlen = 32
  <2>1. W = 4294967296 /\ IMIN = 2147483648 /\ ByteW = 256
    BY <1>4, SMT DEF W, IMIN, ByteW
  <2>2. ByteW * ByteW = 65536
    BY <2>1, SMT
  <2>3. ByteW * (ByteW * ByteW) = 16777216
    BY <2>1, <2>2, SMT
  <2>4. W = ByteW * (ByteW * (ByteW * ByteW))
    BY <2>1, <2>3, SMT
  <2>5. ByteW % 2 = 0 /\ ByteW \in Nat /\ ByteW >= 4
    BY <2>1, SMT
  <2>6. W \in Nat /\ W >= 256 /\ W = 2 * IMIN /\ IMIN \in Nat /\ IMIN >= 128
    BY <2>1, SMT
  <2>7. 0 \in Word /\ 1 \in Word
    BY <2>6, SMT DEF Word
  <2> QED
    BY <1>1, <2>4, <2>5, <2>6, <2>7, SMT
<1> QED
  BY <1>1, <1>2, <1>3, <1>4

\* The powers of two, up to a word.
Pow(n) == 2^n

LEMMA Doubling == \A n \in 0..31 : Pow(n + 1) = 2 * Pow(n)
<1>1. Pow(1) = 2 * Pow(0) /\ Pow(2) = 2 * Pow(1) /\ Pow(3) = 2 * Pow(2) /\ Pow(4) = 2 * Pow(3)
  BY SMT DEF Pow
<1>2. Pow(5) = 2 * Pow(4) /\ Pow(6) = 2 * Pow(5) /\ Pow(7) = 2 * Pow(6) /\ Pow(8) = 2 * Pow(7)
  BY SMT DEF Pow
<1>3. Pow(9) = 2 * Pow(8) /\ Pow(10) = 2 * Pow(9) /\ Pow(11) = 2 * Pow(10) /\ Pow(12) = 2 * Pow(11)
  BY SMT DEF Pow
<1>4. Pow(13) = 2 * Pow(12) /\ Pow(14) = 2 * Pow(13) /\ Pow(15) = 2 * Pow(14) /\ Pow(16) = 2 * Pow(15)
  BY SMT DEF Pow
<1>5. Pow(17) = 2 * Pow(16) /\ Pow(18) = 2 * Pow(17) /\ Pow(19) = 2 * Pow(18) /\ Pow(20) = 2 * Pow(19)
  BY SMT DEF Pow
<1>6. Pow(21) = 2 * Pow(20) /\ Pow(22) = 2 * Pow(21) /\ Pow(23) = 2 * Pow(22) /\ Pow(24) = 2 * Pow(23)
  BY SMT DEF Pow
<1>7. Pow(25) = 2 * Pow(24) /\ Pow(26) = 2 * Pow(25) /\ Pow(27) = 2 * Pow(26) /\ Pow(28) = 2 * Pow(27)
  BY SMT DEF Pow
<1>8. Pow(29) = 2 * Pow(28) /\ Pow(30) = 2 * Pow(29) /\ Pow(31) = 2 * Pow(30) /\ Pow(32) = 2 * Pow(31)
  BY SMT DEF Pow
<1>9. ASSUME NEW n \in 0..7 PROVE Pow(n + 1) = 2 * Pow(n)
  BY <1>1, <1>2, SMT
<1>10. ASSUME NEW n \in 8..15 PROVE Pow(n + 1) = 2 * Pow(n)
  BY <1>3, <1>4, SMT
<1>11. ASSUME NEW n \in 16..23 PROVE Pow(n + 1) = 2 * Pow(n)
  BY <1>5, <1>6, SMT
<1>12. ASSUME NEW n \in 24..31 PROVE Pow(n + 1) = 2 * Pow(n)
  BY <1>7, <1>8, SMT
<1>13. ASSUME NEW n \in 0..31 PROVE n \in 0..7 \/ n \in 8..15 \/ n \in 16..23 \/ n \in 24..31
  OBVIOUS
<1> QED
  BY <1>9, <1>10, <1>11, <1>12, <1>13, SMT

LEMMA Powers ==
  /\ Pow(0) = 1 /\ Pow(Xlen) = W
  /\ \A n \in 0..32 : Pow(n) \in Nat \ {0}
  /\ \A n \in 1..32 : Pow(n) = 2 * Pow(n - 1)
<1>1. Pow(0) = 1 /\ Pow(Xlen) = W
  BY DEF W, Pow
<1>2. ASSUME NEW n \in 1..32 PROVE Pow(n) = 2 * Pow(n - 1)
  <2>1. n - 1 \in 0..31 /\ (n - 1) + 1 = n
    OBVIOUS
  <2> QED
    BY <2>1, Doubling
<1>3. \A n \in 0..32 : Pow(n) \in Nat \ {0}
  <2> DEFINE f == [n \in 0..32 |-> Pow(n)]
  <2>1. f[0] \in Nat \ {0}
    BY <1>1
  <2>2. \A n \in (0 + 1)..32 : f[n - 1] \in Nat \ {0} => f[n] \in Nat \ {0}
    BY <1>2
  <2>3. \A n \in 0..32 : f[n] = Pow(n)
    OBVIOUS
  <2> HIDE DEF f
  <2>4. \A n \in 0..32 : f[n] \in Nat \ {0}
    BY <2>1, <2>2, LoopStays
  <2> QED
    BY <2>3, <2>4
<1> QED
  BY <1>1, <1>2, <1>3

LEMMA PowerProduct ==
  ASSUME NEW n \in 0..32
  PROVE  \A m \in 0..(32 - n) : Pow(m + n) = Pow(m) * Pow(n)
<1> DEFINE S == {m \in 0..(32 - n) : Pow(m + n) = Pow(m) * Pow(n)}
<1>0. Pow(n) \in Nat
  BY Powers
<1>1. 0 \in S
  BY <1>0, Powers
<1>2. ASSUME NEW m \in 1..(32 - n), m - 1 \in S PROVE m \in S
  <2>1. m \in 1..32 /\ m + n \in 1..32 /\ m - 1 \in 0..32 /\ (m + n) - 1 = (m - 1) + n
    OBVIOUS
  <2>2. Pow(m) = 2 * Pow(m - 1) /\ Pow(m + n) = 2 * Pow((m - 1) + n) /\ Pow(m - 1) \in Nat
    BY <2>1, Powers
  <2>3. Pow((m - 1) + n) = Pow(m - 1) * Pow(n)
    BY <1>2
  <2> QED
    BY <1>0, <2>2, <2>3
<1>3. 32 - n \in Nat
  OBVIOUS
<1> HIDE DEF S
<1>4. \A m \in 0..(32 - n) : m \in S
  BY <1>1, <1>2, <1>3, CountUp
<1> QED
  BY <1>4 DEF S

LEMMA SplitPow ==
  ASSUME NEW n \in 0..32, NEW m \in 0..n
  PROVE  /\ Pow(n) = Pow(m) * Pow(n - m) /\ Pow(m) <= Pow(n)
         /\ m < n => Pow(n) = Pow(m) * (2 * Pow(n - m - 1)) /\ n - m - 1 \in 0..32
<1>1. m \in 0..32 /\ n - m \in 0..(32 - m) /\ n - m \in 0..32 /\ (n - m) + m = n
  OBVIOUS
<1>2. Pow(m) \in Nat \ {0} /\ Pow(n - m) \in Nat \ {0}
  BY <1>1, Powers
<1>3. Pow((n - m) + m) = Pow(n - m) * Pow(m)
  BY <1>1, PowerProduct
<1>4. Pow(n) = Pow(m) * Pow(n - m)
  <2>1. Pow(n) = Pow((n - m) + m)
    BY <1>1
  <2> DEFINE p == Pow(m)
             q == Pow(n - m)
  <2>2. Pow(n) = q * p /\ p \in Nat /\ q \in Nat
    BY <1>2, <1>3, <2>1
  <2> HIDE DEF p, q
  <2>3. Pow(n) = p * q
    BY <2>2
  <2> QED
    BY <2>3 DEF p, q
<1>5. Pow(m) <= Pow(n)
  <2> DEFINE p == Pow(m)
             q == Pow(n - m)
             x == Pow(n)
  <2>1. x = p * q /\ p \in Nat \ {0} /\ q \in Nat \ {0}
    BY <1>2, <1>4
  <2> HIDE DEF p, q, x
  <2>2. p <= x
    BY <2>1
  <2> QED
    BY <2>2 DEF p, x
<1>6. ASSUME m < n PROVE Pow(n) = Pow(m) * (2 * Pow(n - m - 1)) /\ n - m - 1 \in 0..32
  <2>1. n - m \in 1..32 /\ n - m - 1 \in 0..32
    BY <1>6
  <2>2. Pow(n - m) = 2 * Pow(n - m - 1)
    BY <2>1, Powers
  <2> QED
    BY <1>4, <2>1, <2>2
<1> QED
  BY <1>4, <1>5, <1>6

LEMMA ModIsWord == ASSUME NEW x \in Int PROVE x % W \in Word
<1>1. W \in Nat \ {0}
  BY WidthFacts
<1>2. x % W \in 0..(W - 1)
  BY <1>1, DivMod
<1> QED
  BY <1>2 DEF Word

LEMMA WordIsNat == Word \subseteq Nat /\ Word \subseteq Int
BY DEF Word

\* A quotient is no larger.
LEMMA DivIsSmaller ==
  ASSUME NEW a \in Nat, NEW m \in Nat \ {0}
  PROVE  a \div m \in Nat /\ a \div m <= a
<1> DEFINE q == a \div m
<1>1. q \in Int /\ a % m \in 0..(m - 1) /\ a = m * q + (a % m)
  BY DivMod
<1> HIDE DEF q
<1>2. q >= 0
  <2>1. CASE q <= -1
    <3>1. m * q <= -m
      BY <1>1, <2>1
    <3> QED
      BY <1>1, <3>1
  <2> QED
    BY <1>1, <2>1
<1>3. m * q >= q
  BY <1>1, <1>2
<1>4. q <= a
  BY <1>1, <1>2, <1>3
<1> QED
  BY <1>1, <1>2, <1>4 DEF q

LEMMA SignedIsInt == ASSUME NEW a \in Word PROVE Signed(a) \in Int
BY WidthFacts, WordIsNat DEF Signed

LEMMA FlagIsWord == ASSUME NEW p PROVE Flag(p) \in Word
BY WidthFacts DEF Flag

LEMMA WordItself == ASSUME NEW x \in Word PROVE x % W = x
BY WidthFacts, ModSmall DEF Word

-----------------------------------------------------------------------------
(* Words as sets of bits.                                                  *)

\* What a set of bits stands for.
LEMMA ValueIs ==
  ASSUME NEW B \in SUBSET (0..(Xlen - 1)), NEW f, \A k \in 0..(Xlen - 1) : f[k] = Pow(k),
         NEW t, AddsUp(t, Xlen, f, B)
  PROVE  Value(B) = t[Xlen]
<1>0. Xlen \in Nat /\ \A k \in 0..(Xlen - 1) : f[k] \in Int
  <2>1. \A k \in 0..(Xlen - 1) : k \in 0..32
    BY XlenAssumption
  <2> QED
    BY <2>1, Powers, XlenAssumption
<1> DEFINE Is(fold) == fold = [s \in SUBSET B |-> IF s = {} THEN 0
                               ELSE LET x == CHOOSE x \in s : TRUE IN 2^x + fold[s \ {x}]]
<1>1. ASSUME NEW fold PROVE Is(fold) <=> SumFold(fold, B, f)
  <2>1. ASSUME NEW s \in SUBSET B
        PROVE  (IF s = {} THEN 0 ELSE LET x == CHOOSE x \in s : TRUE IN 2^x + fold[s \ {x}])
               = (IF s = {} THEN 0 ELSE LET x == CHOOSE x \in s : TRUE IN f[x] + fold[s \ {x}])
    <3>1. CASE s = {}
      BY <3>1
    <3>2. CASE s # {}
      <4> DEFINE x == CHOOSE x \in s : TRUE
      <4>1. x \in s
        BY <3>2
      <4> HIDE DEF x
      <4>2. 2^x = f[x]
        BY <4>1 DEF Pow
      <4> QED
        BY <3>2, <4>2 DEF x
    <3> QED
      BY <3>1, <3>2
  <2>2. [s \in SUBSET B |-> IF s = {} THEN 0 ELSE LET x == CHOOSE x \in s : TRUE IN 2^x + fold[s \ {x}]]
        = [s \in SUBSET B |-> IF s = {} THEN 0 ELSE LET x == CHOOSE x \in s : TRUE IN f[x] + fold[s \ {x}]]
    BY <2>1
  <2> QED
    BY <2>2 DEF SumFold
<1>2. \E fold : Is(fold)
  <2>1. \E fold : SumFold(fold, B, f)
    BY <1>0, FoldExists
  <2> HIDE DEF Is
  <2> QED
    BY <1>1, <2>1
<1>3. Is(CHOOSE fold : Is(fold))
  <2> HIDE DEF Is
  <2> QED
    BY <1>2
<1>4. Value(B) = (CHOOSE fold : Is(fold))[B]
  BY DEF Value, MapThenSumSet, MapThenFoldSet
<1> HIDE DEF Is
<1>5. Value(B) = Total(Xlen, f, B)
  BY <1>0, <1>1, <1>3, <1>4, FoldIsTotal
<1> QED
  BY <1>0, <1>5, TotalIs

Weights == [k \in 0..(Xlen - 1) |-> Pow(k)]

LEMMA WeightFacts ==
  /\ Xlen \in Nat /\ \A k \in 0..(Xlen - 1) : Weights[k] = Pow(k) /\ Weights[k] \in Int /\ Pow(k) \in Nat \ {0}
  /\ \A k \in 1..Xlen : k - 1 \in 0..(Xlen - 1) /\ Pow(k) = 2 * Pow(k - 1)
<1>1. Xlen \in Nat /\ Xlen <= 32
  BY XlenAssumption
<1>2. ASSUME NEW k \in 0..(Xlen - 1) PROVE Weights[k] = Pow(k) /\ Weights[k] \in Int /\ Pow(k) \in Nat \ {0}
  <2>1. k \in 0..32
    BY <1>1
  <2> QED
    BY <2>1, Powers DEF Weights
<1>3. ASSUME NEW k \in 1..Xlen PROVE k - 1 \in 0..(Xlen - 1) /\ Pow(k) = 2 * Pow(k - 1)
  <2>1. k \in 1..32
    BY <1>1
  <2> QED
    BY <1>1, <2>1, Powers
<1> QED
  BY <1>1, <1>2, <1>3

\* Bits make a word.
LEMMA ValueIsWord ==
  ASSUME NEW B \in SUBSET (0..(Xlen - 1))
  PROVE  Value(B) \in Word
<1>0. Xlen \in Nat
  BY WeightFacts
<1>1. PICK t : AddsUp(t, Xlen, Weights, B)
  BY WeightFacts, SumsExist
<1> DEFINE S == {k \in 0..Xlen : t[k] \in 0..(Pow(k) - 1)}
<1>2. 0 \in S
  BY <1>0, <1>1, Powers, SumsTurns
<1>3. ASSUME NEW k \in 1..Xlen, k - 1 \in S PROVE k \in S
  <2>1. /\ Pow(k) = 2 * Pow(k - 1) /\ Pow(k - 1) \in Nat /\ Weights[k - 1] = Pow(k - 1)
        /\ t[k - 1] \in 0..(Pow(k - 1) - 1)
    BY <1>3, WeightFacts
  <2>2. t[k] = t[k - 1] + (IF k - 1 \in B THEN Weights[k - 1] ELSE 0)
    BY <1>0, <1>1, SumsTurns
  <2>3. t[k] \in 0..(Pow(k) - 1)
    BY <2>1, <2>2
  <2> QED
    BY <2>3
<1> HIDE DEF S
<1>4. Xlen \in S
  BY <1>0, <1>2, <1>3, CountUp
<1>5. Value(B) = t[Xlen]
  BY <1>1, ValueIs, WeightFacts
<1> QED
  BY <1>4, <1>5, Powers DEF S, Word

BitOf(a, k) == (a \div Pow(k)) % 2

LEMMA BitsOf ==
  ASSUME NEW a \in Int, NEW k \in 0..(Xlen - 1)
  PROVE  /\ BitOf(a, k) \in {0, 1} /\ (k \in Bits(a) <=> BitOf(a, k) = 1)
         /\ (a \div 2^k) % 2 = BitOf(a, k)
<1>1. Pow(k) \in Nat \ {0}
  BY WeightFacts
<1>2. a \div Pow(k) \in Int
  BY <1>1, DivMod
<1>3. \A q \in Int : q % 2 \in {0, 1}
  OBVIOUS
<1> QED
  BY <1>2, <1>3 DEF BitOf, Bits, Bit, Pow

\* A word is the value of its bits.
LEMMA ValueOfBits == ASSUME NEW v \in Word PROVE Value(Bits(v)) = v
<1>0. Xlen \in Nat /\ v \in Int /\ v \in Nat /\ Bits(v) \in SUBSET (0..(Xlen - 1))
  BY WeightFacts, WordIsNat DEF Bits
<1>1. PICK t : AddsUp(t, Xlen, Weights, Bits(v))
  BY WeightFacts, SumsExist
<1> DEFINE S == {k \in 0..Xlen : t[k] = v % Pow(k)}
<1>2. 0 \in S
  <2>1. v % 1 = 0
    BY <1>0
  <2> QED
    BY <1>0, <1>1, <2>1, Powers, SumsTurns
<1>3. ASSUME NEW k \in 1..Xlen, k - 1 \in S PROVE k \in S
  <2> DEFINE p == Pow(k - 1)
             q == v \div p
             r == v % p
             h == q \div 2
             e == q % 2
  <2>1. k - 1 \in 0..(Xlen - 1) /\ Pow(k) = 2 * p /\ p \in Nat \ {0} /\ Weights[k - 1] = p /\ t[k - 1] = r
    BY <1>3, WeightFacts
  <2>2. t[k] = t[k - 1] + (IF k - 1 \in Bits(v) THEN Weights[k - 1] ELSE 0)
    BY <1>0, <1>1, SumsTurns
  <2>3. e \in {0, 1} /\ (k - 1 \in Bits(v) <=> e = 1)
    BY <1>0, <2>1, BitsOf DEF BitOf
  <2>4. q \in Int /\ r \in 0..(p - 1) /\ v = p * q + r
    <3> HIDE DEF p
    <3> QED
      BY <1>0, <2>1, DivMod
  <2>5. h \in Int /\ q = 2 * h + e
    <3> HIDE DEF q
    <3> QED
      BY <2>4, DivMod
  <2> HIDE DEF p, q, r, h, e
  <2>6. t[k] = p * e + r
    BY <2>1, <2>2, <2>3, <2>4
  <2>7. v = (2 * p) * h + (p * e + r)
    <3>1. p * q = p * (2 * h) + p * e /\ p * (2 * h) = (2 * p) * h
      BY <2>1, <2>3, <2>5
    <3>2. (2 * p) * h \in Int /\ p * e \in Int
      BY <2>1, <2>3, <2>5
    <3> QED
      BY <2>4, <3>1, <3>2
  <2>8. p * e + r \in 0..(2 * p - 1)
    BY <2>1, <2>3, <2>4
  <2>9. v % (2 * p) = p * e + r
    <3> DEFINE N == 2 * p
               y == p * e + r
    <3>1. N \in Nat \ {0} /\ y \in 0..(N - 1) /\ v = N * h + y
      BY <2>1, <2>7, <2>8
    <3> HIDE DEF N, y
    <3>2. v % N = y
      BY <1>0, <2>5, <3>1, DivIs
    <3> QED
      BY <3>2 DEF N, y
  <2> QED
    BY <2>1, <2>6, <2>9
<1> HIDE DEF S
<1>4. Xlen \in S
  BY <1>0, <1>2, <1>3, CountUp
<1>5. Value(Bits(v)) = t[Xlen]
  BY <1>0, <1>1, ValueIs, WeightFacts
<1>6. v % W = v
  BY WordItself
<1> QED
  BY <1>4, <1>5, <1>6, Powers DEF S

\* A word with the bits of a set is the set's value.
LEMMA HasBits ==
  ASSUME NEW v \in Word, NEW B \in SUBSET (0..(Xlen - 1)),
         \A i \in 0..(Xlen - 1) : BitOf(v, i) = 1 <=> i \in B
  PROVE  v = Value(B)
<1>1. v \in Int
  BY WordIsNat
<1>2. Bits(v) = B
  <2>1. Bits(v) \in SUBSET (0..(Xlen - 1))
    BY DEF Bits
  <2> QED
    BY <1>1, <2>1, BitsOf
<1> QED
  BY <1>2, ValueOfBits

-----------------------------------------------------------------------------
(* The bit-wise operations.                                                *)

\* The sum the bit-wise operations of the ALU build up.
BitSum(low, c) ==
  low = [n \in 0..Xlen |-> IF n = 0 THEN 0 ELSE low[n - 1] + 2^(n - 1) * c[n]]

LEMMA BitSumIs ==
  ASSUME NEW B \in SUBSET (0..(Xlen - 1)), NEW c, \A n \in 1..Xlen : c[n] = IF n - 1 \in B THEN 1 ELSE 0
  PROVE  (CHOOSE low : BitSum(low, c))[Xlen] = Value(B)
<1>1. ASSUME NEW low PROVE BitSum(low, c) <=> AddsUp(low, Xlen, Weights, B)
  <2>1. ASSUME NEW n \in 0..Xlen
        PROVE  (IF n = 0 THEN 0 ELSE low[n - 1] + 2^(n - 1) * c[n])
               = (IF n = 0 THEN 0 ELSE low[n - 1] + (IF n - 1 \in B THEN Weights[n - 1] ELSE 0))
    <3>1. CASE n = 0
      BY <3>1
    <3>2. CASE n # 0
      <4>1. n \in 1..Xlen
        BY <3>2, WeightFacts
      <4>2. n - 1 \in 0..(Xlen - 1) /\ Weights[n - 1] = 2^(n - 1) /\ Weights[n - 1] \in Int
        BY <4>1, WeightFacts DEF Pow
      <4>3. 2^(n - 1) * c[n] = IF n - 1 \in B THEN Weights[n - 1] ELSE 0
        <5> DEFINE x == 2^(n - 1)
        <5>1. x \in Int /\ x = Weights[n - 1]
          BY <4>2
        <5>2. c[n] = IF n - 1 \in B THEN 1 ELSE 0
          BY <4>1
        <5> HIDE DEF x
        <5>3. x * c[n] = IF n - 1 \in B THEN Weights[n - 1] ELSE 0
          BY <5>1, <5>2
        <5> QED
          BY <5>3 DEF x
      <4> HIDE DEF Weights
      <4> QED
        BY <3>2, <4>3
    <3> QED
      BY <3>1, <3>2
  <2> DEFINE F1 == [n \in 0..Xlen |-> IF n = 0 THEN 0 ELSE low[n - 1] + 2^(n - 1) * c[n]]
             F2 == [n \in 0..Xlen |-> IF n = 0 THEN 0 ELSE low[n - 1] + (IF n - 1 \in B THEN Weights[n - 1] ELSE 0)]
  <2>2. F1 = F2
    BY <2>1, Zenon
  <2> QED
    BY <2>2, Zenon DEF BitSum, AddsUp
<1>2. \E low : BitSum(low, c)
  BY <1>1, SumsExist, WeightFacts
<1>3. AddsUp(CHOOSE low : BitSum(low, c), Xlen, Weights, B)
  BY <1>1, <1>2
<1> QED
  BY <1>3, ValueIs, WeightFacts

LEMMA AndIsGolden ==
  ASSUME NEW a \in Word, NEW b \in Word
  PROVE  a & b = Value(Bits(a) \cap Bits(b))
<1> DEFINE A(n) == (a \div 2^(n - 1)) % 2
           B(n) == (b \div 2^(n - 1)) % 2
           c == [n \in 0..Xlen |-> A(n) * B(n)]
           Body(l) == [n \in 0..Xlen |-> IF n = 0 THEN 0 ELSE l[n - 1] + 2^(n - 1) * (A(n) * B(n))]
<1>1. ASSUME NEW n \in 1..Xlen PROVE c[n] = IF n - 1 \in Bits(a) \cap Bits(b) THEN 1 ELSE 0
  <2>1. n - 1 \in 0..(Xlen - 1) /\ n \in 0..Xlen /\ a \in Int /\ b \in Int
    BY WordIsNat, WeightFacts
  <2>2. /\ A(n) \in {0, 1} /\ (n - 1 \in Bits(a) <=> A(n) = 1)
        /\ B(n) \in {0, 1} /\ (n - 1 \in Bits(b) <=> B(n) = 1)
    BY <2>1, BitsOf
  <2>3. c[n] = A(n) * B(n)
    BY <2>1
  <2> HIDE DEF A, B, c
  <2> QED
    BY <2>2, <2>3
<1>2. a & b = (CHOOSE l : l = Body(l))[Xlen]
  BY DEF &, bitwise
<1>3. ASSUME NEW l PROVE BitSum(l, c) <=> l = Body(l)
  <2>1. \A n \in 0..Xlen : c[n] = A(n) * B(n)
    OBVIOUS
  <2> HIDE DEF A, B, c
  <2>2. \A n \in 0..Xlen : (IF n = 0 THEN 0 ELSE l[n - 1] + 2^(n - 1) * c[n])
                            = (IF n = 0 THEN 0 ELSE l[n - 1] + 2^(n - 1) * (A(n) * B(n)))
    BY <2>1, Zenon
  <2>3. [n \in 0..Xlen |-> IF n = 0 THEN 0 ELSE l[n - 1] + 2^(n - 1) * c[n]] = Body(l)
    BY <2>2, Zenon
  <2> QED
    BY <2>3, Zenon DEF BitSum
<1> HIDE DEF Body, c
<1>4. (CHOOSE l : l = Body(l)) = (CHOOSE l : BitSum(l, c))
  BY <1>3
<1>5. Bits(a) \cap Bits(b) \in SUBSET (0..(Xlen - 1))
  BY DEF Bits
<1> QED
  BY <1>1, <1>2, <1>4, <1>5, BitSumIs

LEMMA OrIsGolden ==
  ASSUME NEW a \in Word, NEW b \in Word
  PROVE  a | b = Value(Bits(a) \cup Bits(b))
<1> DEFINE A(n) == (a \div 2^(n - 1)) % 2
           B(n) == (b \div 2^(n - 1)) % 2
           c == [n \in 0..Xlen |-> A(n) + B(n) - A(n) * B(n)]
           Body(l) == [n \in 0..Xlen |-> IF n = 0 THEN 0 ELSE l[n - 1] + 2^(n - 1) * (A(n) + B(n) - A(n) * B(n))]
<1>1. ASSUME NEW n \in 1..Xlen PROVE c[n] = IF n - 1 \in Bits(a) \cup Bits(b) THEN 1 ELSE 0
  <2>1. n - 1 \in 0..(Xlen - 1) /\ n \in 0..Xlen /\ a \in Int /\ b \in Int
    BY WordIsNat, WeightFacts
  <2>2. /\ A(n) \in {0, 1} /\ (n - 1 \in Bits(a) <=> A(n) = 1)
        /\ B(n) \in {0, 1} /\ (n - 1 \in Bits(b) <=> B(n) = 1)
    BY <2>1, BitsOf
  <2>3. c[n] = A(n) + B(n) - A(n) * B(n)
    BY <2>1
  <2> HIDE DEF A, B, c
  <2> QED
    BY <2>2, <2>3
<1>2. a | b = (CHOOSE l : l = Body(l))[Xlen]
  BY DEF |, bitwise
<1>3. ASSUME NEW l PROVE BitSum(l, c) <=> l = Body(l)
  <2>1. \A n \in 0..Xlen : c[n] = A(n) + B(n) - A(n) * B(n)
    OBVIOUS
  <2> HIDE DEF A, B, c
  <2>2. \A n \in 0..Xlen : (IF n = 0 THEN 0 ELSE l[n - 1] + 2^(n - 1) * c[n])
                            = (IF n = 0 THEN 0 ELSE l[n - 1] + 2^(n - 1) * (A(n) + B(n) - A(n) * B(n)))
    BY <2>1, Zenon
  <2>3. [n \in 0..Xlen |-> IF n = 0 THEN 0 ELSE l[n - 1] + 2^(n - 1) * c[n]] = Body(l)
    BY <2>2, Zenon
  <2> QED
    BY <2>3, Zenon DEF BitSum
<1> HIDE DEF Body, c
<1>4. (CHOOSE l : l = Body(l)) = (CHOOSE l : BitSum(l, c))
  BY <1>3
<1>5. Bits(a) \cup Bits(b) \in SUBSET (0..(Xlen - 1))
  BY DEF Bits
<1> QED
  BY <1>1, <1>2, <1>4, <1>5, BitSumIs

LEMMA XorIsGolden ==
  ASSUME NEW a \in Word, NEW b \in Word
  PROVE  a ^^ b = Value((Bits(a) \ Bits(b)) \cup (Bits(b) \ Bits(a)))
<1> DEFINE A(n) == (a \div 2^(n - 1)) % 2
           B(n) == (b \div 2^(n - 1)) % 2
           c == [n \in 0..Xlen |-> (A(n) + B(n)) % 2]
           Body(l) == [n \in 0..Xlen |-> IF n = 0 THEN 0 ELSE l[n - 1] + 2^(n - 1) * ((A(n) + B(n)) % 2)]
<1>1. ASSUME NEW n \in 1..Xlen PROVE c[n] = IF n - 1 \in (Bits(a) \ Bits(b)) \cup (Bits(b) \ Bits(a)) THEN 1 ELSE 0
  <2>1. n - 1 \in 0..(Xlen - 1) /\ n \in 0..Xlen /\ a \in Int /\ b \in Int
    BY WordIsNat, WeightFacts
  <2>2. /\ A(n) \in {0, 1} /\ (n - 1 \in Bits(a) <=> A(n) = 1)
        /\ B(n) \in {0, 1} /\ (n - 1 \in Bits(b) <=> B(n) = 1)
    BY <2>1, BitsOf
  <2>3. c[n] = (A(n) + B(n)) % 2
    BY <2>1
  <2> HIDE DEF A, B, c
  <2> QED
    BY <2>2, <2>3
<1>2. a ^^ b = (CHOOSE l : l = Body(l))[Xlen]
  BY DEF ^^, bitwise
<1>3. ASSUME NEW l PROVE BitSum(l, c) <=> l = Body(l)
  <2>1. \A n \in 0..Xlen : c[n] = (A(n) + B(n)) % 2
    OBVIOUS
  <2> HIDE DEF A, B, c
  <2>2. \A n \in 0..Xlen : (IF n = 0 THEN 0 ELSE l[n - 1] + 2^(n - 1) * c[n])
                            = (IF n = 0 THEN 0 ELSE l[n - 1] + 2^(n - 1) * ((A(n) + B(n)) % 2))
    BY <2>1, Zenon
  <2>3. [n \in 0..Xlen |-> IF n = 0 THEN 0 ELSE l[n - 1] + 2^(n - 1) * c[n]] = Body(l)
    BY <2>2, Zenon
  <2> QED
    BY <2>3, Zenon DEF BitSum
<1> HIDE DEF Body, c
<1>4. (CHOOSE l : l = Body(l)) = (CHOOSE l : BitSum(l, c))
  BY <1>3
<1>5. (Bits(a) \ Bits(b)) \cup (Bits(b) \ Bits(a)) \in SUBSET (0..(Xlen - 1))
  BY DEF Bits
<1> QED
  BY <1>1, <1>2, <1>4, <1>5, BitSumIs

LEMMA BitwiseIsWord ==
  ASSUME NEW a \in Word, NEW b \in Word
  PROVE  a & b \in Word /\ a | b \in Word /\ a ^^ b \in Word
<1> DEFINE A == Bits(a)
           B == Bits(b)
<1>1. A \in SUBSET (0..(Xlen - 1)) /\ B \in SUBSET (0..(Xlen - 1))
  BY DEF Bits
<1>2. a & b = Value(A \cap B) /\ a | b = Value(A \cup B) /\ a ^^ b = Value((A \ B) \cup (B \ A))
  BY AndIsGolden, OrIsGolden, XorIsGolden
<1> HIDE DEF A, B
<1>3. /\ A \cap B \in SUBSET (0..(Xlen - 1)) /\ A \cup B \in SUBSET (0..(Xlen - 1))
      /\ (A \ B) \cup (B \ A) \in SUBSET (0..(Xlen - 1))
  BY <1>1
<1> QED
  BY <1>2, <1>3, ValueIsWord

-----------------------------------------------------------------------------
(* The shifts, bit by bit.                                                 *)

\* The bits of a shifted word.
LEMMA RightShiftBit ==
  ASSUME NEW a \in Word, NEW s \in 0..(Xlen - 1), NEW i \in 0..(Xlen - 1)
  PROVE  /\ a \div Pow(s) \in Nat /\ a \div Pow(s) < Pow(Xlen - s)
         /\ BitOf(a \div Pow(s), i) = IF i + s < Xlen THEN BitOf(a, i + s) ELSE 0
<1> DEFINE p == Pow(s)
           P == Pow(Xlen - s)
           u == Pow(i)
           v == a \div p
           r == a % p
<1>0. Xlen \in 1..32 /\ s \in 0..32 /\ i \in 0..32 /\ Xlen - s \in 0..32
  BY XlenAssumption
<1>1. p \in Nat \ {0} /\ P \in Nat \ {0} /\ u \in Nat \ {0} /\ W = p * P /\ W = Pow(Xlen)
  <2>1. Xlen \in 0..32 /\ s \in 0..Xlen
    BY <1>0
  <2>2. Pow(Xlen) = Pow(s) * Pow(Xlen - s)
    BY <2>1, SplitPow
  <2> QED
    BY <1>0, <2>2, Powers
<1>2. a \in Nat /\ a < W
  BY WidthFacts DEF Word
<1>3. v \in Int /\ r \in 0..(p - 1) /\ a = p * v + r
  <2> HIDE DEF p
  <2> QED
    BY <1>1, <1>2, DivMod
<1> HIDE DEF p, P, u, v, r
<1>4. v \in Nat
  <2>1. v < 0 => p * v <= -p
    BY <1>1, <1>3
  <2> QED
    BY <1>1, <1>2, <1>3, <2>1
<1>5. v < P
  <2>1. v >= P => p * v >= p * P
    BY <1>1, <1>4
  <2>2. p * v \in Nat /\ p * P \in Nat
    BY <1>1, <1>4
  <2> QED
    BY <1>1, <1>2, <1>3, <1>4, <2>1, <2>2
<1>6. CASE i + s < Xlen
  <2> DEFINE e == (v \div u) % 2
  <2>1. e \in {0, 1} /\ \E h \in Int, t \in 0..(u - 1) : v = u * (2 * h + e) + t
    BY <1>1, <1>3, AtBit
  <2> HIDE DEF e
  <2>2. PICK h \in Int, t \in 0..(u - 1) : v = u * (2 * h + e) + t
    BY <2>1
  <2> DEFINE k == 2 * h + e
             z == p * t + r
             N == p * u
  <2>3. k \in Int /\ v = u * k + t
    BY <2>1, <2>2
  <2>4. N \in Nat \ {0} /\ z \in 0..(N - 1)
    <3>1. p * t <= p * (u - 1) /\ p * (u - 1) = p * u - p /\ p * u \in Nat /\ p * t \in Nat
      BY <1>1, <2>2
    <3>2. p * u # 0
      BY <1>1
    <3> QED
      BY <1>1, <1>3, <3>1, <3>2
  <2>5. a = N * k + z
    <3>1. p * v = p * (u * k) + p * t
      BY <1>1, <2>2, <2>3
    <3>2. p * (u * k) = (p * u) * k
      BY <1>1, <2>3
    <3>3. p * (u * k) \in Int /\ p * t \in Int
      BY <1>1, <2>2, <2>3
    <3> QED
      BY <1>3, <3>1, <3>2, <3>3
  <2>6. Pow(i + s) = N
    <3>1. i + s \in 0..32 /\ s \in 0..(i + s) /\ (i + s) - s = i
      BY <1>0, <1>6
    <3>2. Pow(i + s) = Pow(s) * Pow((i + s) - s)
      BY <3>1, SplitPow
    <3> QED
      BY <3>1, <3>2 DEF p, u
  <2> HIDE DEF z, N
  <2>7. (a \div N) % 2 = e
    <3>1. a \in Int /\ a = N * (2 * h + e) + z
      BY <1>2, <2>5
    <3> QED
      BY <2>1, <2>2, <2>4, <3>1, BitIs, Zenon
  <2> QED
    BY <1>4, <1>5, <1>6, <2>6, <2>7 DEF e, BitOf, v, p, P, u
<1>7. CASE ~(i + s < Xlen)
  <2>1. P <= u
    <3>1. Xlen - s \in 0..i
      BY <1>0, <1>7
    <3> QED
      BY <1>0, <3>1, SplitPow DEF P, u
  <2>2. v = u * (2 * 0 + 0) + v /\ v \in 0..(u - 1)
    BY <1>1, <1>4, <1>5, <2>1
  <2>3. (v \div u) % 2 = 0
    BY <1>1, <1>3, <2>2, BitIs
  <2> QED
    BY <1>4, <1>5, <1>7, <2>3 DEF BitOf, v, p, P, u
<1> QED
  BY <1>6, <1>7

LEMMA ShiftFacts ==
  ASSUME NEW b \in Word
  PROVE  Shift(b) \in 0..(Xlen - 1) /\ Shift(b) = b % Xlen /\ 2^(b % Xlen) = Pow(Shift(b)) /\ Xlen \in 1..32
<1>1. Xlen \in Nat \ {0} /\ b \in Int /\ Xlen \in 1..32
  BY XlenAssumption, WordIsNat
<1> QED
  BY <1>1, DivMod DEF Shift, Pow

\* The shifted word and its bits.
LEMMA ShiftedDown ==
  ASSUME NEW a \in Word, NEW s \in 0..(Xlen - 1), NEW D, D = {i - s : i \in {j \in Bits(a) : j >= s}}
  PROVE  /\ D \in SUBSET (0..(Xlen - 1 - s))
         /\ \A i \in 0..(Xlen - 1) : BitOf(a \div Pow(s), i) = 1 <=> i \in D
<1>0. Xlen \in Nat /\ a \in Int
  BY WeightFacts, WordIsNat
<1>1. D \in SUBSET (0..(Xlen - 1 - s))
  BY <1>0 DEF Bits
<1>2. ASSUME NEW i \in 0..(Xlen - 1) PROVE BitOf(a \div Pow(s), i) = 1 <=> i \in D
  <2>1. BitOf(a \div Pow(s), i) = IF i + s < Xlen THEN BitOf(a, i + s) ELSE 0
    BY RightShiftBit
  <2>2. CASE i + s < Xlen
    <3>1. i + s \in 0..(Xlen - 1)
      BY <1>0, <2>2
    <3>2. i + s \in Bits(a) <=> BitOf(a, i + s) = 1
      BY <1>0, <3>1, BitsOf
    <3>3. i \in D <=> i + s \in Bits(a)
      <4>1. i = (i + s) - s /\ i + s >= s
        BY <1>0
      <4>2. \A j \in Bits(a) : j \in Int
        BY <1>0 DEF Bits
      <4>3. i \in D => \E j \in Bits(a) : j >= s /\ i = j - s
        OBVIOUS
      <4>4. \A j \in Bits(a) : i = j - s => j = i + s
        BY <1>0, <4>2
      <4> QED
        BY <4>1, <4>3, <4>4
    <3> QED
      BY <2>1, <2>2, <3>2, <3>3
  <2>3. CASE ~(i + s < Xlen)
    <3>1. i \notin D
      BY <1>0, <1>1, <2>3
    <3> QED
      BY <2>1, <2>3, <3>1
  <2> QED
    BY <2>2, <2>3
<1> QED
  BY <1>1, <1>2

LEMMA ShiftedIsWord ==
  ASSUME NEW a \in Word, NEW s \in 0..(Xlen - 1)
  PROVE  a \div Pow(s) \in Word /\ Pow(Xlen - s) \in Nat \ {0} /\ Pow(Xlen - s) <= W
<1>1. Xlen \in 0..32 /\ Xlen - s \in 0..Xlen /\ Xlen - s \in 0..32 /\ 0 \in 0..(Xlen - 1)
  BY XlenAssumption
<1>2. a \div Pow(s) \in Nat /\ a \div Pow(s) < Pow(Xlen - s)
  BY <1>1, RightShiftBit
<1>3. Pow(Xlen - s) <= W /\ Pow(Xlen - s) \in Nat \ {0}
  BY <1>1, SplitPow, Powers
<1> QED
  BY <1>2, <1>3, WidthFacts DEF Word

LEMMA SrlIsGolden ==
  ASSUME NEW a \in Word, NEW b \in Word
  PROVE  alu("srl", a, b) = golden_alu("srl", a, b)
<1> DEFINE s == Shift(b)
           D == {i - s : i \in {j \in Bits(a) : j >= s}}
           v == a \div Pow(s)
<1>1. s \in 0..(Xlen - 1) /\ Xlen \in 1..32
  BY ShiftFacts
<1>2. alu("srl", a, b) = v /\ golden_alu("srl", a, b) = Value(D)
  BY ShiftFacts DEF alu, golden_alu
<1>3. v \in Word
  <2> HIDE DEF s
  <2> QED
    BY <1>1, ShiftedIsWord
<1>4. D \in SUBSET (0..(Xlen - 1 - s)) /\ \A i \in 0..(Xlen - 1) : BitOf(v, i) = 1 <=> i \in D
  <2> HIDE DEF s
  <2> QED
    BY <1>1, ShiftedDown
<1>5. D \in SUBSET (0..(Xlen - 1))
  <2> HIDE DEF s, D
  <2> QED
    BY <1>1, <1>4
<1> HIDE DEF v, D
<1>6. v = Value(D)
  BY <1>3, <1>4, <1>5, HasBits
<1> QED
  BY <1>2, <1>6

LEMMA SignBit == ASSUME NEW a \in Word PROVE Bit(a, Xlen - 1) <=> a >= IMIN
<1>1. Xlen \in 1..32 /\ Xlen - 1 \in 0..32
  BY XlenAssumption
<1>2. Pow(Xlen - 1) = IMIN
  <2>1. Pow(Xlen) = 2 * Pow(Xlen - 1) /\ Pow(Xlen) = W /\ Pow(Xlen - 1) \in Nat
    BY <1>1, Powers
  <2> QED
    BY <2>1, WidthFacts
<1>3. a \in 0..(W - 1) /\ a \in Int /\ IMIN \in Nat \ {0} /\ W = 2 * IMIN
  BY WidthFacts DEF Word
<1>4. (a \div IMIN) % 2 = IF a >= IMIN THEN 1 ELSE 0
  <2>1. CASE a >= IMIN
    <3>1. a = IMIN * (2 * 0 + 1) + (a - IMIN) /\ a - IMIN \in 0..(IMIN - 1)
      BY <1>3, <2>1
    <3> QED
      BY <1>3, <2>1, <3>1, BitIs
  <2>2. CASE ~(a >= IMIN)
    <3>1. a = IMIN * (2 * 0 + 0) + a /\ a \in 0..(IMIN - 1)
      BY <1>3, <2>2
    <3> QED
      BY <1>3, <2>2, <3>1, BitIs
  <2> QED
    BY <2>1, <2>2
<1>5. 2^(Xlen - 1) = IMIN
  BY <1>2 DEF Pow
<1> QED
  BY <1>4, <1>5 DEF Bit

\* An arithmetic shift of a negative word fills in ones from the left.
LEMMA FilledBit ==
  ASSUME NEW a \in Word, NEW s \in 0..(Xlen - 1), NEW i \in 0..(Xlen - 1)
  PROVE  BitOf((a \div Pow(s)) + W - Pow(Xlen - s), i) =
           IF i + s < Xlen THEN BitOf(a \div Pow(s), i) ELSE 1
<1> DEFINE P == Pow(Xlen - s)
           u == Pow(i)
           v == a \div Pow(s)
           w == v + W - P
           M == Pow(Xlen - i - 1)
<1>0. Xlen \in 1..32 /\ s \in 0..32 /\ i \in 0..32 /\ Xlen - s \in 0..32 /\ Xlen \in 0..32
      /\ Xlen - i - 1 \in 0..32
  BY XlenAssumption
<1>1. P \in Nat \ {0} /\ u \in Nat \ {0} /\ M \in Nat \ {0} /\ W \in Nat /\ v \in Nat /\ v < P
  BY <1>0, Powers, RightShiftBit, WidthFacts
<1>2. W = u * (2 * M)
  <2>1. i \in 0..Xlen /\ i < Xlen
    BY <1>0
  <2> QED
    BY <1>0, <2>1, SplitPow, Powers
<1>3. CASE i + s < Xlen
  <2> DEFINE m == Pow(Xlen - s - i - 1)
             e == (v \div u) % 2
  <2>1. i \in 0..(Xlen - s) /\ i < Xlen - s
    BY <1>0, <1>3
  <2>2. P = u * (2 * m) /\ m \in Nat \ {0}
    BY <1>0, <2>1, SplitPow, Powers
  <2>3. e \in {0, 1} /\ \E h \in Int, t \in 0..(u - 1) : v = u * (2 * h + e) + t
    <3>1. v \in Int
      BY <1>1
    <3> HIDE DEF v, u
    <3> QED
      BY <1>1, <3>1, AtBit, Zenon
  <2> HIDE DEF e, m, v, P, u, M
  <2>4. PICK h \in Int, t \in 0..(u - 1) : v = u * (2 * h + e) + t
    BY <2>3
  <2> DEFINE k == h + M - m
  <2>5. k \in Int /\ w \in Int /\ w = u * (2 * k + e) + t
    <3>1. u * (2 * k + e) = u * (2 * h + e) + u * (2 * M) - u * (2 * m)
      BY <1>1, <2>2, <2>3, <2>4
    <3>2. u * (2 * h + e) \in Int /\ u * (2 * M) \in Int /\ u * (2 * m) \in Int
      BY <1>1, <2>2, <2>3, <2>4
    <3>3. w = u * (2 * k + e) + t
      BY <1>1, <1>2, <2>2, <2>4, <3>1, <3>2
    <3>4. k \in Int /\ w \in Int
      BY <1>1, <2>2, <2>4
    <3> QED
      BY <3>3, <3>4
  <2> HIDE DEF k, w
  <2>6. (w \div u) % 2 = e
    BY <1>1, <2>3, <2>4, <2>5, BitIs, Zenon
  <2> QED
    BY <1>3, <2>6 DEF e, BitOf, w, v, u, P
<1>4. CASE ~(i + s < Xlen)
  <2> DEFINE t == u - P + v
             k == M - 1
  <2>1. P <= u
    <3>1. Xlen - s \in 0..i
      BY <1>0, <1>4
    <3> QED
      BY <1>0, <3>1, SplitPow
  <2> HIDE DEF v, P, u, M
  <2>2. t \in 0..(u - 1) /\ k \in Int /\ w \in Int
    BY <1>1, <2>1
  <2>3. w = u * (2 * k + 1) + t
    <3>1. u * (2 * k + 1) = u * (2 * M) - u /\ u * (2 * M) \in Int
      BY <1>1
    <3> QED
      BY <1>1, <1>2, <3>1
  <2> HIDE DEF k, t, w
  <2>4. (w \div u) % 2 = 1
    <3>1. 1 \in {0, 1}
      OBVIOUS
    <3> QED
      BY <1>1, <2>2, <2>3, <3>1, BitIs, Zenon
  <2> QED
    BY <1>4, <2>4 DEF BitOf, w, v, u, P
<1> QED
  BY <1>3, <1>4

LEMMA SraIsGolden ==
  ASSUME NEW a \in Word, NEW b \in Word
  PROVE  alu("sra", a, b) = golden_alu("sra", a, b)
<1> DEFINE s == Shift(b)
           D == {i - s : i \in {j \in Bits(a) : j >= s}}
           v == a \div Pow(s)
           P == Pow(Xlen - s)
           w == v + W - P
<1>1. s \in 0..(Xlen - 1) /\ Xlen \in 1..32
  BY ShiftFacts
<1>2. alu("sra", a, b) = (Signed(a) \div Pow(s)) % W /\ golden_alu("sra", a, b) = Value(D \cup SignFill(a, s))
  BY ShiftFacts DEF alu, golden_alu
<1>3. v \in Word /\ P \in Nat \ {0} /\ P <= W /\ v \in Nat /\ v < P
  <2> HIDE DEF s
  <2>1. 0 \in 0..(Xlen - 1)
    BY <1>1
  <2> QED
    BY <1>1, <2>1, ShiftedIsWord, RightShiftBit
<1> HIDE DEF s
<1>4. D \in SUBSET (0..(Xlen - 1 - s)) /\ \A i \in 0..(Xlen - 1) : BitOf(v, i) = 1 <=> i \in D
  BY <1>1, ShiftedDown
<1> HIDE DEF D
<1>5. D \in SUBSET (0..(Xlen - 1)) /\ \A i \in D : i + s < Xlen
  BY <1>1, <1>4
<1>6. CASE a >= IMIN
  <2>1. SignFill(a, s) = (Xlen - s)..(Xlen - 1)
    BY <1>6, SignBit DEF SignFill
  <2>2. \A i \in 0..(Xlen - 1) : BitOf(w, i) = IF i + s < Xlen THEN BitOf(v, i) ELSE 1
    BY <1>1, FilledBit
  <2>3. w \in Word
    <3> HIDE DEF v, P
    <3> QED
      BY <1>3, WidthFacts DEF Word
  <2>4. D \cup SignFill(a, s) \in SUBSET (0..(Xlen - 1))
    BY <1>1, <1>5, <2>1
  <2>5. \A i \in 0..(Xlen - 1) : BitOf(w, i) = 1 <=> i \in D \cup SignFill(a, s)
    <3> HIDE DEF v, w, P
    <3>1. ASSUME NEW i \in 0..(Xlen - 1) PROVE BitOf(w, i) = 1 <=> i \in D \cup SignFill(a, s)
      <4>1. CASE i + s < Xlen
        <5>1. i \notin SignFill(a, s)
          BY <1>1, <2>1, <4>1
        <5> QED
          BY <1>4, <2>2, <4>1, <5>1
      <4>2. CASE ~(i + s < Xlen)
        <5>1. i \in SignFill(a, s)
          BY <1>1, <2>1, <4>2
        <5> QED
          BY <2>2, <4>2, <5>1
      <4> QED
        BY <4>1, <4>2
    <3> QED
      BY <3>1
  <2>6. w = Value(D \cup SignFill(a, s))
    <3> HIDE DEF w
    <3> QED
      BY <2>3, <2>4, <2>5, HasBits
  <2>7. (Signed(a) \div Pow(s)) % W = w
    <3> DEFINE p == Pow(s)
               r == a % p
    <3>1. p \in Nat \ {0} /\ W = p * P
      <4>1. s \in 0..Xlen /\ Xlen \in 0..32 /\ s \in 0..32
        BY <1>1
      <4> QED
        BY <4>1, SplitPow, Powers
    <3>2. a \in Int /\ a \in 0..(W - 1)
      BY WordIsNat DEF Word
    <3>3. r \in 0..(p - 1) /\ a = p * v + r
      <4> HIDE DEF p
      <4>1. a % p \in 0..(p - 1) /\ a = p * (a \div p) + (a % p)
        BY <3>1, <3>2, DivMod
      <4> QED
        BY <4>1 DEF v, p
    <3> HIDE DEF p, r, v, P
    <3>4. Signed(a) = a - W /\ Signed(a) \in Int
      BY <1>6, <3>2, WidthFacts DEF Signed
    <3>5. Signed(a) = p * (v - P) + r /\ v - P \in Int
      BY <1>3, <3>1, <3>3, <3>4
    <3>6. Signed(a) \div p = v - P
      <4> DEFINE x == Signed(a)
                 k == v - P
      <4>1. x \in Int /\ k \in Int /\ x = p * k + r
        BY <3>4, <3>5
      <4> HIDE DEF x, k
      <4>2. x \div p = k
        BY <3>1, <3>3, <4>1, DivIs
      <4> QED
        BY <4>2 DEF x, k
    <3>7. w = (v - P) + W * 1 /\ w \in Int /\ W \in Nat \ {0} /\ 1 \in Int
      BY <1>3, WidthFacts
    <3>8. w % W = (v - P) % W
      BY <3>5, <3>7, ModShift
    <3>9. w % W = w
      BY <2>3, WordItself
    <3> QED
      BY <3>6, <3>8, <3>9 DEF p
  <2> QED
    BY <1>2, <2>6, <2>7
<1>7. CASE ~(a >= IMIN)
  <2>1. SignFill(a, s) = {}
    BY <1>7, SignBit DEF SignFill
  <2>2. Signed(a) = a
    BY <1>7 DEF Signed
  <2>3. (Signed(a) \div Pow(s)) % W = v
    BY <1>3, <2>2, WordItself
  <2>4. v = Value(D)
    <3> HIDE DEF v
    <3> QED
      BY <1>3, <1>4, <1>5, HasBits
  <2>5. D \cup SignFill(a, s) = D
    BY <2>1
  <2> QED
    BY <1>2, <2>3, <2>4, <2>5
<1> QED
  BY <1>6, <1>7

LEMMA LeftShiftBit ==
  ASSUME NEW a \in Word, NEW s \in 0..(Xlen - 1), NEW i \in 0..(Xlen - 1)
  PROVE  BitOf((a * Pow(s)) % W, i) = IF i >= s THEN BitOf(a, i - s) ELSE 0
<1> DEFINE p == Pow(s)
           u == Pow(i)
           x == a * p
           q == x \div W
           v == x % W
           M == Pow(Xlen - i - 1)
<1>0. Xlen \in 1..32 /\ s \in 0..32 /\ i \in 0..32 /\ Xlen \in 0..32 /\ i \in 0..Xlen /\ i < Xlen
      /\ Xlen - i - 1 \in 0..32
  BY XlenAssumption
<1>1. p \in Nat \ {0} /\ u \in Nat \ {0} /\ M \in Nat \ {0} /\ W \in Nat \ {0} /\ a \in Nat
  BY <1>0, Powers, WidthFacts DEF Word
<1>2. W = u * (2 * M)
  BY <1>0, SplitPow, Powers
<1>3. x \in Int /\ q \in Int /\ v \in Int /\ x = W * q + v
  <2> HIDE DEF p
  <2>1. x \in Int
    BY <1>1
  <2> HIDE DEF x
  <2> QED
    BY <1>1, <2>1, DivMod
<1>4. v = x - u * (2 * (M * q))
  <2> HIDE DEF u, M, q, v, x
  <2>1. W * q = u * (2 * (M * q))
    BY <1>1, <1>2, <1>3
  <2>2. W * q \in Int
    BY <1>1, <1>3
  <2> QED
    BY <1>3, <2>1, <2>2
<1> HIDE DEF q, v, M
<1>5. CASE i >= s
  <2> DEFINE l == Pow(i - s)
             e == (a \div l) % 2
  <2>1. s \in 0..i /\ i - s \in 0..32
    BY <1>0, <1>5
  <2>2. u = p * l /\ l \in Nat \ {0}
    BY <1>0, <2>1, SplitPow, Powers
  <2>3. e \in {0, 1} /\ \E h \in Int, t \in 0..(l - 1) : a = l * (2 * h + e) + t
    <3>1. a \in Int
      BY <1>1
    <3> HIDE DEF l
    <3> QED
      BY <2>2, <3>1, AtBit, Zenon
  <2> HIDE DEF e, l, p, u
  <2>4. PICK h \in Int, t \in 0..(l - 1) : a = l * (2 * h + e) + t
    BY <2>3
  <2> DEFINE k == h - M * q
             z == p * t
  <2>5. z \in 0..(u - 1)
    <3>1. p * t <= p * (l - 1) /\ p * (l - 1) = p * l - p /\ p * l \in Nat /\ p * t \in Nat
      BY <1>1, <2>2, <2>4
    <3> QED
      BY <1>1, <2>2, <3>1
  <2>6. k \in Int /\ v = u * (2 * k + e) + z
    <3> DEFINE g == 2 * h + e
               mq == M * q
    <3>0. g \in Int /\ mq \in Int /\ e \in Int
      BY <1>1, <1>3, <2>3, <2>4
    <3>1. x = u * g + z
      <4>1. a * p = (l * g) * p + t * p
        <5>1. a = l * g + t
          BY <2>4
        <5> HIDE DEF g
        <5>2. l * g \in Int /\ t \in Int
          BY <2>2, <2>4, <3>0
        <5> QED
          BY <1>1, <5>1, <5>2
      <4> HIDE DEF g
      <4>2. (l * g) * p = (p * l) * g /\ t * p = p * t
        BY <1>1, <2>2, <2>4, <3>0
      <4> QED
        BY <2>2, <4>1, <4>2
    <3>2. k = h - mq /\ v = x - u * (2 * mq)
      BY <1>4
    <3> HIDE DEF mq, x, z, k
    <3>3. u * (2 * k + e) = u * (2 * h + e) - u * (2 * mq)
      BY <1>1, <2>3, <2>4, <3>0, <3>2
    <3>4. u * (2 * h + e) \in Int /\ u * (2 * mq) \in Int /\ z \in Int
      BY <1>1, <2>3, <2>4, <2>5, <3>0
    <3>5. v = u * (2 * k + e) + z
      BY <3>1, <3>2, <3>3, <3>4
    <3>6. k \in Int
      BY <2>4, <3>0, <3>2
    <3> QED
      BY <3>5, <3>6
  <2> HIDE DEF k, z, x
  <2>7. (v \div u) % 2 = e
    BY <1>1, <1>3, <2>3, <2>4, <2>5, <2>6, BitIs, Zenon
  <2> QED
    BY <1>5, <2>7 DEF BitOf, v, x, p, e, l, u
<1>6. CASE ~(i >= s)
  <2> DEFINE m == Pow(s - i - 1)
             k == a * m - M * q
  <2>1. i \in 0..s /\ i < s
    BY <1>0, <1>6
  <2>2. p = u * (2 * m) /\ m \in Nat
    BY <1>0, <2>1, SplitPow, Powers
  <2> HIDE DEF m, p, u
  <2>3. k \in Int /\ v = u * (2 * k + 0) + 0
    <3> DEFINE am == a * m
               mq == M * q
    <3>0. am \in Int /\ mq \in Int
      BY <1>1, <1>3, <2>2
    <3>1. x = u * (2 * am)
      BY <1>1, <2>2
    <3>2. k = am - mq /\ v = x - u * (2 * mq)
      BY <1>4
    <3> HIDE DEF am, mq, k, x
    <3> QED
      BY <1>1, <3>0, <3>1, <3>2
  <2> HIDE DEF k, x
  <2>4. (v \div u) % 2 = 0
    <3>1. 0 \in {0, 1} /\ 0 \in 0..(u - 1)
      BY <1>1
    <3> QED
      BY <1>1, <1>3, <2>3, <3>1, BitIs, Zenon
  <2> QED
    BY <1>6, <2>4 DEF BitOf, v, x, p, u
<1> QED
  BY <1>5, <1>6

LEMMA SllIsGolden ==
  ASSUME NEW a \in Word, NEW b \in Word
  PROVE  alu("sll", a, b) = golden_alu("sll", a, b)
<1> DEFINE s == Shift(b)
           D == {i + s : i \in {j \in Bits(a) : j + s < Xlen}}
           v == (a * Pow(s)) % W
<1>1. s \in 0..(Xlen - 1) /\ Xlen \in 1..32
  BY ShiftFacts
<1>2. alu("sll", a, b) = v /\ golden_alu("sll", a, b) = Value(D)
  BY ShiftFacts DEF alu, golden_alu
<1> HIDE DEF s
<1>3. v \in Word /\ a \in Int
  <2>1. s \in 0..32
    BY <1>1
  <2>2. a * Pow(s) \in Int /\ a \in Int
    BY <2>1, Powers, WordIsNat
  <2> QED
    BY <2>2, ModIsWord
<1>4. D \in SUBSET (0..(Xlen - 1))
  BY <1>1 DEF Bits
<1>5. ASSUME NEW i \in 0..(Xlen - 1) PROVE BitOf(v, i) = 1 <=> i \in D
  <2>1. BitOf(v, i) = IF i >= s THEN BitOf(a, i - s) ELSE 0
    BY <1>1, LeftShiftBit
  <2>2. \A j \in Bits(a) : j \in Nat
    BY DEF Bits
  <2>3. CASE i >= s
    <3>1. i - s \in 0..(Xlen - 1)
      BY <1>1, <2>3
    <3>2. i - s \in Bits(a) <=> BitOf(a, i - s) = 1
      BY <1>3, <3>1, BitsOf
    <3>3. i \in D <=> i - s \in Bits(a)
      <4>1. i = (i - s) + s /\ i < Xlen
        BY <1>1
      <4>2. \A j \in Bits(a) : i = j + s => j = i - s
        BY <1>1, <2>2
      <4> QED
        BY <4>1, <4>2
    <3> HIDE DEF v, D
    <3> QED
      BY <2>1, <2>3, <3>2, <3>3
  <2>4. CASE ~(i >= s)
    <3>1. i \notin D
      BY <1>1, <2>2, <2>4
    <3> HIDE DEF v, D
    <3> QED
      BY <2>1, <2>4, <3>1
  <2> QED
    BY <2>3, <2>4
<1> HIDE DEF v, D
<1>6. v = Value(D)
  BY <1>3, <1>4, <1>5, HasBits
<1> QED
  BY <1>2, <1>6

-----------------------------------------------------------------------------
(* The ALU, the comparisons of a branch and the multiplier.                *)

LEMMA SubIsGolden ==
  ASSUME NEW a \in Word, NEW b \in Word
  PROVE  alu("sub", a, b) = golden_alu("sub", a, b)
<1>1. a + W - b = (a - b) + W * 1 /\ a + W - b \in Int /\ a - b \in Int /\ W \in Nat \ {0} /\ 1 \in Int
  BY WordIsNat, WidthFacts DEF Word
<1>2. (a + W - b) % W = (a - b) % W
  BY <1>1, ModShift
<1> QED
  BY <1>2 DEF alu, golden_alu

\* The comparisons.
LEMMA SignedOrder ==
  ASSUME NEW a \in Word, NEW b \in Word
  PROVE  Signed(a) < Signed(b) <=> (a >= IMIN /\ b < IMIN) \/ (((a >= IMIN) = (b >= IMIN)) /\ a < b)
<1>1. a \in 0..(W - 1) /\ b \in 0..(W - 1) /\ W \in Nat /\ W = 2 * IMIN /\ IMIN \in Nat
  BY WidthFacts DEF Word
<1>2. CASE a >= IMIN /\ b >= IMIN
  BY <1>1, <1>2 DEF Signed
<1>3. CASE a >= IMIN /\ ~(b >= IMIN)
  BY <1>1, <1>3 DEF Signed
<1>4. CASE ~(a >= IMIN) /\ b >= IMIN
  BY <1>1, <1>4 DEF Signed
<1>5. CASE ~(a >= IMIN) /\ ~(b >= IMIN)
  BY <1>1, <1>5 DEF Signed
<1> QED
  BY <1>2, <1>3, <1>4, <1>5

\* alu.v: for every operation and every width of a word, the ALU computes what the
\* reference says, bit by bit in the logical operations and the shifts.
THEOREM AluIsGolden ==
  ASSUME NEW op \in AluOps, NEW a \in Word, NEW b \in Word
  PROVE  alu(op, a, b) = golden_alu(op, a, b)
<1>0. op \in {"add", "sub", "and", "or", "xor", "slt", "sltu", "sll", "srl", "sra"}
  BY DEF AluOps
<1>1. CASE op = "add"
  BY <1>1 DEF alu, golden_alu
<1>2. CASE op = "sub"
  BY <1>2, SubIsGolden
<1>3. CASE op = "and"
  BY <1>3, AndIsGolden DEF alu, golden_alu
<1>4. CASE op = "or"
  BY <1>4, OrIsGolden DEF alu, golden_alu
<1>5. CASE op = "xor"
  BY <1>5, XorIsGolden DEF alu, golden_alu
<1>6. CASE op = "slt"
  <2>1. Signed(a) < Signed(b) <=> (a >= IMIN /\ b < IMIN) \/ (((a >= IMIN) = (b >= IMIN)) /\ a < b)
    BY SignedOrder
  <2> QED
    BY <1>6, <2>1 DEF alu, golden_alu, Flag
<1>7. CASE op = "sltu"
  BY <1>7 DEF alu, golden_alu
<1>8. CASE op = "sll"
  BY <1>8, SllIsGolden
<1>9. CASE op = "srl"
  BY <1>9, SrlIsGolden
<1>10. CASE op = "sra"
  BY <1>10, SraIsGolden
<1> QED
  BY <1>0, <1>1, <1>2, <1>3, <1>4, <1>5, <1>6, <1>7, <1>8, <1>9, <1>10

LEMMA AluIsWord ==
  ASSUME NEW op \in AluOps \cup {"lui_pass"}, NEW a \in Word, NEW b \in Word
  PROVE  alu(op, a, b) \in Word
<1>1. a \in Int /\ b \in Int /\ a \in Nat /\ Signed(a) \in Int
  BY WordIsNat, SignedIsInt
<1> DEFINE p == 2^(b % Xlen)
<1>2. p \in Nat \ {0}
  <2>1. b % Xlen \in 0..32
    <3>1. Xlen \in Nat \ {0} /\ Xlen <= 32
      BY XlenAssumption
    <3>2. b % Xlen \in 0..(Xlen - 1)
      BY <1>1, <3>1, DivMod
    <3> QED
      BY <3>1, <3>2
  <2>2. Pow(b % Xlen) \in Nat \ {0}
    BY <2>1, Powers
  <2> QED
    BY <2>2 DEF Pow
<1> HIDE DEF p
<1>3. (a + b) % W \in Word /\ (a - b) % W \in Word
  BY <1>1, ModIsWord
<1>4. a & b \in Word /\ a | b \in Word /\ a ^^ b \in Word
  BY BitwiseIsWord
<1>5. (a * p) % W \in Word
  <2>1. a * p \in Int
    BY <1>1, <1>2
  <2> QED
    BY <2>1, ModIsWord
<1>6. a \div p \in Word
  <2>1. a \div p \in Nat /\ a \div p <= a
    BY <1>1, <1>2, DivIsSmaller
  <2> QED
    BY <2>1, WidthFacts DEF Word
<1>7. (Signed(a) \div p) % W \in Word
  <2>1. Signed(a) \div p \in Int
    BY <1>1, <1>2, DivMod
  <2> QED
    BY <2>1, ModIsWord
<1>8. Flag(Signed(a) < Signed(b)) \in Word /\ Flag(a < b) \in Word
  BY FlagIsWord
<1> QED
  BY <1>3, <1>4, <1>5, <1>6, <1>7, <1>8 DEF alu, AluOps, p

\* branch_unit.v: a branch is taken just when the reference's comparison of the operands
\* says so.
THEOREM ConditionIsGolden ==
  ASSUME NEW op \in Branches, NEW a \in Word, NEW b \in Word
  PROVE  condition(op, a, b) <=> golden_taken(op, a, b)
<1> DEFINE less == (a >= IMIN /\ b < IMIN) \/ (((a >= IMIN) = (b >= IMIN)) /\ a < b)
<1>1. Signed(a) < Signed(b) <=> less
  BY SignedOrder
<1>2. golden_alu("slt", a, b) = Flag(less)
  BY DEF golden_alu
<1>3. (Flag(less) = 1 <=> less) /\ (Flag(less) = 0 <=> ~less)
  BY DEF Flag
<1>4. a \in Int /\ b \in Int /\ Signed(a) \in Int /\ Signed(b) \in Int
  BY SignedIsInt, WordIsNat
<1> HIDE DEF less
<1>5. op \in {"beq", "bne", "blt", "bge", "bltu", "bgeu"}
  BY DEF Branches
<1>6. CASE op \in {"beq", "bne", "bltu", "bgeu"}
  BY <1>4, <1>6 DEF condition, golden_taken
<1>7. CASE op = "blt"
  BY <1>1, <1>2, <1>3, <1>7 DEF condition, golden_taken
<1>8. CASE op = "bge"
  <2>1. Signed(a) >= Signed(b) <=> ~(Signed(a) < Signed(b))
    BY <1>4
  <2> QED
    BY <1>1, <1>2, <1>3, <1>8, <2>1 DEF condition, golden_taken
<1> QED
  BY <1>5, <1>6, <1>7, <1>8

LEMMA MultiplierIsWord ==
  ASSUME NEW op \in MulOps, NEW a \in Word, NEW b \in Word
  PROVE  multiplier(op, a, b) \in Word
<1> DEFINE x == Extended(op # "mulhu", a)
           y == Extended(op \in {"mul", "mulh"}, b)
           product == (x * y) % (W * W)
<1>1. x \in Int /\ y \in Int
  BY WordIsNat, SignedIsInt DEF Extended
<1> HIDE DEF x, y
<1>2. x * y \in Int
  BY <1>1
<1>3. W \in Nat \ {0} /\ W * W \in Nat \ {0}
  BY WidthFacts
<1>4. product \in 0..(W * W - 1)
  BY <1>2, <1>3, DivMod
<1> HIDE DEF product
<1>5. product % W \in Word
  BY <1>3, <1>4, ModIsWord
<1>6. product \div W \in Word
  <2> DEFINE q == product \div W
             r == product % W
  <2>1. product \in Nat /\ product < W * W
    BY <1>3, <1>4
  <2>2. q \in Nat /\ r \in 0..(W - 1) /\ product = W * q + r
    BY <1>3, <2>1, DivIsSmaller, DivMod
  <2> HIDE DEF q, r
  <2>3. W * q < W * W
    <3>1. W * q \in Int /\ W * W \in Int
      BY <1>3, <2>2
    <3> QED
      BY <2>1, <2>2, <3>1
  <2>4. q < W
    <3>1. CASE q >= W
      <4>1. W * q >= W * W
        BY <1>3, <2>2, <3>1
      <4> QED
        BY <1>3, <2>2, <2>3, <4>1
    <3> QED
      BY <1>3, <2>2, <3>1
  <2> QED
    BY <1>3, <2>2, <2>4 DEF Word, q
<1> QED
  BY <1>5, <1>6 DEF multiplier, x, y, product

\* The upper half of a double word, and its lower half.
LEMMA HalvesOf ==
  ASSUME NEW x \in Int
  PROVE  /\ (x % (W * W)) % W = x % W
         /\ (x % (W * W)) \div W = (x \div W) % W
         /\ x \in 0..(W * W - 1) => (x % (W * W)) \div W = x \div W
<1> DEFINE h == x \div W
           l == x % W
           q == h \div W
           r == h % W
<1>0. W \in Nat \ {0}
  BY WidthFacts
<1>1. h \in Int /\ l \in 0..(W - 1) /\ x = W * h + l
  BY <1>0, DivMod
<1>2. q \in Int /\ r \in 0..(W - 1) /\ h = W * q + r
  <2> HIDE DEF h
  <2> QED
    BY <1>0, <1>1, DivMod
<1> HIDE DEF h, l, q, r
<1>3. W * W \in Nat \ {0} /\ W * r \in 0..(W * W - W)
  <2>1. W * W >= W /\ W * W \in Nat
    BY <1>0
  <2>2. W * r <= W * (W - 1) /\ W * (W - 1) = W * W - W /\ W * r \in Nat
    BY <1>0, <1>2
  <2> QED
    BY <1>0, <2>1, <2>2
<1>4. x = (W * W) * q + (W * r + l)
  <2>1. W * h = W * (W * q) + W * r
    BY <1>0, <1>2
  <2>2. W * (W * q) = (W * W) * q
    BY <1>0, <1>2
  <2>3. (W * W) * q \in Int /\ W * r \in Int
    BY <1>0, <1>2
  <2> QED
    BY <1>1, <2>1, <2>2, <2>3
<1>5. W * r + l \in 0..(W * W - 1)
  BY <1>0, <1>1, <1>3
<1>6. x % (W * W) = W * r + l
  <2> DEFINE N == W * W
             y == W * r + l
  <2>1. N \in Nat \ {0} /\ y \in 0..(N - 1) /\ x = N * q + y
    BY <1>3, <1>4, <1>5
  <2> HIDE DEF N, y
  <2>2. x % N = y
    BY <1>2, <2>1, DivIs
  <2> QED
    BY <2>2 DEF N, y
<1>7. (W * r + l) \div W = r /\ (W * r + l) % W = l
  <2> DEFINE y == W * r + l
  <2>1. y \in Int
    BY <1>5
  <2> HIDE DEF y
  <2>2. y = W * r + l
    BY DEF y
  <2>3. y \div W = r /\ y % W = l
    BY <1>0, <1>1, <1>2, <2>1, <2>2, DivIs
  <2> QED
    BY <2>3 DEF y
<1>8. x \in 0..(W * W - 1) => r = h
  <2> SUFFICES ASSUME x \in 0..(W * W - 1) PROVE r = h
    OBVIOUS
  <2>1. x % (W * W) = x
    <3> DEFINE N == W * W
    <3>1. N \in Nat \ {0} /\ x \in Nat /\ x < N
      BY <1>3
    <3> HIDE DEF N
    <3>2. x % N = x
      BY <3>1, ModSmall
    <3> QED
      BY <3>2 DEF N
  <2>2. W * r + l = W * h + l
    BY <1>1, <1>6, <2>1
  <2> DEFINE k == r - h
  <2>3. k \in Int /\ W * k = 0
    <3>1. W * k = W * r - W * h /\ W * r \in Int /\ W * h \in Int
      BY <1>0, <1>1, <1>2
    <3> QED
      BY <1>1, <1>2, <2>2, <3>1
  <2>4. k = 0
    <3> HIDE DEF k
    <3>1. -W < W * k /\ W * k < W
      BY <1>0, <2>3
    <3> QED
      BY <1>0, <2>3, <3>1, OnlyMultiple
  <2> QED
    BY <1>1, <1>2, <2>4
<1> QED
  BY <1>6, <1>7, <1>8 DEF h, l, r

\* multiplier.v: the four results are the halves of the product of the numbers the words
\* stand for, signed or not.
THEOREM MultiplierIsGolden ==
  ASSUME NEW op \in MulOps, NEW a \in Word, NEW b \in Word
  PROVE  multiplier(op, a, b) = golden_mul(op, a, b)
<1>1. a \in Int /\ b \in Int /\ Signed(a) \in Int /\ Signed(b) \in Int
  BY SignedIsInt, WordIsNat
<1>2. op \in {"mul", "mulh", "mulhsu", "mulhu"}
  BY DEF MulOps
<1>3. CASE op \in {"mul", "mulh"}
  <2> DEFINE x == Signed(a) * Signed(b)
  <2>1. x \in Int
    BY <1>1
  <2>2. Extended(op # "mulhu", a) = Signed(a) /\ Extended(op \in {"mul", "mulh"}, b) = Signed(b)
    BY <1>3 DEF Extended
  <2>3. /\ multiplier(op, a, b) = IF op = "mul" THEN (x % (W * W)) % W ELSE (x % (W * W)) \div W
        /\ golden_mul(op, a, b) = IF op = "mul" THEN x % W ELSE (x \div W) % W
    BY <1>3, <2>2 DEF multiplier, golden_mul
  <2> HIDE DEF x
  <2> QED
    BY <2>1, <2>3, HalvesOf
<1>4. CASE op = "mulhsu"
  <2> DEFINE x == Signed(a) * b
  <2>1. x \in Int
    BY <1>1
  <2>2. Extended(op # "mulhu", a) = Signed(a) /\ Extended(op \in {"mul", "mulh"}, b) = b
    BY <1>4 DEF Extended
  <2>3. multiplier(op, a, b) = (x % (W * W)) \div W /\ golden_mul(op, a, b) = (x \div W) % W
    BY <1>4, <2>2 DEF multiplier, golden_mul
  <2> HIDE DEF x
  <2> QED
    BY <2>1, <2>3, HalvesOf
<1>5. CASE op = "mulhu"
  <2> DEFINE x == a * b
  <2>1. x \in 0..(W * W - 1) /\ x \in Int
    <3>1. a \in 0..(W - 1) /\ b \in 0..(W - 1) /\ W \in Nat /\ W >= 256
      BY WidthFacts DEF Word
    <3>2. a * b \in Nat /\ a * b <= (W - 1) * b
      BY <3>1
    <3>3. (W - 1) * b <= (W - 1) * (W - 1)
      BY <3>1
    <3>4. (W - 1) * (W - 1) = W * W - 2 * W + 1 /\ W * W \in Nat
      BY <3>1
    <3>5. (W - 1) * b \in Int
      BY <3>1
    <3> QED
      BY <3>1, <3>2, <3>3, <3>4, <3>5
  <2>2. Extended(op # "mulhu", a) = a /\ Extended(op \in {"mul", "mulh"}, b) = b
    BY <1>5 DEF Extended
  <2>3. multiplier(op, a, b) = (x % (W * W)) \div W /\ golden_mul(op, a, b) = x \div W
    BY <1>5, <2>2 DEF multiplier, golden_mul
  <2> HIDE DEF x
  <2> QED
    BY <2>1, <2>3, HalvesOf
<1> QED
  BY <1>2, <1>3, <1>4, <1>5

-----------------------------------------------------------------------------
(* Loads and stores, byte by byte.                                         *)

LEMMA BytePowers ==
  /\ ByteW \in {4, 16, 256}
  /\ ByteW^0 = 1 /\ ByteW^1 = ByteW /\ ByteW^2 = ByteW * ByteW /\ ByteW^3 = ByteW * (ByteW * ByteW)
<1> DEFINE P(l) == ByteW^l
<1>1. ASSUME NEW w \in {4, 16, 256}, ByteW = w
      PROVE  P(0) = 1 /\ P(1) = ByteW /\ P(2) = ByteW * ByteW /\ P(3) = ByteW * (ByteW * ByteW)
  <2>1. CASE w = 4
    BY <1>1, <2>1, SMT
  <2>2. CASE w = 16
    BY <1>1, <2>2, SMT
  <2>3. CASE w = 256
    BY <1>1, <2>3, SMT
  <2> QED
    BY <1>1, <2>1, <2>2, <2>3
<1>2. ByteW \in {4, 16, 256}
  <2>1. CASE Xlen = 8
    BY <2>1, SMT DEF ByteW
  <2>2. CASE Xlen = 16
    BY <2>2, SMT DEF ByteW
  <2>3. CASE Xlen = 32
    BY <2>3, SMT DEF ByteW
  <2> QED
    BY <2>1, <2>2, <2>3, XlenAssumption
<1>3. P(0) = 1 /\ P(1) = ByteW /\ P(2) = ByteW * ByteW /\ P(3) = ByteW * (ByteW * ByteW)
  <2> HIDE DEF P
  <2> QED
    BY <1>1, <1>2
<1> QED
  BY <1>2, <1>3

LEMMA ByteFacts ==
  /\ ByteW \in Nat \ {0} /\ ByteW^2 = ByteW * ByteW
  /\ \A l \in 0..3 : ByteW^l \in Nat \ {0}
  /\ ByteW * ByteW \in Nat \ {0} /\ ByteW * ByteW < W /\ ByteW < W
<1> DEFINE P(l) == ByteW^l
<1>1. P(0) = 1 /\ P(1) = ByteW /\ P(2) = ByteW * ByteW /\ P(3) = ByteW * (ByteW * ByteW)
  BY BytePowers
<1>2. ByteW \in {4, 16, 256}
  BY BytePowers
<1>3. ByteW * ByteW \in Nat \ {0} /\ ByteW * (ByteW * ByteW) \in Nat \ {0} /\ ByteW < ByteW * ByteW
  BY <1>2
<1>4. ByteW * ByteW < W
  <2> DEFINE n == ByteW * ByteW
  <2>1. n \in Nat /\ n >= 16 /\ ByteW >= 4
    BY <1>2
  <2>2. W = ByteW * (ByteW * n)
    BY WidthFacts
  <2> HIDE DEF n
  <2> DEFINE m == ByteW * n
  <2>3. m \in Nat /\ m >= 4 * n
    BY <1>2, <2>1
  <2>4. W = ByteW * m
    BY <2>2
  <2> HIDE DEF m
  <2>5. ByteW * m >= 4 * m
    BY <1>2, <2>1, <2>3
  <2>6. n < W
    BY <2>1, <2>3, <2>4, <2>5
  <2> QED
    BY <2>6 DEF n
<1>5. \A l \in 0..3 : P(l) \in Nat \ {0}
  <2>1. ASSUME NEW l \in 0..3 PROVE l = 0 \/ l = 1 \/ l = 2 \/ l = 3
    OBVIOUS
  <2> HIDE DEF P
  <2> QED
    BY <1>2, <1>1, <1>3, <2>1
<1> QED
  BY <1>2, <1>1, <1>3, <1>4, <1>5, WidthFacts

\* The word loaded from a word of the memory, and the word of four bytes.
LEMMA LoadIsWord ==
  ASSUME NEW op \in Loads, NEW rdata \in Word, NEW lsb \in 0..3
  PROVE  load_data(op, rdata, lsb) \in Word
<1> DEFINE shifted == rdata \div ByteW^lsb
           n2 == ByteW^2
           byte == shifted % ByteW
           half == shifted % n2
<1>1. ByteW \in Nat \ {0} /\ ByteW^lsb \in Nat \ {0} /\ n2 \in Nat \ {0} /\ n2 < W /\ ByteW < W /\ W \in Nat
  BY ByteFacts, WidthFacts
<1>2. shifted \in Nat /\ shifted <= rdata
  BY <1>1, DivIsSmaller, WordIsNat
<1> HIDE DEF shifted, n2
<1>3. byte \in 0..(ByteW - 1) /\ half \in 0..(n2 - 1)
  BY <1>1, <1>2, DivMod
<1> HIDE DEF byte, half
<1>4. byte + (IF byte >= ByteW \div 2 THEN W - ByteW ELSE 0) \in Word
  BY <1>1, <1>3 DEF Word
<1>5. half + (IF half >= n2 \div 2 THEN W - n2 ELSE 0) \in Word
  BY <1>1, <1>3 DEF Word
<1>6. byte \in Word /\ half \in Word /\ shifted \in Word
  BY <1>1, <1>2, <1>3, WordIsNat DEF Word
<1> QED
  BY <1>4, <1>5, <1>6 DEF load_data, Loads, shifted, n2, byte, half

LEMMA BytesMakeWord ==
  ASSUME NEW b, \A l \in 0..3 : b[l] \in 0..(ByteW - 1)
  PROVE  FromBytes(b) \in Word
<1>1. ByteW \in Nat \ {0}
  BY WidthFacts
<1>2. ASSUME NEW n \in Nat, NEW x \in 0..(ByteW - 1), NEW y \in 0..(n - 1)
      PROVE  x + ByteW * y \in 0..(ByteW * n - 1)
  <2>1. ByteW * y \in Nat /\ ByteW * n \in Nat
    BY <1>1
  <2>2. ByteW * y <= ByteW * (n - 1)
    BY <1>1
  <2>3. ByteW * (n - 1) = ByteW * n - ByteW
    BY <1>1
  <2> QED
    BY <1>1, <2>1, <2>2, <2>3
<1> DEFINE n2 == ByteW * ByteW
           n3 == ByteW * n2
           y1 == b[2] + ByteW * b[3]
           y2 == b[1] + ByteW * y1
<1>3. n2 \in Nat /\ n3 \in Nat /\ ByteW \in Nat
  BY <1>1
<1>4. \A l \in 0..3 : b[l] \in 0..(ByteW - 1)
  OBVIOUS
<1>5. y1 \in 0..(n2 - 1)
  BY <1>2, <1>3, <1>4
<1> HIDE DEF y1
<1>6. y2 \in 0..(n3 - 1)
  <2> HIDE DEF n2
  <2> QED
    BY <1>2, <1>3, <1>4, <1>5
<1> HIDE DEF y2
<1>7. b[0] + ByteW * y2 \in 0..(ByteW * n3 - 1)
  <2> HIDE DEF n3
  <2> QED
    BY <1>2, <1>3, <1>4, <1>6
<1> QED
  BY <1>7, WidthFacts DEF FromBytes, Word, y1, y2

LEMMA ByteOfIsByte ==
  ASSUME NEW a \in Int, NEW l \in 0..3
  PROVE  ByteOf(a, l) \in 0..(ByteW - 1)
<1>1. ByteW \in Nat \ {0} /\ ByteW^l \in Nat \ {0}
  BY ByteFacts
<1>2. a \div ByteW^l \in Int
  BY <1>1, DivMod
<1> QED
  BY <1>1, <1>2, DivMod DEF ByteOf

LEMMA MergedIsWord ==
  ASSUME NEW old \in Int, NEW new \in Int, NEW wen
  PROVE  Merged(old, new, wen) \in Word
<1> DEFINE b == [l \in Lanes |-> ByteOf(IF l \in wen THEN new ELSE old, l)]
<1>1. ASSUME NEW l \in 0..3 PROVE b[l] \in 0..(ByteW - 1)
  <2>1. (IF l \in wen THEN new ELSE old) \in Int
    OBVIOUS
  <2>2. ByteOf(IF l \in wen THEN new ELSE old, l) \in 0..(ByteW - 1)
    BY <2>1, ByteOfIsByte
  <2> QED
    BY <2>2 DEF Lanes
<1> HIDE DEF b
<1>2. FromBytes(b) \in Word
  BY <1>1, BytesMakeWord
<1> QED
  BY <1>2 DEF Merged, b

\* One byte after another.
LEMMA NextByte ==
  ASSUME NEW w \in Int, NEW l \in 0..2
  PROVE  /\ (w \div ByteW^l) \in Int /\ ByteOf(w, l) = (w \div ByteW^l) % ByteW
         /\ w \div ByteW^(l + 1) = (w \div ByteW^l) \div ByteW
<1> DEFINE N == ByteW^l
           M == ByteW^(l + 1)
<1>1. ByteW \in Nat \ {0} /\ N \in Nat \ {0} /\ M = N * ByteW
  <2>1. ByteW \in Nat \ {0} /\ N \in Nat \ {0}
    BY ByteFacts
  <2>2. l = 0 \/ l = 1 \/ l = 2
    OBVIOUS
  <2>3. CASE l = 0
    BY <2>1, <2>3, BytePowers
  <2>4. CASE l = 1
    BY <2>1, <2>4, BytePowers
  <2>5. CASE l = 2
    BY <2>1, <2>5, BytePowers
  <2> QED
    BY <2>1, <2>2, <2>3, <2>4, <2>5
<1> HIDE DEF N, M
<1>2. w \div N \in Int /\ w \div M = (w \div N) \div ByteW
  BY <1>1, DivDiv, DivMod
<1> QED
  BY <1>2 DEF N, M, ByteOf

LEMMA WordOfBytes ==
  ASSUME NEW w \in Word
  PROVE  w = ByteOf(w, 0) + ByteW * (ByteOf(w, 1) + ByteW * (ByteOf(w, 2) + ByteW * ByteOf(w, 3)))
<1> DEFINE B == ByteW
           x(l) == w \div ByteW^l
<1>0. B \in Nat \ {0} /\ w \in Int /\ w \in Nat /\ w < W /\ W = B * (B * (B * B))
  BY WidthFacts DEF Word
<1>1. x(0) = w
  BY <1>0, BytePowers
<1>2. /\ x(1) = x(0) \div B /\ x(2) = x(1) \div B /\ x(3) = x(2) \div B
      /\ x(0) \in Int /\ x(1) \in Int /\ x(2) \in Int /\ x(3) \in Int
  <2>1. 0 \in 0..2 /\ 1 \in 0..2 /\ 2 \in 0..2 /\ 0 + 1 = 1 /\ 1 + 1 = 2 /\ 2 + 1 = 3
    OBVIOUS
  <2>2. /\ x(0) \in Int /\ x(1) \in Int /\ x(2) \in Int
        /\ x(1) = x(0) \div B /\ x(2) = x(1) \div B /\ x(3) = x(2) \div B
    BY <1>0, <2>1, NextByte
  <2>3. x(2) \div B \in Int
    <3> HIDE DEF x
    <3> QED
      BY <1>0, <2>2, DivMod
  <2> QED
    BY <2>2, <2>3
<1>3. ByteOf(w, 0) = x(0) % B /\ ByteOf(w, 1) = x(1) % B /\ ByteOf(w, 2) = x(2) % B /\ ByteOf(w, 3) = x(3) % B
  BY DEF ByteOf
<1> HIDE DEF x, B
<1>4. /\ x(0) = (x(0) % B) + B * x(1) /\ x(1) = (x(1) % B) + B * x(2) /\ x(2) = (x(2) % B) + B * x(3)
  <2>1. ASSUME NEW y \in Int PROVE y = (y % B) + B * (y \div B)
    BY <1>0, DivMod
  <2> QED
    BY <1>2, <2>1
<1>6. ASSUME NEW y \in Int PROVE y % B \in 0..(B - 1)
  BY <1>0, DivMod
<1>5. x(3) % B = x(3)
  <2>1. x(3) < B
    <3>0. x(3) \in Int /\ x(2) % B \in Nat /\ x(1) % B \in Nat /\ x(0) % B \in Nat
      BY <1>2, <1>6
    <3> SUFFICES ASSUME x(3) >= B PROVE FALSE
      BY <1>0, <3>0
    <3>1. B * x(3) >= B * B /\ B * B \in Nat /\ B * x(3) \in Int
      BY <1>0, <3>0
    <3>2. x(2) >= B * B
      BY <1>2, <1>4, <3>0, <3>1
    <3>3. B * x(2) >= B * (B * B) /\ B * (B * B) \in Nat /\ B * x(2) \in Int
      BY <1>0, <1>2, <3>1, <3>2
    <3>4. x(1) >= B * (B * B)
      BY <1>2, <1>4, <3>0, <3>3
    <3>5. B * x(1) >= B * (B * (B * B)) /\ B * (B * (B * B)) \in Nat /\ B * x(1) \in Int
      <4> DEFINE c == B * (B * B)
      <4>1. c \in Nat /\ x(1) >= c
        BY <3>3, <3>4
      <4> HIDE DEF c
      <4>2. B * x(1) >= B * c /\ B * c \in Nat /\ B * x(1) \in Int
        BY <1>0, <1>2, <4>1
      <4> QED
        BY <4>2 DEF c
    <3>6. x(0) >= W
      BY <1>0, <1>2, <1>4, <3>0, <3>5
    <3> QED
      BY <1>0, <1>1, <3>6
  <2>2. x(3) >= 0
    <3> SUFFICES ASSUME x(3) <= -1 PROVE FALSE
      BY <1>2
    <3>0. x(2) % B < B /\ x(1) % B < B /\ x(0) % B < B /\ x(2) % B \in Int /\ x(1) % B \in Int /\ x(0) % B \in Int
      BY <1>0, <1>2, <1>6
    <3>1. B * x(3) <= -B
      BY <1>0, <1>2
    <3>2. x(2) <= -1
      BY <1>0, <1>2, <1>4, <3>0, <3>1
    <3>3. B * x(2) <= -B
      BY <1>0, <1>2, <3>2
    <3>4. x(1) <= -1
      BY <1>0, <1>2, <1>4, <3>0, <3>3
    <3>5. B * x(1) <= -B
      BY <1>0, <1>2, <3>4
    <3>6. x(0) <= -1
      BY <1>0, <1>2, <1>4, <3>0, <3>5
    <3> QED
      BY <1>0, <1>1, <3>6
  <2>3. x(3) \in Nat
    BY <1>2, <2>2
  <2> QED
    BY <1>0, <2>1, <2>3, ModSmall
<1> QED
  BY <1>1, <1>3, <1>4, <1>5 DEF B

\* The load half of write-back and the lanes of a store, on a whole memory.
core_load(op, m, a) == load_data(op, IF IsData(a) THEN m[a \div 4] ELSE DeviceWord, a % 4)
core_store(op, m, a, v) ==
  IF ~IsData(a) THEN m
  ELSE [m EXCEPT ![a \div 4] = Merged(@, dmem_wdata(a, v), dmem_wen(op, a))]

\* A word of the memory, or of a device.
WordAt(m, a) == IF IsData(a) THEN m[a \div 4] ELSE DeviceWord

LEMMA WordAtIsWord ==
  ASSUME NEW m \in [DataWord -> Word], NEW a \in Word
  PROVE  WordAt(m, a) \in Word /\ (IsData(a) => a \div 4 \in DataWord)
<1>1. a \in Nat /\ DataTop \in Nat /\ DataTop % 4 = 0
  BY WordIsNat, DataAssumption
<1>2. IsData(a) => a \div 4 \in DataWord
  BY <1>1 DEF IsData, DataWord
<1>3. DeviceWord \in Word
  BY WidthFacts DEF DeviceWord
<1> QED
  BY <1>2, <1>3 DEF WordAt

\* The bytes of an access inside a word.
LEMMA BytesAt ==
  ASSUME NEW m \in [DataWord -> Word], NEW a \in Word, NEW k \in 0..3, (a % 4) + k <= 3
  PROVE  MemByte(m, a + k) = ByteOf(WordAt(m, a), (a % 4) + k) /\ (a % 4) + k \in 0..3
<1>1. a \in Nat /\ DataTop \in Nat /\ DataTop % 4 = 0
  BY WordIsNat, DataAssumption
<1>2. (a + k) \div 4 = a \div 4 /\ (a + k) % 4 = (a % 4) + k /\ (IsData(a + k) <=> IsData(a))
  BY <1>1 DEF IsData
<1>3. (a % 4) + k \in 0..3
  BY <1>1
<1> QED
  BY <1>2, <1>3 DEF MemByte, WordAt

BytesFrom(m, a, n) == [k \in 0..(n - 1) |-> MemByte(m, a + k) * ByteW^k]

LEMMA UnsignedIs ==
  ASSUME NEW m, NEW a, NEW n \in Nat, \A k \in 0..(n - 1) : BytesFrom(m, a, n)[k] \in Int,
         NEW t, AddsUp(t, n, BytesFrom(m, a, n), 0..(n - 1))
  PROVE  Unsigned(m, a, n) = t[n]
<1> DEFINE B == 0..(n - 1)
           f == BytesFrom(m, a, n)
           Is(fold) == fold = [s \in SUBSET B |-> IF s = {} THEN 0
                               ELSE LET x == CHOOSE x \in s : TRUE IN MemByte(m, a + x) * ByteW^x + fold[s \ {x}]]
<1>1. ASSUME NEW fold PROVE Is(fold) <=> SumFold(fold, B, f)
  <2>1. ASSUME NEW s \in SUBSET B
        PROVE  (IF s = {} THEN 0 ELSE LET x == CHOOSE x \in s : TRUE IN MemByte(m, a + x) * ByteW^x + fold[s \ {x}])
               = (IF s = {} THEN 0 ELSE LET x == CHOOSE x \in s : TRUE IN f[x] + fold[s \ {x}])
    <3>1. CASE s = {}
      BY <3>1
    <3>2. CASE s # {}
      <4> DEFINE x == CHOOSE x \in s : TRUE
      <4>1. x \in s
        BY <3>2
      <4> HIDE DEF x
      <4>2. MemByte(m, a + x) * ByteW^x = f[x]
        BY <4>1 DEF BytesFrom
      <4> QED
        BY <3>2, <4>2 DEF x
    <3> QED
      BY <3>1, <3>2
  <2>2. [s \in SUBSET B |-> IF s = {} THEN 0 ELSE LET x == CHOOSE x \in s : TRUE IN MemByte(m, a + x) * ByteW^x + fold[s \ {x}]]
        = [s \in SUBSET B |-> IF s = {} THEN 0 ELSE LET x == CHOOSE x \in s : TRUE IN f[x] + fold[s \ {x}]]
    BY <2>1
  <2> QED
    BY <2>2 DEF SumFold
<1>2. B \in SUBSET (0..(n - 1)) /\ \A k \in 0..(n - 1) : f[k] \in Int
  OBVIOUS
<1>3. Is(CHOOSE fold : Is(fold))
  <2>1. \E fold : SumFold(fold, B, f)
    <3> HIDE DEF f, B
    <3> QED
      BY <1>2, FoldExists
  <2> HIDE DEF Is
  <2> QED
    BY <1>1, <2>1
<1>4. Unsigned(m, a, n) = (CHOOSE fold : Is(fold))[B]
  BY DEF Unsigned, MapThenSumSet, MapThenFoldSet
<1> HIDE DEF Is
<1>5. Unsigned(m, a, n) = Total(n, f, B)
  <2> HIDE DEF f, B
  <2> QED
    BY <1>1, <1>2, <1>3, <1>4, FoldIsTotal
<1> QED
  BY <1>5, TotalIs

LEMMA UnsignedOfBytes ==
  ASSUME NEW m, NEW a \in Nat, NEW n \in {1, 2, 4}, NEW b, \A k \in 0..(n - 1) : b[k] \in Int /\ MemByte(m, a + k) = b[k]
  PROVE  Unsigned(m, a, n) =
           IF n = 1 THEN b[0] ELSE IF n = 2 THEN b[0] + ByteW * b[1]
           ELSE b[0] + ByteW * (b[1] + ByteW * (b[2] + ByteW * b[3]))
<1> DEFINE f == BytesFrom(m, a, n)
           B == ByteW
<1>0. B \in Nat \ {0} /\ n \in Nat
  BY WidthFacts
<1>1. ASSUME NEW k \in 0..(n - 1) PROVE f[k] = b[k] * ByteW^k /\ f[k] \in Int
  <2>1. k \in 0..3
    OBVIOUS
  <2>2. ByteW^k \in Nat /\ b[k] \in Int
    BY <2>1, ByteFacts
  <2>3. f[k] = b[k] * ByteW^k
    BY DEF BytesFrom
  <2> QED
    BY <2>2, <2>3
<1> HIDE DEF f
<1>2. PICK t : AddsUp(t, n, f, 0..(n - 1))
  BY <1>0, <1>1, SumsExist
<1>3. Unsigned(m, a, n) = t[n]
  BY <1>0, <1>1, <1>2, UnsignedIs DEF f
<1>4. t[0] = 0 /\ \A k \in 1..n : t[k] = t[k - 1] + f[k - 1] /\ f[k - 1] \in Int
  <2>1. t[0] = 0 /\ \A k \in 1..n : t[k] = t[k - 1] + (IF k - 1 \in 0..(n - 1) THEN f[k - 1] ELSE 0)
    BY <1>0, <1>2, SumsTurns
  <2>2. \A k \in 1..n : k - 1 \in 0..(n - 1)
    BY <1>0
  <2> QED
    BY <1>1, <2>1, <2>2
<1>5. CASE n = 1
  <2>1. t[1] = f[0] /\ f[0] = b[0] * 1 /\ b[0] \in Int
    BY <1>1, <1>4, <1>5, BytePowers
  <2> QED
    BY <1>3, <1>5, <2>1
<1>6. CASE n = 2
  <2>1. 0 \in 0..(n - 1) /\ 1 \in 0..(n - 1) /\ 1 \in 1..n /\ 2 \in 1..n
    BY <1>6
  <2>2. f[0] = b[0] * 1 /\ f[1] = b[1] * B /\ b[0] \in Int /\ b[1] \in Int
    BY <1>1, <2>1, BytePowers
  <2>3. t[1] = t[0] + f[0] /\ t[2] = t[1] + f[1] /\ f[0] \in Int /\ f[1] \in Int
    BY <1>4, <2>1
  <2> HIDE DEF B
  <2>4. t[2] = b[0] + B * b[1]
    BY <1>0, <1>4, <2>2, <2>3
  <2> QED
    BY <1>3, <1>6, <2>4 DEF B
<1>7. CASE n = 4
  <2>1. /\ 0 \in 0..(n - 1) /\ 1 \in 0..(n - 1) /\ 2 \in 0..(n - 1) /\ 3 \in 0..(n - 1)
        /\ 1 \in 1..n /\ 2 \in 1..n /\ 3 \in 1..n /\ 4 \in 1..n
    BY <1>7
  <2>2. /\ f[0] = b[0] * 1 /\ f[1] = b[1] * B /\ f[2] = b[2] * (B * B) /\ f[3] = b[3] * (B * (B * B))
        /\ b[0] \in Int /\ b[1] \in Int /\ b[2] \in Int /\ b[3] \in Int
    BY <1>1, <2>1, BytePowers
  <2>3. /\ t[1] = t[0] + f[0] /\ t[2] = t[1] + f[1] /\ t[3] = t[2] + f[2] /\ t[4] = t[3] + f[3]
        /\ f[0] \in Int /\ f[1] \in Int /\ f[2] \in Int /\ f[3] \in Int
    BY <1>4, <2>1
  <2> HIDE DEF B
  <2>4. t[4] = f[0] + f[1] + f[2] + f[3]
    BY <1>4, <2>3
  <2>5. B * (b[1] + B * (b[2] + B * b[3])) = B * b[1] + (B * B) * b[2] + (B * (B * B)) * b[3]
    BY <1>0, <2>2
  <2>6. f[1] = B * b[1] /\ f[2] = (B * B) * b[2] /\ f[3] = (B * (B * B)) * b[3]
    BY <1>0, <2>2
  <2>7. t[4] = b[0] + B * (b[1] + B * (b[2] + B * b[3]))
    BY <2>2, <2>3, <2>4, <2>5, <2>6
  <2> QED
    BY <1>3, <1>7, <2>7 DEF B
<1> QED
  BY <1>5, <1>6, <1>7

\* An access that stays inside one word.
Fits(op, a) == (a % 4) + BytesOf(op) <= 4

\* lsu.v, wb_stage.v: a load that stays inside a word brings the bytes at its address, the
\* lowest first, extended by their sign or by zeros.
THEOREM LoadIsGolden ==
  ASSUME NEW op \in Loads, NEW m \in [DataWord -> Word], NEW a \in Word, Fits(op, a)
  PROVE  core_load(op, m, a) = golden_load(op, m, a)
<1> DEFINE w == WordAt(m, a)
           l == a % 4
           n == BytesOf(op)
           x == w \div ByteW^l
           b == [k \in 0..3 |-> ByteOf(w, l + k)]
           v == Unsigned(m, a, n)
<1>0. op \in {"lb", "lh", "lw", "lbu", "lhu"}
  BY DEF Loads
<1>1. n \in {1, 2, 4} /\ l \in 0..3 /\ l + n <= 4 /\ a \in Nat /\ a \in Word
  BY <1>0, WordIsNat DEF BytesOf, Fits
<1>2. w \in Word /\ w \in Int
  BY WordAtIsWord, WordIsNat
<1>3. ASSUME NEW k \in 0..(n - 1) PROVE b[k] \in Int /\ MemByte(m, a + k) = b[k]
  <2>1. k \in 0..3 /\ (a % 4) + k <= 3
    BY <1>1
  <2>2. MemByte(m, a + k) = ByteOf(WordAt(m, a), (a % 4) + k) /\ (a % 4) + k \in 0..3
    BY <2>1, BytesAt
  <2>3. b[k] = ByteOf(w, l + k)
    BY <2>1
  <2>4. ByteOf(w, l + k) \in 0..(ByteW - 1)
    BY <1>2, <2>2, ByteOfIsByte
  <2> QED
    BY <2>2, <2>3, <2>4, WidthFacts
<1> HIDE DEF n, b, w
<1>4. v = IF n = 1 THEN b[0] ELSE IF n = 2 THEN b[0] + ByteW * b[1]
          ELSE b[0] + ByteW * (b[1] + ByteW * (b[2] + ByteW * b[3]))
  BY <1>1, <1>3, UnsignedOfBytes
<1>5. core_load(op, m, a) = load_data(op, w, l)
  BY DEF core_load, w, WordAt
<1>6. golden_load(op, m, a) = IF op \in {"lb", "lh"} /\ v >= ByteW^n \div 2 THEN v + W - ByteW^n ELSE v
  BY DEF golden_load, n
<1>7. b[0] = x % ByteW /\ x \in Int
  <2>1. b[0] = ByteOf(w, l) /\ ByteW^l \in Nat \ {0}
    BY <1>1, ByteFacts DEF b
  <2>2. x \in Int
    BY <1>2, <2>1, DivMod
  <2> QED
    BY <2>1, <2>2 DEF ByteOf
<1>8. l \in 0..2 => b[1] = (x \div ByteW) % ByteW
  <2> SUFFICES ASSUME l \in 0..2 PROVE b[1] = (x \div ByteW) % ByteW
    OBVIOUS
  <2>1. b[1] = (w \div ByteW^(l + 1)) % ByteW
    BY DEF b, ByteOf
  <2>2. w \div ByteW^(l + 1) = (w \div ByteW^l) \div ByteW
    BY <1>2, NextByte
  <2> QED
    BY <2>1, <2>2
<1> HIDE DEF l, x, v
<1>9. ByteW \in Nat \ {0} /\ ByteW^1 = ByteW /\ ByteW^2 = ByteW * ByteW /\ W \in Nat
  BY BytePowers, WidthFacts
<1>10. CASE op \in {"lb", "lbu"}
  <2>1. n = 1
    BY <1>10 DEF n, BytesOf
  <2>2. v = x % ByteW
    BY <1>4, <1>7, <2>1
  <2> DEFINE h == x % ByteW
  <2>3. h \in 0..(ByteW - 1) /\ ByteW \div 2 \in Int
    BY <1>7, <1>9, DivMod
  <2>4. load_data(op, w, l) = IF op = "lb" THEN h + (IF h >= ByteW \div 2 THEN W - ByteW ELSE 0) ELSE h
    BY <1>10 DEF load_data, x
  <2> HIDE DEF h
  <2>5. v = h
    BY <2>2 DEF h
  <2>6. h + (W - ByteW) = h + W - ByteW /\ h + 0 = h
    BY <1>9, <2>3
  <2> QED
    BY <1>5, <1>6, <1>9, <1>10, <2>1, <2>4, <2>5, <2>6
<1>11. CASE op \in {"lh", "lhu"}
  <2>1. n = 2 /\ l \in 0..2
    BY <1>1, <1>11 DEF n, BytesOf, l
  <2> DEFINE h == x % (ByteW * ByteW)
             N == ByteW * ByteW
  <2>2. v = h
    <3>1. h = (x % ByteW) + ByteW * ((x \div ByteW) % ByteW)
      BY <1>7, <1>9, DivDiv
    <3> QED
      BY <1>4, <1>7, <1>8, <2>1, <3>1
  <2>3. N \in Nat \ {0} /\ h \in 0..(N - 1)
    <3>1. N \in Nat \ {0}
      BY ByteFacts
    <3> HIDE DEF N
    <3>2. x % N \in 0..(N - 1)
      BY <1>7, <3>1, DivMod
    <3> QED
      BY <3>1, <3>2 DEF N
  <2>4. load_data(op, w, l) = IF op = "lh" THEN h + (IF h >= N \div 2 THEN W - N ELSE 0) ELSE h
    BY <1>9, <1>11 DEF load_data, x
  <2>5. ByteW^n = N
    BY <1>9, <2>1
  <2> HIDE DEF h, N
  <2>6. h + (W - N) = h + W - N /\ h + 0 = h
    BY <1>9, <2>3
  <2> QED
    BY <1>5, <1>6, <1>11, <2>2, <2>4, <2>5, <2>6
<1>12. CASE op = "lw"
  <2>1. n = 4 /\ l = 0
    BY <1>1, <1>12 DEF n, BytesOf, l
  <2>2. b[0] = ByteOf(w, 0) /\ b[1] = ByteOf(w, 1) /\ b[2] = ByteOf(w, 2) /\ b[3] = ByteOf(w, 3)
    BY <2>1 DEF b
  <2>3. v = w
    BY <1>2, <1>4, <2>1, <2>2, WordOfBytes
  <2>4. x = w
    BY <1>2, <2>1, BytePowers DEF x
  <2>5. load_data(op, w, l) = x
    BY <1>12 DEF load_data, x
  <2> QED
    BY <1>5, <1>6, <1>12, <2>3, <2>4, <2>5
<1> QED
  BY <1>0, <1>10, <1>11, <1>12

LEMMA ByteSplit ==
  ASSUME NEW l \in 0..3, NEW s \in 0..l
  PROVE  /\ ByteW^l = ByteW^s * ByteW^(l - s) /\ W = ByteW^l * (ByteW * ByteW^(3 - l))
         /\ s \in 0..3 /\ l - s \in 0..3 /\ 3 - l \in 0..3
<1> DEFINE P(k) == ByteW^k
           B == ByteW
<1>1. P(0) = 1 /\ P(1) = B /\ P(2) = B * B /\ P(3) = B * (B * B) /\ B \in Nat /\ W = B * (B * (B * B))
  BY BytePowers, WidthFacts
<1> HIDE DEF P, B
<1>2. P(l) = P(s) * P(l - s)
  <2>1. CASE l = 0
    <3>1. s = 0 /\ l - s = 0
      <4>1. s = 0
        BY <2>1
      <4>2. \A x \in Int : x - x = 0
        OBVIOUS
      <4> QED
        BY <2>1, <4>1, <4>2
    <3> QED
      BY <1>1, <2>1, <3>1
  <2>2. CASE l = 1
    <3>1. (s = 0 /\ l - s = 1) \/ (s = 1 /\ l - s = 0)
      BY <2>2
    <3> QED
      BY <1>1, <2>2, <3>1
  <2>3. CASE l = 2
    <3>1. (s = 0 /\ l - s = 2) \/ (s = 1 /\ l - s = 1) \/ (s = 2 /\ l - s = 0)
      BY <2>3
    <3> QED
      BY <1>1, <2>3, <3>1
  <2>4. CASE l = 3
    <3>1. (s = 0 /\ l - s = 3) \/ (s = 1 /\ l - s = 2) \/ (s = 2 /\ l - s = 1) \/ (s = 3 /\ l - s = 0)
      BY <2>4
    <3>2. B * (B * B) = (B * B) * B
      BY <1>1
    <3> QED
      BY <1>1, <2>4, <3>1, <3>2
  <2> QED
    BY <2>1, <2>2, <2>3, <2>4
<1>3. W = P(l) * (B * P(3 - l))
  <2>1. (l = 0 /\ 3 - l = 3) \/ (l = 1 /\ 3 - l = 2) \/ (l = 2 /\ 3 - l = 1) \/ (l = 3 /\ 3 - l = 0)
    OBVIOUS
  <2>2. B * (B * (B * B)) = (B * B) * (B * B) /\ B * (B * (B * B)) = (B * (B * B)) * B
    BY <1>1
  <2>3. CASE l = 0
    BY <1>1, <2>1, <2>3
  <2>4. CASE l = 1
    BY <1>1, <2>1, <2>4
  <2>5. CASE l = 2
    BY <1>1, <2>1, <2>2, <2>5
  <2>6. CASE l = 3
    BY <1>1, <2>1, <2>2, <2>6
  <2> QED
    BY <2>1, <2>3, <2>4, <2>5, <2>6
<1> QED
  BY <1>2, <1>3 DEF P, B

\* A byte of a word that is shifted to its lane.
LEMMA ShiftedByte ==
  ASSUME NEW v \in Word, NEW l \in 0..3, NEW s \in 0..l
  PROVE  ByteOf((v * ByteW^s) % W, l) = ByteOf(v, l - s)
<1> DEFINE c == ByteW^s
           u == ByteW^l
           d == ByteW^(l - s)
           M == ByteW * ByteW^(3 - l)
           x == v * c
           q == x \div W
           g == x % W
           y == v \div d
           r == v % d
<1>1. /\ u = c * d /\ W = u * M /\ c \in Nat \ {0} /\ d \in Nat \ {0} /\ u \in Nat \ {0} /\ M \in Nat
      /\ v \in Int /\ W \in Nat \ {0} /\ ByteW \in Nat \ {0}
  <2>1. s \in 0..3 /\ l - s \in 0..3 /\ 3 - l \in 0..3
    OBVIOUS
  <2>2. ByteW^s \in Nat \ {0} /\ ByteW^(l - s) \in Nat \ {0} /\ ByteW^l \in Nat \ {0} /\ ByteW^(3 - l) \in Nat \ {0}
    BY <2>1, ByteFacts
  <2>3. M \in Nat
    BY <2>2, WidthFacts
  <2> QED
    BY <2>2, <2>3, ByteSplit, WordIsNat, WidthFacts
<1> DEFINE N == ByteW^(3 - l)
<1>2. N \in Nat /\ M = ByteW * N
  <2>1. 3 - l \in 0..3
    OBVIOUS
  <2> QED
    BY <2>1, ByteFacts
<1> HIDE DEF c, u, d, M, N
<1>3. x \in Int
  BY <1>1
<1>4. y \in Int /\ r \in 0..(d - 1) /\ v = d * y + r
  BY <1>1, DivMod
<1> HIDE DEF y, r
<1>5. x = u * y + r * c /\ r * c \in 0..(u - 1)
  <2>1. v * c = (d * y) * c + r * c
    <3> DEFINE dy == d * y
    <3>1. dy \in Int /\ v = dy + r /\ r \in Int
      BY <1>1, <1>4
    <3> HIDE DEF dy
    <3>2. v * c = dy * c + r * c
      BY <1>1, <3>1
    <3> QED
      BY <3>2 DEF dy
  <2>2. (d * y) * c = (c * d) * y
    BY <1>1, <1>4
  <2>3. r * c <= (d - 1) * c /\ (d - 1) * c = c * d - c /\ r * c \in Nat /\ c * d \in Nat
    BY <1>1, <1>4
  <2> QED
    BY <1>1, <2>1, <2>2, <2>3
<1> HIDE DEF x
<1>6. q \in Int /\ g \in Int /\ x = W * q + g
  <2>1. W \in Nat \ {0}
    BY <1>1
  <2> QED
    BY <1>3, <2>1, DivMod
<1> HIDE DEF q, g
<1> DEFINE Nq == N * q
           k == y - ByteW * Nq
<1>7. Nq \in Int /\ k \in Int
  <2>1. Nq \in Int
    BY <1>2, <1>6
  <2> HIDE DEF Nq
  <2> QED
    BY <1>1, <1>4, <2>1
<1>8. g = u * k + r * c
  <2>1. W * q = u * (ByteW * Nq)
    <3>1. (u * (ByteW * N)) * q = u * (ByteW * (N * q))
      BY <1>1, <1>2, <1>6
    <3> QED
      BY <1>1, <1>2, <3>1
  <2> DEFINE z == ByteW * Nq
  <2> HIDE DEF Nq
  <2>2. z \in Int
    BY <1>1, <1>7
  <2>3. k = y - z /\ W * q = u * z
    BY <2>1
  <2> HIDE DEF z, k
  <2>4. u * k = u * y - u * z /\ u * y \in Int /\ u * z \in Int
    BY <1>1, <1>4, <2>2, <2>3
  <2> QED
    BY <1>5, <1>6, <2>3, <2>4
<1>9. g \div u = k
  <2> DEFINE z == r * c
  <2>1. z \in 0..(u - 1) /\ g = u * k + z
    BY <1>5, <1>8
  <2> HIDE DEF z, k
  <2> QED
    BY <1>1, <1>6, <1>7, <2>1, DivIs
<1>10. k % ByteW = y % ByteW
  <2> DEFINE j == -Nq
  <2>1. j \in Int /\ k = y + ByteW * j
    <3> HIDE DEF Nq
    <3> QED
      BY <1>1, <1>4, <1>7
  <2> HIDE DEF j, k
  <2> QED
    BY <1>1, <1>4, <1>7, <2>1, ModShift
<1> HIDE DEF k
<1>11. (g \div u) % ByteW = y % ByteW
  BY <1>9, <1>10
<1> QED
  BY <1>11 DEF ByteOf, g, x, u, y, c, d

\* lsu.v, data_bram.v: a store that stays inside a word changes its own bytes and no other.
THEOREM StoreIsGolden ==
  ASSUME NEW op \in Stores, NEW m, NEW a \in Word, NEW v \in Word, Fits(op, a)
  PROVE  core_store(op, m, a, v) = golden_store(op, m, a, v)
<1> DEFINE s == a % 4
           n == BytesOf(op)
           wdata == dmem_wdata(a, v)
           wen == dmem_wen(op, a)
<1>0. op \in {"sb", "sh", "sw"}
  BY DEF Stores
<1>1. n \in {1, 2, 4} /\ s \in 0..3 /\ s + n <= 4 /\ a \in Nat
  BY <1>0, WordIsNat DEF BytesOf, Fits
<1>2. ASSUME NEW l \in 0..3 PROVE l \in wen <=> l - s \in 0..(n - 1)
  <2>1. CASE op = "sb"
    <3>1. n = 1 /\ wen = {s}
      BY <2>1 DEF BytesOf, dmem_wen
    <3> HIDE DEF s, n, wen
    <3> QED
      BY <1>1, <3>1
  <2>2. CASE op = "sh"
    <3>1. n = 2 /\ wen = {s, s + 1} \cap 0..3
      BY <2>2 DEF BytesOf, dmem_wen, Lanes
    <3> HIDE DEF s, n, wen
    <3>2. l \in wen <=> l = s \/ l = s + 1
      BY <3>1
    <3>3. l - s \in 0..1 <=> l = s \/ l = s + 1
      BY <1>1
    <3>4. n - 1 = 1
      BY <3>1
    <3> QED
      BY <3>2, <3>3, <3>4
  <2>3. CASE op = "sw"
    <3>1. n = 4 /\ wen = 0..3
      BY <2>3 DEF BytesOf, dmem_wen, Lanes
    <3> HIDE DEF s, n, wen
    <3>2. s = 0
      BY <1>1, <3>1
    <3>3. l - 0 = l
      OBVIOUS
    <3>4. n - 1 = 3
      BY <3>1
    <3> QED
      BY <3>1, <3>2, <3>3, <3>4
  <2> QED
    BY <1>0, <2>1, <2>2, <2>3
<1>3. ASSUME NEW w, NEW l \in 0..3
      PROVE  ByteOf(IF l \in wen THEN wdata ELSE w, l)
             = LET k == l - s IN IF k \in 0..(n - 1) THEN ByteOf(v, k) ELSE ByteOf(w, l)
  <2>1. CASE l \in wen
    <3>1. l - s \in 0..(n - 1)
      BY <1>2, <2>1
    <3>2. s \in 0..l
      <4> HIDE DEF s, n
      <4> QED
        BY <1>1, <3>1
    <3>3. ByteOf(wdata, l) = ByteOf(v, l - s)
      <4>1. wdata = (v * ByteW^s) % W
        BY DEF dmem_wdata
      <4> HIDE DEF s, wdata
      <4> QED
        BY <3>2, <4>1, ShiftedByte
    <3> HIDE DEF s, n, wdata, wen
    <3> QED
      BY <2>1, <3>1, <3>3
  <2>2. CASE l \notin wen
    <3>1. ~(l - s \in 0..(n - 1))
      BY <1>2, <2>2
    <3> HIDE DEF s, n, wdata, wen
    <3> QED
      BY <2>2, <3>1
  <2> QED
    BY <2>1, <2>2
<1>4. ASSUME NEW w
      PROVE  Merged(w, wdata, wen)
             = FromBytes([l \in 0..3 |-> LET k == l - s IN IF k \in 0..(n - 1) THEN ByteOf(v, k) ELSE ByteOf(w, l)])
  <2>1. [l \in 0..3 |-> ByteOf(IF l \in wen THEN wdata ELSE w, l)]
        = [l \in 0..3 |-> LET k == l - s IN IF k \in 0..(n - 1) THEN ByteOf(v, k) ELSE ByteOf(w, l)]
    BY <1>3
  <2> HIDE DEF s, n, wdata, wen
  <2> QED
    BY <2>1 DEF Merged, Lanes
<1> DEFINE new(w) == FromBytes([l \in 0..3 |-> LET k == l - s IN IF k \in 0..(n - 1) THEN ByteOf(v, k) ELSE ByteOf(w, l)])
<1>5. golden_store(op, m, a, v) = IF ~IsData(a) THEN m ELSE [m EXCEPT ![a \div 4] = new(@)]
  BY DEF golden_store
<1>6. core_store(op, m, a, v) = IF ~IsData(a) THEN m ELSE [m EXCEPT ![a \div 4] = Merged(@, wdata, wen)]
  BY DEF core_store
<1>7. Merged(m[a \div 4], wdata, wen) = new(m[a \div 4])
  BY <1>4
<1> HIDE DEF new, wdata, wen
<1> QED
  BY <1>5, <1>6, <1>7

-----------------------------------------------------------------------------
(* The divider.                                                            *)

\* While it divides, the remainder is smaller than the divisor.
DividerOK(d) ==
  d \in Divider /\ (d.state = "DIVIDE" => d.count >= 1 /\ d.rem < d.b_mag)

LEMMA ResetOK == DividerOK(DividerReset) /\ \A r \in Word : DividerOK(Answer(r))
<1>1. 0 \in 0..Xlen /\ 0 \in Word
  BY XlenAssumption, WidthFacts
<1>2. DividerReset \in Divider
  BY <1>1 DEF Divider, DividerReset
<1>3. ASSUME NEW r \in Word PROVE Answer(r) \in Divider /\ Answer(r).state = "IDLE"
  BY <1>2, <1>3 DEF Divider, Answer, DividerReset
<1>4. DividerReset.state = "IDLE"
  BY DEF DividerReset
<1> QED
  BY <1>2, <1>3, <1>4 DEF DividerOK

LEMMA NegatedFacts ==
  ASSUME NEW a \in Word
  PROVE  Negated(a) \in Word /\ (a # 0 => Negated(a) = W - a)
<1>1. W \in Nat \ {0} /\ a \in 0..(W - 1)
  BY WidthFacts DEF Word
<1>2. Negated(a) \in Word
  BY <1>1, ModIsWord DEF Negated
<1>3. a # 0 => (W - a) % W = W - a
  BY <1>1
<1> QED
  BY <1>2, <1>3 DEF Negated

LEMMA MagnitudeFacts ==
  ASSUME NEW a \in Word, NEW signed
  PROVE  Magnitude(signed, a) \in Word /\ (a # 0 => Magnitude(signed, a) > 0)
<1>1. a \in 0..(W - 1) /\ W \in Nat
  BY WidthFacts DEF Word
<1> QED
  BY <1>1, NegatedFacts DEF Magnitude

\* Bits in front of the first one.
LEMMA ClzFacts ==
  ASSUME NEW a \in Word, a > 0
  PROVE  /\ clz(a) \in 0..(Xlen - 1)
         /\ a < Pow(Xlen - clz(a)) /\ a >= Pow(Xlen - clz(a) - 1)
<1> DEFINE S == {m \in 0..Xlen : a < Pow(m)}
           Is(n) == a < 2^(Xlen - n) /\ (n = Xlen \/ a >= 2^(Xlen - n - 1))
<1>0. Xlen \in Nat /\ Xlen <= 32
  BY XlenAssumption
<1>1. PICK m \in S : \A k \in S : m <= k
  <2>1. S \in SUBSET Nat
    BY <1>0
  <2>2. Xlen \in S
    BY <1>0, WordIsNat, Powers DEF Word
  <2> HIDE DEF S
  <2> QED
    BY <2>1, <2>2, Least
<1>2. m \in 0..Xlen /\ a < Pow(m)
  OBVIOUS
<1>3. m # 0
  BY <1>2, Powers, WordIsNat
<1>4. a >= Pow(m - 1)
  <2>1. m - 1 \in 0..Xlen /\ m - 1 \notin S
    BY <1>0, <1>1, <1>2, <1>3
  <2>2. ~(a < Pow(m - 1))
    BY <2>1
  <2>3. Pow(m - 1) \in Nat /\ a \in Nat
    BY <1>0, <2>1, Powers, WordIsNat
  <2> QED
    BY <2>2, <2>3
<1>5. Xlen - m \in 0..Xlen /\ Is(Xlen - m)
  <2>1. Xlen - (Xlen - m) = m /\ Xlen - (Xlen - m) - 1 = m - 1 /\ Xlen - m \in 0..Xlen
    BY <1>0, <1>2
  <2>2. a < Pow(Xlen - (Xlen - m)) /\ a >= Pow(Xlen - (Xlen - m) - 1)
    BY <1>2, <1>4, <2>1
  <2> QED
    BY <2>1, <2>2 DEF Pow
<1>6. clz(a) \in 0..Xlen /\ Is(clz(a))
  <2>1. clz(a) = CHOOSE n \in 0..Xlen : Is(n)
    BY DEF clz
  <2> HIDE DEF Is
  <2> QED
    BY <1>5, <2>1
<1>7. clz(a) # Xlen
  <2>1. ASSUME clz(a) = Xlen PROVE FALSE
    <3>1. a < Pow(Xlen - Xlen)
      BY <1>6, <2>1 DEF Pow
    <3>2. Xlen - Xlen = 0
      BY <1>0
    <3> QED
      BY <3>1, <3>2, Powers, WordIsNat
  <2> QED
    BY <2>1
<1>8. clz(a) \in 0..(Xlen - 1)
  BY <1>0, <1>6, <1>7
<1> QED
  BY <1>6, <1>7, <1>8 DEF Pow

LEMMA BeginOK ==
  ASSUME NEW op, NEW a \in Word, NEW b \in Word
  PROVE  DividerOK(div_begin(op, a, b))
<1> DEFINE signed == op \in {"div", "rem"}
           a_mag == Magnitude(signed, a)
           b_mag == Magnitude(signed, b)
           d == [DividerReset EXCEPT
                   !.state = "DIVIDE", !.b_mag = b_mag, !.is_rem = op \in {"rem", "remu"},
                   !.divd = (a_mag * 2^clz(a_mag)) % W, !.count = Xlen - clz(a_mag),
                   !.sign_quo = signed /\ ((a >= IMIN) # (b >= IMIN)),
                   !.sign_rem = signed /\ a >= IMIN]
<1>1. a_mag \in Word /\ b_mag \in Word /\ (b # 0 => b_mag > 0)
  BY MagnitudeFacts
<1>2. ASSUME b # 0, ~(b_mag > a_mag) PROVE DividerOK(d)
  <2> HIDE DEF a_mag, b_mag
  <2>1. a_mag > 0
    BY <1>1, <1>2, WordIsNat
  <2>2. clz(a_mag) \in 0..(Xlen - 1) /\ Xlen \in Nat /\ Xlen <= 32
    BY <1>1, <2>1, ClzFacts, XlenAssumption
  <2>3. Xlen - clz(a_mag) \in 0..Xlen /\ Xlen - clz(a_mag) >= 1
    BY <2>2
  <2>4. (a_mag * 2^clz(a_mag)) % W \in Word
    <3>1. Pow(clz(a_mag)) \in Int /\ a_mag \in Int
      <4>1. clz(a_mag) \in 0..32
        BY <2>2
      <4>2. Pow(clz(a_mag)) \in Nat \ {0}
        BY <4>1, Powers
      <4> QED
        BY <1>1, <4>2, WordIsNat
    <3>2. a_mag * Pow(clz(a_mag)) \in Int
      BY <3>1
    <3>3. (a_mag * Pow(clz(a_mag))) % W \in Word
      BY <3>2, ModIsWord
    <3> QED
      BY <3>3 DEF Pow
  <2> DEFINE c == Xlen - clz(a_mag)
             v == (a_mag * 2^clz(a_mag)) % W
  <2>5. c \in 0..Xlen /\ c >= 1 /\ v \in Word /\ 0 \in Word
    BY <2>3, <2>4, WidthFacts
  <2> HIDE DEF c, v, signed
  <2>6. d = [DividerReset EXCEPT
               !.state = "DIVIDE", !.b_mag = b_mag, !.is_rem = op \in {"rem", "remu"},
               !.divd = v, !.count = c,
               !.sign_quo = signed /\ ((a >= IMIN) # (b >= IMIN)),
               !.sign_rem = signed /\ a >= IMIN]
    BY DEF c, v
  <2> DEFINE p == op \in {"rem", "remu"}
             q == signed /\ ((a >= IMIN) # (b >= IMIN))
             r == signed /\ a >= IMIN
  <2>7. p \in BOOLEAN /\ q \in BOOLEAN /\ r \in BOOLEAN
    OBVIOUS
  <2> HIDE DEF p, q, r
  <2>8. d = [DividerReset EXCEPT !.state = "DIVIDE", !.b_mag = b_mag, !.is_rem = p,
                                 !.divd = v, !.count = c, !.sign_quo = q, !.sign_rem = r]
    BY <2>6 DEF p, q, r
  <2> HIDE DEF d
  <2>9. d \in Divider
    BY <1>1, <2>5, <2>7, <2>8 DEF DividerReset, Divider
  <2>10. d.count >= 1 /\ d.rem = 0 /\ d.b_mag = b_mag
    BY <2>5, <2>8 DEF DividerReset
  <2> QED
    BY <1>1, <1>2, <2>9, <2>10 DEF DividerOK
<1>3. 0 \in Word /\ W - 1 \in Word /\ IMIN \in Word
  BY WidthFacts DEF Word
<1> HIDE DEF a_mag, b_mag, d
<1>4. \A r \in {a, W - 1, 0, IMIN} : DividerOK(Answer(r))
  BY <1>3, ResetOK
<1> QED
  BY <1>2, <1>4, Zenon DEF div_begin, a_mag, b_mag, d

\* One bit of the quotient.
LEMMA StepOK ==
  ASSUME NEW d, DividerOK(d), d.state = "DIVIDE"
  PROVE  DividerOK(div_step(d))
<1> DEFINE part == 2 * d.rem + (d.divd \div IMIN)
           fits == part >= d.b_mag
           rem  == IF fits THEN part - d.b_mag ELSE part
           quo  == (2 * d.quo + Flag(fits)) % W
           divd == (2 * d.divd) % W
           next == IF d.count = 1 THEN "FINISH" ELSE "DIVIDE"
           count == d.count - 1
<1>1. d \in Divider /\ d.count >= 1 /\ d.rem < d.b_mag
  BY DEF DividerOK
<1>2. d.rem \in Word /\ d.divd \in Word /\ d.b_mag \in Word /\ d.quo \in Word /\ d.count \in 0..Xlen
  BY <1>1 DEF Divider
<1>3. W \in Nat /\ IMIN \in Nat \ {0} /\ W = 2 * IMIN
  BY WidthFacts
<1>4. d.divd \div IMIN \in {0, 1}
  <2> DEFINE q == d.divd \div IMIN
             r == d.divd % IMIN
  <2>1. q \in Nat /\ r \in 0..(IMIN - 1) /\ d.divd = IMIN * q + r
    BY <1>2, <1>3, DivMod, DivIsSmaller, WordIsNat
  <2> HIDE DEF q, r
  <2>2. ASSUME q >= 2 PROVE FALSE
    <3>1. IMIN * q >= 2 * IMIN
      BY <1>3, <2>1, <2>2
    <3>2. IMIN * q \in Int
      BY <1>3, <2>1
    <3> QED
      BY <1>2, <1>3, <2>1, <3>1, <3>2 DEF Word
  <2>3. q \in {0, 1}
    BY <2>1, <2>2
  <2> QED
    BY <2>3 DEF q
<1>5. rem \in Word /\ rem < d.b_mag
  <2> DEFINE t == d.divd \div IMIN
  <2>1. t \in {0, 1}
    BY <1>4
  <2> HIDE DEF t
  <2> QED
    BY <1>1, <1>2, <1>3, <2>1 DEF Word, t
<1>6. quo \in Word /\ divd \in Word
  <2>0. Flag(fits) \in Word
    BY FlagIsWord
  <2> DEFINE x == Flag(fits)
  <2>1. x \in Int /\ d.quo \in Int /\ d.divd \in Int
    BY <1>2, <2>0, WordIsNat
  <2> HIDE DEF x
  <2>2. 2 * d.quo + x \in Int /\ 2 * d.divd \in Int
    BY <2>1
  <2> QED
    BY <2>2, ModIsWord DEF x
<1>7. d.count - 1 \in 0..Xlen /\ (d.count # 1 => d.count - 1 >= 1)
  BY <1>1, <1>2, XlenAssumption
<1>8. div_step(d) = [d EXCEPT !.rem = rem, !.quo = quo, !.divd = divd, !.count = count, !.state = next]
  BY DEF div_step
<1>9. next \in {"DIVIDE", "FINISH"} /\ (next = "DIVIDE" => d.count # 1)
  OBVIOUS
<1> HIDE DEF rem, quo, divd, next
<1>10. div_step(d) \in Divider
  <2>1. count \in 0..Xlen
    BY <1>7
  <2> HIDE DEF count
  <2> QED
    BY <1>1, <1>5, <1>6, <1>8, <1>9, <2>1 DEF Divider
<1>11. /\ div_step(d).rem = rem /\ div_step(d).b_mag = d.b_mag /\ div_step(d).state = next
       /\ div_step(d).count = count
  BY <1>1, <1>8 DEF Divider
<1> QED
  BY <1>1, <1>5, <1>7, <1>9, <1>10, <1>11 DEF DividerOK

LEMMA FinishOK ==
  ASSUME NEW d, DividerOK(d)
  PROVE  DividerOK(div_finish(d))
<1>1. d.rem \in Word /\ d.quo \in Word
  BY DEF DividerOK, Divider
<1>2. Negated(d.rem) \in Word /\ Negated(d.quo) \in Word
  BY <1>1, NegatedFacts
<1> QED
  BY <1>1, <1>2, ResetOK DEF div_finish

LEMMA DividerStaysOK ==
  ASSUME NEW d, DividerOK(d), NEW start, NEW op, NEW a \in Word, NEW b \in Word
  PROVE  DividerOK(divider(d, start, op, a, b))
<1>1. d.state \in {"IDLE", "DIVIDE", "FINISH"}
  BY DEF DividerOK, Divider
<1>2. CASE d.state = "DIVIDE"
  BY <1>2, StepOK DEF divider
<1>3. CASE d.state = "FINISH"
  BY <1>3, FinishOK DEF divider
<1>4. CASE d.state = "IDLE"
  BY <1>4, BeginOK, ResetOK DEF divider
<1> QED
  BY <1>1, <1>2, <1>3, <1>4

-----------------------------------------------------------------------------
(* Its answer is the quotient or the remainder.                            *)

\* The first of the bits still to come, and the others.
LEMMA TopBit ==
  ASSUME NEW p \in Nat \ {0}, NEW r \in Nat \ {0}, p * r = IMIN, NEW low \in Nat, low < 2 * p
  PROVE  LET bit == (low * r) \div IMIN
         IN  /\ bit \in {0, 1} /\ low - bit * p \in 0..(p - 1)
             /\ (2 * (low * r)) % W = (low - bit * p) * (2 * r)
<1> DEFINE bit  == IF low < p THEN 0 ELSE 1
           rest == low - bit * p
<1>1. bit \in {0, 1} /\ rest \in 0..(p - 1) /\ low = bit * p + rest
  OBVIOUS
<1>2. IMIN \in Nat \ {0} /\ W = 2 * IMIN
  BY WidthFacts
<1> HIDE DEF bit, rest
<1>3. low * r = IMIN * bit + rest * r
  <2>1. low * r = (bit * p) * r + rest * r
    BY <1>1
  <2>2. (bit * p) * r = bit * IMIN
    BY <1>1
  <2> QED
    BY <1>1, <1>2, <2>1, <2>2
<1>4. rest * r \in 0..(IMIN - 1)
  <2>1. rest * r <= (p - 1) * r
    BY <1>1
  <2>2. (p - 1) * r = IMIN - r
    OBVIOUS
  <2>3. rest * r \in Nat /\ (p - 1) * r \in Int
    BY <1>1
  <2> QED
    BY <1>2, <2>1, <2>2, <2>3
<1>5. (low * r) \div IMIN = bit
  BY <1>1, <1>2, <1>3, <1>4, DivIs
<1>6. (2 * (low * r)) % W = rest * (2 * r)
  <2>1. 2 * (low * r) = W * bit + 2 * (rest * r) /\ 2 * (rest * r) \in 0..(W - 1)
    BY <1>1, <1>2, <1>3, <1>4
  <2>2. W \in Nat \ {0} /\ 2 * (low * r) \in Int /\ bit \in Int
    BY <1>1, <1>2
  <2>3. (2 * (low * r)) % W = 2 * (rest * r)
    BY <2>1, <2>2, DivIs
  <2>4. 2 * (rest * r) = rest * (2 * r)
    BY <1>1
  <2> QED
    BY <2>3, <2>4
<1> QED
  BY <1>1, <1>5, <1>6 DEF rest

\* The division of the magnitudes with the bits below count still to come.
IsSigned(op) == op \in {"div", "rem"}
IsRem(op)    == op \in {"rem", "remu"}
Dividing(d, op, a, b) ==
  LET a_mag == Magnitude(IsSigned(op), a)
      b_mag == Magnitude(IsSigned(op), b)
  IN  /\ b # 0 /\ d.b_mag = b_mag /\ d.rem < b_mag
      /\ d.is_rem = IsRem(op)
      /\ d.sign_quo = (IsSigned(op) /\ ((a >= IMIN) # (b >= IMIN)))
      /\ d.sign_rem = (IsSigned(op) /\ a >= IMIN)
      /\ \E low \in 0..(Pow(d.count) - 1) :
           d.divd = low * Pow(Xlen - d.count) /\ a_mag = (d.quo * b_mag + d.rem) * Pow(d.count) + low

Divides(d, op, a, b) ==
  CASE d.state = "DIVIDE" -> ~d.done /\ Dividing(d, op, a, b)
    [] d.state = "FINISH" -> ~d.done /\ d.count = 0 /\ Dividing(d, op, a, b)
    [] d.state = "IDLE"   -> d.done /\ d.result = golden_div(op, a, b)

LEMMA StepDivides ==
  ASSUME NEW op, NEW a \in Word, NEW b \in Word, NEW d, DividerOK(d), d.state = "DIVIDE", Divides(d, op, a, b)
  PROVE  Divides(div_step(d), op, a, b)
<1> DEFINE c     == d.count
           p     == Pow(c - 1)
           r     == Pow(Xlen - c)
           B     == d.b_mag
           A     == Magnitude(IsSigned(op), a)
           bit   == d.divd \div IMIN
           part  == 2 * d.rem + bit
           fits  == part >= B
           rem   == IF fits THEN part - B ELSE part
           q     == 2 * d.quo + Flag(fits)
           next  == IF d.count = 1 THEN "FINISH" ELSE "DIVIDE"
<1>1. d \in Divider /\ c \in 1..Xlen /\ Xlen \in Nat /\ Xlen <= 32
  BY XlenAssumption DEF DividerOK, Divider
<1>2. d.rem \in Nat /\ d.quo \in Nat /\ B \in Nat \ {0} /\ d.rem < B /\ d.divd \in Nat
  <2>1. d.rem \in Word /\ d.quo \in Word /\ B \in Word /\ d.divd \in Word /\ d.rem < B
    BY <1>1 DEF DividerOK, Divider
  <2> QED
    BY <2>1, WidthFacts DEF Word
<1>3. p \in Nat \ {0} /\ r \in Nat \ {0} /\ p * r = IMIN /\ Pow(c) = 2 * p /\ Pow(Xlen - (c - 1)) = 2 * r
  <2>1. c - 1 \in 0..32 /\ Xlen - c \in 0..32 /\ c \in 1..32 /\ Xlen \in 1..32 /\ Xlen - (c - 1) \in 1..32
    BY <1>1
  <2>2. p \in Nat \ {0} /\ r \in Nat \ {0} /\ Pow(c) = 2 * p
    BY <2>1, Powers
  <2>3. Pow(Xlen - (c - 1)) = 2 * Pow((Xlen - (c - 1)) - 1) /\ (Xlen - (c - 1)) - 1 = Xlen - c
    <3> DEFINE n == Xlen - (c - 1)
    <3>1. n \in 1..32 /\ n - 1 = Xlen - c
      BY <1>1, <2>1
    <3> HIDE DEF n
    <3>2. Pow(n) = 2 * Pow(n - 1)
      BY <3>1, Powers
    <3> QED
      BY <3>1, <3>2 DEF n
  <2>4. Pow(Xlen) = W /\ Pow(Xlen) = 2 * Pow(Xlen - 1)
    BY <2>1, Powers
  <2>5. c - 1 \in 0..(32 - (Xlen - c)) /\ (c - 1) + (Xlen - c) = Xlen - 1
    BY <1>1
  <2>6. Pow(Xlen - 1) = p * r
    BY <2>1, <2>5, PowerProduct
  <2>7. Pow(Xlen - 1) \in Nat
    <3>1. Xlen - 1 \in 0..32
      BY <2>1
    <3> QED
      BY <3>1, Powers
  <2>8. p * r = IMIN
    <3> DEFINE h == Pow(Xlen - 1)
    <3> HIDE DEF h, p, r
    <3>1. h \in Nat /\ W = 2 * h /\ h = p * r
      BY <2>4, <2>6, <2>7 DEF h
    <3> QED
      BY <3>1, WidthFacts
  <2> QED
    BY <2>2, <2>3, <2>8
<1>4. Dividing(d, op, a, b) /\ ~d.done /\ B = Magnitude(IsSigned(op), b)
  BY DEF Divides, Dividing
<1>5. PICK low \in 0..(Pow(c) - 1) : d.divd = low * r /\ A = (d.quo * B + d.rem) * Pow(c) + low
  BY <1>4 DEF Dividing
<1>6. A \in Nat /\ A < W
  BY MagnitudeFacts, WidthFacts DEF Word
<1> DEFINE rest == low - bit * p
<1>7. bit \in {0, 1} /\ rest \in 0..(p - 1) /\ (2 * d.divd) % W = rest * (2 * r)
  <2>1. low \in Nat /\ low < 2 * p
    BY <1>3, <1>5
  <2> HIDE DEF p, r
  <2> QED
    BY <1>3, <1>5, <2>1, TopBit
<1>8. Flag(fits) \in {0, 1} /\ rem \in Nat /\ rem < B /\ part = Flag(fits) * B + rem
  <2> HIDE DEF bit
  <2>1. part \in Nat
    BY <1>2, <1>7
  <2>2. CASE fits
    BY <1>2, <1>7, <2>1, <2>2 DEF Flag
  <2>3. CASE ~fits
    BY <1>2, <1>7, <2>1, <2>3 DEF Flag
  <2> QED
    BY <2>2, <2>3
<1>9. q \in Nat /\ A = (q * B + rem) * p + rest
  <2> DEFINE f == Flag(fits)
             x == d.quo * B
  <2> HIDE DEF bit, p, fits, rem, B, A, part
  <2>0. f \in {0, 1} /\ f * B \in Nat /\ x \in Nat /\ low = bit * p + rest
    BY <1>2, <1>3, <1>5, <1>7, <1>8
  <2> HIDE DEF f, x, rest
  <2>1. q = 2 * d.quo + f
    BY DEF f
  <2>2. q \in Nat /\ q * B = 2 * x + f * B
    <3>1. (2 * d.quo + f) * B = 2 * (d.quo * B) + f * B
      <4>1. d.quo \in Nat /\ B \in Nat /\ f \in Nat
        BY <1>2, <2>0
      <4> QED
        BY <4>1
    <3> QED
      BY <1>2, <2>0, <2>1, <3>1 DEF x
  <2>3. q * B + rem = 2 * x + part /\ part = 2 * d.rem + bit
    BY <1>2, <1>8, <2>0, <2>2 DEF f, part
  <2>4. A = (x + d.rem) * (2 * p) + low
    BY <1>3, <1>5 DEF x
  <2>5. (x + d.rem) * (2 * p) = (2 * x + 2 * d.rem) * p
    BY <1>2, <1>3, <2>0
  <2>6. (2 * x + 2 * d.rem) * p + bit * p = (2 * x + 2 * d.rem + bit) * p
    BY <1>2, <1>3, <1>7, <2>0
  <2>7. A = (2 * x + 2 * d.rem) * p + bit * p + rest
    <3>1. (x + d.rem) * (2 * p) \in Int /\ bit * p \in Int /\ rest \in Int
      BY <1>2, <1>3, <1>7, <2>0
    <3> QED
      BY <2>0, <2>4, <2>5, <3>1
  <2>8. 2 * x + 2 * d.rem + bit = q * B + rem
    BY <1>2, <1>7, <2>0, <2>3
  <2> QED
    BY <2>2, <2>6, <2>7, <2>8
<1>10. q < W
  <2> HIDE DEF bit, p, fits, rem, B, A, part, q, rest
  <2>1. q * B >= q
    BY <1>2, <1>9
  <2>2. q * B \in Nat
    BY <1>2, <1>9
  <2>3. (q * B + rem) * p >= q * B + rem
    BY <1>3, <1>8, <2>2
  <2>4. (q * B + rem) * p \in Nat
    BY <1>3, <1>8, <2>2
  <2> QED
    BY <1>6, <1>7, <1>8, <1>9, <2>1, <2>2, <2>3, <2>4, WidthFacts
<1>11. q % W = q
  <2> HIDE DEF q
  <2> QED
    BY <1>9, <1>10, ModSmall, WidthFacts
<1> DEFINE e == div_step(d)
<1>12. e = [d EXCEPT !.rem = rem, !.quo = q % W, !.divd = (2 * d.divd) % W, !.count = c - 1, !.state = next]
  BY DEF div_step
<1>13. /\ e.rem = rem /\ e.quo = q /\ e.divd = rest * Pow(Xlen - (c - 1)) /\ e.count = c - 1
       /\ e.state = next /\ e.b_mag = B /\ e.is_rem = d.is_rem /\ e.done = d.done
       /\ e.sign_quo = d.sign_quo /\ e.sign_rem = d.sign_rem
  <2> DEFINE q2 == q % W
             v2 == (2 * d.divd) % W
             c2 == c - 1
  <2>1. q2 = q /\ v2 = rest * Pow(Xlen - (c - 1))
    BY <1>3, <1>7, <1>11
  <2>2. e = [d EXCEPT !.rem = rem, !.quo = q2, !.divd = v2, !.count = c2, !.state = next]
    BY <1>12
  <2> HIDE DEF e, rem, next, q2, v2, c2, q, rest
  <2>3. /\ e.rem = rem /\ e.quo = q2 /\ e.divd = v2 /\ e.count = c2
        /\ e.state = next /\ e.b_mag = d.b_mag /\ e.is_rem = d.is_rem /\ e.done = d.done
        /\ e.sign_quo = d.sign_quo /\ e.sign_rem = d.sign_rem
    BY <1>1, <2>2 DEF Divider
  <2> QED
    BY <2>1, <2>3 DEF c2
<1>14. Dividing(e, op, a, b)
  <2>1. rest \in 0..(Pow(e.count) - 1) /\ e.divd = rest * Pow(Xlen - e.count)
        /\ A = (e.quo * B + e.rem) * Pow(e.count) + rest
    BY <1>7, <1>9, <1>13
  <2> HIDE DEF e, rest, rem, q, next, A
  <2>2. \E l \in 0..(Pow(e.count) - 1) :
           e.divd = l * Pow(Xlen - e.count) /\ A = (e.quo * B + e.rem) * Pow(e.count) + l
    BY <2>1
  <2>3. /\ b # 0 /\ d.is_rem = IsRem(op)
        /\ d.sign_quo = (IsSigned(op) /\ ((a >= IMIN) # (b >= IMIN)))
        /\ d.sign_rem = (IsSigned(op) /\ a >= IMIN)
    BY <1>4 DEF Dividing
  <2> QED
    BY <1>4, <1>8, <1>13, <2>2, <2>3 DEF Dividing, A
<1>15. next = "DIVIDE" \/ (next = "FINISH" /\ c - 1 = 0)
  BY <1>1
<1> HIDE DEF e, next
<1> QED
  BY <1>4, <1>13, <1>14, <1>15 DEF Divides, e

\* A word as a signed number, by its sign and its magnitude.
LEMMA SignAndMagnitude ==
  ASSUME NEW a \in Word, NEW signed \in BOOLEAN, signed, NEW m, m = Magnitude(signed, a)
  PROVE  /\ Signed(a) \in Int /\ m \in Nat /\ m < W /\ (a # 0 => m # 0)
         /\ Abs(Signed(a)) = m
         /\ IF a >= IMIN THEN Signed(a) < 0 /\ Signed(a) = -m
                         ELSE Signed(a) >= 0 /\ Signed(a) = m
<1>1. a \in 0..(W - 1) /\ W \in Nat /\ W = 2 * IMIN /\ IMIN \in Nat /\ IMIN >= 128
  BY WidthFacts DEF Word
<1>2. CASE a >= IMIN
  <2>1. Negated(a) = W - a
    BY <1>1, <1>2, NegatedFacts
  <2>2. m = W - a /\ Signed(a) = a - W
    BY <1>2, <2>1 DEF Magnitude, Signed
  <2>3. Abs(Signed(a)) = W - a
    BY <1>1, <2>2 DEF Abs
  <2>4. a - W \in Int /\ a - W < 0 /\ a - W = -(W - a) /\ W - a \in Nat /\ W - a < W /\ W - a # 0
    BY <1>1, <1>2
  <2> QED
    BY <1>2, <2>2, <2>3, <2>4
<1>3. CASE ~(a >= IMIN)
  <2>1. m = a /\ Signed(a) = a
    BY <1>3 DEF Magnitude, Signed
  <2>2. Abs(Signed(a)) = a
    BY <1>1, <2>1 DEF Abs
  <2>3. a \in Nat /\ a \in Int /\ a < W /\ a >= 0
    BY <1>1
  <2> QED
    BY <1>3, <2>1, <2>2, <2>3
<1> QED
  BY <1>2, <1>3

\* The division of the magnitudes gives the quotient and the remainder.
LEMMA GoldenIs ==
  ASSUME NEW op \in DivOps, NEW a \in Word, NEW b \in Word, b # 0, NEW q \in Nat, NEW m \in Nat,
         m < Magnitude(IsSigned(op), b),
         Magnitude(IsSigned(op), a) = q * Magnitude(IsSigned(op), b) + m
  PROVE  golden_div(op, a, b) =
           (IF IsRem(op) THEN IF IsSigned(op) /\ a >= IMIN THEN -m ELSE m
            ELSE IF IsSigned(op) /\ ((a >= IMIN) # (b >= IMIN)) THEN -q ELSE q) % W
<1>0. op \in {"div", "divu", "rem", "remu"}
  BY DEF DivOps
<1>1. a \in 0..(W - 1) /\ b \in 1..(W - 1) /\ W \in Nat
  BY WidthFacts DEF Word
<1>2. CASE op \in {"div", "rem"}
  <2> DEFINE A == Magnitude(IsSigned(op), a)
             B == Magnitude(IsSigned(op), b)
             s == Signed(a)
             t == Signed(b)
  <2>1. A = q * B + m /\ m < B /\ IsSigned(op) /\ (IsRem(op) <=> op = "rem")
    BY <1>2 DEF IsSigned, IsRem
  <2>2. /\ s \in Int /\ t \in Int /\ A \in Nat /\ B \in Nat \ {0} /\ Abs(s) = A /\ Abs(t) = B
        /\ (s < 0 <=> a >= IMIN) /\ (t < 0 <=> b >= IMIN)
        /\ s = (IF a >= IMIN THEN -A ELSE A) /\ t = (IF b >= IMIN THEN -B ELSE B)
    <3>1. B # 0 /\ A \in Nat /\ B \in Nat
      BY <1>1, <2>1, SignAndMagnitude
    <3> QED
      <4>1. Abs(s) = A /\ IF a >= IMIN THEN s < 0 /\ s = -A ELSE s >= 0 /\ s = A
        BY <2>1, SignAndMagnitude
      <4>2. Abs(t) = B /\ IF b >= IMIN THEN t < 0 /\ t = -B ELSE t >= 0 /\ t = B
        BY <2>1, SignAndMagnitude
      <4> HIDE DEF A, B, s, t
      <4> QED
        BY <3>1, <4>1, <4>2
  <2> HIDE DEF A, B, s, t
  <2>3. A \div B = q
    <3>1. A = B * q + m /\ m \in 0..(B - 1)
      BY <2>1, <2>2
    <3> QED
      BY <2>2, <3>1, DivIs
  <2>4. Quotient(s, t) = IF (a >= IMIN) # (b >= IMIN) THEN -q ELSE q
    BY <2>2, <2>3 DEF Quotient
  <2>5. Remainder(s, t) = IF a >= IMIN THEN -m ELSE m
    <3> DEFINE x == q * B
    <3>1. x \in Nat /\ B * q = x
      BY <2>2
    <3>2. t * Quotient(s, t) = IF a >= IMIN THEN -x ELSE x
      <4>1. CASE a >= IMIN /\ b >= IMIN
        <5>1. t = -B /\ Quotient(s, t) = q
          BY <2>2, <2>4, <4>1
        <5> QED
          BY <2>2, <4>1, <5>1
      <4>2. CASE a >= IMIN /\ ~(b >= IMIN)
        <5>1. t = B /\ Quotient(s, t) = -q
          BY <2>2, <2>4, <4>2
        <5> QED
          BY <2>2, <4>2, <5>1
      <4>3. CASE ~(a >= IMIN) /\ b >= IMIN
        <5>1. t = -B /\ Quotient(s, t) = -q
          BY <2>2, <2>4, <4>3
        <5> QED
          BY <2>2, <4>3, <5>1
      <4>4. CASE ~(a >= IMIN) /\ ~(b >= IMIN)
        <5>1. t = B /\ Quotient(s, t) = q
          BY <2>2, <2>4, <4>4
        <5> QED
          BY <2>2, <4>4, <5>1
      <4> QED
        BY <4>1, <4>2, <4>3, <4>4
    <3>3. A = x + m
      BY <2>1
    <3> HIDE DEF x
    <3> QED
      BY <2>2, <3>1, <3>2, <3>3 DEF Remainder
  <2>6. CASE op = "div"
    <3>1. golden_div(op, a, b) = Quotient(s, t) % W
      BY <1>1, <2>6 DEF golden_div, s, t
    <3>2. ~IsRem(op)
      BY <2>6 DEF IsRem
    <3> QED
      BY <2>1, <2>4, <3>1, <3>2
  <2>7. CASE op = "rem"
    <3>1. golden_div(op, a, b) = Remainder(s, t) % W
      BY <1>1, <2>7 DEF golden_div, s, t
    <3> QED
      BY <2>1, <2>5, <2>7, <3>1
  <2> QED
    BY <1>2, <2>6, <2>7
<1>3. CASE op \in {"divu", "remu"}
  <2>1. ~IsSigned(op) /\ (IsRem(op) <=> op = "remu")
    BY <1>3 DEF IsSigned, IsRem
  <2>2. a = q * b + m /\ m < b
    BY <2>1 DEF Magnitude
  <2>3. a \div b = q /\ a % b = m
    <3>1. a = b * q + m /\ m \in 0..(b - 1)
      BY <1>1, <2>2
    <3> QED
      BY <1>1, <3>1, DivIs
  <2>4. q \in Word /\ m \in Word
    <3>1. q <= a
      BY <1>1, <2>3, DivIsSmaller
    <3> QED
      BY <1>1, <2>2, <3>1 DEF Word
  <2>5. golden_div(op, a, b) = IF op = "remu" THEN m ELSE q
    BY <1>1, <1>3, <2>3 DEF golden_div
  <2> QED
    BY <2>1, <2>4, <2>5, WordItself
<1> QED
  BY <1>0, <1>2, <1>3

LEMMA NegatedIs == ASSUME NEW x \in Word PROVE Negated(x) = (-x) % W
<1>1. W - x = -x + W * 1 /\ W - x \in Int /\ -x \in Int /\ W \in Nat \ {0} /\ 1 \in Int
  BY WidthFacts DEF Word
<1>2. (W - x) % W = (-x) % W
  BY <1>1, ModShift
<1> QED
  BY <1>2 DEF Negated

LEMMA AnswerFacts ==
  ASSUME NEW r
  PROVE  Answer(r).state = "IDLE" /\ Answer(r).done /\ Answer(r).result = r
BY DEF Answer, DividerReset

LEMMA FinishDivides ==
  ASSUME NEW op \in DivOps, NEW a \in Word, NEW b \in Word, NEW d, DividerOK(d), d.state = "FINISH",
         Divides(d, op, a, b)
  PROVE  Divides(div_finish(d), op, a, b)
<1> DEFINE A == Magnitude(IsSigned(op), a)
           B == Magnitude(IsSigned(op), b)
<1>1. d.rem \in Word /\ d.quo \in Word /\ d.rem \in Nat /\ d.quo \in Nat
  BY WordIsNat DEF DividerOK, Divider
<1>2. d.count = 0 /\ Dividing(d, op, a, b)
  BY DEF Divides
<1>3. b # 0 /\ d.rem < B /\ A = d.quo * B + d.rem
  <2>1. PICK low \in 0..(Pow(d.count) - 1) : A = (d.quo * B + d.rem) * Pow(d.count) + low
    BY <1>2 DEF Dividing
  <2>2. Pow(d.count) = 1
    BY <1>2, Powers
  <2>3. d.quo * B + d.rem \in Int
    <3>1. B \in Nat
      BY MagnitudeFacts, WordIsNat
    <3> QED
      BY <1>1, <3>1
  <2> QED
    BY <1>2, <2>1, <2>2, <2>3 DEF Dividing
<1>4. golden_div(op, a, b) =
           (IF IsRem(op) THEN IF IsSigned(op) /\ a >= IMIN THEN -d.rem ELSE d.rem
            ELSE IF IsSigned(op) /\ ((a >= IMIN) # (b >= IMIN)) THEN -d.quo ELSE d.quo) % W
  BY <1>1, <1>3, GoldenIs
<1>5. /\ d.is_rem = IsRem(op) /\ d.sign_quo = (IsSigned(op) /\ ((a >= IMIN) # (b >= IMIN)))
      /\ d.sign_rem = (IsSigned(op) /\ a >= IMIN)
  BY <1>2 DEF Dividing
<1> DEFINE r == IF d.is_rem THEN IF d.sign_rem THEN Negated(d.rem) ELSE d.rem
                ELSE IF d.sign_quo THEN Negated(d.quo) ELSE d.quo
<1>6. r = golden_div(op, a, b)
  <2>1. Negated(d.rem) = (-d.rem) % W /\ Negated(d.quo) = (-d.quo) % W
        /\ d.rem % W = d.rem /\ d.quo % W = d.quo
    BY <1>1, NegatedIs, WordItself
  <2> QED
    BY <1>4, <1>5, <2>1
<1>7. div_finish(d) = Answer(r)
  BY DEF div_finish
<1> HIDE DEF r
<1> QED
  BY <1>6, <1>7, AnswerFacts DEF Divides

LEMMA BeginDivides ==
  ASSUME NEW op \in DivOps, NEW a \in Word, NEW b \in Word
  PROVE  Divides(div_begin(op, a, b), op, a, b)
<1> DEFINE signed == op \in {"div", "rem"}
           is_rem == op \in {"rem", "remu"}
           A      == Magnitude(signed, a)
           B      == Magnitude(signed, b)
           d == [DividerReset EXCEPT
                   !.state = "DIVIDE", !.b_mag = B, !.is_rem = is_rem,
                   !.divd = (A * 2^clz(A)) % W, !.count = Xlen - clz(A),
                   !.sign_quo = signed /\ ((a >= IMIN) # (b >= IMIN)),
                   !.sign_rem = signed /\ a >= IMIN]
<1>0. IsSigned(op) = signed /\ IsRem(op) = is_rem
  BY DEF IsSigned, IsRem
<1>1. /\ A \in Nat /\ A < W /\ B \in Nat /\ (b # 0 => B > 0)
      /\ a \in 0..(W - 1) /\ b \in 0..(W - 1) /\ W \in Nat /\ W = 2 * IMIN /\ IMIN \in Nat /\ IMIN >= 128
  BY MagnitudeFacts, WidthFacts DEF Word
<1>2. ASSUME NEW r, r = golden_div(op, a, b) PROVE Divides(Answer(r), op, a, b)
  BY <1>2, AnswerFacts DEF Divides
<1>3. b = 0 => golden_div(op, a, b) = IF is_rem THEN a ELSE W - 1
  BY DEF golden_div
<1>4. signed /\ a = IMIN /\ b = W - 1 => golden_div(op, a, b) = IF is_rem THEN 0 ELSE IMIN
  <2> SUFFICES ASSUME signed, a = IMIN, b = W - 1
               PROVE  golden_div(op, a, b) = IF is_rem THEN 0 ELSE IMIN
    OBVIOUS
  <2>1. A = IMIN /\ B = 1
    <3>1. Negated(a) = IMIN /\ Negated(b) = 1
      BY <1>1, NegatedFacts
    <3> QED
      BY <1>1, <3>1 DEF Magnitude
  <2>2. a >= IMIN /\ b >= IMIN
    BY <1>1
  <2>3. golden_div(op, a, b) = (IF is_rem THEN -0 ELSE IMIN) % W
    <3>1. IMIN = IMIN * 1 + 0 /\ 0 \in Nat
      BY <1>1
    <3>2. 0 < Magnitude(IsSigned(op), b) /\ Magnitude(IsSigned(op), a) = IMIN * Magnitude(IsSigned(op), b) + 0
      BY <1>0, <2>1, <3>1
    <3>3. b # 0
      BY <1>1
    <3>4. golden_div(op, a, b) =
           (IF IsRem(op) THEN IF IsSigned(op) /\ a >= IMIN THEN -0 ELSE 0
            ELSE IF IsSigned(op) /\ ((a >= IMIN) # (b >= IMIN)) THEN -IMIN ELSE IMIN) % W
      BY <1>1, <3>1, <3>2, <3>3, GoldenIs
    <3> QED
      BY <1>0, <2>2, <3>4
  <2>4. 0 % W = 0 /\ IMIN % W = IMIN
    <3>1. 0 \in Word /\ IMIN \in Word
      BY <1>1 DEF Word
    <3> QED
      BY <3>1, WordItself
  <2> QED
    BY <2>3, <2>4
<1>5. b # 0 /\ B > A => golden_div(op, a, b) = IF is_rem THEN a ELSE 0
  <2> SUFFICES ASSUME b # 0, B > A PROVE golden_div(op, a, b) = IF is_rem THEN a ELSE 0
    OBVIOUS
  <2>1. 0 \in Nat /\ A = 0 * B + A
    BY <1>1
  <2>2. golden_div(op, a, b) =
           (IF is_rem THEN IF signed /\ a >= IMIN THEN -A ELSE A
            ELSE IF signed /\ ((a >= IMIN) # (b >= IMIN)) THEN -0 ELSE 0) % W
    <3>1. A < Magnitude(IsSigned(op), b) /\ Magnitude(IsSigned(op), a) = 0 * Magnitude(IsSigned(op), b) + A
      BY <1>0, <2>1
    <3>2. A \in Nat
      BY <1>1
    <3> HIDE DEF A, B, signed, is_rem
    <3>3. golden_div(op, a, b) =
           (IF IsRem(op) THEN IF IsSigned(op) /\ a >= IMIN THEN -A ELSE A
            ELSE IF IsSigned(op) /\ ((a >= IMIN) # (b >= IMIN)) THEN -0 ELSE 0) % W
      BY <2>1, <3>1, <3>2, GoldenIs
    <3> QED
      BY <1>0, <3>3
  <2>3. 0 % W = 0 /\ -0 = 0
    <3>1. 0 \in Word
      BY WidthFacts
    <3>2. 0 % W = 0
      BY <3>1, WordItself
    <3>3. -0 \in Int /\ 0 + (-0) = 0
      OBVIOUS
    <3>4. \A x \in Int : 0 + x = 0 => x = 0
      OBVIOUS
    <3> QED
      BY <3>2, <3>3, <3>4
  <2>4. CASE ~is_rem
    BY <2>2, <2>3, <2>4
  <2>5. CASE is_rem /\ signed /\ a >= IMIN
    <3>1. A = W - a
      BY <1>1, <2>5, NegatedFacts DEF Magnitude
    <3>2. (-A) % W = a % W
      <4>1. -A = a + W * (-1) /\ -A \in Int /\ W \in Nat \ {0} /\ -1 \in Int /\ a \in Int
        BY <1>1, <3>1
      <4> HIDE DEF A
      <4> QED
        BY <4>1, ModShift
    <3> QED
      BY <2>2, <2>5, <3>2, WordItself
  <2>6. CASE is_rem /\ ~(signed /\ a >= IMIN)
    <3>1. A = a
      BY <2>6 DEF Magnitude
    <3> QED
      BY <2>2, <2>6, <3>1, WordItself
  <2> QED
    BY <2>4, <2>5, <2>6
<1>6. ASSUME b # 0, ~(B > A) PROVE Divides(d, op, a, b)
  <2> DEFINE c == Xlen - clz(A)
             v == (A * 2^clz(A)) % W
             sq == signed /\ ((a >= IMIN) # (b >= IMIN))
             sr == signed /\ a >= IMIN
  <2>1. d = [DividerReset EXCEPT !.state = "DIVIDE", !.b_mag = B, !.is_rem = is_rem, !.divd = v,
                                 !.count = c, !.sign_quo = sq, !.sign_rem = sr]
    OBVIOUS
  <2>2. clz(A) \in 0..(Xlen - 1) /\ A < Pow(Xlen - clz(A)) /\ Xlen \in Nat /\ Xlen <= 32
    <3>1. A \in Word /\ A > 0
      BY <1>1, <1>6 DEF Word
    <3> HIDE DEF A
    <3> QED
      BY <3>1, ClzFacts, XlenAssumption
  <2>3. v = A * Pow(Xlen - c) /\ A \in 0..(Pow(c) - 1)
    <3> DEFINE z == clz(A)
    <3>1. z \in 0..(Xlen - 1) /\ c = Xlen - z /\ Xlen - c = z /\ A < Pow(c)
      BY <2>2
    <3> HIDE DEF z, c, A
    <3>2. Pow(c) * Pow(z) = W /\ Pow(c) \in Nat \ {0} /\ Pow(z) \in Nat \ {0}
      <4>1. z \in 0..32 /\ c \in 0..(32 - z) /\ c + z = Xlen /\ c \in 0..32
        BY <2>2, <3>1
      <4>2. Pow(c + z) = Pow(c) * Pow(z)
        BY <4>1, PowerProduct
      <4> QED
        BY <4>1, <4>2, Powers
    <3>3. A * Pow(z) \in Nat /\ A * Pow(z) < W
      <4> DEFINE x == Pow(c)
                 y == Pow(z)
      <4>1. x \in Nat \ {0} /\ y \in Nat \ {0} /\ x * y = W /\ A <= x - 1 /\ A \in Nat
        BY <1>1, <3>1, <3>2
      <4> HIDE DEF x, y
      <4>2. A * y <= (x - 1) * y
        BY <4>1
      <4>3. (x - 1) * y = W - y
        BY <4>1
      <4>4. A * y \in Nat
        BY <4>1
      <4> QED
        BY <1>1, <4>1, <4>2, <4>3, <4>4 DEF y
    <3>4. (A * Pow(z)) % W = A * Pow(z)
      <4> DEFINE x == A * Pow(z)
      <4>1. x \in Word
        BY <1>1, <3>3 DEF Word
      <4> HIDE DEF x
      <4>2. x % W = x
        BY <4>1, WordItself
      <4> QED
        BY <4>2 DEF x
    <3>5. v = (A * Pow(z)) % W
      BY DEF z, Pow
    <3> HIDE DEF v
    <3> QED
      BY <1>1, <3>1, <3>2, <3>4, <3>5
  <2> HIDE DEF d, c, v, sq, sr, A, B
  <2>4. /\ d.state = "DIVIDE" /\ ~d.done /\ d.b_mag = B /\ d.is_rem = is_rem /\ d.divd = v /\ d.count = c
        /\ d.sign_quo = sq /\ d.sign_rem = sr /\ d.quo = 0 /\ d.rem = 0
    BY <2>1 DEF DividerReset
  <2>5. A = (d.quo * B + d.rem) * Pow(d.count) + A
    <3>1. Pow(c) \in Nat
      <4>1. c \in 0..32
        BY <2>2 DEF c
      <4> QED
        BY <4>1, Powers
    <3> QED
      BY <1>1, <2>4, <3>1
  <2>6. \E low \in 0..(Pow(d.count) - 1) :
           d.divd = low * Pow(Xlen - d.count) /\ A = (d.quo * B + d.rem) * Pow(d.count) + low
    BY <2>3, <2>4, <2>5
  <2>7. d.rem < B
    BY <1>1, <1>6, <2>4
  <2>8. Dividing(d, op, a, b)
    BY <1>0, <1>6, <2>4, <2>6, <2>7 DEF Dividing, A, B, sq, sr
  <2> QED
    BY <2>4, <2>8 DEF Divides
<1> HIDE DEF A, B, d
<1>7. /\ b = 0 => Divides(Answer(IF is_rem THEN a ELSE W - 1), op, a, b)
      /\ signed /\ a = IMIN /\ b = W - 1 => Divides(Answer(IF is_rem THEN 0 ELSE IMIN), op, a, b)
      /\ b # 0 /\ B > A => Divides(Answer(IF is_rem THEN a ELSE 0), op, a, b)
  BY <1>2, <1>3, <1>4, <1>5
<1>8. div_begin(op, a, b) =
        CASE b = 0 -> Answer(IF is_rem THEN a ELSE W - 1)
          [] signed /\ a = IMIN /\ b = W - 1 -> Answer(IF is_rem THEN 0 ELSE IMIN)
          [] B > A -> Answer(IF is_rem THEN a ELSE 0)
          [] OTHER -> d
  BY DEF div_begin, A, B, d
<1> DEFINE D(e) == Divides(e, op, a, b)
<1>9. /\ b = 0 => D(Answer(IF is_rem THEN a ELSE W - 1))
      /\ signed /\ a = IMIN /\ b = W - 1 => D(Answer(IF is_rem THEN 0 ELSE IMIN))
      /\ b # 0 /\ B > A => D(Answer(IF is_rem THEN a ELSE 0))
      /\ b # 0 /\ ~(B > A) => D(d)
  BY <1>6, <1>7
<1> HIDE DEF D
<1>11. b = 0 => ~(B > A) /\ b # W - 1
  <2>1. Magnitude(signed, 0) = 0
    BY <1>1 DEF Magnitude
  <2> QED
    BY <1>1, <2>1 DEF B
<1>10. D(div_begin(op, a, b))
  <2>1. CASE b = 0
    BY <1>8, <1>9, <1>11, <2>1
  <2>2. CASE b # 0 /\ signed /\ a = IMIN /\ b = W - 1
    BY <1>8, <1>9, <2>2
  <2>3. CASE b # 0 /\ ~(signed /\ a = IMIN /\ b = W - 1)
    BY <1>8, <1>9, <2>3
  <2> QED
    BY <2>1, <2>2, <2>3
<1> QED
  BY <1>10 DEF D

\* divider.v: started on two words, the divider keeps, edge by edge, what makes its answer
\* the quotient or the remainder of the reference, a divisor of zero and the overflow of the
\* least number included.
THEOREM DividerDivides ==
  ASSUME NEW op \in DivOps, NEW a \in Word, NEW b \in Word, NEW d, DividerOK(d), NEW x, NEW y
  PROVE  /\ d.state # "IDLE" /\ Divides(d, op, a, b) => Divides(divider(d, FALSE, op, x, y), op, a, b)
         /\ d.state = "IDLE" => Divides(divider(d, TRUE, op, a, b), op, a, b)
<1>1. d.state \in {"IDLE", "DIVIDE", "FINISH"}
  BY DEF DividerOK, Divider
<1>2. CASE d.state = "DIVIDE"
  BY <1>2, StepDivides DEF divider
<1>3. CASE d.state = "FINISH"
  BY <1>3, FinishDivides DEF divider
<1>4. CASE d.state = "IDLE"
  BY <1>4, BeginDivides DEF divider
<1> QED
  BY <1>1, <1>2, <1>3, <1>4

-----------------------------------------------------------------------------
(* Every register of the pipeline keeps its type.                          *)

NamedBy(i) == i.rs1 \in Named(prog) /\ i.rs2 \in Named(prog)

\* What the types rest on: the divider subtracts no more than it has, a bundle accesses
\* memory only for a load or a store, and the registers an instruction reads are there.
TypeInv ==
  /\ TypeOK /\ DividerOK(div)
  /\ ex.mr => ex.op \in Loads
  /\ ex.mw => ex.op \in Stores
  /\ NamedBy(fetched) /\ NamedBy(id.ins)

LEMMA NopIsInstr == Nop \in Instr /\ NamedBy(Nop)
<1>1. 0 \in Word
  BY WidthFacts
<1>2. "addi" \in Op /\ "mscratch" \in Csr /\ 0 \in Reg
  BY DEF Op, Writers, ImmOps, AluOfImm, Csr, Reg
<1> QED
  BY <1>1, <1>2 DEF Nop, Plain, Instr, NamedBy, Named

LEMMA InstrAtIsInstr ==
  ASSUME prog \in Seq(Instr), NEW a
  PROVE  InstrAt(prog, a) \in Instr /\ NamedBy(InstrAt(prog, a))
<1>1. CASE a + 1 \in DOMAIN prog
  <2>1. prog[a + 1] \in Instr
    BY <1>1
  <2>2. {prog[a + 1].rd, prog[a + 1].rs1, prog[a + 1].rs2} \subseteq Named(prog)
    BY <1>1 DEF Named
  <2> QED
    BY <1>1, <2>1, <2>2 DEF InstrAt, NamedBy
<1>2. CASE a + 1 \notin DOMAIN prog
  BY <1>2, NopIsInstr DEF InstrAt
<1> QED
  BY <1>1, <1>2

\* The wires of EX.
LEMMA WiresOfEx ==
  ASSUME TypeInv
  PROVE  /\ id.ins \in Instr /\ id.pc \in Word
         /\ rs1_data \in Word /\ rs2_data \in Word
         /\ result \in Word /\ redirect_target \in Word
         /\ redirect_valid \in BOOLEAN /\ trap_valid \in BOOLEAN /\ flush \in BOOLEAN
<1>1. id.ins \in Instr /\ id.pc \in Word /\ id.a \in Word /\ id.b \in Word
  BY DEF TypeInv, TypeOK
<1>2. ex.val \in Word /\ wb.val \in Word
  BY DEF TypeInv, TypeOK
<1>3. rs1_data \in Word /\ rs2_data \in Word
  BY <1>1, <1>2 DEF rs1_data, rs2_data, Forward
<1>4. id.ins.op \in Op /\ id.ins.imm \in Word
  BY <1>1 DEF Instr
<1>5. alu_op \in AluOps \cup {"lui_pass"}
  <2>1. \A op \in ImmOps : AluOfImm[op] \in AluOps
    BY DEF ImmOps, AluOfImm, AluOps
  <2>2. "add" \in AluOps
    BY DEF AluOps
  <2>3. CASE id.ins.op \in AluOps
    <3>1. id.ins.op \notin ImmOps /\ id.ins.op # "lui"
      BY <2>3 DEF AluOps, ImmOps, AluOfImm
    <3> QED
      BY <2>3, <3>1 DEF alu_op
  <2>4. CASE id.ins.op \in ImmOps
    <3>1. id.ins.op \notin AluOps /\ id.ins.op # "lui"
      BY <2>4 DEF AluOps, ImmOps, AluOfImm
    <3> QED
      BY <2>1, <2>4, <3>1 DEF alu_op
  <2> QED
    BY <2>2, <2>3, <2>4 DEF alu_op
<1>6. operand_a \in Word /\ operand_b \in Word
  BY <1>1, <1>3, <1>4 DEF operand_a, operand_b
<1>7. result \in Word
  BY <1>5, <1>6, AluIsWord DEF result
<1>8. redirect_target \in Word
  BY <1>4, <1>7 DEF redirect_target
<1>9. redirect_valid \in BOOLEAN
  BY DEF redirect_valid, take_branch
<1>10. trap_valid \in BOOLEAN /\ flush \in BOOLEAN
  BY DEF trap_valid, flush
<1> QED
  BY <1>1, <1>3, <1>7, <1>8, <1>9, <1>10

LEMMA TrapWires ==
  ASSUME TypeInv
  PROVE  /\ trap_target \in Word /\ trap_pc \in Word /\ trap_cause \in Word
         /\ csr \in CsrFile
<1>1. csr \in CsrFile /\ rtq \in Word /\ id.pc \in Word
  BY DEF TypeInv, TypeOK
<1>2. csr.mepc \in Word /\ csr.mtvec \in Word
  BY <1>1 DEF CsrFile
<1>3. TimerCause \in Word /\ \A i : CauseOf(i) \in Word
  BY WidthFacts DEF TimerCause, CauseOf, Word
<1> QED
  BY <1>1, <1>2, <1>3 DEF trap_target, trap_pc, trap_cause

LEMMA NextPcIsWord == ASSUME NEW a \in Word PROVE (a + 1) % W \in Word
BY ModIsWord, WordIsNat

LEMMA FetchTypes ==
  ASSUME TypeInv, Fetch
  PROVE  /\ pc' \in Word /\ ifid_pc' \in Word /\ flush_q' \in BOOLEAN
         /\ fetched' \in Instr /\ NamedBy(fetched')
<1>1. pc \in Word /\ ifid_pc \in Word /\ fetched \in Instr /\ NamedBy(fetched) /\ prog \in Seq(Instr)
  BY DEF TypeInv, TypeOK
<1>2. (pc + 1) % W \in Word
  BY <1>1, NextPcIsWord
<1>3. InstrAt(prog, pc) \in Instr /\ NamedBy(InstrAt(prog, pc))
  BY <1>1, InstrAtIsInstr
<1>4. pc' \in Word /\ ifid_pc' \in Word
  BY <1>1, <1>2, WiresOfEx, TrapWires DEF Fetch
<1>5. fetched' \in Instr /\ NamedBy(fetched')
  <2>1. fetched' = fetched \/ fetched' = InstrAt(prog, pc)
    BY DEF Fetch
  <2> QED
    BY <1>1, <1>3, <2>1, Zenon
<1>6. flush_q' \in BOOLEAN
  BY WiresOfEx DEF Fetch
<1> QED
  BY <1>4, <1>5, <1>6

Bundles == [pc : Word, ins : Instr, a : Word, b : Word, real : BOOLEAN]

LEMMA DecodeTypes ==
  ASSUME TypeInv, Decode
  PROVE  id' \in Bundles /\ NamedBy(id'.ins)
<1>1. id \in Bundles /\ NamedBy(id.ins) /\ ifid_pc \in Word
  BY DEF TypeInv, TypeOK, Bundles
<1>2. if_id_instr \in Instr /\ NamedBy(if_id_instr)
  <2>1. fetched \in Instr /\ NamedBy(fetched)
    BY DEF TypeInv, TypeOK
  <2> QED
    BY <2>1, NopIsInstr DEF if_id_instr
<1>3. ASSUME NEW r \in Named(prog) PROVE ReadReg(r) \in Word
  <2>1. regs[r] \in Word /\ wb.val \in Word
    BY DEF TypeInv, TypeOK
  <2> QED
    BY <2>1, WidthFacts DEF ReadReg
<1>4. CASE DecodeHold
  BY <1>1, <1>4 DEF DecodeHold
<1>5. CASE DecodeBubble
  <2>1. 0 \in Word
    BY WidthFacts
  <2> QED
    BY <1>5, <2>1, NopIsInstr DEF DecodeBubble, Bubble, Bundles
<1>6. CASE DecodeCapture
  <2>1. ReadReg(if_id_instr.rs1) \in Word /\ ReadReg(if_id_instr.rs2) \in Word
    BY <1>2, <1>3 DEF NamedBy
  <2>2. (~if_id_flush) \in BOOLEAN
    OBVIOUS
  <2>3. id'.ins = if_id_instr
    BY <1>6 DEF DecodeCapture
  <2> QED
    BY <1>1, <1>2, <1>6, <2>1, <2>2, <2>3 DEF DecodeCapture, Bundles
<1> QED
  BY <1>4, <1>5, <1>6 DEF Decode

LEMMA CsrReads ==
  ASSUME NEW c \in CsrFile, NEW r \in Csr
  PROVE  csr_rdata(c, r) \in Word
<1>1. c.mie \in BOOLEAN /\ c.mpie \in BOOLEAN /\ c.mtie \in BOOLEAN
  BY DEF CsrFile
<1>2. 128 * Flag(c.mpie) + 8 * Flag(c.mie) \in Word /\ 128 * Flag(c.mtie) \in Word /\ 0 \in Word
  BY <1>1, WidthFacts DEF Flag, Word
<1>3. CASE r \in {"mtvec", "mscratch", "mepc", "mcause"}
  <2>1. c[r] \in Word
    BY <1>3 DEF CsrFile
  <2> QED
    BY <1>3, <2>1 DEF csr_rdata, ReadOnly
<1>4. CASE r \in {"mstatus", "mie", "mvendorid"}
  BY <1>2, <1>4 DEF csr_rdata, ReadOnly
<1> QED
  BY <1>3, <1>4 DEF Csr

ExBundles == [wen : BOOLEAN, mr : BOOLEAN, mw : BOOLEAN, rd : Reg, val : Word, sdata : Word, op : Op]
Accesses(x) == (x.mr => x.op \in Loads) /\ (x.mw => x.op \in Stores)

LEMMA ExecTypes ==
  ASSUME TypeInv, Exec
  PROVE  ex' \in ExBundles /\ Accesses(ex')
<1>1. ex \in ExBundles /\ Accesses(ex)
  BY DEF TypeInv, TypeOK, ExBundles, Accesses
<1>2. Killed \in ExBundles /\ Accesses(Killed)
  BY <1>1 DEF Killed, ExBundles, Accesses
<1> DEFINE i == id.ins
           v == CASE i.op \in CsrOps -> csr_rdata(csr, i.csr)
                  [] i.op \in DivOps -> div.result
                  [] i.op \in MulOps -> multiplier(i.op, rs1_data, rs2_data)
                  [] i.op \in Jumps  -> (id.pc + 1) % W
                  [] OTHER -> result
<1>3. i \in Instr /\ i.op \in Op /\ i.csr \in Csr /\ i.rd \in Reg
  BY WiresOfEx DEF Instr
<1>4. v \in Word
  <2>1. csr_rdata(csr, i.csr) \in Word
    BY <1>3, CsrReads, TrapWires
  <2>2. div.result \in Word
    BY DEF TypeInv, TypeOK, Divider
  <2>3. ASSUME i.op \in MulOps PROVE multiplier(i.op, rs1_data, rs2_data) \in Word
    BY <2>3, WiresOfEx, MultiplierIsWord
  <2>4. (id.pc + 1) % W \in Word /\ result \in Word
    BY WiresOfEx, NextPcIsWord
  <2> HIDE DEF i
  <2> QED
    BY <2>1, <2>2, <2>3, <2>4
<1>5. Executed \in ExBundles /\ Accesses(Executed)
  <2>1. Executed = [wen |-> i.op \in Writers, mr |-> i.op \in Loads, mw |-> i.op \in Stores,
                    rd |-> i.rd, sdata |-> rs2_data, op |-> i.op, val |-> v]
    BY DEF Executed
  <2>2. rs2_data \in Word
    BY WiresOfEx
  <2> DEFINE p == i.op \in Writers
             q == i.op \in Loads
             r == i.op \in Stores
  <2>3. p \in BOOLEAN /\ q \in BOOLEAN /\ r \in BOOLEAN /\ (q => i.op \in Loads) /\ (r => i.op \in Stores)
    OBVIOUS
  <2>4. Executed = [wen |-> p, mr |-> q, mw |-> r, rd |-> i.rd, sdata |-> rs2_data, op |-> i.op, val |-> v]
    BY <2>1
  <2> HIDE DEF v, i, p, q, r
  <2>5. Executed \in ExBundles
    BY <1>3, <1>4, <2>2, <2>3, <2>4 DEF ExBundles
  <2>6. Accesses(Executed)
    BY <2>3, <2>4 DEF Accesses
  <2> QED
    BY <2>5, <2>6
<1>6. ex' \in {Killed, ex, Executed}
  BY DEF Exec
<1> QED
  BY <1>1, <1>2, <1>5, <1>6

\* What the memory stage writes and reads.
LEMMA MemoryWires ==
  ASSUME TypeInv
  PROVE  Stored \in [DataWord -> Word] /\ (ex.mr => Loaded \in Word)
<1>1. ex \in ExBundles /\ Accesses(ex) /\ dmem \in [DataWord -> Word]
  BY DEF TypeInv, TypeOK, ExBundles, Accesses
<1>2. ex.val \in Word /\ ex.sdata \in Word /\ ex.val \in Nat /\ ex.sdata \in Int
  BY <1>1, WordIsNat DEF ExBundles
<1>3. ASSUME IsData(ex.val) PROVE ex.val \div 4 \in DataWord
  BY <1>2, <1>3, DataAssumption, WordIsNat DEF IsData, DataWord
<1>4. Stored \in [DataWord -> Word]
  <2> DEFINE new == Merged(dmem[ex.val \div 4], dmem_wdata(ex.val, ex.sdata), dmem_wen(ex.op, ex.val))
  <2>1. ASSUME IsData(ex.val) PROVE new \in Word
    <3>1. dmem[ex.val \div 4] \in Int
      BY <1>1, <1>3, <2>1, WordIsNat
    <3>2. dmem_wdata(ex.val, ex.sdata) \in Int
      <4>1. ex.val % 4 \in 0..3
        BY <1>2
      <4>2. ByteW^(ex.val % 4) \in Nat \ {0}
        BY <4>1, ByteFacts
      <4>3. ex.sdata * ByteW^(ex.val % 4) \in Int
        BY <1>2, <4>2
      <4> QED
        BY <4>3, ModIsWord, WordIsNat DEF dmem_wdata
    <3> QED
      BY <3>1, <3>2, MergedIsWord
  <2>2. Stored = IF ~ex.mw \/ ~IsData(ex.val) THEN dmem ELSE [dmem EXCEPT ![ex.val \div 4] = new]
    BY DEF Stored
  <2> HIDE DEF new
  <2> QED
    BY <1>1, <1>3, <2>1, <2>2
<1>5. ex.mr => Loaded \in Word
  <2>1. CASE ex.mr
    <3> DEFINE m == IF IsData(ex.val) THEN dmem[ex.val \div 4] ELSE DeviceWord
    <3>1. m \in Word
      BY <1>1, <1>3, WidthFacts DEF DeviceWord
    <3>2. ex.op \in Loads /\ ex.val % 4 \in 0..3
      BY <1>1, <1>2, <2>1 DEF Accesses
    <3>3. Loaded = load_data(ex.op, m, ex.val % 4)
      BY DEF Loaded
    <3> HIDE DEF m
    <3> QED
      BY <3>1, <3>2, <3>3, LoadIsWord
  <2> QED
    BY <2>1
<1> QED
  BY <1>4, <1>5

LEMMA MemoryTypes ==
  ASSUME TypeInv, Memory
  PROVE  /\ dmem' \in [DataWord -> Word] /\ hold' \in BOOLEAN
         /\ wb' \in [wen : BOOLEAN, rd : Reg, val : Word]
<1>1. ex \in ExBundles /\ hold \in BOOLEAN /\ wb \in [wen : BOOLEAN, rd : Reg, val : Word]
  BY DEF TypeInv, TypeOK, ExBundles
<1>2. dmem' \in [DataWord -> Word]
  BY MemoryWires DEF Memory
<1>3. hold' \in BOOLEAN
  BY DEF Memory
<1>4. wb' \in [wen : BOOLEAN, rd : Reg, val : Word]
  <2>1. ex.wen \in BOOLEAN /\ ex.rd \in Reg /\ (IF ex.mr THEN Loaded ELSE ex.val) \in Word
    BY <1>1, MemoryWires DEF ExBundles
  <2>2. [wen |-> ex.wen, rd |-> ex.rd, val |-> IF ex.mr THEN Loaded ELSE ex.val]
           \in [wen : BOOLEAN, rd : Reg, val : Word]
    BY <2>1
  <2> QED
    BY <1>1, <2>2 DEF Memory
<1> QED
  BY <1>2, <1>3, <1>4

LEMMA WriteBackTypes ==
  ASSUME TypeInv, WriteBack
  PROVE  regs' \in [Named(prog) -> Word]
<1>1. regs \in [Named(prog) -> Word] /\ wb.val \in Word
  BY DEF TypeInv, TypeOK
<1> QED
  BY <1>1 DEF WriteBack, WriteReg

LEMMA CsrTypes ==
  ASSUME TypeInv, CsrEdge
  PROVE  csr' \in CsrFile
<1>1. csr \in CsrFile
  BY TrapWires
<1>2. TrapCsr(csr, trap_pc, trap_cause) \in CsrFile
  BY TrapWires DEF TrapCsr, CsrFile
<1>3. MretCsr(csr) \in CsrFile
  BY <1>1 DEF MretCsr, CsrFile
<1>4. id.ins \in Instr /\ id.ins.csr \in Csr /\ id.ins.imm \in Word /\ rs1_data \in Word
  BY WiresOfEx DEF Instr
<1>5. src \in Word /\ csr_rdata(csr, id.ins.csr) \in Word
  BY <1>1, <1>4, CsrReads DEF src
<1>6. ASSUME write_en PROVE next_val \in Word
  <2>1. id.ins.op \in {"csrrw", "csrrwi", "csrrs", "csrrsi", "csrrc", "csrrci"}
    BY <1>6 DEF write_en, CsrOps, CsrRegOps, CsrImmOps
  <2>2. W - 1 - src \in Word
    BY <1>5, WidthFacts DEF Word
  <2> DEFINE old == csr_rdata(csr, id.ins.csr)
  <2>3. old | src \in Word /\ old & (W - 1 - src) \in Word
    BY <1>5, <2>2, BitwiseIsWord
  <2>4. next_val = CASE id.ins.op \in {"csrrw", "csrrwi"} -> src
                     [] id.ins.op \in {"csrrs", "csrrsi"} -> old | src
                     [] id.ins.op \in {"csrrc", "csrrci"} -> old & (W - 1 - src)
    BY DEF next_val
  <2> HIDE DEF old
  <2> QED
    BY <1>5, <2>1, <2>3, <2>4
<1>7. ASSUME write_en PROVE WrittenCsr(csr, id.ins.csr, next_val) \in CsrFile
  <2>1. id.ins.csr \in Csr \ ReadOnly
    BY <1>4, <1>7 DEF write_en, csr_illegal
  <2>2. \A n : Bit(next_val, n) \in BOOLEAN
    BY DEF Bit
  <2>3. (IF next_val >= IMIN THEN IMIN ELSE 0) + (next_val % 16) \in Word
    <3>1. next_val \in Nat
      BY <1>6, <1>7, WordIsNat
    <3>2. next_val % 16 \in 0..15
      BY <3>1
    <3> QED
      BY <3>2, WidthFacts DEF Word
  <2>4. next_val \in Word
    BY <1>6, <1>7
  <2> DEFINE r == id.ins.csr
  <2>5. CASE r = "mstatus"
    BY <1>1, <2>2, <2>5 DEF WrittenCsr, CsrFile
  <2>6. CASE r = "mie"
    BY <1>1, <2>2, <2>6 DEF WrittenCsr, CsrFile
  <2>7. CASE r = "mcause"
    BY <1>1, <2>3, <2>7 DEF WrittenCsr, CsrFile
  <2>8. CASE r \in {"mtvec", "mscratch", "mepc"}
    <3>1. WrittenCsr(csr, r, next_val) = [csr EXCEPT ![r] = next_val]
      BY <2>8 DEF WrittenCsr
    <3> HIDE DEF r
    <3> QED
      BY <1>1, <2>4, <2>8, <3>1 DEF CsrFile, r
  <2> QED
    BY <2>1, <2>5, <2>6, <2>7, <2>8 DEF Csr, ReadOnly
<1> QED
  BY <1>1, <1>2, <1>3, <1>7 DEF CsrEdge

LEMMA TypeInit == Init => TypeInv
<1> SUFFICES ASSUME Init PROVE TypeInv
  OBVIOUS
<1>1. prog \in Seq(Instr)
  BY ProgramsAssumption DEF Init
<1>2. fetched \in Instr /\ NamedBy(fetched) /\ Nop \in Instr /\ NamedBy(Nop)
  BY <1>1, InstrAtIsInstr, NopIsInstr DEF Init
<1>3. id \in Bundles /\ NamedBy(id.ins)
  BY <1>2, WidthFacts DEF Init, Bubble, Bundles
<1>4. ex \in ExBundles /\ ~ex.mr /\ ~ex.mw
  <2>1. "addi" \in Op /\ 0 \in Reg
    BY DEF Op, Writers, ImmOps, AluOfImm, Reg
  <2> QED
    BY <2>1, WidthFacts DEF Init, ExEmpty, ExBundles
<1>5. wb \in [wen : BOOLEAN, rd : Reg, val : Word]
  BY WidthFacts DEF Init, WbEmpty, Reg
<1>6. csr \in CsrFile
  BY WidthFacts DEF Init, CsrReset, CsrFile
<1>7. DividerOK(div) /\ div \in Divider
  BY ResetOK DEF Init, DividerOK
<1>8. regs \in [Named(prog) -> Word] /\ dmem \in [DataWord -> Word]
  BY WidthFacts DEF Init
<1>9. /\ pc \in Word /\ ifid_pc \in Word /\ flush_q \in BOOLEAN /\ hold \in BOOLEAN
      /\ win \in 0..3 /\ rtq \in Word /\ irq \in BOOLEAN /\ raised \in 0..MaxIrq /\ apc \in Word
  <2>1. pc \in Word /\ ifid_pc \in Word /\ rtq \in Word /\ apc \in Word
    BY WidthFacts DEF Init
  <2>2. flush_q \in BOOLEAN /\ hold \in BOOLEAN /\ irq \in BOOLEAN
    BY DEF Init
  <2>3. win = 0 /\ raised = 0
    BY DEF Init
  <2>4. win \in 0..3 /\ raised \in 0..MaxIrq
    BY <2>3, IrqAssumption
  <2> QED
    BY <2>1, <2>2, <2>4
<1> QED
  BY <1>1, <1>2, <1>3, <1>4, <1>5, <1>6, <1>7, <1>8, <1>9 DEF TypeInv, TypeOK, Bundles, ExBundles

LEMMA TypeStep == TypeInv /\ [Next]_vars => TypeInv'
<1>1. ASSUME TypeInv, Next PROVE TypeInv'
  <2>1. prog' = prog /\ Named(prog)' = Named(prog) /\ prog \in Seq(Instr)
    BY <1>1 DEF Next, Named, TypeInv, TypeOK
  <2>2. /\ pc' \in Word /\ ifid_pc' \in Word /\ flush_q' \in BOOLEAN
        /\ fetched' \in Instr /\ NamedBy(fetched')
    BY <1>1, FetchTypes DEF Next
  <2>3. id' \in Bundles /\ NamedBy(id'.ins)
    BY <1>1, DecodeTypes DEF Next
  <2>4. ex' \in ExBundles /\ Accesses(ex')
    BY <1>1, ExecTypes DEF Next
  <2>5. dmem' \in [DataWord -> Word] /\ hold' \in BOOLEAN /\ wb' \in [wen : BOOLEAN, rd : Reg, val : Word]
    BY <1>1, MemoryTypes DEF Next
  <2>6. regs' \in [Named(prog) -> Word]
    BY <1>1, WriteBackTypes DEF Next
  <2>7. csr' \in CsrFile
    BY <1>1, CsrTypes DEF Next
  <2>8. DividerOK(div')
    <3>1. DividerOK(div) /\ rs1_data \in Word /\ rs2_data \in Word
      BY <1>1, WiresOfEx DEF TypeInv
    <3>2. div' = divider(div, div_start, id.ins.op, rs1_data, rs2_data)
      BY <1>1 DEF Next, DivideEdge
    <3> QED
      BY <3>1, <3>2, DividerStaysOK
  <2>9. win' \in 0..3 /\ rtq' \in Word
    <3>1. win \in 0..3 /\ rtq \in Word /\ redirect_target \in Word
      BY <1>1, WiresOfEx DEF TypeInv, TypeOK
    <3> QED
      BY <1>1, <3>1 DEF Next, RedirectDrain
  <2>10. irq' \in BOOLEAN /\ raised' \in 0..MaxIrq
    <3>1. irq \in BOOLEAN /\ raised \in 0..MaxIrq
      BY <1>1 DEF TypeInv, TypeOK
    <3>2. CASE TimerClear
      BY <3>1, <3>2 DEF TimerClear
    <3>3. CASE TimerRaise
      <4>1. raised < MaxIrq /\ irq' = TRUE /\ raised' = raised + 1
        BY <3>3 DEF TimerRaise
      <4> QED
        BY <3>1, <4>1, IrqAssumption
    <3>4. CASE TimerKeep
      BY <3>1, <3>4 DEF TimerKeep
    <3> QED
      BY <1>1, <3>2, <3>3, <3>4 DEF Next, Timer
  <2>11. apc' \in Word
    <3>1. (id.pc + 1) % W \in Word /\ apc \in Word
      BY <1>1, WiresOfEx, NextPcIsWord DEF TypeInv, TypeOK
    <3> QED
      BY <1>1, <3>1, WiresOfEx, TrapWires DEF Next, History
  <2>12. TypeOK'
    BY <2>1, <2>2, <2>3, <2>4, <2>5, <2>6, <2>7, <2>8, <2>9, <2>10, <2>11
       DEF TypeOK, Bundles, ExBundles, DividerOK
  <2> QED
    BY <2>1, <2>2, <2>3, <2>4, <2>8, <2>12 DEF TypeInv, NamedBy, Accesses
<1>2. TypeInv /\ UNCHANGED vars => TypeInv'
  BY DEF vars, TypeInv, TypeOK, NamedBy
<1> QED
  BY <1>1, <1>2

\* The registers, the bundles, the control registers and the divider keep to the width of
\* a word, and the memory and the register file are written only where they exist.
THEOREM PipelineTypes == Spec => []TypeOK
<1>1. TypeInv => TypeOK
  BY DEF TypeInv
<1> QED
  BY <1>1, TypeInit, TypeStep, PTL DEF Spec

-----------------------------------------------------------------------------
(* The programs.  A load in front of an independent instruction that traps *)
(* or uses a CSR or divides is lost, or the instruction executes twice; an *)
(* interrupt in the middle of a division saves its pc and divides on.      *)
NoDivisions == \A n \in DOMAIN prog : prog[n].op \notin DivOps

Once == CsrOps \cup Traps \cup {"mret"} \cup DivOps
LoadsApart ==
  \A n \in DOMAIN prog :
    prog[n].op \in Loads /\ InstrAt(prog, n % W).op \in Once =>
      prog[n].rd # 0 /\ prog[n].rd \in {InstrAt(prog, n % W).rs1, InstrAt(prog, n % W).rs2}

-----------------------------------------------------------------------------
(* The inductive invariant.                                                *)

OfProgram(i) == {i.rd, i.rs1, i.rs2} \subseteq Named(prog)

\* Everything in the pipeline is an instruction of the program or a Nop.
CodeOK ==
  /\ flush_q \in BOOLEAN /\ id.real \in BOOLEAN
  /\ OfProgram(fetched) /\ OfProgram(id.ins) /\ (~id.real => id.ins = Nop)

\* The word on the instruction wires and the pc beside it belong together when it is
\* not flushed; the cycle behind a flush is never frozen.
FetchOK ==
  /\ ~flush_q => fetched = InstrAt(prog, ifid_pc) /\ pc = (ifid_pc + 1) % W
  /\ flush_q => ~mem_hold
  /\ id.real => id.ins = InstrAt(prog, id.pc)

\* The next instruction to leave EX is in EX, or else on the instruction wires, or else
\* about to be fetched.  A jump that waited behind a load jumps again.
NextOK ==
  /\ id.real => id.pc = apc
  /\ id.real /\ ~flush_q => ifid_pc = (apc + 1) % W
  /\ id.real /\ flush_q => redirect_valid /\ ex.mr
  /\ ~id.real /\ ~flush_q => ifid_pc = apc
  /\ ~id.real /\ flush_q => pc = apc

\* The bundles behind EX, and the load-use distance.
BundlesOK ==
  /\ DOMAIN ex = DOMAIN ExEmpty /\ ex.wen \in BOOLEAN /\ ex.mr \in BOOLEAN /\ ex.mw \in BOOLEAN
  /\ wb.wen \in BOOLEAN
  /\ ex.rd \in Named(prog) /\ wb.rd \in Named(prog)
  /\ regs = [r \in Named(prog) |-> regs[r]] /\ regs[0] = 0
  /\ ex.mr => ex.wen /\ ~ex.mw
  /\ ex.mr /\ ex.rd # 0 => ex.rd \notin {id.ins.rs1, id.ins.rs2}

\* An operand that is not forwarded is in the register file still.
Current(r, v) ==
  IF r = 0 THEN v = 0
  ELSE (ex.wen /\ ex.rd = r) \/ (wb.wen /\ wb.rd = r) \/ v = regs[r]
Divided    == div_busy \/ div.done
OperandsOK == ~Divided => Current(id.ins.rs1, id.a) /\ Current(id.ins.rs2, id.b)

\* The divider works for the instruction in EX, on the operands it read in its first
\* cycle: nothing is left behind EX to write them.
DivisionOK ==
  Divided => /\ is_div /\ ~ex.wen /\ ~ex.mr /\ ~ex.mw
             /\ Divides(div, id.ins.op, absRegs[id.ins.rs1], absRegs[id.ins.rs2])

\* What an interrupt may save: while interrupts are enabled, the pc in EX and, in
\* the cycles behind a redirect, its target, name the next instruction.
InterruptOK ==
  /\ win \in 0..3 /\ DOMAIN csr = DOMAIN CsrReset
  /\ win = 3 => flush_q
  /\ win = 2 => ~id.real
  /\ win # 0 /\ csr.mie /\ ~(id.real /\ flush_q) => rtq = apc
  /\ id.pc # 0 /\ csr.mie => id.pc = apc
  /\ flush_q /\ csr.mie /\ ~id.real => ifid_pc = apc

\* A load in MEM is the instruction before the next one.
AfterLoad ==
  ex.mr => \E n \in DOMAIN prog : prog[n].op \in Loads /\ prog[n].rd = ex.rd /\ apc = n % W

CoreInv == /\ CodeOK /\ FetchOK /\ NextOK /\ BundlesOK /\ OperandsOK /\ DivisionOK /\ InterruptOK
           /\ AfterLoad

-----------------------------------------------------------------------------
(* The instructions and the registers.                                     *)

LEMMA NopFacts == Nop.op = "addi" /\ Nop.rd = 0 /\ Nop.rs1 = 0 /\ Nop.rs2 = 0
BY DEF Nop, Plain

LEMMA OpFacts ==
  /\ "addi" \notin Loads \cup Stores \cup Branches \cup Jumps \cup Once
  /\ \A op \in Branches \cup Jumps : op \notin Loads \cup Stores \cup Once
  /\ \A op \in Loads : op \notin Stores \cup Once /\ op \in Writers
  /\ \A op \in Once : op \notin Stores
  /\ \A op \in CsrOps \cup Traps \cup {"mret"} : op \notin DivOps
BY DEF Once, DivOps, Loads, Stores, Branches, Jumps, CsrOps, CsrRegOps, CsrImmOps, Traps, Writers

LEMMA CodeAt ==
  ASSUME NEW a
  PROVE  OfProgram(InstrAt(prog, a)) /\ OfProgram(Nop)
<1>1. OfProgram(Nop)
  BY NopFacts DEF OfProgram, Named
<1>2. CASE a + 1 \in DOMAIN prog
  <2>1. {prog[a + 1].rd, prog[a + 1].rs1, prog[a + 1].rs2} \subseteq Named(prog)
    BY <1>2 DEF Named
  <2> QED
    BY <1>1, <1>2, <2>1 DEF OfProgram, InstrAt
<1> QED
  BY <1>1, <1>2 DEF InstrAt

LEMMA WriteRegFacts ==
  ASSUME NEW f, NEW r \in DOMAIN f, NEW v, f = [s \in DOMAIN f |-> f[s]]
  PROVE  /\ DOMAIN WriteReg(f, r, v) = DOMAIN f
         /\ WriteReg(f, r, v) = [s \in DOMAIN f |-> WriteReg(f, r, v)[s]]
         /\ \A s \in DOMAIN f : WriteReg(f, r, v)[s] = IF s = r /\ r # 0 THEN v ELSE f[s]
         /\ WriteReg(WriteReg(f, r, v), r, v) = WriteReg(f, r, v)
BY DEF WriteReg

-----------------------------------------------------------------------------
(* The four kinds of a cycle.                                              *)

\* The hypotheses of a step, which keep apart what executes more than once or not at all
\* when it falls together: what a load in MEM holds in EX, and an interrupt and a division.
Calm  == timer_int => ~div_stall
Apart == (mem_hold => id.ins.op \notin Once) /\ Calm

\* A flush never meets a division that waits.
LEMMA FlushIsNoDivision == Calm /\ flush => ~div_stall /\ (is_div => timer_int)
<1>1. flush /\ ~timer_int => id.ins.op \in Branches \cup Jumps \cup CsrOps \cup Traps \cup {"mret"}
  BY DEF flush, redirect_valid, take_branch, trap_valid, trap_taken, is_exception, mret, csr_illegal
<1>2. flush /\ ~timer_int => ~is_div
  BY <1>1, OpFacts DEF is_div, Once
<1> QED
  BY <1>2 DEF Calm, div_stall

\* A cycle with a load that waits for its word: EX and what is behind it stand still.
LEMMA FrozenCycle ==
  ASSUME CodeOK, BundlesOK, Apart, Next, mem_hold
  PROVE  /\ ~trap_valid /\ ~commit /\ ~mem_hold'
         /\ UNCHANGED <<id, ex, wb, csr, apc, fetched, dmem, prog>>
         /\ (flush_q' <=> redirect_valid)
         /\ redirect_valid => pc' = redirect_target /\ ifid_pc' = redirect_target
         /\ ~redirect_valid => pc' = pc /\ ifid_pc' = ifid_pc
<1>1. ex.mr /\ ~ex.mw /\ ~hold /\ IsData(ex.val)
  BY DEF mem_hold, BundlesOK
<1>2. id.ins.op \notin Once
  BY DEF Apart
<1>3. ~trap_taken /\ ~mret /\ ~trap_valid /\ ~write_en /\ ~div_stall
  BY <1>1, <1>2 DEF div_stall, is_div, trap_valid, trap_taken, timer_int, int_window, is_exception, mret, csr_illegal,
                    write_en, Once
<1>4. freeze
  BY DEF freeze
<1>5. UNCHANGED <<id, ex>>
  BY <1>3, <1>4 DEF Next, Decode, DecodeHold, DecodeBubble, DecodeCapture, Exec
<1>6. UNCHANGED <<wb, dmem>> /\ hold'
  BY <1>1 DEF Next, Memory, Stored
<1>7. UNCHANGED csr
  BY <1>3 DEF Next, CsrEdge
<1>8. ~commit
  BY DEF commit
<1>9. UNCHANGED apc
  BY <1>3, <1>8 DEF Next, History
<1>10. ~mem_hold'
  BY <1>6 DEF mem_hold
<1>11. /\ UNCHANGED fetched /\ flush_q' = flush
       /\ redirect_valid => pc' = redirect_target /\ ifid_pc' = redirect_target
       /\ ~redirect_valid => pc' = pc /\ ifid_pc' = ifid_pc
  BY <1>3, <1>4 DEF Next, Fetch
<1> QED
  BY <1>3, <1>5, <1>6, <1>7, <1>8, <1>9, <1>10, <1>11 DEF Next, flush

\* What moves in every other cycle; a waiting division hands on nothing.
LEMMA MovingCycle ==
  ASSUME CodeOK, Next, ~mem_hold
  PROVE  /\ ex' = IF trap_valid \/ div_stall THEN Killed ELSE Executed
         /\ wb' = [wen |-> ex.wen, rd |-> ex.rd, val |-> IF ex.mr THEN Loaded ELSE ex.val]
         /\ dmem' = Stored /\ prog' = prog /\ WriteBack /\ CsrEdge /\ RedirectDrain
         /\ flush_q' = flush
         /\ commit = (id.real /\ ~trap_valid /\ ~div_stall)
BY DEF Next, Exec, Memory, Fetch, commit

\* A division keeps the instruction in EX and the front end.
LEMMA DividingCycle ==
  ASSUME CodeOK, NextOK, BundlesOK, Apart, Next, div_stall
  PROVE  /\ ~mem_hold /\ ~trap_valid /\ ~redirect_valid /\ ~flush_q /\ id.real /\ ~commit
         /\ UNCHANGED <<id, fetched, ifid_pc, pc, apc, csr, rtq, prog>>
         /\ ~flush_q' /\ ~mem_hold'
         /\ ~ex'.wen /\ ~ex'.mr /\ ~ex'.mw /\ ex' = Killed
         /\ win' = IF win # 0 THEN win - 1 ELSE 0
<1>1. id.ins.op \in DivOps /\ id.ins.op \in Once /\ id.real
  BY NopFacts, OpFacts DEF div_stall, is_div, Once, CodeOK
<1>2. ~mem_hold
  BY <1>1 DEF Apart
<1>3. ~flush /\ ~trap_valid /\ ~redirect_valid
  BY FlushIsNoDivision DEF Apart, flush
<1>4. ~flush_q
  BY <1>1, <1>3 DEF NextOK
<1>5. id' = id
  BY DEF Next, Decode, DecodeHold, DecodeBubble, DecodeCapture
<1>6. UNCHANGED <<fetched, ifid_pc, pc>> /\ flush_q' = flush
  BY <1>3 DEF Next, Fetch, freeze
<1>7. ~commit
  BY DEF commit
<1>8. UNCHANGED <<apc, rtq, prog>> /\ win' = IF win # 0 THEN win - 1 ELSE 0
  BY <1>3, <1>7 DEF Next, History, RedirectDrain
<1>9. UNCHANGED csr
  <2>1. id.ins.op \notin CsrOps
    BY <1>1, OpFacts
  <2> QED
    BY <1>3, <2>1 DEF Next, CsrEdge, trap_valid, write_en
<1>10. ex' = Killed /\ ~ex'.wen /\ ~ex'.mr /\ ~ex'.mw
  <2>1. ex' = Killed
    BY DEF Next, Exec
  <2> QED
    BY <2>1 DEF Killed, BundlesOK, ExEmpty
<1>11. ~mem_hold'
  BY <1>10 DEF mem_hold
<1> QED
  BY <1>1, <1>2, <1>3, <1>4, <1>5, <1>6, <1>7, <1>8, <1>9, <1>10, <1>11

\* A flush empties the decode stage and sends the fetch to the target.
LEMMA FlushCycle ==
  ASSUME CodeOK, Apart, Next, ~mem_hold, flush
  PROVE  /\ id' = Bubble /\ flush_q' /\ ~div_stall
         /\ trap_valid => pc' = trap_target /\ apc' = trap_target
         /\ ~trap_valid => pc' = redirect_target /\ ifid_pc' = redirect_target
         /\ ~redirect_valid => ifid_pc' = trap_target
         /\ ~trap_valid /\ id.real => apc' = redirect_target
<1>1. ~div_stall
  BY FlushIsNoDivision DEF Apart
<1>2. id' = Bubble
  BY <1>1 DEF Next, Decode, DecodeHold, DecodeBubble, DecodeCapture
<1> QED
  BY <1>1, <1>2 DEF Next, Fetch, History, commit, flush

\* A load and its consumer are kept apart by a bubble.
LEMMA StallCycle ==
  ASSUME CodeOK, Next, ~mem_hold, ~flush, stall
  PROVE  /\ id' = Bubble /\ UNCHANGED <<fetched, ifid_pc, pc>> /\ ~flush_q' /\ ~flush_q
         /\ id.ins.op \in Loads /\ ~div_stall
<1>0. id.ins.op \in Loads
  BY DEF stall
<1>1. ~div_stall /\ ~trap_valid /\ ~redirect_valid /\ freeze
  BY <1>0, OpFacts DEF flush, freeze, div_stall, is_div, Once
<1>2. id' = Bubble
  BY <1>1 DEF Next, Decode, DecodeHold, DecodeBubble, DecodeCapture
<1>3. ~flush_q
  BY NopFacts DEF stall, if_id_instr, if_id_flush
<1> QED
  BY <1>0, <1>1, <1>2, <1>3 DEF Next, Fetch

\* The instruction on the wires moves to EX.
LEMMA CaptureCycle ==
  ASSUME CodeOK, Next, ~mem_hold, ~flush, ~stall, ~div_stall
  PROVE  /\ id'.pc = ifid_pc /\ id'.ins = if_id_instr /\ (id'.real <=> ~flush_q)
         /\ id'.real \in BOOLEAN
         /\ id'.a = ReadReg(if_id_instr.rs1) /\ id'.b = ReadReg(if_id_instr.rs2)
         /\ if_id_instr = IF flush_q THEN Nop ELSE fetched
         /\ fetched' = InstrAt(prog, pc) /\ ifid_pc' = pc /\ pc' = (pc + 1) % W /\ ~flush_q'
<1>1. ~trap_valid /\ ~redirect_valid /\ ~freeze
  BY DEF flush, freeze
<1>2. if_id_flush = flush_q
  BY DEF if_id_flush, CodeOK
<1>3. id' = [pc |-> ifid_pc, ins |-> if_id_instr,
             a |-> ReadReg(if_id_instr.rs1), b |-> ReadReg(if_id_instr.rs2),
             real |-> ~flush_q]
  BY <1>1, <1>2 DEF Next, Decode, DecodeHold, DecodeBubble, DecodeCapture
<1>4. id'.real <=> ~flush_q
  BY <1>3, Zenon
<1>5. id'.real = ~flush_q
  BY <1>3
<1>6. /\ id'.pc = ifid_pc /\ id'.ins = if_id_instr
      /\ id'.a = ReadReg(if_id_instr.rs1) /\ id'.b = ReadReg(if_id_instr.rs2)
  BY <1>3
<1> QED
  BY <1>1, <1>2, <1>4, <1>5, <1>6 DEF Next, Fetch, if_id_instr

-----------------------------------------------------------------------------
(* The program's view.                                                     *)

Written == IF wb.wen THEN WriteReg(regs, wb.rd, wb.val) ELSE regs

LEMMA ViewOfRegs ==
  ASSUME BundlesOK
  PROVE  /\ absRegs = IF ex.wen THEN WriteReg(Written, ex.rd, IF ex.mr THEN Loaded ELSE ex.val)
                      ELSE Written
         /\ Written = [r \in Named(prog) |-> Written[r]]
         /\ \A r \in Named(prog) :
              Written[r] = IF wb.wen /\ wb.rd = r /\ r # 0 THEN wb.val ELSE regs[r]
         /\ \A r \in Named(prog) :
              absRegs[r] = IF ex.wen /\ ex.rd = r /\ r # 0 THEN IF ex.mr THEN Loaded ELSE ex.val
                           ELSE Written[r]
<1>1. /\ wb.rd \in DOMAIN regs /\ DOMAIN regs = Named(prog) /\ regs = [s \in DOMAIN regs |-> regs[s]]
      /\ ex.rd \in Named(prog)
  BY DEF BundlesOK
<1>2. absRegs = IF ex.wen THEN WriteReg(Written, ex.rd, IF ex.mr THEN Loaded ELSE ex.val) ELSE Written
  BY DEF absRegs, Written
<1>3. /\ Written = [r \in Named(prog) |-> Written[r]]
      /\ \A r \in Named(prog) :
           Written[r] = IF wb.wen /\ wb.rd = r /\ r # 0 THEN wb.val ELSE regs[r]
  <2>1. CASE wb.wen
    <3>1. Written = WriteReg(regs, wb.rd, wb.val)
      BY <2>1 DEF Written
    <3> QED
      BY <1>1, <2>1, <3>1, WriteRegFacts
  <2>2. CASE ~wb.wen
    BY <1>1, <2>2 DEF Written
  <2> QED
    BY <2>1, <2>2
<1>4. ASSUME NEW r \in Named(prog)
      PROVE  absRegs[r] = IF ex.wen /\ ex.rd = r /\ r # 0 THEN IF ex.mr THEN Loaded ELSE ex.val
                          ELSE Written[r]
  <2>1. DOMAIN Written = Named(prog) /\ Written = [s \in DOMAIN Written |-> Written[s]]
    BY <1>3
  <2> HIDE DEF Written
  <2> QED
    BY <1>1, <1>2, <2>1, WriteRegFacts
<1> QED
  BY <1>2, <1>3, <1>4

LEMMA ViewIsWords ==
  ASSUME TypeInv, BundlesOK
  PROVE  absRegs[id.ins.rs1] \in Word /\ absRegs[id.ins.rs2] \in Word
<1>1. regs \in [Named(prog) -> Word] /\ wb.val \in Word /\ ex.val \in Word
  BY DEF TypeInv, TypeOK
<1>2. ASSUME NEW r \in Named(prog) PROVE absRegs[r] \in Word
  BY <1>1, ViewOfRegs, MemoryWires
<1> QED
  BY <1>2 DEF TypeInv, NamedBy

\* Forwarding gives the registers of the program's view.
LEMMA Operands ==
  ASSUME CodeOK, BundlesOK, OperandsOK, ~Divided
  PROVE  rs1_data = absRegs[id.ins.rs1] /\ rs2_data = absRegs[id.ins.rs2]
<1>1. ASSUME NEW r \in Named(prog), NEW v, Current(r, v), ex.mr /\ ex.rd # 0 => ex.rd # r
      PROVE  Forward(r, v) = absRegs[r]
  <2>1. /\ Written[r] = IF wb.wen /\ wb.rd = r /\ r # 0 THEN wb.val ELSE regs[r]
        /\ absRegs[r] = IF ex.wen /\ ex.rd = r /\ r # 0 THEN IF ex.mr THEN Loaded ELSE ex.val
                        ELSE Written[r]
    BY ViewOfRegs
  <2>2. regs[0] = 0
    BY DEF BundlesOK
  <2> QED
    BY <1>1, <2>1, <2>2 DEF Forward, Current
<1>2. id.ins.rs1 \in Named(prog) /\ id.ins.rs2 \in Named(prog)
  BY DEF CodeOK, OfProgram
<1> QED
  BY <1>1, <1>2 DEF BundlesOK, OperandsOK, rs1_data, rs2_data

\* While a load waits, the view stands still.
LEMMA FrozenView ==
  ASSUME CodeOK, BundlesOK, Apart, Next, mem_hold
  PROVE  absRegs' = absRegs /\ Stored' = Stored
<1>1. UNCHANGED <<ex, wb, dmem, prog>> /\ ~ex.mw
  BY FrozenCycle DEF BundlesOK, mem_hold
<1>2. Stored' = Stored
  BY <1>1 DEF Stored
<1>3. Loaded' = Loaded
  BY <1>1 DEF Loaded
<1>4. regs' = Written
  BY DEF Next, WriteBack, Written
<1>5. Written' = Written
  <2>1. CASE wb.wen
    <3>1. Written' = WriteReg(WriteReg(regs, wb.rd, wb.val), wb.rd, wb.val)
      BY <1>1, <1>4, <2>1 DEF Written
    <3>2. wb.rd \in DOMAIN regs /\ regs = [s \in DOMAIN regs |-> regs[s]]
      BY DEF BundlesOK
    <3> QED
      BY <2>1, <3>1, <3>2, WriteRegFacts DEF Written
  <2>2. CASE ~wb.wen
    BY <1>1, <1>4, <2>2 DEF Written
  <2> QED
    BY <2>1, <2>2
<1> QED
  BY <1>1, <1>2, <1>3, <1>5 DEF absRegs, Written

\* Every other cycle moves the view behind the instruction in EX.
LEMMA MovingView ==
  ASSUME CodeOK, Next, ~mem_hold
  PROVE  /\ absRegs' = IF ex'.wen THEN WriteReg(absRegs, ex'.rd, IF ex'.mr THEN Loaded' ELSE ex'.val)
                       ELSE absRegs
         /\ dmem' = Stored
<1>1. /\ wb' = [wen |-> ex.wen, rd |-> ex.rd, val |-> IF ex.mr THEN Loaded ELSE ex.val]
      /\ dmem' = Stored
  BY MovingCycle
<1>2. regs' = Written
  BY DEF Next, WriteBack, Written
<1>3. Written' = absRegs
  BY <1>1, <1>2 DEF Written, absRegs
<1> QED
  BY <1>1, <1>3 DEF absRegs, Written

LEMMA DividingView ==
  ASSUME CodeOK, NextOK, BundlesOK, Apart, Next, div_stall
  PROVE  absRegs' = absRegs /\ Stored' = Stored
<1>1. ~mem_hold /\ ~ex'.wen /\ ~ex'.mw
  BY DividingCycle
<1>2. absRegs' = absRegs /\ dmem' = Stored
  BY <1>1, MovingView
<1> QED
  BY <1>1, <1>2 DEF Stored

-----------------------------------------------------------------------------
(* The steps of the invariant, part by part.                               *)

LEMMA OnlyCodeRedirects ==
  ASSUME CodeOK
  PROVE  /\ redirect_valid => id.real /\ id.ins.op \notin Loads \cup Stores \cup Once
         /\ is_exception \/ mret => id.real /\ id.ins.op \in Once
         /\ ~id.real => id.ins = Nop /\ id.ins.op = "addi"
<1>1. redirect_valid => id.ins.op \in Branches \cup Jumps
  BY DEF redirect_valid, take_branch
<1>2. is_exception \/ mret => id.ins.op \in Once
  BY DEF is_exception, mret, csr_illegal, Once
<1>3. ~id.real => id.ins = Nop /\ id.ins.op = "addi"
  BY NopFacts DEF CodeOK
<1> QED
  BY <1>1, <1>2, <1>3, OpFacts

LEMMA CodeStep == CodeOK /\ BundlesOK /\ Apart /\ Next => CodeOK'
<1> SUFFICES ASSUME CodeOK, BundlesOK, Apart, Next PROVE CodeOK'
  OBVIOUS
<1>0. prog' = prog /\ flush_q' \in BOOLEAN
  BY DEF Next, CodeOK, Fetch, flush
<1>1. \A i : OfProgram(i)' <=> OfProgram(i)
  BY <1>0 DEF OfProgram
<1>2. OfProgram(fetched') /\ OfProgram(Nop)
  BY <1>0, CodeAt DEF CodeOK, Next, Fetch
<1>3. OfProgram(id'.ins) /\ (~id'.real => id'.ins = Nop) /\ id'.real \in BOOLEAN
  <2>1. CASE id' = id
    BY <2>1 DEF CodeOK
  <2>2. CASE id' = Bubble
    BY <1>2, <2>2 DEF Bubble
  <2>3. CASE ~mem_hold /\ ~flush /\ ~stall /\ ~div_stall
    BY <1>2, <2>3, CaptureCycle DEF CodeOK
  <2>4. CASE div_stall
    BY <2>1, <2>4 DEF Next, Decode, DecodeHold, DecodeBubble, DecodeCapture
  <2> QED
    BY <2>1, <2>2, <2>3, <2>4, FrozenCycle, FlushCycle, StallCycle
<1> QED
  BY <1>0, <1>1, <1>2, <1>3 DEF CodeOK, OfProgram

LEMMA FetchStep == CodeOK /\ BundlesOK /\ Apart /\ FetchOK /\ NextOK /\ Next => FetchOK'
<1> SUFFICES ASSUME CodeOK, BundlesOK, Apart, FetchOK, NextOK, Next PROVE FetchOK'
  OBVIOUS
<1>0. prog' = prog
  BY DEF Next
<1>1. CASE mem_hold
  BY <1>0, <1>1, FrozenCycle DEF FetchOK
<1>2. CASE ~mem_hold /\ flush
  <2>1. id' = Bubble /\ flush_q' /\ ~div_stall
    BY <1>2, FlushCycle
  <2>2. ~mem_hold'
    <3>1. CASE trap_valid
      BY <1>2, <2>1, <3>1, MovingCycle DEF Killed, BundlesOK, ExEmpty, mem_hold
    <3>2. CASE ~trap_valid
      <4>1. id.ins.op \notin Loads
        BY <1>2, <3>2, OnlyCodeRedirects DEF flush
      <4>2. ex' = Executed
        BY <1>2, <2>1, <3>2, MovingCycle
      <4>3. ~ex'.mr
        BY <4>1, <4>2 DEF Executed
      <4> QED
        BY <4>3 DEF mem_hold
    <3> QED
      BY <3>1, <3>2
  <2> QED
    BY <2>1, <2>2 DEF FetchOK, Bubble
<1>3. CASE ~mem_hold /\ ~flush /\ stall
  BY <1>0, <1>3, StallCycle DEF FetchOK, Bubble
<1>4. CASE div_stall
  BY <1>0, <1>4, DividingCycle DEF FetchOK
<1>5. CASE ~mem_hold /\ ~flush /\ ~stall /\ ~div_stall
  BY <1>0, <1>5, CaptureCycle DEF FetchOK
<1> QED
  BY <1>1, <1>2, <1>3, <1>4, <1>5

LEMMA NextStep ==
  CodeOK /\ BundlesOK /\ Apart /\ FetchOK /\ NextOK /\ Next => NextOK'
<1> SUFFICES ASSUME CodeOK, BundlesOK, Apart, FetchOK, NextOK, Next PROVE NextOK'
  OBVIOUS
<1>0. id.real \in BOOLEAN /\ flush_q \in BOOLEAN
  BY DEF CodeOK
\* A jump that waits keeps its operands.
<1>1. CASE mem_hold
  <2>1. /\ UNCHANGED <<id, ex, wb, apc>> /\ (flush_q' <=> redirect_valid) /\ ex.mr /\ ~flush_q
        /\ ~redirect_valid => pc' = pc /\ ifid_pc' = ifid_pc
    BY <1>1, FrozenCycle DEF mem_hold, FetchOK
  <2>2. redirect_valid' <=> redirect_valid
    BY <2>1 DEF redirect_valid, rs1_data, rs2_data, Forward
  <2>3. redirect_valid => id.real
    BY OnlyCodeRedirects
  <2> QED
    BY <2>1, <2>2, <2>3 DEF NextOK
<1>2. CASE ~mem_hold /\ flush
  <2>1. id' = Bubble /\ flush_q'
    BY <1>2, FlushCycle
  <2>2. pc' = apc'
    BY <1>2, FlushCycle, OnlyCodeRedirects DEF flush
  <2> QED
    BY <2>1, <2>2 DEF NextOK, Bubble
<1>3. CASE div_stall
  BY <1>3, DividingCycle DEF NextOK
<1>4. CASE ~mem_hold /\ ~flush /\ ~div_stall
  <2>1. /\ ~(id.real /\ flush_q) /\ ~trap_valid /\ ~redirect_valid
    BY <1>4 DEF NextOK, flush
  <2>2. apc' = IF id.real THEN (id.pc + 1) % W ELSE apc
    BY <1>4, <2>1, MovingCycle DEF Next, History
  <2>3. CASE stall
    <3>1. id' = Bubble /\ UNCHANGED <<ifid_pc, pc>> /\ ~flush_q' /\ ~flush_q /\ id.ins.op \in Loads
      BY <1>4, <2>3, StallCycle
    <3>2. id.real
      BY <3>1, OnlyCodeRedirects, OpFacts
    <3> QED
      BY <2>2, <3>1, <3>2 DEF NextOK, Bubble
  <2>4. CASE ~stall
    <3>1. /\ id'.pc = ifid_pc /\ (id'.real <=> ~flush_q) /\ ifid_pc' = pc /\ ~flush_q'
      BY <1>4, <2>4, CaptureCycle
    <3>2. CASE flush_q
      BY <1>0, <2>1, <2>2, <3>1, <3>2 DEF NextOK
    <3>3. CASE ~flush_q
      <4>1. ifid_pc = apc'
        BY <2>2, <3>3 DEF NextOK
      <4>2. pc = (ifid_pc + 1) % W
        BY <3>3 DEF FetchOK
      <4> QED
        BY <3>1, <3>3, <4>1, <4>2 DEF NextOK
    <3> QED
      BY <3>2, <3>3
  <2> QED
    BY <2>3, <2>4
<1> QED
  BY <1>1, <1>2, <1>3, <1>4

\* The register file after its edge.
LEMMA RegsEdge ==
  ASSUME CodeOK, BundlesOK, WriteBack
  PROVE  /\ regs' = [r \in Named(prog) |-> regs'[r]]
         /\ \A r \in Named(prog) :
              regs'[r] = IF wb.wen /\ wb.rd = r /\ r # 0 THEN wb.val ELSE regs[r]
<1>1. wb.rd \in DOMAIN regs /\ DOMAIN regs = Named(prog) /\ regs = [s \in DOMAIN regs |-> regs[s]]
  BY DEF BundlesOK
<1>2. CASE wb.wen
  <2>1. regs' = WriteReg(regs, wb.rd, wb.val)
    BY <1>2 DEF WriteBack
  <2> QED
    BY <1>1, <1>2, <2>1, WriteRegFacts
<1>3. CASE ~wb.wen
  BY <1>1, <1>3 DEF WriteBack
<1> QED
  BY <1>2, <1>3

LEMMA BundlesStep == CodeOK /\ BundlesOK /\ Apart /\ Next => BundlesOK'
<1> SUFFICES ASSUME CodeOK, BundlesOK, Apart, Next PROVE BundlesOK'
  OBVIOUS
<1>0. prog' = prog /\ Named(prog)' = Named(prog) /\ 0 \in Named(prog) /\ WriteBack
  BY DEF Next, Named
<1>1. regs' = [r \in Named(prog)' |-> regs'[r]] /\ regs'[0] = 0
  BY <1>0, RegsEdge DEF BundlesOK
<1>2. CASE mem_hold
  <2>1. UNCHANGED <<id, ex, wb>>
    BY <1>2, FrozenCycle
  <2> QED
    BY <1>0, <1>1, <2>1 DEF BundlesOK
<1>3. CASE ~mem_hold
  <2>1. /\ wb' = [wen |-> ex.wen, rd |-> ex.rd, val |-> IF ex.mr THEN Loaded ELSE ex.val]
        /\ ex' = IF trap_valid \/ div_stall THEN Killed ELSE Executed
    BY <1>3, MovingCycle
  <2>2. wb'.wen \in BOOLEAN /\ wb'.rd \in Named(prog)
    BY <2>1 DEF BundlesOK
  <2>3. CASE trap_valid \/ div_stall
    <3>1. /\ DOMAIN ex' = DOMAIN ExEmpty /\ ex'.wen = FALSE /\ ex'.mr = FALSE /\ ex'.mw = FALSE
          /\ ex'.rd = ex.rd
      BY <2>1, <2>3 DEF Killed, BundlesOK, ExEmpty
    <3> QED
      BY <1>0, <1>1, <2>2, <3>1 DEF BundlesOK
  <2>4. CASE ~trap_valid /\ ~div_stall
    <3>1. /\ DOMAIN ex' = DOMAIN ExEmpty /\ ex'.rd = id.ins.rd
          /\ ex'.wen = (id.ins.op \in Writers) /\ ex'.mr = (id.ins.op \in Loads)
          /\ ex'.mw = (id.ins.op \in Stores)
      BY <2>1, <2>4 DEF Executed, ExEmpty
    <3>2. id.ins.rd \in Named(prog)
      BY DEF CodeOK, OfProgram
    <3>3. ASSUME id.ins.op \in Loads, id.ins.rd # 0
          PROVE  id.ins.rd \notin {id'.ins.rs1, id'.ins.rs2}
      <4>1. ~flush
        BY <2>4, <3>3, OnlyCodeRedirects DEF flush
      <4>2. CASE stall
        BY <1>3, <3>3, <4>1, <4>2, StallCycle, NopFacts DEF Bubble
      <4>3. CASE ~stall
        BY <1>3, <2>4, <3>3, <4>1, <4>3, CaptureCycle DEF stall
      <4> QED
        BY <4>2, <4>3
    <3> QED
      BY <1>0, <1>1, <2>2, <3>1, <3>2, <3>3, OpFacts DEF BundlesOK
  <2> QED
    BY <2>3, <2>4
<1> QED
  BY <1>2, <1>3

\* The divider's edge: it starts in the first cycle of a division, on the registers of
\* the program's view, and rests when the quotient has left.
LEMMA DivisionStep ==
  ASSUME TypeInv, CodeOK, NextOK, BundlesOK, OperandsOK, DivisionOK, Apart, Next
  PROVE  DivisionOK' /\ (div_stall => Divided') /\ (~div_stall => ~Divided')
<1> DEFINE op == id.ins.op
           a == absRegs[id.ins.rs1]
           b == absRegs[id.ins.rs2]
<1>1. div' = divider(div, div_start, op, rs1_data, rs2_data)
  BY DEF Next, DivideEdge
<1>2. DividerOK(div) /\ div.state \in {"IDLE", "DIVIDE", "FINISH"} /\ a \in Word /\ b \in Word
  BY ViewIsWords DEF TypeInv, DividerOK, Divider
<1>3. ASSUME div_stall PROVE DivisionOK' /\ Divided'
  <2>1. UNCHANGED <<id, absRegs>> /\ ~ex'.wen /\ ~ex'.mr /\ ~ex'.mw
    BY <1>3, DividingCycle, DividingView
  <2>2. op \in DivOps /\ ~div.done
    BY <1>3 DEF div_stall, is_div
  <2>3. Divides(div', op, a, b)
    <3>1. CASE div_busy
      <4>1. ~div_start /\ Divides(div, op, a, b) /\ div.state # "IDLE"
        BY <3>1 DEF div_start, div_busy, DivisionOK, Divided
      <4>2. div' = divider(div, FALSE, op, rs1_data, rs2_data)
        BY <1>1, <4>1 DEF divider
      <4> HIDE DEF op, a, b
      <4> QED
        BY <1>2, <2>2, <4>1, <4>2, DividerDivides
    <3>2. CASE ~div_busy
      <4>1. rs1_data = a /\ rs2_data = b
        BY <2>2, <3>2, Operands DEF Divided
      <4>2. div_start /\ div.state = "IDLE"
        BY <2>2, <3>2 DEF div_start, is_div, div_busy
      <4>3. div' = divider(div, TRUE, op, a, b)
        BY <1>1, <4>1, <4>2 DEF divider
      <4> HIDE DEF op, a, b
      <4> QED
        BY <1>2, <2>2, <4>2, <4>3, DividerDivides
    <3> QED
      BY <3>1, <3>2
  <2>4. Divided'
    <3>1. div'.state = "IDLE" => div'.done
      BY <2>3 DEF Divides
    <3> QED
      BY <3>1 DEF Divided, div_busy
  <2> QED
    BY <2>1, <2>2, <2>3, <2>4 DEF DivisionOK, is_div
<1>4. ASSUME ~div_stall PROVE ~Divided'
  <2>1. div.state = "IDLE" /\ ~div_start
    <3>1. CASE Divided
      <4>1. is_div /\ div.done /\ Divides(div, op, a, b)
        BY <1>4, <3>1 DEF DivisionOK, div_stall
      <4>2. div.state = "IDLE"
        BY <1>2, <4>1 DEF Divides
      <4> QED
        BY <4>1, <4>2 DEF div_start
    <3>2. CASE ~Divided
      BY <1>4, <3>2 DEF Divided, div_busy, div_stall, div_start
    <3> QED
      BY <3>1, <3>2
  <2>2. div'.state = "IDLE" /\ ~div'.done
    BY <1>1, <2>1 DEF divider, DividerReset
  <2> QED
    BY <2>2 DEF Divided, div_busy
<1>5. ~div_stall => DivisionOK'
  BY <1>4 DEF DivisionOK
<1> QED
  BY <1>3, <1>4, <1>5

LEMMA OperandsStep ==
  ASSUME TypeInv, CodeOK, NextOK, BundlesOK, OperandsOK, DivisionOK, Apart, Next
  PROVE  OperandsOK'
<1>0. prog' = prog /\ WriteBack
  BY DEF Next
<1>1. CASE mem_hold
  <2>1. UNCHANGED <<id, ex, wb>> /\ ~Divided
    BY <1>1, FrozenCycle DEF DivisionOK, mem_hold
  <2>2. ASSUME NEW r \in Named(prog), NEW v, Current(r, v) PROVE Current(r, v)'
    BY <1>0, <2>1, <2>2, RegsEdge DEF Current
  <2>3. id.ins.rs1 \in Named(prog) /\ id.ins.rs2 \in Named(prog)
    BY DEF CodeOK, OfProgram
  <2> QED
    BY <2>1, <2>2, <2>3 DEF OperandsOK, Current
<1>2. CASE id' = Bubble
  BY <1>2, NopFacts DEF Bubble, OperandsOK, Current
<1>3. CASE div_stall
  BY <1>3, DivisionStep DEF OperandsOK
<1>4. CASE ~mem_hold /\ ~flush /\ ~stall /\ ~div_stall
  <2>1. ASSUME NEW r \in Named(prog), NEW v, v = ReadReg(r) PROVE IF r = 0 THEN v = 0 ELSE v = regs'[r]
    <3>1. regs'[r] = IF wb.wen /\ wb.rd = r /\ r # 0 THEN wb.val ELSE regs[r]
      BY <1>0, RegsEdge
    <3> QED
      BY <2>1, <3>1 DEF ReadReg
  <2>2. OfProgram(if_id_instr)
    BY <1>4, CaptureCycle, CodeAt DEF CodeOK
  <2>3. if_id_instr.rs1 \in Named(prog) /\ if_id_instr.rs2 \in Named(prog)
    BY <2>2 DEF OfProgram
  <2>4. /\ id'.ins = if_id_instr
        /\ id'.a = ReadReg(if_id_instr.rs1) /\ id'.b = ReadReg(if_id_instr.rs2)
    BY <1>4, CaptureCycle
  <2> QED
    BY <2>1, <2>3, <2>4 DEF OperandsOK, Current
<1> QED
  BY <1>1, <1>2, <1>3, <1>4, FlushCycle, StallCycle

\* What a trap, a return and a CSR instruction make of the control registers.
LEMMA CsrFileEdge ==
  ASSUME InterruptOK, CsrEdge
  PROVE  /\ DOMAIN csr' = DOMAIN CsrReset
         /\ trap_taken => ~csr'.mie
         /\ id.ins.op \notin Once => trap_taken \/ csr' = csr
<1>1. CASE trap_taken
  BY <1>1 DEF CsrEdge, TrapCsr, InterruptOK, CsrReset
<1>2. CASE ~trap_taken /\ mret
  BY <1>2 DEF CsrEdge, MretCsr, InterruptOK, CsrReset, mret, Once
<1>3. CASE ~trap_taken /\ ~mret
  <2>1. DOMAIN WrittenCsr(csr, id.ins.csr, next_val) = DOMAIN csr
    BY DEF WrittenCsr
  <2> QED
    BY <1>3, <2>1 DEF CsrEdge, InterruptOK, write_en, Once
<1> QED
  BY <1>1, <1>2, <1>3

\* With interrupts enabled, where the next instruction is stays known through the
\* cycles behind a redirect.
LEMMA InterruptStep ==
  CodeOK /\ BundlesOK /\ Apart /\ FetchOK /\ NextOK /\ InterruptOK /\ Next => InterruptOK'
<1> SUFFICES ASSUME CodeOK, BundlesOK, Apart, FetchOK, NextOK, InterruptOK, Next PROVE InterruptOK'
  OBVIOUS
<1>0. /\ NextOK' /\ CsrEdge
      /\ win' = IF redirect_valid THEN 3 ELSE IF win # 0 THEN win - 1 ELSE 0
      /\ rtq' = IF redirect_valid THEN redirect_target ELSE rtq
      /\ flush_q' = flush /\ id.real \in BOOLEAN /\ flush_q \in BOOLEAN
  BY NextStep DEF Next, RedirectDrain, Fetch, CodeOK
<1>1. /\ win' \in 0..3 /\ DOMAIN csr' = DOMAIN CsrReset
      /\ win' = 3 <=> redirect_valid
  BY <1>0, CsrFileEdge DEF InterruptOK
<1>2. win' = 3 => flush_q'
  BY <1>0, <1>1 DEF flush
<1>3. win' = 2 => ~id'.real
  <2> SUFFICES ASSUME win' = 2 PROVE ~id'.real
    OBVIOUS
  <2>1. win = 3 /\ ~redirect_valid /\ flush_q
    BY <1>0, <1>1 DEF InterruptOK
  <2>2. ~id.real /\ ~mem_hold /\ ~div_stall
    BY <2>1, DividingCycle DEF NextOK, FetchOK
  <2> QED
    BY <2>1, <2>2, FlushCycle, StallCycle, CaptureCycle DEF Bubble
\* Nothing in EX changes the enable in the first two cycles behind a redirect.
<1>4. win' # 0 /\ csr'.mie /\ ~(id'.real /\ flush_q') => rtq' = apc'
  <2> SUFFICES ASSUME win' # 0, csr'.mie, ~(id'.real /\ flush_q') PROVE rtq' = apc'
    OBVIOUS
  <2>1. ~trap_taken
    BY <1>0, CsrFileEdge
  <2>2. CASE redirect_valid
    <3>1. id.real /\ ~trap_valid
      BY <2>1, <2>2, OnlyCodeRedirects DEF trap_valid
    <3>2. ~mem_hold
      BY <1>0, <2>2, <3>1, FrozenCycle DEF flush
    <3> QED
      BY <1>0, <2>2, <3>1, <3>2, FlushCycle DEF flush
  <2>3. CASE ~redirect_valid
    <3>1. win \in {2, 3} /\ rtq' = rtq
      BY <1>0, <2>3 DEF InterruptOK
    <3>2. ~id.real
      BY <2>3, <3>1 DEF InterruptOK, NextOK
    <3>3. id.ins.op \notin Once /\ ~is_exception /\ ~mret
      BY <3>2, OnlyCodeRedirects, OpFacts
    <3>4. csr' = csr /\ ~trap_valid
      BY <1>0, <2>1, <3>3, CsrFileEdge DEF trap_valid
    <3>5. apc' = apc
      BY <3>2, <3>4 DEF Next, History, commit
    <3> QED
      BY <3>1, <3>2, <3>4, <3>5 DEF InterruptOK
  <2> QED
    BY <2>2, <2>3
<1>5. id'.pc # 0 /\ csr'.mie => id'.pc = apc'
  <2> SUFFICES ASSUME id'.pc # 0, csr'.mie, ~id'.real PROVE id'.pc = apc'
    BY <1>0 DEF NextOK
  <2>1. ~trap_taken
    BY <1>0, CsrFileEdge
  <2>2. id' # Bubble
    BY DEF Bubble
  <2>3. CASE mem_hold
    <3>1. UNCHANGED <<id, csr, apc>>
      BY <2>3, FrozenCycle
    <3> QED
      BY <3>1 DEF InterruptOK
  <2>4. CASE div_stall
    <3>1. UNCHANGED <<id, csr, apc>>
      BY <2>4, DividingCycle
    <3> QED
      BY <3>1 DEF InterruptOK
  <2>5. CASE ~mem_hold /\ ~div_stall
    <3>1. ~flush /\ ~stall
      BY <2>2, <2>5, FlushCycle, StallCycle
    <3>2. id'.pc = ifid_pc /\ flush_q
      BY <2>5, <3>1, CaptureCycle
    <3>3. ~id.real /\ ~trap_valid
      BY <3>1, <3>2 DEF NextOK, flush
    <3>4. csr' = csr /\ apc' = apc
      <4>1. id.ins.op \notin Once
        BY <3>3, OnlyCodeRedirects, OpFacts
      <4> QED
        BY <1>0, <2>1, <3>3, <4>1, CsrFileEdge DEF Next, History, commit
    <3> QED
      BY <3>2, <3>3, <3>4 DEF InterruptOK
  <2> QED
    BY <2>3, <2>4, <2>5
<1>6. flush_q' /\ csr'.mie /\ ~id'.real => ifid_pc' = apc'
  <2> SUFFICES ASSUME flush_q', csr'.mie, ~id'.real PROVE ifid_pc' = apc'
    OBVIOUS
  <2>1. ~trap_taken /\ flush
    BY <1>0, CsrFileEdge
  <2>2. ~mem_hold
    <3>1. mem_hold => id' = id /\ redirect_valid
      BY <1>0, <2>1, FrozenCycle DEF flush
    <3> QED
      BY <3>1, OnlyCodeRedirects
  <2>3. CASE mret
    <3>1. ~redirect_valid /\ trap_valid
      BY <2>3, OnlyCodeRedirects DEF trap_valid
    <3> QED
      BY <2>1, <2>2, <3>1, FlushCycle
  <2>4. CASE ~mret
    <3>1. redirect_valid /\ ~trap_valid /\ id.real
      BY <2>1, <2>4, OnlyCodeRedirects DEF trap_valid, flush
    <3> QED
      BY <2>1, <2>2, <3>1, FlushCycle
  <2> QED
    BY <2>3, <2>4
<1> QED
  BY <1>1, <1>2, <1>3, <1>4, <1>5, <1>6 DEF InterruptOK

LEMMA AfterLoadStep ==
  CodeOK /\ BundlesOK /\ Apart /\ FetchOK /\ NextOK /\ AfterLoad /\ Next => AfterLoad'
<1> SUFFICES ASSUME CodeOK, BundlesOK, Apart, FetchOK, NextOK, AfterLoad, Next, ex'.mr
             PROVE  \E n \in DOMAIN prog' :
                      prog'[n].op \in Loads /\ prog'[n].rd = ex'.rd /\ apc' = n % W
  BY DEF AfterLoad
<1>0. prog' = prog
  BY DEF Next
<1>1. CASE mem_hold
  <2>1. UNCHANGED <<ex, apc>>
    BY <1>1, FrozenCycle
  <2> QED
    BY <1>0, <2>1 DEF AfterLoad
<1>2. CASE ~mem_hold
  <2>1. ~trap_valid /\ ~div_stall /\ ex' = Executed
    BY <1>2, MovingCycle DEF Killed, BundlesOK, ExEmpty
  <2>2. id.ins.op \in Loads /\ ex'.rd = id.ins.rd
    BY <2>1 DEF Executed
  <2>3. id.real /\ ~redirect_valid
    BY <2>2, OnlyCodeRedirects, OpFacts
  <2>4. id.ins = InstrAt(prog, id.pc)
    BY <2>3 DEF FetchOK
  <2>5. id.pc + 1 \in DOMAIN prog /\ id.ins = prog[id.pc + 1]
    BY <2>2, <2>4, NopFacts, OpFacts DEF InstrAt
  <2>6. apc' = (id.pc + 1) % W
    BY <1>2, <2>1, <2>3, MovingCycle DEF Next, History
  <2> QED
    BY <1>0, <2>2, <2>5, <2>6
<1> QED
  BY <1>1, <1>2

-----------------------------------------------------------------------------
(* The invariant holds.                                                    *)

LEMMA CoreInit == Init => CoreInv
<1> SUFFICES ASSUME Init PROVE CoreInv
  OBVIOUS
<1>1. CodeOK
  BY NopFacts, CodeAt DEF Init, CodeOK, Bubble
<1>2. ~ex.mr /\ ~ex.wen /\ ~wb.wen /\ ~csr.mie /\ win = 0 /\ flush_q /\ id = Bubble
  BY DEF Init, ExEmpty, WbEmpty, CsrReset
<1>3. FetchOK /\ NextOK /\ AfterLoad
  BY <1>2 DEF Init, FetchOK, NextOK, AfterLoad, Bubble, mem_hold
<1>4. BundlesOK
  BY DEF Init, BundlesOK, ExEmpty, WbEmpty, Named
<1>5. OperandsOK /\ DivisionOK
  <2>1. ~Divided
    BY DEF Init, Divided, div_busy, DividerReset
  <2> QED
    BY <2>1, NopFacts DEF Init, OperandsOK, DivisionOK, Current, Bubble
<1>6. InterruptOK
  BY <1>2 DEF Init, InterruptOK, Bubble
<1> QED
  BY <1>1, <1>3, <1>4, <1>5, <1>6 DEF CoreInv

LEMMA LoadsStayApart == CoreInv /\ LoadsApart /\ Calm => Apart
<1> SUFFICES ASSUME CoreInv, LoadsApart, mem_hold, id.ins.op \in Once PROVE FALSE
  BY DEF Apart
<1>1. ex.mr /\ id.real
  BY OnlyCodeRedirects, OpFacts DEF mem_hold, CoreInv
<1>2. PICK n \in DOMAIN prog : prog[n].op \in Loads /\ prog[n].rd = ex.rd /\ apc = n % W
  BY <1>1 DEF CoreInv, AfterLoad
<1>3. id.ins = InstrAt(prog, n % W)
  BY <1>1, <1>2 DEF CoreInv, FetchOK, NextOK
<1> QED
  BY <1>1, <1>2, <1>3 DEF LoadsApart, CoreInv, BundlesOK

LEMMA CoreStep == TypeInv /\ CoreInv /\ Apart /\ [Next]_vars => CoreInv'
<1>1. ASSUME TypeInv, CoreInv, Apart, Next PROVE CoreInv'
  BY <1>1, CodeStep, FetchStep, NextStep, BundlesStep, OperandsStep, DivisionStep, InterruptStep,
     AfterLoadStep DEF CoreInv
<1>2. ASSUME CoreInv, UNCHANGED vars PROVE CoreInv'
  <2>1. absRegs' = absRegs
    BY <1>2 DEF vars, absRegs, Loaded
  <2>2. DivisionOK'
    BY <1>2, <2>1 DEF vars, CoreInv, DivisionOK, Divided, div_busy, is_div
  <2> QED
    BY <1>2, <2>2 DEF vars, CoreInv, CodeOK, OfProgram, FetchOK, NextOK, BundlesOK, OperandsOK, Divided,
         div_busy, Current, InterruptOK, AfterLoad, mem_hold, redirect_valid, rs1_data, rs2_data, Forward
<1> QED
  BY <1>1, <1>2

LEMMA CoreCorrect == Spec /\ []Apart => [](TypeInv /\ CoreInv)
BY CoreInit, CoreStep, TypeInit, TypeStep, PTL DEF Spec

\* The order of the program keeps its loads apart.
LEMMA ProgramStaysApart == Spec /\ LoadsApart /\ []Calm => []Apart
<1>1. LoadsApart /\ [Next]_vars => LoadsApart'
  BY DEF LoadsApart, Next, vars
<1> QED
  BY <1>1, CoreInit, CoreStep, TypeInit, TypeStep, LoadsStayApart, PTL DEF Spec

-----------------------------------------------------------------------------
(* What EX computes.                                                       *)

LEMMA UnitFacts ==
  ASSUME NEW a, NEW b
  PROVE  /\ alu("add", a, b) = (a + b) % W /\ alu("lui_pass", a, b) = b
         /\ alu("or", a, b) = a | b /\ alu("and", a, b) = a & b
BY DEF alu

\* The instance has its own copies of the tables and of the control registers' operators.
LEMMA SameTables ==
  /\ Program!AluOps = AluOps /\ Program!ImmOps = ImmOps /\ Program!MulOps = MulOps
  /\ Program!DivOps = DivOps /\ Program!Loads = Loads /\ Program!Stores = Stores
  /\ Program!Jumps = Jumps /\ Program!Branches = Branches /\ Program!CsrOps = CsrOps
  /\ Program!CsrImmOps = CsrImmOps /\ Program!Traps = Traps /\ Program!Writers = Writers
  /\ Program!AluOfImm = AluOfImm /\ Program!W = W /\ Program!Nop = Nop
  /\ Program!TimerCause = TimerCause
BY DEF Program!AluOps, Program!ImmOps, Program!MulOps, Program!DivOps, Program!Loads,
       Program!Stores, Program!Jumps, Program!Branches, Program!CsrOps, Program!CsrRegOps,
       Program!CsrImmOps, Program!Upper, Program!Traps, Program!Writers, Program!AluOfImm,
       Program!W, Program!Nop, Program!Plain, Program!TimerCause, Program!IMIN,
       AluOps, ImmOps, MulOps, DivOps, Loads, Stores, Jumps, Branches, CsrOps, CsrRegOps, CsrImmOps,
       Upper, Traps, Writers, AluOfImm, W, Nop, Plain, TimerCause, IMIN

LEMMA SameOperators ==
  ASSUME NEW x, NEW y, NEW z
  PROVE  /\ Program!InstrAt(x, y) = InstrAt(x, y)
         /\ Program!WriteReg(x, y, z) = WriteReg(x, y, z)
         /\ Program!csr_rdata(x, y) = csr_rdata(x, y)
         /\ Program!WrittenCsr(x, y, z) = WrittenCsr(x, y, z)
         /\ Program!would_write(x) <=> would_write(x)
         /\ Program!csr_illegal(x) <=> csr_illegal(x)
         /\ Program!CauseOf(x) = CauseOf(x)
         /\ Program!TrapCsr(x, y, z) = TrapCsr(x, y, z)
         /\ Program!MretCsr(x) = MretCsr(x)
<1> USE SameTables
<1>1. Program!InstrAt(x, y) = InstrAt(x, y)
  BY DEF Program!InstrAt, InstrAt
<1>2. Program!WriteReg(x, y, z) = WriteReg(x, y, z)
  BY DEF Program!WriteReg, WriteReg
<1>3. Program!csr_rdata(x, y) = csr_rdata(x, y)
  BY DEF Program!csr_rdata, csr_rdata, Program!ReadOnly, ReadOnly, Program!Flag, Flag
<1>4. Program!WrittenCsr(x, y, z) = WrittenCsr(x, y, z)
  BY DEF Program!WrittenCsr, WrittenCsr, Program!Bit, Bit, Program!IMIN, IMIN
<1>5. Program!would_write(x) <=> would_write(x)
  BY DEF Program!would_write, would_write
<1>6. Program!csr_illegal(x) <=> csr_illegal(x)
  BY <1>5 DEF Program!csr_illegal, csr_illegal, Program!ReadOnly, ReadOnly
<1>7. Program!CauseOf(x) = CauseOf(x)
  BY DEF Program!CauseOf, CauseOf
<1>8. Program!TrapCsr(x, y, z) = TrapCsr(x, y, z)
  BY DEF Program!TrapCsr, TrapCsr
<1>9. Program!MretCsr(x) = MretCsr(x)
  BY DEF Program!MretCsr, MretCsr
<1> QED
  BY <1>1, <1>2, <1>3, <1>4, <1>5, <1>6, <1>7, <1>8, <1>9

Computed == Program!Result(id.ins, absRegs[id.ins.rs1], absRegs[id.ins.rs2])

\* The operands are words, and those of the view, but for a division, which keeps its own.
LEMMA OperandsInEx ==
  ASSUME TypeInv, CoreInv, ~div_stall
  PROVE  /\ absRegs[id.ins.rs1] \in Word /\ absRegs[id.ins.rs2] \in Word
         /\ ~is_div => rs1_data = absRegs[id.ins.rs1] /\ rs2_data = absRegs[id.ins.rs2]
         /\ is_div => div.result = golden_div(id.ins.op, absRegs[id.ins.rs1], absRegs[id.ins.rs2])
<1>1. ~is_div => rs1_data = absRegs[id.ins.rs1] /\ rs2_data = absRegs[id.ins.rs2]
  BY Operands DEF CoreInv, DivisionOK
<1>2. ASSUME is_div
      PROVE  div.result = golden_div(id.ins.op, absRegs[id.ins.rs1], absRegs[id.ins.rs2])
  <2>1. div.done /\ Divides(div, id.ins.op, absRegs[id.ins.rs1], absRegs[id.ins.rs2])
    BY <1>2 DEF div_stall, CoreInv, DivisionOK, Divided
  <2>2. div.state \in {"IDLE", "DIVIDE", "FINISH"}
    BY DEF TypeInv, DividerOK, Divider
  <2> QED
    BY <2>1, <2>2 DEF Divides
<1> QED
  BY <1>1, <1>2, ViewIsWords DEF CoreInv

\* Outside loads the bundle carries the result of the instruction.
LEMMA ResultOfEx ==
  ASSUME TypeInv, CoreInv, ~div_stall, id.real, id.ins.op \in Writers, id.ins.op \notin Loads
  PROVE  Executed.val = Computed
<1> DEFINE a == absRegs[id.ins.rs1]
           b == absRegs[id.ins.rs2]
<1>0. /\ apc = id.pc /\ a \in Word /\ b \in Word /\ id.ins.imm \in Word
      /\ id.ins.op \notin DivOps => rs1_data = a /\ rs2_data = b
  BY OperandsInEx, WiresOfEx DEF CoreInv, NextOK, is_div, Instr
<1> USE SameTables, SameOperators DEF AluOps, ImmOps, AluOfImm, MulOps, DivOps, Loads, Jumps, Upper, CsrOps, CsrRegOps, CsrImmOps
<1>1. CASE id.ins.op \in AluOps
  <2>1. Executed.val = alu(id.ins.op, a, b)
    BY <1>0, <1>1 DEF Executed, result, alu_op, operand_a, operand_b
  <2>2. Computed = golden_alu(id.ins.op, a, b)
    BY <1>1 DEF Computed, Program!Result
  <2> QED
    BY <1>0, <1>1, <2>1, <2>2, AluIsGolden
<1>2. CASE id.ins.op \in ImmOps
  <2>1. Executed.val = alu(AluOfImm[id.ins.op], a, id.ins.imm)
    BY <1>0, <1>2 DEF Executed, result, alu_op, operand_a, operand_b
  <2>2. Computed = golden_alu(AluOfImm[id.ins.op], a, id.ins.imm)
    BY <1>2 DEF Computed, Program!Result
  <2>3. AluOfImm[id.ins.op] \in AluOps
    BY <1>2
  <2> QED
    BY <1>0, <2>1, <2>2, <2>3, AluIsGolden
<1>3. CASE id.ins.op \in MulOps
  <2>1. Executed.val = multiplier(id.ins.op, a, b)
    BY <1>0, <1>3 DEF Executed
  <2>2. Computed = golden_mul(id.ins.op, a, b)
    BY <1>3 DEF Computed, Program!Result
  <2> QED
    BY <1>0, <1>3, <2>1, <2>2, MultiplierIsGolden
<1>4. CASE id.ins.op \in DivOps
  <2>1. Executed.val = div.result
    BY <1>4 DEF Executed
  <2>2. Computed = golden_div(id.ins.op, a, b)
    BY <1>4 DEF Computed, Program!Result
  <2> QED
    BY <1>4, <2>1, <2>2, OperandsInEx DEF is_div
<1>5. CASE id.ins.op \in Jumps
  BY <1>0, <1>5 DEF Executed, Computed, Program!Result
<1>6. CASE id.ins.op \in Upper
  BY <1>0, <1>6, UnitFacts DEF Executed, Computed, Program!Result, result, alu_op, operand_a, operand_b
<1>7. CASE id.ins.op \in CsrOps
  BY <1>7 DEF Executed, Computed, Program!Result
<1> QED
  BY <1>1, <1>2, <1>3, <1>4, <1>5, <1>6, <1>7 DEF Writers

\* The address of an access and of a jump through a register.
LEMMA AddressOfEx ==
  ASSUME id.ins.op \in Loads \cup Stores \cup {"jalr"}
  PROVE  /\ result = (rs1_data + id.ins.imm) % W
         /\ id.ins.op # "jalr" => Executed.val = result
<1> USE DEF AluOps, ImmOps, AluOfImm, MulOps, DivOps, Loads, Stores, Jumps, CsrOps, CsrRegOps, CsrImmOps
<1>1. result = (rs1_data + id.ins.imm) % W
  BY UnitFacts DEF result, alu_op, operand_a, operand_b
<1>2. id.ins.op # "jalr" => Executed.val = result
  BY DEF Executed
<1> QED
  BY <1>1, <1>2

-----------------------------------------------------------------------------
(* Every cycle is a step of the program, or none.                          *)

\* No access crosses the end of a word.
Aligned == ex.mr \/ ex.mw => Fits(ex.op, ex.val)

\* A CSR instruction writes what the reference computes.
LEMMA CsrValueOfEx ==
  ASSUME TypeInv, CoreInv, id.ins.op \in CsrOps
  PROVE  next_val = Program!NextCsrValue(id.ins, csr_rdata(csr, id.ins.csr),
                      IF id.ins.op \in CsrImmOps THEN id.ins.imm ELSE absRegs[id.ins.rs1])
<1> DEFINE old == csr_rdata(csr, id.ins.csr)
<1>1. ~is_div /\ ~div_stall
  BY OpFacts DEF is_div, div_stall
<1>2. src = IF id.ins.op \in CsrImmOps THEN id.ins.imm ELSE absRegs[id.ins.rs1]
  BY <1>1, OperandsInEx DEF src
<1>3. src \in Word /\ old \in Word
  <2>1. id.ins.csr \in Csr /\ id.ins.imm \in Word /\ rs1_data \in Word
    BY WiresOfEx DEF Instr
  <2> QED
    BY <2>1, CsrReads, TrapWires DEF src
<1>4. W - 1 - src \in Word
  BY <1>3, WidthFacts DEF Word
<1>5. old | src = golden_alu("or", old, src) /\ old & (W - 1 - src) = golden_alu("and", old, W - 1 - src)
  <2>1. "or" \in AluOps /\ "and" \in AluOps
    BY DEF AluOps
  <2> HIDE DEF old
  <2> QED
    BY <1>3, <1>4, <2>1, AluIsGolden, UnitFacts
<1>6. next_val = CASE id.ins.op \in {"csrrw", "csrrwi"} -> src
                   [] id.ins.op \in {"csrrs", "csrrsi"} -> golden_alu("or", old, src)
                   [] id.ins.op \in {"csrrc", "csrrci"} -> golden_alu("and", old, W - 1 - src)
  BY <1>5 DEF next_val
<1>7. Program!NextCsrValue(id.ins, old, src) =
        CASE id.ins.op \in {"csrrw", "csrrwi"} -> src
          [] id.ins.op \in {"csrrs", "csrrsi"} -> golden_alu("or", old, src)
          [] id.ins.op \in {"csrrc", "csrrci"} -> golden_alu("and", old, W - 1 - src)
  BY SameTables DEF Program!NextCsrValue
<1> QED
  BY <1>2, <1>6, <1>7

\* What a load brings and what a store writes.
LEMMA AccessOfEx ==
  ASSUME TypeInv, TypeInv', CoreInv, Aligned', ex' = Executed, dmem' = Stored,
         id.ins.op \in Loads \cup Stores
  PROVE  LET i == id.ins
             addr == (absRegs[i.rs1] + i.imm) % W
         IN  /\ i.op \in Loads => Loaded' = golden_load(i.op, Stored, addr)
             /\ i.op \in Stores => Stored' = golden_store(i.op, Stored, addr, absRegs[i.rs2])
<1> DEFINE i == id.ins
           addr == (absRegs[i.rs1] + i.imm) % W
           b == absRegs[i.rs2]
<1>1. ~is_div /\ ~div_stall
  BY OpFacts DEF is_div, div_stall, Once
<1>2. rs1_data = absRegs[i.rs1] /\ rs2_data = b /\ b \in Word
  BY <1>1, OperandsInEx
<1>3. /\ ex'.val = addr /\ ex'.op = i.op /\ ex'.sdata = b
      /\ ex'.mr = (i.op \in Loads) /\ ex'.mw = (i.op \in Stores)
  <2>1. Executed.val = addr
    BY <1>2, AddressOfEx DEF Loads, Stores
  <2> QED
    BY <1>2, <2>1 DEF Executed
<1>4. addr \in Word
  BY <1>2, AddressOfEx, WiresOfEx
<1>5. Fits(i.op, addr)
  BY <1>3 DEF Aligned
<1>6. ASSUME i.op \in Loads PROVE Loaded' = golden_load(i.op, Stored, addr)
  <2>1. Loaded' = core_load(i.op, Stored, addr)
    BY <1>3 DEF Loaded, core_load
  <2> HIDE DEF addr, i
  <2> QED
    BY <1>4, <1>5, <1>6, <2>1, MemoryWires, LoadIsGolden
<1>7. ASSUME i.op \in Stores PROVE Stored' = golden_store(i.op, Stored, addr, b)
  <2>1. Stored' = core_store(i.op, Stored, addr, b)
    BY <1>3, <1>7 DEF Stored, core_store
  <2> HIDE DEF addr, i, b
  <2> QED
    BY <1>2, <1>4, <1>5, <1>7, <2>1, StoreIsGolden
<1> QED
  BY <1>6, <1>7

LEMMA CommitExecutes ==
  ASSUME TypeInv, TypeInv', CoreInv, Apart, Aligned', Next, commit
  PROVE  Program!Execute
<1> DEFINE i == id.ins
           a == absRegs[i.rs1]
           b == absRegs[i.rs2]
<1>0. id.real /\ ~trap_valid /\ ~mem_hold /\ ~div_stall /\ apc = id.pc /\ i = InstrAt(prog, apc)
  BY DEF commit, CoreInv, NextOK, FetchOK
<1>1. a \in Word /\ b \in Word /\ (i.op \notin DivOps => a = rs1_data /\ b = rs2_data)
  BY <1>0, OperandsInEx DEF is_div
<1>2. i.op \notin Traps \cup {"mret"} /\ ~csr_illegal(i) /\ ~trap_taken /\ ~mret
  BY <1>0 DEF trap_valid, trap_taken, is_exception, mret
<1>3. /\ ex' = Executed /\ dmem' = Stored /\ prog' = prog
      /\ absRegs' = IF ex'.wen THEN WriteReg(absRegs, ex'.rd, IF ex'.mr THEN Loaded' ELSE ex'.val)
                    ELSE absRegs
  BY <1>0, MovingCycle, MovingView DEF CoreInv
<1>4. /\ ex'.wen = (i.op \in Writers) /\ ex'.mr = (i.op \in Loads) /\ ex'.mw = (i.op \in Stores)
      /\ ex'.rd = i.rd /\ ex'.val = Executed.val
  BY <1>3 DEF Executed
<1>5. absRegs' = IF i.op \in Writers THEN WriteReg(absRegs, i.rd, Program!Result(i, a, b)) ELSE absRegs
  <2>1. CASE i.op \in Loads
    <3>1. Loaded' = golden_load(i.op, Stored, (a + i.imm) % W)
      BY <1>3, <2>1, AccessOfEx
    <3>2. Program!Result(i, a, b) = golden_load(i.op, Stored, (a + i.imm) % W)
      BY <2>1, SameTables DEF Program!Result, AluOps, ImmOps, AluOfImm, MulOps, DivOps, Loads, Jumps,
                              CsrOps, CsrRegOps, CsrImmOps
    <3> QED
      BY <1>3, <1>4, <2>1, <3>1, <3>2, OpFacts
  <2>2. CASE i.op \notin Loads
    BY <1>0, <1>3, <1>4, <2>2, ResultOfEx DEF Computed
  <2> QED
    BY <2>1, <2>2
<1>6. Stored' = IF i.op \in Stores THEN golden_store(i.op, Stored, (a + i.imm) % W, b) ELSE Stored
  <2>1. CASE i.op \in Stores
    BY <1>3, <2>1, AccessOfEx
  <2>2. CASE i.op \notin Stores
    BY <1>3, <1>4, <2>2 DEF Stored
  <2> QED
    BY <2>1, <2>2
<1>7. csr' = IF i.op \in CsrOps /\ would_write(i)
             THEN WrittenCsr(csr, i.csr, Program!NextCsrValue(i, csr_rdata(csr, i.csr),
                                           IF i.op \in CsrImmOps THEN i.imm ELSE a))
             ELSE csr
  <2>1. csr' = IF write_en THEN WrittenCsr(csr, i.csr, next_val) ELSE csr
    BY <1>2 DEF Next, CsrEdge
  <2> QED
    BY <1>2, <2>1, CsrValueOfEx DEF write_en
<1>8. apc' = CASE i.op = "jalr" -> (a + i.imm) % W
               [] i.op = "jal"  -> i.imm
               [] i.op \in Branches /\ golden_taken(i.op, a, b) -> i.imm
               [] OTHER -> (apc + 1) % W
  <2>1. apc' = IF redirect_valid THEN redirect_target ELSE (apc + 1) % W
    BY <1>0 DEF Next, History
  <2>2. i.op \in Branches \cup Jumps => a = rs1_data /\ b = rs2_data
    BY <1>1, OpFacts DEF Once
  <2>3. ASSUME i.op \in Branches PROVE condition(i.op, a, b) <=> golden_taken(i.op, a, b)
    <3> HIDE DEF i, a, b
    <3> QED
      BY <1>1, <2>3, ConditionIsGolden
  <2> USE DEF redirect_valid, redirect_target, take_branch, Jumps, Branches
  <2>4. CASE i.op = "jalr"
    BY <2>1, <2>2, <2>4, AddressOfEx
  <2>5. CASE i.op = "jal"
    BY <2>1, <2>5
  <2>6. CASE i.op \notin {"jal", "jalr"}
    BY <2>1, <2>2, <2>3, <2>6
  <2> QED
    BY <2>4, <2>5, <2>6
<1> QED
  BY <1>0, <1>2, <1>3, <1>5, <1>6, <1>7, <1>8, SameTables, SameOperators DEF Program!Execute

\* The pc a trap saves.
LEMMA TrapSavesNext == CoreInv /\ Apart /\ trap_taken => trap_pc = apc
<1> SUFFICES ASSUME CoreInv, Apart, trap_taken PROVE trap_pc = apc
  OBVIOUS
<1>1. CASE timer_int
  <2>1. csr.mie /\ ~ex.mr /\ (id.pc # 0 \/ win # 0)
    BY <1>1 DEF timer_int, int_window, redirect_pending
  <2>2. ~(id.real /\ flush_q)
    BY <2>1 DEF CoreInv, NextOK
  <2> QED
    BY <1>1, <2>1, <2>2 DEF trap_pc, redirect_pending, CoreInv, InterruptOK
<1>2. CASE ~timer_int
  <2>1. id.real
    BY <1>2, OnlyCodeRedirects DEF trap_taken, CoreInv
  <2> QED
    BY <1>2, <2>1 DEF trap_pc, CoreInv, NextOK
<1> QED
  BY <1>1, <1>2

LEMMA TrapsAreTaken ==
  ASSUME CoreInv, Apart, Next, trap_valid, timer_int => ~mret
  PROVE  Program!Exception \/ Program!Interrupt \/ Program!Mret
<1>1. ~mem_hold
  BY FrozenCycle DEF CoreInv
<1>2. /\ ex'.wen = FALSE /\ ex'.mw = FALSE /\ dmem' = Stored
      /\ absRegs' = IF ex'.wen THEN WriteReg(absRegs, ex'.rd, IF ex'.mr THEN Loaded' ELSE ex'.val)
                    ELSE absRegs
  BY <1>1, MovingCycle, MovingView, FlushCycle DEF Killed, CoreInv, BundlesOK, ExEmpty
<1>3. absRegs' = absRegs /\ Stored' = Stored /\ prog' = prog /\ apc' = trap_target
  BY <1>2 DEF Stored, Next, History
<1>4. CASE trap_taken
  <2>1. csr' = TrapCsr(csr, apc, trap_cause)
    BY <1>4, TrapSavesNext DEF Next, CsrEdge
  <2>2. ~mret
    <3>1. is_exception => ~mret
      BY DEF is_exception, mret, csr_illegal, Traps, CsrOps, CsrRegOps, CsrImmOps
    <3> QED
      BY <1>4, <3>1 DEF trap_taken
  <2>3. CASE timer_int
    BY <1>3, <2>1, <2>2, <2>3, SameTables, SameOperators
       DEF Program!Interrupt, Program!TrapEntry, trap_cause, trap_target, timer_int
  <2>4. CASE ~timer_int
    <3>1. is_exception /\ id.real
      BY <1>4, <2>4, OnlyCodeRedirects DEF trap_taken, CoreInv
    <3>2. id.ins = InstrAt(prog, apc)
      BY <3>1 DEF CoreInv, NextOK, FetchOK
    <3> QED
      BY <1>3, <2>1, <2>2, <2>4, <3>1, <3>2, SameTables, SameOperators
         DEF Program!Exception, Program!TrapEntry, trap_cause, trap_target, is_exception
  <2> QED
    BY <2>3, <2>4
<1>5. CASE ~trap_taken
  <2>1. mret /\ csr' = MretCsr(csr)
    BY <1>5 DEF trap_valid, Next, CsrEdge
  <2>2. id.ins = InstrAt(prog, apc)
    BY <2>1, OnlyCodeRedirects DEF CoreInv, NextOK, FetchOK
  <2> QED
    BY <1>3, <2>1, <2>2, SameOperators DEF Program!Mret, trap_target, mret
<1> QED
  BY <1>4, <1>5

LEMMA OtherCyclesStutter ==
  ASSUME CoreInv, Apart, Next, ~commit, ~trap_valid
  PROVE  UNCHANGED Program!vars
<1>1. CASE mem_hold
  BY <1>1, FrozenView, FrozenCycle DEF Program!vars, CoreInv
<1>2. CASE div_stall
  BY <1>2, DividingView, DividingCycle DEF Program!vars, CoreInv
<1>3. CASE ~mem_hold /\ ~div_stall
  <2>1. ~id.real
    BY <1>3 DEF commit, CoreInv
  <2>2. id.ins = Nop /\ id.ins.rd = 0 /\ id.ins.op \notin Once \cup Stores \cup Loads
    BY <2>1, OnlyCodeRedirects, NopFacts, OpFacts DEF CoreInv
  <2>3. /\ ex' = Executed /\ dmem' = Stored
        /\ absRegs' = IF ex'.wen THEN WriteReg(absRegs, ex'.rd, IF ex'.mr THEN Loaded' ELSE ex'.val)
                      ELSE absRegs
    BY <1>3, MovingCycle, MovingView DEF CoreInv
  <2>4. ex'.rd = 0 /\ ~ex'.mw
    BY <2>2, <2>3 DEF Executed
  <2>5. absRegs' = absRegs /\ Stored' = Stored
    BY <2>3, <2>4 DEF WriteReg, Stored
  <2>6. csr' = csr /\ apc' = apc /\ prog' = prog
    BY <2>2 DEF Next, CsrEdge, History, trap_valid, write_en, Once
  <2> QED
    BY <2>5, <2>6 DEF Program!vars
<1> QED
  BY <1>1, <1>2, <1>3

\* What the pipeline asks of a run: loads, interrupts and divisions are apart, no interrupt
\* falls into the cycle of an mret, and every access is aligned.
Regular == Apart /\ (timer_int => ~mret) /\ Aligned

LEMMA CycleIsStep ==
  /\ TypeInv /\ TypeInv' /\ CoreInv /\ Regular /\ Regular'
  /\ [Next]_vars
  => [Program!Next]_Program!vars
<1> SUFFICES ASSUME TypeInv, TypeInv', CoreInv, Apart, timer_int => ~mret, Aligned', [Next]_vars
             PROVE  [Program!Next]_Program!vars
  BY DEF Regular
<1>1. CASE Next /\ commit
  BY <1>1, CommitExecutes DEF Program!Next
<1>2. CASE Next /\ trap_valid
  BY <1>2, TrapsAreTaken DEF Program!Next
<1>3. CASE Next /\ ~commit /\ ~trap_valid
  BY <1>3, OtherCyclesStutter
<1>4. CASE UNCHANGED vars
  BY <1>4 DEF vars, Program!vars, absRegs, Stored, Loaded
<1> QED
  BY <1>1, <1>2, <1>3, <1>4

\* cpu_top.v, trap_unit.v: in every regular run, whatever the program, its divisions
\* included, and whenever the timer interrupts it, the pipeline does to the registers, the
\* memory and the CSRs what one instruction at a time would do.
THEOREM ExecutesInOrder == Spec /\ []Regular => ImplementsIsa
<1>1. Init => Program!Init
  BY DEF Init, Program!Init, absRegs, Stored, ExEmpty, WbEmpty, Program!Named, Named,
         Program!DataWord, DataWord, Program!CsrReset, CsrReset
<1>2. Regular => Apart
  BY DEF Regular
<1> QED
  BY <1>1, <1>2, CycleIsStep, CoreCorrect, PTL DEF Spec, ImplementsIsa, Program!Spec

\* cpu_top.v:73-75: where the program keeps its loads apart, the bundle of a load that
\* waits is kept.
THEOREM LoadsAreKept == Spec /\ LoadsApart /\ []Calm => HeldBundleKept
<1>1. CoreInv /\ Apart /\ [Next]_vars => [mem_hold => ex' = ex]_vars
  BY FrozenCycle DEF CoreInv
<1> QED
  BY <1>1, ProgramStaysApart, CoreCorrect, PTL DEF Spec, HeldBundleKept

-----------------------------------------------------------------------------
(* The pc beside an instruction.  An interrupt in the middle of a division *)
(* is the one thing that breaks it.                                        *)

\* Behind a flush neither a load nor a division freezes the fetch.
PairInv ==
  /\ DOMAIN ex = DOMAIN ExEmpty /\ flush_q \in BOOLEAN
  /\ ~flush_q => fetched = InstrAt(prog, ifid_pc)
  /\ flush_q => ~mem_hold /\ ~div_stall
  /\ IF id.real THEN id.ins = InstrAt(prog, id.pc) ELSE id.ins = Nop

LEMMA PairStep == PairInv /\ Calm /\ [Next]_vars => PairInv'
<1>1. ASSUME PairInv, Calm, Next PROVE PairInv'
  <2>1. prog' = prog /\ flush_q' = flush /\ flush_q' \in BOOLEAN
    BY <1>1 DEF Next, Fetch, flush
  <2>2. DOMAIN ex' = DOMAIN ExEmpty
    BY <1>1 DEF PairInv, Next, Exec, Killed, Executed, ExEmpty
  <2>3. CASE flush
    <3>1. ~div_stall
      BY <1>1, <2>3, FlushIsNoDivision
    <3>2. id' = IF mem_hold THEN id ELSE Bubble
      BY <1>1, <2>3, <3>1 DEF Next, Decode, DecodeHold, DecodeBubble, DecodeCapture
    <3>3. ~div_stall'
      <4>1. CASE mem_hold
        <5>1. ~is_div
          BY <1>1, <2>3, <4>1, FlushIsNoDivision DEF timer_int, int_window, mem_hold
        <5> QED
          BY <3>2, <4>1, <5>1 DEF div_stall, is_div
      <4>2. CASE ~mem_hold
        BY <3>2, <4>2, NopFacts, OpFacts DEF div_stall, is_div, Bubble, Once
      <4> QED
        BY <4>1, <4>2
    <3>4. ~mem_hold'
      <4>1. CASE trap_valid
        <5>1. ex' = Killed
          BY <1>1, <3>1, <4>1 DEF Next, Exec
        <5>2. ex'.mr = FALSE
          BY <1>1, <5>1 DEF Killed, PairInv, ExEmpty
        <5> QED
          BY <5>2 DEF mem_hold
      <4>2. CASE ~trap_valid /\ mem_hold
        <5>1. hold'
          BY <1>1, <4>2 DEF Next, Memory, mem_hold
        <5> QED
          BY <5>1 DEF mem_hold
      <4>3. CASE ~trap_valid /\ ~mem_hold
        <5>1. id.ins.op \in Branches \cup Jumps
          BY <2>3, <4>3 DEF flush, redirect_valid, take_branch
        <5>2. ex' = Executed
          BY <1>1, <3>1, <4>3 DEF Next, Exec
        <5>3. ~ex'.mr
          BY <5>1, <5>2, OpFacts DEF Executed
        <5> QED
          BY <5>3 DEF mem_hold
      <4> QED
        BY <4>1, <4>2, <4>3
    <3> QED
      BY <1>1, <2>1, <2>2, <2>3, <3>2, <3>3, <3>4 DEF PairInv, Bubble
  <2>4. CASE ~flush
    <3>1. ~flush_q' /\ ~trap_valid /\ ~redirect_valid
      BY <2>1, <2>4 DEF flush
    <3>2. freeze => ~flush_q
      BY <1>1, NopFacts DEF freeze, PairInv, stall, if_id_instr, if_id_flush
    <3>3. fetched' = InstrAt(prog, ifid_pc')
      BY <1>1, <3>1, <3>2 DEF PairInv, Next, Fetch
    <3>4. CASE id' = id
      BY <1>1, <2>1, <2>2, <3>1, <3>3, <3>4 DEF PairInv
    <3>5. CASE id' = Bubble
      BY <1>1, <2>1, <2>2, <3>1, <3>3, <3>5 DEF PairInv, Bubble
    <3>6. CASE DecodeCapture
      <4>1. if_id_flush = flush_q
        BY <1>1, <2>4 DEF if_id_flush, PairInv
      <4>2. id' = [pc |-> ifid_pc, ins |-> if_id_instr, a |-> ReadReg(if_id_instr.rs1),
                   b |-> ReadReg(if_id_instr.rs2), real |-> ~flush_q]
        BY <3>6, <4>1 DEF DecodeCapture
      <4>3. id'.real <=> ~flush_q
        BY <4>2, Zenon
      <4>4. id'.pc = ifid_pc /\ id'.ins = IF flush_q THEN Nop ELSE fetched
        BY <4>1, <4>2 DEF if_id_instr
      <4> QED
        BY <1>1, <2>1, <2>2, <3>1, <3>3, <4>3, <4>4 DEF PairInv
    <3> QED
      BY <1>1, <3>4, <3>5, <3>6 DEF Next, Decode, DecodeHold, DecodeBubble
  <2> QED
    BY <2>3, <2>4
<1>2. PairInv /\ UNCHANGED vars => PairInv'
  BY DEF vars, PairInv, mem_hold, div_stall, is_div
<1> QED
  BY <1>1, <1>2

LEMMA PairsHold == Spec /\ []Calm => []PairInv
<1>1. Init => PairInv
  BY NopFacts, OpFacts DEF Init, PairInv, Bubble, ExEmpty, mem_hold, div_stall, is_div, Once
<1> QED
  BY <1>1, PairStep, PTL DEF Spec

\* fetch_stage.v:92-110: whatever freezes, redirects, traps and interrupts fall together,
\* an instruction keeps its pc, unless an interrupt hits a division.
THEOREM FetchPairs == Spec /\ []Calm => []PcNamesInstruction
<1>1. PairInv => PcNamesInstruction
  BY DEF PairInv, PcNamesInstruction
<1> QED
  BY <1>1, PairsHold, PTL

\* exec_stage.v:216: what an interrupt saved to be executed later leaves EX at once,
\* unless it is in the middle of a division.
THEOREM InterruptedLeaves == Spec /\ []Calm => TrappedDoesNotRetire
<1>1. Calm /\ [Next]_vars => [timer_int /\ id.real => ~id'.real]_vars
  <2> SUFFICES ASSUME Calm, Next, timer_int PROVE ~id'.real
    OBVIOUS
  <2>1. flush /\ ~mem_hold /\ ~div_stall
    BY DEF flush, trap_valid, trap_taken, timer_int, int_window, mem_hold, Calm
  <2> QED
    BY <2>1 DEF Next, Decode, DecodeHold, DecodeBubble, DecodeCapture, Bubble
<1> QED
  BY <1>1, PTL DEF Spec, TrappedDoesNotRetire

-----------------------------------------------------------------------------
(* The programs that run calm.                                             *)

Undisturbed == NoDivisions \/ ~Listens

QuietInv == /\ Undisturbed /\ (irq => Listens)
            /\ NoDivisions => fetched.op \notin DivOps /\ id.ins.op \notin DivOps

LEMMA QuietStep == QuietInv /\ [Next]_vars => QuietInv'
<1>1. ASSUME QuietInv, Next PROVE QuietInv'
  <2>1. prog' = prog /\ (Listens' <=> Listens) /\ (NoDivisions' <=> NoDivisions)
    BY <1>1 DEF Next, Listens, NoDivisions
  <2>2. irq' => Listens
    BY <1>1 DEF QuietInv, Next, Timer, TimerClear, TimerRaise, TimerKeep
  <2>3. ASSUME NoDivisions PROVE fetched'.op \notin DivOps /\ id'.ins.op \notin DivOps
    <3>1. Nop.op \notin DivOps /\ \A a : InstrAt(prog, a).op \notin DivOps
      BY <2>3, NopFacts, OpFacts DEF InstrAt, NoDivisions, Once
    <3>2. fetched' = fetched \/ fetched' = InstrAt(prog, pc)
      BY <1>1 DEF Next, Fetch
    <3>3. id'.ins \in {id.ins, Nop, fetched}
      BY <1>1 DEF Next, Decode, DecodeHold, DecodeBubble, DecodeCapture, Bubble, if_id_instr
    <3> QED
      BY <1>1, <2>3, <3>1, <3>2, <3>3 DEF QuietInv
  <2> QED
    BY <1>1, <2>1, <2>2, <2>3 DEF QuietInv, Undisturbed
<1>2. QuietInv /\ UNCHANGED vars => QuietInv'
  BY DEF vars, QuietInv, Undisturbed, NoDivisions, Listens
<1> QED
  BY <1>1, <1>2

\* Without divisions, or without the timer, no interrupt falls into a division.
THEOREM ProgramsRunCalm == Spec /\ Undisturbed => []Calm
<1>1. Init /\ Undisturbed => QuietInv
  BY NopFacts, OpFacts DEF Init, QuietInv, NoDivisions, Bubble, Once, InstrAt
<1>2. QuietInv => Calm
  BY DEF QuietInv, Undisturbed, Calm, timer_int, div_stall, is_div
<1> QED
  BY <1>1, <1>2, QuietStep, PTL DEF Spec
=============================================================================
