--------------------------- MODULE FrameLinkProofs --------------------------
(***************************************************************************)
(* Proofs about FrameLink: what frame_send writes are bytes, the parser    *)
(* keeps inside its array and the queues inside their memories.            *)
(***************************************************************************)
EXTENDS Integers, FrameLink, BasicLemmas, SequenceTheorems, TLAPS

-----------------------------------------------------------------------------
(* The checksum and the stuffing.                                          *)

\* Flipping bit m of a number of whole pairs of m stays below them.
LEMMA FlipStays ==
  ASSUME NEW m \in Nat \ {0}, NEW h \in Nat, NEW v \in Nat, v < m * (2 * h)
  PROVE  Flip(v, m) \in Nat /\ Flip(v, m) < m * (2 * h)
<1> DEFINE q == v \div m
           r == v % m
<1>1. q \in Int /\ r \in 0..(m - 1) /\ v = m * q + r
  BY DivMod
<1>2. q \in Int /\ q \div 2 \in Int /\ q % 2 \in 0..1 /\ q = 2 * (q \div 2) + (q % 2)
  BY <1>1, DivMod
<1>3. Flip(v, m) = IF q % 2 = 1 THEN v - m ELSE v + m
  BY DEF Flip
<1> HIDE DEF q, r
<1>4. CASE q % 2 = 1
  <2>1. q >= 1
    <3>1. ASSUME q <= 0 PROVE FALSE
      <4>1. q <= -1
        BY <1>2, <1>4, <3>1
      <4>2. m * q <= m * (-1)
        BY <1>1, <4>1
      <4> QED
        BY <1>1, <4>2
    <3> QED
      BY <1>1, <3>1
  <2>2. m * q >= m
    BY <1>1, <2>1
  <2> QED
    BY <1>1, <1>3, <1>4, <2>2
<1>5. CASE q % 2 # 1
  <2> DEFINE p == q \div 2
  <2>1. p \in Int /\ q = 2 * p
    BY <1>2, <1>5
  <2> HIDE DEF p
  <2>2. q < 2 * h
    <3>1. ASSUME q >= 2 * h PROVE FALSE
      <4>1. m * q >= m * (2 * h)
        BY <1>1, <3>1
      <4> QED
        BY <1>1, <4>1
    <3> QED
      BY <1>1, <3>1
  <2>3. q + 2 <= 2 * h
    BY <2>1, <2>2
  <2>4. m * (q + 2) <= m * (2 * h)
    BY <1>1, <2>3
  <2>5. m * (q + 2) = m * q + m + m
    BY <1>1
  <2> QED
    BY <1>1, <1>3, <1>5, <2>4, <2>5
<1> QED
  BY <1>4, <1>5

\* The numbers of values of a checksum and of a byte: the provers do better with names.
CrcSize  == 65536
ByteSize == 256

LEMMA Sizes ==
  /\ CrcSize \in Nat \ {0} /\ \A v : v \in Crc16 <=> v \in Nat /\ v < CrcSize
  /\ ByteSize \in Nat \ {0} /\ \A v : v \in Byte <=> v \in Nat /\ v < ByteSize
<1>1. CrcSize \in Nat \ {0}
  BY DEF CrcSize
<1>2. Crc16 = 0..(CrcSize - 1)
  BY DEF Crc16, CrcSize
<1>3. \A v : v \in 0..(CrcSize - 1) <=> v \in Nat /\ v < CrcSize
  BY <1>1
<1>4. ByteSize \in Nat \ {0}
  BY DEF ByteSize
<1>5. Byte = 0..(ByteSize - 1)
  <2>1. ByteSize - 1 = 255
    BY DEF ByteSize
  <2> QED
    BY <2>1, Zenon DEF Byte
<1>6. \A v : v \in 0..(ByteSize - 1) <=> v \in Nat /\ v < ByteSize
  BY <1>4
<1> QED
  BY <1>1, <1>2, <1>3, <1>4, <1>5, <1>6, Zenon

\* The bits of a checksum: the numbers of which it has whole pairs.
Bits == {m \in Nat \ {0} : \E h \in Nat : CrcSize = m * (2 * h)}

LEMMA FlipWord == ASSUME NEW m \in Bits, NEW v \in Crc16 PROVE Flip(v, m) \in Crc16
<1>1. PICK h \in Nat : CrcSize = m * (2 * h)
  BY DEF Bits
<1>2. m \in Nat \ {0}
  BY DEF Bits
<1>3. v \in Nat /\ v < m * (2 * h)
  BY <1>1, Sizes
<1>4. Flip(v, m) \in Nat /\ Flip(v, m) < m * (2 * h)
  BY <1>2, <1>3, FlipStays
<1> QED
  BY <1>1, <1>4, Sizes

LEMMA Xor20Byte == ASSUME NEW b \in Byte PROVE Xor20(b) \in Byte
<1>1. ByteSize = 32 * (2 * 4) /\ 32 \in Nat \ {0} /\ 4 \in Nat
  BY DEF ByteSize
<1>2. b \in Nat /\ b < 32 * (2 * 4)
  BY <1>1, Sizes, Zenon
<1>3. Flip(b, 32) \in Nat /\ Flip(b, 32) < 32 * (2 * 4)
  BY <1>1, <1>2, FlipStays, Zenon
<1> QED
  BY <1>1, <1>3, Sizes, Zenon DEF Xor20

\* Every bit the checksum flips is one of its sixteen.
LEMMA Masks == 4096 \in Bits /\ 32 \in Bits /\ 1 \in Bits /\ \A k \in 1..8 : 256 * BitMasks[k] \in Bits
<1>1. ASSUME NEW m \in Nat \ {0}, NEW h \in Nat, CrcSize = m * (2 * h) PROVE m \in Bits
  BY <1>1 DEF Bits
<1>2. CrcSize = 4096 * (2 * 8) /\ CrcSize = 1 * (2 * 32768) /\ CrcSize = 32 * (2 * 1024)
  BY DEF CrcSize
<1>3. 4096 \in Bits
  BY <1>1, <1>2
<1>4. 1 \in Bits
  BY <1>1, <1>2
<1>5. 32 \in Bits
  BY <1>1, <1>2
<1>6. ASSUME NEW k \in 1..8 PROVE 256 * BitMasks[k] \in Bits
  <2>1. BitMasks[k] \in {1, 2, 4, 8, 16, 32, 64, 128}
    BY DEF BitMasks
  <2>2. CASE BitMasks[k] = 1
    <3>1. 256 * BitMasks[k] \in Nat \ {0} /\ CrcSize = (256 * BitMasks[k]) * (2 * 128)
      BY <2>2 DEF CrcSize
    <3> QED
      BY <1>1, <3>1
  <2>3. CASE BitMasks[k] = 2
    <3>1. 256 * BitMasks[k] \in Nat \ {0} /\ CrcSize = (256 * BitMasks[k]) * (2 * 64)
      BY <2>3 DEF CrcSize
    <3> QED
      BY <1>1, <3>1
  <2>4. CASE BitMasks[k] = 4
    <3>1. 256 * BitMasks[k] \in Nat \ {0} /\ CrcSize = (256 * BitMasks[k]) * (2 * 32)
      BY <2>4 DEF CrcSize
    <3> QED
      BY <1>1, <3>1
  <2>5. CASE BitMasks[k] = 8
    <3>1. 256 * BitMasks[k] \in Nat \ {0} /\ CrcSize = (256 * BitMasks[k]) * (2 * 16)
      BY <2>5 DEF CrcSize
    <3> QED
      BY <1>1, <3>1
  <2>6. CASE BitMasks[k] = 16
    <3>1. 256 * BitMasks[k] \in Nat \ {0} /\ CrcSize = (256 * BitMasks[k]) * (2 * 8)
      BY <2>6 DEF CrcSize
    <3> QED
      BY <1>1, <3>1
  <2>7. CASE BitMasks[k] = 32
    <3>1. 256 * BitMasks[k] \in Nat \ {0} /\ CrcSize = (256 * BitMasks[k]) * (2 * 4)
      BY <2>7 DEF CrcSize
    <3> QED
      BY <1>1, <3>1
  <2>8. CASE BitMasks[k] = 64
    <3>1. 256 * BitMasks[k] \in Nat \ {0} /\ CrcSize = (256 * BitMasks[k]) * (2 * 2)
      BY <2>8 DEF CrcSize
    <3> QED
      BY <1>1, <3>1
  <2>9. CASE BitMasks[k] = 128
    <3>1. 256 * BitMasks[k] \in Nat \ {0} /\ CrcSize = (256 * BitMasks[k]) * (2 * 1)
      BY <2>9 DEF CrcSize
    <3> QED
      BY <1>1, <3>1
  <2> QED
    BY <2>1, <2>2, <2>3, <2>4, <2>5, <2>6, <2>7, <2>8, <2>9
<1> QED
  BY <1>3, <1>4, <1>5, <1>6

LEMMA ShiftType == ASSUME NEW v \in Crc16 PROVE Shift(v) \in Crc16
<1> DEFINE x  == 2 * v
           up == x % 65536
<1>1. up \in Crc16
  <2>1. x \in Int
    BY Sizes
  <2> HIDE DEF x
  <2>2. x % CrcSize \in 0..(CrcSize - 1)
    BY <2>1, Sizes, DivMod
  <2>3. x % CrcSize \in Crc16
    BY <2>2, Sizes
  <2> QED
    BY <2>3 DEF CrcSize
<1>2. \A w \in Crc16 : Flip(w, 4096) \in Crc16 /\ Flip(w, 32) \in Crc16 /\ Flip(w, 1) \in Crc16
  BY Masks, FlipWord
<1>3. Shift(v) = IF v >= 32768 THEN Flip(Flip(Flip(up, 4096), 32), 1) ELSE up
  BY DEF Shift
<1> HIDE DEF up
<1> QED
  BY <1>1, <1>2, <1>3

\* The high byte is mixed in bit by bit.
LEMMA MixType == ASSUME NEW crc \in Crc16, NEW b PROVE MixHigh(crc, b) \in Crc16
<1> DEFINE Turn(k, v) == IF (b \div BitMasks[k]) % 2 = 1 THEN Flip(v, 256 * BitMasks[k]) ELSE v
           mix == CHOOSE f : f = [k \in 0..8 |->
                    IF k = 0 THEN crc
                    ELSE IF (b \div BitMasks[k]) % 2 = 1 THEN Flip(f[k - 1], 256 * BitMasks[k])
                    ELSE f[k - 1]]
<1>1. MixHigh(crc, b) = mix[8]
  BY Zenon DEF MixHigh
<1>2. mix = CHOOSE f : f = [k \in 0..8 |-> IF k = 0 THEN crc ELSE Turn(k, f[k - 1])]
  BY Zenon
<1>3. \A k \in 1..8, v \in Crc16 : Turn(k, v) \in Crc16
  BY Masks, FlipWord
<1> HIDE DEF Turn, mix
<1> DEFINE F(f) == [k \in 0..8 |-> IF k = 0 THEN crc ELSE Turn(k, f[k - 1])]
           G    == [k \in 0..8 |-> [v \in Crc16 |-> IF k = 0 THEN v ELSE Turn(k, v)]]
<1>e. 0 \in Nat /\ 8 \in Nat /\ 0 <= 8
  OBVIOUS
<1>4. \E f : f = F(f)
  <2>1. G \in [0..8 -> [Crc16 -> Crc16]]
    BY <1>3
  <2>2. \A k \in 1..8, v \in Crc16 : G[k][v] = Turn(k, v)
    OBVIOUS
  <2> HIDE DEF G
  <2>3. PICK f : Loops(f, Crc16, 0, 8, crc, G)
    BY <1>e, <2>1, LoopIsFunction, Zenon
  <2>4. f \in [0..8 -> Crc16] /\ \A k \in 0..8 : f[k] = IF k = 0 THEN crc ELSE Turn(k, f[k - 1])
    BY <2>2, <2>3 DEF Loops
  <2>5. f = F(f)
    BY <2>4
  <2> QED
    BY <2>5, Zenon
<1>5. mix = F(mix)
  BY <1>2, <1>4, Zenon
<1> HIDE DEF F
<1>6. mix[0] = crc /\ \A k \in (0 + 1)..8 : mix[k] = Turn(k, mix[k - 1])
  <2>1. \A k \in 0..8 : F(mix)[k] = IF k = 0 THEN crc ELSE Turn(k, mix[k - 1])
    BY DEF F
  <2> QED
    BY <1>5, <2>1
<1>7. \A k \in (0 + 1)..8 : mix[k - 1] \in Crc16 => mix[k] \in Crc16
  BY <1>3, <1>6
<1>8. \A k \in 0..8 : mix[k] \in Crc16
  BY <1>6, <1>7, LoopStays
<1> QED
  BY <1>1, <1>8

LEMMA ByteType == ASSUME NEW b PROVE CrcByte(b) \in [Crc16 -> Crc16]
<1> SUFFICES ASSUME NEW crc \in Crc16 PROVE CrcByte(b)[crc] \in Crc16
  BY DEF CrcByte
<1> DEFINE shift == CHOOSE f : f = [k \in 0..8 |->
                      IF k = 0 THEN MixHigh(crc, b) ELSE Shift(f[k - 1])]
<1>1. CrcByte(b)[crc] = shift[8]
  BY Zenon DEF CrcByte
<1>2. MixHigh(crc, b) \in Crc16
  BY MixType
<1>3. \A v \in Crc16 : Shift(v) \in Crc16
  BY ShiftType
<1> DEFINE F(f) == [k \in 0..8 |-> IF k = 0 THEN MixHigh(crc, b) ELSE Shift(f[k - 1])]
           G    == [k \in 0..8 |-> [v \in Crc16 |-> Shift(v)]]
<1>e. 0 \in Nat /\ 8 \in Nat /\ 0 <= 8
  OBVIOUS
<1>4. \E f : f = F(f)
  <2>1. G \in [0..8 -> [Crc16 -> Crc16]]
    BY <1>3
  <2>2. \A k \in 1..8, v \in Crc16 : G[k][v] = Shift(v)
    OBVIOUS
  <2> HIDE DEF G
  <2>3. PICK f : Loops(f, Crc16, 0, 8, MixHigh(crc, b), G)
    BY <1>2, <1>e, <2>1, LoopIsFunction, Zenon
  <2>4. f \in [0..8 -> Crc16] /\ \A k \in 0..8 : f[k] = IF k = 0 THEN MixHigh(crc, b) ELSE Shift(f[k - 1])
    BY <2>2, <2>3 DEF Loops
  <2>5. f = F(f)
    BY <2>4
  <2> QED
    BY <2>5, Zenon
<1>5. shift = F(shift)
  BY <1>4, Zenon
<1> HIDE DEF F, shift
<1>6. shift[0] = MixHigh(crc, b) /\ \A k \in (0 + 1)..8 : shift[k] = Shift(shift[k - 1])
  <2>1. \A k \in 0..8 : F(shift)[k] = IF k = 0 THEN MixHigh(crc, b) ELSE Shift(shift[k - 1])
    BY DEF F
  <2> QED
    BY <1>5, <2>1
<1>7. \A k \in (0 + 1)..8 : shift[k - 1] \in Crc16 => shift[k] \in Crc16
  BY <1>3, <1>6
<1>8. \A k \in 0..8 : shift[k] \in Crc16
  BY <1>2, <1>6, <1>7, LoopStays
<1> QED
  BY <1>1, <1>8

\* A checksum is a number of sixteen bits, whatever it is of.
LEMMA CrcType == ASSUME NEW bytes, Len(bytes) \in Nat PROVE frame_crc16(bytes) \in Crc16
<1> DEFINE n   == Len(bytes)
           crc == CHOOSE f : f = [i \in 0..n |->
                    IF i = 0 THEN 65535 ELSE CrcByte(bytes[i])[f[i - 1]]]
<1>1. frame_crc16(bytes) = crc[n]
  BY DEF frame_crc16
<1> DEFINE Turn(i, v) == CrcByte(bytes[i])[v]
<1>2. \A i \in 0..n, v \in Crc16 : Turn(i, v) \in Crc16
  BY ByteType
<1>3. PICK w : w = 65535
  OBVIOUS
<1>4. w \in Crc16
  BY <1>3, Sizes DEF CrcSize
<1>5. crc = CHOOSE f : f = [i \in 0..n |-> IF i = 0 THEN w ELSE Turn(i, f[i - 1])]
  BY <1>3
<1>n. n \in Nat /\ 0 \in Nat /\ 0 <= n
  OBVIOUS
<1> HIDE DEF Turn, crc, n
<1> DEFINE F(f) == [i \in 0..n |-> IF i = 0 THEN w ELSE Turn(i, f[i - 1])]
           G    == [i \in 0..n |-> [v \in Crc16 |-> Turn(i, v)]]
<1>6. \E f : f = F(f)
  <2>1. G \in [0..n -> [Crc16 -> Crc16]]
    BY <1>2
  <2>2. \A i \in 0..n, v \in Crc16 : G[i][v] = Turn(i, v)
    OBVIOUS
  <2> HIDE DEF G
  <2>3. PICK f : Loops(f, Crc16, 0, n, w, G)
    BY <1>n, <1>4, <2>1, LoopIsFunction, Zenon
  <2>4. f \in [0..n -> Crc16] /\ \A i \in 0..n : f[i] = IF i = 0 THEN w ELSE Turn(i, f[i - 1])
    BY <1>n, <2>2, <2>3 DEF Loops
  <2>5. f = F(f)
    BY <2>4
  <2> QED
    BY <2>5, Zenon
<1>7. crc = F(crc)
  BY <1>5, <1>6, Zenon
<1> HIDE DEF F
<1>8. crc[0] = w /\ \A i \in (0 + 1)..n : crc[i] = Turn(i, crc[i - 1])
  <2>1. \A i \in 0..n : F(crc)[i] = IF i = 0 THEN w ELSE Turn(i, crc[i - 1])
    BY DEF F
  <2> QED
    BY <1>n, <1>7, <2>1
<1>9. \A i \in (0 + 1)..n : crc[i - 1] \in Crc16 => crc[i] \in Crc16
  BY <1>n, <1>2, <1>8
<1>10. \A i \in 0..n : crc[i] \in Crc16
  BY <1>n, <1>4, <1>8, <1>9, LoopStays
<1> QED
  BY <1>n, <1>1, <1>10

\* Sequences of bytes one after the other are a sequence of bytes.
LEMMA FlattenType == ASSUME NEW ss \in Seq(Seq(Byte)) PROVE FlattenSeq(ss) \in Seq(Byte)
<1> DEFINE n    == Len(ss)
           flat == CHOOSE f : f = [i \in 1..n |-> IF i = 1 THEN ss[i] ELSE f[i - 1] \o ss[i]]
<1>0. n \in Nat /\ 1 \in Nat /\ \A i \in 1..n : ss[i] \in Seq(Byte)
  OBVIOUS
<1>1. CASE n = 0
  <2>1. FlattenSeq(ss) = ss
    BY <1>1 DEF FlattenSeq
  <2>2. ss = << >>
    BY <1>1
  <2> QED
    BY <2>1, <2>2
<1>2. CASE n # 0
  <2>1. FlattenSeq(ss) = flat[n]
    BY <1>2 DEF FlattenSeq
  <2>2. 1 <= n /\ 1 \in 1..n /\ n \in 1..n
    BY <1>0, <1>2
  <2> HIDE DEF flat, n
  <2> DEFINE F(f) == [i \in 1..n |-> IF i = 1 THEN ss[i] ELSE f[i - 1] \o ss[i]]
             G    == [i \in 1..n |-> [v \in Seq(Byte) |-> v \o ss[i]]]
  <2>3. \E f : f = F(f)
    <3>1. G \in [1..n -> [Seq(Byte) -> Seq(Byte)]]
      <4>1. \A i \in 1..n, v \in Seq(Byte) : v \o ss[i] \in Seq(Byte)
        BY <1>0, ConcatProperties
      <4> QED
        BY <4>1
    <3>2. \A i \in 1..n, v \in Seq(Byte) : G[i][v] = v \o ss[i]
      OBVIOUS
    <3>3. ss[1] \in Seq(Byte)
      BY <1>0, <2>2
    <3> HIDE DEF G
    <3>4. PICK f : Loops(f, Seq(Byte), 1, n, ss[1], G)
      BY <1>0, <2>2, <3>1, <3>3, LoopIsFunction, Zenon
    <3>5. /\ f \in [1..n -> Seq(Byte)]
          /\ \A i \in 1..n : f[i] = IF i = 1 THEN ss[i] ELSE f[i - 1] \o ss[i]
      <4>1. f \in [1..n -> Seq(Byte)] /\ f[1] = ss[1]
            /\ \A i \in (1 + 1)..n : f[i] = G[i][f[i - 1]]
        BY <3>4 DEF Loops
      <4>2. ASSUME NEW i \in 1..n, i # 1 PROVE f[i] = f[i - 1] \o ss[i]
        <5>1. i \in (1 + 1)..n /\ i - 1 \in 1..n
          BY <1>0, <4>2
        <5>2. f[i] = G[i][f[i - 1]] /\ f[i - 1] \in Seq(Byte)
          BY <4>1, <5>1
        <5> QED
          BY <3>2, <5>2
      <4> QED
        BY <4>1, <4>2
    <3>6. f = F(f)
      BY <3>5
    <3> QED
      BY <3>6, Zenon
  <2>4. flat = F(flat)
    BY <2>3, Zenon DEF flat
  <2> HIDE DEF F
  <2>5. flat[1] = ss[1] /\ \A i \in (1 + 1)..n : flat[i] = flat[i - 1] \o ss[i]
    <3>1. \A i \in 1..n : F(flat)[i] = IF i = 1 THEN ss[i] ELSE flat[i - 1] \o ss[i]
      BY DEF F
    <3>2. \A i \in (1 + 1)..n : i \in 1..n /\ i # 1
      BY <1>0
    <3> QED
      BY <2>2, <2>4, <3>1, <3>2, Zenon
  <2>6. \A i \in (1 + 1)..n : flat[i - 1] \in Seq(Byte) => flat[i] \in Seq(Byte)
    <3> SUFFICES ASSUME NEW i \in (1 + 1)..n, flat[i - 1] \in Seq(Byte)
                 PROVE  flat[i] \in Seq(Byte)
      OBVIOUS
    <3>1. ss[i] \in Seq(Byte)
      BY <1>0
    <3>2. flat[i - 1] \o ss[i] \in Seq(Byte)
      BY <3>1, ConcatProperties
    <3> QED
      BY <2>5, <3>2
  <2>7. flat[1] \in Seq(Byte)
    BY <1>0, <2>2, <2>5
  <2>8. \A i \in 1..n : flat[i] \in Seq(Byte)
    BY <1>0, <2>6, <2>7, LoopStays
  <2> QED
    BY <2>1, <2>2, <2>8
<1> QED
  BY <1>1, <1>2

\* The two halves of a checksum are bytes.
LEMMA Halves == ASSUME NEW c \in Crc16 PROVE c \div 256 \in Byte /\ c % 256 \in Byte
<1>1. c \in Nat /\ c < ByteSize * ByteSize /\ ByteSize \in Nat \ {0}
  <2>1. CrcSize = ByteSize * ByteSize
    BY DEF CrcSize, ByteSize
  <2> QED
    BY <2>1, Sizes
<1> DEFINE q == c \div ByteSize
           r == c % ByteSize
<1>2. q \in Int /\ r \in 0..(ByteSize - 1) /\ c = ByteSize * q + r
  BY <1>1, DivMod
<1> HIDE DEF q, r
<1>3. q >= 0
  <2> SUFFICES ASSUME q <= -1 PROVE FALSE
    BY <1>2
  <2>1. ByteSize * q <= ByteSize * (-1)
    BY <1>1, <1>2
  <2> QED
    BY <1>1, <1>2, <2>1
<1>4. q < ByteSize
  <2> SUFFICES ASSUME q >= ByteSize PROVE FALSE
    BY <1>1, <1>2
  <2>1. ByteSize * q >= ByteSize * ByteSize
    BY <1>1, <1>2
  <2> QED
    BY <1>1, <1>2, <2>1
<1>5. q \in Byte /\ r \in Byte
  BY <1>1, <1>2, <1>3, <1>4, Sizes
<1> QED
  BY <1>5 DEF q, r, ByteSize

\* What frame_send writes are bytes.
LEMMA SendType ==
  ASSUME NEW f \in Frame, Len(f.payload) \in Byte
  PROVE  frame_send(f) \in Seq(Byte)
<1>1. f.seq \in Byte /\ f.cmd \in Byte /\ f.payload \in Seq(Byte)
  BY DEF Frame
<1> DEFINE content == Header(f) \o f.payload
           crc     == frame_crc16(content)
<1>2. content \in Seq(Byte)
  <2>1. Header(f) \in Seq(Byte)
    BY <1>1 DEF Header
  <2> QED
    BY <1>1, <2>1, ConcatProperties
<1> HIDE DEF content
<1>3. crc \in Crc16
  BY <1>2, CrcType
<1> HIDE DEF crc
<1>4. <<crc \div 256, crc % 256>> \in Seq(Byte)
  BY <1>3, Halves
<1>5. content \o <<crc \div 256, crc % 256>> \in Seq(Byte)
  BY <1>2, <1>4, ConcatProperties
<1>6. Body(f) = content \o <<crc \div 256, crc % 256>>
  BY Zenon DEF Body, content, crc
<1>7. Body(f) \in Seq(Byte)
  BY <1>5, <1>6
<1> DEFINE stuffed == [i \in DOMAIN Body(f) |-> tx_byte(Body(f)[i])]
<1>8. \A b \in Byte : tx_byte(b) \in Seq(Byte)
  <2> TAKE b \in Byte
  <2>1. Xor20(b) \in Byte
    BY Xor20Byte
  <2>2. ESC \in Byte
    BY Sizes DEF ESC, ByteSize
  <2> QED
    BY <2>1, <2>2 DEF tx_byte
<1>9. stuffed \in Seq(Seq(Byte))
  <2>1. DOMAIN Body(f) = 1..Len(Body(f)) /\ Len(Body(f)) \in Nat
    BY <1>7
  <2>2. \A i \in DOMAIN Body(f) : tx_byte(Body(f)[i]) \in Seq(Byte)
    BY <1>7, <1>8, <2>1
  <2> QED
    BY <2>1, <2>2, IsASeq
<1> HIDE DEF stuffed
<1>10. FlattenSeq(stuffed) \in Seq(Byte)
  BY <1>9, FlattenType
<1>11. <<FLAG>> \in Seq(Byte)
  BY Sizes DEF FLAG, ByteSize
<1>12. <<FLAG>> \o FlattenSeq(stuffed) \in Seq(Byte)
  BY <1>10, <1>11, ConcatProperties
<1>13. (<<FLAG>> \o FlattenSeq(stuffed)) \o <<FLAG>> \in Seq(Byte)
  BY <1>11, <1>12, ConcatProperties
<1>14. frame_send(f) = (<<FLAG>> \o FlattenSeq(stuffed)) \o <<FLAG>>
  BY Zenon DEF frame_send, stuffed
<1> QED
  BY <1>13, <1>14

LEMMA NakType == ASSUME NEW seq \in Byte PROVE frame_send_nak(seq) \in Seq(Byte)
<1>1. 255 \in Byte /\ 0 \in Byte /\ 1 \in Byte
  BY Sizes DEF ByteSize
<1>2. Nak(seq) \in Frame /\ Len(Nak(seq).payload) = 1
  BY <1>1 DEF Nak, Frame
<1> QED
  BY <1>1, <1>2, SendType DEF frame_send_nak

-----------------------------------------------------------------------------
(* The link.                                                               *)

\* The constants, as the proofs use them.
LEMMA LinkFacts ==
  /\ MaxPayload \in Nat /\ BODY_MAX = 5 + MaxPayload
  /\ FifoDepth \in Nat \ {0} /\ RingSize \in Nat \ {0, 1} /\ MaxFaults \in Nat
  /\ Len(Commands) \in Nat
  /\ \A n \in Nat : n <= MaxPayload => n \in Byte
  /\ \A i \in 1..Len(Commands) : Wire[i] \in Seq(Byte)
  /\ 0 \in Byte /\ FLAG \in Byte /\ ESC \in Byte /\ << >> \in Seq(Byte)
  /\ IDLE_STOP \in Nat /\ RetryAfter \in Nat
  /\ \A p \in Counts : p \in Seq(Byte) /\ Len(p) \in Byte
<1>1. /\ MaxPayload \in Nat /\ MaxPayload <= 123 /\ BODY_MAX = 5 + MaxPayload
      /\ FifoDepth \in Nat \ {0} /\ RingSize \in Nat \ {0, 1} /\ MaxFaults \in Nat
      /\ Commands \in Seq(Frame) /\ Len(Commands) \in Nat
      /\ \A i \in DOMAIN Commands : Len(Commands[i].payload) <= MaxPayload
      /\ IDLE_STOP \in Nat /\ RetryAfter \in Nat
      /\ \A p \in Counts : p \in Seq(Byte) /\ Len(p) = 5
  BY LinkAssumption DEF BODY_MAX
<1>2. \A n \in Nat : n <= MaxPayload => n \in Byte
  BY <1>1, Sizes DEF ByteSize
<1>3. ASSUME NEW i \in 1..Len(Commands) PROVE Wire[i] \in Seq(Byte)
  <2>1. Commands[i] \in Frame /\ i \in DOMAIN Commands
    BY <1>1
  <2>2. Len(Commands[i].payload) \in Nat
    BY <2>1 DEF Frame
  <2>3. Len(Commands[i].payload) \in Byte
    BY <1>1, <1>2, <2>1, <2>2
  <2> QED
    BY <2>1, <2>3, SendType DEF Wire
<1>4. 0 \in Byte /\ FLAG \in Byte /\ ESC \in Byte /\ 5 \in Byte
  BY Sizes DEF ByteSize, FLAG, ESC
<1>5. ASSUME NEW p \in Counts PROVE p \in Seq(Byte) /\ Len(p) \in Byte
  BY <1>1, <1>4
<1>6. << >> \in Seq(Byte)
  OBVIOUS
<1> QED
  BY <1>1, <1>2, <1>3, <1>4, <1>5, <1>6

\* A frame that is being collected has room for what its first byte declares, and is
\* not complete yet.
BodyOK == Len(body) >= 2 => body[1] <= MaxPayload /\ Len(body) < 5 + body[1]

LinkInv == TypeOK /\ BodyOK

LEMMA LinkInit == Init => LinkInv
<1> SUFFICES ASSUME Init PROVE LinkInv
  OBVIOUS
<1>1. << >> \in Seq(Byte) /\ Len(<< >>) = 0
  BY LinkFacts
<1>2. TypeOK
  <2>1. /\ acked \in 0..Len(Commands) /\ faults \in 0..MaxFaults
        /\ wait \in 0..RetryAfter /\ idle \in 0..(IDLE_STOP + 1)
    BY LinkFacts DEF Init
  <2>2. Len(fifo) <= FifoDepth /\ Len(ring) < RingSize /\ Len(body) < BODY_MAX /\ Len(last) <= 1
    BY <1>1, LinkFacts DEF Init
  <2> QED
    BY <1>1, <2>1, <2>2 DEF Init, TypeOK
<1>3. BodyOK
  BY <1>1 DEF Init, BodyOK
<1> QED
  BY <1>2, <1>3 DEF LinkInv

\* The parts of the state a step of the host and the line, or of the firmware, is about.
HostOK ==
  /\ acked \in 0..Len(Commands) /\ hout \in Seq(Byte) /\ reply \in Seq(Byte)
  /\ faults \in 0..MaxFaults /\ wait \in 0..RetryAfter
QueuesOK ==
  /\ fifo \in Seq(Byte) /\ Len(fifo) <= FifoDepth
  /\ ring \in Seq(Byte) /\ Len(ring) < RingSize
ParserOK ==
  /\ body \in Seq(Byte) /\ Len(body) < BODY_MAX
  /\ in_frame \in BOOLEAN /\ esc \in BOOLEAN /\ last \in Seq(Byte) /\ Len(last) <= 1
  /\ BodyOK
AppOK ==
  /\ at \in {"pump", "poll", "nak", "answer", "done"} /\ out \in Seq(Byte)
  /\ idle \in 0..(IDLE_STOP + 1)

LEMMA Parts == LinkInv <=> HostOK /\ QueuesOK /\ ParserOK /\ AppOK
BY DEF LinkInv, TypeOK, HostOK, QueuesOK, ParserOK, AppOK

LEMMA PartsKept ==
  /\ UNCHANGED hostVars /\ HostOK => HostOK'
  /\ UNCHANGED <<fifo, ring>> /\ QueuesOK => QueuesOK'
  /\ UNCHANGED parser /\ ParserOK => ParserOK'
  /\ UNCHANGED <<idle, at, out>> /\ AppOK => AppOK'
BY DEF hostVars, HostOK, QueuesOK, parser, ParserOK, BodyOK, AppOK

LEMMA Pushed == ASSUME NEW b \in Byte, rx_push(b), fifo \in Seq(Byte), Len(fifo) <= FifoDepth
                PROVE  fifo' \in Seq(Byte) /\ Len(fifo') <= FifoDepth
<1>1. CASE Len(fifo) = FifoDepth
  BY <1>1 DEF rx_push
<1>2. CASE Len(fifo) # FifoDepth
  <2>1. fifo' = Append(fifo, b)
    BY <1>2 DEF rx_push
  <2>2. Len(fifo') = Len(fifo) + 1 /\ Len(fifo) \in Nat /\ fifo' \in Seq(Byte)
    BY <2>1
  <2> QED
    BY <1>2, <2>2, LinkFacts
<1> QED
  BY <1>1, <1>2

LEMMA HostStep == LinkInv /\ HostSend => LinkInv'
<1> SUFFICES ASSUME LinkInv, HostSend PROVE LinkInv'
  OBVIOUS
<1>0. HostOK /\ QueuesOK /\ ParserOK /\ AppOK
  BY Parts
<1>1. hout' \in Seq(Byte)
  <2>1. acked + 1 \in 1..Len(Commands)
    BY <1>0, LinkFacts DEF HostSend, HostOK
  <2> QED
    BY <2>1, LinkFacts DEF HostSend
<1>2. faults' \in 0..MaxFaults
  BY <1>0, LinkFacts DEF HostSend, HostOK
<1>3. HostOK'
  BY <1>0, <1>1, <1>2, LinkFacts DEF HostSend, HostOK
<1>4. UNCHANGED <<fifo, ring>> /\ UNCHANGED parser /\ UNCHANGED <<idle, at, out>>
  BY DEF HostSend, parser
<1>5. (HostOK /\ QueuesOK /\ ParserOK /\ AppOK)'
  BY <1>0, <1>3, <1>4, PartsKept
<1> QED
  BY <1>5, Parts DEF LinkInv, TypeOK, HostOK, QueuesOK, ParserOK, AppOK

LEMMA TickStep == LinkInv /\ Tick => LinkInv'
<1> SUFFICES ASSUME LinkInv, Tick PROVE LinkInv'
  OBVIOUS
<1>0. HostOK /\ QueuesOK /\ ParserOK /\ AppOK
  BY Parts
<1>1. wait' \in 0..RetryAfter /\ idle' \in 0..(IDLE_STOP + 1)
  BY <1>0, LinkFacts DEF Tick, HostOK, AppOK
<1>2. HostOK' /\ AppOK'
  BY <1>0, <1>1 DEF Tick, HostOK, AppOK
<1>3. (QueuesOK /\ ParserOK)'
  BY <1>0, PartsKept DEF Tick, parser
<1> QED
  BY <1>2, <1>3 DEF LinkInv, TypeOK, HostOK, QueuesOK, ParserOK, AppOK

LEMMA ArriveStep == LinkInv /\ Arrive => LinkInv'
<1> SUFFICES ASSUME LinkInv, Arrive PROVE LinkInv'
  OBVIOUS
<1>0. HostOK /\ QueuesOK /\ ParserOK /\ AppOK
  BY Parts
<1>1. Head(hout) \in Byte /\ Tail(hout) \in Seq(Byte)
  BY <1>0 DEF Arrive, HostOK
<1>2. HostOK'
  BY <1>0, <1>1 DEF Arrive, HostOK
<1>3. fifo' \in Seq(Byte) /\ Len(fifo') <= FifoDepth
  BY <1>0, <1>1, Pushed DEF Arrive, QueuesOK
<1>4. QueuesOK'
  BY <1>0, <1>3 DEF Arrive, QueuesOK
<1>5. (ParserOK /\ AppOK)'
  BY <1>0, PartsKept DEF Arrive, parser
<1> QED
  BY <1>2, <1>4, <1>5 DEF LinkInv, TypeOK, HostOK, QueuesOK, ParserOK, AppOK

LEMMA FaultStep == LinkInv /\ LineFault => LinkInv'
<1> SUFFICES ASSUME LinkInv, LineFault PROVE LinkInv'
  OBVIOUS
<1>0. HostOK /\ QueuesOK /\ ParserOK /\ AppOK
  BY Parts
<1>1. faults' \in 0..MaxFaults
  BY <1>0, LinkFacts DEF LineFault, HostOK
<1>2. \A b \in Noise : b \in Byte
  BY LinkFacts DEF Noise
<1>3. hout' \in Seq(Byte)
  <2>1. hout \in Seq(Byte) /\ (hout # << >> => Tail(hout) \in Seq(Byte))
    BY <1>0, HeadTailProperties DEF HostOK
  <2>2. hout' = hout \/ (hout # << >> /\ hout' = Tail(hout))
    BY DEF LineFault
  <2> QED
    BY <2>1, <2>2
<1>4. fifo' \in Seq(Byte) /\ Len(fifo') <= FifoDepth
  <2>1. CASE UNCHANGED fifo
    BY <1>0, <2>1 DEF QueuesOK
  <2>2. CASE \E b \in Noise : rx_push(b)
    BY <1>0, <1>2, <2>2, Pushed DEF QueuesOK
  <2> QED
    BY <2>1, <2>2 DEF LineFault
<1>5. HostOK'
  BY <1>0, <1>1, <1>3 DEF LineFault, HostOK
<1>6. QueuesOK'
  BY <1>0, <1>4 DEF LineFault, QueuesOK
<1>7. (ParserOK /\ AppOK)'
  BY <1>0, PartsKept DEF LineFault, parser
<1> QED
  BY <1>5, <1>6, <1>7 DEF LinkInv, TypeOK, HostOK, QueuesOK, ParserOK, AppOK

LEMMA PumpStep == LinkInv /\ uart_rx_pump => LinkInv'
<1> SUFFICES ASSUME LinkInv, uart_rx_pump PROVE LinkInv'
  OBVIOUS
<1>0. HostOK /\ QueuesOK /\ ParserOK /\ AppOK
  BY Parts
<1>1. (HostOK /\ ParserOK)'
  BY <1>0, PartsKept DEF uart_rx_pump
<1>2. CASE fifo = << >>
  <2>1. at' = "poll" /\ out' = out /\ UNCHANGED <<idle, fifo, ring>>
    BY <1>2 DEF uart_rx_pump
  <2>2. (QueuesOK /\ AppOK)'
    BY <1>0, <2>1 DEF QueuesOK, AppOK
  <2> QED
    BY <1>1, <2>2 DEF LinkInv, TypeOK, HostOK, QueuesOK, ParserOK, AppOK
<1>3. CASE fifo # << >>
  <2>1. UNCHANGED <<idle, at, out>> /\ fifo' = Tail(fifo) /\ ring' = stage(Head(fifo))
    BY <1>3 DEF uart_rx_pump
  <2>2. Head(fifo) \in Byte /\ Tail(fifo) \in Seq(Byte) /\ Len(Tail(fifo)) <= FifoDepth
    <3>1. fifo \in Seq(Byte) /\ Len(fifo) \in Nat /\ Len(fifo) <= FifoDepth
      BY <1>0 DEF QueuesOK
    <3>2. Head(fifo) \in Byte /\ Tail(fifo) \in Seq(Byte) /\ Len(Tail(fifo)) = Len(fifo) - 1
      BY <1>3, <3>1, HeadTailProperties
    <3> QED
      BY <3>1, <3>2, LinkFacts
  <2>3. ring' \in Seq(Byte) /\ Len(ring') < RingSize
    <3>1. CASE Len(ring) = RingSize - 1
      BY <1>0, <2>1, <3>1 DEF stage, QueuesOK
    <3>2. CASE Len(ring) # RingSize - 1
      <4>1. ring' = Append(ring, Head(fifo))
        BY <2>1, <3>2 DEF stage
      <4>2. Len(ring) \in Nat /\ ring \in Seq(Byte) /\ Len(ring) < RingSize
        BY <1>0 DEF QueuesOK
      <4>3. ring' \in Seq(Byte) /\ Len(ring') = Len(ring) + 1
        BY <2>2, <4>1, <4>2
      <4> QED
        BY <3>2, <4>2, <4>3, LinkFacts
    <3> QED
      BY <3>1, <3>2
  <2>4. (QueuesOK /\ AppOK)'
    BY <1>0, <2>1, <2>2, <2>3 DEF QueuesOK, AppOK
  <2> QED
    BY <1>1, <2>4 DEF LinkInv, TypeOK, HostOK, QueuesOK, ParserOK, AppOK
<1> QED
  BY <1>2, <1>3

LEMMA PutStep == LinkInv /\ uart_putc => LinkInv'
<1> SUFFICES ASSUME LinkInv, uart_putc PROVE LinkInv'
  OBVIOUS
<1>0. HostOK /\ QueuesOK /\ ParserOK /\ AppOK
  BY Parts
<1>1. (QueuesOK /\ ParserOK)'
  BY <1>0, PartsKept DEF uart_putc
<1>2. CASE out = << >>
  <2>1. UNCHANGED hostVars /\ out' = out /\ at' \in {"poll", "pump"} /\ idle' = idle
    BY <1>2 DEF uart_putc
  <2>2. (HostOK /\ AppOK)'
    BY <1>0, <2>1, PartsKept DEF AppOK
  <2> QED
    BY <1>1, <2>2 DEF LinkInv, TypeOK, HostOK, QueuesOK, ParserOK, AppOK
<1>3. CASE out # << >>
  <2>1. /\ out' = Tail(out) /\ UNCHANGED <<hout, idle, at>>
        /\ \/ HostByte(Head(out)) /\ UNCHANGED faults
           \/ faults < MaxFaults /\ faults' = faults + 1 /\ UNCHANGED <<acked, reply, wait>>
    BY <1>3 DEF uart_putc
  <2>2. Head(out) \in Byte /\ Tail(out) \in Seq(Byte)
    BY <1>0, <1>3 DEF AppOK
  <2>3. faults' \in 0..MaxFaults
    BY <1>0, <2>1, LinkFacts DEF HostOK
  <2>4. acked' \in 0..Len(Commands) /\ reply' \in Seq(Byte) /\ wait' \in 0..RetryAfter
    <3>1. CASE HostByte(Head(out))
      <4>1. reply' \in Seq(Byte)
        BY <1>0, <2>2, <3>1, LinkFacts DEF HostByte, HostOK
      <4>2. /\ acked' = acked \/ (acked < Len(Commands) /\ acked' = acked + 1)
            /\ wait' = wait \/ wait' = 0
        BY <3>1 DEF HostByte, Answers
      <4> QED
        BY <1>0, <4>1, <4>2, LinkFacts DEF HostOK
    <3>2. CASE UNCHANGED <<acked, reply, wait>>
      BY <1>0, <3>2 DEF HostOK
    <3> QED
      BY <2>1, <3>1, <3>2
  <2>5. (HostOK /\ AppOK)'
    BY <1>0, <2>1, <2>2, <2>3, <2>4 DEF HostOK, AppOK
  <2> QED
    BY <1>1, <2>5 DEF LinkInv, TypeOK, HostOK, QueuesOK, ParserOK, AppOK
<1> QED
  BY <1>2, <1>3

\* A byte of a frame leaves the parser and the application in order: the body stays
\* within its array, and what is answered is made of bytes.
LEMMA CollectStep ==
  ASSUME ParserOK, AppOK, NEW c \in Byte, Collect(c)
  PROVE  /\ body' \in Seq(Byte) /\ Len(body') < BODY_MAX /\ BodyOK'
         /\ in_frame' \in BOOLEAN /\ last' \in Seq(Byte) /\ Len(last') <= 1 /\ AppOK'
<1> DEFINE b == Append(body, c)
<1>0. /\ body \in Seq(Byte) /\ Len(body) \in Nat /\ Len(body) < BODY_MAX /\ in_frame \in BOOLEAN
      /\ last \in Seq(Byte) /\ Len(last) <= 1
  BY DEF ParserOK
<1>1. /\ b \in Seq(Byte) /\ Len(b) = Len(body) + 1
      /\ \A i \in 1..Len(body) : b[i] = body[i]
      /\ Len(body) = 0 => b[1] = c
  BY <1>0
<1> HIDE DEF b
<1>2. /\ \A s \in Byte : frame_send_nak(s) \in Seq(Byte)
      /\ << >> \in Seq(Byte) /\ Len(<< >>) = 0 /\ BODY_MAX \in Nat /\ 2 < BODY_MAX /\ 0 \in Byte
  BY NakType, LinkFacts
<1>3. ASSUME Drop PROVE body' \in Seq(Byte) /\ Len(body') < BODY_MAX /\ BodyOK' /\ in_frame' \in BOOLEAN
  <2>1. body' = << >> /\ in_frame' = FALSE
    BY <1>3 DEF Drop
  <2>2. Len(body') = 0 /\ Len(body') < BODY_MAX
    BY <1>2, <2>1
  <2>3. BodyOK'
    BY <2>2 DEF BodyOK
  <2> QED
    BY <1>2, <2>1, <2>2, <2>3
<1>4. CASE UNCHANGED <<body, in_frame, last, idle, executed, out, at>>
  BY <1>0, <1>4 DEF BodyOK, AppOK, ParserOK
<1>5. CASE Drop /\ Send(frame_send_nak(0), "nak") /\ UNCHANGED <<last, idle, executed>>
  <2>1. AppOK'
    BY <1>2, <1>5 DEF Send, AppOK
  <2> QED
    BY <1>0, <1>3, <1>5, <2>1
<1>6. CASE Oversized(b) /\ body' = b /\ Send(frame_send_nak(0), "nak") /\ UNCHANGED <<in_frame, last, idle, executed>>
  <2>1. AppOK'
    BY <1>2, <1>6 DEF Send, AppOK
  <2>2. Len(b) = 1
    BY <1>6 DEF Oversized
  <2>3. BodyOK' /\ Len(body') < BODY_MAX /\ body' \in Seq(Byte)
    <3>1. body' = b /\ Len(body') = 1 /\ Len(body') < BODY_MAX
      BY <1>2, <1>6, <2>2
    <3>2. BodyOK'
      BY <3>1 DEF BodyOK
    <3> QED
      BY <1>1, <3>1, <3>2
  <2> QED
    BY <1>0, <1>6, <2>1, <2>3
<1>7. CASE ~Oversized(body) /\ ~Oversized(b) /\ body_complete(b)
  <2> DEFINE len == b[1]
  <2>1. len \in Nat /\ len <= MaxPayload /\ Len(b) <= 5 + len
    <3>1. len \in Byte
      BY <1>0, <1>1
    <3>2. len \in Nat
      BY <3>1, Sizes
    <3>3. CASE Len(body) = 0
      <4>1. Len(b) = 1 /\ len <= MaxPayload
        BY <1>1, <1>7, <3>2, <3>3, LinkFacts DEF Oversized
      <4> QED
        BY <3>2, <4>1
    <3>4. CASE Len(body) = 1
      <4>1. body[1] \in Nat /\ body[1] = len
        BY <1>1, <3>2, <3>4
      <4>2. len <= MaxPayload
        BY <1>7, <3>2, <3>4, <4>1, LinkFacts DEF Oversized
      <4> QED
        BY <1>1, <3>2, <3>4, <4>2
    <3>5. CASE Len(body) >= 2
      <4>1. body[1] = len
        BY <1>0, <1>1, <3>5
      <4>2. len <= MaxPayload /\ Len(body) < 5 + len
        BY <3>5, <4>1 DEF ParserOK, BodyOK
      <4> QED
        BY <1>0, <1>1, <3>2, <4>2
    <3> QED
      <4>1. \A n \in Nat : n = 0 \/ n = 1 \/ n >= 2
        OBVIOUS
      <4> QED
        BY <1>0, <3>3, <3>4, <3>5, <4>1, Zenon
  <2> HIDE DEF len
  <2>2. CASE Len(b) < 3 + len + 2
    <3>1. body' = b /\ UNCHANGED <<in_frame, last, idle, executed, out, at>>
      BY <1>7, <2>2 DEF body_complete, len
    <3>2. body' \in Seq(Byte) /\ Len(body') < BODY_MAX
      BY <1>0, <1>1, <2>1, <2>2, <3>1, LinkFacts
    <3>3. BodyOK'
      BY <1>1, <2>1, <2>2, <3>1 DEF BodyOK, len
    <3>4. AppOK'
      BY <3>1 DEF AppOK
    <3> QED
      BY <1>0, <3>1, <3>2, <3>3, <3>4
  <2>3. CASE ~ (Len(b) < 3 + len + 2)
    <3>1. Len(b) = 5 + len /\ b[2] \in Byte /\ b[3] \in Byte
      <4>1. Len(b) = 5 + len
        BY <1>0, <1>1, <2>1, <2>3
      <4> QED
        BY <1>1, <2>1, <4>1
    <3> DEFINE f == [seq |-> b[2], cmd |-> b[3], payload |-> SubSeq(b, 4, 3 + len)]
    <3>2. SubSeq(b, 4, 3 + len) \in Seq(Byte) /\ Len(SubSeq(b, 4, 3 + len)) = len
      BY <1>1, <2>1, <3>1
    <3>3. f \in Frame /\ f.seq = b[2] /\ Len(f.payload) \in Byte
      BY <2>1, <3>1, <3>2, LinkFacts DEF Frame
    <3> HIDE DEF f
    <3>4. frame_send(f) \in Seq(Byte) /\ frame_send_nak(f.seq) \in Seq(Byte) /\ frame_send_nak(b[2]) \in Seq(Byte)
      BY <1>2, <3>1, <3>3, SendType
    <3>5. CASE crc_ok(b, len)
      <4>1. Drop /\ last' = <<b[2]>> /\ idle' = 0 /\ handle(f)
        BY <1>7, <2>3, <3>5 DEF body_complete, len, f
      <4>2. last' \in Seq(Byte) /\ Len(last') <= 1
        BY <3>1, <4>1
      <4>3. out' \in Seq(Byte) /\ at' = "answer"
        <5>1. ASSUME NEW p \in Counts PROVE frame_send([f EXCEPT !.payload = p]) \in Seq(Byte)
          <6>1. p \in Seq(Byte) /\ Len(p) \in Byte
            BY LinkFacts
          <6>2. [f EXCEPT !.payload = p] \in Frame /\ [f EXCEPT !.payload = p].payload = p
            BY <3>3, <6>1 DEF Frame
          <6> QED
            BY <6>1, <6>2, SendType
        <5>2. Send(frame_send(f), "answer") \/ Answer(f)
          BY <4>1 DEF handle
        <5> QED
          BY <3>4, <5>1, <5>2 DEF Answer, Send
      <4>4. idle' \in 0..(IDLE_STOP + 1)
        BY <4>1, LinkFacts
      <4>5. AppOK'
        BY <4>3, <4>4 DEF AppOK
      <4> QED
        BY <1>3, <4>1, <4>2, <4>5
    <3>6. CASE ~crc_ok(b, len)
      <4>1. Drop /\ Send(frame_send_nak(b[2]), "nak") /\ UNCHANGED <<last, idle, executed>>
        BY <1>7, <2>3, <3>6 DEF body_complete, len
      <4>2. AppOK'
        BY <3>4, <4>1 DEF Send, AppOK
      <4> QED
        BY <1>0, <1>3, <4>1, <4>2
    <3> QED
      BY <3>5, <3>6
  <2> QED
    BY <2>2, <2>3
<1> QED
  BY <1>0, <1>4, <1>5, <1>6, <1>7 DEF Collect, b

LEMMA PollStep == LinkInv /\ Poll => LinkInv'
<1> SUFFICES ASSUME LinkInv, Poll PROVE LinkInv'
  OBVIOUS
<1>0. HostOK /\ QueuesOK /\ ParserOK /\ AppOK
  BY Parts
<1>1. HostOK'
  BY <1>0, PartsKept DEF Poll
<1>2. CASE ring = << >> /\ at' \in {"pump", "done"} /\ UNCHANGED <<idle, ring, parser, out, executed>>
  <2>1. (QueuesOK /\ ParserOK)'
    BY <1>0, <1>2, PartsKept DEF Poll
  <2>2. AppOK'
    BY <1>0, <1>2 DEF AppOK
  <2> QED
    BY <1>1, <2>1, <2>2 DEF LinkInv, TypeOK, HostOK, QueuesOK, ParserOK, AppOK
<1>3. CASE ring # << >> /\ ring' = Tail(ring)
  <2>1. Head(ring) \in Byte /\ QueuesOK'
    <3>1. ring \in Seq(Byte) /\ Len(ring) \in Nat /\ Len(ring) < RingSize
      BY <1>0 DEF QueuesOK
    <3>2. Head(ring) \in Byte /\ Tail(ring) \in Seq(Byte) /\ Len(Tail(ring)) = Len(ring) - 1
      BY <1>3, <3>1, HeadTailProperties
    <3>3. Len(Tail(ring)) < RingSize
      BY <3>1, <3>2, LinkFacts
    <3> QED
      BY <1>0, <1>3, <3>2, <3>3 DEF Poll, QueuesOK
  <2>2. Xor20(Head(ring)) \in Byte
    BY <2>1, Xor20Byte
  <2>3. CASE esc' \in BOOLEAN /\ \E c \in Byte : Collect(c)
    BY <1>0, <1>1, <2>1, <2>3, CollectStep DEF LinkInv, TypeOK, HostOK, QueuesOK, ParserOK, AppOK
  <2>4. CASE Flagged /\ UNCHANGED <<esc, last, idle, out, executed, at>>
    <3>1. body' = << >> /\ in_frame' = TRUE
      BY <2>4 DEF Flagged
    <3>2. body' \in Seq(Byte) /\ Len(body') = 0 /\ Len(body') < BODY_MAX
      BY <3>1, LinkFacts
    <3>3. ParserOK'
      BY <1>0, <2>4, <3>1, <3>2 DEF ParserOK, BodyOK
    <3>4. AppOK'
      BY <1>0, <2>4 DEF AppOK
    <3> QED
      BY <1>1, <2>1, <3>3, <3>4 DEF LinkInv, TypeOK, HostOK, QueuesOK, ParserOK, AppOK
  <2>5. CASE esc' = TRUE /\ UNCHANGED <<body, in_frame, last, idle, executed, out, at>>
    <3>1. (ParserOK /\ AppOK)'
      BY <1>0, <2>5 DEF ParserOK, BodyOK, AppOK
    <3> QED
      BY <1>1, <2>1, <3>1 DEF LinkInv, TypeOK, HostOK, QueuesOK, ParserOK, AppOK
  <2>6. esc \in BOOLEAN
    BY <1>0 DEF ParserOK
  <2> QED
    BY <1>3, <2>1, <2>2, <2>3, <2>4, <2>5, <2>6 DEF Poll
<1> QED
  BY <1>2, <1>3 DEF Poll

\* frame.c, uart.v, uart_rx.c: whatever bytes come, in whatever order, and whatever
\* the line does to them, the parser never writes beyond its body, the FIFO and the ring
\* keep to their memories, and every answer is made of bytes; for every size of the three
\* and every commands that fit the body.
THEOREM LinkTypeCorrect == Spec => []TypeOK
<1>1. LinkInv /\ [Next]_vars => LinkInv'
  <2> SUFFICES ASSUME LinkInv, [Next]_vars PROVE LinkInv'
    OBVIOUS
  <2>1. CASE HostSend
    BY <2>1, HostStep
  <2>8. CASE Tick
    BY <2>8, TickStep
  <2>2. CASE Arrive
    BY <2>2, ArriveStep
  <2>3. CASE LineFault
    BY <2>3, FaultStep
  <2>4. CASE uart_rx_pump
    BY <2>4, PumpStep
  <2>5. CASE Poll
    BY <2>5, PollStep
  <2>6. CASE uart_putc
    BY <2>6, PutStep
  <2>7. CASE UNCHANGED vars
    BY <2>7 DEF vars, hostVars, parser, LinkInv, TypeOK, BodyOK
  <2> QED
    BY <2>1, <2>2, <2>3, <2>4, <2>5, <2>6, <2>7, <2>8 DEF Next, Firmware
<1>2. LinkInv => TypeOK
  BY DEF LinkInv
<1> QED
  BY LinkInit, <1>1, <1>2, PTL DEF Spec
=============================================================================
