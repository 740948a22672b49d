---------------------------- MODULE LibraryProofs ---------------------------
(***************************************************************************)
(* Proofs about the firmware library.  The heap (Allocator), for every     *)
(* size of the arena and every sequence of calls: the blocks tile the      *)
(* arena, what malloc gives out is nobody else's, and it fails only when   *)
(* no block is large enough.  The C functions (LibraryCalls), for every    *)
(* memory, every string and every width of a long: copies, comparisons,    *)
(* searches and conversions keep the contracts the C standard states.      *)
(***************************************************************************)
EXTENDS LibraryCalls, Allocator, BasicLemmas, FiniteSetTheorems

-----------------------------------------------------------------------------
(* Numbers.                                                                *)

LEMMA Sizes ==
  /\ HeapBytes \in Nat /\ HeapBytes > 0 /\ HeapBytes % 8 = 0 /\ HeapBytes < SizeT /\ SizeT \in Nat
  /\ MaxBlocks \in Nat /\ 8 * MaxBlocks = HeapBytes
  /\ 0 \in Offsets
  /\ \A o \in Offsets : o \in Nat /\ o < HeapBytes /\ o % 8 = 0
  /\ \A o \in Nat : o < HeapBytes /\ o % 8 = 0 => o \in Offsets
<1>1. HeapBytes \in Nat /\ HeapBytes > 0 /\ HeapBytes % 8 = 0 /\ SizeT \in Nat /\ HeapBytes * HeapBytes + 16 <= SizeT
  BY HeapAssumption
<1>2. HeapBytes <= HeapBytes * HeapBytes
  BY <1>1
<1>3. HeapBytes < SizeT
  BY <1>1, <1>2
<1> QED
  BY <1>1, <1>3 DEF MaxBlocks, Offsets, OMNI_ALIGN

\* The sizes for which size_t does not wrap.
NoWrap(n) == n \in Nat /\ n + 15 < SizeT

\* What is needed for n bytes is the least multiple of 8 with room for them and a header.
LEMMA Needs ==
  ASSUME NEW n, NoWrap(n)
  PROVE  /\ need(n) \in Nat /\ need(n) % 8 = 0 /\ n + 8 <= need(n) /\ need(n) < n + 16
         /\ \A s \in Nat : s % 8 = 0 /\ n + 8 <= s => need(n) <= s
<1>1. n \in Nat /\ n + 15 < SizeT /\ SizeT \in Nat \ {0}
  BY Sizes DEF NoWrap
<1>2. (8 + n) % SizeT = 8 + n /\ (8 + n + 8 - 1) % SizeT = 15 + n
  <2>1. 8 + n \in Nat /\ 8 + n < SizeT /\ 15 + n \in Nat /\ 15 + n < SizeT /\ 8 + n + 8 - 1 = 15 + n
    BY <1>1
  <2> QED
    BY <1>1, <2>1, ModSmall
<1>3. need(n) = (15 + n) - ((15 + n) % 8)
  BY <1>2 DEF need, align_up, AlignDown, HDR_ALIGNED, OMNI_ALIGN
<1> QED
  BY <1>1, <1>3

-----------------------------------------------------------------------------
(* Tilings.                                                                *)

Cell   == [size : Nat, magic : {"free", "used", "data"}]
Arenas == [Offsets -> Cell]

End(a, b) == b + a[b].size

\* The headers B of arena a stand block after block from 0 to the arena's end.
Tiles(a, B) ==
  /\ a \in Arenas /\ B \in SUBSET Offsets /\ 0 \in B
  /\ \A b \in B :
       /\ a[b].magic \in {"free", "used"}
       /\ End(a, b) \in B \cup {HeapBytes} /\ b < End(a, b)
       /\ \A c \in B : b < c => End(a, b) <= c

\* No two neighbours up to x are free.
SettledTo(x, a, B) == \A b \in B, c \in B : End(a, b) = c /\ c <= x => ~ (is_free(a, b) /\ is_free(a, c))
Settled(a, B) == SettledTo(HeapBytes, a, B)

Uses(a, B, b) == b \in B /\ a[b].magic = "used"

\* The cells of block b behind its header.
Payload(a, b) == {o \in Offsets : b < o /\ o < End(a, b)}

\* But for those in S the used blocks are the same, as large, and hold what they held.
Keeps(S, a, B, aa, BB) ==
  \A b \in Offsets \ S :
    /\ Uses(a, B, b) <=> Uses(aa, BB, b)
    /\ Uses(a, B, b) => aa[b].size = a[b].size /\ \A o \in Payload(a, b) : aa[o] = a[o]

LEMMA Ends ==
  ASSUME NEW a, NEW B, Tiles(a, B), NEW b \in B
  PROVE  /\ b \in Offsets /\ b \in Nat /\ b < HeapBytes /\ b % 8 = 0 /\ a[b] \in Cell
         /\ a[b].size \in Nat /\ a[b].size % 8 = 0 /\ a[b].size >= 8
         /\ End(a, b) \in Nat /\ End(a, b) <= HeapBytes /\ End(a, b) % 8 = 0
         /\ b + 8 <= End(a, b) /\ (End(a, b) \in B \/ End(a, b) = HeapBytes)
         /\ (End(a, b) \in B => End(a, b) < HeapBytes)
<1>1. b \in Offsets /\ b \in Nat /\ b < HeapBytes /\ b % 8 = 0 /\ a[b] \in Cell /\ a[b].size \in Nat
  BY Sizes DEF Tiles, Arenas, Cell
<1>2. End(a, b) = b + a[b].size
  BY DEF End
<1>3. b < End(a, b) /\ (End(a, b) \in B \/ End(a, b) = HeapBytes)
  BY DEF Tiles
<1>4. End(a, b) \in B => End(a, b) \in Nat /\ End(a, b) < HeapBytes /\ End(a, b) % 8 = 0
  BY Sizes DEF Tiles
<1>5. End(a, b) \in Nat /\ End(a, b) <= HeapBytes /\ End(a, b) % 8 = 0
  BY <1>3, <1>4, Sizes
<1> HIDE DEF End
<1>6. a[b].size % 8 = 0 /\ a[b].size >= 8
  BY <1>1, <1>2, <1>3, <1>5
<1> QED
  BY <1>1, <1>2, <1>3, <1>4, <1>5, <1>6

\* No header lies in a payload, and no two payloads share a cell.
LEMMA Inside ==
  ASSUME NEW a, NEW B, Tiles(a, B), NEW b \in B, NEW o \in Payload(a, b)
  PROVE  o \in Offsets /\ o \in Nat /\ o \notin B /\ \A c \in B : c # b => o \notin Payload(a, c)
<1>1. o \in Offsets /\ o \in Nat /\ b < o /\ o < End(a, b) /\ b \in Nat /\ End(a, b) \in Nat
  BY Ends, Sizes DEF Payload
<1>2. o \notin B
  <2>1. o \in B => End(a, b) <= o
    BY <1>1 DEF Tiles
  <2> QED
    BY <1>1, <2>1
<1>3. ASSUME NEW c \in B, c # b, o \in Payload(a, c) PROVE FALSE
  <2>1. c \in Nat /\ c < o /\ o < End(a, c) /\ End(a, c) \in Nat
    BY <1>3, Ends DEF Payload
  <2>2. (b < c => End(a, b) <= c) /\ (c < b => End(a, c) <= b)
    BY DEF Tiles
  <2> QED
    BY <1>1, <1>3, <2>1, <2>2
<1> QED
  BY <1>1, <1>2, <1>3

-----------------------------------------------------------------------------
(* The loops.                                                              *)

\* A walk meets the headers, all of them and nothing else.
LEMMA WalkIs == ASSUME NEW a, NEW B, Tiles(a, B) PROVE Walk(a) = B
<1> DEFINE n == MaxBlocks
           Met(x) == [b |-> x, met |-> {c \in B : c < x}]
           V == {Met(x) : x \in B \cup {HeapBytes}}
           w == [b |-> 0, met |-> {}]
           F(f) == [i \in 0..n |-> IF i = 0 THEN w ELSE Onward(a, f[i - 1])]
           turn == CHOOSE f : f = F(f)
<1>n. n \in Nat /\ 0 \in Nat /\ 0 <= n
  BY Sizes
<1>1. Walk(a) = turn[n].met
  BY DEF Walk
<1>2. w \in V
  <2>1. {c \in B : c < 0} = {}
    BY Ends
  <2> QED
    BY <2>1 DEF Tiles
<1>3. ASSUME NEW v \in V PROVE Onward(a, v) \in V /\ (v.b < HeapBytes => Onward(a, v).b >= v.b + 8)
  <2>1. PICK x \in B \cup {HeapBytes} : v = Met(x)
    OBVIOUS
  <2>2. CASE x = HeapBytes
    <3>1. ~ (v.b < HeapBytes) /\ Onward(a, v) = v
      BY <2>1, <2>2, Sizes DEF Onward
    <3> QED
      BY <3>1
  <2>3. CASE x # HeapBytes
    <3>1. x \in B /\ x < HeapBytes /\ End(a, x) \in B \cup {HeapBytes} /\ End(a, x) >= x + 8
      BY <2>1, <2>3, Ends
    <3>2. {c \in B : c < x} \cup {x} = {c \in B : c < End(a, x)}
      <4>1. ASSUME NEW c \in B PROVE c < End(a, x) <=> c < x \/ c = x
        <5>1. c \in Nat /\ x \in Nat /\ End(a, x) \in Nat /\ (x < c => End(a, x) <= c)
          BY <3>1, Ends DEF Tiles
        <5> QED
          BY <3>1, <5>1
      <4> QED
        BY <3>1, <4>1
    <3>3. Onward(a, v) = Met(End(a, x))
      BY <2>1, <3>1, <3>2 DEF Onward, End
    <3>4. Met(End(a, x)) \in V
      BY <3>1
    <3>5. v.b = x /\ Onward(a, v).b = End(a, x)
      BY <2>1, <3>3
    <3> QED
      BY <3>1, <3>3, <3>4, <3>5
  <2> QED
    BY <2>2, <2>3
<1>4. \A v \in V : v.b \in Nat /\ v.b <= HeapBytes /\ v.met = {c \in B : c < v.b}
  <2>1. ASSUME NEW x \in B \cup {HeapBytes} PROVE x \in Nat /\ x <= HeapBytes
    <3>1. CASE x \in B
      BY <3>1, Sizes DEF Tiles
    <3>2. CASE x = HeapBytes
      BY <3>2, Sizes
    <3> QED
      BY <3>1, <3>2
  <2> QED
    BY <2>1
<1>5. turn = F(turn)
  <2> DEFINE G == [i \in 0..n |-> [v \in V |-> Onward(a, v)]]
  <2>1. G \in [0..n -> [V -> V]] /\ \A i \in 0..n, v \in V : G[i][v] = Onward(a, v)
    BY <1>3
  <2> HIDE DEF G, V, w, n
  <2>2. PICK f : Loops(f, V, 0, n, w, G)
    BY <1>n, <1>2, <2>1, LoopIsFunction, Zenon
  <2>3. f \in [0..n -> V] /\ \A i \in 0..n : f[i] = IF i = 0 THEN w ELSE Onward(a, f[i - 1])
    BY <1>n, <2>1, <2>2 DEF Loops
  <2>4. f = F(f)
    BY <2>3
  <2> QED
    BY <2>4, Zenon
<1> HIDE DEF turn, V
<1> DEFINE W == {u \in (0..n) \X V : u[2].b >= 8 * u[1] \/ u[2].b = HeapBytes}
           g == [i \in 0..n |-> <<i, turn[i]>>]
<1>6. turn[0] = w /\ \A i \in (0 + 1)..n : turn[i] = Onward(a, turn[i - 1])
  <2>1. \A i \in 0..n : F(turn)[i] = IF i = 0 THEN w ELSE Onward(a, turn[i - 1])
    OBVIOUS
  <2> HIDE DEF F, w
  <2> QED
    BY <1>n, <1>5, <2>1
<1>7. g[0] \in W
  <2>1. g[0] = <<0, w>>
    BY <1>n, <1>6
  <2>2. w.b >= 8 * 0
    OBVIOUS
  <2> HIDE DEF g, w
  <2> QED
    BY <1>n, <1>2, <2>1, <2>2
<1>8. ASSUME NEW i \in (0 + 1)..n, g[i - 1] \in W PROVE g[i] \in W
  <2>1. i - 1 \in 0..n /\ i \in 0..n /\ g[i - 1] = <<i - 1, turn[i - 1]>> /\ g[i] = <<i, turn[i]>>
    BY <1>n
  <2>2. turn[i - 1] \in V /\ (turn[i - 1].b >= 8 * (i - 1) \/ turn[i - 1].b = HeapBytes)
    BY <1>8, <2>1
  <2>3. turn[i] = Onward(a, turn[i - 1]) /\ turn[i] \in V
    BY <1>3, <1>6, <2>2
  <2>4. turn[i - 1].b = HeapBytes => turn[i] = turn[i - 1]
    BY <2>3, Sizes DEF Onward
  <2>5. turn[i].b >= 8 * i \/ turn[i].b = HeapBytes
    <3>1. turn[i - 1].b \in Nat /\ turn[i].b \in Nat /\ turn[i - 1].b <= HeapBytes
      BY <1>4, <2>2, <2>3
    <3>2. turn[i - 1].b < HeapBytes => turn[i].b >= turn[i - 1].b + 8
      BY <1>3, <2>2, <2>3
    <3> QED
      BY <2>1, <2>2, <2>4, <3>1, <3>2, Sizes
  <2> HIDE DEF g
  <2> QED
    BY <2>1, <2>3, <2>5
<1>9. g[n] \in W
  <2> HIDE DEF g, W
  <2>1. \A i \in 0..n : g[i] \in W
    BY <1>n, <1>7, <1>8, LoopStays
  <2> QED
    BY <1>n, <2>1
<1>10. turn[n] \in V /\ (turn[n].b >= 8 * n \/ turn[n].b = HeapBytes)
  BY <1>n, <1>9
<1>11. turn[n].b = HeapBytes
  <2> HIDE DEF n
  <2>1. 8 * n = HeapBytes
    BY Sizes DEF n
  <2> QED
    BY <1>4, <1>10, <2>1, Sizes
<1>12. turn[n].met = {c \in B : c < HeapBytes}
  BY <1>4, <1>10, <1>11
<1>13. {c \in B : c < HeapBytes} = B
  BY Ends
<1> QED
  BY <1>1, <1>12, <1>13

\* Two neighbours made one.
LEMMA Joined ==
  ASSUME NEW a, NEW B, Tiles(a, B), NEW b \in B, NEW next \in B, End(a, b) = next,
         NEW aa \in Arenas, aa[b].size = a[b].size + a[next].size, aa[b].magic = a[b].magic,
         \A o \in Offsets : o # b => aa[o] = a[o]
  PROVE  /\ Tiles(aa, B \ {next}) /\ b \in B \ {next}
         /\ End(aa, b) = End(a, next) /\ \A o \in B : o # b => End(aa, o) = End(a, o)
<1> DEFINE BB == B \ {next}
<1>0. /\ b \in Offsets /\ b \in Nat /\ a[b] \in Cell /\ a[b].size \in Nat /\ next \in Nat
      /\ b < next /\ next = b + a[b].size /\ HeapBytes \in Nat
  <2>1. next = b + a[b].size
    BY DEF End
  <2> QED
    BY <2>1, Ends, Sizes DEF Tiles
<1>e. End(a, b) = next
  OBVIOUS
<1>1. next < HeapBytes /\ next \in Offsets /\ a[next].size \in Nat /\ a[next].size >= 8
      /\ a \in Arenas /\ End(a, next) = next + a[next].size
  BY Ends DEF Tiles, End
<1>3. /\ aa \in Arenas /\ aa[b].size = a[b].size + a[next].size /\ aa[b].magic = a[b].magic
      /\ \A o \in Offsets : o # b => aa[o] = a[o]
  OBVIOUS
<1>4. End(aa, b) = End(a, next) /\ \A o \in B : o # b => End(aa, o) = End(a, o)
  BY <1>0, <1>1, <1>3 DEF End, Tiles
<1>5. Tiles(aa, BB)
  <2>1. BB \in SUBSET Offsets /\ 0 \in BB
    <3>1. 0 # next /\ B \in SUBSET Offsets /\ 0 \in B
      BY <1>0 DEF Tiles
    <3> QED
      BY <3>1
  <2>2. ASSUME NEW x \in BB
        PROVE  /\ aa[x].magic \in {"free", "used"}
               /\ End(aa, x) \in BB \cup {HeapBytes} /\ x < End(aa, x)
               /\ \A y \in BB : x < y => End(aa, x) <= y
    <3>1. x \in B /\ x # next /\ x \in Offsets /\ x \in Nat /\ a[x].magic \in {"free", "used"}
      BY Ends DEF Tiles
    <3>2. CASE x = b
      <4>1. End(a, next) \in B \cup {HeapBytes} /\ next < End(a, next) /\ End(a, next) \in Nat
        BY <1>1, Ends DEF Tiles
      <4>2. ASSUME NEW y \in BB, x < y PROVE End(aa, x) <= y
        <5>1. y \in B /\ y # next /\ y \in Nat /\ next <= y /\ (next < y => End(a, next) <= y)
          BY <1>e, <1>1, <3>2, <4>2, Ends DEF Tiles
        <5> QED
          BY <1>0, <1>4, <3>2, <5>1
      <4> QED
        BY <1>0, <1>1, <1>3, <1>4, <3>1, <3>2, <4>1, <4>2
    <3>3. CASE x # b
      <4>1. End(aa, x) = End(a, x) /\ aa[x] = a[x]
        BY <1>3, <1>4, <3>1, <3>3
      <4>2. End(a, x) # next
        <5>1. (x < b => End(a, x) <= b) /\ (b < x => next <= x) /\ x < End(a, x)
          BY <1>e, <3>1 DEF Tiles
        <5>2. End(a, x) \in Nat
          BY <3>1, Ends
        <5> QED
          BY <1>0, <3>1, <3>3, <5>1, <5>2
      <4>3. End(a, x) \in B \cup {HeapBytes} /\ x < End(a, x) /\ \A y \in B : x < y => End(a, x) <= y
        BY <3>1 DEF Tiles
      <4> QED
        BY <3>1, <4>1, <4>2, <4>3
    <3> QED
      BY <3>2, <3>3
  <2> QED
    BY <1>3, <2>1, <2>2 DEF Tiles
<1> QED
  BY <1>0, <1>3, <1>4, <1>5

\* One turn of coalesce, at block b: the blocks up to b stay settled, and b or its end
\* moves on.
LEMMA MergeStep ==
  ASSUME NEW a, NEW B, Tiles(a, B), NEW b \in B, SettledTo(b, a, B),
         NEW c, c = [b |-> b, a |-> a]
  PROVE  LET d == Merged(c) IN
         /\ DOMAIN d = {"b", "a"} /\ d = [b |-> d.b, a |-> d.a]
         /\ \E BB : /\ Tiles(d.a, BB) /\ d.b \in BB /\ SettledTo(d.b, d.a, BB) /\ Keeps({}, a, B, d.a, BB)
         /\ IF End(a, b) = HeapBytes THEN d = c ELSE End(d.a, d.b) >= End(a, b) + 8
<1> DEFINE next == End(a, b)
<1>0. /\ c.b = b /\ c.a = a
      /\ Merged(c) = IF next >= HeapBytes THEN c
                     ELSE IF is_free(a, b) /\ is_free(a, next)
                            THEN [b |-> b, a |-> [a EXCEPT ![b].size = @ + a[next].size]]
                     ELSE [b |-> next, a |-> a]
  BY DEF Merged, End
<1>1. /\ b \in Offsets /\ b \in Nat /\ a[b] \in Cell /\ a[b].size \in Nat /\ next \in Nat
      /\ b < next /\ next <= HeapBytes /\ next = b + a[b].size
      /\ (next \in B \/ next = HeapBytes) /\ (next \in B => next < HeapBytes) /\ HeapBytes \in Nat
  <2>1. next = b + a[b].size
    BY DEF End
  <2> QED
    BY <2>1, Ends, Sizes DEF Tiles
<1>e. End(a, b) = next
  OBVIOUS
<1> HIDE DEF next
<1>2. Keeps({}, a, B, a, B)
  BY DEF Keeps
<1>3. CASE next = HeapBytes
  <2>1. Merged(c) = c
    BY <1>0, <1>1, <1>3
  <2> QED
    BY <1>e, <1>0, <1>2, <1>3, <2>1
<1>4. CASE next # HeapBytes /\ ~ (is_free(a, b) /\ is_free(a, next))
  <2>1. next \in B /\ next < HeapBytes
    BY <1>1, <1>4
  <2>2. Merged(c) = [b |-> next, a |-> a]
    BY <1>0, <1>1, <1>4, <2>1
  <2>3. SettledTo(next, a, B)
    <3> SUFFICES ASSUME NEW x \in B, NEW y \in B, End(a, x) = y, y <= next
                 PROVE  ~ (is_free(a, x) /\ is_free(a, y))
      BY DEF SettledTo
    <3>1. x \in Nat /\ y \in Nat /\ x < y /\ (b < y => next <= y) /\ (x < b => End(a, x) <= b)
          /\ (b < x => next <= x)
      BY <1>e, <1>1, Ends DEF Tiles
    <3>2. CASE y <= b
      BY <3>2 DEF SettledTo
    <3>3. CASE ~ (y <= b)
      <4>1. y = next
        BY <1>1, <3>1, <3>3
      <4>2. x = b
        BY <1>1, <3>1, <3>3, <4>1
      <4> QED
        BY <1>4, <4>1, <4>2
    <3> QED
      BY <3>2, <3>3
  <2>4. End(a, next) >= next + 8
    BY <2>1, Ends
  <2> QED
    BY <1>e, <1>2, <1>4, <2>1, <2>2, <2>3, <2>4
<1>5. CASE next # HeapBytes /\ is_free(a, b) /\ is_free(a, next)
  <2> DEFINE aa == [a EXCEPT ![b].size = @ + a[next].size]
             BB == B \ {next}
  <2>1. next \in B /\ next < HeapBytes /\ next \in Offsets /\ a[next].size \in Nat /\ a[next].size >= 8
        /\ End(a, next) = next + a[next].size /\ a \in Arenas
    BY <1>1, <1>5, Ends DEF Tiles, End
  <2>2. Merged(c) = [b |-> b, a |-> aa]
    BY <1>0, <1>1, <1>5, <2>1
  <2>3. /\ aa \in Arenas /\ aa[b].size = a[b].size + a[next].size /\ aa[b].magic = a[b].magic
        /\ \A o \in Offsets : o # b => aa[o] = a[o]
    BY <1>1, <2>1 DEF Arenas, Cell
  <2> HIDE DEF aa
  <2>5. /\ Tiles(aa, BB) /\ b \in BB
        /\ aa[b].size = a[b].size + a[next].size /\ aa[b].magic = a[b].magic
        /\ \A o \in Offsets : o # b => aa[o] = a[o]
        /\ End(aa, b) = End(a, next) /\ \A o \in B : o # b => End(aa, o) = End(a, o)
    BY <1>e, <2>1, <2>3, Joined
  <2>6. SettledTo(b, aa, BB)
    <3> SUFFICES ASSUME NEW x \in BB, NEW y \in BB, End(aa, x) = y, y <= b
                 PROVE  ~ (is_free(aa, x) /\ is_free(aa, y))
      BY DEF SettledTo
    <3>1. x \in B /\ y \in B /\ x \in Offsets /\ y \in Offsets /\ x \in Nat /\ y \in Nat
      BY Ends
    <3>2. x # b
      <4>1. x < y
        BY <2>5 DEF Tiles
      <4> QED
        BY <1>1, <3>1, <4>1
    <3>3. End(a, x) = y /\ aa[x] = a[x] /\ aa[y].magic = a[y].magic
      BY <2>5, <3>1, <3>2
    <3>4. ~ (is_free(a, x) /\ is_free(a, y))
      BY <3>1, <3>3 DEF SettledTo
    <3> QED
      BY <3>3, <3>4 DEF is_free
  <2>7. Keeps({}, a, B, aa, BB)
    <3>1. a[next].magic = "free" /\ a[b].magic = "free"
      BY <1>5 DEF is_free
    <3>2. ASSUME NEW x \in B, NEW o \in Payload(a, x) PROVE aa[o] = a[o]
      BY <2>5, <3>2, Inside
    <3> QED
      BY <1>1, <2>1, <2>5, <3>1, <3>2 DEF Keeps, Uses
  <2>8. b \in BB /\ End(aa, b) >= next + 8
    BY <1>1, <2>1, <2>5
  <2> QED
    BY <1>e, <1>5, <2>2, <2>5, <2>6, <2>7, <2>8
<1> QED
  BY <1>3, <1>4, <1>5

\* Keeping is transitive.
LEMMA KeepsOn ==
  ASSUME NEW a, NEW B, NEW aa, NEW BB, NEW aaa, NEW BBB, NEW S, NEW T,
         Keeps(S, a, B, aa, BB), Keeps(T, aa, BB, aaa, BBB)
  PROVE  Keeps(S \cup T, a, B, aaa, BBB)
<1> SUFFICES ASSUME NEW b \in Offsets, b \notin S, b \notin T
             PROVE  /\ Uses(a, B, b) <=> Uses(aaa, BBB, b)
                    /\ Uses(a, B, b) => aaa[b].size = a[b].size /\ \A o \in Payload(a, b) : aaa[o] = a[o]
  BY DEF Keeps
<1>1. /\ Uses(a, B, b) <=> Uses(aa, BB, b)
      /\ Uses(a, B, b) => aa[b].size = a[b].size /\ \A o \in Payload(a, b) : aa[o] = a[o]
  BY DEF Keeps
<1>2. /\ Uses(aa, BB, b) <=> Uses(aaa, BBB, b)
      /\ Uses(aa, BB, b) => aaa[b].size = aa[b].size /\ \A o \in Payload(aa, b) : aaa[o] = aa[o]
  BY DEF Keeps
<1>3. aa[b].size = a[b].size => Payload(aa, b) = Payload(a, b)
  BY DEF Payload, End
<1> QED
  BY <1>1, <1>2, <1>3

\* coalesce leaves no two free neighbours, and the used blocks alone.
LEMMA Coalesced ==
  ASSUME NEW a, NEW B, Tiles(a, B)
  PROVE  \E BB : /\ Tiles(coalesce(a), BB) /\ Settled(coalesce(a), BB)
                 /\ Keeps({}, a, B, coalesce(a), BB)
<1> DEFINE n == MaxBlocks
           Ok(c, C) == Tiles(c.a, C) /\ c.b \in C /\ SettledTo(c.b, c.a, C) /\ Keeps({}, a, B, c.a, C)
           V == {c \in [b : Offsets, a : Arenas] : \E C : Ok(c, C)}
           w == [b |-> 0, a |-> a]
           F(f) == [i \in 0..n |-> IF i = 0 THEN w ELSE Merged(f[i - 1])]
           turn == CHOOSE f : f = F(f)
<1>n. n \in Nat /\ 0 \in Nat /\ 0 <= n
  BY Sizes
<1>1. coalesce(a) = turn[n].a
  BY DEF coalesce
<1>2. w \in V
  <2>1. SettledTo(0, a, B)
    <3>1. \A b \in B : End(a, b) \in Nat /\ End(a, b) > 0
      BY Ends
    <3> QED
      BY <3>1 DEF SettledTo
  <2>2. 0 \in B /\ 0 \in Offsets /\ a \in Arenas /\ Keeps({}, a, B, a, B)
    BY Sizes DEF Tiles, Keeps
  <2>3. Ok(w, B) /\ w \in [b : Offsets, a : Arenas]
    BY <2>1, <2>2
  <2> HIDE DEF Ok, w
  <2> QED
    BY <2>3
<1>3. ASSUME NEW v \in V
      PROVE  /\ Merged(v) \in V
             /\ End(v.a, v.b) \in Nat /\ End(v.a, v.b) <= HeapBytes
             /\ IF End(v.a, v.b) = HeapBytes THEN Merged(v) = v
                ELSE End(Merged(v).a, Merged(v).b) >= End(v.a, v.b) + 8
  <2>1. PICK C : Ok(v, C)
    OBVIOUS
  <2>2. v = [b |-> v.b, a |-> v.a] /\ Tiles(v.a, C) /\ v.b \in C /\ SettledTo(v.b, v.a, C) /\ Keeps({}, a, B, v.a, C)
    BY <2>1
  <2> DEFINE d == Merged(v)
  <2>3. /\ d = [b |-> d.b, a |-> d.a]
        /\ \E D : Tiles(d.a, D) /\ d.b \in D /\ SettledTo(d.b, d.a, D) /\ Keeps({}, v.a, C, d.a, D)
        /\ IF End(v.a, v.b) = HeapBytes THEN d = v ELSE End(d.a, d.b) >= End(v.a, v.b) + 8
    <3> HIDE DEF V
    <3> QED
      BY <2>2, MergeStep
  <2> HIDE DEF d
  <2>4. PICK D : Tiles(d.a, D) /\ d.b \in D /\ SettledTo(d.b, d.a, D) /\ Keeps({}, v.a, C, d.a, D)
    BY <2>3
  <2>5. Keeps({}, a, B, d.a, D)
    <3>1. {} \cup {} = {}
      OBVIOUS
    <3> QED
      BY <2>2, <2>4, <3>1, KeepsOn
  <2>6. d \in [b : Offsets, a : Arenas]
    BY <2>3, <2>4 DEF Tiles
  <2>7. d \in V
    BY <2>4, <2>5, <2>6
  <2>8. End(v.a, v.b) \in Nat /\ End(v.a, v.b) <= HeapBytes
    BY <2>2, Ends
  <2> QED
    BY <2>3, <2>7, <2>8 DEF d
<1>4. turn = F(turn)
  <2> DEFINE G == [i \in 0..n |-> [v \in V |-> Merged(v)]]
  <2> HIDE DEF V, w, n
  <2>1. G \in [0..n -> [V -> V]] /\ \A i \in 0..n, v \in V : G[i][v] = Merged(v)
    BY <1>3
  <2> HIDE DEF G
  <2>2. PICK f : Loops(f, V, 0, n, w, G)
    BY <1>n, <1>2, <2>1, LoopIsFunction, Zenon
  <2>3. f \in [0..n -> V] /\ \A i \in 0..n : f[i] = IF i = 0 THEN w ELSE Merged(f[i - 1])
    BY <1>n, <2>1, <2>2 DEF Loops
  <2>4. f = F(f)
    BY <2>3
  <2> QED
    BY <2>4, Zenon
<1> HIDE DEF turn, V, w
<1> DEFINE W == {u \in (0..n) \X V : LET e == End(u[2].a, u[2].b) IN e >= 8 * (u[1] + 1) \/ e = HeapBytes}
           g == [i \in 0..n |-> <<i, turn[i]>>]
<1>5. turn[0] = w /\ \A i \in (0 + 1)..n : turn[i] = Merged(turn[i - 1])
  <2>1. \A i \in 0..n : F(turn)[i] = IF i = 0 THEN w ELSE Merged(turn[i - 1])
    OBVIOUS
  <2> HIDE DEF F
  <2> QED
    BY <1>n, <1>4, <2>1
<1>6. g[0] \in W
  <2>1. g[0] = <<0, w>>
    BY <1>n, <1>5
  <2>2. w.b = 0 /\ w.a = a /\ End(a, 0) >= 8 * (0 + 1)
    BY Ends DEF Tiles, w
  <2> HIDE DEF g
  <2> QED
    BY <1>n, <1>2, <2>1, <2>2
<1>7. ASSUME NEW i \in (0 + 1)..n, g[i - 1] \in W PROVE g[i] \in W
  <2> DEFINE e(k) == End(turn[k].a, turn[k].b)
  <2>1. i \in Nat /\ i - 1 \in 0..n /\ i \in 0..n /\ g[i - 1] = <<i - 1, turn[i - 1]>> /\ g[i] = <<i, turn[i]>>
    BY <1>n
  <2>2. turn[i - 1] \in V /\ (e(i - 1) >= 8 * (i - 1 + 1) \/ e(i - 1) = HeapBytes)
    BY <1>7, <2>1
  <2>3. turn[i] = Merged(turn[i - 1]) /\ turn[i] \in V
    BY <1>3, <1>5, <2>2
  <2>4. /\ e(i - 1) \in Nat /\ e(i) \in Nat
        /\ IF e(i - 1) = HeapBytes THEN e(i) = HeapBytes ELSE e(i) >= e(i - 1) + 8
    BY <1>3, <2>2, <2>3
  <2> HIDE DEF g, e
  <2>5. e(i) >= 8 * (i + 1) \/ e(i) = HeapBytes
    BY <2>1, <2>2, <2>4
  <2> QED
    BY <2>1, <2>3, <2>5 DEF e
<1>8. g[n] \in W
  <2> HIDE DEF g, W
  <2>1. \A i \in 0..n : g[i] \in W
    BY <1>n, <1>6, <1>7, LoopStays
  <2> QED
    BY <1>n, <2>1
<1> DEFINE c == turn[n]
<1>9. c \in V /\ End(c.a, c.b) = HeapBytes
  <2>1. c \in V /\ (End(c.a, c.b) >= 8 * (n + 1) \/ End(c.a, c.b) = HeapBytes)
    BY <1>n, <1>8
  <2>2. End(c.a, c.b) \in Nat /\ End(c.a, c.b) <= HeapBytes
    BY <1>3, <2>1
  <2>3. 8 * n = HeapBytes
    BY Sizes
  <2> HIDE DEF n, c
  <2> QED
    BY <1>n, <2>1, <2>2, <2>3
<1> HIDE DEF c
<1>10. PICK C : Ok(c, C)
  BY <1>9 DEF V
<1>11. Settled(c.a, C)
  <2> SUFFICES ASSUME NEW x \in C, NEW y \in C, End(c.a, x) = y
               PROVE  ~ (is_free(c.a, x) /\ is_free(c.a, y))
    BY DEF Settled, SettledTo
  <2>1. y <= c.b
    <3>1. c.b < y => HeapBytes <= y
      BY <1>9, <1>10 DEF Tiles
    <3>2. y \in Nat /\ y < HeapBytes /\ c.b \in Nat
      BY <1>10, Ends
    <3> QED
      BY <3>1, <3>2, Sizes
  <2> QED
    BY <1>10, <2>1 DEF SettledTo
<1> QED
  BY <1>1, <1>10, <1>11 DEF c

-----------------------------------------------------------------------------
(* The calls.                                                              *)

\* Writing to one block's payload changes nothing for the heap.
LEMMA Overwritten ==
  ASSUME NEW a, NEW B, Tiles(a, B), NEW w \in B, NEW aa \in Arenas,
         \A o \in Offsets : o \notin Payload(a, w) => aa[o] = a[o]
  PROVE  /\ Tiles(aa, B) /\ (Settled(a, B) => Settled(aa, B)) /\ \A b \in B : aa[b] = a[b]
         /\ \A S : w \in S => Keeps(S, a, B, aa, B)
<1>0. \A b \in B : aa[b] = a[b]
  BY Inside DEF Tiles
<1>1. \A b \in B : End(aa, b) = End(a, b)
  BY <1>0 DEF End
<1>2. Tiles(aa, B)
  BY <1>0, <1>1 DEF Tiles
<1>3. Settled(a, B) => Settled(aa, B)
  BY <1>0, <1>1 DEF Settled, SettledTo, is_free
<1>4. ASSUME NEW S, w \in S PROVE Keeps(S, a, B, aa, B)
  <2>1. ASSUME NEW b \in B, b # w, NEW o \in Payload(a, b) PROVE aa[o] = a[o]
    BY <2>1, Inside
  <2> QED
    BY <1>0, <1>4, <2>1 DEF Keeps, Uses
<1> QED
  BY <1>0, <1>2, <1>3, <1>4


\* Cutting a block in two, or not: the second part is free.
CutOff(a, B, b, n, aa, BB) ==
  /\ Tiles(aa, BB) /\ b \in BB /\ aa[b].magic = a[b].magic /\ aa[b].size >= n
  /\ Keeps({b}, a, B, aa, BB)
  /\ \/ BB = B /\ aa = a
     \/ /\ aa[b].size = n /\ BB = B \cup {b + n} /\ b + n \notin B
        /\ aa[b + n].magic = "free" /\ End(aa, b + n) = End(a, b)
        /\ \A o \in Offsets : o # b /\ o # b + n => aa[o] = a[o]

LEMMA SplitOff ==
  ASSUME NEW a, NEW B, Tiles(a, B), NEW b \in B,
         NEW n \in Nat, n % 8 = 0, n >= 16, n <= a[b].size
  PROVE  \E BB : CutOff(a, B, b, n, split(a, b, n), BB)
<1> USE DEF CutOff
<1>0. /\ b \in Offsets /\ b \in Nat /\ a[b].size \in Nat /\ b % 8 = 0 /\ End(a, b) = b + a[b].size /\ a \in Arenas
      /\ End(a, b) <= HeapBytes /\ HeapBytes \in Nat /\ a[b] \in Cell
      /\ (End(a, b) \in B \/ End(a, b) = HeapBytes) /\ \A c \in B : c \in Nat /\ c \in Offsets
  BY Ends, Sizes DEF Tiles, End
<1>1. CASE ~ (a[b].size - n >= 16)
  <2>1. split(a, b, n) = a
    BY <1>1 DEF split, HDR_ALIGNED, MIN_PAYLOAD
  <2> QED
    BY <2>1 DEF Keeps
<1>2. CASE a[b].size - n >= 16
  <2> DEFINE r  == b + n
             aa == [a EXCEPT ![r] = Header(a[b].size - n, "free"), ![b].size = n]
             BB == B \cup {r}
  <2>1. split(a, b, n) = aa
    BY <1>2 DEF split, HDR_ALIGNED, MIN_PAYLOAD
  <2>2. r \in Nat /\ b < r /\ r + 16 <= End(a, b) /\ r < HeapBytes /\ r % 8 = 0 /\ r \in Offsets
    <3>1. r \in Nat /\ b < r /\ r + 16 <= End(a, b) /\ r < HeapBytes /\ r % 8 = 0
      BY <1>0, <1>2
    <3> QED
      BY <3>1, Sizes
  <2>3. r \notin B
    <3>1. r \in B => End(a, b) <= r
      BY <2>2 DEF Tiles
    <3> QED
      BY <1>0, <2>2, <3>1
  <2>4. /\ aa \in Arenas /\ aa[b].size = n /\ aa[b].magic = a[b].magic
        /\ aa[r].size = a[b].size - n /\ aa[r].magic = "free"
        /\ \A o \in Offsets : o # b /\ o # r => aa[o] = a[o]
    BY <1>0, <1>2, <2>2 DEF Arenas, Cell, Header
  <2> HIDE DEF aa
  <2>5. End(aa, b) = r /\ End(aa, r) = End(a, b) /\ \A o \in B : o # b => End(aa, o) = End(a, o)
    <3>1. End(aa, b) = b + n /\ End(aa, r) = r + (a[b].size - n)
      BY <2>4 DEF End
    <3>2. End(aa, r) = End(a, b)
      BY <1>0, <3>1
    <3>3. ASSUME NEW o \in B, o # b PROVE End(aa, o) = End(a, o)
      BY <1>0, <2>3, <2>4, <3>3 DEF End
    <3> QED
      BY <3>1, <3>2, <3>3
  <2> HIDE DEF r
  <2>6. Tiles(aa, BB)
    <3>1. BB \in SUBSET Offsets /\ 0 \in BB
      BY <2>2 DEF Tiles
    <3>2. ASSUME NEW x \in BB
          PROVE  /\ aa[x].magic \in {"free", "used"}
                 /\ End(aa, x) \in BB \cup {HeapBytes} /\ x < End(aa, x)
                 /\ \A y \in BB : x < y => End(aa, x) <= y
      <4>1. CASE x = r
        <5>1. ASSUME NEW y \in BB, r < y PROVE End(a, b) <= y
          <6>1. y \in B /\ y \in Nat
            BY <1>0, <2>2, <5>1
          <6>2. b < y
            BY <1>0, <2>2, <5>1, <6>1
          <6> QED
            BY <6>1, <6>2 DEF Tiles
        <5> QED
          BY <1>0, <2>2, <2>4, <2>5, <4>1, <5>1
      <4>2. CASE x = b
        <5>1. ASSUME NEW y \in BB, b < y PROVE r <= y
          <6>1. y \in B => End(a, b) <= y /\ y \in Nat
            BY <1>0, <5>1 DEF Tiles
          <6> QED
            BY <1>0, <2>2, <6>1
        <5>2. a[b].magic \in {"free", "used"}
          BY DEF Tiles
        <5> QED
          BY <2>2, <2>4, <2>5, <4>2, <5>1, <5>2
      <4>3. CASE x # b /\ x # r
        <5>1. x \in B /\ x \in Nat /\ x \in Offsets /\ End(aa, x) = End(a, x) /\ aa[x] = a[x] /\ x < End(a, x)
              /\ a[x].magic \in {"free", "used"} /\ End(a, x) \in B \cup {HeapBytes} /\ End(a, x) \in Nat
          BY <1>0, <2>4, <2>5, <4>3, Ends DEF Tiles
        <5>2. ASSUME NEW y \in BB, x < y PROVE End(a, x) <= y
          <6>1. CASE y \in B
            BY <5>1, <5>2, <6>1 DEF Tiles
          <6>2. CASE y = r
            <7>1. b < x => End(a, b) <= x
              BY <5>1 DEF Tiles
            <7>2. x < b => End(a, x) <= b
              BY <5>1 DEF Tiles
            <7> QED
              BY <1>0, <2>2, <4>3, <5>1, <5>2, <6>2, <7>1, <7>2
          <6> QED
            BY <6>1, <6>2
        <5> QED
          BY <5>1, <5>2
      <4> QED
        BY <4>1, <4>2, <4>3
    <3> QED
      BY <2>4, <3>1, <3>2 DEF Tiles
  <2>7. Keeps({b}, a, B, aa, BB)
    <3>1. r \in Payload(a, b)
      BY <1>0, <2>2 DEF Payload
    <3>2. ASSUME NEW x \in B, x # b, NEW o \in Payload(a, x) PROVE aa[o] = a[o]
      <4>1. o \in Offsets /\ o \notin B /\ o # r
        BY <3>1, <3>2, Inside
      <4> QED
        BY <2>4, <4>1
    <3> QED
      BY <2>3, <2>4, <3>2 DEF Keeps, Uses
  <2>8. r = b + n
    BY DEF r
  <2> QED
    BY <2>1, <2>3, <2>4, <2>5, <2>6, <2>7, <2>8
<1> QED
  BY <1>1, <1>2

\* Pointer p is to a used block with room for n bytes.
Owns(a, B, p, n) == Uses(a, B, p - 8) /\ n + 8 <= a[p - 8].size

\* Its n bytes are in the block's payload.
LEMMA OwnCells ==
  ASSUME NEW a, NEW B, Tiles(a, B), NEW p \in Int, NEW n \in Nat, Owns(a, B, p, n)
  PROVE  p - 8 \in B /\ Cells(p, n) \subseteq Payload(a, p - 8)
<1>1. p - 8 \in B /\ n + 8 <= a[p - 8].size
  BY DEF Owns, Uses
<1>2. p - 8 \in Nat /\ a[p - 8].size \in Nat /\ End(a, p - 8) = p - 8 + a[p - 8].size
  BY <1>1, Ends DEF End
<1>3. ASSUME NEW o \in Cells(p, n) PROVE o \in Payload(a, p - 8)
  <2>1. o \in Offsets /\ o \in Nat /\ o >= p /\ o < p + n
    BY Sizes DEF Cells
  <2>2. p - 8 < o /\ o < End(a, p - 8)
    BY <1>1, <1>2, <2>1
  <2> QED
    BY <2>1, <2>2 DEF Payload
<1> QED
  BY <1>1, <1>3

\* Another magic in a header.
Changed(a, B, b, magic, aa) ==
  /\ Tiles(aa, B) /\ aa[b].magic = magic /\ aa[b].size = a[b].size
  /\ \A o \in Offsets : o # b => aa[o] = a[o]
  /\ \A o \in B : End(aa, o) = End(a, o)
  /\ Keeps({b}, a, B, aa, B)
  /\ (magic = "used" /\ Settled(a, B) => Settled(aa, B))

LEMMA Marked ==
  ASSUME NEW a, NEW B, Tiles(a, B), NEW b \in B, NEW magic \in {"free", "used"}
  PROVE  Changed(a, B, b, magic, [a EXCEPT ![b].magic = magic])
<1> DEFINE aa == [a EXCEPT ![b].magic = magic]
<1>1. /\ aa \in Arenas /\ aa[b].magic = magic /\ aa[b].size = a[b].size
      /\ \A o \in Offsets : o # b => aa[o] = a[o]
  <2>1. a \in Arenas /\ b \in Offsets /\ a[b] \in Cell
    BY Ends DEF Tiles
  <2> QED
    BY <2>1 DEF Arenas, Cell
<1> HIDE DEF aa
<1>2. \A o \in B : End(aa, o) = End(a, o)
  <2>1. \A o \in B : o \in Offsets
    BY Ends
  <2> QED
    BY <1>1, <2>1 DEF End
<1>3. Tiles(aa, B)
  BY <1>1, <1>2 DEF Tiles
<1>4. Keeps({b}, a, B, aa, B)
  <2>1. ASSUME NEW x \in B, NEW o \in Payload(a, x) PROVE aa[o] = a[o]
    BY <1>1, <2>1, Inside
  <2> QED
    BY <1>1, <2>1 DEF Keeps, Uses
<1>5. ASSUME magic = "used", Settled(a, B) PROVE Settled(aa, B)
  <2>1. \A o \in B : o \in Offsets /\ (is_free(aa, o) => is_free(a, o))
    BY <1>1, <1>5, Ends DEF is_free
  <2> QED
    BY <1>2, <1>5, <2>1 DEF Settled, SettledTo
<1> QED
  BY <1>1, <1>2, <1>3, <1>4, <1>5 DEF aa, Changed

\* A used block that was cut, or not, to n bytes or a little more.
Trimmed(a, B, b, n, aa, BB) ==
  /\ Tiles(aa, BB) /\ Settled(aa, BB) /\ Uses(aa, BB, b) /\ aa[b].size >= n
  /\ Keeps({b}, a, B, aa, BB)
  /\ \A o \in Offsets : o # b /\ o # b + n => aa[o] = a[o]

\* Cutting a used block whose neighbour is not free.
LEMMA Cut ==
  ASSUME NEW a, NEW B, Tiles(a, B), Settled(a, B), NEW b \in B, a[b].magic = "used",
         End(a, b) \in B => ~is_free(a, End(a, b)),
         NEW n \in Nat, n % 8 = 0, n >= 16, n <= a[b].size
  PROVE  \E BB : Trimmed(a, B, b, n, split(a, b, n), BB)
<1> DEFINE aa == split(a, b, n)
<1>1. PICK BB : CutOff(a, B, b, n, aa, BB)
  BY SplitOff
<1> HIDE DEF aa
<1> USE DEF CutOff, Trimmed
<1>2. CASE BB = B /\ aa = a
  BY <1>1, <1>2 DEF aa, Uses
<1>3. CASE BB # B \/ aa # a
  <2> DEFINE r == b + n
  <2>0. BB = B \cup {r} /\ r \notin B /\ End(aa, r) = End(a, b)
        /\ \A o \in Offsets : o # b /\ o # r => aa[o] = a[o]
    BY <1>1, <1>3
  <2> HIDE DEF r
  <2>1. Settled(aa, BB)
    <3> SUFFICES ASSUME NEW x \in BB, NEW y \in BB, End(aa, x) = y, is_free(aa, x), is_free(aa, y)
                 PROVE  FALSE
      BY DEF Settled, SettledTo
    <3>1. x # b /\ y # b
      BY <1>1 DEF is_free
    <3>2. x \in Offsets /\ y \in Offsets /\ y \in Nat /\ y < HeapBytes /\ x < y
      BY <1>1, Ends DEF Tiles
    <3>3. CASE x = r
      <4>1. y = End(a, b) /\ y # r /\ y \in B
        BY <2>0, <3>2, <3>3
      <4>2. is_free(a, y)
        BY <2>0, <3>1, <3>2, <4>1 DEF is_free
      <4> QED
        BY <4>1, <4>2
    <3>4. CASE x # r
      <4>1. x \in B /\ aa[x] = a[x] /\ End(aa, x) = End(a, x)
        BY <2>0, <3>1, <3>2, <3>4 DEF End
      <4>2. y \in B
        <5>1. End(a, x) \in B \cup {HeapBytes}
          BY <4>1 DEF Tiles
        <5> QED
          BY <3>2, <4>1, <5>1, Sizes
      <4>3. aa[y] = a[y]
        BY <2>0, <3>1, <3>2, <4>2
      <4>4. y <= HeapBytes
        BY <3>2, Sizes
      <4> QED
        BY <4>1, <4>2, <4>3, <4>4 DEF Settled, SettledTo, is_free
    <3> QED
      BY <3>3, <3>4
  <2> QED
    BY <1>1, <2>1 DEF aa, Uses
<1> QED
  BY <1>2, <1>3

\* malloc gives out a block that was free, large enough, and takes nothing else.
LEMMA Allocated ==
  ASSUME NEW a, NEW B, Tiles(a, B), Settled(a, B), NEW n, NoWrap(n)
  PROVE  LET m == malloc(a, n) IN
         /\ m.p = NoBlock => m.a = a
         /\ m.p # NoBlock =>
              /\ m.p \in Int /\ m.p - 8 \in B /\ is_free(a, m.p - 8)
              /\ \E BB : /\ Tiles(m.a, BB) /\ Settled(m.a, BB) /\ Owns(m.a, BB, m.p, n)
                         /\ Keeps({m.p - 8}, a, B, m.a, BB)
<1> DEFINE m == malloc(a, n)
           found == {b \in B : fits(a, b, n)}
           b == Min(found)
<1>1. m = IF n = 0 \/ need(n) > HeapBytes \/ found = {} THEN [p |-> NoBlock, a |-> a]
          ELSE [p |-> b + 8, a |-> [split(a, b, need(n)) EXCEPT ![b].magic = "used"]]
  BY WalkIs DEF malloc, HDR_ALIGNED
<1>2. CASE n = 0 \/ need(n) > HeapBytes \/ found = {}
  BY <1>1, <1>2
<1>3. CASE ~ (n = 0 \/ need(n) > HeapBytes \/ found = {})
  <2>1. b \in found
    <3>1. found \in SUBSET Nat /\ found # {}
      BY <1>3, Ends
    <3> HIDE DEF found
    <3>2. \E x \in found : \A y \in found : x <= y
      BY <3>1, Least
    <3> QED
      BY <3>2 DEF Min
  <2>2. b \in B /\ is_free(a, b) /\ a[b].size >= need(n)
    BY <2>1 DEF fits
  <2>3. need(n) \in Nat /\ need(n) % 8 = 0 /\ need(n) >= n + 8 /\ need(n) >= 16 /\ n \in Nat
    BY <1>3, Needs DEF NoWrap
  <2> HIDE DEF b, found
  <2> DEFINE a0 == [a EXCEPT ![b].magic = "used"]
             a1 == split(a0, b, need(n))
  <2>4. /\ Tiles(a0, B) /\ Settled(a0, B) /\ a0[b].magic = "used" /\ a0[b].size = a[b].size
        /\ (\A o \in Offsets : o # b => a0[o] = a[o]) /\ (\A o \in B : End(a0, o) = End(a, o))
        /\ Keeps({b}, a, B, a0, B)
    <3>1. Changed(a, B, b, "used", a0)
      BY <2>2, Marked
    <3> HIDE DEF a0
    <3> QED
      BY <3>1 DEF Changed
  <2>5. a1 = [split(a, b, need(n)) EXCEPT ![b].magic = "used"]
    <3>1. a \in Arenas /\ b \in Offsets /\ a[b] \in Cell /\ b + need(n) # b
      BY <2>2, <2>3, Ends DEF Tiles
    <3> QED
      BY <3>1 DEF split, Arenas, Cell, HDR_ALIGNED, MIN_PAYLOAD, Header
  <2> HIDE DEF a0, m
  <2>6. End(a0, b) \in B => ~is_free(a0, End(a0, b))
    <3> SUFFICES ASSUME End(a, b) \in B PROVE ~is_free(a0, End(a, b))
      BY <2>2, <2>4
    <3>1. End(a, b) # b /\ End(a, b) \in Offsets /\ End(a, b) <= HeapBytes
      BY <2>2, Ends DEF Tiles
    <3>2. ~is_free(a, End(a, b))
      BY <2>2, <3>1 DEF Settled, SettledTo
    <3> QED
      BY <2>4, <3>1, <3>2 DEF is_free
  <2>7. PICK BB : /\ Tiles(a1, BB) /\ Settled(a1, BB) /\ Uses(a1, BB, b) /\ a1[b].size >= need(n)
                  /\ Keeps({b}, a0, B, a1, BB)
    <3>1. \E BB : Trimmed(a0, B, b, need(n), a1, BB)
      BY <2>2, <2>3, <2>4, <2>6, Cut
    <3> HIDE DEF a1
    <3> QED
      BY <3>1 DEF Trimmed
  <2>8. Keeps({b}, a, B, a1, BB)
    <3>1. {b} \cup {b} = {b}
      OBVIOUS
    <3> QED
      BY <2>4, <2>7, <3>1, KeepsOn
  <2>9. m.p = b + 8 /\ m.a = a1
    BY <1>1, <1>3, <2>5
  <2>10. m.p - 8 = b /\ b \in Nat /\ a1[b].size \in Nat
    <3>1. b \in Nat /\ b \in BB
      BY <2>2, <2>7, Ends DEF Uses
    <3>2. a1[b].size \in Nat
      BY <2>7, <3>1, Ends
    <3> QED
      BY <2>9, <3>1, <3>2
  <2> HIDE DEF a1
  <2>11. Owns(m.a, BB, m.p, n)
    BY <2>3, <2>7, <2>9, <2>10 DEF Owns
  <2>12. m.p \in Int /\ m.p - 8 \in B /\ is_free(a, m.p - 8) /\ m.p # NoBlock
    BY <2>2, <2>9, <2>10 DEF NoBlock
  <2>13. Tiles(m.a, BB) /\ Settled(m.a, BB) /\ Keeps({m.p - 8}, a, B, m.a, BB)
    BY <2>7, <2>8, <2>9, <2>10
  <2> QED
    BY <2>11, <2>12, <2>13 DEF m
<1> QED
  BY <1>2, <1>3

\* The lesser of two numbers.
LEMMA MinOfTwo ==
  ASSUME NEW x \in Nat, NEW y \in Nat
  PROVE  Min({x, y}) \in Nat /\ Min({x, y}) <= x /\ Min({x, y}) <= y /\ Min({x, y}) \in {x, y}
<1> DEFINE S == {x, y}
<1>1. S \in SUBSET Nat /\ S # {}
  OBVIOUS
<1>2. \E z \in S : \A v \in S : z <= v
  <2> HIDE DEF S
  <2> QED
    BY <1>1, Least
<1>3. Min(S) \in S /\ \A v \in S : Min(S) <= v
  <2> HIDE DEF S
  <2> QED
    BY <1>2 DEF Min
<1> QED
  BY <1>3

\* find knows exactly the used blocks.
LEMMA Found ==
  ASSUME NEW a, NEW B, Tiles(a, B), NEW p \in Int
  PROVE  find(a, p) # {} <=> Uses(a, B, p - 8)
<1>1. find(a, p) = {b \in B : b + 8 = p /\ a[b].magic = "used"}
  BY WalkIs DEF find, HDR_ALIGNED
<1>2. \A b \in B : b \in Nat /\ (b + 8 = p <=> b = p - 8)
  BY Ends
<1> QED
  BY <1>1, <1>2 DEF Uses

\* free takes one block from the used ones and merges it with its neighbours.
LEMMA Freed ==
  ASSUME NEW a, NEW B, Tiles(a, B), NEW p \in Int, Uses(a, B, p - 8)
  PROVE  \E BB : /\ Tiles(free(a, p), BB) /\ Settled(free(a, p), BB)
                 /\ Keeps({p - 8}, a, B, free(a, p), BB) /\ ~Uses(free(a, p), BB, p - 8)
<1> DEFINE b  == p - 8
           a0 == [a EXCEPT ![b].magic = "free"]
<1>1. free(a, p) = coalesce(a0)
  BY Found DEF free, HDR_ALIGNED
<1>2. b \in B /\ b \in Offsets
  BY Ends DEF Uses
<1>3. Changed(a, B, b, "free", a0)
  <2> HIDE DEF b
  <2> QED
    BY <1>2, Marked
<1> HIDE DEF a0
<1>4. PICK BB : Tiles(coalesce(a0), BB) /\ Settled(coalesce(a0), BB) /\ Keeps({}, a0, B, coalesce(a0), BB)
  BY <1>3, Coalesced DEF Changed
<1>5. Keeps({b}, a, B, coalesce(a0), BB)
  <2>1. {b} \cup {} = {b}
    OBVIOUS
  <2> QED
    BY <1>3, <1>4, <2>1, KeepsOn DEF Changed
<1>6. ~Uses(coalesce(a0), BB, b)
  BY <1>2, <1>3, <1>4 DEF Keeps, Changed, Uses
<1> QED
  BY <1>1, <1>4, <1>5, <1>6

\* What realloc makes of the used block of p: one of n bytes at q that holds what the
\* old block held, the others untouched.
Moved(a, B, p, q, n, aa, BB) ==
  /\ Tiles(aa, BB) /\ Settled(aa, BB) /\ Owns(aa, BB, q, n)
  /\ \A o \in Cells(q, n) : o - q + p < End(a, p - 8) => aa[o] = a[o - q + p]
  /\ Keeps({p - 8, q - 8}, a, B, aa, BB)
  /\ q = p \/ (~Uses(a, B, q - 8) /\ ~Uses(aa, BB, p - 8))

LEMMA InPlace ==
  ASSUME NEW a, NEW B, Tiles(a, B), Settled(a, B), NEW p \in Int, Uses(a, B, p - 8),
         NEW n, NoWrap(n), n > 0, need(n) <= a[p - 8].size
  PROVE  LET r == realloc(a, p, n) IN r.p = p /\ \E BB : Moved(a, B, p, p, n, r.a, BB)
<1> DEFINE b  == p - 8
           aa == split(a, b, need(n))
<1>0. {b, b} = {b} /\ {b} \cup {} = {b}
  OBVIOUS
<1>1. b \in B /\ b \in Nat /\ b \in Offsets /\ a[b].magic = "used" /\ a[b].size \in Nat
  BY Ends DEF Uses
<1>2. need(n) \in Nat /\ need(n) % 8 = 0 /\ need(n) >= n + 8 /\ need(n) >= 16 /\ n \in Nat
  BY Needs DEF NoWrap
<1>3. realloc(a, p, n) = [p |-> p, a |-> IF a[b].size - need(n) >= 16 THEN coalesce(aa) ELSE a]
  BY DEF realloc, HDR_ALIGNED, MIN_PAYLOAD
<1>4. CASE ~ (a[b].size - need(n) >= 16)
  <2>1. Owns(a, B, p, n)
    BY <1>1, <1>2 DEF Owns
  <2>2. \A o \in Cells(p, n) : a[o] = a[o - p + p]
    BY Sizes DEF Cells
  <2>3. Moved(a, B, p, p, n, a, B)
    BY <2>1, <2>2 DEF Moved, Keeps
  <2> QED
    BY <1>3, <1>4, <2>3
<1>5. CASE a[b].size - need(n) >= 16
  <2>1. PICK C : CutOff(a, B, b, need(n), aa, C)
    <3> HIDE DEF b
    <3> QED
      BY <1>1, <1>2, SplitOff DEF b
  <2> HIDE DEF aa
  <2>2. Tiles(aa, C) /\ Uses(aa, C, b) /\ aa[b].size >= need(n) /\ Keeps({b}, a, B, aa, C)
    BY <1>1, <2>1 DEF CutOff, Uses
  <2>3. PICK BB : Tiles(coalesce(aa), BB) /\ Settled(coalesce(aa), BB) /\ Keeps({}, aa, C, coalesce(aa), BB)
    BY <2>2, Coalesced
  <2>4. Keeps({b}, a, B, coalesce(aa), BB)
    BY <1>0, <2>2, <2>3, KeepsOn
  <2>5. Owns(coalesce(aa), BB, p, n)
    <3>1. Uses(coalesce(aa), BB, b) /\ coalesce(aa)[b].size = aa[b].size
      BY <1>1, <2>2, <2>3 DEF Keeps
    <3>2. aa[b].size \in Nat
      BY <2>2, Ends DEF Uses
    <3> QED
      BY <1>2, <2>2, <3>1, <3>2 DEF Owns
  <2>6. ASSUME NEW o \in Cells(p, n) PROVE coalesce(aa)[o] = a[o - p + p]
    <3>1. o \in Offsets /\ o \in Nat /\ o >= p /\ o < p + n /\ o - p + p = o
      BY Sizes DEF Cells
    <3>2. b < o /\ o < b + need(n) /\ o # b /\ o # b + need(n)
      BY <1>1, <1>2, <3>1
    <3>3. aa[o] = a[o]
      BY <2>1, <3>1, <3>2 DEF CutOff
    <3>4. o \in Payload(aa, b)
      <4>1. aa[b].size \in Nat
        BY <2>2, Ends DEF Uses
      <4>2. o < b + aa[b].size
        BY <1>1, <1>2, <2>2, <3>1, <3>2, <4>1
      <4> QED
        BY <3>1, <3>2, <4>2 DEF Payload, End
    <3>5. coalesce(aa)[o] = aa[o]
      BY <1>1, <2>2, <2>3, <3>4 DEF Keeps
    <3> QED
      BY <3>1, <3>3, <3>5
  <2>7. Moved(a, B, p, p, n, coalesce(aa), BB)
    BY <1>0, <2>3, <2>4, <2>5, <2>6 DEF Moved
  <2> QED
    BY <1>3, <1>5, <2>7
<1> QED
  BY <1>4, <1>5

LEMMA Grown ==
  ASSUME NEW a, NEW B, Tiles(a, B), Settled(a, B), NEW p \in Int, Uses(a, B, p - 8),
         NEW n, NoWrap(n), n > 0, ~ (need(n) <= a[p - 8].size), absorbs(a, p - 8, n)
  PROVE  LET r == realloc(a, p, n) IN r.p = p /\ \E BB : Moved(a, B, p, p, n, r.a, BB)
<1> DEFINE b    == p - 8
           next == End(a, b)
           a0   == [a EXCEPT ![b].size = a[b].size + a[next].size]
           C    == B \ {next}
           aa   == split(a0, b, need(n))
<1>0. {b, b} = {b} /\ {b} \cup {b} = {b}
  OBVIOUS
<1>1. /\ b \in B /\ b \in Nat /\ b \in Offsets /\ a[b].magic = "used" /\ a[b].size \in Nat /\ a \in Arenas
      /\ a[b] \in Cell /\ b < next /\ HeapBytes \in Nat
  BY Ends, Sizes DEF Uses, Tiles
<1>2. need(n) \in Nat /\ need(n) % 8 = 0 /\ need(n) >= n + 8 /\ need(n) >= 16 /\ n \in Nat
  BY Needs DEF NoWrap
<1>3. next = b + a[b].size /\ next < HeapBytes /\ is_free(a, next) /\ a[b].size + a[next].size >= need(n)
  BY DEF absorbs, End
<1>4. realloc(a, p, n) = [p |-> p, a |-> aa]
  BY <1>3 DEF realloc, HDR_ALIGNED
<1>5. next \in B
  <2>1. next \in B \cup {HeapBytes} /\ next \in Nat
    <3> HIDE DEF b
    <3> QED
      BY <1>1, Ends DEF Tiles
  <2> QED
    BY <1>1, <1>3, <2>1
<1>6. next \in Offsets /\ a[next].size \in Nat /\ End(a, b) = next /\ next \in Nat /\ next < HeapBytes
  BY <1>5, Ends DEF Tiles
<1> HIDE DEF b, next
<1>7. /\ a0 \in Arenas /\ a0[b].size = a[b].size + a[next].size /\ a0[b].magic = a[b].magic
      /\ \A o \in Offsets : o # b => a0[o] = a[o]
  BY <1>1, <1>6 DEF Arenas, Cell
<1> HIDE DEF a0
<1>8. /\ Tiles(a0, C) /\ b \in C /\ End(a0, b) = End(a, next)
      /\ \A o \in B : o # b => End(a0, o) = End(a, o)
  BY <1>1, <1>5, <1>6, <1>7, Joined
<1>9. Keeps({b}, a, B, a0, C)
  <2>1. ~Uses(a, B, next)
    BY <1>3 DEF Uses, is_free
  <2>2. ASSUME NEW x \in B, NEW o \in Payload(a, x) PROVE a0[o] = a[o]
    BY <1>1, <1>7, <2>2, Inside
  <2> QED
    BY <1>7, <2>1, <2>2 DEF Keeps, Uses
<1> HIDE DEF C
<1>10. Settled(a0, C)
  <2> SUFFICES ASSUME NEW x \in C, NEW y \in C, End(a0, x) = y, is_free(a0, x), is_free(a0, y)
               PROVE  FALSE
    BY DEF Settled, SettledTo
  <2>1. x # b /\ y # b /\ x \in B /\ y \in B /\ x \in Offsets /\ y \in Offsets /\ y <= HeapBytes
    BY <1>1, <1>7, Sizes, Ends DEF C, is_free
  <2> QED
    BY <1>7, <1>8, <2>1 DEF Settled, SettledTo, is_free
<1>11. End(a0, b) \in C => ~is_free(a0, End(a0, b))
  <2> SUFFICES ASSUME End(a, next) \in C PROVE ~is_free(a0, End(a, next))
    BY <1>8
  <2>1. End(a, next) \in B /\ End(a, next) \in Offsets /\ End(a, next) <= HeapBytes /\ next < End(a, next)
    BY <1>5, Ends DEF C, Tiles
  <2>2. ~is_free(a, End(a, next))
    BY <1>3, <1>5, <2>1 DEF Settled, SettledTo
  <2>3. End(a, next) # b
    BY <1>1, <1>6, <2>1, Ends
  <2> QED
    BY <1>7, <2>1, <2>2, <2>3 DEF is_free
<1>12. PICK BB : /\ Tiles(aa, BB) /\ Settled(aa, BB) /\ Uses(aa, BB, b) /\ aa[b].size >= need(n)
                 /\ Keeps({b}, a0, C, aa, BB)
                 /\ \A o \in Offsets : o # b /\ o # b + need(n) => aa[o] = a0[o]
  <2>1. a0[b].magic = "used" /\ need(n) <= a0[b].size
    BY <1>1, <1>2, <1>3, <1>6, <1>7
  <2>2. \E BB : Trimmed(a0, C, b, need(n), aa, BB)
    BY <1>2, <1>8, <1>10, <1>11, <2>1, Cut
  <2> HIDE DEF aa
  <2> QED
    BY <2>2 DEF Trimmed
<1> HIDE DEF aa
<1>13. Keeps({b}, a, B, aa, BB)
  BY <1>0, <1>9, <1>12, KeepsOn
<1>14. Owns(aa, BB, p, n)
  <2>1. aa[b].size \in Nat
    BY <1>12, Ends DEF Uses
  <2> QED
    BY <1>2, <1>12, <2>1 DEF Owns, b
<1>15. ASSUME NEW o \in Cells(p, n) PROVE aa[o] = a[o - p + p]
  <2>1. o \in Offsets /\ o \in Nat /\ o >= p /\ o < p + n /\ o - p + p = o
    BY Sizes DEF Cells
  <2>2. o # b /\ o # b + need(n)
    BY <1>1, <1>2, <2>1 DEF b
  <2> QED
    BY <1>7, <1>12, <2>1, <2>2
<1>16. Moved(a, B, p, p, n, aa, BB)
  BY <1>0, <1>12, <1>13, <1>14, <1>15 DEF Moved, b
<1> QED
  BY <1>4, <1>16

LEMMA CopiedOver ==
  ASSUME NEW a, NEW B, Tiles(a, B), Settled(a, B), NEW p \in Int, Uses(a, B, p - 8),
         NEW n, NoWrap(n), n > 0, ~ (need(n) <= a[p - 8].size), ~absorbs(a, p - 8, n)
  PROVE  LET r == realloc(a, p, n) IN
         IF r.p = NoBlock THEN r.a = a
         ELSE r.p \in Int /\ \E BB : Moved(a, B, p, r.p, n, r.a, BB)
<1> DEFINE b    == p - 8
           m    == malloc(a, n)
           q    == m.p
           copy == Min({a[b].size - 8, n})
           a1   == [o \in Offsets |-> IF o \in Cells(q, copy) THEN m.a[o - q + p] ELSE m.a[o]]
<1>1. realloc(a, p, n) = IF q = NoBlock THEN m ELSE [p |-> q, a |-> free(a1, p)]
  BY DEF realloc, HDR_ALIGNED
<1>2. /\ b \in B /\ b \in Nat /\ b \in Offsets /\ a[b].magic = "used" /\ a[b].size \in Nat /\ a[b].size >= 8
      /\ b % 8 = 0 /\ End(a, b) <= HeapBytes /\ End(a, b) = b + a[b].size /\ HeapBytes \in Nat /\ n \in Nat
  BY Ends, Sizes DEF Uses, End, NoWrap
<1>3. CASE q = NoBlock
  BY <1>1, <1>3, Allocated
<1>4. CASE q # NoBlock
  <2>1. q - 8 \in B /\ is_free(a, q - 8)
    BY <1>4, Allocated
  <2>2. PICK C : Tiles(m.a, C) /\ Settled(m.a, C) /\ Owns(m.a, C, q, n) /\ Keeps({q - 8}, a, B, m.a, C)
    BY <1>4, Allocated
  <2>3. q \in Int
    BY <1>4, Allocated
  <2> HIDE DEF m, copy
  <2>4. copy \in Nat /\ copy <= a[b].size - 8 /\ copy <= n /\ (copy = a[b].size - 8 \/ copy = n)
    <3>1. a[b].size - 8 \in Nat
      BY <1>2
    <3> QED
      BY <1>2, <3>1, MinOfTwo DEF copy
  <2>5. /\ q - 8 \in C /\ q - 8 \in Nat /\ (q - 8) % 8 = 0 /\ m.a \in Arenas
        /\ n + 8 <= m.a[q - 8].size /\ m.a[q - 8].size \in Nat /\ End(m.a, q - 8) = q - 8 + m.a[q - 8].size
    <3>1. q - 8 \in C /\ n + 8 <= m.a[q - 8].size
      BY <2>2 DEF Owns, Uses
    <3>2. End(m.a, q - 8) = q - 8 + m.a[q - 8].size
      BY DEF End
    <3> HIDE DEF q
    <3> QED
      BY <2>2, <3>1, <3>2, Ends DEF Tiles
  <2>6. \A o \in Cells(q, copy) : o \in Payload(m.a, q - 8) /\ o \in Offsets /\ o >= q /\ o < q + copy
    <3>1. \A o \in Cells(q, copy) : o \in Cells(q, n) /\ o \in Offsets /\ o >= q /\ o < q + copy
      BY <1>2, <2>3, <2>4, Sizes DEF Cells
    <3> QED
      BY <1>2, <2>2, <2>3, <3>1, OwnCells
  <2>7. a1 \in Arenas
    <3>1. ASSUME NEW o \in Cells(q, copy) PROVE o - q + p \in Offsets
      <4>1. o \in Nat /\ o % 8 = 0 /\ o >= q /\ o < q + copy
        BY <2>6, <3>1, Sizes
      <4>2. o - q + p \in Nat /\ o - q + p < HeapBytes
        BY <1>2, <2>3, <2>4, <4>1
      <4>3. (o - q + p) % 8 = 0
        <5>1. o - q + p = o - (q - 8) + b
          BY <2>3, <4>1
        <5> QED
          BY <1>2, <2>5, <4>1, <5>1
      <4> QED
        BY <4>2, <4>3, Sizes
    <3> QED
      BY <2>5, <3>1 DEF Arenas
  <2>8. /\ \A o \in Offsets : o \notin Payload(m.a, q - 8) => a1[o] = m.a[o]
        /\ \A o \in Cells(q, copy) : a1[o] = m.a[o - q + p]
    BY <2>6
  <2> HIDE DEF a1
  <2>9. /\ Tiles(a1, C) /\ Settled(a1, C) /\ (\A c \in C : a1[c] = m.a[c]) /\ Keeps({q - 8}, m.a, C, a1, C)
    BY <2>2, <2>5, <2>7, <2>8, Overwritten
  <2>10. Keeps({q - 8}, a, B, a1, C)
    <3>1. {q - 8} \cup {q - 8} = {q - 8}
      OBVIOUS
    <3> QED
      BY <2>2, <2>9, <3>1, KeepsOn
  <2>11. Uses(a1, C, q - 8) /\ a1[q - 8].size = m.a[q - 8].size
    BY <2>2, <2>5, <2>9 DEF Owns, Uses
  <2>12. b # q - 8 /\ Uses(a1, C, b)
    <3>1. b # q - 8
      BY <1>2, <2>1 DEF is_free
    <3> QED
      BY <1>2, <2>10, <3>1 DEF Keeps, Uses
  <2>13. PICK BB : /\ Tiles(free(a1, p), BB) /\ Settled(free(a1, p), BB)
                   /\ Keeps({b}, a1, C, free(a1, p), BB) /\ ~Uses(free(a1, p), BB, b)
    BY <2>9, <2>12, Freed
  <2> DEFINE aa == free(a1, p)
  <2> HIDE DEF aa
  <2>14. Keeps({b, q - 8}, a, B, aa, BB)
    <3>1. {q - 8} \cup {b} = {b, q - 8}
      OBVIOUS
    <3> QED
      BY <2>10, <2>13, <3>1, KeepsOn DEF aa
  <2>15. Owns(aa, BB, q, n)
    <3>1. q - 8 \in Offsets
      BY <2>2, <2>5, Ends
    <3>2. Uses(aa, BB, q - 8) /\ aa[q - 8].size = a1[q - 8].size
      BY <2>11, <2>12, <2>13, <3>1 DEF Keeps, aa
    <3> QED
      BY <2>5, <2>11, <3>2 DEF Owns
  <2>16. ~Uses(a, B, q - 8)
    BY <2>1 DEF Uses, is_free
  <2>17. ASSUME NEW o \in Cells(q, n), o - q + p < End(a, b) PROVE aa[o] = a[o - q + p]
    <3>1. o \in Offsets /\ o \in Nat /\ o >= q /\ o < q + n
      BY Sizes DEF Cells
    <3>2. o \in Cells(q, copy)
      <4>1. o < q + copy
        BY <1>2, <2>3, <2>4, <2>17, <3>1
      <4> QED
        BY <3>1, <4>1 DEF Cells
    <3>3. a1[o] = m.a[o - q + p]
      BY <2>8, <3>2
    <3>4. o - q + p \in Payload(a, b)
      <4>1. o - q + p = o - (q - 8) + b /\ o - q + p \in Nat /\ b < o - q + p
        BY <1>2, <2>3, <3>1
      <4>2. (o - q + p) % 8 = 0
        BY <1>2, <2>3, <2>5, <3>1, <4>1, Sizes
      <4>3. o - q + p < HeapBytes
        BY <1>2, <2>17, <4>1
      <4> QED
        BY <2>17, <4>1, <4>2, <4>3, Sizes DEF Payload
    <3>5. m.a[o - q + p] = a[o - q + p]
      <4>1. Uses(a, B, b) /\ b \notin {q - 8}
        BY <2>12
      <4> QED
        BY <1>2, <2>2, <3>4, <4>1 DEF Keeps
    <3>6. aa[o] = a1[o]
      <4>1. q - 8 \in Offsets /\ q - 8 \notin {b}
        BY <2>2, <2>5, <2>12, Ends
      <4>2. o \in Payload(a1, q - 8)
        BY <2>6, <2>11, <3>2 DEF Payload, End
      <4> QED
        BY <2>11, <2>13, <4>1, <4>2 DEF Keeps, aa
    <3> QED
      BY <3>3, <3>5, <3>6
  <2>18. Moved(a, B, p, q, n, aa, BB)
    BY <2>13, <2>14, <2>15, <2>16, <2>17 DEF Moved, aa
  <2>19. realloc(a, p, n).p = q /\ realloc(a, p, n).a = aa
    BY <1>1, <1>4 DEF aa
  <2> QED
    BY <1>4, <2>3, <2>18, <2>19
<1> QED
  BY <1>3, <1>4

\* Shrink or keep, absorb the free neighbour, or move: one block, the others untouched.
LEMMA Reallocated ==
  ASSUME NEW a, NEW B, Tiles(a, B), Settled(a, B), NEW p \in Int, Uses(a, B, p - 8),
         NEW n, NoWrap(n), n > 0
  PROVE  LET r == realloc(a, p, n) IN
         IF r.p = NoBlock THEN r.a = a
         ELSE r.p \in Int /\ \E BB : Moved(a, B, p, r.p, n, r.a, BB)
<1>1. p # NoBlock
  BY Ends DEF Uses, NoBlock
<1>2. CASE need(n) <= a[p - 8].size
  BY <1>1, <1>2, InPlace
<1>3. CASE ~ (need(n) <= a[p - 8].size) /\ absorbs(a, p - 8, n)
  BY <1>1, <1>3, Grown
<1>4. CASE ~ (need(n) <= a[p - 8].size) /\ ~absorbs(a, p - 8, n)
  BY <1>4, CopiedOver
<1> QED
  BY <1>2, <1>3, <1>4

-----------------------------------------------------------------------------
(* The caller.                                                             *)

\* The sizes asked for do not wrap: none is within 15 bytes of the end of size_t.
RequestsFit == \A n \in Requests : NoWrap(n)

\* n bytes at p are as their owner wrote them.
Intact(a, p, n, stamp) == \A o \in Cells(p, n) : a[o] = Data(stamp)

\* The caller holds the used blocks but for those in S, each with room for what was asked
\* and with what was written there.
Holds(S, a, B, l) ==
  /\ \A p \in DOMAIN l :
       /\ p \in Int /\ p - 8 \notin S /\ l[p].n \in Nat /\ l[p].stamp \in 0..MaxLive
       /\ Owns(a, B, p, l[p].n) /\ Intact(a, p, l[p].n, l[p].stamp)
  /\ \A b \in Offsets \ S : Uses(a, B, b) => b + 8 \in DOMAIN l

HeapOK(a, B, l) == Tiles(a, B) /\ Settled(a, B) /\ Holds({}, a, B, l)

\* The arena is tiled, settled, and its used blocks are what the caller holds.
HeapInv == \E B \in SUBSET Offsets : HeapOK(arena, B, live)

\* A place for n bytes that touches none of the blocks of l.
Placed(l, p, n) == p \in Promise!Pointers /\ Promise!Fits(l, p, n) /\ n <= HeapBytes

\* What a block holds that is kept is still written there.
LEMMA StillWritten ==
  ASSUME NEW S, NEW a, NEW B, Tiles(a, B), NEW aa, NEW BB, Keeps(S, a, B, aa, BB),
         NEW p \in Int, p - 8 \notin S, NEW n \in Nat, Owns(a, B, p, n),
         NEW stamp, Intact(a, p, n, stamp)
  PROVE  Owns(aa, BB, p, n) /\ Intact(aa, p, n, stamp)
<1>1. p - 8 \in Offsets \ S /\ Uses(a, B, p - 8) /\ Cells(p, n) \subseteq Payload(a, p - 8)
  BY OwnCells DEF Owns, Uses, Tiles
<1>2. Uses(aa, BB, p - 8) /\ aa[p - 8].size = a[p - 8].size /\ \A o \in Payload(a, p - 8) : aa[o] = a[o]
  BY <1>1 DEF Keeps
<1> QED
  BY <1>1, <1>2 DEF Owns, Intact

\* One block more, or one in place of those of S.
LEMMA Put ==
  ASSUME NEW S, NEW a, NEW B, NEW l, Tiles(a, B), Holds(S, a, B, l),
         NEW aa, NEW BB, NEW q \in Int, Keeps(S \cup {q - 8}, a, B, aa, BB),
         NEW n \in Nat, NEW stamp \in 0..MaxLive, Owns(aa, BB, q, n), Intact(aa, q, n, stamp),
         Uses(a, B, q - 8) => q - 8 \in S,
         \A b \in S : b # q - 8 => ~Uses(aa, BB, b)
  PROVE  Holds({}, aa, BB, Promise!With(l, q, n, stamp)) /\ q \notin DOMAIN l
<1> DEFINE ll == Promise!With(l, q, n, stamp)
<1>1. q \notin DOMAIN l
  BY DEF Holds, Owns
<1>2. /\ DOMAIN ll = DOMAIN l \cup {q} /\ ll[q] = [n |-> n, stamp |-> stamp]
      /\ \A p \in DOMAIN l : ll[p] = l[p]
  BY <1>1 DEF Promise!With
<1> HIDE DEF ll
<1>3. ASSUME NEW p \in DOMAIN ll
      PROVE  /\ p \in Int /\ ll[p].n \in Nat /\ ll[p].stamp \in 0..MaxLive
             /\ Owns(aa, BB, p, ll[p].n) /\ Intact(aa, p, ll[p].n, ll[p].stamp)
  <2>1. CASE p = q
    BY <1>2, <2>1
  <2>2. CASE p # q
    <3>1. p \in DOMAIN l /\ ll[p] = l[p]
      BY <1>2, <2>2
    <3>2. /\ p \in Int /\ p - 8 \notin S /\ l[p].n \in Nat /\ l[p].stamp \in 0..MaxLive
          /\ Owns(a, B, p, l[p].n) /\ Intact(a, p, l[p].n, l[p].stamp)
      BY <3>1 DEF Holds
    <3>3. p - 8 \notin S \cup {q - 8}
      BY <2>2, <3>2
    <3>4. Owns(aa, BB, p, l[p].n) /\ Intact(aa, p, l[p].n, l[p].stamp)
      BY <3>2, <3>3, StillWritten
    <3> QED
      BY <3>1, <3>2, <3>4
  <2> QED
    BY <2>1, <2>2
<1>4. ASSUME NEW b \in Offsets, Uses(aa, BB, b) PROVE b + 8 \in DOMAIN ll
  <2>0. b \in Nat
    BY Sizes
  <2>1. CASE b = q - 8
    BY <1>2, <2>0, <2>1
  <2>2. CASE b # q - 8
    <3>1. b \notin S /\ Uses(a, B, b)
      BY <1>4, <2>2 DEF Keeps
    <3> QED
      BY <1>2, <3>1 DEF Holds
  <2> QED
    BY <2>1, <2>2
<1> QED
  BY <1>1, <1>3, <1>4 DEF Holds, ll

\* What the caller holds lies in the arena, and apart.
LEMMA Disjoint ==
  ASSUME NEW a, NEW B, Tiles(a, B), NEW l, NEW q \in Int, NEW n \in Nat, NEW stamp, q \notin DOMAIN l,
         Holds({}, a, B, Promise!With(l, q, n, stamp))
  PROVE  Placed(l, q, n)
<1> DEFINE ll == Promise!With(l, q, n, stamp)
<1>1. /\ DOMAIN ll = DOMAIN l \cup {q} /\ ll[q] = [n |-> n, stamp |-> stamp]
      /\ \A p \in DOMAIN l : ll[p] = l[p]
  BY DEF Promise!With
<1> HIDE DEF ll
<1>2. Holds({}, a, B, ll)
  BY DEF ll
<1>3. ASSUME NEW p \in DOMAIN ll
      PROVE  /\ p \in Int /\ p - 8 \in B /\ p - 8 \in Nat /\ (p - 8) % 8 = 0 /\ ll[p].n \in Nat
             /\ p + ll[p].n <= End(a, p - 8) /\ End(a, p - 8) \in Nat /\ End(a, p - 8) <= HeapBytes
  <2>1. p \in Int /\ Owns(a, B, p, ll[p].n) /\ ll[p].n \in Nat
    BY <1>2 DEF Holds
  <2>2. p - 8 \in B /\ ll[p].n + 8 <= a[p - 8].size
    BY <2>1 DEF Owns, Uses
  <2>3. End(a, p - 8) = p - 8 + a[p - 8].size
    BY DEF End
  <2>4. p - 8 \in Nat /\ (p - 8) % 8 = 0 /\ End(a, p - 8) \in Nat /\ End(a, p - 8) <= HeapBytes /\ a[p - 8].size \in Nat
    BY <2>2, Ends
  <2> QED
    BY <2>1, <2>2, <2>3, <2>4
<1>4. ASSUME NEW p \in DOMAIN l PROVE q + n <= p \/ p + l[p].n <= q
  <2>1. p \in DOMAIN ll /\ q \in DOMAIN ll /\ ll[p].n = l[p].n /\ ll[q].n = n /\ p # q
    BY <1>1
  <2>2. /\ p \in Int /\ p - 8 \in B /\ p + l[p].n <= End(a, p - 8) /\ End(a, p - 8) \in Nat /\ l[p].n \in Nat
        /\ q - 8 \in B /\ q + n <= End(a, q - 8) /\ End(a, q - 8) \in Nat
    BY <1>3, <2>1
  <2>3. p - 8 < q - 8 => End(a, p - 8) <= q - 8
    BY <2>2 DEF Tiles
  <2>4. q - 8 < p - 8 => End(a, q - 8) <= p - 8
    BY <2>2 DEF Tiles
  <2> QED
    BY <2>1, <2>2, <2>3, <2>4
<1>5. q \in DOMAIN ll /\ ll[q].n = n
  BY <1>1
<1>6. q \in 0..HeapBytes /\ q % 8 = 0 /\ q + n <= HeapBytes /\ n <= HeapBytes
  <2>1. /\ q - 8 \in Nat /\ (q - 8) % 8 = 0 /\ q + n <= End(a, q - 8) /\ End(a, q - 8) \in Nat
        /\ End(a, q - 8) <= HeapBytes
    BY <1>3, <1>5
  <2> QED
    BY <2>1, Sizes
<1> QED
  BY <1>4, <1>6 DEF Placed, Promise!Pointers, Promise!Fits, Promise!Apart, OMNI_ALIGN

\* There is a stamp no block of the caller's has.
LEMMA StampLeft ==
  ASSUME NEW B, HeapOK(arena, B, live), Cardinality(DOMAIN live) < MaxLive
  PROVE  FreshStamp \in 0..MaxLive
<1> DEFINE T == {live[q].stamp : q \in DOMAIN live}
           S == 1..MaxLive \ T
<1>0. MaxLive \in Nat
  BY HeapAssumption
<1>1. IsFiniteSet(DOMAIN live)
  <2>1. ASSUME NEW q \in DOMAIN live PROVE q \in Nat /\ q <= HeapBytes + 8
    <3>1. q \in Int /\ q - 8 \in B
      BY DEF HeapOK, Holds, Owns, Uses
    <3>2. q - 8 \in Nat /\ q - 8 < HeapBytes /\ HeapBytes \in Nat
      BY <3>1, Ends, Sizes DEF HeapOK
    <3> QED
      BY <3>1, <3>2
  <2>2. DOMAIN live \in SUBSET Nat /\ HeapBytes + 8 \in Nat
    BY <2>1, Sizes
  <2> QED
    BY <2>1, <2>2, FS_BoundedSetOfNaturals
<1>2. S # {}
  <2> SUFFICES ASSUME S = {} PROVE FALSE
    OBVIOUS
  <2> DEFINE I == 1..MaxLive
             D == DOMAIN live
             owner == [i \in I |-> CHOOSE q \in D : live[q].stamp = i]
  <2>1. ASSUME NEW i \in I PROVE owner[i] \in D /\ live[owner[i]].stamp = i
    <3>1. \E q \in D : live[q].stamp = i
      OBVIOUS
    <3> QED
      BY <3>1
  <2>2. owner \in [I -> D]
    BY <2>1
  <2>3. IsFiniteSet(I) /\ Cardinality(I) = MaxLive
    BY <1>0, FS_Interval
  <2>4. IsFiniteSet(D) /\ Cardinality(D) < Cardinality(I)
    BY <1>1, <2>3
  <2> HIDE DEF owner, I, D
  <2>5. \E x, y \in I : x # y /\ owner[x] = owner[y]
    BY <2>2, <2>3, <2>4, FS_PigeonHole
  <2> QED
    BY <2>1, <2>5
<1>3. S \in SUBSET Nat /\ S \in SUBSET (0..MaxLive)
  BY <1>0
<1> HIDE DEF S
<1>4. \E x \in S : \A y \in S : x <= y
  BY <1>2, <1>3, Least
<1>5. Min(S) \in S
  BY <1>4 DEF Min
<1> QED
  BY <1>3, <1>5 DEF FreshStamp, S

Stamped(a, T, stamp) == [o \in Offsets |-> IF o \in T THEN Data(stamp) ELSE a[o]]

\* What is written to a block touches no header and no other block.
LEMMA FilledWith ==
  ASSUME NEW a, NEW B, Tiles(a, B), Settled(a, B), NEW p \in Int, NEW n \in Nat, Owns(a, B, p, n),
         NEW T, T \subseteq Cells(p, n), NEW stamp \in Nat
  PROVE  LET aa == Stamped(a, T, stamp) IN
         /\ Tiles(aa, B) /\ Settled(aa, B) /\ Owns(aa, B, p, n) /\ Keeps({p - 8}, a, B, aa, B)
         /\ (\A o \in Cells(p, n) : o \notin T => a[o] = Data(stamp)) => Intact(aa, p, n, stamp)
<1> DEFINE aa == Stamped(a, T, stamp)
<1>1. p - 8 \in B /\ Cells(p, n) \subseteq Payload(a, p - 8)
  BY OwnCells
<1>2. aa \in Arenas /\ \A o \in Offsets : aa[o] = IF o \in T THEN Data(stamp) ELSE a[o]
  BY DEF Stamped, Arenas, Cell, Data, Tiles
<1> HIDE DEF aa
<1>3. \A o \in Offsets : o \notin Payload(a, p - 8) => aa[o] = a[o]
  BY <1>1, <1>2
<1>4. Tiles(aa, B) /\ Settled(aa, B) /\ (\A b \in B : aa[b] = a[b]) /\ Keeps({p - 8}, a, B, aa, B)
  BY <1>1, <1>2, <1>3, Overwritten
<1>5. Owns(aa, B, p, n)
  BY <1>1, <1>4 DEF Owns, Uses
<1>6. (\A o \in Cells(p, n) : o \notin T => a[o] = Data(stamp)) => Intact(aa, p, n, stamp)
  BY <1>2 DEF Intact, Cells
<1> QED
  BY <1>4, <1>5, <1>6 DEF aa

\* A block given out and filled.
LEMMA Given ==
  ASSUME NEW a, NEW B, NEW l, HeapOK(a, B, l), NEW n, NoWrap(n), NEW stamp \in 0..MaxLive,
         malloc(a, n).p # NoBlock
  PROVE  LET m == malloc(a, n) IN
         /\ \E BB : HeapOK(Fill(m.a, m.p, n, stamp), BB, Promise!With(l, m.p, n, stamp))
         /\ Placed(l, m.p, n)
<1> DEFINE m  == malloc(a, n)
           p  == m.p
           aa == Fill(m.a, p, n, stamp)
<1>0. Tiles(a, B) /\ Settled(a, B) /\ Holds({}, a, B, l) /\ n \in Nat /\ stamp \in Nat
  BY HeapAssumption DEF HeapOK, NoWrap
<1>1. p \in Int /\ p - 8 \in B /\ is_free(a, p - 8)
  BY <1>0, Allocated
<1>2. PICK BB : Tiles(m.a, BB) /\ Settled(m.a, BB) /\ Owns(m.a, BB, p, n) /\ Keeps({p - 8}, a, B, m.a, BB)
  BY <1>0, Allocated
<1> HIDE DEF m
<1>3. /\ Tiles(aa, BB) /\ Settled(aa, BB) /\ Owns(aa, BB, p, n) /\ Keeps({p - 8}, m.a, BB, aa, BB)
      /\ Intact(aa, p, n, stamp)
  <2> DEFINE T == Cells(p, n)
             a1 == Stamped(m.a, T, stamp)
  <2>1. T \subseteq Cells(p, n)
    OBVIOUS
  <2>2. aa = a1 /\ \A o \in Cells(p, n) : o \notin T => m.a[o] = Data(stamp)
    BY DEF Fill, Stamped
  <2> HIDE DEF T, p, aa
  <2>3. /\ Tiles(a1, BB) /\ Settled(a1, BB) /\ Owns(a1, BB, p, n) /\ Keeps({p - 8}, m.a, BB, a1, BB)
        /\ Intact(a1, p, n, stamp)
    BY <1>0, <1>1, <1>2, <2>1, <2>2, FilledWith
  <2> HIDE DEF a1
  <2> QED
    BY <2>2, <2>3
<1> HIDE DEF aa
<1>4. Keeps({} \cup {p - 8}, a, B, aa, BB)
  <2>1. {p - 8} \cup {p - 8} = {} \cup {p - 8}
    OBVIOUS
  <2> QED
    BY <1>2, <1>3, <2>1, KeepsOn
<1>5. Holds({}, aa, BB, Promise!With(l, p, n, stamp)) /\ p \notin DOMAIN l
  <2>1. ~Uses(a, B, p - 8)
    BY <1>1 DEF Uses, is_free
  <2> QED
    BY <1>0, <1>1, <1>3, <1>4, <2>1, Put
<1>6. Placed(l, p, n)
  BY <1>0, <1>1, <1>3, <1>5, Disjoint
<1> QED
  BY <1>3, <1>5, <1>6 DEF HeapOK, aa, m

\* A block taken back.
LEMMA TakenBack ==
  ASSUME NEW a, NEW B, NEW l, HeapOK(a, B, l), NEW p \in DOMAIN l
  PROVE  /\ p \in Int /\ find(a, p) # {}
         /\ \E BB : HeapOK(free(a, p), BB, Promise!Without(l, p))
<1> DEFINE aa == free(a, p)
           ll == Promise!Without(l, p)
<1>1. p \in Int /\ Uses(a, B, p - 8) /\ Tiles(a, B)
  BY DEF HeapOK, Holds, Owns
<1>2. PICK BB : Tiles(aa, BB) /\ Settled(aa, BB) /\ Keeps({p - 8}, a, B, aa, BB) /\ ~Uses(aa, BB, p - 8)
  BY <1>1, Freed
<1> HIDE DEF aa
<1>3. DOMAIN ll = DOMAIN l \ {p} /\ \A q \in DOMAIN ll : ll[q] = l[q]
  BY DEF Promise!Without, Promise!Restrict
<1> HIDE DEF ll
<1>4. ASSUME NEW q \in DOMAIN ll
      PROVE  /\ q \in Int /\ ll[q].n \in Nat /\ ll[q].stamp \in 0..MaxLive
             /\ Owns(aa, BB, q, ll[q].n) /\ Intact(aa, q, ll[q].n, ll[q].stamp)
  <2>1. q \in DOMAIN l /\ q # p /\ ll[q] = l[q]
    BY <1>3
  <2>2. /\ q \in Int /\ l[q].n \in Nat /\ l[q].stamp \in 0..MaxLive
        /\ Owns(a, B, q, l[q].n) /\ Intact(a, q, l[q].n, l[q].stamp)
    BY <2>1 DEF HeapOK, Holds
  <2>3. q - 8 \notin {p - 8}
    BY <1>1, <2>1, <2>2
  <2>4. Owns(aa, BB, q, l[q].n) /\ Intact(aa, q, l[q].n, l[q].stamp)
    BY <1>1, <1>2, <2>2, <2>3, StillWritten
  <2> QED
    BY <2>1, <2>2, <2>4
<1>5. ASSUME NEW b \in Offsets, Uses(aa, BB, b) PROVE b + 8 \in DOMAIN ll
  <2>1. b # p - 8 /\ Uses(a, B, b) /\ b \in Nat
    BY <1>2, <1>5, Sizes DEF Keeps
  <2>2. b + 8 \in DOMAIN l /\ b + 8 # p
    BY <1>1, <2>1 DEF HeapOK, Holds
  <2> QED
    BY <1>3, <2>2
<1>6. Holds({}, aa, BB, ll)
  BY <1>4, <1>5 DEF Holds
<1> QED
  BY <1>1, <1>2, <1>6, Found DEF HeapOK, aa, ll

\* A block kept, shrunk, grown or moved, and what the caller gained of it filled.
LEMMA GivenAgain ==
  ASSUME NEW a, NEW B, NEW l, HeapOK(a, B, l), NEW p \in DOMAIN l, NEW n, NoWrap(n), n > 0
  PROVE  LET r == realloc(a, p, n)
             gained == Cells(r.p, n) \ Cells(r.p, Min({n, l[p].n}))
             aa == [o \in Offsets |-> IF o \in gained THEN Data(l[p].stamp) ELSE r.a[o]]
             ll == Promise!Without(l, p)
         IN  IF r.p = NoBlock THEN r.a = a
             ELSE /\ \E BB : HeapOK(aa, BB, Promise!With(ll, r.p, n, l[p].stamp))
                  /\ Placed(ll, r.p, n)
<1> DEFINE r == realloc(a, p, n)
           q == r.p
           gained == Cells(q, n) \ Cells(q, Min({n, l[p].n}))
           stamp == l[p].stamp
           aa == Stamped(r.a, gained, stamp)
           ll == Promise!Without(l, p)
<1>1. /\ Tiles(a, B) /\ Settled(a, B) /\ p \in Int /\ Uses(a, B, p - 8) /\ n \in Nat
      /\ stamp \in 0..MaxLive /\ stamp \in Nat /\ l[p].n \in Nat
      /\ Owns(a, B, p, l[p].n) /\ Intact(a, p, l[p].n, stamp)
  BY HeapAssumption DEF HeapOK, Holds, Owns, NoWrap
<1>2. CASE q = NoBlock
  BY <1>1, <1>2, Reallocated
<1>3. CASE q # NoBlock
  <2>1. q \in Int /\ \E BB : Moved(a, B, p, q, n, r.a, BB)
    BY <1>1, <1>3, Reallocated
  <2>2. PICK BB : Moved(a, B, p, q, n, r.a, BB)
    BY <2>1
  <2>3. gained \subseteq Cells(q, n)
    OBVIOUS
  <2> HIDE DEF r, stamp, q
  <2>k. ASSUME NEW o \in Cells(q, n), o \notin gained PROVE r.a[o] = Data(stamp)
    <3> DEFINE least == Min({n, l[p].n})
    <3>1. least \in Nat /\ least <= l[p].n
      BY <1>1, MinOfTwo
    <3>2. o \in Cells(q, least)
      BY <2>k
    <3> HIDE DEF least
    <3>3. o \in Offsets /\ o \in Nat /\ o >= q /\ o < q + least /\ o % 8 = 0
      BY <3>2, Sizes DEF Cells
    <3>4. o - q + p >= p /\ o - q + p < p + l[p].n /\ o - q + p \in Int
      BY <1>1, <2>1, <3>1, <3>3
    <3>5. /\ p - 8 \in B /\ p - 8 \in Nat /\ (p - 8) % 8 = 0 /\ End(a, p - 8) = p - 8 + a[p - 8].size
          /\ l[p].n + 8 <= a[p - 8].size /\ a[p - 8].size \in Nat /\ End(a, p - 8) <= HeapBytes
      <4>1. p - 8 \in B /\ l[p].n + 8 <= a[p - 8].size
        BY <1>1 DEF Owns, Uses
      <4> QED
        BY <1>1, <4>1, Ends DEF End
    <3>6. q - 8 \in Nat /\ (q - 8) % 8 = 0
      <4>1. q - 8 \in BB /\ Tiles(r.a, BB)
        BY <2>2 DEF Moved, Owns, Uses
      <4> QED
        BY <4>1, Ends
    <3>7. o - q + p < End(a, p - 8) /\ o - q + p \in Nat /\ o - q + p < HeapBytes
      BY <1>1, <3>4, <3>5, Sizes
    <3>8. (o - q + p) % 8 = 0
      <4> DEFINE u == q - 8
                 v == p - 8
      <4>1. o - q + p = o - u + v
        BY <1>1, <2>1, <3>3
      <4>2. o \in Nat /\ o % 8 = 0 /\ u \in Nat /\ u % 8 = 0 /\ v \in Nat /\ v % 8 = 0
        BY <3>3, <3>5, <3>6
      <4> HIDE DEF u, v
      <4>3. (o - u + v) % 8 = 0
        BY <4>2
      <4> QED
        BY <4>1, <4>3
    <3>9. o - q + p \in Cells(p, l[p].n)
      BY <3>4, <3>7, <3>8, Sizes DEF Cells
    <3>10. r.a[o] = a[o - q + p]
      BY <2>2, <2>k, <3>7 DEF Moved
    <3> QED
      BY <1>1, <3>9, <3>10 DEF Intact
  <2> HIDE DEF gained
  <2>4. /\ Tiles(aa, BB) /\ Settled(aa, BB) /\ Owns(aa, BB, q, n) /\ Keeps({q - 8}, r.a, BB, aa, BB)
        /\ Intact(aa, q, n, stamp)
    <3>1. Tiles(r.a, BB) /\ Settled(r.a, BB) /\ Owns(r.a, BB, q, n)
      BY <2>2 DEF Moved
    <3> QED
      BY <1>1, <2>1, <2>3, <2>k, <3>1, FilledWith
  <2> HIDE DEF aa
  <2>5. Keeps({p - 8} \cup {q - 8}, a, B, aa, BB)
    <3>1. {p - 8, q - 8} \cup {q - 8} = {p - 8} \cup {q - 8}
      OBVIOUS
    <3> QED
      BY <2>2, <2>4, <3>1, KeepsOn DEF Moved
  <2>6. Holds({p - 8}, a, B, ll)
    <3>1. DOMAIN ll = DOMAIN l \ {p} /\ \A x \in DOMAIN ll : ll[x] = l[x]
      BY DEF Promise!Without, Promise!Restrict
    <3> HIDE DEF ll
    <3>2. ASSUME NEW x \in DOMAIN ll
          PROVE  /\ x \in Int /\ x - 8 \notin {p - 8} /\ ll[x].n \in Nat /\ ll[x].stamp \in 0..MaxLive
                 /\ Owns(a, B, x, ll[x].n) /\ Intact(a, x, ll[x].n, ll[x].stamp)
      <4>1. x \in DOMAIN l /\ x # p /\ ll[x] = l[x]
        BY <3>1
      <4>2. /\ x \in Int /\ l[x].n \in Nat /\ l[x].stamp \in 0..MaxLive
            /\ Owns(a, B, x, l[x].n) /\ Intact(a, x, l[x].n, l[x].stamp)
        BY <4>1 DEF HeapOK, Holds
      <4> QED
        BY <1>1, <4>1, <4>2
    <3>3. ASSUME NEW b \in Offsets \ {p - 8}, Uses(a, B, b) PROVE b + 8 \in DOMAIN ll
      <4>1. b + 8 \in DOMAIN l /\ b \in Nat
        BY <3>3, Sizes DEF HeapOK, Holds
      <4> QED
        BY <1>1, <3>1, <4>1
    <3> QED
      BY <3>2, <3>3 DEF Holds
  <2> HIDE DEF ll
  <2>7. Holds({}, aa, BB, Promise!With(ll, q, n, stamp)) /\ q \notin DOMAIN ll
    <3>1. Uses(a, B, q - 8) => q - 8 \in {p - 8}
      BY <2>2 DEF Moved
    <3>2. \A b \in {p - 8} : b # q - 8 => ~Uses(aa, BB, b)
      <4>1. SUFFICES ASSUME p - 8 # q - 8 PROVE ~Uses(aa, BB, p - 8)
        OBVIOUS
      <4>2. ~Uses(r.a, BB, p - 8)
        BY <2>2, <4>1 DEF Moved
      <4>3. p - 8 \in Offsets /\ Keeps({q - 8}, r.a, BB, aa, BB) /\ p - 8 \notin {q - 8}
        BY <1>1, <2>4, <4>1 DEF Uses, Tiles
      <4> QED
        BY <4>2, <4>3 DEF Keeps
    <3> QED
      BY <1>1, <2>1, <2>4, <2>5, <2>6, <3>1, <3>2, Put
  <2>8. Placed(ll, q, n)
    BY <1>1, <2>1, <2>4, <2>7, Disjoint
  <2> QED
    BY <1>3, <2>4, <2>7, <2>8 DEF HeapOK, aa, ll, q, gained, stamp, r, Stamped
<1> QED
  BY <1>2, <1>3

-----------------------------------------------------------------------------
(* The theorems.                                                           *)

\* A call of malloc or calloc.
LEMMA TookStep ==
  ASSUME NEW B, HeapOK(arena, B, live), NEW n, NoWrap(n), NEW stamp \in 0..MaxLive,
         Took(malloc(arena, n), n, stamp), n <= HeapBytes => n \in Granted
  PROVE  HeapInv' /\ (live' = live \/ Promise!Next)
<1>1. CASE malloc(arena, n).p = NoBlock
  <2>1. arena' = arena /\ live' = live
    BY <1>1, Allocated DEF Took, HeapOK
  <2> QED
    BY <2>1 DEF HeapInv, HeapOK, Tiles
<1>2. CASE malloc(arena, n).p # NoBlock
  <2> DEFINE m == malloc(arena, n)
  <2>1. live' = Promise!With(live, m.p, n, stamp) /\ arena' = Fill(m.a, m.p, n, stamp)
    BY <1>2 DEF Took
  <2>2. (\E BB : HeapOK(arena', BB, live')) /\ Placed(live, m.p, n)
    BY <1>2, <2>1, Given
  <2> HIDE DEF m
  <2>3. HeapInv'
    BY <2>2 DEF HeapInv, HeapOK, Tiles
  <2>4. Promise!Allocate
    BY <2>1, <2>2 DEF Promise!Allocate, Placed
  <2> QED
    BY <2>3, <2>4 DEF Promise!Next
<1> QED
  BY <1>1, <1>2

LEMMA HeapStarts == HeapInit => HeapInv
<1> SUFFICES ASSUME HeapInit PROVE HeapInv
  OBVIOUS
<1>1. /\ arena = heap_init /\ live = << >> /\ 0 \in Offsets /\ HeapBytes \in Nat /\ HeapBytes > 0
      /\ heap_init \in Arenas /\ heap_init[0].size = HeapBytes /\ heap_init[0].magic = "free"
  BY Sizes DEF HeapInit, heap_init, Header, Data, Arenas, Cell
<1>2. End(arena, 0) = HeapBytes
  BY <1>1 DEF End
<1>3. Tiles(arena, {0})
  BY <1>1, <1>2 DEF Tiles
<1>4. Settled(arena, {0})
  BY <1>1, <1>2 DEF Settled, SettledTo
<1>5. Holds({}, arena, {0}, live)
  BY <1>1 DEF Holds, Uses
<1> QED
  BY <1>1, <1>3, <1>4, <1>5 DEF HeapInv, HeapOK

\* calloc refuses every pair of sizes whose product size_t cannot hold.
LEMMA CallocFits ==
  ASSUME NEW n \in Requests, NEW size \in Requests, ~calloc_refuses(n, size)
  PROVE  NoWrap(n * size) /\ (n * size <= HeapBytes => n * size \in Granted)
<1>1. n \in Nat /\ size \in Nat /\ HeapBytes \in Nat /\ SizeT \in Nat
      /\ HeapBytes * HeapBytes + 16 <= SizeT
  BY HeapAssumption
<1>2. n <= HeapBytes /\ size <= HeapBytes
  BY <1>1 DEF calloc_refuses
<1>3. n * size \in Nat /\ HeapBytes * HeapBytes \in Nat
  BY <1>1
<1>4. n * size <= HeapBytes * size /\ HeapBytes * size <= HeapBytes * HeapBytes /\ HeapBytes * size \in Nat
  BY <1>1, <1>2
<1>5. n * size + 15 < SizeT
  BY <1>1, <1>3, <1>4
<1> QED
  BY <1>2, <1>3, <1>5 DEF NoWrap, Granted, Small

\* Every call keeps the heap in order and the promise to its caller.
LEMMA HeapStep ==
  ASSUME RequestsFit, HeapInv, [HeapNext]_heapVars
  PROVE  HeapInv' /\ (live' = live \/ Promise!Next)
<1>1. PICK B : HeapOK(arena, B, live)
  BY DEF HeapInv
<1>2. ASSUME arena' = arena, live' = live PROVE HeapInv'
  BY <1>2 DEF HeapInv, HeapOK, Tiles
<1>3. ASSUME NEW p \in DOMAIN live, arena' = free(arena, p), live' = Promise!Without(live, p)
      PROVE  HeapInv' /\ Promise!Next
  <2>1. \E BB : HeapOK(arena', BB, live')
    BY <1>1, <1>3, TakenBack
  <2>2. HeapInv'
    BY <2>1 DEF HeapInv, HeapOK, Tiles
  <2>3. Promise!Release
    BY <1>3 DEF Promise!Release
  <2> QED
    BY <2>2, <2>3 DEF Promise!Next
<1>4. CASE Malloc
  <2>1. FreshStamp \in 0..MaxLive
    BY <1>1, <1>4, StampLeft DEF Malloc
  <2>2. PICK n \in Requests : Took(malloc(arena, n), n, FreshStamp)
    BY <1>4 DEF Malloc
  <2>3. NoWrap(n) /\ (n <= HeapBytes => n \in Granted)
    BY DEF RequestsFit, Granted, Small
  <2> QED
    BY <1>1, <2>1, <2>2, <2>3, TookStep
<1>5. CASE Calloc
  <2>1. PICK n \in Requests, size \in Requests :
           ~calloc_refuses(n, size) /\ Took(malloc(arena, n * size), n * size, 0)
    BY <1>5 DEF Calloc
  <2>2. NoWrap(n * size) /\ (n * size <= HeapBytes => n * size \in Granted)
    BY <2>1, CallocFits
  <2>3. 0 \in 0..MaxLive
    BY HeapAssumption
  <2> DEFINE total == n * size
  <2> HIDE DEF total
  <2> QED
    BY <1>1, <2>1, <2>2, <2>3, TookStep DEF total
<1>6. CASE Free
  <2>1. PICK p \in Offsets : /\ arena' = free(arena, p)
                             /\ IF find(arena, p) = {} THEN UNCHANGED live
                                ELSE live' = Promise!Without(live, p)
    BY <1>6 DEF Free
  <2>2. CASE find(arena, p) = {}
    BY <1>2, <2>1, <2>2 DEF free
  <2>3. CASE find(arena, p) # {}
    <3>1. p \in Nat /\ Tiles(arena, B)
      BY <1>1, Sizes DEF HeapOK
    <3>2. Uses(arena, B, p - 8)
      BY <2>3, <3>1, Found
    <3>3. p - 8 \in Offsets
      BY <3>1, <3>2 DEF Uses, Tiles
    <3>4. p - 8 + 8 \in DOMAIN live
      BY <1>1, <3>2, <3>3 DEF HeapOK, Holds
    <3> QED
      BY <1>3, <2>1, <2>3, <3>1, <3>4
  <2> QED
    BY <2>2, <2>3
<1>7. CASE Realloc
  <2>1. PICK p \in DOMAIN live, n \in Requests \ {0} :
          LET r == realloc(arena, p, n)
              gained == Cells(r.p, n) \ Cells(r.p, Min({n, live[p].n}))
          IN  /\ arena' = IF r.p = NoBlock THEN r.a
                          ELSE [o \in Offsets |-> IF o \in gained THEN Data(live[p].stamp) ELSE r.a[o]]
              /\ live' = IF r.p = NoBlock THEN live
                         ELSE Promise!With(Promise!Without(live, p), r.p, n, live[p].stamp)
    BY <1>7 DEF Realloc
  <2>2. NoWrap(n) /\ n > 0 /\ (n <= HeapBytes => n \in Granted)
    BY DEF RequestsFit, Granted, Small, NoWrap
  <2> DEFINE r == realloc(arena, p, n)
             ll == Promise!Without(live, p)
  <2>3. CASE r.p = NoBlock
    <3>1. arena' = arena /\ live' = live
      BY <1>1, <2>1, <2>2, <2>3, GivenAgain
    <3> QED
      BY <1>2, <3>1
  <2>4. CASE r.p # NoBlock
    <3>1. live' = Promise!With(ll, r.p, n, live[p].stamp)
      BY <2>1, <2>4
    <3>2. (\E BB : HeapOK(arena', BB, live')) /\ Placed(ll, r.p, n)
      BY <1>1, <2>1, <2>2, <2>4, GivenAgain
    <3> HIDE DEF r
    <3>3. HeapInv'
      BY <3>2 DEF HeapInv, HeapOK, Tiles
    <3>4. Promise!Resize
      BY <2>2, <3>1, <3>2 DEF Promise!Resize, Placed
    <3> QED
      BY <3>3, <3>4 DEF Promise!Next
  <2> QED
    BY <2>3, <2>4
<1>8. CASE ReallocZero
  BY <1>3, <1>8 DEF ReallocZero
<1>9. CASE ReallocWild
  BY <1>2, <1>9 DEF ReallocWild
<1>10. CASE UNCHANGED heapVars
  BY <1>2, <1>10 DEF heapVars
<1> QED
  BY <1>4, <1>5, <1>6, <1>7, <1>8, <1>9, <1>10 DEF HeapNext

LEMMA HeapStaysInOrder == ASSUME RequestsFit PROVE HeapSpec => []HeapInv
<1>1. HeapInv /\ [HeapNext]_heapVars => HeapInv'
  BY HeapStep
<1> QED
  BY HeapStarts, <1>1, PTL DEF HeapSpec

\* The largest of some numbers that have a bound.
LEMMA Greatest ==
  ASSUME NEW S \in SUBSET Nat, S # {}, NEW m \in Nat, \A x \in S : x <= m
  PROVE  Max(S) \in S /\ \A x \in S : x <= Max(S)
<1> DEFINE T == {m - x : x \in S}
<1>1. T \in SUBSET Nat /\ T # {}
  <2>1. PICK x \in S : TRUE
    OBVIOUS
  <2>2. m - x \in T
    BY <2>1
  <2>3. \A y \in S : m - y \in Nat
    OBVIOUS
  <2>4. T \in SUBSET Nat
    BY <2>3
  <2> QED
    BY <2>2, <2>4
<1> HIDE DEF T
<1>2. PICK d \in T : \A e \in T : d <= e
  BY <1>1, Least
<1>3. PICK z \in S : d = m - z
  BY DEF T
<1>4. ASSUME NEW x \in S PROVE z >= x
  <2>1. m - x \in T
    BY DEF T
  <2>2. m - z <= m - x
    BY <1>2, <1>3, <2>1
  <2> QED
    BY <2>2
<1>5. Max(S) \in S /\ \A x \in S : Max(S) >= x
  BY <1>4 DEF Max
<1> QED
  BY <1>5

\* The last block ends with the arena.
LEMMA LastBlock == ASSUME NEW a, NEW B, Tiles(a, B) PROVE \E b \in B : End(a, b) = HeapBytes
<1> DEFINE last == Max(B)
<1>1. last \in B /\ \A b \in B : b <= last
  <2>1. B \in SUBSET Nat /\ B # {} /\ HeapBytes \in Nat /\ \A b \in B : b <= HeapBytes
    BY Sizes, Ends DEF Tiles
  <2> QED
    BY <2>1, Greatest
<1> HIDE DEF last
<1>2. End(a, last) \notin B
  <2>1. last < End(a, last) /\ last \in Nat /\ End(a, last) \in Nat
    BY <1>1, Ends DEF Tiles
  <2> QED
    BY <1>1, <2>1
<1> QED
  BY <1>1, <1>2, Ends

\* The arena satisfies the code's own checker after every call, its used blocks are what
\* the caller holds, and each holds what was written there, moved blocks included: nothing
\* is lost to the heap or to its caller, whatever the calls and their order (malloc,
\* calloc, realloc, free, heap_check).
THEOREM HeapStaysChecked == ASSUME RequestsFit PROVE HeapSpec => []HeapChecked
<1>1. HeapInv => HeapChecked
  <2> SUFFICES ASSUME HeapInv PROVE HeapChecked
    OBVIOUS
  <2>1. PICK B : HeapOK(arena, B, live)
    BY DEF HeapInv
  <2>2. Tiles(arena, B) /\ Settled(arena, B) /\ Walk(arena) = B
    BY <2>1, WalkIs DEF HeapOK
  <2>3. ASSUME NEW b \in B
        PROVE  /\ arena[b].size >= 8 /\ arena[b].size % 8 = 0 /\ arena[b].magic \in {"free", "used"}
               /\ b + arena[b].size \in B => ~(is_free(arena, b) /\ is_free(arena, b + arena[b].size))
    <3>1. b + arena[b].size = End(arena, b) /\ End(arena, b) <= HeapBytes
      BY <2>2, Ends DEF End
    <3> QED
      BY <2>2, <3>1, Ends DEF Tiles, Settled, SettledTo
  <2>4. \E b \in B : b + arena[b].size = HeapBytes
    BY <2>2, LastBlock DEF End
  <2>5. heap_check(arena)
    BY <2>2, <2>3, <2>4 DEF heap_check, HDR_ALIGNED, OMNI_ALIGN
  <2>6. {b + 8 : b \in {c \in B : ~is_free(arena, c)}} = DOMAIN live
    <3>1. ASSUME NEW b \in B, ~is_free(arena, b) PROVE b + 8 \in DOMAIN live
      <4>1. Uses(arena, B, b) /\ b \in Offsets
        BY <2>2, <3>1 DEF Uses, is_free, Tiles
      <4> QED
        BY <2>1, <4>1 DEF HeapOK, Holds
    <3>2. ASSUME NEW p \in DOMAIN live PROVE \E b \in {c \in B : ~is_free(arena, c)} : p = b + 8
      <4>1. p \in Int /\ Uses(arena, B, p - 8)
        BY <2>1 DEF HeapOK, Holds, Owns
      <4>2. p - 8 \in {c \in B : ~is_free(arena, c)} /\ p = p - 8 + 8
        BY <4>1 DEF Uses, is_free
      <4> QED
        BY <4>2
    <3> QED
      BY <3>1, <3>2
  <2>7. \A p \in DOMAIN live : \A o \in Cells(p, live[p].n) : arena[o] = Data(live[p].stamp)
    BY <2>1 DEF HeapOK, Holds, Intact
  <2> QED
    BY <2>2, <2>5, <2>6, <2>7 DEF HeapChecked, HDR_ALIGNED
<1> QED
  BY <1>1, HeapStaysInOrder, PTL

\* malloc refuses only what no free block can hold: first fit finds a block if one is
\* large enough, after any calls (malloc, heap_largest_free).
THEOREM MallocFailsOnlyWhenFull == ASSUME RequestsFit PROVE HeapSpec => []FailsOnlyWhenFull
<1>1. HeapInv => FailsOnlyWhenFull
  <2> SUFFICES ASSUME HeapInv, NEW n \in Requests, n > 0, malloc(arena, n).p = NoBlock
               PROVE  n > heap_largest_free(arena)
    BY DEF FailsOnlyWhenFull
  <2>1. PICK B : HeapOK(arena, B, live)
    BY DEF HeapInv
  <2>2. Tiles(arena, B) /\ Walk(arena) = B /\ NoWrap(n) /\ n \in Nat
    BY <2>1, WalkIs DEF HeapOK, RequestsFit, NoWrap
  <2> DEFINE rooms == {arena[b].size - 8 : b \in {c \in B : is_free(arena, c)}}
  <2>3. {0} \cup rooms \in SUBSET Nat /\ \A x \in {0} \cup rooms : x <= HeapBytes
    <3>1. ASSUME NEW b \in B PROVE arena[b].size - 8 \in Nat /\ arena[b].size - 8 <= HeapBytes
      <4>1. /\ b \in Nat /\ arena[b].size \in Nat /\ arena[b].size >= 8 /\ End(arena, b) <= HeapBytes
            /\ End(arena, b) = b + arena[b].size /\ HeapBytes \in Nat
        BY <2>2, Ends, Sizes DEF End
      <4> QED
        BY <4>1
    <3> QED
      BY <3>1, Sizes
  <2>4. heap_largest_free(arena) = Max({0} \cup rooms)
    BY <2>2 DEF heap_largest_free, HDR_ALIGNED
  <2> DEFINE largest == Max({0} \cup rooms)
  <2>5. largest \in {0} \cup rooms
    BY <2>3, Greatest, Sizes
  <2> HIDE DEF largest
  <2>6. ASSUME NEW b \in B, is_free(arena, b), largest = arena[b].size - 8 PROVE n > largest
    <3>1. /\ b \in Nat /\ arena[b].size \in Nat /\ arena[b].size % 8 = 0 /\ End(arena, b) <= HeapBytes
          /\ End(arena, b) = b + arena[b].size /\ HeapBytes \in Nat
      BY <2>2, Ends, Sizes DEF End
    <3>2. need(n) \in Nat /\ (n + 8 <= arena[b].size => need(n) <= arena[b].size)
      BY <2>2, <3>1, Needs
    <3>3. ASSUME need(n) <= arena[b].size PROVE malloc(arena, n).p # NoBlock
      <4>1. need(n) <= HeapBytes /\ b \in {c \in B : fits(arena, c, n)}
        BY <2>6, <3>1, <3>2, <3>3 DEF fits
      <4> DEFINE found == {c \in B : fits(arena, c, n)}
      <4>2. malloc(arena, n).p = Min(found) + 8
        BY <2>2, <3>2, <4>1, Sizes DEF malloc, HDR_ALIGNED
      <4>3. found \in SUBSET Nat /\ found # {}
        BY <2>2, <4>1, Ends
      <4> HIDE DEF found
      <4>4. Min(found) \in found
        BY <4>3, Least DEF Min
      <4>5. Min(found) \in Nat
        BY <4>3, <4>4
      <4> QED
        BY <4>2, <4>5 DEF NoBlock
    <3> QED
      BY <2>2, <2>6, <3>1, <3>2, <3>3
  <2> QED
    BY <2>4, <2>5, <2>6 DEF largest
<1> QED
  BY <1>1, HeapStaysInOrder, PTL

\* What malloc, calloc and realloc give out is aligned, in the arena and apart from all
\* that its caller holds, and a realloc that fails leaves its block alone.
THEOREM HeapKeepsItsPromise == ASSUME RequestsFit PROVE HeapSpec => ImplementsPromise
<1>1. HeapInit => Promise!Init
  BY DEF HeapInit, Promise!Init
<1>2. HeapInv /\ [HeapNext]_heapVars => [Promise!Next]_live
  BY HeapStep
<1> QED
  BY HeapStaysInOrder, <1>1, <1>2, PTL DEF HeapSpec, ImplementsPromise, Promise!Spec

-----------------------------------------------------------------------------
(* The memory.                                                             *)
Memory == [Addr -> Bytes]

LEMMA MemoryIs ==
  /\ Size \in Nat /\ Size > 0 /\ 0 \in Bytes
  /\ \A a \in Addr : a \in Nat /\ a < Size
  /\ \A a \in Nat : a < Size => a \in Addr
  /\ \A b \in Bytes : b \in Nat /\ b < 256 /\ b % 256 = b
BY LibraryAssumption DEF Addr

\* A copying loop, turn by turn.
CopyTurn(f, m, d, s, order, n) ==
  /\ f[0] = m /\ CopyCells(m, d, s, order) = f[n]
  /\ \A k \in 1..n : f[k] = [f[k - 1] EXCEPT ![d + order[k]] = f[k - 1][s + order[k]]]

LEMMA CopyTurns ==
  ASSUME NEW m \in Memory, NEW d, NEW s, NEW order, NEW n \in Nat, Len(order) = n,
         \A k \in 1..n : d + order[k] \in Addr /\ s + order[k] \in Addr
  PROVE  \E f \in [0..n -> Memory] : CopyTurn(f, m, d, s, order, n)
<1> DEFINE Turn(k, mm) == [mm EXCEPT ![d + order[k]] = mm[s + order[k]]]
           F(f)  == [k \in 0..n |-> IF k = 0 THEN m ELSE Turn(k, f[k - 1])]
           turn  == CHOOSE f : f = F(f)
           G     == [k \in 0..n |-> [mm \in Memory |-> IF k = 0 THEN mm ELSE Turn(k, mm)]]
<1>1. CopyCells(m, d, s, order) = turn[n]
  BY DEF CopyCells
<1>2. \A k \in 1..n, mm \in Memory : Turn(k, mm) \in Memory
  BY DEF Memory
<1>n. 0 \in Nat /\ 0 <= n
  OBVIOUS
<1> HIDE DEF Turn
<1>3. G \in [0..n -> [Memory -> Memory]]
  BY <1>2
<1>4. \A k \in 1..n, mm \in Memory : G[k][mm] = Turn(k, mm)
  OBVIOUS
<1> HIDE DEF G
<1>5. PICK f : Loops(f, Memory, 0, n, m, G)
  BY <1>n, <1>3, LoopIsFunction, Zenon
<1>6. f \in [0..n -> Memory] /\ f[0] = m /\ \A k \in 1..n : f[k] = Turn(k, f[k - 1])
  BY <1>n, <1>4, <1>5 DEF Loops
<1>7. f = F(f)
  BY <1>6
<1>8. turn = F(turn)
  <2> HIDE DEF F
  <2> QED
    BY <1>7, Zenon
<1> HIDE DEF turn
<1>9. turn[0] = m /\ \A k \in 1..n : turn[k] = Turn(k, turn[k - 1])
  <2>1. \A k \in 0..n : F(turn)[k] = IF k = 0 THEN m ELSE Turn(k, turn[k - 1])
    OBVIOUS
  <2> HIDE DEF F
  <2> QED
    BY <1>8, <2>1
<1>10. \A k \in 0..n : turn[k] \in Memory
  <2>1. \A k \in (0 + 1)..n : turn[k - 1] \in Memory => turn[k] \in Memory
    BY <1>2, <1>9
  <2> QED
    BY <1>n, <1>9, <2>1, LoopStays
<1>11. turn \in [0..n -> Memory]
  <2>1. \A k \in 0..n : F(turn)[k] = turn[k]
    BY <1>8, Zenon
  <2>2. F(turn) \in [0..n -> Memory]
    BY <1>10, <2>1
  <2> QED
    BY <1>8, <2>2, Zenon
<1> QED
  BY <1>1, <1>9, <1>11 DEF Turn, CopyTurn

\* The n bytes at s, copied to d.
Copied(m, d, s, n) == [a \in Addr |-> IF a \in d..(d + n - 1) THEN m[s + (a - d)] ELSE m[a]]

LEMMA CopyUp ==
  ASSUME NEW m \in Memory, NEW d \in Addr, NEW s \in Addr, NEW n \in Nat, Room(d, n), Room(s, n),
         d < s \/ Apart(d, s, n)
  PROVE  CopyCells(m, d, s, Upto(n)) = Copied(m, d, s, n)
<1> DEFINE order == Upto(n)
<1>1. Len(order) = n /\ \A k \in 1..n : order[k] = k - 1
  BY DEF Upto
<1> HIDE DEF order
<1>2. \A k \in 1..n : d + order[k] \in Addr /\ s + order[k] \in Addr
  <2> TAKE k \in 1..n
  <2>1. d + (k - 1) \in Addr /\ s + (k - 1) \in Addr
    BY MemoryIs DEF Room
  <2> QED
    BY <1>1, <2>1
<1>3. PICK f \in [0..n -> Memory] :
        /\ f[0] = m /\ CopyCells(m, d, s, order) = f[n]
        /\ \A k \in 1..n : f[k] = [f[k - 1] EXCEPT ![d + order[k]] = f[k - 1][s + order[k]]]
  <2>1. \E f \in [0..n -> Memory] : CopyTurn(f, m, d, s, order, n)
    BY <1>1, <1>2, CopyTurns
  <2> QED
    BY <2>1 DEF CopyTurn
<1> DEFINE S == {k \in 0..n : f[k] = Copied(m, d, s, k)}
<1>4. 0 \in S
  BY <1>3, MemoryIs DEF Copied, Memory
<1>5. ASSUME NEW k \in 1..n, k - 1 \in S PROVE k \in S
  <2>1. f[k - 1] = Copied(m, d, s, k - 1) /\ k \in 0..n
    BY <1>5
  <2>2. f[k] = [f[k - 1] EXCEPT ![d + (k - 1)] = f[k - 1][s + (k - 1)]]
    BY <1>1, <1>3
  <2>3. s + (k - 1) \in Addr /\ d + (k - 1) \in Addr
    BY <1>1, <1>2
  <2>4. s + (k - 1) \notin d..(d + (k - 1) - 1)
    BY MemoryIs DEF Apart, Room
  <2>5. f[k - 1][s + (k - 1)] = m[s + (k - 1)]
    BY <2>1, <2>3, <2>4 DEF Copied
  <2>6. f[k] = [a \in Addr |-> IF a = d + (k - 1) THEN m[s + (k - 1)] ELSE f[k - 1][a]]
    BY <2>1, <2>2, <2>3, <2>5 DEF Copied
  <2>7. \A a \in Addr : (IF a = d + (k - 1) THEN m[s + (k - 1)] ELSE f[k - 1][a]) =
                        IF a \in d..(d + k - 1) THEN m[s + (a - d)] ELSE m[a]
    <3> TAKE a \in Addr
    <3>1. f[k - 1][a] = IF a \in d..(d + (k - 1) - 1) THEN m[s + (a - d)] ELSE m[a]
      BY <2>1 DEF Copied
    <3>2. CASE a = d + (k - 1)
      BY <3>2, MemoryIs
    <3>3. CASE a # d + (k - 1)
      <4>1. a \in d..(d + k - 1) <=> a \in d..(d + (k - 1) - 1)
        BY <3>3, MemoryIs
      <4> QED
        BY <3>1, <3>3, <4>1
    <3> QED
      BY <3>2, <3>3
  <2> QED
    BY <2>1, <2>6, <2>7 DEF Copied
<1>6. \A k \in 0..n : k \in S
  <2> HIDE DEF S
  <2> QED
    BY <1>4, <1>5, CountUp
<1>7. n \in 0..n
  OBVIOUS
<1> QED
  BY <1>3, <1>6, <1>7 DEF order

LEMMA CopyDown ==
  ASSUME NEW m \in Memory, NEW d \in Addr, NEW s \in Addr, NEW n \in Nat, Room(d, n), Room(s, n),
         d > s
  PROVE  CopyCells(m, d, s, Downto(n)) = Copied(m, d, s, n)
<1> DEFINE order == Downto(n)
<1>1. Len(order) = n /\ \A k \in 1..n : order[k] = n - k
  BY DEF Downto
<1> HIDE DEF order
<1>2. \A k \in 1..n : d + order[k] \in Addr /\ s + order[k] \in Addr
  BY <1>1, MemoryIs DEF Room
<1>3. PICK f \in [0..n -> Memory] :
        /\ f[0] = m /\ CopyCells(m, d, s, order) = f[n]
        /\ \A k \in 1..n : f[k] = [f[k - 1] EXCEPT ![d + order[k]] = f[k - 1][s + order[k]]]
  <2>1. \E f \in [0..n -> Memory] : CopyTurn(f, m, d, s, order, n)
    BY <1>1, <1>2, CopyTurns
  <2> QED
    BY <2>1 DEF CopyTurn
<1> DEFINE From(k) == [a \in Addr |-> IF a \in (d + n - k)..(d + n - 1) THEN m[s + (a - d)] ELSE m[a]]
           S == {k \in 0..n : f[k] = From(k)}
<1>4. 0 \in S
  BY <1>3, MemoryIs DEF Memory
<1>5. ASSUME NEW k \in 1..n, k - 1 \in S PROVE k \in S
  <2>1. f[k - 1] = From(k - 1) /\ k \in 0..n
    BY <1>5
  <2>2. f[k] = [f[k - 1] EXCEPT ![d + (n - k)] = f[k - 1][s + (n - k)]]
    BY <1>1, <1>3
  <2>3. s + (n - k) \in Addr /\ d + (n - k) \in Addr
    BY <1>1, <1>2
  <2>4. s + (n - k) \notin (d + n - (k - 1))..(d + n - 1)
    BY MemoryIs
  <2>5. f[k - 1][s + (n - k)] = m[s + (n - k)]
    BY <2>1, <2>3, <2>4
  <2>6. f[k] = [a \in Addr |-> IF a = d + (n - k) THEN m[s + (n - k)] ELSE f[k - 1][a]]
    BY <2>1, <2>2, <2>3, <2>5
  <2>7. \A a \in Addr : (IF a = d + (n - k) THEN m[s + (n - k)] ELSE f[k - 1][a]) =
                        IF a \in (d + n - k)..(d + n - 1) THEN m[s + (a - d)] ELSE m[a]
    <3> TAKE a \in Addr
    <3>1. f[k - 1][a] = IF a \in (d + n - (k - 1))..(d + n - 1) THEN m[s + (a - d)] ELSE m[a]
      BY <2>1
    <3>2. CASE a = d + (n - k)
      BY <3>2, MemoryIs
    <3>3. CASE a # d + (n - k)
      <4>1. a \in (d + n - k)..(d + n - 1) <=> a \in (d + n - (k - 1))..(d + n - 1)
        BY <3>3, MemoryIs
      <4> QED
        BY <3>1, <3>3, <4>1
    <3> QED
      BY <3>2, <3>3
  <2> QED
    BY <2>1, <2>6, <2>7
<1>6. \A k \in 0..n : k \in S
  <2> HIDE DEF S
  <2> QED
    BY <1>4, <1>5, CountUp
<1>7. n \in 0..n
  OBVIOUS
<1>8. From(n) = Copied(m, d, s, n)
  BY MemoryIs DEF Copied
<1> QED
  BY <1>3, <1>6, <1>7, <1>8 DEF order


\* n bytes at d set to c.
Filled(m, d, c, n) == [a \in Addr |-> IF a \in d..(d + n - 1) THEN c ELSE m[a]]

LEMMA FillResult ==
  ASSUME NEW m \in Memory, NEW d \in Nat, NEW c \in Bytes, NEW n \in Nat, d + n <= Size
  PROVE  memset(m, d, c, n) = Filled(m, d, c, n)
<1> DEFINE Turn(k, mm) == [mm EXCEPT ![d + k - 1] = c % 256]
           F(f)  == [k \in 0..n |-> IF k = 0 THEN m ELSE Turn(k, f[k - 1])]
           turn  == CHOOSE f : f = F(f)
           G     == [k \in 0..n |-> [mm \in Memory |-> IF k = 0 THEN mm ELSE Turn(k, mm)]]
<1>c. c % 256 = c
  BY MemoryIs
<1>1. memset(m, d, c, n) = turn[n]
  BY DEF memset
<1>2. \A k \in 1..n, mm \in Memory : Turn(k, mm) \in Memory
  BY <1>c DEF Memory
<1>n. 0 \in Nat /\ 0 <= n
  OBVIOUS
<1> HIDE DEF Turn
<1>3. G \in [0..n -> [Memory -> Memory]]
  BY <1>2
<1>4. \A k \in 1..n, mm \in Memory : G[k][mm] = Turn(k, mm)
  OBVIOUS
<1> HIDE DEF G
<1>5. PICK f : Loops(f, Memory, 0, n, m, G)
  BY <1>n, <1>3, LoopIsFunction, Zenon
<1>6. f \in [0..n -> Memory] /\ f[0] = m /\ \A k \in 1..n : f[k] = Turn(k, f[k - 1])
  BY <1>n, <1>4, <1>5 DEF Loops
<1>7. f = F(f)
  BY <1>6
<1>8. turn = F(turn)
  <2> HIDE DEF F
  <2> QED
    BY <1>7, Zenon
<1> HIDE DEF turn
<1>9. turn[0] = m /\ \A k \in 1..n : turn[k] = Turn(k, turn[k - 1])
  <2>1. \A k \in 0..n : F(turn)[k] = IF k = 0 THEN m ELSE Turn(k, turn[k - 1])
    OBVIOUS
  <2> HIDE DEF F
  <2> QED
    BY <1>8, <2>1
<1> DEFINE S == {k \in 0..n : turn[k] = Filled(m, d, c, k)}
<1>10. 0 \in S
  BY <1>9, MemoryIs DEF Filled, Memory
<1>11. ASSUME NEW k \in 1..n, k - 1 \in S PROVE k \in S
  <2>1. turn[k - 1] = Filled(m, d, c, k - 1) /\ k \in 0..n
    BY <1>11
  <2>2. turn[k] = [turn[k - 1] EXCEPT ![d + k - 1] = c]
    BY <1>c, <1>9 DEF Turn
  <2>3. turn[k] = [a \in Addr |-> IF a = d + k - 1 THEN c ELSE turn[k - 1][a]]
    BY <2>1, <2>2 DEF Filled
  <2>4. \A a \in Addr : (IF a = d + k - 1 THEN c ELSE turn[k - 1][a]) =
                        IF a \in d..(d + k - 1) THEN c ELSE m[a]
    <3> TAKE a \in Addr
    <3>1. turn[k - 1][a] = IF a \in d..(d + (k - 1) - 1) THEN c ELSE m[a]
      BY <2>1 DEF Filled
    <3>2. CASE a = d + k - 1
      BY <3>2, MemoryIs
    <3>3. CASE a # d + k - 1
      <4>1. a \in d..(d + k - 1) <=> a \in d..(d + (k - 1) - 1)
        BY <3>3, MemoryIs
      <4> QED
        BY <3>1, <3>3, <4>1
    <3> QED
      BY <3>2, <3>3
  <2> QED
    BY <2>1, <2>3, <2>4 DEF Filled
<1>12. \A k \in 0..n : k \in S
  <2> HIDE DEF S
  <2> QED
    BY <1>10, <1>11, CountUp
<1>13. n \in 0..n
  OBVIOUS
<1> QED
  BY <1>1, <1>12, <1>13

-----------------------------------------------------------------------------
(* Strings.                                                                *)

\* The least and the greatest of a finite set of numbers.
LEMMA LeastOf ==
  ASSUME NEW S \in SUBSET Nat, S # {}
  PROVE  Min(S) \in S /\ \A x \in S : Min(S) <= x
BY Least DEF Min

LEMMA GreatestOf ==
  ASSUME NEW n \in Nat, NEW S \in SUBSET (0..n), S # {}
  PROVE  Max(S) \in S /\ \A x \in S : x <= Max(S)
<1> DEFINE T == {n - x : x \in S}
<1>1. T \in SUBSET Nat /\ T # {}
  <2>1. PICK x \in S : x \in 0..n
    OBVIOUS
  <2>2. n - x \in T
    BY <2>1
  <2>3. \A y \in T : y \in Nat
    OBVIOUS
  <2> QED
    BY <2>2, <2>3
<1>2. PICK y \in T : \A z \in T : y <= z
  <2> HIDE DEF T
  <2> QED
    BY <1>1, Least
<1>3. PICK x \in S : y = n - x
  OBVIOUS
<1>4. \A z \in S : z <= x
  <2> TAKE z \in S
  <2>1. n - z \in T
    OBVIOUS
  <2>2. y <= n - z
    BY <1>2, <2>1
  <2> QED
    BY <1>3, <2>2
<1> QED
  BY <1>3, <1>4 DEF Max

LEMMA ElementOf ==
  ASSUME NEW x \in Nat, NEW y \in Nat
  PROVE  Min({x, y}) = IF x <= y THEN x ELSE y
<1>1. Min({x, y}) \in {x, y} /\ \A z \in {x, y} : Min({x, y}) <= z
  BY LeastOf
<1> QED
  BY <1>1

\* What the model takes for the end of the memory.
LEMMA Spread == ASSUME mem \in Memory PROVE Cardinality(DOMAIN mem) = Size
<1>1. DOMAIN mem = 0..(Size - 1) /\ 0 \in Int /\ Size - 1 \in Int
  BY MemoryIs DEF Memory, Addr
<1>2. Cardinality(0..(Size - 1)) = IF 0 > Size - 1 THEN 0 ELSE (Size - 1) - 0 + 1
  BY <1>1, FS_Interval, Zenon
<1> QED
  BY <1>1, <1>2, MemoryIs

\* The length of a terminated string.
LEMMA Length ==
  ASSUME mem \in Memory, NEW s \in Addr, Terminated(s)
  PROVE  /\ strlen(mem, s) \in Nat /\ s + strlen(mem, s) \in Addr
         /\ mem[s + strlen(mem, s)] = 0
         /\ \A i \in Nat : i < strlen(mem, s) => s + i \in Addr /\ mem[s + i] # 0
<1> DEFINE Z == {i \in 0..(Cardinality(DOMAIN mem) - 1 - s) : mem[s + i] = 0}
<1>1. Cardinality(DOMAIN mem) = Size
  BY Spread
<1>2. Z = {i \in 0..(Size - 1 - s) : mem[s + i] = 0}
  BY <1>1
<1>3. Z \in SUBSET Nat /\ Z # {}
  <2>1. PICK i \in s..(Size - 1) : mem[i] = 0
    BY DEF Terminated
  <2>2. i - s \in 0..(Size - 1 - s) /\ s + (i - s) = i
    BY <2>1, MemoryIs
  <2>3. i - s \in Z
    BY <1>2, <2>1, <2>2
  <2> QED
    BY <1>2, <2>3
<1>4. strlen(mem, s) = Min(Z)
  BY DEF strlen
<1> HIDE DEF Z
<1>5. strlen(mem, s) \in Z /\ \A x \in Z : strlen(mem, s) <= x
  BY <1>3, <1>4, LeastOf
<1>6. strlen(mem, s) \in 0..(Size - 1 - s) /\ mem[s + strlen(mem, s)] = 0
  BY <1>2, <1>5
<1>7. ASSUME NEW i \in Nat, i < strlen(mem, s) PROVE s + i \in Addr /\ mem[s + i] # 0
  <2>1. i \in 0..(Size - 1 - s) /\ s + i < Size
    BY <1>6, <1>7, MemoryIs
  <2>2. i \notin Z
    BY <1>5, <1>6, <1>7
  <2> QED
    BY <1>2, <2>1, <2>2, MemoryIs
<1> QED
  BY <1>6, <1>7, MemoryIs

-----------------------------------------------------------------------------
(* Copies.                                                                 *)
TypeOK == mem \in Memory

\* The memory a call leaves, cell by cell, and the record of the call.
Exact(c, m) ==
  \A a \in Addr : m[a] = IF a \in c.d..(c.d + c.n - 1) THEN Source(c, a - c.d) ELSE c.before[a]

LEMMA CopiedType ==
  ASSUME NEW m \in Memory, NEW d \in Addr, NEW s \in Addr, NEW n \in Nat, Room(s, n)
  PROVE  Copied(m, d, s, n) \in Memory
<1>1. ASSUME NEW a \in Addr, a \in d..(d + n - 1) PROVE s + (a - d) \in Addr
  BY <1>1, MemoryIs DEF Room
<1> QED
  BY <1>1 DEF Memory, Copied

LEMMA CopiedIsExact ==
  ASSUME mem \in Memory, NEW d \in Addr, NEW s \in Addr, NEW n \in Nat, Room(d, n), Room(s, n),
         NEW fn \in {"memcpy", "memmove"},
         Writes(fn, d, s, n, Copied(mem, d, s, n))
  PROVE  mem' \in Memory /\ CopiesAreExact'
<1> DEFINE c == [fn |-> fn, d |-> d, s |-> s, n |-> n, before |-> mem]
<1>1. mem' = Copied(mem, d, s, n) /\ call' = c
  BY DEF Writes
<1>2. \A k : Source(c, k) = mem[s + k]
  BY DEF Source
<1>3. Exact(c, Copied(mem, d, s, n))
  BY <1>2 DEF Exact, Copied
<1>4. Copied(mem, d, s, n) \in Memory
  BY CopiedType
<1> QED
  BY <1>1, <1>3, <1>4 DEF CopiesAreExact, Exact

LEMMA CopyCalls ==
  ASSUME mem \in Memory, NEW d \in Addr, NEW s \in Addr, NEW n \in 0..Size, Room(d, n), Room(s, n)
  PROVE  /\ memmove(mem, d, s, n) = Copied(mem, d, s, n)
         /\ Apart(d, s, n) => memcpy(mem, d, s, n) = Copied(mem, d, s, n)
<1>1. n \in Nat
  BY MemoryIs
<1>2. CASE d < s
  BY <1>1, <1>2, CopyUp DEF memmove, memcpy
<1>3. CASE d > s
  <2>1. ~(d < s)
    BY <1>3, MemoryIs
  <2>2. memmove(mem, d, s, n) = Copied(mem, d, s, n)
    BY <1>1, <1>3, <2>1, CopyDown DEF memmove
  <2> QED
    BY <1>1, <2>2, CopyUp DEF memcpy
<1>4. CASE d = s
  <2>1. memmove(mem, d, s, n) = mem
    BY <1>4, MemoryIs DEF memmove
  <2>2. \A a \in Addr : a \in d..(d + n - 1) => s + (a - d) = a
    BY <1>4, MemoryIs
  <2>3. Copied(mem, d, s, n) = mem
    BY <2>2 DEF Copied, Memory
  <2> QED
    BY <1>1, <2>1, <2>3, CopyUp DEF memcpy
<1> QED
  BY <1>2, <1>3, <1>4, MemoryIs

LEMMA FillCall ==
  ASSUME mem \in Memory, NEW d \in Addr, NEW c \in Bytes, NEW n \in 0..Size, Room(d, n),
         Writes("memset", d, c, n, memset(mem, d, c, n))
  PROVE  mem' \in Memory /\ CopiesAreExact'
<1> DEFINE r == [fn |-> "memset", d |-> d, s |-> c, n |-> n, before |-> mem]
<1>1. mem' = Filled(mem, d, c, n) /\ call' = r
  BY FillResult, MemoryIs DEF Writes, Room
<1>2. \A k : Source(r, k) = c
  BY DEF Source
<1>3. Exact(r, Filled(mem, d, c, n))
  BY <1>2 DEF Exact, Filled
<1>4. Filled(mem, d, c, n) \in Memory
  BY DEF Filled, Memory
<1> QED
  BY <1>1, <1>3, <1>4 DEF CopiesAreExact, Exact

\* strncpy: the bytes before the terminator, then zeros up to the bound.
LEMMA StrncpyCall ==
  ASSUME mem \in Memory, NEW d \in Addr, NEW s \in Addr, NEW n \in 0..Size, Room(d, n), Room(s, n),
         Apart(d, s, n), Terminated(s), Writes("strncpy", d, s, n, strncpy(mem, d, s, n))
  PROVE  mem' \in Memory /\ CopiesAreExact'
<1> DEFINE r == [fn |-> "strncpy", d |-> d, s |-> s, n |-> n, before |-> mem]
           k == Min({n, strlen(mem, s)})
           first == Copied(mem, d, s, k)
           out   == Filled(first, d + k, 0, n - k)
<1>1. /\ strlen(mem, s) \in Nat /\ mem[s + strlen(mem, s)] = 0
      /\ \A i \in Nat : i < strlen(mem, s) => mem[s + i] # 0
  BY Length
<1>2. k \in Nat /\ k <= n /\ k <= strlen(mem, s) /\ (k = n \/ k = strlen(mem, s)) /\ n \in Nat
  BY <1>1, ElementOf, MemoryIs
<1>3. call' = r /\ mem' = memset(CopyCells(mem, d, s, Upto(k)), d + k, 0, n - k)
  BY DEF Writes, strncpy
<1> HIDE DEF k
<1>4. Room(d, k) /\ Room(s, k) /\ Apart(d, s, k)
  BY <1>2, MemoryIs DEF Room, Apart
<1>5. CopyCells(mem, d, s, Upto(k)) = first
  BY <1>2, <1>4, CopyUp
<1>6. first \in Memory
  BY <1>2, <1>4, CopiedType
<1>7. mem' = out
  <2>1. d + k \in Nat /\ n - k \in Nat /\ d + k + (n - k) <= Size /\ 0 \in Bytes
    BY <1>2, MemoryIs DEF Room
  <2> HIDE DEF first
  <2> QED
    BY <1>3, <1>5, <1>6, <2>1, FillResult
<1>8. out \in Memory
  <2>1. 0 \in Bytes
    BY MemoryIs
  <2> HIDE DEF first
  <2> QED
    BY <1>6, <2>1 DEF Filled, Memory
<1>9. ASSUME NEW a \in Addr PROVE out[a] = IF a \in d..(d + n - 1) THEN Source(r, a - d) ELSE mem[a]
  <2>1. out[a] = IF a \in (d + k)..(d + k + (n - k) - 1) THEN 0
                 ELSE IF a \in d..(d + k - 1) THEN mem[s + (a - d)] ELSE mem[a]
    BY DEF Filled, Copied
  <2>2. CASE a \in d..(d + k - 1)
    <3>1. out[a] = mem[s + (a - d)] /\ a \in d..(d + n - 1)
      BY <1>2, <2>1, <2>2, MemoryIs
    <3>2. \A i \in 0..((a - d) - 1) : mem[s + i] # 0
      BY <1>1, <1>2, <2>2, MemoryIs
    <3>3. Source(r, a - d) = mem[s + (a - d)]
      BY <3>2 DEF Source
    <3> QED
      BY <3>1, <3>3
  <2>3. CASE a \in (d + k)..(d + n - 1)
    <3>1. out[a] = 0 /\ a \in d..(d + n - 1)
      BY <1>2, <2>1, <2>3, MemoryIs
    <3>2. k = strlen(mem, s) /\ strlen(mem, s) <= a - d
      BY <1>2, <2>3, MemoryIs
    <3>3. CASE strlen(mem, s) = a - d
      <4>1. \A i \in 0..((a - d) - 1) : mem[s + i] # 0
        BY <1>1, <3>3
      <4>2. Source(r, a - d) = mem[s + (a - d)]
        BY <4>1 DEF Source
      <4> QED
        BY <1>1, <3>1, <3>3, <4>2
    <3>4. CASE strlen(mem, s) # a - d
      <4>1. strlen(mem, s) \in 0..((a - d) - 1)
        BY <1>1, <3>2, <3>4, MemoryIs
      <4>2. Source(r, a - d) = 0
        BY <1>1, <4>1 DEF Source
      <4> QED
        BY <3>1, <4>2
    <3> QED
      BY <3>3, <3>4
  <2>4. CASE a \notin d..(d + n - 1)
    BY <1>2, <2>1, <2>4, MemoryIs
  <2> QED
    BY <1>2, <2>2, <2>3, <2>4, MemoryIs
<1> HIDE DEF out
<1>10. Exact(r, out)
  BY <1>9 DEF Exact
<1> QED
  BY <1>3, <1>7, <1>8, <1>10 DEF CopiesAreExact, Exact

\* strcpy: the string with its terminator.
LEMMA StrcpyCall ==
  ASSUME mem \in Memory, NEW d \in Addr, NEW s \in Addr, Terminated(s),
         Room(d, strlen(mem, s) + 1), Apart(d, s, strlen(mem, s) + 1),
         Writes("strcpy", d, s, strlen(mem, s) + 1, strcpy(mem, d, s))
  PROVE  mem' \in Memory /\ CopiesAreExact'
<1> DEFINE k == strlen(mem, s)
           r == [fn |-> "strcpy", d |-> d, s |-> s, n |-> k + 1, before |-> mem]
           first == Copied(mem, d, s, k)
<1>1. k \in Nat /\ s + k \in Addr /\ mem[s + k] = 0
  BY Length
<1>2. call' = r /\ mem' = [CopyCells(mem, d, s, Upto(k)) EXCEPT ![d + k] = 0]
  BY DEF Writes, strcpy
<1>3. d + (k + 1) <= Size /\ Apart(d, s, k + 1)
  BY DEF Room
<1> HIDE DEF k
<1>4. Room(d, k) /\ Room(s, k) /\ Apart(d, s, k) /\ d + k \in Addr
  BY <1>1, <1>3, MemoryIs DEF Room, Apart
<1>5. CopyCells(mem, d, s, Upto(k)) = first
  BY <1>1, <1>4, CopyUp
<1>6. first \in Memory
  BY <1>1, <1>4, CopiedType
<1>7. mem' \in Memory /\ \A a \in Addr : mem'[a] = IF a = d + k THEN 0 ELSE first[a]
  <2>1. 0 \in Bytes
    BY MemoryIs
  <2> HIDE DEF first
  <2> QED
    BY <1>2, <1>4, <1>5, <1>6, <2>1 DEF Memory
<1>8. \A i : Source(r, i) = mem[s + i]
  BY DEF Source
<1>9. ASSUME NEW a \in Addr PROVE mem'[a] = IF a \in d..(d + (k + 1) - 1) THEN Source(r, a - d) ELSE mem[a]
  <2>1. first[a] = IF a \in d..(d + k - 1) THEN mem[s + (a - d)] ELSE mem[a]
    BY DEF Copied
  <2>2. CASE a = d + k
    <3>1. a - d = k /\ a \in d..(d + (k + 1) - 1)
      BY <1>1, <2>2, MemoryIs
    <3> QED
      BY <1>1, <1>7, <1>8, <2>2, <3>1
  <2>3. CASE a # d + k
    <3>1. a \in d..(d + (k + 1) - 1) <=> a \in d..(d + k - 1)
      BY <1>1, <2>3, MemoryIs
    <3> QED
      BY <1>7, <1>8, <2>1, <2>3, <3>1
  <2> QED
    BY <2>2, <2>3
<1>10. Exact(r, mem')
  BY <1>9 DEF Exact
<1> QED
  BY <1>2, <1>7, <1>10 DEF CopiesAreExact, Exact

-----------------------------------------------------------------------------
(* Comparisons.                                                            *)

\* A pointer that may be compared with for n bytes.
Readable(p, n) == Terminated(p) \/ Room(p, n)

\* A comparison does not leave the memory before it stops.
LEMMA StaysInside ==
  ASSUME mem \in Memory, NEW p \in Addr, NEW n \in Nat, Readable(p, n),
         NEW i \in 0..(n - 1), \A j \in 0..(i - 1) : mem[p + j] # 0
  PROVE  \A j \in 0..i : p + j \in Addr
<1>1. CASE Terminated(p)
  <2> DEFINE t == strlen(mem, p)
  <2>1. t \in Nat /\ p + t \in Addr /\ mem[p + t] = 0
    BY <1>1, Length
  <2> HIDE DEF t
  <2>2. i <= t
    BY <2>1
  <2> QED
    BY <2>1, <2>2, MemoryIs
<1>2. CASE Room(p, n)
  BY <1>2, MemoryIs DEF Room
<1> QED
  BY <1>1, <1>2 DEF Readable

\* Where a comparison of strings stops is their first difference, or there is none.
LEMMA StopIsFirst ==
  ASSUME mem \in Memory, NEW c, c.fn # "memcmp", c.a \in Addr, c.b \in Addr, c.n \in Nat,
         Readable(c.a, c.n), Readable(c.b, c.n), NEW i \in Stops(mem, c.a, c.b, c.n)
  PROVE  IF mem[c.a + i] = mem[c.b + i] THEN Differ(c) = {}
         ELSE Differ(c) # {} /\ Min(Differ(c)) = i
<1> DEFINE a == c.a
           b == c.b
           n == c.n
<1>1. /\ i \in 0..(n - 1) /\ \A j \in 0..(i - 1) : mem[a + j] = mem[b + j] /\ mem[a + j] # 0
      /\ mem[a + i] # mem[b + i] \/ mem[a + i] = 0
  BY DEF Stops
<1>2. \A j \in 0..i : a + j \in Addr /\ b + j \in Addr
  <2>1. \A j \in 0..(i - 1) : mem[b + j] # 0
    BY <1>1
  <2> QED
    BY <1>1, <2>1, StaysInside
<1>3. \A x \in Differ(c) : /\ x \in 0..(n - 1) /\ mem[a + x] # mem[b + x]
                           /\ \A j \in 0..(x - 1) : mem[a + j] # 0
  BY DEF Differ, Extent
<1>4. \A x \in Differ(c) : x >= i
  BY <1>1, <1>3
<1>5. CASE mem[a + i] = mem[b + i]
  <2>1. ASSUME NEW x \in Differ(c) PROVE FALSE
    <3>1. x # i
      BY <1>3, <1>5
    <3>2. i \in 0..(x - 1)
      BY <1>1, <1>3, <1>4, <3>1
    <3> QED
      BY <1>1, <1>3, <1>5, <3>2
  <2> QED
    BY <1>5, <2>1
<1>6. CASE mem[a + i] # mem[b + i]
  <2>1. i \in Differ(c)
    BY <1>1, <1>2, <1>6 DEF Differ, Extent
  <2>2. Differ(c) \in SUBSET Nat
    BY <1>3
  <2>3. Min(Differ(c)) \in Differ(c) /\ \A x \in Differ(c) : Min(Differ(c)) <= x
    BY <2>1, <2>2, LeastOf
  <2>4. Min(Differ(c)) = i
    <3> DEFINE low == Min(Differ(c))
    <3>1. low \in Differ(c) /\ low <= i
      BY <2>1, <2>3
    <3>2. low \in Nat /\ i \in Nat /\ low >= i
      BY <1>1, <1>4, <2>2, <3>1
    <3> HIDE DEF low
    <3>3. low = i
      BY <3>1, <3>2
    <3> QED
      BY <3>3 DEF low
  <2> QED
    BY <1>6, <2>1, <2>4
<1> QED
  BY <1>5, <1>6

\* A comparison stops at the first difference or at the end of both.
LEMMA ComesToStop ==
  ASSUME NEW a, NEW b, NEW n \in Nat, NEW x \in 0..(n - 1), mem[a + x] # mem[b + x] \/ mem[a + x] = 0
  PROVE  Stops(mem, a, b, n) # {}
<1> DEFINE T == {i \in 0..(n - 1) : mem[a + i] # mem[b + i] \/ mem[a + i] = 0}
<1>1. T \in SUBSET Nat /\ T # {}
  OBVIOUS
<1>2. PICK y \in T : \A z \in T : y <= z
  <2> HIDE DEF T
  <2> QED
    BY <1>1, Least
<1>3. y \in 0..(n - 1) /\ (mem[a + y] # mem[b + y] \/ mem[a + y] = 0)
  OBVIOUS
<1>4. ASSUME NEW j \in 0..(y - 1) PROVE mem[a + j] = mem[b + j] /\ mem[a + j] # 0
  <2>1. j \in 0..(n - 1) /\ ~(y <= j)
    BY <1>3
  <2> QED
    BY <1>2, <2>1
<1>5. y \in Stops(mem, a, b, n)
  BY <1>3, <1>4 DEF Stops
<1> QED
  BY <1>5

\* The answer of strcmp and strncmp has the sign of the first difference.
LEMMA StringOrder ==
  ASSUME mem \in Memory, NEW c, c.fn # "memcmp", c.a \in Addr, c.b \in Addr, c.n \in Nat,
         Readable(c.a, c.n), Readable(c.b, c.n),
         c.value = LET stops == Stops(mem, c.a, c.b, c.n)
                   IN  IF stops = {} THEN 0 ELSE mem[c.a + Min(stops)] - mem[c.b + Min(stops)]
  PROVE  Sign(c.value) = IF Differ(c) = {} THEN 0
                         ELSE LET i == Min(Differ(c)) IN Sign(mem[c.a + i] - mem[c.b + i])
<1> DEFINE stops == Stops(mem, c.a, c.b, c.n)
<1>1. CASE stops = {}
  <2>1. Sign(c.value) = 0
    BY <1>1 DEF Sign
  <2>2. ASSUME NEW x \in Differ(c) PROVE FALSE
    <3>1. x \in 0..(c.n - 1) /\ mem[c.a + x] # mem[c.b + x]
      BY DEF Differ, Extent
    <3> QED
      BY <1>1, <3>1, ComesToStop
  <2> QED
    BY <2>1, <2>2
<1>2. CASE stops # {}
  <2> DEFINE i == Min(stops)
  <2>1. i \in stops
    <3>1. stops \in SUBSET Nat
      BY DEF Stops
    <3> HIDE DEF stops
    <3> QED
      BY <1>2, <3>1, LeastOf
  <2>2. c.value = mem[c.a + i] - mem[c.b + i]
    BY <1>2
  <2> HIDE DEF i, stops
  <2>3. IF mem[c.a + i] = mem[c.b + i] THEN Differ(c) = {} ELSE Differ(c) # {} /\ Min(Differ(c)) = i
    BY <2>1, StopIsFirst DEF stops
  <2>4. CASE mem[c.a + i] = mem[c.b + i]
    <3>1. i \in 0..(c.n - 1) /\ \A j \in 0..(i - 1) : mem[c.a + j] # 0
      BY <2>1 DEF stops, Stops
    <3>2. c.a + i \in Addr
      BY <3>1, StaysInside
    <3>3. mem[c.a + i] \in Int
      BY <3>2, MemoryIs DEF Memory
    <3>4. c.value = 0
      BY <2>2, <2>4, <3>3
    <3> QED
      BY <2>3, <2>4, <3>4 DEF Sign
  <2>5. CASE mem[c.a + i] # mem[c.b + i]
    BY <2>2, <2>3, <2>5
  <2> QED
    BY <2>4, <2>5
<1> QED
  BY <1>1, <1>2

LEMMA CompareCall ==
  ASSUME mem \in Memory, Compares PROVE mem' = mem /\ ComparisonsAreOrder'
<1>1. PICK a \in Addr, b \in Addr, n \in 0..Size :
        \/ Room(a, n) /\ Room(b, n) /\ Answers("memcmp", a, b, n, memcmp(mem, a, b, n))
        \/ /\ Terminated(a) \/ Room(a, n)
           /\ Terminated(b) \/ Room(b, n)
           /\ Answers("strncmp", a, b, n, strncmp(mem, a, b, n))
        \/ Terminated(a) /\ Terminated(b) /\ Answers("strcmp", a, b, Size, strcmp(mem, a, b))
  BY DEF Compares
<1>2. n \in Nat /\ Size \in Nat
  BY MemoryIs
<1>3. CASE Room(a, n) /\ Room(b, n) /\ Answers("memcmp", a, b, n, memcmp(mem, a, b, n))
  <2> DEFINE c == [fn |-> "memcmp", a |-> a, b |-> b, n |-> n, value |-> memcmp(mem, a, b, n)]
             differ == {i \in 0..(n - 1) : mem[a + i] # mem[b + i]}
  <2>1. mem' = mem /\ call' = c
    BY <1>3 DEF Answers
  <2>2. Differ(c) = differ
    <3>1. \A i \in 0..(n - 1) : a + i \in Addr /\ b + i \in Addr
      BY <1>2, <1>3, MemoryIs DEF Room
    <3> QED
      BY <3>1 DEF Differ, Extent
  <2>3. c.value = IF differ = {} THEN 0 ELSE mem[a + Min(differ)] - mem[b + Min(differ)]
    BY DEF memcmp
  <2>4. Sign(0) = 0
    BY DEF Sign
  <2>5. c.a = a /\ c.b = b /\ c.fn = "memcmp"
    OBVIOUS
  <2> HIDE DEF c, differ
  <2>6. Sign(c.value) = IF Differ(c) = {} THEN 0
                        ELSE LET i == Min(Differ(c)) IN Sign(mem[c.a + i] - mem[c.b + i])
    BY <2>2, <2>3, <2>4, <2>5
  <2> QED
    BY <2>1, <2>5, <2>6 DEF ComparisonsAreOrder, Differ, Extent
<1>4. CASE /\ Readable(a, n) /\ Readable(b, n)
           /\ Answers("strncmp", a, b, n, strncmp(mem, a, b, n))
  <2> DEFINE c == [fn |-> "strncmp", a |-> a, b |-> b, n |-> n, value |-> strncmp(mem, a, b, n)]
  <2>1. mem' = mem /\ call' = c
    BY <1>4 DEF Answers
  <2>2. c.fn = "strncmp" /\ c.a = a /\ c.b = b /\ c.n = n /\ c.value = strncmp(mem, a, b, n)
    OBVIOUS
  <2> HIDE DEF c
  <2>3. Sign(c.value) = IF Differ(c) = {} THEN 0
                        ELSE LET i == Min(Differ(c)) IN Sign(mem[c.a + i] - mem[c.b + i])
    <3>1. Readable(c.a, c.n) /\ Readable(c.b, c.n) /\ c.fn # "memcmp"
      BY <1>4, <2>2
    <3> QED
      BY <1>2, <2>2, <3>1, StringOrder DEF strncmp
  <2> QED
    BY <2>1, <2>2, <2>3 DEF ComparisonsAreOrder, Differ, Extent
<1>5. CASE Terminated(a) /\ Terminated(b) /\ Answers("strcmp", a, b, Size, strcmp(mem, a, b))
  <2> DEFINE c == [fn |-> "strcmp", a |-> a, b |-> b, n |-> Size, value |-> strcmp(mem, a, b)]
             stops == Stops(mem, a, b, Size)
  <2>1. mem' = mem /\ call' = c
    BY <1>5 DEF Answers
  <2>2. c.fn = "strcmp" /\ c.a = a /\ c.b = b /\ c.n = Size /\ c.value = strcmp(mem, a, b)
    OBVIOUS
  <2>3. stops # {}
    <3> DEFINE t == strlen(mem, a)
    <3>1. t \in Nat /\ a + t \in Addr /\ mem[a + t] = 0
      BY <1>5, Length
    <3> HIDE DEF t
    <3>2. t \in 0..(Size - 1)
      BY <3>1, MemoryIs
    <3> QED
      BY <1>2, <3>1, <3>2, ComesToStop
  <2>4. c.value = IF stops = {} THEN 0 ELSE mem[a + Min(stops)] - mem[b + Min(stops)]
    BY <2>2, <2>3, Spread DEF strcmp
  <2> HIDE DEF c
  <2>5. Sign(c.value) = IF Differ(c) = {} THEN 0
                        ELSE LET i == Min(Differ(c)) IN Sign(mem[c.a + i] - mem[c.b + i])
    <3>1. Readable(c.a, c.n) /\ Readable(c.b, c.n) /\ c.fn # "memcmp"
      BY <1>5, <2>2 DEF Readable
    <3> QED
      BY <1>2, <2>2, <2>4, <3>1, StringOrder
  <2> QED
    BY <2>1, <2>2, <2>5 DEF ComparisonsAreOrder, Differ, Extent
<1> QED
  BY <1>1, <1>3, <1>4, <1>5 DEF Readable

-----------------------------------------------------------------------------
(* Searches.                                                               *)
LEMMA ShiftedEnds ==
  ASSUME NEW n \in Nat, NEW S \in SUBSET (0..n), S # {}, NEW a \in Nat
  PROVE  LET T == {a + i : i \in S}
         IN  T # {} /\ Min(T) = a + Min(S) /\ Max(T) = a + Max(S)
<1> DEFINE T  == {a + i : i \in S}
           lo == Min(S)
           hi == Max(S)
<1>1. lo \in S /\ \A x \in S : lo <= x
  <2>1. S \in SUBSET Nat
    OBVIOUS
  <2> QED
    BY <2>1, LeastOf
<1>2. hi \in S /\ \A x \in S : x <= hi
  BY GreatestOf
<1> HIDE DEF lo, hi
<1>3. T \in SUBSET (0..(a + n)) /\ a + n \in Nat
  OBVIOUS
<1>4. a + lo \in T /\ a + hi \in T
  BY <1>1, <1>2
<1>5. \A y \in T : a + lo <= y /\ y <= a + hi
  BY <1>1, <1>2
<1>6. lo \in Nat /\ hi \in Nat
  BY <1>1, <1>2
<1> HIDE DEF T
<1>7. T \in SUBSET Nat /\ T # {}
  BY <1>3, <1>4
<1>8. Min(T) = a + lo
  <2> DEFINE low == Min(T)
  <2>1. low \in T /\ low <= a + lo
    BY <1>4, <1>7, LeastOf
  <2> HIDE DEF low
  <2>2. low \in Nat /\ a + lo <= low
    BY <1>5, <1>7, <2>1
  <2>3. low = a + lo
    BY <1>6, <2>1, <2>2
  <2> QED
    BY <2>3 DEF low
<1>9. Max(T) = a + hi
  <2> DEFINE high == Max(T)
  <2>1. high \in T /\ a + hi <= high
    BY <1>3, <1>4, <1>7, GreatestOf
  <2> HIDE DEF high
  <2>2. high \in Nat /\ high <= a + hi
    BY <1>5, <1>7, <2>1
  <2>3. high = a + hi
    BY <1>6, <2>1, <2>2
  <2> QED
    BY <2>3 DEF high
<1> QED
  BY <1>7, <1>8, <1>9 DEF T, lo, hi

\* Where a search may answer.
Places(r) == {r.a + i : i \in {j \in Extent(r, r.a) : mem[r.a + j] = r.b}}

LEMMA SearchCall ==
  ASSUME mem \in Memory, Searches PROVE mem' = mem /\ ComparisonsAreOrder'
<1>1. PICK a \in Addr, c \in Bytes :
        /\ Terminated(a)
        /\ \/ Answers("strchr", a, c, Size, strchr(mem, a, c))
           \/ Answers("strrchr", a, c, Size, strrchr(mem, a, c))
  BY DEF Searches
<1> DEFINE t == strlen(mem, a)
           found == {i \in 0..t : mem[a + i] = c}
<1>2. /\ t \in Nat /\ a + t \in Addr /\ mem[a + t] = 0
      /\ \A i \in Nat : i < t => a + i \in Addr /\ mem[a + i] # 0
  BY <1>1, Length
<1>3. Occurrences(mem, a, c) = found
  <2>1. c % 256 = c
    BY MemoryIs
  <2> QED
    BY <2>1 DEF Occurrences
<1> HIDE DEF t
<1>4. ASSUME NEW r, r.fn \in {"strchr", "strrchr"}, r.a = a, r.n = Size
      PROVE  Extent(r, r.a) = 0..t
  <2>1. ASSUME NEW i \in Extent(r, r.a) PROVE i \in 0..t
    <3>1. i \in 0..(Size - 1) /\ \A j \in 0..(i - 1) : mem[a + j] # 0
      BY <1>4 DEF Extent
    <3>2. t \notin 0..(i - 1)
      BY <1>2, <3>1
    <3> QED
      BY <1>2, <3>1, <3>2, MemoryIs
  <2>2. ASSUME NEW i \in 0..t PROVE i \in Extent(r, r.a)
    <3>1. a + i \in Addr /\ \A j \in 0..(i - 1) : mem[a + j] # 0
      BY <1>2
    <3>2. i \in 0..(Size - 1)
      BY <3>1, MemoryIs
    <3> QED
      BY <1>4, <3>1, <3>2 DEF Extent
  <2> QED
    BY <2>1, <2>2
<1>5. ASSUME NEW r, r.fn \in {"strchr", "strrchr"}, r.a = a, r.n = Size, r.b = c
      PROVE  /\ Places(r) = {} <=> found = {}
             /\ found # {} => Min(Places(r)) = a + Min(found) /\ Max(Places(r)) = a + Max(found)
  <2>1. Places(r) = {a + i : i \in found}
    <3>1. Extent(r, r.a) = 0..t
      BY <1>4, <1>5
    <3> QED
      BY <1>5, <3>1 DEF Places
  <2> HIDE DEF found
  <2>2. found \in SUBSET (0..t)
    BY DEF found
  <2>3. a \in Nat
    BY MemoryIs
  <2>4. found # {} => {a + i : i \in found} # {} /\ Min({a + i : i \in found}) = a + Min(found)
                      /\ Max({a + i : i \in found}) = a + Max(found)
    BY <1>2, <2>2, <2>3, ShiftedEnds
  <2>5. found = {} => {a + i : i \in found} = {}
    OBVIOUS
  <2> QED
    BY <2>1, <2>4, <2>5
<1>6. CASE Answers("strchr", a, c, Size, strchr(mem, a, c))
  <2> DEFINE r == [fn |-> "strchr", a |-> a, b |-> c, n |-> Size, value |-> strchr(mem, a, c)]
  <2>1. mem' = mem /\ call' = r
    BY <1>6 DEF Answers
  <2>2. r.fn = "strchr" /\ r.a = a /\ r.n = Size /\ r.b = c
    OBVIOUS
  <2>3. r.value = IF found = {} THEN NULL ELSE a + Min(found)
    BY <1>3 DEF strchr
  <2> HIDE DEF r, found
  <2>4. Places(r) = {} <=> found = {}
    BY <1>5, <2>2
  <2>5. found # {} => Min(Places(r)) = a + Min(found)
    BY <1>5, <2>2
  <2>6. IF Places(r) = {} THEN r.value = NULL ELSE r.value = Min(Places(r))
    BY <2>3, <2>4, <2>5
  <2> QED
    BY <2>1, <2>2, <2>6 DEF ComparisonsAreOrder, Places, Extent
<1>7. CASE Answers("strrchr", a, c, Size, strrchr(mem, a, c))
  <2> DEFINE r == [fn |-> "strrchr", a |-> a, b |-> c, n |-> Size, value |-> strrchr(mem, a, c)]
  <2>1. mem' = mem /\ call' = r
    BY <1>7 DEF Answers
  <2>2. r.fn = "strrchr" /\ r.a = a /\ r.n = Size /\ r.b = c
    OBVIOUS
  <2>3. r.value = IF found = {} THEN NULL ELSE a + Max(found)
    BY <1>3 DEF strrchr
  <2> HIDE DEF r, found
  <2>4. Places(r) = {} <=> found = {}
    BY <1>5, <2>2
  <2>5. found # {} => Max(Places(r)) = a + Max(found)
    BY <1>5, <2>2
  <2>6. IF Places(r) = {} THEN r.value = NULL ELSE r.value = Max(Places(r))
    BY <2>3, <2>4, <2>5
  <2> QED
    BY <2>1, <2>2, <2>6 DEF ComparisonsAreOrder, Places, Extent
<1> QED
  BY <1>1, <1>6, <1>7

-----------------------------------------------------------------------------
(* Digits.                                                                 *)
Sixteen == {"0","1","2","3","4","5","6","7","8","9","a","b","c","d","e","f"}

LEMMA DigitList ==
  /\ \A i \in 1..16 : Digits[i] \in Sixteen
  /\ Digits[1] = "0" /\ \A i \in 1..16 : Digits[i] = "0" => i = 1
<1>1. ASSUME NEW i \in 1..16
      PROVE  Digits[i] \in Sixteen /\ (Digits[i] = "0" => i = 1)
  <2>1. i \in 1..4 \/ i \in 5..8 \/ i \in 9..12 \/ i \in 13..16
    OBVIOUS
  <2>2. CASE i \in 1..4
    BY <2>2 DEF Digits, Sixteen
  <2>3. CASE i \in 5..8
    BY <2>3 DEF Digits, Sixteen
  <2>4. CASE i \in 9..12
    BY <2>4 DEF Digits, Sixteen
  <2>5. CASE i \in 13..16
    BY <2>5 DEF Digits, Sixteen
  <2> QED
    BY <2>1, <2>2, <2>3, <2>4, <2>5
<1> QED
  BY <1>1 DEF Digits

\* A digit is below its base; blanks, signs and the terminator are none.
LEMMA DigitType ==
  ASSUME NEW c, NEW base \in Nat
  PROVE  /\ digit_of(c, base) \in Int /\ digit_of(c, base) < base
         /\ digit_of(c, base) >= 0 => c \in Sixteen \cup {"x", "z"}
<1> DEFINE listed == \E i \in 1..16 : Digits[i] = c
           v == IF listed THEN (CHOOSE i \in 1..16 : Digits[i] = c) - 1
                ELSE IF c \in DOMAIN Letters THEN Letters[c] ELSE base
<1>1. digit_of(c, base) = IF v < base THEN v ELSE -1
  BY DEF digit_of
<1>2. DOMAIN Letters = {"x", "z"} /\ Letters["x"] = 33 /\ Letters["z"] = 35
  BY DEF Letters
<1>3. CASE listed
  <2>1. (CHOOSE i \in 1..16 : Digits[i] = c) \in 1..16 /\ c \in Sixteen
    BY <1>3, DigitList
  <2>2. v = (CHOOSE i \in 1..16 : Digits[i] = c) - 1
    BY <1>3
  <2> HIDE DEF v
  <2> QED
    BY <1>1, <2>1, <2>2
<1>4. CASE ~listed /\ c \in DOMAIN Letters
  <2>1. v \in {33, 35} /\ c \in {"x", "z"}
    BY <1>2, <1>4
  <2> HIDE DEF v
  <2> QED
    BY <1>1, <2>1
<1>5. CASE ~listed /\ c \notin DOMAIN Letters
  <2>1. v = base
    BY <1>5
  <2> HIDE DEF v
  <2> QED
    BY <1>1, <2>1
<1> QED
  BY <1>3, <1>4, <1>5

LEMMA NoDigits ==
  ASSUME NEW c, NEW base \in Nat, digit_of(c, base) >= 0
  PROVE  c \notin White /\ c \notin {"+", "-"} /\ c # "nul"
BY DigitType DEF White, Sixteen

LEMMA ZeroAndX ==
  ASSUME NEW base \in 1..16
  PROVE  digit_of("0", base) = 0 /\ digit_of("x", base) = -1
<1>1. digit_of("0", base) = 0
  <2>1. (CHOOSE i \in 1..16 : Digits[i] = "0") = 1
    BY DigitList
  <2>2. \E i \in 1..16 : Digits[i] = "0"
    BY DigitList
  <2> DEFINE v == IF \E i \in 1..16 : Digits[i] = "0" THEN (CHOOSE i \in 1..16 : Digits[i] = "0") - 1
                  ELSE IF "0" \in DOMAIN Letters THEN Letters["0"] ELSE base
  <2>3. digit_of("0", base) = IF v < base THEN v ELSE -1
    BY DEF digit_of
  <2>4. v = 0
    BY <2>1, <2>2
  <2> HIDE DEF v
  <2> QED
    BY <2>3, <2>4
<1>2. digit_of("x", base) = -1
  <2>1. ~ \E i \in 1..16 : Digits[i] = "x"
    BY DigitList DEF Sixteen
  <2>2. "x" \in DOMAIN Letters /\ Letters["x"] = 33
    BY DEF Letters
  <2> QED
    BY <2>1, <2>2 DEF digit_of
<1> QED
  BY <1>1, <1>2

-----------------------------------------------------------------------------
(* Numerals: their value.                                                  *)

\* The value of a sequence of digits, digit by digit.
ValueTurn(f, ds, base, n) ==
  /\ f[0] = 0 /\ ValueOf(ds, base) = f[n]
  /\ \A k \in 1..n : f[k] = base * f[k - 1] + ds[k]

LEMMA ValueTurns ==
  ASSUME NEW ds, NEW n \in Nat, Len(ds) = n, NEW base \in Nat, \A k \in 1..n : ds[k] \in Nat
  PROVE  \E f \in [0..n -> Nat] : ValueTurn(f, ds, base, n)
<1> DEFINE Turn(k, v) == base * v + ds[k]
           F(f)  == [k \in 0..n |-> IF k = 0 THEN 0 ELSE Turn(k, f[k - 1])]
           upto  == CHOOSE f : f = F(f)
           G     == [k \in 0..n |-> [v \in Nat |-> IF k = 0 THEN v ELSE Turn(k, v)]]
<1>1. ValueOf(ds, base) = upto[n]
  BY DEF ValueOf
<1>2. \A k \in 1..n, v \in Nat : Turn(k, v) \in Nat
  OBVIOUS
<1>n. 0 \in Nat /\ 0 <= n
  OBVIOUS
<1> HIDE DEF Turn
<1>3. G \in [0..n -> [Nat -> Nat]]
  <2>1. \A k \in 0..n, v \in Nat : (IF k = 0 THEN v ELSE Turn(k, v)) \in Nat
    <3> TAKE k \in 0..n, v \in Nat
    <3>1. k # 0 => k \in 1..n
      OBVIOUS
    <3> QED
      BY <1>2, <3>1
  <2> QED
    BY <2>1
<1>4. \A k \in 1..n, v \in Nat : G[k][v] = Turn(k, v)
  OBVIOUS
<1> HIDE DEF G
<1>5. PICK f : Loops(f, Nat, 0, n, 0, G)
  BY <1>n, <1>3, LoopIsFunction, Zenon
<1>6. f \in [0..n -> Nat] /\ f[0] = 0 /\ \A k \in 1..n : f[k] = Turn(k, f[k - 1])
  BY <1>n, <1>4, <1>5 DEF Loops
<1>7. f = F(f)
  BY <1>6
<1>8. upto = F(upto)
  <2> HIDE DEF F
  <2> QED
    BY <1>7, Zenon
<1> HIDE DEF upto
<1>9. upto[0] = 0 /\ \A k \in 1..n : upto[k] = Turn(k, upto[k - 1])
  <2>1. \A k \in 0..n : F(upto)[k] = IF k = 0 THEN 0 ELSE Turn(k, upto[k - 1])
    OBVIOUS
  <2> HIDE DEF F
  <2> QED
    BY <1>8, <2>1
<1>10. \A k \in 0..n : upto[k] \in Nat
  <2>1. ASSUME NEW k \in (0 + 1)..n, upto[k - 1] \in Nat PROVE upto[k] \in Nat
    <3>1. k \in 1..n
      OBVIOUS
    <3>2. upto[k] = Turn(k, upto[k - 1])
      BY <1>9, <3>1
    <3>3. Turn(k, upto[k - 1]) \in Nat
      BY <1>2, <2>1, <3>1
    <3> QED
      BY <3>2, <3>3
  <2> QED
    BY <1>n, <1>9, <2>1, LoopStays
<1>11. upto \in [0..n -> Nat]
  <2>1. \A k \in 0..n : F(upto)[k] = upto[k]
    BY <1>8, Zenon
  <2>2. F(upto) \in [0..n -> Nat]
    BY <1>10, <2>1
  <2> QED
    BY <1>8, <2>2, Zenon
<1> QED
  BY <1>1, <1>9, <1>11 DEF Turn, ValueTurn

\* What parse_mag has after some digits: the value, or that it does not fit.
Sums == [v : Nat, sat : BOOLEAN]
Sum(acc, d, base) ==
  IF acc.sat \/ acc.v > (Long - 1 - d) \div base THEN [acc EXCEPT !.sat = TRUE]
  ELSE [acc EXCEPT !.v = acc.v * base + d]

SumTurn(f, s, i, j, base) ==
  /\ f[0] = [v |-> 0, sat |-> FALSE] /\ Accumulate(s, i, j, base) = f[j - i]
  /\ \A k \in 1..(j - i) : f[k] = Sum(f[k - 1], digit_of(s[i + k - 1], base), base)

LEMMA SumTurns ==
  ASSUME NEW s, NEW i \in Nat, NEW j \in Nat, i <= j, NEW base \in Nat,
         \A k \in 1..(j - i) : digit_of(s[i + k - 1], base) \in Nat
  PROVE  \E f \in [0..(j - i) -> Sums] : SumTurn(f, s, i, j, base)
<1> DEFINE n == j - i
           b == [v |-> 0, sat |-> FALSE]
           Turn(k, acc) == Sum(acc, digit_of(s[i + k - 1], base), base)
           F(f)  == [k \in 0..n |-> IF k = 0 THEN b ELSE Turn(k, f[k - 1])]
           turn  == CHOOSE f : f = F(f)
           G     == [k \in 0..n |-> [acc \in Sums |-> IF k = 0 THEN acc ELSE Turn(k, acc)]]
<1>1. Accumulate(s, i, j, base) = turn[n]
  BY DEF Accumulate, Sum
<1>2. \A k \in 1..n, acc \in Sums : Turn(k, acc) \in Sums
  <2> TAKE k \in 1..n, acc \in Sums
  <2> DEFINE d == digit_of(s[i + k - 1], base)
  <2>1. d \in Nat
    OBVIOUS
  <2> HIDE DEF d
  <2>2. acc.v \in Nat /\ acc.v * base + d \in Nat
    BY <2>1 DEF Sums
  <2>3. Sum(acc, d, base) \in Sums
    BY <2>2 DEF Sum, Sums
  <2> QED
    BY <2>3 DEF d
<1>n. n \in Nat /\ 0 \in Nat /\ 0 <= n /\ b \in Sums
  BY DEF Sums
<1> HIDE DEF Turn, n, b
<1>3. G \in [0..n -> [Sums -> Sums]]
  BY <1>2
<1>4. \A k \in 1..n, acc \in Sums : G[k][acc] = Turn(k, acc)
  OBVIOUS
<1> HIDE DEF G
<1>5. PICK f : Loops(f, Sums, 0, n, b, G)
  BY <1>n, <1>3, LoopIsFunction, Zenon
<1>6. f \in [0..n -> Sums] /\ f[0] = b /\ \A k \in 1..n : f[k] = Turn(k, f[k - 1])
  BY <1>n, <1>4, <1>5 DEF Loops
<1>7. f = F(f)
  BY <1>6
<1>8. turn = F(turn)
  <2> HIDE DEF F
  <2> QED
    BY <1>7, Zenon
<1> HIDE DEF turn
<1>9. turn[0] = b /\ \A k \in 1..n : turn[k] = Turn(k, turn[k - 1])
  <2>1. \A k \in 0..n : F(turn)[k] = IF k = 0 THEN b ELSE Turn(k, turn[k - 1])
    OBVIOUS
  <2> HIDE DEF F
  <2> QED
    BY <1>n, <1>8, <2>1
<1>10. \A k \in 0..n : turn[k] \in Sums
  <2>1. \A k \in (0 + 1)..n : turn[k - 1] \in Sums => turn[k] \in Sums
    BY <1>2, <1>9
  <2> QED
    BY <1>n, <1>9, <2>1, LoopStays
<1>11. turn \in [0..n -> Sums]
  <2>1. \A k \in 0..n : F(turn)[k] = turn[k]
    BY <1>8, Zenon
  <2>2. F(turn) \in [0..n -> Sums]
    BY <1>10, <2>1
  <2> QED
    BY <1>8, <2>2, Zenon
<1> QED
  BY <1>1, <1>9, <1>11 DEF Turn, SumTurn, n, b

\* The test before each digit is exact.
LEMMA WouldPass ==
  ASSUME NEW v \in Nat, NEW d \in Nat, NEW base \in Nat \ {0}, NEW top \in Int
  PROVE  v > (top - d) \div base <=> base * v + d > top
<1> DEFINE q == (top - d) \div base
           r == (top - d) % base
<1>1. q \in Int /\ r \in 0..(base - 1) /\ top - d = base * q + r
  <2>1. top - d \in Int
    OBVIOUS
  <2> QED
    BY <2>1, DivMod
<1> HIDE DEF q, r
<1>2. CASE v > q
  <2>1. v - q - 1 \in Nat
    BY <1>1, <1>2
  <2>2. base * (v - q - 1) >= 0
    BY <2>1
  <2>3. base * (v - q - 1) = base * v - base * q - base
    BY <1>1
  <2> QED
    BY <1>1, <1>2, <2>2, <2>3 DEF q
<1>3. CASE v <= q
  <2>1. q - v \in Nat
    BY <1>1, <1>3
  <2>2. base * (q - v) >= 0
    BY <2>1
  <2>3. base * (q - v) = base * q - base * v
    BY <1>1
  <2> QED
    BY <1>1, <1>3, <2>2, <2>3 DEF q
<1> QED
  BY <1>1, <1>2, <1>3

\* It saturates exactly when the value does not fit into an unsigned long.
LEMMA SumIsValue ==
  ASSUME NEW s, NEW i \in Nat, NEW j \in Nat, i <= j, NEW base \in Nat \ {0},
         \A k \in 1..(j - i) : digit_of(s[i + k - 1], base) \in Nat
  PROVE  LET v   == ValueOf([k \in 1..(j - i) |-> digit_of(s[i + k - 1], base)], base)
             acc == Accumulate(s, i, j, base)
         IN  /\ v \in Nat /\ acc \in Sums
             /\ IF v <= Long - 1 THEN acc = [v |-> v, sat |-> FALSE] ELSE acc.sat
<1> DEFINE n  == j - i
           ds == [k \in 1..n |-> digit_of(s[i + k - 1], base)]
<1>1. n \in Nat /\ Len(ds) = n /\ \A k \in 1..n : ds[k] \in Nat /\ ds[k] = digit_of(s[i + k - 1], base)
  OBVIOUS
<1>2. PICK f \in [0..n -> Sums] : SumTurn(f, s, i, j, base)
  BY SumTurns
<1> HIDE DEF ds
<1>3. PICK g \in [0..n -> Nat] : ValueTurn(g, ds, base, n)
  BY <1>1, ValueTurns
<1>4. Long \in Nat /\ Long > 0
  BY LibraryAssumption
<1> DEFINE Fits(k) == IF g[k] <= Long - 1 THEN f[k] = [v |-> g[k], sat |-> FALSE] ELSE f[k].sat
           S == {k \in 0..n : Fits(k)}
<1>5. 0 \in S
  BY <1>1, <1>2, <1>3, <1>4 DEF SumTurn, ValueTurn
<1>6. ASSUME NEW k \in 1..n, k - 1 \in S PROVE k \in S
  <2> DEFINE d == ds[k]
  <2>1. f[k] = Sum(f[k - 1], d, base) /\ g[k] = base * g[k - 1] + d /\ d \in Nat
    BY <1>1, <1>2, <1>3 DEF SumTurn, ValueTurn
  <2>2. f[k - 1] \in Sums /\ g[k - 1] \in Nat /\ g[k] \in Nat /\ Fits(k - 1) /\ k \in 0..n
    BY <1>1, <1>2, <1>3, <1>6
  <2> HIDE DEF d
  <2>3. CASE g[k - 1] <= Long - 1
    <3>1. f[k - 1] = [v |-> g[k - 1], sat |-> FALSE]
      BY <2>2, <2>3
    <3>2. g[k - 1] > (Long - 1 - d) \div base <=> g[k] > Long - 1
      <4>1. Long - 1 \in Int
        BY <1>4
      <4>2. g[k - 1] > (Long - 1 - d) \div base <=> base * g[k - 1] + d > Long - 1
        BY <2>1, <2>2, <4>1, WouldPass
      <4> QED
        BY <2>1, <4>2
    <3>3. CASE g[k] > Long - 1
      <4>1. f[k].sat
        BY <2>1, <3>1, <3>2, <3>3 DEF Sum
      <4> QED
        BY <1>4, <2>2, <3>3, <4>1
    <3>4. CASE ~(g[k] > Long - 1)
      <4>1. f[k] = [v |-> g[k - 1] * base + d, sat |-> FALSE]
        <5> DEFINE acc == f[k - 1]
        <5>1. acc = [v |-> g[k - 1], sat |-> FALSE] /\ acc.v = g[k - 1] /\ ~acc.sat
          BY <3>1
        <5>2. f[k] = [acc EXCEPT !.v = acc.v * base + d]
          BY <2>1, <3>2, <3>4, <5>1 DEF Sum
        <5> HIDE DEF acc
        <5> QED
          BY <5>1, <5>2
      <4>2. g[k - 1] * base = base * g[k - 1]
        BY <2>2
      <4> QED
        BY <1>4, <2>1, <2>2, <3>4, <4>1, <4>2
    <3> QED
      BY <3>3, <3>4
  <2>4. CASE ~(g[k - 1] <= Long - 1)
    <3>1. f[k - 1].sat
      BY <2>2, <2>4
    <3>2. f[k].sat
      BY <2>1, <2>2, <3>1 DEF Sum, Sums
    <3>3. base * g[k - 1] >= g[k - 1]
      <4> DEFINE w == g[k - 1]
      <4>1. w \in Nat /\ base - 1 \in Nat
        BY <2>2
      <4> HIDE DEF w
      <4>2. (base - 1) * w >= 0
        BY <4>1
      <4>3. (base - 1) * w = base * w - w
        BY <4>1
      <4>4. base * w \in Nat
        BY <4>1
      <4> QED
        BY <4>1, <4>2, <4>3, <4>4 DEF w
    <3>4. g[k] > Long - 1
      BY <1>4, <2>1, <2>2, <2>4, <3>3
    <3> QED
      BY <1>4, <2>2, <3>2, <3>4
  <2> QED
    BY <2>3, <2>4
<1>7. \A k \in 0..n : k \in S
  <2> HIDE DEF S
  <2> QED
    BY <1>1, <1>5, <1>6, CountUp
<1>8. n \in 0..n /\ Fits(n)
  <2>1. n \in 0..n
    BY <1>1
  <2>2. n \in S
    BY <1>7, <2>1
  <2> HIDE DEF Fits
  <2> QED
    BY <2>1, <2>2
<1>9. ValueOf(ds, base) = g[n] /\ Accumulate(s, i, j, base) = f[n]
  BY <1>2, <1>3 DEF SumTurn, ValueTurn
<1>10. ValueOf(ds, base) \in Nat /\ Accumulate(s, i, j, base) \in Sums
  BY <1>8, <1>9
<1> QED
  BY <1>8, <1>9, <1>10 DEF ds

-----------------------------------------------------------------------------
(* Numerals: where they begin and end.  Mark is behind the blanks, After   *)
(* behind the sign, Begin behind the prefix, Finish behind the digits.        *)
Mark(s)        == Skip(s, 1, White)
After(s)       == IF At(s, Mark(s)) \in {"+", "-"} THEN Mark(s) + 1 ELSE Mark(s)
Hex(s, base)   == base \in {0, 16} /\ HexPrefix(s, After(s))
Radix(s, base) == IF Hex(s, base) THEN 16 ELSE IF base # 0 THEN base
                  ELSE IF At(s, After(s)) = "0" THEN 8 ELSE 10
Begin(s, base) == IF Hex(s, base) THEN After(s) + 2 ELSE After(s)
Finish(s, base)   == Skip(s, Begin(s, base), {c \in Range(s) : digit_of(c, Radix(s, base)) >= 0})
Bases          == {0, 1, 10, 16}

LEMMA ParseMag ==
  ASSUME NEW s, NEW base
  PROVE  LET none == Radix(s, base) \notin 2..36 \/ Finish(s, base) = Begin(s, base)
             acc  == Accumulate(s, Begin(s, base), Finish(s, base), Radix(s, base))
         IN  parse_mag(s, base) = [neg |-> At(s, Mark(s)) = "-",
                                   end |-> IF none THEN 0 ELSE Finish(s, base) - 1,
                                   v   |-> IF none THEN 0 ELSE acc.v,
                                   sat |-> ~none /\ acc.sat]
BY Zenon DEF parse_mag, Radix, Finish, Begin, Hex, After, Mark

IsText(s) == Len(s) \in Nat /\ DOMAIN s = 1..Len(s)

LEMMA SkipStops ==
  ASSUME NEW s, IsText(s), NEW i \in 1..(Len(s) + 1), NEW good, "nul" \notin good
  PROVE  /\ Skip(s, i, good) \in i..(Len(s) + 1) /\ At(s, Skip(s, i, good)) \notin good
         /\ \A x \in i..(Skip(s, i, good) - 1) : x \in 1..Len(s) /\ s[x] \in good
<1> DEFINE S == {j \in i..(Len(s) + 1) : At(s, j) \notin good}
           low == Skip(s, i, good)
<1>1. Len(s) \in Nat
  BY DEF IsText
<1>2. At(s, Len(s) + 1) = "nul"
  BY <1>1 DEF At
<1>3. S \in SUBSET Nat /\ S # {}
  <2>1. Len(s) + 1 \in S
    BY <1>1, <1>2
  <2> QED
    BY <1>1, <2>1
<1>4. low = Min(S)
  BY DEF Skip
<1> HIDE DEF low
<1>5. low \in S /\ \A x \in S : low <= x
  <2> HIDE DEF S
  <2> QED
    BY <1>3, <1>4, LeastOf
<1>6. ASSUME NEW x \in i..(low - 1) PROVE x \in 1..Len(s) /\ s[x] \in good
  <2>1. x \in i..(Len(s) + 1) /\ x < low /\ x \in 1..Len(s)
    BY <1>1, <1>5
  <2>2. At(s, x) \in good
    BY <1>1, <1>5, <2>1
  <2> QED
    BY <1>1, <2>1, <2>2 DEF At
<1> QED
  BY <1>5, <1>6 DEF low

LEMMA MarkIs ==
  ASSUME NEW s, IsText(s)
  PROVE  /\ Mark(s) \in 1..(Len(s) + 1) /\ At(s, Mark(s)) \notin White
         /\ \A x \in 1..(Mark(s) - 1) : x \in 1..Len(s) /\ s[x] \in White
<1>1. 1 \in 1..(Len(s) + 1) /\ "nul" \notin White
  BY DEF IsText, White
<1> QED
  BY <1>1, SkipStops DEF Mark

LEMMA AfterIs ==
  ASSUME NEW s, IsText(s)
  PROVE  /\ After(s) \in 1..(Len(s) + 1)
         /\ \/ After(s) = Mark(s) /\ At(s, Mark(s)) \notin {"+", "-"}
            \/ /\ After(s) = Mark(s) + 1 /\ Mark(s) \in 1..Len(s)
               /\ s[Mark(s)] \in {"+", "-"} /\ At(s, Mark(s)) = s[Mark(s)]
<1>1. Mark(s) \in 1..(Len(s) + 1) /\ Len(s) \in Nat
  BY MarkIs DEF IsText
<1> QED
  BY <1>1 DEF After, At

LEMMA RadixIs ==
  ASSUME NEW s, NEW base \in Bases
  PROVE  /\ Radix(s, base) \in {1, 8, 10, 16} /\ Radix(s, base) \in 1..16
         /\ Radix(s, base) = 1 <=> base = 1
         /\ Hex(s, base) => Radix(s, base) = 16 /\ base \in {0, 16}
BY DEF Radix, Bases, Hex

\* The prefix counts only with a digit behind it.
LEMMA PrefixIs ==
  ASSUME NEW s, IsText(s), NEW base, Hex(s, base)
  PROVE  /\ After(s) + 2 \in 1..Len(s) /\ s[After(s)] = "0" /\ s[After(s) + 1] = "x"
         /\ digit_of(s[After(s) + 2], 16) >= 0
<1>1. After(s) \in 1..(Len(s) + 1) /\ Len(s) \in Nat
  BY AfterIs DEF IsText
<1>2. /\ At(s, After(s)) = "0" /\ At(s, After(s) + 1) = "x"
      /\ digit_of(At(s, After(s) + 2), 16) >= 0
  BY DEF Hex, HexPrefix
<1>3. At(s, After(s) + 2) # "nul"
  BY <1>2, NoDigits
<1>4. After(s) + 2 \in 1..Len(s)
  BY <1>1, <1>3 DEF At
<1> QED
  BY <1>1, <1>2, <1>4 DEF At

LEMMA EndIs ==
  ASSUME NEW s, IsText(s), NEW base \in Bases
  PROVE  /\ Begin(s, base) \in 1..(Len(s) + 1) /\ Begin(s, base) \in {After(s), After(s) + 2}
         /\ Finish(s, base) \in Begin(s, base)..(Len(s) + 1)
         /\ \A x \in Begin(s, base)..(Finish(s, base) - 1) :
              x \in 1..Len(s) /\ digit_of(s[x], Radix(s, base)) >= 0
         /\ Finish(s, base) \in 1..Len(s) => ~(digit_of(s[Finish(s, base)], Radix(s, base)) >= 0)
         /\ Hex(s, base) => Finish(s, base) > Begin(s, base)
<1> DEFINE R == Radix(s, base)
           B == Begin(s, base)
           E == Finish(s, base)
           good == {c \in Range(s) : digit_of(c, R) >= 0}
<1>1. Len(s) \in Nat /\ DOMAIN s = 1..Len(s) /\ After(s) \in 1..(Len(s) + 1)
  BY AfterIs DEF IsText
<1>2. R \in Nat
  BY RadixIs
<1>3. B \in 1..(Len(s) + 1) /\ B \in {After(s), After(s) + 2}
  BY <1>1, PrefixIs DEF Begin
<1>4. "nul" \notin good
  BY <1>2, NoDigits
<1>5. \A x \in 1..Len(s) : s[x] \in good <=> digit_of(s[x], R) >= 0
  BY <1>1 DEF Range
<1>6. E = Skip(s, B, good)
  BY DEF Finish
<1> HIDE DEF good, E, B, R
<1>7. /\ E \in B..(Len(s) + 1) /\ At(s, E) \notin good
      /\ \A x \in B..(E - 1) : x \in 1..Len(s) /\ s[x] \in good
  BY <1>3, <1>4, <1>6, SkipStops
<1>8. \A x \in B..(E - 1) : x \in 1..Len(s) /\ digit_of(s[x], R) >= 0
  BY <1>5, <1>7
<1>9. E \in 1..Len(s) => ~(digit_of(s[E], R) >= 0)
  BY <1>1, <1>5, <1>7 DEF At
<1>10. ASSUME Hex(s, base) PROVE E > B
  <2>1. B = After(s) + 2 /\ R = 16
    BY <1>10, RadixIs DEF Begin, B, R
  <2>2. B \in 1..Len(s) /\ digit_of(s[B], R) >= 0
    BY <1>10, <2>1, PrefixIs
  <2>3. E # B
    BY <1>9, <2>2
  <2> QED
    BY <1>3, <1>7, <2>3
<1> QED
  BY <1>3, <1>7, <1>8, <1>9, <1>10 DEF B, E, R

\* Every way to read the start of s as a numeral has its blanks, sign and prefix where
\* parse_mag finds them, except that 0 alone may be read of a hexadecimal one.
LEMMA ReadingIs ==
  ASSUME NEW s, IsText(s), NEW base \in Bases, NEW k \in 0..Len(s), NEW r \in Readings(s, base, k)
  PROVE  /\ r.i = Mark(s) - 1 /\ r.j = After(s) - 1 /\ base # 1
         /\ \/ r.p = Begin(s, base) - 1 /\ r.radix = Radix(s, base) /\ k \in Begin(s, base)..(Finish(s, base) - 1)
            \/ Hex(s, base) /\ k = After(s)
<1> DEFINE M == Mark(s)
           A == After(s)
           R == Radix(s, base)
<1>1. /\ r.i \in 0..k /\ r.j \in 0..k /\ r.p \in 0..k /\ r.radix \in {8, 10, 16}
      /\ r.i <= r.j /\ r.j <= r.p /\ r.p < k
      /\ \A x \in 1..r.i : s[x] \in White
      /\ r.j = r.i \/ (r.j = r.i + 1 /\ s[r.j] \in {"+", "-"})
      /\ r.p = r.j \/ (r.radix = 16 /\ r.p = r.j + 2 /\ s[r.j + 1] = "0" /\ s[r.p] = "x")
      /\ \A x \in (r.p + 1)..k : digit_of(s[x], r.radix) >= 0
  BY Zenon DEF Readings
<1>2. IF base # 0 THEN r.radix = base
      ELSE r.radix = IF r.p > r.j THEN 16 ELSE IF s[r.p + 1] = "0" THEN 8 ELSE 10
  BY DEF Readings
<1>3. Len(s) \in Nat /\ k \in Nat
  BY DEF IsText
<1>4. /\ M \in 1..(Len(s) + 1) /\ At(s, M) \notin White
      /\ \A x \in 1..(M - 1) : s[x] \in White
  BY MarkIs
<1>5. /\ A \in 1..(Len(s) + 1)
      /\ \/ A = M /\ At(s, M) \notin {"+", "-"}
         \/ A = M + 1 /\ M \in 1..Len(s) /\ s[M] \in {"+", "-"}
  BY AfterIs
<1> HIDE DEF M, A, R
\* What stands behind the sign is a digit, and so neither a blank nor a sign.
<1>6. s[r.j + 1] \notin White /\ s[r.j + 1] \notin {"+", "-"}
  <2>1. CASE r.p = r.j
    <3>1. digit_of(s[r.j + 1], r.radix) >= 0 /\ r.radix \in Nat
      BY <1>1, <1>3, <2>1
    <3> QED
      BY <3>1, NoDigits
  <2>2. CASE s[r.j + 1] = "0"
    BY <2>2 DEF White
  <2> QED
    BY <1>1, <2>1, <2>2
<1>7. s[r.i + 1] \notin White
  <2>1. CASE r.j = r.i
    BY <1>6, <2>1
  <2>2. CASE r.j = r.i + 1 /\ s[r.j] \in {"+", "-"}
    BY <2>2 DEF White
  <2> QED
    BY <1>1, <2>1, <2>2
<1>8. r.i = M - 1
  <2>1. r.i \in Nat /\ r.i < Len(s)
    BY <1>1, <1>3
  <2>2. ~(M <= r.i)
    <3>1. M <= r.i => s[M] \in White /\ At(s, M) = s[M]
      BY <1>1, <1>3, <1>4, <2>1 DEF At
    <3> QED
      BY <1>4, <3>1
  <2>3. ~(r.i + 1 <= M - 1)
    BY <1>4, <1>7, <2>1
  <2> QED
    BY <1>4, <2>1, <2>2, <2>3
<1>9. r.j = A - 1
  <2>1. M \in 1..Len(s) /\ At(s, M) = s[M] /\ r.i + 1 = M
    BY <1>1, <1>3, <1>4, <1>8 DEF At
  <2>2. CASE r.j = r.i
    BY <1>4, <1>5, <1>6, <1>8, <2>1, <2>2
  <2>3. CASE r.j = r.i + 1 /\ s[r.j] \in {"+", "-"}
    <3>1. s[M] \in {"+", "-"} /\ A = M + 1
      BY <1>5, <2>1, <2>3
    <3> QED
      BY <1>4, <1>8, <2>3, <3>1
  <2> QED
    BY <1>1, <2>2, <2>3
<1>10. A \in 1..Len(s) /\ At(s, A) = s[A] /\ r.j + 1 = A
  BY <1>1, <1>3, <1>5, <1>9 DEF At
<1>11. /\ Begin(s, base) \in 1..(Len(s) + 1)
       /\ Finish(s, base) \in Begin(s, base)..(Len(s) + 1)
       /\ \A x \in Begin(s, base)..(Finish(s, base) - 1) : digit_of(s[x], R) >= 0
       /\ Finish(s, base) \in 1..Len(s) => ~(digit_of(s[Finish(s, base)], R) >= 0)
  BY EndIs DEF R
<1>12. base # 1
  BY <1>1, <1>2
\* Digits from where parse_mag begins do not go on behind where it ends.
<1>13. ASSUME r.p = Begin(s, base) - 1, r.radix = R PROVE k \in Begin(s, base)..(Finish(s, base) - 1)
  <2>1. Begin(s, base) <= k
    BY <1>1, <1>3, <1>11, <1>13
  <2>2. ~(Finish(s, base) <= k)
    <3>1. Finish(s, base) <= k => Finish(s, base) \in (r.p + 1)..k /\ Finish(s, base) \in 1..Len(s)
      BY <1>1, <1>3, <1>11, <1>13
    <3> QED
      BY <1>1, <1>11, <1>13, <3>1
  <2> QED
    BY <1>3, <1>11, <2>1, <2>2
<1>14. CASE r.p = r.j /\ ~Hex(s, base)
  <2>1. Begin(s, base) = A
    BY <1>14 DEF Begin, A
  <2>2. R = IF base # 0 THEN base ELSE IF s[A] = "0" THEN 8 ELSE 10
    BY <1>10, <1>14 DEF Radix, R, A
  <2>3. r.p + 1 = A /\ ~(r.p > r.j)
    BY <1>1, <1>10, <1>14
  <2>4. r.radix = R
    BY <1>2, <2>2, <2>3
  <2>5. r.p = Begin(s, base) - 1
    BY <1>1, <1>5, <2>1, <2>3
  <2> QED
    BY <1>8, <1>9, <1>12, <1>13, <2>4, <2>5 DEF M, A, R
<1>15. CASE r.p = r.j /\ Hex(s, base)
  <2>1. s[A + 1] = "x"
    BY <1>15, PrefixIs DEF A
  <2>2. r.radix \in 1..16
    BY <1>1
  <2>3. digit_of(s[A + 1], r.radix) = -1
    BY <2>1, <2>2, ZeroAndX
  <2>4. A + 1 \notin (r.p + 1)..k
    BY <1>1, <2>3
  <2>5. k = A
    BY <1>1, <1>3, <1>5, <1>10, <1>15, <2>4
  <2> QED
    BY <1>8, <1>9, <1>12, <1>15, <2>5 DEF M, A
<1>16. CASE r.radix = 16 /\ r.p = r.j + 2 /\ s[r.j + 1] = "0" /\ s[r.p] = "x"
  <2>1. A + 1 = r.p /\ A + 2 = r.p + 1 /\ r.p + 1 <= k
    BY <1>1, <1>3, <1>5, <1>10, <1>16
  <2>2. digit_of(s[A + 2], 16) >= 0 /\ s[A] = "0" /\ s[A + 1] = "x"
    BY <1>1, <1>3, <1>5, <1>10, <1>16, <2>1
  <2>3. A + 1 \in 1..Len(s) /\ A + 2 \in 1..Len(s)
    BY <1>1, <1>3, <1>5, <2>1
  <2>4. HexPrefix(s, A)
    BY <1>10, <2>2, <2>3 DEF HexPrefix, At
  <2>5. base \in {0, 16}
    BY <1>2, <1>16 DEF Bases
  <2>6. Hex(s, base)
    BY <2>4, <2>5 DEF Hex, A
  <2>7. Begin(s, base) = A + 2 /\ R = 16
    BY <2>6 DEF Begin, Radix, R, A
  <2>8. r.p = Begin(s, base) - 1
    BY <1>1, <1>5, <2>1, <2>7
  <2> QED
    BY <1>8, <1>9, <1>12, <1>13, <1>16, <2>7, <2>8 DEF M, A, R
<1> QED
  BY <1>1, <1>14, <1>15, <1>16

\* What parse_mag takes is a reading.
LEMMA LongestIsReading ==
  ASSUME NEW s, IsText(s), NEW base \in Bases, base # 1, Finish(s, base) > Begin(s, base)
  PROVE  [i |-> Mark(s) - 1, j |-> After(s) - 1, p |-> Begin(s, base) - 1, radix |-> Radix(s, base)]
           \in Readings(s, base, Finish(s, base) - 1)
<1> DEFINE M == Mark(s)
           A == After(s)
           B == Begin(s, base)
           E == Finish(s, base)
           R == Radix(s, base)
           k == E - 1
           r == [i |-> M - 1, j |-> A - 1, p |-> B - 1, radix |-> R]
<1>1. Len(s) \in Nat
  BY DEF IsText
<1>2. M \in 1..(Len(s) + 1) /\ \A x \in 1..(M - 1) : s[x] \in White
  BY MarkIs
<1>3. /\ A \in 1..(Len(s) + 1)
      /\ A = M \/ (A = M + 1 /\ M \in 1..Len(s) /\ s[M] \in {"+", "-"})
  BY AfterIs
<1>4. /\ B \in 1..(Len(s) + 1) /\ B \in {A, A + 2} /\ E \in B..(Len(s) + 1) /\ E > B
      /\ \A x \in B..(E - 1) : x \in 1..Len(s) /\ digit_of(s[x], R) >= 0
  BY EndIs
<1>5. R \in {8, 10, 16}
  BY RadixIs
<1>6. B = A \/ (B = A + 2 /\ Hex(s, base) /\ R = 16 /\ s[A] = "0" /\ s[A + 1] = "x")
  BY PrefixIs, RadixIs DEF Begin
<1>7. IF base # 0 THEN R = base ELSE R = IF B > A THEN 16 ELSE IF s[A] = "0" THEN 8 ELSE 10
  <2>1. A \in 1..Len(s) /\ At(s, A) = s[A]
    BY <1>1, <1>3, <1>4 DEF At
  <2>2. Hex(s, base) <=> B = A + 2
    BY <1>3 DEF Begin
  <2>3. Hex(s, base) => base \in {0, 16} /\ R = 16
    BY RadixIs
  <2>4. ~Hex(s, base) => B = A /\ R = IF base # 0 THEN base ELSE IF s[A] = "0" THEN 8 ELSE 10
    BY <2>1 DEF Begin, Radix
  <2> QED
    BY <1>3, <2>2, <2>3, <2>4
<1> HIDE DEF M, A, B, E, R
<1>8. /\ M - 1 \in 0..k /\ A - 1 \in 0..k /\ B - 1 \in 0..k
      /\ M - 1 <= A - 1 /\ A - 1 <= B - 1 /\ B - 1 < k
  BY <1>1, <1>2, <1>3, <1>4
<1>9. A - 1 = M - 1 \/ (A - 1 = (M - 1) + 1 /\ s[A - 1] \in {"+", "-"})
  BY <1>2, <1>3
<1>10. B - 1 = A - 1 \/ (R = 16 /\ B - 1 = (A - 1) + 2 /\ s[(A - 1) + 1] = "0" /\ s[B - 1] = "x")
  <2>1. (A - 1) + 1 = A /\ (B = A + 2 => B - 1 = A + 1 /\ B - 1 = (A - 1) + 2)
    BY <1>3, <1>4
  <2> QED
    BY <1>6, <2>1
<1>11. \A x \in ((B - 1) + 1)..k : digit_of(s[x], R) >= 0
  BY <1>4
<1>12. IF base # 0 THEN R = base
       ELSE R = IF B - 1 > A - 1 THEN 16 ELSE IF s[(B - 1) + 1] = "0" THEN 8 ELSE 10
  <2>1. (B - 1 > A - 1 <=> B > A) /\ (B - 1) + 1 = B
    BY <1>3, <1>4
  <2>2. ~(B > A) => B = A
    BY <1>3, <1>4
  <2> QED
    BY <1>7, <2>1, <2>2
<1>13. r \in [i : 0..k, j : 0..k, p : 0..k, radix : {8, 10, 16}]
  BY <1>5, <1>8
<1>14. r.i = M - 1 /\ r.j = A - 1 /\ r.p = B - 1 /\ r.radix = R
  OBVIOUS
<1> HIDE DEF r, k
<1>15. r \in Readings(s, base, k)
  BY <1>2, <1>8, <1>9, <1>10, <1>11, <1>12, <1>13, <1>14 DEF Readings
<1> QED
  BY <1>15 DEF r, k, M, A, B, E, R

\* The value of the digits parse_mag takes.
Magnitude(s, base) ==
  LET R == Radix(s, base)
      B == Begin(s, base)
  IN  ValueOf([x \in 1..(Finish(s, base) - B) |-> digit_of(s[B + x - 1], R)], R)

LEMMA NoNumeral ==
  ASSUME NEW s, IsText(s), NEW base \in Bases, base = 1 \/ Finish(s, base) = Begin(s, base)
  PROVE  Numeral(s, base) = [end |-> 0, v |-> 0]
<1>1. ASSUME NEW k \in 0..Len(s), NEW r \in Readings(s, base, k) PROVE FALSE
  <2>1. /\ base # 1
        /\ k \in Begin(s, base)..(Finish(s, base) - 1) \/ Hex(s, base)
    BY ReadingIs
  <2>2. Begin(s, base) \in Nat /\ (Hex(s, base) => Finish(s, base) > Begin(s, base))
    BY EndIs
  <2> QED
    BY <2>1, <2>2
<1>2. {k \in 0..Len(s) : Readings(s, base, k) # {}} = {}
  BY <1>1
<1> QED
  BY <1>2 DEF Numeral

LEMMA LongestNumeral ==
  ASSUME NEW s, IsText(s), NEW base \in Bases, base # 1, Finish(s, base) > Begin(s, base)
  PROVE  Numeral(s, base) = [end |-> Finish(s, base) - 1,
                             v   |-> IF At(s, Mark(s)) = "-" THEN -Magnitude(s, base)
                                     ELSE Magnitude(s, base)]
<1> DEFINE B == Begin(s, base)
           E == Finish(s, base)
           R == Radix(s, base)
           ends == {k \in 0..Len(s) : Readings(s, base, k) # {}}
           rr == [i |-> Mark(s) - 1, j |-> After(s) - 1, p |-> B - 1, radix |-> R]
           r  == CHOOSE x \in Readings(s, base, E - 1) : \A y \in Readings(s, base, E - 1) : y.p <= x.p
<1>1. /\ Len(s) \in Nat /\ B \in 1..(Len(s) + 1) /\ E \in B..(Len(s) + 1) /\ E > B
      /\ B \in {After(s), After(s) + 2} /\ After(s) \in 1..(Len(s) + 1)
  BY EndIs, AfterIs DEF IsText
<1>2. rr \in Readings(s, base, E - 1)
  BY LongestIsReading
<1>3. E - 1 \in ends
  BY <1>1, <1>2
<1>4. ASSUME NEW k \in ends PROVE k <= E - 1
  <2>1. PICK x \in Readings(s, base, k) : TRUE
    OBVIOUS
  <2>2. k \in 0..Len(s) /\ (k \in B..(E - 1) \/ k = After(s))
    BY <2>1, ReadingIs
  <2> QED
    BY <1>1, <2>2
<1>5. Max(ends) = E - 1
  <2> DEFINE high == Max(ends)
  <2>1. ends \in SUBSET (0..Len(s)) /\ ends # {}
    BY <1>3
  <2> HIDE DEF ends
  <2>2. high \in ends /\ \A x \in ends : x <= high
    BY <1>1, <2>1, GreatestOf
  <2> HIDE DEF high
  <2>3. high <= E - 1 /\ E - 1 <= high
    BY <1>3, <1>4, <2>2
  <2>4. high \in Int
    BY <2>1, <2>2
  <2>5. high = E - 1
    BY <1>1, <2>3, <2>4
  <2> QED
    BY <2>5 DEF high
<1>6. ASSUME NEW x \in Readings(s, base, E - 1) PROVE x = rr
  <2>1. E - 1 \in 0..Len(s)
    BY <1>1
  <2>2. /\ x.i = Mark(s) - 1 /\ x.j = After(s) - 1
        /\ (x.p = B - 1 /\ x.radix = R) \/ (Hex(s, base) /\ E - 1 = After(s))
    BY <2>1, ReadingIs
  <2>3. ~(Hex(s, base) /\ E - 1 = After(s))
    <3>1. Hex(s, base) => B = After(s) + 2
      BY DEF Begin
    <3> QED
      BY <1>1, <3>1
  <2>4. x \in [i : 0..(E - 1), j : 0..(E - 1), p : 0..(E - 1), radix : {8, 10, 16}]
    BY Zenon DEF Readings
  <2>5. x = [i |-> x.i, j |-> x.j, p |-> x.p, radix |-> x.radix]
    BY <2>4
  <2> QED
    BY <2>2, <2>3, <2>5
<1>7. r = rr
  <2>1. \A y \in Readings(s, base, E - 1) : y.p <= rr.p
    BY <1>1, <1>6
  <2>2. r \in Readings(s, base, E - 1)
    BY <1>2, <2>1
  <2> QED
    BY <1>6, <2>2
<1>8. rr.p = B - 1 /\ rr.radix = R /\ rr.i = Mark(s) - 1 /\ rr.j = After(s) - 1
  OBVIOUS
<1>9. (rr.j > rr.i /\ s[rr.j] = "-") <=> At(s, Mark(s)) = "-"
  <2>1. Mark(s) \in 1..(Len(s) + 1)
    BY MarkIs
  <2>2. CASE After(s) = Mark(s) /\ At(s, Mark(s)) \notin {"+", "-"}
    BY <1>8, <2>1, <2>2
  <2>3. CASE After(s) = Mark(s) + 1 /\ Mark(s) \in 1..Len(s) /\ At(s, Mark(s)) = s[Mark(s)]
    BY <1>8, <2>1, <2>3
  <2> QED
    BY <2>2, <2>3, AfterIs
<1> DEFINE ds == [x \in 1..((E - 1) - rr.p) |-> digit_of(s[rr.p + x], rr.radix)]
<1>10. ds = [x \in 1..(E - B) |-> digit_of(s[B + x - 1], R)]
  <2>1. (E - 1) - rr.p = E - B
    BY <1>1, <1>8
  <2>2. \A x \in 1..(E - B) : rr.p + x = B + x - 1
    BY <1>1, <1>8
  <2> HIDE DEF rr
  <2> QED
    BY <1>8, <2>1, <2>2
<1>11. ValueOf(ds, rr.radix) = Magnitude(s, base)
  <2> HIDE DEF ds, rr
  <2> QED
    BY <1>8, <1>10 DEF Magnitude
<1>12. ends # {}
  BY <1>3
<1>13. Numeral(s, base) = [end |-> E - 1, v |-> IF rr.j > rr.i /\ s[rr.j] = "-" THEN -ValueOf(ds, rr.radix)
                                                ELSE ValueOf(ds, rr.radix)]
  <2> DEFINE k == Max(ends)
             q == CHOOSE x \in Readings(s, base, k) : \A y \in Readings(s, base, k) : y.p <= x.p
             mag == ValueOf([x \in 1..(k - q.p) |-> digit_of(s[q.p + x], q.radix)], q.radix)
  <2>1. Numeral(s, base) = IF ends = {} THEN [end |-> 0, v |-> 0]
                           ELSE [end |-> k, v |-> IF q.j > q.i /\ s[q.j] = "-" THEN -mag ELSE mag]
    BY Zenon DEF Numeral
  <2>2. k = E - 1
    BY <1>5
  <2>3. q = rr
    BY <1>7, <2>2
  <2>4. mag = ValueOf(ds, rr.radix)
    <3> HIDE DEF k, q, rr, ends
    <3> QED
      BY <2>2, <2>3
  <2> HIDE DEF k, q, mag, ends, rr, ds
  <2> QED
    BY <1>12, <2>1, <2>2, <2>3, <2>4
<1> HIDE DEF rr, ds, ends
<1> QED
  BY <1>9, <1>11, <1>13

\* What parse_mag answers of the numeral.
LEMMA ParsesNumeral ==
  ASSUME NEW s, IsText(s), NEW base \in Bases
  PROVE  LET m   == parse_mag(s, base)
             num == Numeral(s, base)
         IN  \E mag \in Nat :
               /\ m.end = num.end /\ num.v = IF m.neg THEN -mag ELSE mag
               /\ m.neg \in BOOLEAN /\ m.v \in Nat /\ m.sat \in BOOLEAN
               /\ m.sat <=> mag > Long - 1
               /\ ~m.sat => m.v = mag
<1> DEFINE B == Begin(s, base)
           E == Finish(s, base)
           R == Radix(s, base)
           acc == Accumulate(s, B, E, R)
           none == R \notin 2..36 \/ E = B
           m == parse_mag(s, base)
           neg == At(s, Mark(s)) = "-"
           sat == ~none /\ acc.sat
<1>0. neg \in BOOLEAN /\ sat \in BOOLEAN
  OBVIOUS
<1>1. m = [neg |-> neg, end |-> IF none THEN 0 ELSE E - 1, v |-> IF none THEN 0 ELSE acc.v, sat |-> sat]
  BY ParseMag
<1> HIDE DEF m
<1>8. /\ m.neg \in BOOLEAN /\ (m.neg <=> neg) /\ m.sat \in BOOLEAN /\ (m.sat <=> sat)
      /\ m.end = IF none THEN 0 ELSE E - 1
      /\ m.v = IF none THEN 0 ELSE acc.v
  <2> HIDE DEF neg, sat, none, acc, E
  <2> QED
    BY <1>0, <1>1
<1>2. R \in {1, 8, 10, 16} /\ (R = 1 <=> base = 1)
  BY RadixIs
<1>3. /\ Len(s) \in Nat /\ B \in 1..(Len(s) + 1) /\ E \in B..(Len(s) + 1)
      /\ \A x \in B..(E - 1) : digit_of(s[x], R) >= 0
  BY EndIs DEF IsText
<1>4. Long \in Nat /\ Long > 0
  BY LibraryAssumption
<1>5. none <=> base = 1 \/ E = B
  BY <1>2
<1>6. CASE none
  <2>1. Numeral(s, base) = [end |-> 0, v |-> 0]
    BY <1>5, <1>6, NoNumeral
  <2>2. m.end = 0 /\ m.v = 0 /\ ~m.sat
    BY <1>6, <1>8
  <2> DEFINE num == Numeral(s, base)
  <2>3. num.end = 0 /\ num.v = 0
    BY <2>1
  <2> HIDE DEF none, acc, B, E, R, neg, sat, num
  <2>4. ASSUME NEW x \in Nat, x <= 0
        PROVE  /\ m.end = num.end /\ num.v = IF m.neg THEN -x ELSE x
               /\ m.neg \in BOOLEAN /\ m.v \in Nat /\ m.sat \in BOOLEAN
               /\ m.sat <=> x > Long - 1
               /\ ~m.sat => m.v = x
    <3>1. -x = x
      BY <2>4
    <3>2. num.v = x /\ m.v = x /\ ~(x > Long - 1)
      BY <1>4, <2>2, <2>3, <2>4
    <3>3. num.v = IF m.neg THEN -x ELSE x
      BY <3>1, <3>2
    <3> QED
      BY <1>8, <2>2, <2>3, <3>2, <3>3
  <2>5. 0 \in Nat /\ 0 <= 0
    OBVIOUS
  <2> QED
    BY <2>4, <2>5 DEF m, num
<1>7. CASE ~none
  <2> DEFINE mag == Magnitude(s, base)
  <2>1. base # 1 /\ E > B /\ B \in Nat /\ E \in Nat /\ B <= E /\ R \in Nat \ {0}
    BY <1>2, <1>3, <1>5, <1>7
  <2>2. Numeral(s, base) = [end |-> E - 1, v |-> IF At(s, Mark(s)) = "-" THEN -mag ELSE mag]
    BY <2>1, LongestNumeral
  <2>3. \A x \in 1..(E - B) : digit_of(s[B + x - 1], R) \in Nat
    <3> TAKE x \in 1..(E - B)
    <3>1. B + x - 1 \in B..(E - 1)
      BY <2>1
    <3>2. digit_of(s[B + x - 1], R) >= 0
      BY <1>3, <3>1
    <3>3. digit_of(s[B + x - 1], R) \in Int
      BY <2>1, DigitType
    <3> QED
      BY <3>2, <3>3
  <2>4. mag = ValueOf([x \in 1..(E - B) |-> digit_of(s[B + x - 1], R)], R)
    BY DEF Magnitude
  <2>5. (m.neg <=> At(s, Mark(s)) = "-") /\ m.end = E - 1 /\ m.v = acc.v /\ (m.sat <=> acc.sat)
    BY <1>7, <1>8
  <2> HIDE DEF mag, acc, none
  <2>6. mag \in Nat /\ acc \in Sums /\ IF mag <= Long - 1 THEN acc = [v |-> mag, sat |-> FALSE] ELSE acc.sat
    <3> HIDE DEF B, E, R
    <3> QED
      BY <2>1, <2>3, <2>4, SumIsValue DEF acc
  <2>7. acc.v \in Nat /\ acc.sat \in BOOLEAN /\ (acc.sat <=> mag > Long - 1) /\ (~acc.sat => acc.v = mag)
    BY <1>4, <2>6 DEF Sums
  <2>8. m.end = Numeral(s, base).end /\ Numeral(s, base).v = IF m.neg THEN -mag ELSE mag
    BY <2>2, <2>5
  <2> QED
    BY <1>8, <2>5, <2>6, <2>7, <2>8 DEF m
<1> QED
  BY <1>6, <1>7

LEMMA Longs ==
  /\ Long \in Nat \ {0} /\ LongMax \in Nat /\ LongMin = -(LongMax + 1)
  /\ LongMax + 1 + LongMax + 1 = Long
<1>1. Long \in Nat \ {0} /\ Long % 2 = 0
  BY LibraryAssumption
<1>2. Long = 2 * (Long \div 2) /\ Long \div 2 \in Int
  BY <1>1, DivMod
<1> QED
  BY <1>1, <1>2 DEF LongMax, LongMin

\* strtoul gives the magnitude of the numeral, or its complement, modulo Long.
LEMMA Strtoul ==
  ASSUME NEW s, IsText(s), NEW base \in Bases
  PROVE  LET num == Numeral(s, base)
             r   == strtoul(s, base)
         IN  /\ r.end = num.end
             /\ r.erange = (num.v \notin -(Long - 1)..(Long - 1))
             /\ r.value = IF r.erange THEN Long - 1 ELSE num.v % Long
<1> DEFINE m   == parse_mag(s, base)
           num == Numeral(s, base)
           r   == strtoul(s, base)
<1>1. PICK mag \in Nat :
        /\ m.end = num.end /\ num.v = IF m.neg THEN -mag ELSE mag
        /\ m.neg \in BOOLEAN /\ m.v \in Nat /\ m.sat \in BOOLEAN
        /\ m.sat <=> mag > Long - 1
        /\ ~m.sat => m.v = mag
  BY ParsesNumeral
<1>2. r = [value |-> IF m.sat THEN Long - 1 ELSE IF m.neg THEN (0 - m.v) % Long ELSE m.v,
           end |-> m.end, erange |-> m.sat]
  BY DEF strtoul
<1> HIDE DEF m, num, r
<1>3. r.end = num.end /\ r.erange = m.sat
      /\ r.value = IF m.sat THEN Long - 1 ELSE IF m.neg THEN (0 - m.v) % Long ELSE m.v
  BY <1>1, <1>2
<1>4. Long \in Nat \ {0}
  BY Longs
<1>5. m.sat <=> num.v \notin -(Long - 1)..(Long - 1)
  BY <1>1, <1>4
<1>6. CASE m.sat
  BY <1>3, <1>5, <1>6 DEF num, r
<1>7. CASE ~m.sat
  <2>1. m.v = mag /\ mag < Long
    BY <1>1, <1>4, <1>7
  <2>2. mag % Long = mag
    BY <1>4, <2>1, ModSmall
  <2>3. num.v = IF m.neg THEN 0 - mag ELSE mag
    BY <1>1
  <2>4. r.value = num.v % Long
    BY <1>1, <1>3, <1>7, <2>1, <2>2, <2>3
  <2>5. r.value = IF r.erange THEN Long - 1 ELSE num.v % Long
    BY <1>3, <1>7, <2>4
  <2>6. r.erange = (num.v \notin -(Long - 1)..(Long - 1))
    BY <1>1, <1>3, <1>5
  <2> QED
    BY <1>3, <2>5, <2>6 DEF num, r
<1> QED
  BY <1>1, <1>6, <1>7

\* strtol gives the numeral, or the limit it passes.
LEMMA Strtol ==
  ASSUME NEW s, IsText(s), NEW base \in Bases
  PROVE  LET num == Numeral(s, base)
             r   == strtol(s, base)
         IN  /\ r.end = num.end
             /\ r.erange = (num.v \notin LongMin..LongMax)
             /\ r.value = IF num.v < LongMin THEN LongMin
                          ELSE IF num.v > LongMax THEN LongMax ELSE num.v
<1> DEFINE m   == parse_mag(s, base)
           num == Numeral(s, base)
           r   == strtol(s, base)
           big == m.sat \/ m.v > (IF m.neg THEN LongMax + 1 ELSE LongMax)
<1>1. PICK mag \in Nat :
        /\ m.end = num.end /\ num.v = IF m.neg THEN -mag ELSE mag
        /\ m.neg \in BOOLEAN /\ m.v \in Nat /\ m.sat \in BOOLEAN
        /\ m.sat <=> mag > Long - 1
        /\ ~m.sat => m.v = mag
  BY ParsesNumeral
<1>2. r = [value |-> IF big THEN (IF m.neg THEN LongMin ELSE LongMax) ELSE IF m.neg THEN -m.v ELSE m.v,
           end |-> m.end, erange |-> big]
  BY DEF strtol
<1> HIDE DEF m, num, r
<1>3. big <=> mag > (IF m.neg THEN LongMax + 1 ELSE LongMax)
  BY <1>1, Longs
<1>4. ~big => m.v = mag
  BY <1>1
<1>5. big <=> num.v \notin LongMin..LongMax
  BY <1>1, <1>3, Longs
<1>6. /\ r.end = num.end /\ r.erange = big
      /\ r.value = IF big THEN (IF m.neg THEN LongMin ELSE LongMax) ELSE IF m.neg THEN -m.v ELSE m.v
  BY <1>1, <1>2
<1> HIDE DEF big
<1>7. r.value = IF num.v < LongMin THEN LongMin ELSE IF num.v > LongMax THEN LongMax ELSE num.v
  BY <1>1, <1>3, <1>4, <1>6, Longs
<1>8. r.erange = (num.v \notin LongMin..LongMax)
  BY <1>5, <1>6 DEF big
<1> QED
  BY <1>6, <1>7, <1>8 DEF num, r

LEMMA TextIs == ASSUME NEW s \in Strings PROVE IsText(s)
<1>1. MaxChars \in Nat
  BY LibraryAssumption
<1>2. PICK n \in 0..MaxChars : s \in [1..n -> Chars]
  BY <1>1 DEF Strings, SeqOf
<1>3. Len(s) = n
  BY <1>2
<1> QED
  BY <1>2, <1>3 DEF IsText

\* What a conversion answers, of the record of the call.
Takes(c) ==
  c.fn \in {"strtol", "strtoul"} =>
    LET num == Numeral(c.s, c.base)
        r   == c.result
    IN  /\ r.end = num.end
        /\ c.fn = "strtol" =>
             /\ r.erange = (num.v \notin LongMin..LongMax)
             /\ r.value = IF num.v < LongMin THEN LongMin ELSE IF num.v > LongMax THEN LongMax ELSE num.v
        /\ c.fn = "strtoul" =>
             /\ r.erange = (num.v \notin -(Long - 1)..(Long - 1))
             /\ r.value = IF r.erange THEN Long - 1 ELSE num.v % Long

LEMMA UnsignedCall ==
  ASSUME NEW s, IsText(s), NEW base \in Bases
  PROVE  Takes([fn |-> "strtoul", s |-> s, base |-> base, result |-> strtoul(s, base)])
<1> DEFINE r   == strtoul(s, base)
           num == Numeral(s, base)
<1>1. /\ r.end = num.end /\ r.erange = (num.v \notin -(Long - 1)..(Long - 1))
      /\ r.value = IF r.erange THEN Long - 1 ELSE num.v % Long
  BY Strtoul
<1> HIDE DEF r
<1>2. Takes([fn |-> "strtoul", s |-> s, base |-> base, result |-> r])
  BY <1>1 DEF Takes
<1> QED
  BY <1>2 DEF r

LEMMA SignedCall ==
  ASSUME NEW s, IsText(s), NEW base \in Bases
  PROVE  Takes([fn |-> "strtol", s |-> s, base |-> base, result |-> strtol(s, base)])
<1> DEFINE r   == strtol(s, base)
           num == Numeral(s, base)
<1>1. /\ r.end = num.end /\ r.erange = (num.v \notin LongMin..LongMax)
      /\ r.value = IF num.v < LongMin THEN LongMin ELSE IF num.v > LongMax THEN LongMax ELSE num.v
  BY Strtol
<1> HIDE DEF r
<1>2. Takes([fn |-> "strtol", s |-> s, base |-> base, result |-> r])
  BY <1>1 DEF Takes
<1> QED
  BY <1>2 DEF r

LEMMA ConvertCall == ASSUME Converts PROVE mem' = mem /\ ConversionsTakeLongest'
<1>1. PICK s \in Strings, base \in Bases :
        \/ call' = [fn |-> "strtoul", s |-> s, base |-> base, result |-> strtoul(s, base)]
        \/ call' = [fn |-> "strtol", s |-> s, base |-> base, result |-> strtol(s, base)]
  BY DEF Converts, Bases
<1>2. mem' = mem
  BY DEF Converts
<1>3. Takes(call')
  BY <1>1, TextIs, UnsignedCall, SignedCall
<1> QED
  BY <1>2, <1>3 DEF ConversionsTakeLongest, Takes

-----------------------------------------------------------------------------
(* The contracts.                                                          *)

Copying == {"memcpy", "memmove", "memset", "strcpy", "strncpy"}
Looking == {"memcmp", "strcmp", "strncmp", "strchr", "strrchr"}
Parsing == {"strtol", "strtoul"}

\* A contract says something only of the calls it is about.
LEMMA OfOthers ==
  /\ call'.fn \notin Copying => CopiesAreExact'
  /\ call'.fn \notin Looking => ComparisonsAreOrder'
  /\ call'.fn \notin Parsing => ConversionsTakeLongest'
<1>1. call'.fn \notin Copying => CopiesAreExact'
  BY DEF CopiesAreExact, Copying
<1>2. call'.fn \notin Looking => ComparisonsAreOrder'
  BY DEF ComparisonsAreOrder, Looking
<1>3. call'.fn \notin Parsing => ConversionsTakeLongest'
  BY DEF ConversionsTakeLongest, Parsing
<1> QED
  BY <1>1, <1>2, <1>3

LEMMA CopiesKeep == ASSUME mem \in Memory, Copies PROVE mem' \in Memory /\ CallsKeepContracts'
<1>1. PICK d \in Addr, s \in Addr, n \in 0..Size :
        /\ Room(d, n) /\ Room(s, n)
        /\ \/ Writes("memmove", d, s, n, memmove(mem, d, s, n))
           \/ Apart(d, s, n) /\ Writes("memcpy", d, s, n, memcpy(mem, d, s, n))
           \/ Apart(d, s, n) /\ Terminated(s) /\ Writes("strncpy", d, s, n, strncpy(mem, d, s, n))
  BY DEF Copies
<1>2. n \in Nat
  BY MemoryIs
<1>3. mem' \in Memory /\ CopiesAreExact'
  <2>1. CASE Writes("memmove", d, s, n, memmove(mem, d, s, n))
    BY <1>1, <1>2, <2>1, CopyCalls, CopiedIsExact
  <2>2. CASE Apart(d, s, n) /\ Writes("memcpy", d, s, n, memcpy(mem, d, s, n))
    BY <1>1, <1>2, <2>2, CopyCalls, CopiedIsExact
  <2>3. CASE Apart(d, s, n) /\ Terminated(s) /\ Writes("strncpy", d, s, n, strncpy(mem, d, s, n))
    BY <1>1, <2>3, StrncpyCall
  <2> QED
    BY <1>1, <2>1, <2>2, <2>3
<1>4. call'.fn \in {"memmove", "memcpy", "strncpy"}
  BY <1>1 DEF Writes
<1> QED
  BY <1>3, <1>4, OfOthers DEF CallsKeepContracts, Looking, Parsing

LEMMA FillsKeep == ASSUME mem \in Memory, Fills PROVE mem' \in Memory /\ CallsKeepContracts'
<1>1. PICK d \in Addr :
        \/ \E c \in Bytes, n \in 0..Size : Room(d, n) /\ Writes("memset", d, c, n, memset(mem, d, c, n))
        \/ \E s \in Addr : /\ Terminated(s) /\ Room(d, strlen(mem, s) + 1)
                           /\ Apart(d, s, strlen(mem, s) + 1)
                           /\ Writes("strcpy", d, s, strlen(mem, s) + 1, strcpy(mem, d, s))
  BY DEF Fills
<1>2. mem' \in Memory /\ CopiesAreExact'
  BY <1>1, FillCall, StrcpyCall
<1>3. call'.fn \in {"memset", "strcpy"}
  BY <1>1 DEF Writes
<1> QED
  BY <1>2, <1>3, OfOthers DEF CallsKeepContracts, Looking, Parsing

LEMMA LooksKeep == ASSUME mem \in Memory, Compares \/ Searches PROVE mem' \in Memory /\ CallsKeepContracts'
<1>1. mem' = mem /\ ComparisonsAreOrder'
  BY CompareCall, SearchCall
<1>2. call'.fn \in Looking
  <2>1. Compares => call'.fn \in Looking
    BY DEF Compares, Answers, Looking
  <2>2. Searches => call'.fn \in Looking
    BY DEF Searches, Answers, Looking
  <2> QED
    BY <2>1, <2>2
<1> QED
  BY <1>1, <1>2, OfOthers DEF CallsKeepContracts, Looking, Parsing, Copying

LEMMA ConvertsKeep == ASSUME mem \in Memory, Converts PROVE mem' \in Memory /\ CallsKeepContracts'
<1>1. call'.fn \in Parsing
  BY DEF Converts, Parsing
<1> QED
  BY <1>1, ConvertCall, OfOthers DEF CallsKeepContracts, Looking, Parsing, Copying

LEMMA OthersKeep ==
  ASSUME mem \in Memory, Prints \/ Formats \/ Return PROVE mem' \in Memory /\ CallsKeepContracts'
<1>1. mem' = mem
  BY DEF Prints, Formats, Return
<1>2. call'.fn \in {"itoa", "utoa_hex", "vsnprintf", "none"}
  <2>1. Prints => call'.fn \in {"itoa", "utoa_hex"}
    BY DEF Prints
  <2>2. Formats => call'.fn = "vsnprintf"
    <3>1. \A f, n : Formatted(f, n) => call'.fn = "vsnprintf"
      BY DEF Formatted
    <3>2. Formats => \E f, n : Formatted(f, n)
      BY Zenon DEF Formats
    <3> QED
      BY <3>1, <3>2
  <2>3. Return => call'.fn = "none"
    BY DEF Return, None
  <2> QED
    BY <2>1, <2>2, <2>3
<1> QED
  BY <1>1, <1>2, OfOthers DEF CallsKeepContracts, Looking, Parsing, Copying

\* For every memory, every content of it and every string, whatever calls are made in whatever
\* order: a copy or a fill leaves the bytes the source had and touches nothing else, a
\* comparison is the order at the first difference, a search finds the first or the last
\* place, and a conversion takes the longest numeral and saturates at the limits of a long.
THEOREM LibraryKeepsContracts == Spec => []CallsKeepContracts
<1> DEFINE Inv == mem \in Memory /\ CallsKeepContracts
<1>1. Init => Inv
  <2>1. Init => mem \in Memory /\ call.fn = "none"
    BY DEF Init, None, Memory
  <2>2. call.fn = "none" => CopiesAreExact
    BY DEF CopiesAreExact
  <2>3. call.fn = "none" => ComparisonsAreOrder
    BY DEF ComparisonsAreOrder
  <2>4. call.fn = "none" => ConversionsTakeLongest
    BY DEF ConversionsTakeLongest
  <2> QED
    BY <2>1, <2>2, <2>3, <2>4 DEF CallsKeepContracts
<1>2. Inv /\ [Next]_vars => Inv'
  <2>1. ASSUME Inv, Next PROVE Inv'
    BY <2>1, CopiesKeep, FillsKeep, LooksKeep, ConvertsKeep, OthersKeep DEF Next, Call
  <2>2. ASSUME Inv, UNCHANGED vars PROVE Inv'
    <3>1. mem' = mem /\ call' = call
      BY <2>2 DEF vars
    <3>2. CopiesAreExact'
      BY <2>2, <3>1 DEF CallsKeepContracts, CopiesAreExact
    <3>3. ComparisonsAreOrder'
      <4>1. \A c, p : Extent(c, p)' = Extent(c, p)
        BY <3>1 DEF Extent
      <4>2. \A c : Differ(c)' = Differ(c) /\ Places(c)' = Places(c)
        BY <3>1, <4>1 DEF Differ, Places
      <4>3. Differ(call)' = Differ(call) /\ Places(call)' = Places(call)
        BY <3>1, <4>2
      <4>4. ComparisonsAreOrder
        BY <2>2 DEF CallsKeepContracts
      <4> QED
        BY <3>1, <4>3, <4>4 DEF ComparisonsAreOrder, Places
    <3>4. ConversionsTakeLongest'
      BY <2>2, <3>1 DEF CallsKeepContracts, ConversionsTakeLongest
    <3> QED
      BY <2>2, <3>1, <3>2, <3>3, <3>4 DEF CallsKeepContracts
  <2> QED
    BY <2>1, <2>2
<1> QED
  BY <1>1, <1>2, PTL DEF Spec
=============================================================================
