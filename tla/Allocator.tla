------------------------------ MODULE Allocator -----------------------------
(***************************************************************************)
(* The heap of firmware/lib/omni_alloc.c and a caller that allocates,      *)
(* frees (good pointers and bad) and reallocates in any order.             *)
(*                                                                         *)
(* Offsets and sizes are bytes.  The arena is a function on its 8-byte     *)
(* cells: a header is one cell, [size, magic]; a payload cell is           *)
(* [size |-> stamp, magic |-> "data"], the stamp being what its owner      *)
(* wrote.  A header put in the wrong place therefore overwrites a payload, *)
(* and a payload a header, as in the code.  size_t is SizeT values wide.   *)
(***************************************************************************)
EXTENDS Integers, FiniteSets, FiniteSetsExt, Functions

CONSTANTS HeapBytes,   \* OMNI_HEAP_BYTES
          SizeT,       \* 2^32
          Requests,    \* the sizes the caller asks for
          MaxLive,     \* bound: pointers the caller holds
          MaxErrors    \* bound: bad frees

\* The arena is 4096 bytes, size_t four: a product of two sizes no larger than the
\* arena does not wrap.
ASSUME HeapAssumption ==
  /\ HeapBytes \in Nat \ {0} /\ HeapBytes % 8 = 0
  /\ SizeT \in Nat /\ HeapBytes * HeapBytes + 16 <= SizeT
  /\ Requests \subseteq 0..(SizeT - 1)
  /\ MaxLive \in Nat /\ MaxErrors \in Nat

OMNI_ALIGN  == 8
HDR_ALIGNED == 8
MIN_PAYLOAD == 8

VARIABLES arena, errors,
          live      \* what the caller holds: [pointer -> [n, stamp]]
heapVars == <<arena, errors, live>>

NoBlock == -1     \* the null pointer
Offsets == {o \in 0..(HeapBytes - 1) : o % OMNI_ALIGN = 0}

AlignDown(n) == n - (n % OMNI_ALIGN)
align_up(n)  == AlignDown((n + OMNI_ALIGN - 1) % SizeT)

need(n) == align_up((HDR_ALIGNED + n) % SizeT)

Header(size, magic) == [size |-> size, magic |-> magic]
Data(stamp) == [size |-> stamp, magic |-> "data"]

heap_init == [o \in Offsets |-> IF o = 0 THEN Header(HeapBytes, "free") ELSE Data(0)]

HeapInit == arena = heap_init /\ errors = 0 /\ live = << >>

is_free(a, b) == a[b].magic = "free"

\* What a loop over the blocks takes at most.
MaxBlocks == HeapBytes \div OMNI_ALIGN

\* One turn of a walk: w.b is the block it has come to, w.met those behind it.
Onward(a, w) ==
  IF w.b < HeapBytes THEN [b |-> w.b + a[w.b].size, met |-> w.met \cup {w.b}] ELSE w

\* The headers met on a walk of arena a.
Walk(a) ==
  LET turn[i \in 0..MaxBlocks] == IF i = 0 THEN [b |-> 0, met |-> {}] ELSE Onward(a, turn[i - 1])
  IN  turn[MaxBlocks].met

------------------------------------------------------------------------------
\* Mutant: the loop moves on after a merge instead of trying the next block.
Merged_Pairs(c) ==
  LET next == c.b + c.a[c.b].size
  IN  IF next >= HeapBytes THEN c
      ELSE IF is_free(c.a, c.b) /\ is_free(c.a, next)
        THEN [b |-> next, a |-> [c.a EXCEPT ![c.b].size = @ + c.a[next].size]]
        ELSE [c EXCEPT !.b = next]

\* One turn of coalesce's loop, at block c.b of arena c.a: merge or move on.
Merged(c) ==
  LET next == c.b + c.a[c.b].size
  IN  IF next >= HeapBytes THEN c
      ELSE IF is_free(c.a, c.b) /\ is_free(c.a, next)
        THEN [b |-> c.b, a |-> [c.a EXCEPT ![c.b].size = @ + c.a[next].size]]
        ELSE [c EXCEPT !.b = next]

coalesce(a) ==
  LET turn[i \in 0..MaxBlocks] == IF i = 0 THEN [b |-> 0, a |-> a] ELSE Merged(turn[i - 1])
  IN  turn[MaxBlocks].a

\* Keep the first n bytes of block b; the rest, if it can hold a header and a
\* payload, becomes a free block.
split(a, b, n) ==
  IF a[b].size - n >= HDR_ALIGNED + MIN_PAYLOAD
    THEN [a EXCEPT ![b + n] = Header(a[b].size - n, "free"), ![b].size = n]
    ELSE a

\* Mutant: first fit wants a block larger than the need.
fits_Strictly(a, b, n) == is_free(a, b) /\ a[b].size > need(n)

fits(a, b, n) == is_free(a, b) /\ a[b].size >= need(n)

\* What malloc(n) returns and makes of arena a: the first block that fits.
malloc(a, n) ==
  LET found == {b \in Walk(a) : fits(a, b, n)}
  IN  IF n = 0 \/ need(n) > HeapBytes \/ found = {} THEN [p |-> NoBlock, a |-> a]
      ELSE [p |-> Min(found) + HDR_ALIGNED,
            a |-> [split(a, Min(found), need(n)) EXCEPT ![Min(found)].magic = "used"]]

\* The block whose payload p is, if it is live.
find(a, p) == {b \in Walk(a) : b + HDR_ALIGNED = p /\ a[b].magic = "used"}

free(a, p) == IF find(a, p) = {} THEN a
              ELSE coalesce([a EXCEPT ![p - HDR_ALIGNED].magic = "free"])

\* The cells that n bytes at p touch.
Cells(p, n) == {o \in Offsets : o >= p /\ o < p + n}
Fill(a, p, n, stamp) == [o \in Offsets |-> IF o \in Cells(p, n) THEN Data(stamp) ELSE a[o]]

\* Mutant: the neighbour's magic is not looked at before it is absorbed.
absorbs_AnyNeighbour(a, b, n) ==
  LET next == b + a[b].size IN next < HeapBytes /\ a[b].size + a[next].size >= need(n)

absorbs(a, b, n) ==
  LET next == b + a[b].size
  IN  next < HeapBytes /\ is_free(a, next) /\ a[b].size + a[next].size >= need(n)

\* realloc(p, n) of a live p with n > 0: shrink in place, grow into a free neighbour,
\* or move, copying what both sizes have.
realloc(a, p, n) ==
  LET b   == p - HDR_ALIGNED
      old == a[b].size
  IN  IF need(n) <= old
        THEN [p |-> p, a |-> IF old - need(n) >= HDR_ALIGNED + MIN_PAYLOAD
                               THEN coalesce(split(a, b, need(n))) ELSE a]
      ELSE IF absorbs(a, b, n)
        THEN [p |-> p, a |-> split([a EXCEPT ![b].size = old + a[b + old].size], b, need(n))]
      ELSE LET m    == malloc(a, n)
               copy == Min({old - HDR_ALIGNED, n})
           IN  IF m.p = NoBlock THEN m
               ELSE [p |-> m.p,
                     a |-> free([o \in Offsets |-> IF o \in Cells(m.p, copy) THEN m.a[o - m.p + p] ELSE m.a[o]], p)]

heap_largest_free(a) == Max({0} \cup {a[b].size - HDR_ALIGNED : b \in {c \in Walk(a) : is_free(a, c)}})

heap_check(a) ==
  LET blocks == Walk(a)
  IN  /\ \A b \in blocks :
           /\ a[b].size >= HDR_ALIGNED /\ a[b].size % OMNI_ALIGN = 0
           /\ a[b].magic \in {"free", "used"}
           /\ b + a[b].size \in blocks => ~(is_free(a, b) /\ is_free(a, b + a[b].size))
      /\ \E b \in blocks : b + a[b].size = HeapBytes

------------------------------------------------------------------------------
(* The caller.                                                             *)

Small == {n \in Requests : n <= HeapBytes}

Granted == {n \in Small \cup {m * size : m \in Small, size \in Small} : n <= HeapBytes}

Promise == INSTANCE HeapPromise WITH Align <- OMNI_ALIGN, Stamps <- 0..MaxLive, Sizes <- Granted

FreshStamp == Min(1..MaxLive \ {live[q].stamp : q \in DOMAIN live})

\* It fills what it gets; calloc's zeroes are the stamp 0.
Took(m, n, stamp) ==
  /\ arena' = IF m.p = NoBlock THEN m.a ELSE Fill(m.a, m.p, n, stamp)
  /\ live' = IF m.p = NoBlock THEN live ELSE Promise!With(live, m.p, n, stamp)
  /\ UNCHANGED errors

Malloc == Cardinality(DOMAIN live) < MaxLive /\ \E n \in Requests : Took(malloc(arena, n), n, FreshStamp)

\* A product that overflows is refused before malloc sees it.
calloc_refuses(n, size) ==
  LET total == (n * size) % SizeT
  IN  \/ n = 0 \/ size = 0 \/ n > HeapBytes \/ size > HeapBytes
      \/ total \div n # size

Calloc ==
  /\ Cardinality(DOMAIN live) < MaxLive
  /\ \E n \in Requests, size \in Requests :
       /\ ~calloc_refuses(n, size)
       /\ Took(malloc(arena, n * size), n * size, 0)

\* free of a live pointer, or of one that is not: counted, nothing else.
Free ==
  \E p \in Offsets :
    /\ arena' = free(arena, p)
    /\ IF find(arena, p) = {} THEN errors < MaxErrors /\ errors' = errors + 1 /\ UNCHANGED live
                              ELSE live' = Promise!Without(live, p) /\ UNCHANGED errors

\* The caller writes the part it gained.
Realloc ==
  \E p \in DOMAIN live, n \in Requests \ {0} :
    LET r == realloc(arena, p, n)
        gained == Cells(r.p, n) \ Cells(r.p, Min({n, live[p].n}))
    IN  /\ arena' = IF r.p = NoBlock THEN r.a
                    ELSE [o \in Offsets |-> IF o \in gained THEN Data(live[p].stamp) ELSE r.a[o]]
        /\ live' = IF r.p = NoBlock THEN live ELSE Promise!With(Promise!Without(live, p), r.p, n, live[p].stamp)
        /\ UNCHANGED errors

\* realloc to nothing frees; of a pointer that is not live, it only counts.
ReallocZero ==
  \E p \in DOMAIN live : arena' = free(arena, p) /\ live' = Promise!Without(live, p) /\ UNCHANGED errors
ReallocWild ==
  /\ \E p \in Offsets : find(arena, p) = {}
  /\ errors < MaxErrors /\ errors' = errors + 1
  /\ UNCHANGED <<arena, live>>

HeapNext == Malloc \/ Calloc \/ Free \/ Realloc \/ ReallocZero \/ ReallocWild
HeapSpec == HeapInit /\ [][HeapNext]_heapVars

------------------------------------------------------------------------------
\* The arena satisfies the code's own checker after every call: the blocks tile it and
\* no two neighbours are free (heap_check).  And the caller can free what it holds and
\* nothing else: the used blocks of the walk are the live pointers, so no block is ever
\* lost to the heap (find, free).  And it reads what it wrote: no header, no copy and
\* no other block's bytes ever come to lie in a live block, and a block that realloc
\* moves takes its bytes along (malloc, free, realloc, coalesce).
HeapChecked ==
  /\ heap_check(arena)
  /\ {b + HDR_ALIGNED : b \in {c \in Walk(arena) : ~is_free(arena, c)}} = DOMAIN live
  /\ \A p \in DOMAIN live : \A o \in Cells(p, live[p].n) : arena[o] = Data(live[p].stamp)

\* The allocator gives out disjoint, aligned ranges of the arena, and a failed realloc
\* leaves its block alone (malloc, free, realloc).
ImplementsPromise == Promise!Spec

\* malloc fails only when no free block could hold the request (malloc's first fit).
FailsOnlyWhenFull == \A n \in Requests : (n > 0 /\ malloc(arena, n).p = NoBlock) => n > heap_largest_free(arena)
=============================================================================
