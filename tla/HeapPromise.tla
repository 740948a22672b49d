----------------------------- MODULE HeapPromise ----------------------------
(***************************************************************************)
(* What malloc, free and realloc promise their callers: a live pointer is  *)
(* aligned, its bytes lie in the arena and belong to no other live pointer *)
(* until it is freed.  That they still are what was written there is       *)
(* Allocator's HeapChecked.                                                *)
(***************************************************************************)
EXTENDS Integers, Functions

CONSTANTS HeapBytes, Align, Sizes, Stamps

VARIABLE live   \* [pointer -> [n, stamp]]: what was asked for and written there

Pointers == {p \in 0..HeapBytes : p % Align = 0}

Apart(p, n, q, m) == p + n <= q \/ q + m <= p
Fits(l, p, n)     == p + n <= HeapBytes /\ \A q \in DOMAIN l : Apart(p, n, q, l[q].n)

With(l, p, n, stamp) == [q \in DOMAIN l \cup {p} |-> IF q = p THEN [n |-> n, stamp |-> stamp] ELSE l[q]]
Without(l, p)        == Restrict(l, DOMAIN l \ {p})

Init == live = << >>

Allocate == \E p \in Pointers, n \in Sizes, stamp \in Stamps :
              live' = With(live, p, n, stamp) /\ Fits(live, p, n)
Release  == \E p \in DOMAIN live : live' = Without(live, p)
\* The block may move; it is still the one its caller wrote to.
Resize   == \E p \in DOMAIN live, q \in Pointers, n \in Sizes :
              /\ live' = With(Without(live, p), q, n, live[p].stamp)
              /\ Fits(Without(live, p), q, n)

Next == Allocate \/ Release \/ Resize
Spec == Init /\ [][Next]_live
=============================================================================
