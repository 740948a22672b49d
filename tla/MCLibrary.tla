------------------------------ MODULE MCLibrary -----------------------------
(***************************************************************************)
(* Model checking the firmware library: the C functions (LibraryCalls) and *)
(* the heap (Allocator).  They share no state, so a caller that uses one   *)
(* or the other meets everything either can do.                            *)
(***************************************************************************)
EXTENDS LibraryCalls, Allocator

HeapUnused  == arena = heap_init /\ errors = 0 /\ live = << >>
CallsUnused == Fresh /\ call = None

LibraryInit == Init /\ HeapInit
LibraryNext == \/ HeapUnused /\ Next /\ UNCHANGED heapVars
               \/ CallsUnused /\ HeapNext /\ UNCHANGED vars
Library == LibraryInit /\ [][LibraryNext]_<<vars, heapVars>>
=============================================================================
