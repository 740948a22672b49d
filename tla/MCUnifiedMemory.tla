--------------------------- MODULE MCUnifiedMemory --------------------------
(***************************************************************************)
(* Model checking UnifiedMemory: two words and two values are enough for a *)
(* stale, a foreign and a lost word to differ from the right one.          *)
(***************************************************************************)
EXTENDS UnifiedMemory
=============================================================================
