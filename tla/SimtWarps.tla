------------------------------ MODULE SimtWarps -----------------------------
(***************************************************************************)
(* What the GPU promises its kernels: every warp executes its own          *)
(* instructions in program order, each once; a global load or store takes  *)
(* effect at one instant on the shared memory; a BARRIER holds a warp      *)
(* until every active warp has reached one.  No pipeline, no arbitration   *)
(* between warps: in one step several warps may each make progress.        *)
(***************************************************************************)
EXTENDS Integers

CONSTANTS Warps, CodeSize, Code, Entries, GAddr, GData

VARIABLES st,    \* per warp: "idle", "active" or "barrier"
          pc,    \* per warp
          acc,   \* per warp: the register a kernel computes in
          gmem   \* the memory

vars == <<st, pc, acc, gmem>>

Init == /\ st = [w \in Warps |-> "idle"]
        /\ pc = [w \in Warps |-> 0]
        /\ acc \in [Warps -> GData]
        /\ gmem \in [GAddr -> GData]

Becomes(w, s, p, a) == st'[w] = s /\ pc'[w] = p /\ acc'[w] = a

Stay(w) == Becomes(w, st[w], pc[w], acc[w])

Launch(w) == st[w] = "idle" /\ \E e \in Entries : Becomes(w, "active", e, acc[w])

\* The instruction at p is the warp's next one and takes it to q.
At(w, op)     == st[w] = "active" /\ Code[pc[w]].op = op
FallThrough(w) == (pc[w] + 1) % CodeSize

Alu(w)    == At(w, "alu") /\ Becomes(w, "active", FallThrough(w), 1 - acc[w])
Branch(w) == At(w, "branch") /\ Becomes(w, "active", Code[pc[w]].arg, acc[w])
Halt(w)   == At(w, "halt") /\ Becomes(w, "idle", pc[w], acc[w])
Arrive(w) == At(w, "barrier") /\ Becomes(w, "barrier", FallThrough(w), acc[w])
Load(w)   == At(w, "ldg") /\ Becomes(w, "active", FallThrough(w), gmem[Code[pc[w]].arg])
Store(w)  == At(w, "stg") /\ Becomes(w, "active", FallThrough(w), acc[w])

Local(w) == Stay(w) \/ Launch(w) \/ Alu(w) \/ Branch(w) \/ Halt(w) \/ Arrive(w)

\* At most one warp uses the memory in a step.
Tick == \/ (\A w \in Warps : Local(w)) /\ gmem' = gmem
        \/ \E w \in Warps :
             /\ \/ Load(w) /\ gmem' = gmem
                \/ Store(w) /\ gmem' = [gmem EXCEPT ![Code[pc[w]].arg] = acc[w]]
             /\ \A v \in Warps \ {w} : Local(v)

Release == /\ \A w \in Warps : st[w] # "active"
           /\ st' = [w \in Warps |-> IF st[w] = "barrier" THEN "active" ELSE st[w]]
           /\ UNCHANGED <<pc, acc, gmem>>

Next == Tick \/ Release

Spec == Init /\ [][Next]_vars
=============================================================================
