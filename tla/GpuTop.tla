-------------------------------- MODULE GpuTop ------------------------------
(***************************************************************************)
(* The GPU core (gpu_top.v): the warp scheduler, the lanes' effect on a    *)
(* warp's registers, and the handshake through which LDG and STG reach the *)
(* memory.  One step is one rising clock edge.                             *)
(*                                                                         *)
(* The four lanes of a warp compute the same here, in one register: global *)
(* accesses are warp-uniform, and no property tells ALU operations apart.  *)
(* The memory answers a request in some later cycle, at one instant, as    *)
(* UnifiedMemory shows the arbiter and the RAM do.                         *)
(***************************************************************************)
EXTENDS WarpScheduler

CONSTANTS GAddr,        \* global addresses
          MaxLaunches   \* bound: launches

GData == {0, 1}

ASSUME GAddrAssumption ==
  /\ MaxLaunches \in Nat
  /\ \A p \in Pc : Code[p].op \in {"ldg", "stg"} => Code[p].arg \in GAddr

VARIABLES
  acc,          \* per warp: the register it computes in
  gmem,         \* the global memory
  g_busy,       \* a transaction is on the bus
  g_done,       \* it is over and its instruction not yet accepted
  g_is_load, g_done_warp, g_addr_l, g_wdata_l,   \* latched at g_start
  g_rdata,
  launches      \* how many warps were launched (bound)

gVars == <<g_busy, g_done, g_is_load, g_done_warp, g_addr_l, g_wdata_l, g_rdata>>
vars  == <<schedVars, gVars, acc, gmem, launches>>

Init ==
  /\ SchedInit
  /\ acc = [w \in Warps |-> 0]
  /\ gmem = [a \in GAddr |-> 0]
  /\ g_busy = FALSE /\ g_done = FALSE /\ g_is_load = FALSE
  /\ g_done_warp = 0 /\ g_addr_l \in GAddr /\ g_wdata_l = 0 /\ g_rdata = 0
  /\ launches = 0

is_global == instr.op \in {"ldg", "stg"}
g_start   == issue_valid /\ ~g_busy /\ ~g_done /\ is_global

\* Mutant: the completion without its warp tag.
g_done_here_AnyWarp == g_done

\* Only the warp whose transaction is over may be accepted.
g_done_here == g_done /\ g_done_warp = issue_id
issue_ready == is_global => g_done_here

mem_addr == g_addr_l

\* ack: the arbiter acknowledges the request in this cycle.
g_finish(ack) == g_busy /\ ack

FlagEdge(ack) ==
  /\ g_busy' = IF g_start THEN TRUE ELSE IF g_finish(ack) THEN FALSE ELSE g_busy
  /\ g_done' = IF Accepted(issue_ready) /\ is_global THEN FALSE
               ELSE IF g_finish(ack) THEN TRUE
               ELSE IF g_start THEN FALSE
               ELSE g_done

Latch == /\ g_is_load' = (instr.op = "ldg")
         /\ g_done_warp' = issue_id
         /\ g_addr_l' = instr.arg
         /\ g_wdata_l' = acc[issue_id]
Keep  == UNCHANGED <<g_is_load, g_done_warp, g_addr_l, g_wdata_l>>

\* Mutant: the request is taken off the issue stage while the transaction is open.
LatchEdge_Recomputed == IF g_start \/ (g_busy /\ is_global) THEN Latch ELSE Keep

LatchEdge == IF g_start THEN Latch ELSE Keep

GlobalEdge(ack) ==
  /\ FlagEdge(ack)
  /\ LatchEdge
  /\ g_rdata' = IF g_finish(ack) /\ g_is_load THEN gmem[mem_addr] ELSE g_rdata

MemoryEdge(ack) ==
  gmem' = IF g_finish(ack) /\ ~g_is_load THEN [gmem EXCEPT ![mem_addr] = g_wdata_l] ELSE gmem

\* The lanes act on acceptance, not on presence.
LaneEdge ==
  acc' = [w \in Warps |->
    IF ~(Accepted(issue_ready) /\ issue_id = w) THEN acc[w]
    ELSE CASE instr.op = "ldg" -> g_rdata
           [] instr.op = "alu" -> 1 - acc[w]
           [] OTHER -> acc[w]]

Edge(ack, launch) ==
  /\ launch.go => launches < MaxLaunches
  /\ launches' = IF launch.go THEN launches + 1 ELSE launches
  /\ SchedEdge(issue_ready, launch)
  /\ GlobalEdge(ack) /\ MemoryEdge(ack) /\ LaneEdge

Next == \E ack \in BOOLEAN, launch \in Launches : Edge(ack, launch)

Spec == Init /\ [][Next]_vars

\* The clock runs, and the memory acknowledges in the end (UnifiedMemory,
\* GpuServed).
Served   == Next /\ (g_busy => ~g_busy')
FairSpec == Spec /\ WF_vars(Next) /\ WF_vars(Served)

-----------------------------------------------------------------------------
TypeOK ==
  /\ SchedTypeOK
  /\ acc \in [Warps -> GData] /\ gmem \in [GAddr -> GData]
  /\ g_busy \in BOOLEAN /\ g_done \in BOOLEAN /\ g_is_load \in BOOLEAN
  /\ g_done_warp \in Warps /\ g_addr_l \in GAddr
  /\ g_wdata_l \in GData /\ g_rdata \in GData
  /\ launches \in 0..MaxLaunches

\* gpu_top.v:241-252: a transaction, and a completion not yet consumed, belong to
\* one warp, which is still waiting at the very instruction that began it.
TransactionHasOwner ==
  g_busy \/ g_done =>
    /\ ~(g_busy /\ g_done)
    /\ status[g_done_warp] = "READY"
    /\ Code[pc[g_done_warp]] =
         [op |-> IF g_is_load THEN "ldg" ELSE "stg", arg |-> g_addr_l]
    /\ ~g_is_load => g_wdata_l = acc[g_done_warp]

\* Every warp launched reaches its HALT, whatever the others do with the issue
\* slots, the bus and the barrier.
WarpsFinish == \A w \in Warps : status[w] # "IDLE" ~> status[w] = "IDLE"

-----------------------------------------------------------------------------
(***************************************************************************)
(* A kernel's view.  A global access counts as executed when the memory    *)
(* has answered, before the issue stage accepts the instruction.           *)
(***************************************************************************)
absSt == [w \in Warps |-> CASE status[w] = "IDLE" -> "idle"
                            [] status[w] = "BARRIER" -> "barrier"
                            [] OTHER -> "active"]
absPc == [w \in Warps |-> IF g_done /\ g_done_warp = w THEN (pc[w] + 1) % CodeSize ELSE pc[w]]
absAcc == [w \in Warps |-> IF g_done /\ g_done_warp = w /\ g_is_load THEN g_rdata ELSE acc[w]]

Kernel == INSTANCE SimtWarps WITH st <- absSt, pc <- absPc, acc <- absAcc

\* Interleaved as they are on one issue slot, one bus and one barrier, the warps
\* execute their kernels as SimtWarps says: no instruction twice, none skipped, no
\* warp with another's data, no warp out of a barrier early.
ImplementsKernel == Kernel!Spec
=============================================================================
