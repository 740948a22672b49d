---------------------------- MODULE UnifiedMemory ---------------------------
(***************************************************************************)
(* The data memory the CPU and the GPU share in soc_top: the CPU's         *)
(* cacheless memory port (mem_stage.v), the GPU's global-access handshake  *)
(* (gpu_top.v), the arbiter between them (mem_arbiter.v) and the block RAM *)
(* behind it (data_bram.v).  One step is one rising clock edge.            *)
(*                                                                         *)
(* What is abstracted: byte enables (an access is a whole word), and the   *)
(* GPU's issue stage, which here may present or accept an LDG/STG in any   *)
(* cycle; GpuTop puts the real one in its place.                           *)
(***************************************************************************)
EXTENDS Integers

CONSTANTS Addr,   \* word addresses of data_bram
          Data    \* word values

ASSUME AddrAssumption == Addr \subseteq Nat /\ 0 \in Addr
ASSUME DataAssumption == Data # {}

VARIABLES
  cpu,     \* the access in the CPU's MEM stage (the EX/MEM bundle)
  hold,    \* mem_stage.dbram_hold: the load has had its wait cycle
  gpu,     \* the access gpu_top has in flight (g_busy, g_is_load, g_addr_l, g_wdata_l)
  gDone,   \* gpu_top.g_done: that access is over and not yet accepted
  gData,   \* gpu_top.g_rdata
  rtag,    \* mem_arbiter.rtag: whose read the RAM is answering
  mem,     \* data_bram.mem
  rdata    \* data_bram.rdata: the registered read port

cpuVars == <<cpu, hold>>
gpuVars == <<gpu, gDone, gData>>
ramVars == <<rtag, mem, rdata>>
vars    == <<cpu, hold, gpu, gDone, gData, rtag, mem, rdata>>

NoReq    == [op |-> "none"]
ReadReq  == [op : {"read"}, addr : Addr]
WriteReq == [op : {"write"}, addr : Addr, data : Data]
Request  == ReadReq \cup WriteReq

Init ==
  /\ cpu = NoReq /\ hold = FALSE
  /\ gpu = NoReq /\ gDone = FALSE /\ gData \in Data
  /\ rtag = "none"
  /\ mem \in [Addr -> Data] /\ rdata \in Data

(***************************************************************************)
(* The arbiter's combinational outputs.                                    *)
(***************************************************************************)

m0_act == cpu.op # "none"
m1_act == gpu.op # "none"

\* The GPU is presented only when the CPU is silent and no read is in flight.
take_gpu == ~m0_act /\ m1_act /\ rtag = "none"

\* Mutant: the GPU has the priority.
granted_GpuFirst == IF m1_act THEN gpu ELSE cpu

\* The request on the RAM's port in this cycle.
granted == IF m0_act THEN cpu ELSE IF take_gpu THEN gpu ELSE NoReq

m1_read_ack  == rtag = "gpu"
\* Mutant: a store of the GPU is acknowledged without the grant.
m1_write_ack_Ungranted == gpu.op = "write"
m1_write_ack == take_gpu /\ gpu.op = "write"

g_finish == \/ gpu.op = "read" /\ m1_read_ack
            \/ m1_write_ack

(***************************************************************************)
(* The clock edge of each block.                                           *)
(***************************************************************************)

\* Mutants: the tag names the access, not the master; it is given without the
\* grant; it stays until the next read.
Arbiter_TagsAccess == rtag' = IF m0_act THEN cpu.op ELSE gpu.op
Arbiter_TagsUngranted ==
  rtag' = IF cpu.op = "read" THEN "cpu" ELSE IF gpu.op = "read" THEN "gpu" ELSE "none"
Arbiter_Sticky ==
  rtag' = IF cpu.op = "read" THEN "cpu"
          ELSE IF take_gpu /\ gpu.op = "read" THEN "gpu"
          ELSE rtag

Arbiter ==
  rtag' = IF cpu.op = "read" THEN "cpu"
          ELSE IF take_gpu /\ gpu.op = "read" THEN "gpu"
          ELSE "none"

\* Read and write share the address; the read is registered and sees the word
\* from before a write on the same edge.  An unused port presents address 0.
DataBram ==
  /\ rdata' = IF granted.op = "none" THEN mem[0] ELSE mem[granted.addr]
  /\ mem' = IF granted.op = "write" THEN [mem EXCEPT ![granted.addr] = granted.data]
                                    ELSE mem

\* mem_stage holds a data-window load for exactly one cycle.
mem_hold == cpu.op = "read" /\ ~hold

\* The load stays in MEM for its wait cycle.
CpuHold == /\ mem_hold
           /\ cpu' = cpu
           /\ hold' = TRUE

\* A synchronous trap, or a division that starts, clears the EX/MEM bundle from
\* EX even in the wait cycle (exec_stage.v:212-218).
CpuFlush == /\ mem_hold
            /\ cpu' = NoReq
            /\ hold' = TRUE

\* MEM/WB captures the access, EX/MEM receives the next instruction's (if it
\* has one).
CpuAdvance == /\ ~mem_hold
              /\ cpu' \in {NoReq} \cup Request
              /\ hold' = IF cpu.op = "read" THEN ~hold ELSE FALSE

Cpu == CpuHold \/ CpuFlush \/ CpuAdvance

\* g_start: the issue stage presents an LDG/STG and no transaction is open.
GpuStart == /\ ~m1_act /\ ~gDone
            /\ gpu' \in Request
            /\ UNCHANGED <<gDone, gData>>

GpuFinish == /\ g_finish
             /\ gpu' = NoReq
             /\ gDone' = TRUE
             /\ gData' = IF gpu.op = "read" THEN rdata ELSE gData

\* The issue stage accepts the instruction whose transaction has completed.
GpuAccept == /\ gDone
             /\ gDone' = FALSE
             /\ UNCHANGED <<gpu, gData>>

GpuWait == /\ ~g_finish
           /\ UNCHANGED gpuVars

Gpu == GpuStart \/ GpuFinish \/ GpuAccept \/ GpuWait

Next == Cpu /\ Gpu /\ Arbiter /\ DataBram

Spec == Init /\ [][Next]_vars

(***************************************************************************)
(* Fairness.  The clock runs, and the CPU leaves the memory alone for two  *)
(* cycles in a row again and again: a program that runs for ever takes a   *)
(* jump for ever, and a taken jump sends itself and two bubbles through    *)
(* MEM (exec_stage redirect, fetch_stage flush_q).  "A GPU access that     *)
(* loses arbitration simply retries" (mem_arbiter.v:11-12).                *)
(***************************************************************************)
CpuRests   == Next /\ (cpu'.op = "none")
CpuDrains  == CpuRests /\ ~m0_act

FairSpec == Spec /\ WF_vars(Next) /\ SF_vars(CpuRests) /\ SF_vars(CpuDrains)

-----------------------------------------------------------------------------
TypeOK ==
  /\ cpu \in {NoReq} \cup Request
  /\ hold \in BOOLEAN
  /\ gpu \in {NoReq} \cup Request
  /\ gDone \in BOOLEAN
  /\ gData \in Data
  /\ rtag \in {"none", "cpu", "gpu"}
  /\ mem \in [Addr -> Data]
  /\ rdata \in Data

\* The word MEM/WB captures at the end of a load's wait cycle is the word that is
\* in memory in that cycle: the self-timed CPU port, which ignores the acks, is
\* never handed the GPU's data or a word the GPU has since overwritten.
CpuLoadCurrent ==
  cpu.op = "read" /\ hold => rdata = mem[cpu.addr]

\* A read ack reaches the GPU only while it waits for a load, and the word on the
\* bus is then the current word of the address it asked for, whatever the CPU
\* does in that cycle.
GpuLoadCurrent ==
  m1_read_ack => gpu.op = "read" /\ rdata = mem[gpu.addr]

\* A global access of the GPU is over in the end.
GpuServed == m1_act ~> ~m1_act

-----------------------------------------------------------------------------
(***************************************************************************)
(* The abstract memory this implements.  A load has taken effect when the  *)
(* RAM's registered read port holds its word; a store takes effect on the  *)
(* edge that writes the RAM.                                               *)
(***************************************************************************)
Pend(r) == [st |-> "pending", req |-> r]
Over(v) == [st |-> "done", val |-> v]
Free    == [st |-> "idle"]

cpuPort == IF ~m0_act THEN Free
           ELSE IF cpu.op = "read" /\ hold THEN Over(rdata)
           ELSE Pend(cpu)

gpuPort == IF gDone THEN Over(gData)
           ELSE IF ~m1_act THEN Free
           ELSE IF m1_read_ack THEN Over(rdata)
           ELSE Pend(gpu)

Abstract == INSTANCE AtomicMemory
              WITH Ports <- {"cpu", "gpu"},
                   port <- [p \in {"cpu", "gpu"} |->
                              IF p = "cpu" THEN cpuPort ELSE gpuPort]

\* soc_top.v:40-43: both masters address the same bytes.  Every access of either
\* takes effect exactly once, at one instant, on one memory.
ImplementsAtomicMemory == Abstract!Spec
=============================================================================
