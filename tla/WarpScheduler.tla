---------------------------- MODULE WarpScheduler ---------------------------
(***************************************************************************)
(* The GPU's warp scheduler (warp_scheduler.v) with the instruction memory *)
(* it fetches from (gpu_fetch.v) and the completion register of gpu_top.   *)
(* One step is one rising clock edge.                                      *)
(*                                                                         *)
(* Each cycle one warp slot is fetched for, in turn, and the slot fetched  *)
(* for in the cycle before is issued.  What the lanes do with an           *)
(* instruction, and when they are ready for it, is GpuTop's; here they are *)
(* ready in any cycle.                                                     *)
(***************************************************************************)
EXTENDS Integers, FiniteSets

CONSTANTS NumWarps,   \* warp slots
          CodeSize,   \* depth of imem
          Code,       \* imem: a kernel image
          Entries,    \* the addresses software launches warps at
          Careful     \* software keeps the launch discipline (CanLaunch)

ASSUME NumWarpsAssumption == NumWarps \in Nat \ {0}
ASSUME CodeAssumption == /\ CodeSize \in Nat \ {0}
                         /\ Entries \subseteq 0..(CodeSize - 1)
                         /\ Careful \in BOOLEAN

Warps  == 0..(NumWarps - 1)
Pc     == 0..(CodeSize - 1)
Status == {"IDLE", "READY", "EXEC", "BARRIER"}

\* A decoded instruction (gpu_decode.v): arg is a branch's target or the address
\* of a global access.
Op       == {"alu", "branch", "barrier", "ldg", "stg", "halt"}
GpuInstr == [op : Op, arg : Nat]

ASSUME ImageAssumption ==
  /\ Code \in [Pc -> GpuInstr]
  /\ \A p \in Pc : Code[p].op = "branch" => Code[p].arg \in Pc

VARIABLES
  pc, status,        \* per warp
  rr_ptr,            \* whose turn it is to be fetched for
  issue_id,          \* the warp whose fetch the instruction register holds
  issue_pend,        \* it was READY when it was fetched for
  instr,             \* gpu_fetch.instr_reg
  barrier_cnt, barrier_expected,
  complete,          \* gpu_top.complete_valid, complete_warp_id
  met                \* history: a BARRIER was issued since the GPU was last idle

schedVars == <<pc, status, rr_ptr, issue_id, issue_pend, instr,
               barrier_cnt, barrier_expected, complete, met>>

active   == {w \in Warps : status[w] # "IDLE"}
AtBarrier == {w \in Warps : status[w] = "BARRIER"}

SchedInit ==
  /\ pc = [w \in Warps |-> 0]
  /\ status = [w \in Warps |-> "IDLE"]
  /\ rr_ptr = 0 /\ issue_id = 0 /\ issue_pend = FALSE
  /\ instr = Code[0]
  /\ barrier_cnt = 0 /\ barrier_expected = 0
  /\ complete = [valid |-> FALSE, id |-> 0]
  /\ met = FALSE

issue_valid == issue_pend /\ status[issue_id] = "READY"

\* Mutant: the barrier waits for every slot, launched or not.
release_AllSlots == barrier_cnt = NumWarps

\* The barrier opens one cycle after the last warp has arrived.
release == barrier_cnt # 0 /\ barrier_cnt = barrier_expected

Accepted(ready) == issue_valid /\ ready
Arrival(ready)  == Accepted(ready) /\ instr.op = "barrier"

(***************************************************************************)
(* A launch is the command processor's pulse.  The discipline software has *)
(* to keep: launch idle slots only, and none between the first BARRIER of  *)
(* a batch and the end of the batch.                                       *)
(***************************************************************************)
NoLaunch == [go |-> FALSE, id |-> 0, pc |-> 0]

CanLaunch(w) ==
  Careful => /\ status[w] = "IDLE"
             /\ ~met
             /\ ~(issue_valid /\ instr.op = "barrier")

Launches == {NoLaunch} \cup
            {[go |-> TRUE, id |-> w, pc |-> e] : w \in {v \in Warps : CanLaunch(v)}, e \in Entries}

Launched(launch, w) == launch.go /\ launch.id = w

(***************************************************************************)
(* The edge of each register.  The order of the alternatives is the        *)
(* reverse of the order of the assignments: the last one wins.             *)
(***************************************************************************)
AfterIssue ==
  CASE instr.op = "halt"    -> "IDLE"
    [] instr.op = "barrier" -> "BARRIER"
    [] OTHER                -> "EXEC"

NextPc(p, i) == IF i.op = "branch" THEN i.arg ELSE (p + 1) % CodeSize

StatusEdge(ready, launch) ==
  status' = [w \in Warps |->
    IF Launched(launch, w) THEN "READY"
    ELSE IF complete.valid /\ complete.id = w /\ status[w] = "EXEC" THEN "READY"
    ELSE IF release /\ status[w] = "BARRIER" THEN "READY"
    ELSE IF Accepted(ready) /\ issue_id = w THEN AfterIssue
    ELSE status[w]]

PcEdge(ready, launch) ==
  pc' = [w \in Warps |->
    IF Launched(launch, w) THEN launch.pc
    ELSE IF Accepted(ready) /\ issue_id = w /\ instr.op # "halt" THEN NextPc(pc[w], instr)
    ELSE pc[w]]

\* Mutants: the count survives the release; the warps that execute are not counted.
BarrierEdge_NoReset(ready) ==
  /\ barrier_cnt' = IF Arrival(ready) THEN barrier_cnt + 1 ELSE barrier_cnt
  /\ barrier_expected' = IF Arrival(ready) /\ barrier_cnt = 0 THEN Cardinality(active)
                         ELSE barrier_expected

BarrierEdge_CountsReady(ready) ==
  /\ barrier_cnt' = IF release THEN 0
                    ELSE IF Arrival(ready) THEN barrier_cnt + 1 ELSE barrier_cnt
  /\ barrier_expected' = IF release THEN 0
                         ELSE IF Arrival(ready) /\ barrier_cnt = 0
                           THEN Cardinality({w \in Warps : status[w] = "READY"})
                         ELSE barrier_expected

BarrierEdge(ready) ==
  /\ barrier_cnt' = IF release THEN 0
                    ELSE IF Arrival(ready) THEN barrier_cnt + 1 ELSE barrier_cnt
  /\ barrier_expected' = IF release THEN 0
                         ELSE IF Arrival(ready) /\ barrier_cnt = 0 THEN Cardinality(active)
                         ELSE barrier_expected

\* Mutants: a pointer without its width; a slot pending whatever its state was.
FetchEdge_NoWrap ==
  /\ rr_ptr' = rr_ptr + 1
  /\ issue_id' = rr_ptr
  /\ issue_pend' = (status[rr_ptr] = "READY")
  /\ instr' = Code[pc[rr_ptr]]

FetchEdge_AlwaysPending ==
  /\ rr_ptr' = (rr_ptr + 1) % NumWarps
  /\ issue_id' = rr_ptr
  /\ issue_pend' = TRUE
  /\ instr' = Code[pc[rr_ptr]]

FetchEdge ==
  /\ rr_ptr' = (rr_ptr + 1) % NumWarps
  /\ issue_id' = rr_ptr
  /\ issue_pend' = (status[rr_ptr] = "READY")
  /\ instr' = Code[pc[rr_ptr]]

\* Mutant: the completion names the slot being fetched for.
CompleteEdge_FetchSlot == complete' = [valid |-> issue_valid /\ instr.op # "halt", id |-> rr_ptr]

\* One cycle after an instruction was presented, accepted or not.
CompleteEdge == complete' = [valid |-> issue_valid /\ instr.op # "halt", id |-> issue_id]

History(ready) ==
  met' = IF \A w \in Warps : status'[w] = "IDLE" THEN FALSE ELSE met \/ Arrival(ready)

SchedEdge(ready, launch) ==
  /\ StatusEdge(ready, launch) /\ PcEdge(ready, launch) /\ BarrierEdge(ready)
  /\ FetchEdge /\ CompleteEdge /\ History(ready)

SchedNext == \E ready \in BOOLEAN, launch \in Launches : SchedEdge(ready, launch)

SchedSpec == SchedInit /\ [][SchedNext]_schedVars

-----------------------------------------------------------------------------
SchedTypeOK ==
  /\ pc \in [Warps -> Pc]
  /\ status \in [Warps -> Status]
  /\ rr_ptr \in Warps /\ issue_id \in Warps /\ issue_pend \in BOOLEAN
  /\ instr \in {Code[p] : p \in Pc}
  /\ barrier_cnt \in Nat /\ barrier_expected \in Nat
  /\ complete \in [valid : BOOLEAN, id : Warps]
  /\ met \in BOOLEAN

\* warp_scheduler.v:4-8: "the instruction issuing for warp w is exactly the one
\* fetched at pc[w] last cycle".  The pc is read a cycle before the instruction is
\* used, so whatever moves a pc or makes a warp READY in between could break it.
IssuesOwnInstruction == issue_valid => instr = Code[pc[issue_id]]

\* A warp that executes has its completion on the way: nothing else ever makes it
\* READY again.
ExecCompletes ==
  \A w \in Warps : status[w] = "EXEC" => complete.valid /\ complete.id = w

\* The counters agree with the warps: as many have arrived as wait, and the number
\* fixed by the first arrival is the number of warps that must arrive.
BarrierCounts ==
  /\ barrier_cnt = Cardinality(AtBarrier)
  /\ barrier_cnt # 0 => barrier_expected >= Cardinality(active)

\* README.md:231: "parks a warp in a WAIT state until every active warp has issued
\* its own BARRIER, then releases them together".
BarrierReleasesAll == release => AtBarrier = active
=============================================================================
