---------------------------- MODULE GpuTopProofs ----------------------------
(***************************************************************************)
(* Proofs about WarpScheduler and GpuTop, for every number of warps, every *)
(* kernel and every set of addresses.                                      *)
(*                                                                         *)
(* Of the scheduler, SchedTypeOK and ExecCompletes hold whatever software  *)
(* does; the other invariants rest on the launch discipline (Careful).     *)
(* GpuTop is a WarpScheduler whose lanes are ready when the handshake says *)
(* so, and the handshake never loses its warp.                             *)
(***************************************************************************)
EXTENDS GpuTop, FiniteSetTheorems, TLAPS

\* The counters say what they should, and a count that is not zero means that a
\* BARRIER was issued in this batch: then no warp can be launched.
BarrierInv == BarrierCounts /\ (barrier_cnt # 0 => met)

-----------------------------------------------------------------------------
\* The slots and the addresses are what their ranges say.
LEMMA RangeFacts ==
  /\ 0 \in Warps /\ 0 \in Pc
  /\ Warps \subseteq Nat /\ Pc \subseteq Nat
  /\ IsFiniteSet(Warps)
  /\ \A n \in Nat : n % NumWarps \in Warps /\ n % CodeSize \in Pc
<1>1. IsFiniteSet(Warps)
  BY NumWarpsAssumption, FS_Interval DEF Warps
<1> QED
  BY <1>1, NumWarpsAssumption, CodeAssumption DEF Warps, Pc

\* The number of warps in a state is a number.
LEMMA SetFacts ==
  /\ IsFiniteSet(active) /\ Cardinality(active) \in Nat
  /\ IsFiniteSet(AtBarrier) /\ Cardinality(AtBarrier) \in Nat
  /\ AtBarrier \subseteq active
  /\ Cardinality(AtBarrier) <= Cardinality(active)
  /\ Cardinality(AtBarrier) = Cardinality(active) => AtBarrier = active
<1>1. active \in SUBSET Warps /\ AtBarrier \in SUBSET active
  BY DEF active, AtBarrier
<1>2. IsFiniteSet(active)
  BY <1>1, RangeFacts, FS_Subset
<1>3. IsFiniteSet(AtBarrier)
  BY <1>1, <1>2, FS_Subset
<1> QED
  BY <1>1, <1>2, <1>3, FS_Subset, FS_CardinalityType

-----------------------------------------------------------------------------
\* The types are kept by every clock edge.
LEMMA TypeStep == SchedTypeOK /\ [SchedNext]_schedVars => SchedTypeOK'
<1> SUFFICES ASSUME SchedTypeOK, [SchedNext]_schedVars PROVE SchedTypeOK'
  OBVIOUS
<1>1. CASE UNCHANGED schedVars
  BY <1>1 DEF SchedTypeOK, schedVars
<1>2. CASE SchedNext
  <2>1. PICK ready \in BOOLEAN, launch \in Launches : SchedEdge(ready, launch)
    BY <1>2 DEF SchedNext
  <2> USE <2>1 DEF SchedEdge
  <2>2. pc' \in [Warps -> Pc]
    <3>1. launch.go => launch.pc \in Pc
      BY CodeAssumption DEF Launches, NoLaunch, Pc
    <3>2. instr.op = "branch" => instr.arg \in Pc
      BY ImageAssumption DEF SchedTypeOK
    <3>3. \A w \in Warps : NextPc(pc[w], instr) \in Pc
      <4> SUFFICES ASSUME NEW w \in Warps PROVE NextPc(pc[w], instr) \in Pc
        OBVIOUS
      <4>1. pc[w] + 1 \in Nat
        <5>1. pc[w] \in Nat
          BY RangeFacts DEF SchedTypeOK
        <5> QED
          BY <5>1
      <4> QED
        BY <3>2, <4>1, RangeFacts DEF NextPc
    <3> QED
      BY <3>1, <3>3 DEF SchedTypeOK, PcEdge, Launched
  <2>3. status' \in [Warps -> Status]
    BY DEF SchedTypeOK, StatusEdge, AfterIssue, Status
  <2>4. rr_ptr' \in Warps /\ issue_id' \in Warps /\ issue_pend' \in BOOLEAN
    BY RangeFacts DEF SchedTypeOK, FetchEdge
  <2>5. instr' \in {Code[p] : p \in Pc}
    BY DEF SchedTypeOK, FetchEdge
  <2>6. barrier_cnt' \in Nat /\ barrier_expected' \in Nat
    BY SetFacts DEF SchedTypeOK, BarrierEdge
  <2>7. complete' \in [valid : BOOLEAN, id : Warps]
    BY DEF SchedTypeOK, CompleteEdge, issue_valid
  <2>8. met' \in BOOLEAN
    BY DEF SchedTypeOK, History, Arrival, Accepted, issue_valid
  <2> QED
    BY <2>2, <2>3, <2>4, <2>5, <2>6, <2>7, <2>8 DEF SchedTypeOK
<1> QED
  BY <1>1, <1>2

LEMMA SchedInitType == SchedInit => SchedTypeOK
<1> SUFFICES ASSUME SchedInit PROVE SchedTypeOK
  OBVIOUS
<1>1. complete \in [valid : BOOLEAN, id : Warps]
  BY RangeFacts DEF SchedInit
<1>2. pc \in [Warps -> Pc] /\ status \in [Warps -> Status]
  BY RangeFacts DEF SchedInit, Status
<1> QED
  BY <1>1, <1>2, RangeFacts DEF SchedInit, SchedTypeOK

\* Whatever is launched, and whenever, the registers keep their ranges: the
\* pointers wrap, the counters count (warp_scheduler.v:66-135).
THEOREM SchedTypeCorrect == SchedSpec => []SchedTypeOK
BY SchedInitType, TypeStep, PTL DEF SchedSpec

-----------------------------------------------------------------------------
\* An instruction that is accepted has its completion raised on the same edge, and
\* the completion is consumed on the next.
LEMMA CompleteStep == SchedTypeOK /\ ExecCompletes /\ [SchedNext]_schedVars => ExecCompletes'
<1> SUFFICES ASSUME SchedTypeOK, ExecCompletes, [SchedNext]_schedVars,
                    NEW w \in Warps, status'[w] = "EXEC"
             PROVE  complete'.valid /\ complete'.id = w
  BY DEF ExecCompletes
<1>1. CASE UNCHANGED schedVars
  BY <1>1 DEF ExecCompletes, schedVars
<1>2. CASE SchedNext
  <2>1. PICK ready \in BOOLEAN, launch \in Launches : SchedEdge(ready, launch)
    BY <1>2 DEF SchedNext
  <2>2. status[w] # "EXEC"
    BY <2>1 DEF SchedEdge, StatusEdge, ExecCompletes
  <2>3. Accepted(ready) /\ issue_id = w /\ AfterIssue = "EXEC"
    BY <2>1, <2>2 DEF SchedEdge, StatusEdge
  <2>4. instr.op # "halt"
    BY <2>3 DEF AfterIssue
  <2> QED
    BY <2>1, <2>3, <2>4 DEF SchedEdge, CompleteEdge, Accepted
<1> QED
  BY <1>1, <1>2

\* No warp is left in EXEC, however software launches (gpu_top.v:309-317).
THEOREM NoWarpStrandedInExec == SchedSpec => []ExecCompletes
<1>1. SchedInit => ExecCompletes
  BY DEF SchedInit, ExecCompletes
<1> QED
  BY <1>1, CompleteStep, SchedTypeCorrect, PTL DEF SchedSpec

-----------------------------------------------------------------------------
\* A warp that is READY on both sides of an edge has not moved.
LEMMA ReadyWarpStays ==
  ASSUME SchedTypeOK, Careful,
         NEW ready \in BOOLEAN, NEW launch \in Launches, SchedEdge(ready, launch),
         NEW w \in Warps, status[w] = "READY", status'[w] = "READY"
  PROVE  pc'[w] = pc[w]
<1>1. ~Launched(launch, w)
  BY DEF Launched, Launches, NoLaunch, CanLaunch
<1>2. ~(Accepted(ready) /\ issue_id = w)
  BY <1>1 DEF SchedEdge, StatusEdge, AfterIssue
<1> QED
  BY <1>1, <1>2 DEF SchedEdge, PcEdge, SchedTypeOK

LEMMA IssueStep ==
  ASSUME Careful
  PROVE  SchedTypeOK /\ IssuesOwnInstruction /\ [SchedNext]_schedVars => IssuesOwnInstruction'
<1> SUFFICES ASSUME SchedTypeOK, IssuesOwnInstruction, [SchedNext]_schedVars, issue_valid'
             PROVE  instr' = Code[pc'[issue_id']]
  BY DEF IssuesOwnInstruction
<1>1. CASE UNCHANGED schedVars
  BY <1>1 DEF IssuesOwnInstruction, issue_valid, schedVars
<1>2. CASE SchedNext
  <2>1. PICK ready \in BOOLEAN, launch \in Launches : SchedEdge(ready, launch)
    BY <1>2 DEF SchedNext
  <2>2. issue_id' = rr_ptr /\ status[rr_ptr] = "READY" /\ instr' = Code[pc[rr_ptr]]
    BY <2>1 DEF SchedEdge, FetchEdge, issue_valid
  <2>3. status'[rr_ptr] = "READY"
    BY <2>2 DEF issue_valid
  <2>4. pc'[rr_ptr] = pc[rr_ptr]
    BY <2>1, <2>2, <2>3, ReadyWarpStays DEF SchedTypeOK
  <2> QED
    BY <2>2, <2>4
<1> QED
  BY <1>1, <1>2

\* With idle slots launched only, the instruction issued for a warp is the one at
\* its pc, although the pc was read a cycle before (warp_scheduler.v:4-8).
THEOREM IssuedInstructionIsOwn ==
  ASSUME Careful
  PROVE  SchedSpec => []IssuesOwnInstruction
<1>1. SchedInit => IssuesOwnInstruction
  BY DEF SchedInit, IssuesOwnInstruction, issue_valid
<1> QED
  BY <1>1, IssueStep, SchedTypeCorrect, PTL DEF SchedSpec

-----------------------------------------------------------------------------
\* When the barrier opens every active warp is at it.
LEMMA ReleaseMeansAll ==
  ASSUME SchedTypeOK, BarrierCounts
  PROVE  BarrierReleasesAll
<1>1. release => Cardinality(AtBarrier) >= Cardinality(active)
  BY DEF BarrierCounts, release
<1> QED
  BY <1>1, SetFacts DEF BarrierReleasesAll

\* So none is issued for on that edge.
LEMMA NoIssueAtRelease ==
  ASSUME SchedTypeOK, BarrierCounts, release
  PROVE  ~issue_valid
BY ReleaseMeansAll DEF BarrierReleasesAll, AtBarrier, active, issue_valid, SchedTypeOK

\* The four kinds of edge.  While a BARRIER of this batch is known of, or is being
\* issued, software launches nothing.
LEMMA NoLaunchOnceMet ==
  ASSUME Careful, NEW ready \in BOOLEAN, NEW launch \in Launches, met \/ Arrival(ready)
  PROVE  ~launch.go
BY DEF Launches, NoLaunch, CanLaunch, Arrival, Accepted

\* A warp that is not the issued one, nor launched, stays in its set.
LEMMA OthersStay ==
  ASSUME SchedTypeOK, NEW ready \in BOOLEAN, NEW launch \in Launches,
         SchedEdge(ready, launch), ~release
  PROVE  /\ Arrival(ready) /\ ~launch.go
              => AtBarrier' = AtBarrier \cup {issue_id} /\ active' = active
                 /\ issue_id \notin AtBarrier
         /\ ~Arrival(ready) /\ ~launch.go => AtBarrier' = AtBarrier /\ active' \subseteq active
         /\ ~Arrival(ready) /\ AtBarrier = {} => AtBarrier' = {}
<1>1. ASSUME NEW w \in Warps, ~launch.go
      PROVE  status'[w] = IF complete.valid /\ complete.id = w /\ status[w] = "EXEC" THEN "READY"
                          ELSE IF Accepted(ready) /\ issue_id = w THEN AfterIssue
                          ELSE status[w]
  BY <1>1 DEF SchedEdge, StatusEdge, Launched
<1>2. Accepted(ready) => issue_id \in Warps /\ status[issue_id] = "READY"
  BY DEF Accepted, issue_valid, SchedTypeOK
<1>3. ASSUME Arrival(ready), ~launch.go
      PROVE  /\ AtBarrier' = AtBarrier \cup {issue_id} /\ active' = active
             /\ issue_id \notin AtBarrier
  <2>1. Accepted(ready) /\ AfterIssue = "BARRIER"
    BY <1>3 DEF Arrival, AfterIssue
  <2>2. \A w \in Warps : status'[w] = "BARRIER" <=> status[w] = "BARRIER" \/ w = issue_id
    BY <1>1, <1>2, <1>3, <2>1
  <2>3. \A w \in Warps : status'[w] # "IDLE" <=> status[w] # "IDLE"
    BY <1>1, <1>2, <1>3, <2>1
  <2> QED
    BY <1>2, <2>1, <2>2, <2>3 DEF AtBarrier, active
<1>4. ASSUME ~Arrival(ready), ~launch.go
      PROVE  AtBarrier' = AtBarrier /\ active' \subseteq active
  <2>1. Accepted(ready) => AfterIssue # "BARRIER"
    BY <1>4 DEF Arrival, AfterIssue
  <2>2. \A w \in Warps : status'[w] = "BARRIER" <=> status[w] = "BARRIER"
    BY <1>1, <1>2, <1>4, <2>1
  <2>3. \A w \in Warps : status'[w] # "IDLE" => status[w] # "IDLE"
    BY <1>1, <1>2, <1>4
  <2> QED
    BY <2>2, <2>3 DEF AtBarrier, active
<1>5. ASSUME ~Arrival(ready), AtBarrier = {}
      PROVE  AtBarrier' = {}
  <2>1. Accepted(ready) => AfterIssue # "BARRIER"
    BY <1>5 DEF Arrival, AfterIssue
  <2>2. \A w \in Warps : status[w] # "BARRIER"
    BY <1>5 DEF AtBarrier
  <2>3. \A w \in Warps : status'[w] # "BARRIER"
    BY <2>1, <2>2 DEF SchedEdge, StatusEdge
  <2> QED
    BY <2>3 DEF AtBarrier
<1> QED
  BY <1>3, <1>4, <1>5
\* At a release every waiting warp leaves and none arrives.
LEMMA ReleaseEmpties ==
  ASSUME SchedTypeOK, BarrierCounts, release,
         NEW ready \in BOOLEAN, NEW launch \in Launches, SchedEdge(ready, launch)
  PROVE  AtBarrier' = {}
<1>1. ~Accepted(ready)
  BY NoIssueAtRelease DEF Accepted
<1>2. \A w \in Warps : status'[w] # "BARRIER"
  BY <1>1 DEF SchedEdge, StatusEdge
<1> QED
  BY <1>2 DEF AtBarrier

\* The batch is remembered as long as a warp waits.
LEMMA MetStep ==
  ASSUME SchedTypeOK, BarrierInv,
         NEW ready \in BOOLEAN, NEW launch \in Launches, SchedEdge(ready, launch),
         barrier_cnt' # 0, AtBarrier' # {}
  PROVE  met'
<1>1. \E w \in Warps : status'[w] # "IDLE"
  BY DEF AtBarrier
<1>2. met \/ Arrival(ready)
  BY DEF SchedEdge, BarrierEdge, BarrierInv
<1> QED
  BY <1>1, <1>2 DEF SchedEdge, History, SchedTypeOK, Arrival, Accepted, issue_valid

LEMMA BarrierStep ==
  ASSUME Careful
  PROVE  SchedTypeOK /\ BarrierInv /\ [SchedNext]_schedVars => BarrierInv'
<1> SUFFICES ASSUME SchedTypeOK, BarrierInv, [SchedNext]_schedVars PROVE BarrierInv'
  OBVIOUS
<1>1. CASE UNCHANGED schedVars
  BY <1>1 DEF BarrierInv, BarrierCounts, AtBarrier, active, schedVars
<1>2. CASE SchedNext
  <2>1. PICK ready \in BOOLEAN, launch \in Launches : SchedEdge(ready, launch)
    BY <1>2 DEF SchedNext
  <2> USE <2>1
  <2>2. barrier_cnt = Cardinality(AtBarrier)
    BY DEF BarrierInv, BarrierCounts
  <2>3. barrier_cnt # 0 => barrier_expected >= Cardinality(active) /\ met
    BY DEF BarrierInv, BarrierCounts
  <2>4. SUFFICES /\ barrier_cnt' = Cardinality(AtBarrier')
                 /\ barrier_cnt' # 0 => barrier_expected' >= Cardinality(active')
    <3>1. barrier_cnt' # 0 => AtBarrier' # {}
      BY <2>4, FS_EmptySet
    <3> QED
      BY <2>4, <3>1, MetStep DEF BarrierInv, BarrierCounts
  <2>5. CASE release
    <3>1. AtBarrier' = {}
      BY <2>5, ReleaseEmpties DEF BarrierInv
    <3> QED
      BY <2>5, <3>1, FS_EmptySet DEF SchedEdge, BarrierEdge
  <2>6. CASE ~release /\ Arrival(ready)
    <3>1. AtBarrier' = AtBarrier \cup {issue_id} /\ active' = active /\ issue_id \notin AtBarrier
      BY <2>6, NoLaunchOnceMet, OthersStay
    <3>2. Cardinality(AtBarrier') = barrier_cnt + 1
      BY <2>2, <3>1, SetFacts, FS_AddElement
    <3>3. barrier_expected' = IF barrier_cnt = 0 THEN Cardinality(active) ELSE barrier_expected
      BY <2>6 DEF SchedEdge, BarrierEdge
    <3>4. barrier_cnt' = barrier_cnt + 1
      BY <2>6 DEF SchedEdge, BarrierEdge
    <3>5. barrier_expected' >= Cardinality(active')
      BY <2>3, <3>1, <3>3, SetFacts
    <3> QED
      BY <3>2, <3>4, <3>5
  <2>7. CASE ~release /\ ~Arrival(ready)
    <3>1. barrier_cnt' = barrier_cnt /\ barrier_expected' = barrier_expected
      BY <2>7 DEF SchedEdge, BarrierEdge
    <3>2. CASE barrier_cnt = 0
      <4>1. AtBarrier = {}
        BY <2>2, <3>2, SetFacts, FS_EmptySet
      <4>2. AtBarrier' = {}
        BY <2>7, <4>1, OthersStay
      <4> QED
        BY <3>1, <3>2, <4>2, FS_EmptySet
    <3>3. CASE barrier_cnt # 0
      <4>1. AtBarrier' = AtBarrier /\ active' \subseteq active
        BY <2>3, <2>7, <3>3, NoLaunchOnceMet, OthersStay
      <4>2. IsFiniteSet(active') /\ Cardinality(active') <= Cardinality(active)
        BY <4>1, SetFacts, FS_Subset
      <4>3. Cardinality(active') \in Nat
        BY <4>2, FS_CardinalityType
      <4>4. barrier_expected >= Cardinality(active')
        BY <2>3, <3>3, <4>2, <4>3, SetFacts DEF SchedTypeOK
      <4> QED
        BY <2>2, <3>1, <4>1, <4>4
    <3> QED
      BY <3>2, <3>3
  <2> QED
    BY <2>5, <2>6, <2>7
<1> QED
  BY <1>1, <1>2

\* BarrierInv is inductive with the types.
LEMMA BarrierInvHolds ==
  ASSUME Careful
  PROVE  SchedSpec => []BarrierInv
<1>1. SchedInit => BarrierInv
  <2> SUFFICES ASSUME SchedInit PROVE BarrierInv
    OBVIOUS
  <2>1. AtBarrier = {}
    BY DEF SchedInit, AtBarrier
  <2> QED
    BY <2>1, FS_EmptySet DEF SchedInit, BarrierInv, BarrierCounts
<1> QED
  BY <1>1, BarrierStep, SchedTypeCorrect, PTL DEF SchedSpec

\* The hardware's two counters agree with the warps (warp_scheduler.v:99-113).
THEOREM BarrierCountersAgree ==
  ASSUME Careful
  PROVE  SchedSpec => []BarrierCounts
<1>1. BarrierInv => BarrierCounts
  BY DEF BarrierInv
<1> QED
  BY <1>1, BarrierInvHolds, PTL

\* A barrier opens for every active warp at once, and for no fewer
\* (README.md:231).
THEOREM BarrierIsForAll ==
  ASSUME Careful
  PROVE  SchedSpec => []BarrierReleasesAll
<1>1. SchedTypeOK /\ BarrierCounts => BarrierReleasesAll
  BY ReleaseMeansAll
<1> QED
  BY <1>1, BarrierCountersAgree, SchedTypeCorrect, PTL

-----------------------------------------------------------------------------
(* The GPU core.                                                           *)

\* Every edge of the GPU is an edge of the scheduler.
LEMMA SchedStep == [Next]_vars => [SchedNext]_schedVars
<1> SUFFICES ASSUME [Next]_vars PROVE [SchedNext]_schedVars
  OBVIOUS
<1>1. CASE UNCHANGED vars
  BY <1>1 DEF vars
<1>2. CASE Next
  <2>1. PICK ack \in BOOLEAN, launch \in Launches : Edge(ack, launch)
    BY <1>2 DEF Next
  <2>2. issue_ready \in BOOLEAN
    BY DEF issue_ready, is_global, g_done_here
  <2> QED
    BY <2>1, <2>2 DEF Edge, SchedNext
<1> QED
  BY <1>1, <1>2

\* The GPU schedules as WarpScheduler says, whatever the memory does: what is
\* proved of the scheduler holds of it.
THEOREM GpuSchedules == Spec => SchedSpec
<1>1. Init => SchedInit
  BY DEF Init
<1> QED
  BY <1>1, SchedStep, PTL DEF Spec, SchedSpec

-----------------------------------------------------------------------------
LEMMA GpuTypeStep == TypeOK /\ [Next]_vars => TypeOK'
<1> SUFFICES ASSUME TypeOK, [Next]_vars PROVE TypeOK'
  OBVIOUS
<1>0. SchedTypeOK'
  BY SchedStep, TypeStep DEF TypeOK
<1>1. CASE UNCHANGED vars
  BY <1>0, <1>1 DEF TypeOK, vars, gVars
<1>2. CASE Next
  <2>1. PICK ack \in BOOLEAN, launch \in Launches : Edge(ack, launch)
    BY <1>2 DEF Next
  <2> USE <2>1 DEF Edge
  <2>2. issue_id \in Warps /\ instr \in {Code[p] : p \in Pc}
    BY DEF TypeOK, SchedTypeOK
  <2>3. acc' \in [Warps -> GData]
    BY DEF LaneEdge, TypeOK, GData
  <2>4. gmem' \in [GAddr -> GData]
    BY DEF MemoryEdge, TypeOK, mem_addr
  <2>5. g_busy' \in BOOLEAN /\ g_done' \in BOOLEAN
    BY DEF GlobalEdge, FlagEdge, TypeOK
  <2>6. is_global => instr.arg \in GAddr
    BY <2>2, GAddrAssumption DEF is_global
  <2>7. /\ g_is_load' \in BOOLEAN /\ g_done_warp' \in Warps
        /\ g_addr_l' \in GAddr /\ g_wdata_l' \in GData
    BY <2>2, <2>6 DEF GlobalEdge, LatchEdge, Latch, Keep, g_start, TypeOK
  <2>8. g_rdata' \in GData
    BY DEF GlobalEdge, TypeOK, mem_addr
  <2>9. launches' \in 0..MaxLaunches
    BY GAddrAssumption DEF TypeOK
  <2> QED
    BY <1>0, <2>3, <2>4, <2>5, <2>7, <2>8, <2>9 DEF TypeOK
<1> QED
  BY <1>1, <1>2

\* Every register keeps its range, and a request is always for a global address.
THEOREM GpuTypeCorrect == Spec => []TypeOK
<1>1. Init => TypeOK
  <2> SUFFICES ASSUME Init PROVE TypeOK
    OBVIOUS
  <2>1. SchedTypeOK
    BY SchedInitType DEF Init
  <2>2. acc \in [Warps -> GData] /\ gmem \in [GAddr -> GData]
    BY DEF Init, GData
  <2>3. g_done_warp \in Warps /\ launches \in 0..MaxLaunches
    BY RangeFacts, GAddrAssumption DEF Init
  <2>4. g_wdata_l \in GData /\ g_rdata \in GData
    BY DEF Init, GData
  <2> QED
    BY <2>1, <2>2, <2>3, <2>4 DEF Init, TypeOK
<1> QED
  BY <1>1, GpuTypeStep, PTL DEF Spec

-----------------------------------------------------------------------------
\* A warp that is READY and neither launched nor accepted stays as it is.
LEMMA WaitingWarpStays ==
  ASSUME TypeOK, Careful, NEW ack \in BOOLEAN, NEW launch \in Launches, Edge(ack, launch),
         NEW w \in Warps, status[w] = "READY", ~(Accepted(issue_ready) /\ issue_id = w)
  PROVE  status'[w] = "READY" /\ pc'[w] = pc[w] /\ acc'[w] = acc[w]
<1>1. ~Launched(launch, w)
  BY DEF Launched, Launches, NoLaunch, CanLaunch
<1>2. status'[w] = "READY"
  BY <1>1 DEF Edge, SchedEdge, StatusEdge
<1>3. pc'[w] = pc[w]
  BY <1>1 DEF Edge, SchedEdge, PcEdge, TypeOK, SchedTypeOK
<1>4. acc'[w] = acc[w]
  BY DEF Edge, LaneEdge
<1> QED
  BY <1>2, <1>3, <1>4

LEMMA OwnerStep ==
  ASSUME Careful
  PROVE  TypeOK /\ IssuesOwnInstruction /\ TransactionHasOwner /\ [Next]_vars
           => TransactionHasOwner'
<1> SUFFICES ASSUME TypeOK, IssuesOwnInstruction, TransactionHasOwner, [Next]_vars
             PROVE  TransactionHasOwner'
  OBVIOUS
<1>1. CASE UNCHANGED vars
  BY <1>1 DEF TransactionHasOwner, vars, schedVars, gVars
<1>2. CASE Next
  <2>1. PICK ack \in BOOLEAN, launch \in Launches : Edge(ack, launch)
    BY <1>2 DEF Next
  <2> USE <2>1
  <2>2. issue_valid => /\ issue_id \in Warps /\ status[issue_id] = "READY"
                       /\ instr = Code[pc[issue_id]]
    BY DEF IssuesOwnInstruction, issue_valid, TypeOK, SchedTypeOK
  <2>3. instr = [op |-> instr.op, arg |-> instr.arg]
    BY ImageAssumption DEF TypeOK, SchedTypeOK, GpuInstr
  \* A transaction begins: the warp that is issued becomes its owner.
  <2>4. CASE g_start
    <3>1. ~Accepted(issue_ready) /\ is_global
      BY <2>4 DEF g_start, Accepted, issue_ready, g_done_here
    <3>2. g_busy' /\ ~g_done'
      BY <2>4, <3>1 DEF Edge, GlobalEdge, FlagEdge, g_start, g_finish
    <3>3. /\ g_done_warp' = issue_id /\ g_addr_l' = instr.arg
          /\ g_is_load' = (instr.op = "ldg") /\ g_wdata_l' = acc[issue_id]
      BY <2>4 DEF Edge, GlobalEdge, LatchEdge, Latch
    <3>4. issue_valid
      BY <2>4 DEF g_start
    <3>5. status'[issue_id] = "READY" /\ pc'[issue_id] = pc[issue_id] /\ acc'[issue_id] = acc[issue_id]
      BY <2>2, <3>1, <3>4, WaitingWarpStays
    <3>6. instr.op = IF g_is_load' THEN "ldg" ELSE "stg"
      BY <3>1, <3>3 DEF is_global
    <3> QED
      BY <2>2, <2>3, <3>2, <3>3, <3>4, <3>5, <3>6 DEF TransactionHasOwner
  \* Otherwise the transaction, if there is one, is the one there was.
  <2>5. CASE ~g_start /\ (g_busy' \/ g_done')
    <3>1. UNCHANGED <<g_is_load, g_done_warp, g_addr_l, g_wdata_l>>
      BY <2>5 DEF Edge, GlobalEdge, LatchEdge, Keep
    <3>2. g_busy \/ g_done
      BY <2>5 DEF Edge, GlobalEdge, FlagEdge, g_finish
    <3>3. ~(g_busy' /\ g_done')
      BY <2>5, <3>2 DEF Edge, GlobalEdge, FlagEdge, g_finish, TransactionHasOwner
    <3>4. ~(Accepted(issue_ready) /\ issue_id = g_done_warp)
      <4> SUFFICES ASSUME Accepted(issue_ready), issue_id = g_done_warp PROVE FALSE
        OBVIOUS
      <4>1. is_global
        BY <2>2, <3>2 DEF Accepted, TransactionHasOwner, is_global
      <4>2. g_done /\ ~g_busy
        BY <4>1, <3>2 DEF Accepted, issue_ready, g_done_here, TransactionHasOwner
      <4> QED
        BY <2>5, <4>1, <4>2 DEF Edge, GlobalEdge, FlagEdge
    <3>5. g_done_warp \in Warps /\ status[g_done_warp] = "READY"
      BY <3>2 DEF TransactionHasOwner, TypeOK
    <3>6. /\ status'[g_done_warp] = "READY" /\ pc'[g_done_warp] = pc[g_done_warp]
          /\ acc'[g_done_warp] = acc[g_done_warp]
      BY <3>4, <3>5, WaitingWarpStays
    <3> QED
      BY <3>1, <3>2, <3>3, <3>6 DEF TransactionHasOwner
  <2>6. CASE ~(g_busy' \/ g_done')
    BY <2>6 DEF TransactionHasOwner
  <2> QED
    BY <2>4, <2>5, <2>6
<1> QED
  BY <1>1, <1>2

\* A transaction on the bus, and a completion that waits to be consumed, belong to
\* a warp that is still at the instruction that began it (gpu_top.v:241-252).
THEOREM TransactionsOwned ==
  ASSUME Careful
  PROVE  Spec => []TransactionHasOwner
<1>1. Init => TransactionHasOwner
  BY DEF Init, TransactionHasOwner
<1>2. Spec => []IssuesOwnInstruction
  BY GpuSchedules, IssuedInstructionIsOwn, PTL
<1> QED
  BY <1>1, <1>2, OwnerStep, GpuTypeCorrect, PTL DEF Spec

\* In the whole GPU, too, a barrier opens for every active warp at once.
THEOREM GpuBarrierIsForAll ==
  ASSUME Careful
  PROVE  Spec => []BarrierReleasesAll
BY GpuSchedules, BarrierIsForAll, PTL

-----------------------------------------------------------------------------
(***************************************************************************)
(* The refinement of SimtWarps.  An edge at which the barrier opens is a   *)
(* Release; any other is a Tick, in which the warp whose transaction the   *)
(* memory answers performs it, and every other warp does what the lanes    *)
(* and the scheduler do to it.                                             *)
(***************************************************************************)

\* What is known of both ends of an edge.
Coherent == TypeOK /\ IssuesOwnInstruction /\ BarrierInv /\ TransactionHasOwner

LEMMA CoherentHolds ==
  ASSUME Careful
  PROVE  Spec => []Coherent
<1>1. Spec => []IssuesOwnInstruction
  BY GpuSchedules, IssuedInstructionIsOwn, PTL
<1>2. Spec => []BarrierInv
  BY GpuSchedules, BarrierInvHolds, PTL
<1>3. TypeOK /\ IssuesOwnInstruction /\ BarrierInv /\ TransactionHasOwner => Coherent
  BY DEF Coherent
<1> QED
  BY <1>1, <1>2, <1>3, GpuTypeCorrect, TransactionsOwned, PTL

\* What a kernel sees of a warp.
LEMMA Views ==
  ASSUME NEW w \in Warps
  PROVE  /\ absSt[w] = CASE status[w] = "IDLE" -> "idle"
                         [] status[w] = "BARRIER" -> "barrier"
                         [] OTHER -> "active"
         /\ absPc[w] = IF g_done /\ g_done_warp = w THEN (pc[w] + 1) % CodeSize ELSE pc[w]
         /\ absAcc[w] = IF g_done /\ g_done_warp = w /\ g_is_load THEN g_rdata ELSE acc[w]
         /\ absSt'[w] = CASE status'[w] = "IDLE" -> "idle"
                          [] status'[w] = "BARRIER" -> "barrier"
                          [] OTHER -> "active"
         /\ absPc'[w] = IF g_done' /\ g_done_warp' = w THEN (pc'[w] + 1) % CodeSize ELSE pc'[w]
         /\ absAcc'[w] = IF g_done' /\ g_done_warp' = w /\ g_is_load' THEN g_rdata' ELSE acc'[w]
BY DEF absSt, absPc, absAcc

\* A completion after an edge is one that was there and was not consumed, or that
\* of the transaction which the memory has just answered.
LEMMA CompletionKept ==
  ASSUME Coherent, NEW ack \in BOOLEAN, NEW launch \in Launches, Edge(ack, launch)
  PROVE  /\ g_done' <=> g_finish(ack) \/ (g_done /\ ~(Accepted(issue_ready) /\ is_global))
         /\ g_done' => UNCHANGED <<g_is_load, g_done_warp, g_addr_l, g_wdata_l>>
         /\ ~g_finish(ack) => g_rdata' = g_rdata
<1>1. ~(g_busy /\ g_done)
  BY DEF Coherent, TransactionHasOwner
<1>2. Accepted(issue_ready) /\ is_global => g_done
  BY DEF Accepted, issue_ready, g_done_here
<1>3. g_done' <=> g_finish(ack) \/ (g_done /\ ~(Accepted(issue_ready) /\ is_global))
  BY <1>1, <1>2 DEF Edge, GlobalEdge, FlagEdge, g_finish, g_start, Coherent, TypeOK
<1>4. g_done' => ~g_start
  BY <1>1, <1>3 DEF g_finish, g_start
<1>5. g_done' => UNCHANGED <<g_is_load, g_done_warp, g_addr_l, g_wdata_l>>
  BY <1>4 DEF Edge, GlobalEdge, LatchEdge, Keep
<1>6. ~g_finish(ack) => g_rdata' = g_rdata
  BY DEF Edge, GlobalEdge
<1> QED
  BY <1>3, <1>5, <1>6

\* The instruction of the warp issued for is the one at its pc.
LEMMA IssuedFacts ==
  ASSUME Coherent, Accepted(issue_ready)
  PROVE  /\ issue_id \in Warps /\ status[issue_id] = "READY"
         /\ instr = Code[pc[issue_id]] /\ instr.op \in Op
         /\ instr.op \in {"ldg", "stg"} <=> g_done /\ g_done_warp = issue_id
<1>1. issue_id \in Warps /\ status[issue_id] = "READY" /\ instr = Code[pc[issue_id]]
  BY DEF Accepted, issue_valid, Coherent, IssuesOwnInstruction, TypeOK, SchedTypeOK
<1>2. instr.op \in Op
  BY ImageAssumption DEF Coherent, TypeOK, SchedTypeOK, GpuInstr
<1>3. is_global => g_done /\ g_done_warp = issue_id
  BY DEF Accepted, issue_ready, g_done_here
<1>4. g_done /\ g_done_warp = issue_id => is_global
  BY <1>1 DEF Coherent, TransactionHasOwner, is_global
<1> QED
  BY <1>1, <1>2, <1>3, <1>4 DEF is_global

\* A launch: the warp was idle, so no completion is its own.
LEMMA LaunchStep ==
  ASSUME Coherent, Careful, NEW ack \in BOOLEAN, NEW launch \in Launches, Edge(ack, launch),
         NEW w \in Warps, Launched(launch, w)
  PROVE  Kernel!Launch(w)
<1>1. status[w] = "IDLE" /\ launch.pc \in Entries
  BY DEF Launched, Launches, NoLaunch, CanLaunch
<1>2. ~(g_busy /\ g_done_warp = w) /\ ~(g_done /\ g_done_warp = w)
  BY <1>1 DEF Coherent, TransactionHasOwner
<1>3. ~(g_done' /\ g_done_warp' = w)
  BY <1>2, CompletionKept DEF g_finish
<1>4. ~(Accepted(issue_ready) /\ issue_id = w)
  BY <1>1 DEF Accepted, issue_valid
<1>5. status'[w] = "READY" /\ pc'[w] = launch.pc /\ acc'[w] = acc[w]
  BY <1>4 DEF Edge, SchedEdge, StatusEdge, PcEdge, LaneEdge
<1>6. absSt[w] = "idle" /\ absSt'[w] = "active" /\ absPc'[w] = launch.pc /\ absAcc'[w] = absAcc[w]
  BY <1>1, <1>2, <1>3, <1>5, Views
<1> QED
  BY <1>1, <1>6 DEF Kernel!Launch, Kernel!Becomes

\* The scheduler's side of an edge for the warp whose instruction is accepted.
LEMMA AcceptedEdge ==
  ASSUME Coherent, Careful, NEW ack \in BOOLEAN, NEW launch \in Launches, Edge(ack, launch),
         ~release, Accepted(issue_ready)
  PROVE  /\ status'[issue_id] = AfterIssue
         /\ pc'[issue_id] = IF instr.op = "halt" THEN pc[issue_id]
                            ELSE NextPc(pc[issue_id], instr)
         /\ acc'[issue_id] = CASE instr.op = "ldg" -> g_rdata
                               [] instr.op = "alu" -> 1 - acc[issue_id]
                               [] OTHER -> acc[issue_id]
<1>1. issue_id \in Warps /\ status[issue_id] = "READY"
  BY IssuedFacts
<1>2. ~Launched(launch, issue_id)
  BY <1>1 DEF Launched, Launches, NoLaunch, CanLaunch
<1>3. status'[issue_id] = AfterIssue
  BY <1>1, <1>2 DEF Edge, SchedEdge, StatusEdge
<1>4. pc'[issue_id] = IF instr.op = "halt" THEN pc[issue_id] ELSE NextPc(pc[issue_id], instr)
  BY <1>1, <1>2 DEF Edge, SchedEdge, PcEdge
<1>5. acc'[issue_id] = CASE instr.op = "ldg" -> g_rdata
                         [] instr.op = "alu" -> 1 - acc[issue_id]
                         [] OTHER -> acc[issue_id]
  BY <1>1 DEF Edge, LaneEdge
<1> QED
  BY <1>3, <1>4, <1>5

\* An accepted global access was performed when the memory answered: nothing more
\* is seen of it.
LEMMA ConsumeStep ==
  ASSUME Coherent, Careful, NEW ack \in BOOLEAN, NEW launch \in Launches, Edge(ack, launch),
         ~release, Accepted(issue_ready), is_global
  PROVE  Kernel!Stay(issue_id)
<1> DEFINE w == issue_id
<1>1. /\ w \in Warps /\ status[w] = "READY" /\ instr = Code[pc[w]]
      /\ g_done /\ g_done_warp = w
  BY IssuedFacts DEF is_global
<1>2. ~g_busy /\ instr.op = IF g_is_load THEN "ldg" ELSE "stg"
  BY <1>1 DEF Coherent, TransactionHasOwner
<1>3. ~g_done'
  BY <1>2, CompletionKept DEF g_finish
<1>4. /\ status'[w] = "EXEC" /\ pc'[w] = (pc[w] + 1) % CodeSize
      /\ acc'[w] = IF g_is_load THEN g_rdata ELSE acc[w]
  BY <1>2, AcceptedEdge DEF AfterIssue, NextPc
<1>5. absSt[w] = "active" /\ absSt'[w] = "active"
  BY <1>1, <1>4, Views
<1>6. absPc'[w] = absPc[w]
  BY <1>1, <1>3, <1>4, Views
<1>7. absAcc'[w] = absAcc[w]
  BY <1>1, <1>3, <1>4, Views
<1> QED
  BY <1>5, <1>6, <1>7 DEF Kernel!Stay, Kernel!Becomes

\* Any other accepted instruction is executed by the edge that accepts it.
LEMMA ExecuteStep ==
  ASSUME Coherent, Careful, NEW ack \in BOOLEAN, NEW launch \in Launches, Edge(ack, launch),
         ~release, Accepted(issue_ready), ~is_global
  PROVE  Kernel!Local(issue_id)
<1> DEFINE w == issue_id
<1>1. /\ w \in Warps /\ status[w] = "READY" /\ instr = Code[pc[w]] /\ instr.op \in Op
      /\ ~(g_done /\ g_done_warp = w)
  BY IssuedFacts DEF is_global
<1>2. ~(g_busy /\ g_done_warp = w)
  BY <1>1 DEF is_global, Coherent, TransactionHasOwner
<1>3. ~(g_done' /\ g_done_warp' = w)
  BY <1>1, <1>2, CompletionKept DEF g_finish
<1>4. absSt[w] = "active" /\ absPc[w] = pc[w] /\ absAcc[w] = acc[w]
  BY <1>1, Views
<1>5. absPc'[w] = pc'[w] /\ absAcc'[w] = acc'[w]
  BY <1>1, <1>3, Views
<1>6. CASE instr.op = "alu"
  <2>1. status'[w] = "EXEC" /\ pc'[w] = (pc[w] + 1) % CodeSize /\ acc'[w] = 1 - acc[w]
    BY <1>6, AcceptedEdge DEF AfterIssue, NextPc
  <2>2. absSt'[w] = "active"
    BY <1>1, <2>1, Views
  <2> QED
    BY <1>1, <1>4, <1>5, <1>6, <2>1, <2>2
       DEF Kernel!Local, Kernel!Alu, Kernel!At, Kernel!Becomes, Kernel!FallThrough
<1>7. CASE instr.op = "branch"
  <2>1. status'[w] = "EXEC" /\ pc'[w] = instr.arg /\ acc'[w] = acc[w]
    BY <1>7, AcceptedEdge DEF AfterIssue, NextPc
  <2>2. absSt'[w] = "active"
    BY <1>1, <2>1, Views
  <2> QED
    BY <1>1, <1>4, <1>5, <1>7, <2>1, <2>2
       DEF Kernel!Local, Kernel!Branch, Kernel!At, Kernel!Becomes
<1>8. CASE instr.op = "barrier"
  <2>1. status'[w] = "BARRIER" /\ pc'[w] = (pc[w] + 1) % CodeSize /\ acc'[w] = acc[w]
    BY <1>8, AcceptedEdge DEF AfterIssue, NextPc
  <2>2. absSt'[w] = "barrier"
    BY <1>1, <2>1, Views
  <2> QED
    BY <1>1, <1>4, <1>5, <1>8, <2>1, <2>2
       DEF Kernel!Local, Kernel!Arrive, Kernel!At, Kernel!Becomes, Kernel!FallThrough
<1>9. CASE instr.op = "halt"
  <2>1. status'[w] = "IDLE" /\ pc'[w] = pc[w] /\ acc'[w] = acc[w]
    BY <1>9, AcceptedEdge DEF AfterIssue
  <2>2. absSt'[w] = "idle"
    BY <1>1, <2>1, Views
  <2> QED
    BY <1>1, <1>4, <1>5, <1>9, <2>1, <2>2
       DEF Kernel!Local, Kernel!Halt, Kernel!At, Kernel!Becomes
<1> QED
  BY <1>1, <1>6, <1>7, <1>8, <1>9 DEF Op, is_global

\* A warp to which nothing happens but, perhaps, the completion of its instruction.
LEMMA QuietStep ==
  ASSUME Coherent, NEW ack \in BOOLEAN, NEW launch \in Launches, Edge(ack, launch), ~release,
         NEW w \in Warps, ~Launched(launch, w), ~(Accepted(issue_ready) /\ issue_id = w),
         ~(g_finish(ack) /\ g_done_warp = w)
  PROVE  Kernel!Stay(w)
<1>1. status'[w] = status[w] \/ (status[w] = "EXEC" /\ status'[w] = "READY")
  BY DEF Edge, SchedEdge, StatusEdge
<1>2. pc'[w] = pc[w] /\ acc'[w] = acc[w]
  BY DEF Edge, SchedEdge, PcEdge, LaneEdge, Coherent, TypeOK, SchedTypeOK
<1>3. absSt'[w] = absSt[w]
  BY <1>1, Views
<1>4. CASE g_done /\ g_done_warp = w
  <2>1. ~(Accepted(issue_ready) /\ is_global)
    BY <1>4, IssuedFacts DEF is_global
  <2>2. ~g_finish(ack)
    BY <1>4 DEF g_finish, Coherent, TransactionHasOwner
  <2>3. g_done' /\ g_done_warp' = w /\ g_is_load' = g_is_load /\ g_rdata' = g_rdata
    BY <1>4, <2>1, <2>2, CompletionKept
  <2> QED
    BY <1>2, <1>3, <1>4, <2>3, Views DEF Kernel!Stay, Kernel!Becomes
<1>5. CASE ~(g_done /\ g_done_warp = w)
  <2>1. ~(g_done' /\ g_done_warp' = w)
    BY <1>5, CompletionKept
  <2> QED
    BY <1>2, <1>3, <1>5, <2>1, Views DEF Kernel!Stay, Kernel!Becomes
<1> QED
  BY <1>4, <1>5

\* The three together: what a warp that does not use the memory does.
LEMMA LocalStep ==
  ASSUME Coherent, Careful, NEW ack \in BOOLEAN, NEW launch \in Launches, Edge(ack, launch),
         ~release, NEW w \in Warps, ~(g_finish(ack) /\ g_done_warp = w)
  PROVE  Kernel!Local(w)
<1>1. CASE Launched(launch, w)
  BY <1>1, LaunchStep DEF Kernel!Local
<1>2. CASE Accepted(issue_ready) /\ issue_id = w
  BY <1>2, ConsumeStep, ExecuteStep DEF Kernel!Local
<1>3. CASE ~Launched(launch, w) /\ ~(Accepted(issue_ready) /\ issue_id = w)
  BY <1>3, QuietStep DEF Kernel!Local
<1> QED
  BY <1>1, <1>2, <1>3

\* The warp whose transaction the memory answers performs it at that instant.
LEMMA FinishStep ==
  ASSUME Coherent, Careful, NEW ack \in BOOLEAN, NEW launch \in Launches, Edge(ack, launch),
         g_finish(ack)
  PROVE  /\ g_done_warp \in Warps
         /\ \/ Kernel!Load(g_done_warp) /\ gmem' = gmem
            \/ /\ Kernel!Store(g_done_warp)
               /\ gmem' = [gmem EXCEPT ![Code[absPc[g_done_warp]].arg] = absAcc[g_done_warp]]
<1> DEFINE w == g_done_warp
<1>1. g_busy /\ ~g_done /\ w \in Warps
  BY DEF g_finish, Coherent, TransactionHasOwner, TypeOK
<1>2. /\ status[w] = "READY"
      /\ Code[pc[w]].op = (IF g_is_load THEN "ldg" ELSE "stg") /\ Code[pc[w]].arg = g_addr_l
      /\ ~g_is_load => g_wdata_l = acc[w]
  BY <1>1 DEF Coherent, TransactionHasOwner
<1>3. ~(Accepted(issue_ready) /\ issue_id = w)
  <2> SUFFICES ASSUME Accepted(issue_ready), issue_id = w PROVE FALSE
    OBVIOUS
  <2> QED
    BY <1>1, <1>2, IssuedFacts
<1>4. status'[w] = "READY" /\ pc'[w] = pc[w] /\ acc'[w] = acc[w]
  BY <1>1, <1>2, <1>3, WaitingWarpStays DEF Coherent
<1>5. g_done' /\ g_done_warp' = w /\ g_is_load' = g_is_load
  BY CompletionKept
<1>6. absSt[w] = "active" /\ absPc[w] = pc[w] /\ absAcc[w] = acc[w] /\ absSt'[w] = "active"
  BY <1>1, <1>2, <1>4, Views
<1>7. absPc'[w] = (pc[w] + 1) % CodeSize /\ absAcc'[w] = IF g_is_load THEN g_rdata' ELSE acc[w]
  BY <1>1, <1>4, <1>5, Views
<1>8. CASE g_is_load
  <2>1. g_rdata' = gmem[g_addr_l] /\ gmem' = gmem
    BY <1>8 DEF Edge, GlobalEdge, MemoryEdge, mem_addr
  <2> QED
    BY <1>1, <1>2, <1>6, <1>7, <1>8, <2>1
       DEF Kernel!Load, Kernel!At, Kernel!Becomes, Kernel!FallThrough
<1>9. CASE ~g_is_load
  <2>1. gmem' = [gmem EXCEPT ![g_addr_l] = g_wdata_l]
    BY <1>9 DEF Edge, MemoryEdge, mem_addr
  <2> QED
    BY <1>1, <1>2, <1>6, <1>7, <1>9, <2>1
       DEF Kernel!Store, Kernel!At, Kernel!Becomes, Kernel!FallThrough
<1> QED
  BY <1>8, <1>9

\* When the barrier opens no warp is at an instruction, none is launched and no
\* transaction is open.
LEMMA ReleaseStep ==
  ASSUME Coherent, Careful, NEW ack \in BOOLEAN, NEW launch \in Launches, Edge(ack, launch),
         release
  PROVE  Kernel!Release
<1>1. \A w \in Warps : status[w] \in {"IDLE", "BARRIER"}
  BY ReleaseMeansAll
     DEF Coherent, BarrierInv, TypeOK, BarrierReleasesAll, AtBarrier, active
<1>2. ~g_busy /\ ~g_done
  BY <1>1 DEF Coherent, TransactionHasOwner, TypeOK
<1>3. ~Accepted(issue_ready)
  BY NoIssueAtRelease DEF Coherent, BarrierInv, TypeOK, Accepted
<1>4. ~launch.go
  BY DEF Coherent, BarrierInv, release, Launches, NoLaunch, CanLaunch
<1>5. ~g_finish(ack) /\ ~g_done'
  BY <1>2, CompletionKept DEF g_finish
<1>6. gmem' = gmem
  BY <1>5 DEF Edge, MemoryEdge
<1>7. ASSUME NEW w \in Warps
      PROVE  /\ status'[w] = IF status[w] = "BARRIER" THEN "READY" ELSE status[w]
             /\ pc'[w] = pc[w] /\ acc'[w] = acc[w]
  BY <1>1, <1>3, <1>4
     DEF Edge, SchedEdge, StatusEdge, PcEdge, LaneEdge, Launched, Coherent, TypeOK, SchedTypeOK
<1>8. ASSUME NEW w \in Warps
      PROVE  /\ absSt[w] # "active"
             /\ absSt'[w] = IF absSt[w] = "barrier" THEN "active" ELSE absSt[w]
             /\ absPc'[w] = absPc[w] /\ absAcc'[w] = absAcc[w]
  BY <1>1, <1>2, <1>5, <1>7, Views
<1>9. absSt' = [w \in Warps |-> IF absSt[w] = "barrier" THEN "active" ELSE absSt[w]]
  <2>1. absSt' = [w \in Warps |-> absSt'[w]]
    BY DEF absSt
  <2> QED
    BY <1>8, <2>1
<1>10. absPc' = absPc /\ absAcc' = absAcc
  BY <1>8 DEF absPc, absAcc
<1> QED
  BY <1>6, <1>8, <1>9, <1>10 DEF Kernel!Release

LEMMA KernelStep ==
  ASSUME Careful
  PROVE  Coherent /\ [Next]_vars => [Kernel!Next]_Kernel!vars
<1> SUFFICES ASSUME Coherent, [Next]_vars PROVE [Kernel!Next]_Kernel!vars
  OBVIOUS
<1>1. CASE UNCHANGED vars
  BY <1>1 DEF vars, schedVars, gVars, Kernel!vars, absSt, absPc, absAcc
<1>2. CASE Next
  <2>1. PICK ack \in BOOLEAN, launch \in Launches : Edge(ack, launch)
    BY <1>2 DEF Next
  <2>2. CASE release
    BY <2>1, <2>2, ReleaseStep DEF Kernel!Next
  <2>3. CASE ~release /\ g_finish(ack)
    <3>1. \A v \in Warps \ {g_done_warp} : Kernel!Local(v)
      BY <2>1, <2>3, LocalStep
    <3> QED
      BY <2>1, <2>3, <3>1, FinishStep DEF Kernel!Next, Kernel!Tick
  <2>4. CASE ~release /\ ~g_finish(ack)
    <3>1. \A v \in Warps : Kernel!Local(v)
      BY <2>1, <2>4, LocalStep
    <3>2. gmem' = gmem
      BY <2>1, <2>4 DEF Edge, MemoryEdge
    <3> QED
      BY <3>1, <3>2 DEF Kernel!Next, Kernel!Tick
  <2> QED
    BY <2>2, <2>3, <2>4
<1> QED
  BY <1>1, <1>2

\* gpu_top implements what it promises its kernels: on one issue slot, one bus and
\* one barrier, every warp executes its own instructions in order, each once, and
\* a global access takes effect at one instant.  For every number of warps and
\* every image, under the launch discipline.
THEOREM WarpsRunTheirKernels ==
  ASSUME Careful
  PROVE  Spec => ImplementsKernel
<1>1. Init => Kernel!Init
  <2> SUFFICES ASSUME Init PROVE Kernel!Init
    OBVIOUS
  <2>1. absSt = [w \in Warps |-> "idle"]
    BY DEF Init, SchedInit, absSt
  <2>2. absPc = [w \in Warps |-> 0]
    BY DEF Init, SchedInit, absPc
  <2>3. absAcc = [w \in Warps |-> 0]
    BY DEF Init, absAcc
  <2> QED
    BY <2>1, <2>2, <2>3 DEF Init, Kernel!Init, GData
<1> QED
  BY <1>1, KernelStep, CoherentHolds, PTL DEF Spec, ImplementsKernel, Kernel!Spec
=============================================================================
