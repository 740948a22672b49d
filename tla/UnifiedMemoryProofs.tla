------------------------- MODULE UnifiedMemoryProofs ------------------------
(***************************************************************************)
(* Proofs about UnifiedMemory, for every set of addresses and of words.    *)
(***************************************************************************)
EXTENDS UnifiedMemory, TLAPS

\* What is known of the request on the RAM's port.
LEMMA GrantedType ==
  ASSUME TypeOK
  PROVE  /\ granted \in {NoReq} \cup Request
         /\ granted.op = "write" => granted.addr \in Addr /\ granted.data \in Data
         /\ granted.op = "read" => granted.addr \in Addr
         /\ granted.op \in {"none", "read", "write"}
BY DEF TypeOK, granted, take_gpu, m0_act, m1_act, NoReq, Request, ReadReq, WriteReq

\* The types are kept by every clock edge.
THEOREM TypeCorrect == Spec => []TypeOK
<1>1. Init => TypeOK
  BY DEF Init, TypeOK, NoReq
<1>2. TypeOK /\ [Next]_vars => TypeOK'
  <2> SUFFICES ASSUME TypeOK, [Next]_vars PROVE TypeOK'
    OBVIOUS
  <2>1. CASE UNCHANGED vars
    BY <2>1 DEF TypeOK, vars
  <2>2. CASE Next
    <3> USE <2>2 DEF Next
    <3>1. cpu' \in {NoReq} \cup Request /\ hold' \in BOOLEAN
      BY DEF TypeOK, Cpu, CpuHold, CpuFlush, CpuAdvance
    <3>2. rdata' \in Data /\ mem' \in [Addr -> Data]
      BY GrantedType, AddrAssumption DEF TypeOK, DataBram, NoReq, Request, ReadReq, WriteReq
    <3>3. gpu' \in {NoReq} \cup Request /\ gDone' \in BOOLEAN /\ gData' \in Data
      BY DEF TypeOK, Gpu, GpuStart, GpuFinish, GpuAccept, GpuWait, gpuVars
    <3>4. rtag' \in {"none", "cpu", "gpu"}
      BY DEF Arbiter
    <3> QED
      BY <3>1, <3>2, <3>3, <3>4 DEF TypeOK
  <2> QED
    BY <2>1, <2>2
<1> QED
  BY <1>1, <1>2, PTL DEF Spec

\* The CPU's self-timed load captures the word that is in memory, although the
\* port looks at no acknowledgement (mem_stage.v:195-202).
THEOREM CpuLoadsCurrentWord == Spec => []CpuLoadCurrent
<1>1. Init => CpuLoadCurrent
  BY DEF Init, CpuLoadCurrent
<1>2. TypeOK /\ CpuLoadCurrent /\ [Next]_vars => CpuLoadCurrent'
  <2> SUFFICES ASSUME TypeOK, CpuLoadCurrent, [Next]_vars,
                      cpu'.op = "read", hold'
               PROVE  rdata' = mem'[cpu'.addr]
    BY DEF CpuLoadCurrent
  <2>1. CASE UNCHANGED vars
    BY <2>1 DEF CpuLoadCurrent, vars
  <2>2. CASE Next
    <3>1. CASE CpuHold
      <4>1. granted = cpu /\ cpu.op = "read" /\ cpu' = cpu
        BY <3>1 DEF CpuHold, mem_hold, granted, m0_act
      <4> QED
        BY <2>2, <4>1 DEF Next, DataBram
    <3>2. ~CpuFlush
      BY DEF CpuFlush, NoReq
    <3>3. ~CpuAdvance
      BY DEF CpuAdvance, mem_hold, TypeOK
    <3> QED
      BY <2>2, <3>1, <3>2, <3>3 DEF Next, Cpu
  <2> QED
    BY <2>1, <2>2
<1> QED
  BY <1>1, <1>2, TypeCorrect, PTL DEF Spec

\* While a read of the GPU is answered the GPU still waits for it, and gets the
\* word of its own address (mem_arbiter.v: rtag).
THEOREM GpuLoadsCurrentWord == Spec => []GpuLoadCurrent
<1>1. Init => GpuLoadCurrent
  BY DEF Init, GpuLoadCurrent, m1_read_ack
<1>2. TypeOK /\ GpuLoadCurrent /\ [Next]_vars => GpuLoadCurrent'
  <2> SUFFICES ASSUME TypeOK, GpuLoadCurrent, [Next]_vars, rtag' = "gpu"
               PROVE  gpu'.op = "read" /\ rdata' = mem'[gpu'.addr]
    BY DEF GpuLoadCurrent, m1_read_ack
  <2>1. CASE UNCHANGED vars
    BY <2>1 DEF GpuLoadCurrent, m1_read_ack, vars
  <2>2. CASE Next
    <3>1. take_gpu /\ gpu.op = "read"
      BY <2>2 DEF Next, Arbiter
    <3>2. granted = gpu
      BY <3>1 DEF granted, take_gpu
    <3>3. ~g_finish
      BY <3>1 DEF g_finish, m1_read_ack, m1_write_ack, take_gpu
    <3>4. gpu' = gpu
      BY <2>2, <3>1, <3>3 DEF Next, Gpu, GpuStart, GpuFinish, GpuAccept, GpuWait, gpuVars, take_gpu
    <3> QED
      BY <2>2, <3>1, <3>2, <3>4 DEF Next, DataBram
  <2> QED
    BY <2>1, <2>2
<1> QED
  BY <1>1, <1>2, TypeCorrect, PTL DEF Spec
-----------------------------------------------------------------------------
\* While a completion waits to be accepted there is no transaction.
Settled == gDone => gpu = NoReq

LEMMA SettledHolds == Spec => []Settled
<1>1. Init => Settled
  BY DEF Init, Settled
<1>2. Settled /\ [Next]_vars => Settled'
  BY DEF Settled, Next, vars, Gpu, GpuStart, GpuFinish, GpuAccept, GpuWait, gpuVars
<1> QED
  BY <1>1, <1>2, PTL DEF Spec

\* The states of a port, as both specifications write them.
LEMMA SameStates ==
  /\ Abstract!Idle = Free
  /\ \A r : Abstract!Pending(r) = Pend(r)
  /\ \A v : Abstract!Done(v) = Over(v)
  /\ Abstract!Request = Request
  /\ Free \in Abstract!PortState
  /\ \A r \in Request : Pend(r) \in Abstract!PortState
  /\ \A v \in Data : Over(v) \in Abstract!PortState
  /\ Free.st = "idle"
  /\ \A r : Pend(r).st = "pending" /\ Pend(r).req = r
  /\ \A v : Over(v).st = "done"
BY DEF Abstract!Idle, Abstract!Pending, Abstract!Done, Abstract!Request, Abstract!ReadReq,
       Abstract!WriteReq, Abstract!PortState, Free, Pend, Over, Request, ReadReq, WriteReq

\* What a port is seen to do when its access does not take effect.
Calm(s, t) ==
  \/ t = s
  \/ s.st = "pending" /\ s.req.op = "read" /\ t = Free
  \/ s.st # "pending" /\ (t = Free \/ \E r \in Request : t = Pend(r))

\* The CPU's port: its access takes effect on the edge that ends a load's first
\* cycle, or a store's.
LEMMA CpuPortStep ==
  ASSUME TypeOK, Next
  PROVE  \/ /\ m0_act /\ cpuPort = Pend(cpu) /\ granted = cpu
            /\ \/ cpu.op = "read" /\ cpuPort' = Over(mem[cpu.addr])
               \/ cpu.op = "write" /\ (cpuPort' = Free \/ \E r \in Request : cpuPort' = Pend(r))
         \/ granted.op # "write" /\ Calm(cpuPort, cpuPort')
         \/ ~m0_act /\ Calm(cpuPort, cpuPort')
<1>1. CASE CpuHold
  <2>1. m0_act /\ cpuPort = Pend(cpu) /\ granted = cpu /\ cpu.op = "read"
    BY <1>1 DEF CpuHold, mem_hold, m0_act, cpuPort, granted
  <2>2. rdata' = mem[cpu.addr]
    BY <2>1 DEF Next, DataBram
  <2>3. cpuPort' = Over(rdata')
    BY <1>1, <2>1 DEF CpuHold, cpuPort, m0_act, mem_hold, Over
  <2> QED
    BY <2>1, <2>2, <2>3
<1>2. CASE CpuFlush
  <2>1. m0_act /\ cpuPort = Pend(cpu) /\ granted = cpu /\ cpu.op = "read"
    BY <1>2 DEF CpuFlush, mem_hold, m0_act, cpuPort, granted
  <2>2. cpuPort' = Free
    BY <1>2 DEF CpuFlush, cpuPort, m0_act, NoReq, Free
  <2> QED
    BY <2>1, <2>2, SameStates DEF Calm
<1>3. CASE CpuAdvance
  <2>1. cpuPort' = Free \/ \E r \in Request : cpuPort' = Pend(r)
    <3>1. cpu' = NoReq \/ cpu' \in Request
      BY <1>3 DEF CpuAdvance
    <3>2. ~(cpu'.op = "read" /\ hold')
      BY <1>3 DEF CpuAdvance, mem_hold, TypeOK
    <3>3. cpu' = NoReq => cpuPort' = Free
      BY DEF cpuPort, m0_act, NoReq, Free
    <3>4. cpu' \in Request => cpuPort' = Pend(cpu')
      BY <3>2 DEF cpuPort, m0_act, Request, ReadReq, WriteReq, Pend, Over
    <3> QED
      BY <3>1, <3>3, <3>4
  <2>2. CASE ~m0_act
    BY <2>1, <2>2, SameStates DEF Calm, cpuPort
  <2>3. CASE cpu.op = "write"
    BY <2>1, <2>3 DEF cpuPort, m0_act, granted
  <2>4. CASE cpu.op = "read"
    <3>1. cpuPort = Over(rdata) /\ granted = cpu
      BY <1>3, <2>4 DEF CpuAdvance, mem_hold, cpuPort, m0_act, granted
    <3> QED
      BY <2>1, <2>4, <3>1, SameStates DEF Calm
  <2> QED
    BY <2>2, <2>3, <2>4 DEF TypeOK, Request, ReadReq, WriteReq, NoReq, m0_act
<1> QED
  BY <1>1, <1>2, <1>3 DEF Next, Cpu
\* The GPU's port: its access takes effect on the edge that ends the cycle it is
\* granted in.
LEMMA GpuPortStep ==
  ASSUME TypeOK, GpuLoadCurrent, Settled, Next
  PROVE  \/ /\ take_gpu /\ gpuPort = Pend(gpu) /\ granted = gpu
            /\ \/ gpu.op = "read" /\ gpuPort' = Over(mem[gpu.addr])
               \/ gpu.op = "write" /\ \E v \in Data : gpuPort' = Over(v)
         \/ ~take_gpu /\ Calm(gpuPort, gpuPort')
<1> DEFINE answered == m1_read_ack
<1>1. answered => gpu.op = "read" /\ m1_act /\ ~take_gpu /\ g_finish /\ ~gDone
  BY DEF GpuLoadCurrent, m1_act, take_gpu, m1_read_ack, g_finish, Settled, NoReq
<1>2. rtag' = "gpu" <=> take_gpu /\ gpu.op = "read"
  BY DEF Next, Arbiter, take_gpu, m0_act, NoReq
<1>3. CASE take_gpu
  <2>1. gpuPort = Pend(gpu) /\ granted = gpu /\ ~gDone /\ gpu \in Request
    BY <1>3 DEF take_gpu, m1_act, gpuPort, granted, m1_read_ack, Settled, NoReq, TypeOK
  <2>2. CASE gpu.op = "read"
    <3>1. ~g_finish
      BY <1>3, <2>2 DEF take_gpu, g_finish, m1_read_ack, m1_write_ack
    <3>2. gpu' = gpu /\ ~gDone'
      BY <1>3, <2>1, <3>1 DEF Next, Gpu, GpuStart, GpuFinish, GpuAccept, GpuWait, gpuVars, take_gpu
    <3>3. gpuPort' = Over(rdata')
      BY <1>2, <1>3, <2>2, <3>2 DEF gpuPort, m1_act, m1_read_ack
    <3>4. rdata' = mem[gpu.addr]
      BY <2>1, <2>2 DEF Next, DataBram
    <3> QED
      BY <1>3, <2>1, <2>2, <3>3, <3>4
  <2>3. CASE gpu.op = "write"
    <3>1. g_finish
      BY <1>3, <2>3 DEF g_finish, m1_write_ack
    <3>2. gDone' /\ gData' = gData
      BY <1>3, <2>1, <2>3, <3>1 DEF Next, Gpu, GpuStart, GpuFinish, GpuAccept, GpuWait, take_gpu
    <3>3. gpuPort' = Over(gData) /\ gData \in Data
      BY <3>2 DEF gpuPort, TypeOK
    <3> QED
      BY <1>3, <2>1, <2>3, <3>3
  <2> QED
    BY <2>1, <2>2, <2>3 DEF Request, ReadReq, WriteReq
<1>4. CASE ~take_gpu /\ GpuStart
  <2>1. gpuPort = Free
    BY <1>4 DEF GpuStart, gpuPort
  <2>2. gpuPort' = Pend(gpu') /\ gpu' \in Request
    BY <1>2, <1>4 DEF GpuStart, gpuPort, m1_act, m1_read_ack, Request, ReadReq, WriteReq
  <2> QED
    BY <1>4, <2>1, <2>2, SameStates DEF Calm
<1>5. CASE ~take_gpu /\ GpuFinish
  <2>1. m1_read_ack
    BY <1>5 DEF GpuFinish, g_finish, m1_write_ack
  <2>2. gpuPort = Over(rdata)
    BY <1>1, <2>1 DEF gpuPort
  <2>3. gpuPort' = Over(rdata)
    BY <1>1, <1>5, <2>1 DEF GpuFinish, gpuPort
  <2> QED
    BY <1>5, <2>2, <2>3 DEF Calm
<1>6. CASE ~take_gpu /\ GpuAccept
  <2>1. gpuPort = Over(gData) /\ gpu = NoReq
    BY <1>6 DEF GpuAccept, gpuPort, Settled
  <2>2. gpuPort' = Free
    BY <1>6, <2>1 DEF GpuAccept, gpuPort, m1_act, NoReq
  <2> QED
    BY <1>6, <2>1, <2>2, SameStates DEF Calm
<1>7. CASE ~take_gpu /\ GpuWait
  <2>1. ~m1_read_ack /\ ~m1_read_ack'
    BY <1>1, <1>2, <1>7 DEF GpuWait, m1_read_ack
  <2>2. gpuPort' = gpuPort
    BY <1>7, <2>1 DEF GpuWait, gpuVars, gpuPort, m1_act
  <2> QED
    BY <1>7, <2>2 DEF Calm
<1> QED
  BY <1>3, <1>4, <1>5, <1>6, <1>7 DEF Next, Gpu

\* What becomes of the memory, by the request on the RAM's port.
LEMMA MemoryStep ==
  ASSUME TypeOK, Next
  PROVE  mem' = IF granted.op = "write" THEN [mem EXCEPT ![granted.addr] = granted.data] ELSE mem
BY DEF Next, DataBram

\* The two ports together.
LEMMA RefinementStep ==
  ASSUME TypeOK, TypeOK', GpuLoadCurrent, Settled, Next
  PROVE  Abstract!Next
<1> DEFINE P == [p \in {"cpu", "gpu"} |-> IF p = "cpu" THEN cpuPort ELSE gpuPort]
<1>1. P["cpu"] = cpuPort /\ P["gpu"] = gpuPort /\ P'["cpu"] = cpuPort' /\ P'["gpu"] = gpuPort'
  OBVIOUS
<1>2. P' \in [{"cpu", "gpu"} -> Abstract!PortState]
  BY SameStates DEF TypeOK, cpuPort, gpuPort, m0_act, m1_act, NoReq
<1>3. ASSUME NEW p \in {"cpu", "gpu"}, Calm(P[p], P'[p])
      PROVE  P'[p] \in Abstract!Quiet(p)
  BY <1>3, SameStates DEF Calm, Abstract!Quiet, Abstract!Fresh
\* The CPU's access takes effect; the GPU is not granted.
<1>4. CASE /\ m0_act /\ cpuPort = Pend(cpu) /\ granted = cpu
           /\ \/ cpu.op = "read" /\ cpuPort' = Over(mem[cpu.addr])
              \/ cpu.op = "write" /\ (cpuPort' = Free \/ \E r \in Request : cpuPort' = Pend(r))
  <2>1. ~take_gpu
    BY <1>4 DEF take_gpu
  <2>2. P'["gpu"] \in Abstract!Quiet("gpu")
    BY <1>1, <1>3, <2>1, GpuPortStep
  <2>3. Abstract!Perform("cpu")
    BY <1>1, <1>4, MemoryStep, SameStates DEF Abstract!Perform, Abstract!Fresh
  <2> QED
    BY <1>2, <2>2, <2>3 DEF Abstract!Next, Abstract!Effect
\* The GPU's access takes effect; the CPU is silent.
<1>5. CASE /\ take_gpu /\ gpuPort = Pend(gpu) /\ granted = gpu
           /\ \/ gpu.op = "read" /\ gpuPort' = Over(mem[gpu.addr])
              \/ gpu.op = "write" /\ \E v \in Data : gpuPort' = Over(v)
  <2>1. ~m0_act
    BY <1>5 DEF take_gpu
  <2>2. P'["cpu"] \in Abstract!Quiet("cpu")
    BY <1>1, <1>3, <2>1, CpuPortStep DEF m0_act
  <2>3. Abstract!Perform("gpu")
    BY <1>1, <1>5, MemoryStep, SameStates DEF Abstract!Perform, Abstract!Fresh
  <2> QED
    BY <1>2, <2>2, <2>3 DEF Abstract!Next, Abstract!Effect
\* Nothing takes effect.
<1>6. CASE /\ ~take_gpu /\ Calm(gpuPort, gpuPort')
           /\ \/ granted.op # "write" /\ Calm(cpuPort, cpuPort')
              \/ ~m0_act /\ Calm(cpuPort, cpuPort')
  <2>1. granted.op # "write"
    BY <1>6 DEF granted, NoReq
  <2>2. mem' = mem
    BY <2>1, MemoryStep
  <2>3. \A p \in {"cpu", "gpu"} : P'[p] \in Abstract!Quiet(p)
    BY <1>1, <1>3, <1>6
  <2> QED
    BY <1>2, <2>2, <2>3 DEF Abstract!Next, Abstract!Silent
<1> QED
  BY <1>4, <1>5, <1>6, CpuPortStep, GpuPortStep

\* soc_top.v:40-43: CPU and GPU address the same bytes.  For every address space
\* and every word, an access of either takes effect once and at one instant.
THEOREM MemoryIsAtomic == Spec => ImplementsAtomicMemory
<1>1. Init => Abstract!Init
  BY SameStates DEF Init, Abstract!Init, cpuPort, gpuPort, m0_act, m1_act, NoReq
<1>2. TypeOK /\ TypeOK' /\ GpuLoadCurrent /\ Settled /\ [Next]_vars
        => [Abstract!Next]_Abstract!vars
  <2> SUFFICES ASSUME TypeOK, TypeOK', GpuLoadCurrent, Settled, [Next]_vars
               PROVE  [Abstract!Next]_Abstract!vars
    OBVIOUS
  <2>1. CASE Next
    BY <2>1, RefinementStep
  <2>2. CASE UNCHANGED vars
    BY <2>2 DEF vars, Abstract!vars, cpuPort, gpuPort, m0_act, m1_act, m1_read_ack
  <2> QED
    BY <2>1, <2>2
<1> QED
  BY <1>1, <1>2, TypeCorrect, GpuLoadsCurrentWord, SettledHolds, PTL
     DEF Spec, ImplementsAtomicMemory, Abstract!Spec
=============================================================================
