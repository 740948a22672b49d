# A TLA+ verification project for Omni-RISC

Omni-RISC is a small system on chip: a five-stage RV32IM core, a SIMT GPU of
four warps, a data memory the two share, a handful of peripherals, a two-core
rig with coherent caches, and the firmware that runs on it. This directory holds
TLA+ models of the hardware's control logic and of the firmware, TLC runs that
check them on small instances, and TLAPS proofs of theorems that hold for every
size. Paths below are relative to the repository's `src/`.

Contents: 1 inventory, 2 plan, 3 the models, 4 the runs, 5 the proofs, 6 what is
not modelled, 7 findings and limits of the code met on the way, 8 running it.

## 1. Inventory

| part | state | operations | interacts with | what is hard | what makes it correct |
|---|---|---|---|---|---|
| CPU pipeline (`hardware/rtl/cpu/core`) | pc, IF/ID, ID/EX, EX/MEM, MEM/WB, register file, `flush_q`, `dbram_hold` | one clock edge | data memory, peripherals (pbus), timer (`mtip`) | forwarding, load-use stalls, the wait cycle of a load, divisions and redirects overlap in every combination | it executes the program as one instruction at a time would; the pc names its instruction; a frozen bundle is kept |
| traps and CSRs (`trap_unit.v`, `csr_file.v`) | mstatus, mie, mtvec, mepc, mcause, mscratch, `redirect_win`, `redirect_target_q` | trap, mret, CSR access | the pipeline's flush, the timer | an interrupt may come in any cycle, also while the wrong path drains | the saved pc is that of the first instruction that did not execute; nothing executes twice; the interrupt is served |
| execution units (`alu.v`, `branch_unit.v`, `multiplier.v`, `divider.v`, `lsu.v`, `exec_lane.v`), decoder | the divider's registers | evaluate; start, step | EX (`div_stall`) | signs, zero, overflow, byte lanes, scattered immediates | the numbers RISC-V asks for |
| GPU lanes and kernels (`gpu_decode.v`, `exec_lane.v`, `gpu_alu.v`, `gpu_regfile.v`, `gpu_lsu.v`, `gpu_scratchpad.v`; `firmware/gpu_kernels`) | registers and scratchpad of each warp | decode, operate, write back | the scheduler that issues, the program that stages operands | nothing is reset or cleared between launches; the lanes' addresses differ in the scratchpad and must not in memory | every kernel computes its definition, whatever was there before |
| shared data memory (`mem_arbiter.v`, `data_bram.v`, ports of `mem_stage.v` and `gpu_top.v`) | `rtag`, `mem`, `rdata`, the ports' registers | CPU and GPU accesses | both masters | the CPU's port is self-timed and ignores the acks; a read is answered a cycle after its grant | every access takes effect once, at one instant; a GPU access is over in the end |
| GPU core (`gpu_top.v`, `warp_scheduler.v`, `gpu_fetch.v`) | per-warp pc and status, `rr_ptr`, issue register, barrier counters, `complete_*`, `g_*` | launch, fetch, issue, complete, barrier, LDG/STG | command processor, arbiter | fetch and issue are a cycle apart; one transaction among four warps; barrier counted at the first arrival | every warp runs its own kernel in order; a barrier is for all; every warp ends |
| GPU command processor and drivers (`gpu_cmd_proc.v`, `firmware/drivers/gpu*.c`) | kernel memory and load pointer, launch register, done latch; `done_flag`, `irq_count` | load, launch, wait with time-out, poll, handler | the kernel, the interrupt | the latch is set, cleared by a read, or both at once; a time-out races the completion | a completion reaches the program that waits for it, and is its own kernel's |
| MSI caches, dual core (`l1_dcache_msi.v`, `dual_core_top.v`) | line states, tags, data, FSM, pending snoop, reservation | load, store, LR, SC, snoop | the other cache, the memory | snoops against lookups and refills, write-through against the other core, two SCs at once | the litmus tests' outcomes |
| UART receive path, framed protocol (`uart.v`, `uart_rx.c`, `frame.c`, `frame_test.c`) | FIFO, ring, parser, last sequence number | pump, poll, answer | the line, the host | lost and damaged bytes, full queues, retries, the session's end | each command executed once, in order, unchanged, and all of them while the session lasts |
| tick service, timer driver (`tick.c`, `timer.c`, `timer.v`) | timer slots, `base_us`, `last_lo`, `mtimecmp` | add, cancel, read the time, ISR | the interrupted program | the ISR interrupts every other function; the low word rolls over | a timer fires when due, with its own callback; the time does not run ahead |
| heap (`omni_alloc.c`) | the block list in the arena | malloc, calloc, free, realloc | callers, good and bad | split, coalesce, size rounding, moving in place | disjoint blocks that keep their bytes, none lost, failure only when full |
| C library, printf (`omni_libc.c`, `omni_printf.c`) | - | memory, string, conversion, formatting functions | - | overlap, saturation, flags that combine | C's contract |
| FreeRTOS programs (`rtos*.c`), shell (`shell.c`) | tasks, queue, semaphore; line buffer, terminal | task steps, ticks, interrupts | the kernel, the test bench, a typing host | lost wake-ups, preemption in a line, the tokenizer in the line buffer | each reaches its end; what runs is what is on the screen |
| L1 caches of USE_CACHES=1, boot code, scripts | - | - | - | - | outside, see 6 |

## 2. Plan and where it stands

1. `UnifiedMemory` with `AtomicMemory` - the memory both processors use. Done, proved.
2. `Pipeline` with `Instructions`, `Isa`, `Golden`, `Units`, `Words` - the core; its
   directed tests in `BenchPrograms`, its unit tests in `UnitBenches` with `Decoder`. Done;
   its types, its units against the reference and its order of execution proved.
   The GPU's instruction set and kernels, `GpuLanes` and `GpuKernels`, run there too. Done.
3. `WarpScheduler`, `GpuTop` with `SimtWarps` - the GPU. Done, proved, the refinement too.
4. `GpuCompletion` - kernel load, launch, completion interrupt, drivers. Done, proved.
5. `DualCore`, `Litmus` - the coherence rig under its benches. Done for those programs;
   their outcomes proved for every line size and delay.
6. `FrameCodec`, `FrameLink` with `CommandChannel` - the framed protocol over a bad line. Done,
   its types and bounds proved.
7. `TickService`. Done, proved. `Allocator` with `HeapPromise`. Done, proved, the refinement
   too. `Libc`, `Printf`, `LibraryCalls`. Done; the contracts of the memory, string and
   conversion functions proved.
8. `FreeRtos`, `RtosApps`, `Shell` - the programs on the kernel. Done; that every program
   reaches its end, the semaphore, the gpu command and the line editor proved.
9. Theorems worth proving next: that a formatted number reads back (`FormatsReadBack`), from
   the lemmas about digit loops that the conversions have; the decoder against the encoders.
10. Models worth extending next: accesses that are not aligned, mret under enabled
    interrupts, the scratchpad window's registers store by store.

Composition: `MCPipeline` runs the pipeline, its benches' programs and the unit benches;
`MCLibrary` the C functions and the heap; `MCFirmware` the programs, of which one is
flashed. `GpuTop` extends `WarpScheduler`; `FrameLink` puts FIFO, ring, parser and
application in one chain; `Litmus` gives `DualCore` its programs.

## 3. The models

**Hardware.** One step is one rising clock edge: a register `r` of the Verilog is a
variable, its `always` block an operator that constrains `r'`, a wire an operator without
primes. Where a block's later assignments override earlier ones, the operator tests the
conditions in reverse order. The next-state relation conjoins the blocks, as the clock
does, so no interleaving is invented; the freedom is in the inputs (the program, when the
interrupt rises, when software launches a warp, when a core presents its next access). The
synchronous reset is the initial state.

**Firmware.** A step is what runs between two points where an interrupt, or another task,
could tell the difference: a store, a kernel call, a bus access. Interrupts fall between
any two steps unless they are masked. A pure function is an operator.

`UnifiedMemory` - `mem_arbiter.v`, `data_bram.v`, the cacheless port of `mem_stage.v`, the
handshake of `gpu_top.v`. `cpu` is the access of the instruction in MEM, `hold` is
`dbram_hold`, `gpu`/`gDone` are `g_busy`/`g_done` with the latched request. `CpuFlush` is
what a trap or a starting division does to the access in MEM. Byte enables are
abstracted. `AtomicMemory` is what a shared memory promises: each access takes effect at
one instant between issue and completion.

`Words`, `Instructions`, `Golden`, `Isa` - words of `Xlen` bits; the instructions the
decoder names; what each computes, by `ref_sim.cpp`, without the units' formulas; a
machine that executes one per step and takes an interrupt between two of them. Every
instruction keeps its `rs1` and `rs2` fields, because the hazard unit and the forwarding
net look at them whether or not they are used. The pc counts instructions. What an
instruction computes is a parameter of `Isa` (`Alu`, `Mul`, `Div`, `Taken`, `Load`,
`Store`); the run and the proof give it `Golden`'s operators.

`Units`, `Decoder` - the ALU, branch unit, multiplier, load/store lanes and the divider
bit by bit, as their modules compute (`bitwise` applies a one-bit operator to two words); `decoder.v` and `imm_gen.v` on an instruction word
that is a record of its fields, with the encoders of `tb_decoder.cpp`.

`Pipeline` - all stage registers of `cpu_top` as `soc_top` builds it. `Fetch` is `pc_gen`,
`instr_bram`'s read register and IF/ID; `Decode` is `decode_stage` with its three ways to
load ID/EX in the code's priority (hold, bubble, capture); `Exec` is EX/MEM with its clear
and stall conditions in the code's order; `Memory`, `WriteBack`, `CsrEdge`, `Divider`,
`RedirectDrain`, `Timer` are one block each. Two parts are history: `real` marks an ID/EX
bundle that came from memory, and `apc` is the pc of the next instruction to leave EX,
which the refinement needs. A bubble is `Nop`. The data memory is `UnifiedMemory` seen from
the CPU, as `CpuLoadCurrent` allows. The refinement takes an instruction as executed when
it leaves EX; registers and memory are those of the files with the results in EX/MEM and
MEM/WB on top.

`BenchPrograms`, `UnitBenches` - the phases of `tb_cpu_top.cpp` and the branch tests of
`firmware/apps` with what each expects at its end; the unit benches (`tb_alu`, `tb_divider`,
`tb_multiplier`, `tb_branch_unit`, `tb_decoder`, `tb_gpu_alu`), each driving one unit with
the bench's operands, scaled to the word, and comparing with a golden model. A divider is
driven tick by tick with the bench's guard; its bound of 200 ticks is never reached.

`GpuLanes`, `GpuKernels` - `gpu_decode.v` on the 16-bit word, and what an instruction does
to the registers, scratchpad banks and memory of a warp; the kernels of
`firmware/gpu_kernels` in the words `gpu_asm.py` assembles. A bench is a sequence of
launches: before each, the program stores and copies words and pushes the kernel over what
the instruction memory holds; `UnitBenches` then executes it instruction by instruction to
its HALT. The benches are those of `tb_gpu_top.cpp`, `tb_gpu_top_kernels.cpp`,
`tb_exec_lane.cpp`, `tb_gpu_scratchpad.cpp`, and the programs `benchmark_gpu.c`,
`gpu_loader_test.c`, `gpu_mem_test.c`, `mlp_test.c` and `mlp_mem_test.c` with their four
launches for each result; each also runs on operands at the ends of the ranges where the
kernel is defined for any. Everything without a reset starts as zero, as in simulation,
and as all ones. A global access takes one step here; that the real one, over several
cycles and among four warps, amounts to that is `GpuTop`'s `ImplementsKernel`.

`WarpScheduler`, `GpuTop`, `SimtWarps` - `warp_scheduler.v`, `gpu_fetch.v`, the completion
register; the transaction registers `g_*`, the memory and one register per warp; and what a
kernel's author relies on. `Careful` is the discipline software keeps: only idle slots are
launched, and none between the first BARRIER of a batch and the batch's end (`met`,
history). A global access counts as executed when the memory has answered.

`GpuCompletion` - a program that pushes a kernel word by word, launches it and waits by
interrupt with a time-out or polls, cycle by cycle with the command processor's edge.
`Aliased` says whether the waiting loop's load has the low address bits of STATUS.

`DualCore`, `Litmus` - two `l1_dcache_msi` over one single-ported memory, one set of two
ways that all lines map to, eight words a line; `Defaults` are the assignments every cycle
makes, which a state of the machine overrules. Between two accesses a core waits as long as
it likes. The state WB_M is left out: no transition enters it.

`FrameCodec`, `FrameLink`, `CommandChannel` - bytes, CRC and stuffing as in `frame.c`; a
host that sends a command until it is answered; a line that loses, repeats, damages or
invents bytes (`MaxFaults` of them); FIFO, ring, parser and answer. An echo is answered with
itself, a request for the statistics with some content of the counters (`Counts`), anything
else with a NAK, and a repeat with what it carries. `idle` is the time since the last
accepted frame: once it passes `IDLE_STOP` the application leaves its loop for good
(`frame_test.c:91`, `at` is `"done"`), and bad frames and NAKs do not reset it. `wait` is the
time since the host's last try or answer. The promise: commands are executed in order, once
each and as sent.

`Allocator`, `HeapPromise` - the arena as cells that hold a header or a payload's stamp, so
a header in the wrong place destroys a payload as in the code; `SizeT` is the width of
`size_t`; callers free twice, free foreign pointers and reallocate. `HeapPromise` is about
which bytes are whose; `HeapChecked` compares what each live block holds with what its
caller wrote. `Libc`, `Printf`,
`LibraryCalls` - a loop of the code that changes memory or adds up digits is a function of the
number of turns it has made, one that only looks for a place is the place; the contracts are
stated without following the code.

`TickService` - the stores of `timer_add` one by one, each turn of the ISR's loop, callbacks
that cancel timers, `mtimecmp` in two halves, a low word of `LoWord` values that rolls over.

`FreeRtos` (external), `RtosApps`, `Shell` - priorities, time slices, tick, delays, a queue, a
binary semaphore; the four programs with their benches' verdicts; the console's line editor
and tokenizer, the gpu command with its semaphore and time-out.

Operators named `X_Something` beside `X` are mutations of `X`, each a plausible slip in that
code, for which the run named in `PROJECT.json` fails.

## 4. The runs

| run | bounds | what it asks | result |
|---|---|---|---|
| `unified_memory` | 2 addresses, 2 words | no word lost, stale or handed to the wrong master; refinement of `AtomicMemory`; `GpuServed` | holds |
| `pipeline` | Xlen 8; all bodies of 3 or 4 instructions over hazard and trap alphabets, up to 2 interrupts in any cycle; all directed programs; all unit-bench operands, all GPU kernels | refinement of `Isa`, `PcNamesInstruction`, `TrappedDoesNotRetire`, `InterruptServed`, `DirectedPass`, `UnitsAgree` | holds |
| `pipeline_load_div` | one program | `HeldBundleKept` | violated, see 7 |
| `pipeline_div_irq` | one program | `TrappedDoesNotRetire` | violated, see 7 |
| `gpu_top` | 3 warps, 2 kernels, 4 launches | five safety properties, refinement of `SimtWarps`, `WarpsFinish` | holds |
| `gpu_barrier` | 2 warps, 3 launches, no discipline | `BarrierReleasesAll` | violated, see 7 |
| `link` | 2 commands, an echo with a byte to escape and a statistics request; FIFO 2, ring 3, 2 faults; `IDLE_STOP` 7, `RetryAfter` 1 | refinement of `CommandChannel`, `CommandsComplete`, bounds of body and queues | holds |
| `library` | strings of 4 over 6 characters, 4 bytes of memory, every set of printf flags; arena of 7 cells, 3 live blocks | `CallsKeepContracts`, `FormatsReadBack`, `HeapChecked`, `FailsOnlyWhenFull`, refinement of `HeapPromise` | holds |
| `firmware` | 2 timers, rollover at 8, 2 kernels, 1 time-out, the four FreeRTOS programs, lines of up to 5 characters over six letters, numbers modulo 256 | `FiresAsRegistered`, `TimersKept`, `NeverAhead`, `CompletionPending`, `RunsItsKernel`, `ResultsOwn`, `RaisesCounted`, `AppsReachEnd`, `RunsWhatIsShown` | holds |
| `gpu_completion` | as `firmware`, with the aliased load | `CompletionPending` | violated, see 7 |
| `dual_core` | the programs of four benches, the two one-core ones also beside every reader of three loads; any delay between two accesses | `StoreBuffering`, `MessagePassing`, `StoresLand` | holds |
| `dual_spin` | one increment a core | `NoLostUpdates` | violated, see 7 |

Why the bounds are enough. In the memory, a stale, foreign or lost word needs one other
address and one other word. In the pipeline two instructions interact at most at distance
three (EX, MEM, WB, and the load's wait cycle), so bodies of three and four over an alphabet
with an instruction per hazard class reach every pair and triple; a loop at the end keeps
the wrong path fetched. Eight bits give four two-bit bytes, so every byte lane, sign and
shift is there. In the GPU three warps suffice for one that issues, one with its transaction
open and one at the barrier; the fourth launch reuses a slot. On the line, two faults can
lose a command and its answer, or an end flag and the next start; FIFO and ring are smaller
than a frame, so both fill in the middle of one. Two faults, a premature retry being one,
let the host make several tries a tick apart between two accepted frames; 7 ticks is the
shortest session for which `CommandsComplete` then holds, 6 is refuted. In the heap, three live blocks give a
block between two others; the arena does not hold three of the largest. Two timers give one
that expires while another is registered or cancelled, and mtime passes its rollover. The
line buffer of the shell is shorter than what is typed.

The `pipeline` programs leave out the pairs the core does not execute as written - a
data-window load directly in front of an independent division, system call, mret or CSR
access (`MCPipeline!Fragile`) - and interrupts during divisions; the two violation runs
show those. All their states satisfy `Regular`, the hypothesis of `ExecutesInOrder`.

Bounds in guards: `MaxIrq` (interrupts raised), `MaxLaunches`, `MaxFaults`, `MaxTime` and
`MaxRegs` (mtime and registrations), `RetryAfter` (no tick passes a host that has waited so
long), `MaxTimeouts`, `MaxErrors` and `MaxLive` (bad frees,
live blocks), `RxDepth` and `GpuTicks` (the shell's FIFO, a kernel's length), `NumberW` (a `uint32_t`); the
programs' own constants (`N_ITEMS`, `RAISES`, `LAT_N`, `SW_TRIPS`, ...) are scaled down.

Fairness. `WF(Next)`: the clock runs. `UnifiedMemory` adds that the CPU leaves the memory
alone for two cycles in a row again and again (`CpuDrains`): a program that runs for ever
takes jumps for ever, and a taken jump is followed in MEM by itself and two bubbles.
Without this the fixed priority starves the GPU, as the arbiter's header accepts. `GpuTop`
adds that an open transaction is acknowledged in the end, which is
`UnifiedMemory!GpuServed`. `FrameLink`: the firmware's loop runs until it leaves it
(`FirmwareRuns`; the processor runs, and before `"done"` one of the loop's steps is always
possible, so this is their weak fairness and no more), the host's transmitter runs, time
passes, and the host does not give up; faults are finite. That alone promises a host
nothing: the loop ends 40 ms after the last accepted frame (`frame_test.c:87,91,99`), and a
host that lets that pass after a loss is never answered. `CommandsComplete` is therefore
about a host whose tries are at most `RetryAfter` apart (`Tick`'s guard). Nothing ties the
firmware or the line to the clock but this: the host may not even try later than that, so a
try may still be on the line when the next tick comes, and the session's end may fall into
the middle of it. The other runs state safety only.

Deadlock is checked where the clock or the protocol always has a next step: in the memory,
the pipeline, the GPU and the library. `firmware`, `dual_core` and `link` switch it off: their
programs end. `AppsReachEnd` says in its own words that no application ends early, and
`CommandsComplete` that a session does not.

Excuses written into properties. `ResultsOwn` and `RunsItsKernel` promise nothing after a
time-out: a kernel that was given up may complete in place of the next. `FiresAsRegistered`
and `TimersKept` promise nothing of a slot in which a tick fell into `timer_add`.
`NeverAhead` promises nothing of a reading a tick came between, nor after a carry between
the two halves of `mtime` in `timer_now`. Each is a weakness of the code (see 7), and the
properties say what remains true around it.

## 5. The proofs

All proofs are checked with `tlapm` 1.4.5, with SMT, Zenon and the temporal backend.

**`UnifiedMemoryProofs`** - for every set of addresses that contains 0 and every
non-empty set of words (`AddrAssumption`, `DataAssumption`): `TypeCorrect`,
`CpuLoadsCurrentWord`, `GpuLoadsCurrentWord`, and `MemoryIsAtomic`, the refinement of
`AtomicMemory`. The two load properties are inductive together with the types: a tag
that names the GPU was set on the edge that ended its granted cycle, a grant needs the
CPU silent and no answer outstanding, and so nothing can finish the transaction, or
use the RAM's port, between the grant and its answer; a CPU load in its wait cycle was
granted in the cycle before, with the same address, by priority. The refinement needs
one more invariant, `Settled`: a completion that waits to be accepted leaves no request
on the bus. The refinement is proved by cases on the port that takes effect:
`CpuPortStep`, `GpuPortStep` and `MemoryStep` say what each port's abstract state may
become, `RefinementStep` puts them together.

**`GpuTopProofs`** - the scheduler by itself, for every number of warps, image and set of
entry points: `SchedTypeCorrect`, `NoWarpStrandedInExec`; and, assuming `Careful`,
`IssuedInstructionIsOwn`, `BarrierCountersAgree`, `BarrierIsForAll`. The counters'
invariant is `BarrierInv`: `barrier_cnt` is the number of waiting warps, the expected
number is at least that of the active ones while somebody waits, and somebody waits
only if `met`. The last conjunct is what makes it inductive: it excludes launches, the
only thing that could add an active warp after the count was fixed. A HALT only
lowers the number of active warps, hence "at least". The counters are naturals in the
model; the code's three bits hold the four warps it has.

The GPU core: `GpuSchedules`, every behaviour of the GPU core is one of the
scheduler, so the theorems above hold in it (`GpuBarrierIsForAll`); `GpuTypeCorrect`;
and `TransactionsOwned`, that an open or completed transaction belongs to one warp
that is still READY at the instruction that began it. The argument needs the issue
stage to present a warp's own instruction (`IssuesOwnInstruction`) and launches to
leave READY warps alone (`Careful`). `WarpsRunTheirKernels`: the core, under `Careful`,
implements `SimtWarps`, for every image, number of warps and set of addresses. The edge on
which the barrier opens is the abstract machine's `Release`; on every other edge each warp
makes a step of its own, executes, launches or stays, as the edge does with it. The
invariant is `Coherent`, the conjunction of the types, `IssuesOwnInstruction`, `BarrierInv`
and `TransactionHasOwner`; under it the lemmas take an edge warp by warp: a warp is launched
(`LaunchStep`), has its instruction accepted (`ExecuteStep`; or `ConsumeStep`, a stutter,
since a global access was executed when the memory answered it), or nothing happens to it
(`QuietStep`); `FinishStep` is that answer, of one warp at most, and `ReleaseStep` all warps
at once. `CompletionKept` says that a completion is neither lost nor taken twice.

**`PipelineProofs`** - for words of 8, 16 or 32 bits (`Xlen`) and every number of registers,
program and moment of the interrupts. Three parts.

The units compute what `Golden` says, which does not know their formulas. A word is the sum of
the powers of two of its bits (`ValueOfBits`), and two words with the same bits are equal
(`HasBits`); so the logical operations and the shifts are compared bit by bit, and `AluIsGolden`
follows. `ConditionIsGolden`: the order of signed numbers is that of their words, or the opposite
when the signs differ (`SignedOrder`). `MultiplierIsGolden`: the halves of a product of extended
operands are those of the product of numbers (`HalvesOf`). `LoadIsGolden` and `StoreIsGolden`, for
accesses that stay inside a word (`Fits`): a word is its four bytes (`BytesMakeWord`,
`WordOfBytes`), and what a store shifts into place are its own. `DividerDivides`: while `count`
bits are to come, the quotient and the remainder so far are those of the dividend's upper part
(`Dividing`); a step brings one bit down (`StepDivides`), skipping the leading zeros is as many
steps at once (`BeginDivides`), and the signs are put back at the end (`FinishDivides`). The sums
over bits and bytes are in `BasicLemmas`: since the prover cannot take an induction rule, `AddsUp`
says what it means to add up a function, and the fold of the library is shown to do it.

`PipelineTypes` needs no hypothesis: every register holds what its width allows, the memory and
the register file are written only where they exist. `TypeInv` adds to the types that the
divider's remainder is below its divisor while it divides (`DividerOK`), that a bundle accesses
memory only for a load or a store, and that the instructions on the wires and in IF/ID name
registers of the program (`NamedBy`).

`ExecutesInOrder` says that the pipeline implements `Isa` with `Golden`, the `pipeline` run's
`ImplementsIsa`: pipelining and arithmetic, divisions included. The invariant `CoreInv` has these
groups. `FetchOK`: the word on the instruction wires belongs to the pc beside it unless a flush
is under way, and the cycle after a flush is never frozen. `NextOK`: the next instruction to
leave EX (`apc`) is in EX, else on the wires, else about to be fetched. `BundlesOK` and
`OperandsOK`: a source operand is forwarded from EX/MEM or MEM/WB or still in the register file,
and a load is never directly in front of the instruction that uses it. `DivisionOK`: the divider
works on the operands it read in the first cycle of the instruction in EX. They are not on the
forwarding wires any more, since the bundles they came from drain meanwhile, but they are the
registers' values, since nothing is left behind EX that could change them. `InterruptOK`: while
interrupts are enabled, the pc an interrupt would save names the next instruction, in EX and
through the three cycles of the window behind a redirect. None is inductive alone: the operand of
the next instruction is right only if that instruction is the one in EX, which depends on the
fetch, which depends on what a frozen load does to a redirect. Each step is then a cycle in
which an instruction leaves EX (a step of `Isa`), or a trap is taken (another), or neither
(a stutter).

The hypothesis, `[]Regular`, is where the core really departs from its ISA. `Apart`: a load that
waits does not hold an instruction in EX that traps, uses a CSR or divides, and no interrupt comes
while a division is under way (`Calm`) - the two findings of section 7, and the pairs of
`MCPipeline!Fragile`. `timer_int => ~mret`: an interrupt in the cycle of an `mret` executed with
interrupts enabled enters the trap in the CSRs but jumps to `mepc` (`trap_unit.v:74-75`; section
7). `Aligned`: no access crosses the end of a word, where the core drops the bytes behind it.
Two of these a program can answer for itself: its text keeps loads apart (`LoadsApart`;
`ProgramStaysApart`), and it runs calm if it does not divide or leaves the timer alone
(`ProgramsRunCalm`). `LoadsAreKept` is the action property of the `pipeline_load_div` run for
programs with `LoadsApart`, so exactly where it does hold. `FetchPairs` and `InterruptedLeaves`
need only `Calm`, with the invariant `PairInv`.

**`FrameLinkProofs`** - `LinkTypeCorrect`, for every list of commands that fit into a frame,
every size of the buffers and every number of faults (`LinkAssumption`): what is on the line
and in the FIFO, the ring, the body and the answer is bytes, and FIFO, ring and body stay
within their arrays, whatever the line invents. For the body this is not inductive: the parser
(`frame.c:177-191`) tests the declared length only once, when it arrives, and later compares
the count with it. `BodyOK` says what it relies on: from its second byte on a body declares at
most `MaxPayload` and is shorter than what it declares. What `frame_send` writes is bytes
because the CRC is a 16-bit word and stuffing keeps bytes (`CrcType`, `FlattenType`,
`SendType`). Those are loops, recursive functions in the model; since the prover cannot take
an induction rule, `LoopStays` and `LoopIsFunction` prove what a loop preserves from its least
counterexample (`Least`). These lemmas, and those about remainders and sums, are in
**`BasicLemmas`**; `PipelineProofs`, `LibraryProofs` and `FirmwareProofs` use them too.

**`LibraryProofs`** - the heap, for every size of the arena, set of requests and number of live blocks
(`HeapAssumption`: the product of two sizes no larger than the arena does not wrap; it is 4096
bytes and `size_t` has four). The invariant `HeapInv` names the set of headers `B`, which the
code never has in one place: they tile the arena (`Tiles`), no two neighbours are free
(`Settled`), and the used ones are the caller's pointers, each with room for what was asked
and with what was written there (`Holds`). A walk from the arena's start meets exactly `B` (`WalkIs`). Each operation is then a
lemma about arenas, not about the run: coalescing, by the turns of its loop (`MergeStep`: the
blocks up to the current one stay settled, and either it grows or the loop moves on, so the loop
has ended after `MaxBlocks` turns), cutting a block (`SplitOff`, `Cut`), first fit
(`Allocated`), freeing (`Freed`) and the three ways of `realloc` (`InPlace`, `Grown`, `CopiedOver`);
each says that the other used blocks are as they were, size and content (`Keeps`), and
`realloc`'s say that the new block begins with what the old one held (`Moved`). What callers and
`realloc`'s copy write lies in the payload of their block, so it hits no header and nobody
else's bytes (`Inside`, `OwnCells`, `Overwritten`). Hence
`HeapStaysChecked`, `MallocFailsOnlyWhenFull` and `HeapKeepsItsPromise`, the refinement of
`HeapPromise`. Their hypothesis `RequestsFit`, that no request is within 15 bytes of the end of
`size_t`, is needed: the code wraps there (see 7).

The C functions, for every memory size and content, every set of characters and every even
width of a long (`LibraryAssumption`). `LibraryKeepsContracts` is about one call at a time, so its
invariant only adds the memory's type; the work is in what each loop does. The copies: after
`k` turns of `CopyCells` exactly `k` cells are copied, upward if the destination is below
the source or apart from it (`CopyUp`), downward if it is above (`CopyDown`): in the right
direction a turn never reads a cell that an earlier turn wrote. `CountUp` takes such an
argument through the turns of a loop. The comparisons: where the code stops is the first
difference within the bound (`StopIsFirst`, `ComesToStop`), and it stops inside the memory
(`StaysInside`). The conversions: every way to read the start of the text as a numeral has its
blanks, sign and prefix where `parse_mag` finds them, except that of a "0x" with a digit the
"0" alone may be read (`ReadingIs`); what `parse_mag` takes is such a reading
(`LongestIsReading`), hence the longest (`LongestNumeral`); and the sum of its digits is their
value, or is marked saturated exactly if the value passes the limit (`SumIsValue`: once the
quotient test fails the value only grows). `Strtoul` and `Strtol` add the sign and the limits.

**`FirmwareProofs`** - the programs of the firmware. The tick service, for every table size, width of the low word, set of timer kinds
and number of registrations. `TimersFireAsRegistered` and `TimersKeepTheirSlots` come
from `TickInv`: a registration no tick fell into is either half written (`Half`, which says
for each store of `timer_add` what is already there), or it has fired as it should and is in
its slot with its own next deadline if it is live, and in no slot if it is not. The firing
test compares low words only; the lemmas `LowParts`, `DueIsPast` and `NextDeadline` show that
with periods below half the low word the comparison is that of the full times, across every
rollover. `NeitherRunsAhead` has an invariant of the clock, `ClockInv`: how many periods the
compare value stands behind `base_us` in each half-written state of `mtimecmp`
(`HalfArmed`, `Overtaken`). Its hypothesis `Undelayed` says that `tick_init` writes
`mtimecmp` before a whole rollover of the low word (71 minutes) has passed since it read the
time; without it the half-written value fires a third early tick.

The GPU's drivers, for every set of
kernels, size of the instruction memory and number of time-outs. `CompletionNotLost`
(assuming `~Aliased`; the run `gpu_completion` is the other case): from the launch on, a
kernel that is over is `was_busy`, latched, in the handler, or has set `done_flag`.
`OwnEndSeen`: while no wait timed out a run begins and ends with clean hardware (`AtRest`),
and the one completion of its launch is in one place at a time (`OneCompletion`); without
this a flag could be that of an earlier kernel. `KernelImage`: the load pointer and the words
pushed agree, and nothing is pushed between the last word and the launch.

The kernel's calls and the four applications. The first part is about the
calls, for any set of tasks (`KernelOf(T)`): `Runs` (the running task is a ready one of the
highest priority), `Readied`, `Unreadied`, `Delays`, `Awaits`, `Yields`, `Ticks`, `Woken` say
which tasks a call leaves ready, asleep or waiting, and `Stays` that nobody else is forgotten.
They rest on facts about sequences and least elements (`Listed`, `Removed`, `Least`). The
second is one invariant for each image. `SemInv`: until the waiter has taken the semaphore it
waits for it, or is ready and runs before the trigger (`SemOrder`), so the trigger cannot
raise again while a raise is pending or in the semaphore; the waiter is done only when all
were raised. Hence `NoRaiseLost`, for every number of raises. `QueueInv`: the queue holds
consecutive items from the one the consumer expects; the consumer waits only at an empty
queue and the producer only at a full one, and since the queue has a place (`Q_LEN` is not
zero) they never both do. `PrintInv`: an unfinished line of the first printer is the last
thing printed and its printer is ready, so by priority nobody prints before it has finished.
`MeterInv`: the orchestrator is ready or asleep until it is done, and has printed what its
phase says. Together, `ApplicationsReachTheirEnd`: in no reachable state is everybody asleep
for ever before the bench has seen all, and every bench that ends passes. The hypotheses are
`N_ITEMS`, `RAISES` (`RtosAssumption`) and `Q_LEN` (`QueueAssumption`) at least one: in
the code they are 1000, 3 and 8.

The shell's gpu command, and the firmware as a whole. `ResultsAreOwn`:
the completion, its latch and the full semaphore exclude each other and the shell is waiting
while there is one (`OneEnd`). `CommandIsShown`, for any length of the line and any letters:
the row on the terminal is the buffer and blanks, with the cursor at the buffer's end, whatever
is typed, erased or no longer fits (`LineShown`), so the words between the blanks of the row are
the buffer's; and `parse_num`, which reduces at every digit, gives the value of the digits
modulo the width of a `uint32_t` (`NumberW`). `FirmwareReadsOwnResults` and `FirmwareKeeps`: a step of the
flashed image is a step of its program and a stutter of the others (`EachProgram`), so the
firmware has the invariants of its programs.

**`LitmusProofs`** - the coherence rig with the benches' programs, for every number of words in
a line (`WORDS`, at least two), every set of lines and every delay between two accesses
(`LineAssumption`, `ProgramAssumption`). `RigKeepsShape`, for all programs: the registers keep
their types; the cache works on its core's access from the edge that takes it to the answer
(`RequestOK`); a refill reads the words of the line that access asked for, which the cache does
not hold yet, and what memory shows at an acknowledge is the word read (`RefillOK`); a snoop
that waits names a way that is in use (`SnoopOK`). Then each bench has an
invariant that goes with its programs:

- `StoresSurviveReaders` (`LandInv`): the two-store and the LR/SC bench on core 0 beside any
  program of loads on core 1, empty ones included. Core 1 never writes: its lines stay clean
  (`ReaderStaysClean`), so it neither writes through nor writes back, and its refills are all
  that core 0 snoops (`Undisturbed`). Core 0 owns the bus in the one cycle of a write-through, so the
  word lands; a snoop's write-back of core 0's line writes what the line holds, and that is
  what memory has or is about to get (`WritesOne`, `Kept`); a snooped read leaves the
  reservation standing (`StoreLands`, `ConditionalLands`).
- `StoresAreSeen` (`SbInv`): core 0 owns the bus whenever both ask, so its store is never lost.
  Core 1's is, but only while core 0 still fetches the line of its own store; that store then
  comes before anything core 1 reads. So not both loads read zero.
- `FlagBringsData` (`MpInv` = `MpMemory`, `MpSender`, `MpReceiver`, `MpServed`): core 0's
  words land in their order, the data before the flag. Before the flag is up core 1 is
  `Behind`: it has read zeros only, and core 0 has no snoop to answer. Afterwards core 0 only
  answers snoops: it captures core 1's read in its first cycle and owns the bus while it writes
  back, so core 1 waits with at most one word taken (`Waits`). By the time core 1 has the data
  and writes its own word core 0 is off the bus, so that word lands as well.

The hypotheses name the lines the programs use (`"x"`; `LitmusLines`; for `FlagBringsData`
these three only). The invariants were checked by TLC with lines of 2, 3 and 8 words.

Every inductive invariant was checked by TLC on the run of its module before it was proved.
Assumptions on constants are named in the module that declares them; TLC evaluates them in
the runs.

Only model-checked, and why:

- liveness (`GpuServed`, `InterruptServed`, `WarpsFinish`, `CommandsComplete`,
  `DirectedPass`): fairness is out of the prover's reach;
- the unit benches (`UnitsAgree`): their literals are those of one width of a word, and the
  decoder's and the GPU's answers are tables to be compared; that the core's units compute the
  reference's numbers is proved;
- that a formatted number reads back (`FormatsReadBack`): what a loop over digits writes and
  another reads, an induction over data for each;
- `ImplementsChannel`: it does not hold of all constants, since three faults can turn a payload
  01 10 21 into 00 00 00, which has the same CRC; of the run's commands and faults it does.

## 6. Not modelled, and why

- `l1_icache.v`, `l1_dcache.v`, `pipeline_ctrl.v`, `cpu2_top.v`: not in the SoC that is
  built, an empty stub, a copy of the core.
- `pbus_arbiter.v`: no program of the repository lets both cores use a peripheral.
- The registers of the scratchpad window, store by store (an assignment before a launch in
  `GpuLanes`), and the GPU's debug registers; four warps that compute at once (each has its
  own registers and scratchpad, so `GpuKernels` runs one, `GpuTop` interleaves them).
- In the core: LR/SC (they are in `DualCore`), accesses that are not aligned, counters,
  mtval, the software and external interrupts (the timer's path), an mret executed with
  interrupts enabled.
- The bit timing of the UART, GPIO beyond one register, start-up code, register saves, the
  fault report, output sinks and wording.
- Applications that only compute or print; their numbers are checked by themselves.
- The FreeRTOS kernel beyond the calls used; the assembler and the scripts.

## 7. Findings, and limits met on the way

Shown by a run:

- `exec_stage.v:212` against `cpu_top.v:73-75`: a division directly behind a data load
  that it does not depend on destroys the load (`pipeline_load_div`).
- `decode_stage.v:94` against `exec_stage.v:216`: an interrupt taken during a division
  lets the division retire and saves its pc; it executes again on return. For a
  division whose destination is one of its sources the second result differs
  (`pipeline_div_irq`).
- `warp_scheduler.v:104` against `README.md:231`: a warp launched after the first
  arrival at a barrier is not waited for (`gpu_barrier`).
- `gpu_cmd_proc.v:76` against `gpu_cmd_proc.v:73` and `gpu_loader.h:30`: a load of any
  address whose low six bits are 0x20 clears the done latch, and the clear beats the set
  (`gpu_completion`). `launch_sweep.c:19-21` records a lost completion as an open bug.
- `l1_dcache_msi.v:252` against `tb_dual_spin.cpp:6`: store-conditionals of both cores in
  one cycle both succeed, and an increment is lost (`dual_spin`). The bench loops until its
  counter reaches the target, so it cannot see a lost increment.

Met while modelling, not stated as runs because no document says otherwise, or because
the programs of the repository do not reach them:

- `mem_arbiter.v:76`: the CPU's read ack outlasts its request by a cycle
  (`formal/mem_arbiter_fv.sv:48-52` asserts it does not, of free inputs); harmless with a
  port that ignores the ack.
- `trap_unit.v:74-75`: an interrupt in the cycle of an `mret` updates `mepc` and `mie` as a
  trap does, but the fetch goes to the old `mepc` and the handler is not entered; it takes an
  `mret` with `mstatus.MIE` set, which the firmware does not execute.
- `decoder.v`: some encodings that are not instructions execute as an addition.
- `l1_dcache_msi.v:346`: a missing load of a line's word 7 returns the way's old content;
  a write-through of core 1 is lost when core 0 owns the bus; a receiver that already holds
  the data's line can read it stale after the flag.
- `tick.c:85`: a tick inside `timer_add` acts on a half-written slot; `us_now` may step
  back by the latency of the ISR; `timer.c:14` may read a torn 64-bit time.
- `frame_test.c:91`: the session's time-out is extended by accepted frames only, so a host
  whose retry comes more than 40 ms after the last of them is not answered any more; and a
  repeated statistics request is answered with its own, empty payload (`frame_test.c:47`).
- `gpu_loader.c:56`: after a time-out the late completion is taken for the next launch's.
- `rtos_metrics.c:131`: a sample taken between raising the interrupt and reading the counter
  would leave the trigger waiting for one more that does not come.
- `omni_alloc.c:57`: a request within fifteen bytes of 2^32 wraps, and gets a block too
  small for it. `omni_printf.c:98`: a precision above 24 writes behind the digit buffer; a '%'
  at the end of a format walks past its terminator.
- `shell.c:174-176`: a time-out whose completion comes before the poll leaves the semaphore
  full; `shell.c:366`: a line of blanks has no first word to compare.
- Benches: `tb_litmus_mp.cpp` does not check what the receiver read; `mincase.c:70` writes
  one word past its array; a comment in `tb_cpu_top.cpp`'s CSR phase names x1 where the
  encoding has x4; `rtos_q.c`'s queue never fills.

`PROJECT.json` lists the hazards this project works from, each at its line, with the
properties that watch it.

## 8. Running it

    tlc -config Pipeline.cfg MCPipeline.tla
    tlapm GpuTopProofs.tla

The `pipeline` run takes about two and a half minutes, `library` one and a half, the others less; the
proofs take from one minute to eight a module from nothing (`FirmwareProofs`).
