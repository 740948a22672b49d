---------------------------- MODULE GpuCompletion ---------------------------
(***************************************************************************)
(* A kernel from the program's side: the image is pushed through the load  *)
(* port, warp 0 is launched, and its end comes back as a machine software  *)
(* interrupt (drivers/gpu_loader.c, apps/launch_sweep.c) or is polled for  *)
(* (drivers/gpu.c, apps/benchmark_gpu.c).                                  *)
(*                                                                         *)
(* A step is a clock cycle: what the program's instruction does on the     *)
(* peripheral bus in it, together with the edge of gpu_cmd_proc.  The      *)
(* kernel's work is the number of cycles it likes; warps 1 to 3 are idle.  *)
(***************************************************************************)
EXTENDS Integers, Sequences, SequencesExt

CONSTANTS
  Kernels,      \* the images an application loads: sequences of distinct words
  ImemWords,    \* 1024: the words of the instruction memory
  Aliased,      \* the wait loop loads done_flag from an address with addr[5:0] = 0x20
  MaxTimeouts   \* bound: how often gpu_run_wait_irq gives up

ASSUME CompletionAssumption ==
  /\ Aliased \in BOOLEAN /\ MaxTimeouts \in Nat /\ ImemWords \in Nat \ {0}
  /\ \A k \in Kernels : Len(k) \in 1..ImemWords

VARIABLES
  launch_pending, active, was_busy, gpu_done_latch,  \* gpu_cmd_proc and the scheduler's warp 0
  imem, imem_addr,                                   \* the kernel memory and the load pointer
  msie,                                              \* mie.MSIE and mstatus.MIE
  done_flag, irq_count, irq_ran,                     \* gpu_loader.c
  prog, handler,                                     \* where the program and the handler are
  running,                                           \* history: the kernel of the last launch
  timeouts                                           \* history: time-outs so far
gpuHw  == <<launch_pending, active, was_busy, gpu_done_latch>>
load   == <<imem, imem_addr>>
flags  == <<done_flag, irq_count, irq_ran>>
gpuVars == <<gpuHw, load, msie, flags, prog, handler, running, timeouts>>

Where(l) == [at |-> l]

GpuInit ==
  /\ launch_pending = FALSE /\ active = FALSE /\ was_busy = FALSE /\ gpu_done_latch = FALSE
  /\ imem = [a \in 0..(ImemWords - 1) |-> 0] /\ imem_addr = 0 /\ msie = FALSE
  /\ done_flag = FALSE /\ irq_count = 0 /\ irq_ran = FALSE
  /\ prog = Where("idle") /\ handler = "none" /\ running = << >> /\ timeouts = 0

------------------------------------------------------------------------------
(* A cycle of the hardware.  clear: some load has addr[5:0] = 0x20.  The   *)
(* store that launches sets launch_pending; the warp is active two edges   *)
(* on, and its HALT ends it whenever it likes.                             *)

\* Every load clears the latch.
LatchEdge_AnyLoad(clear) ==
  gpu_done_latch' = IF clear \/ (handler = "none" /\ prog.at \in {"wait", "time"}) THEN FALSE
                    ELSE gpu_done_latch \/ (was_busy /\ ~active)

\* A load clears the latch, and a completion in the same cycle is not noted.
LatchEdge(clear) ==
  gpu_done_latch' = IF clear THEN FALSE
                    ELSE gpu_done_latch \/ (was_busy /\ ~active)

GpuEdge(clear, launch) ==
  /\ LatchEdge(clear) /\ was_busy' = active /\ launch_pending' = launch
  /\ IF launch_pending THEN active' = TRUE ELSE active' \in {FALSE, active}

gpu_done(clear) == gpu_done_latch /\ ~clear

\* The instruction in EX is interrupted; what is in MEM still clears.
Interrupted == msie /\ handler = "none" /\ gpu_done(FALSE)

Cycle(from, to) ==
  /\ handler = "none" /\ ~Interrupted /\ prog.at = from
  /\ prog' = [prog EXCEPT !.at = to]
  /\ UNCHANGED handler

------------------------------------------------------------------------------
(* The program.                                                            *)

\* The load pointer stays where the last image left it.
gpu_load_kernel_NoPointer ==
  /\ handler = "none" /\ ~Interrupted /\ prog.at = "idle" /\ GpuEdge(FALSE, FALSE)
  /\ \E k \in Kernels, poll \in BOOLEAN :
       prog' = [at |-> "load", kernel |-> k, i |-> 0, poll |-> poll]
  /\ UNCHANGED <<load, msie, flags, handler, running, timeouts>>

\* gpu_load_kernel: the pointer to word 0, then a word a store.
gpu_load_kernel ==
  /\ handler = "none" /\ ~Interrupted /\ prog.at = "idle" /\ GpuEdge(FALSE, FALSE)
  /\ \E k \in Kernels, poll \in BOOLEAN :
       prog' = [at |-> "load", kernel |-> k, i |-> 0, poll |-> poll]
  /\ imem_addr' = 0
  /\ UNCHANGED <<imem, msie, flags, handler, running, timeouts>>

gpu_load_word ==
  /\ handler = "none" /\ ~Interrupted /\ prog.at = "load" /\ prog.i < Len(prog.kernel)
  /\ GpuEdge(FALSE, FALSE)
  /\ imem' = [imem EXCEPT ![imem_addr] = prog.kernel[prog.i + 1]]
  /\ imem_addr' = (imem_addr + 1) % ImemWords
  /\ prog' = [prog EXCEPT !.i = @ + 1]
  /\ UNCHANGED <<msie, flags, handler, running, timeouts>>

\* The flag of the last run is kept.
gpu_run_wait_irq_KeepsFlag ==
  /\ prog.at = "load" /\ prog.i = Len(prog.kernel) /\ ~prog.poll /\ Cycle("load", "enable")
  /\ GpuEdge(FALSE, FALSE)
  /\ irq_count' = 0 /\ irq_ran' = FALSE
  /\ UNCHANGED <<load, msie, done_flag, running, timeouts>>

\* gpu_run_wait_irq clears the flags of the last run.
gpu_run_wait_irq ==
  /\ prog.at = "load" /\ prog.i = Len(prog.kernel) /\ ~prog.poll /\ Cycle("load", "enable")
  /\ GpuEdge(FALSE, FALSE)
  /\ done_flag' = FALSE /\ irq_count' = 0 /\ irq_ran' = FALSE
  /\ UNCHANGED <<load, msie, running, timeouts>>

gpu_run_enable ==
  /\ Cycle("enable", "launch") /\ GpuEdge(FALSE, FALSE) /\ msie' = TRUE
  /\ UNCHANGED <<load, flags, running, timeouts>>

\* benchmark_gpu: the operands go through the host window, nothing is cleared.
gpu_write_word ==
  /\ prog.at = "load" /\ prog.i = Len(prog.kernel) /\ prog.poll /\ Cycle("load", "launch")
  /\ GpuEdge(FALSE, FALSE)
  /\ UNCHANGED <<load, msie, flags, running, timeouts>>

gpu_launch ==
  /\ Cycle("launch", "return") /\ GpuEdge(FALSE, TRUE)
  /\ running' = prog.kernel
  /\ UNCHANGED <<load, msie, flags, timeouts>>

\* gpu_launch returns to its caller: its jump drains the pipeline.
gpu_launch_return ==
  /\ Cycle("return", IF prog.poll THEN "poll" ELSE "wait") /\ GpuEdge(FALSE, FALSE)
  /\ UNCHANGED <<load, msie, flags, running, timeouts>>

\* A turn of the wait loop; its load of done_flag may look like a read of STATUS.
gpu_wait ==
  /\ Cycle("wait", IF done_flag THEN "done" ELSE "time") /\ GpuEdge(Aliased, FALSE)
  /\ UNCHANGED <<load, msie, flags, running, timeouts>>

gpu_wait_time ==
  \/ /\ Cycle("time", "wait") /\ GpuEdge(FALSE, FALSE)
     /\ UNCHANGED <<load, msie, flags, running, timeouts>>
  \/ /\ timeouts < MaxTimeouts /\ Cycle("time", "gaveup") /\ GpuEdge(FALSE, FALSE)
     /\ timeouts' = timeouts + 1
     /\ UNCHANGED <<load, msie, flags, running>>

\* gpu_wait_idle: STATUS gives active_warps, and clears the latch.
gpu_wait_idle ==
  /\ Cycle("poll", IF active THEN "poll" ELSE "read") /\ GpuEdge(TRUE, FALSE)
  /\ UNCHANGED <<load, msie, flags, running, timeouts>>

\* The results are read, or reported missing; the next run may begin.
gpu_read_word ==
  /\ handler = "none" /\ ~Interrupted /\ prog.at \in {"done", "gaveup", "read"} /\ GpuEdge(FALSE, FALSE)
  /\ prog' = Where("idle")
  /\ UNCHANGED <<load, msie, flags, handler, running, timeouts>>

------------------------------------------------------------------------------
(* The handler: trap_dispatch_soft, omni_msi_isr.                               *)

trap_dispatch_soft ==
  /\ Interrupted /\ handler' = "status" /\ GpuEdge(FALSE, FALSE)
  /\ UNCHANGED <<load, msie, flags, prog, running, timeouts>>

\* The read of STATUS clears the latch.
omni_msi_isr ==
  /\ handler = "status" /\ handler' = "count" /\ GpuEdge(TRUE, FALSE)
  /\ UNCHANGED <<load, msie, flags, prog, running, timeouts>>

omni_msi_isr_count ==
  /\ handler = "count" /\ handler' = "none" /\ GpuEdge(FALSE, FALSE)
  /\ irq_count' = irq_count + 1 /\ irq_ran' = TRUE /\ done_flag' = TRUE
  /\ UNCHANGED <<load, msie, prog, running, timeouts>>

GpuNext ==
  \/ gpu_load_kernel \/ gpu_load_word \/ gpu_run_wait_irq \/ gpu_run_enable \/ gpu_write_word
  \/ gpu_launch \/ gpu_launch_return \/ gpu_wait \/ gpu_wait_time \/ gpu_wait_idle \/ gpu_read_word
  \/ trap_dispatch_soft \/ omni_msi_isr \/ omni_msi_isr_count

GpuSpec == GpuInit /\ [][GpuNext]_gpuVars

------------------------------------------------------------------------------
Ended == ~launch_pending /\ ~active

\* gpu_cmd_proc.v:73, gpu_loader.h:31: once the awaited kernel is over, its completion is
\* on its way to the wait loop: about to be latched, latched, in the handler, or in
\* done_flag.  Otherwise the loop waits for ever.
CompletionPending ==
  prog.at \in {"wait", "time"} /\ Ended =>
    was_busy \/ gpu_done_latch \/ handler # "none" \/ done_flag

\* gpu_loader.h:8-11: a kernel runs from the image that was pushed for it, whatever was
\* loaded before; only one that was given up may find the next one's words.
RunsItsKernel ==
  active /\ timeouts = 0 => \A i \in 1..Len(running) : imem[i - 1] = running[i]

\* gpu_loader.h:30-35, gpu.c:11-14: gpu_run_wait_irq returns 1 when the kernel it launched
\* is over, and has then seen one completion; the poll ends when the kernel launched before
\* it is over.  A time-out earlier on excuses both: the kernel given up may complete in
\* place of the next.
SeesOwnEnd ==
  timeouts = 0 =>
    /\ prog.at = "done" => Ended /\ irq_count = 1 /\ irq_ran
    /\ prog.at = "read" => Ended
=============================================================================
