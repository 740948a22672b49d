------------------------------ MODULE MCFirmware -----------------------------
(***************************************************************************)
(* Model checking the firmware's programs.  They share no state: one image *)
(* is in the instruction memory, and flashed says which.                   *)
(***************************************************************************)
EXTENDS TickService, GpuCompletion, RtosApps, Shell

VARIABLE flashed
firmwareVars == <<tickVars, gpuVars, rtosVars, shellVars, flashed>>

MCKinds   == {[period_us |-> 2, one_shot |-> FALSE], [period_us |-> 3, one_shot |-> TRUE]}
MCKernels == {<<1>>, <<2, 3>>}

FirmwareInit ==
  /\ flashed \in {"tick", "gpu", "rtos", "shell"}
  /\ TickInit /\ GpuInit /\ ShellInit
  /\ RtosInit /\ (flashed # "rtos" => image = "rtos")

FirmwareNext ==
  /\ UNCHANGED flashed
  /\ \/ flashed = "tick"  /\ TickNext  /\ UNCHANGED <<gpuVars, rtosVars, shellVars>>
     \/ flashed = "gpu"   /\ GpuNext   /\ UNCHANGED <<tickVars, rtosVars, shellVars>>
     \/ flashed = "rtos"  /\ RtosNext  /\ UNCHANGED <<tickVars, gpuVars, shellVars>>
     \/ flashed = "shell" /\ ShellNext /\ UNCHANGED <<tickVars, gpuVars, rtosVars>>

\* A program reads the results of the kernel it launched, never of one that still
\* runs: the wait of the GPU driver (gpu_loader.c:56, gpu.c:11) and the gpu command
\* of the shell (shell.c:174).
ResultsOwn == SeesOwnEnd /\ GpuResultsOwn

Firmware == FirmwareInit /\ [][FirmwareNext]_firmwareVars
=============================================================================
