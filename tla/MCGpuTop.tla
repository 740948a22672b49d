------------------------------ MODULE MCGpuTop ------------------------------
(***************************************************************************)
(* Model checking GpuTop: two kernels that exchange a word through the     *)
(* global memory around a BARRIER, on warps launched at any time.          *)
(***************************************************************************)
EXTENDS GpuTop

I(op, arg) == [op |-> op, arg |-> arg]

\* At 0: compute, publish, meet, read; at 5: read, meet, publish, read back, end
\* through the other's HALT.
Image == [p \in 0..8 |->
  CASE p = 0 -> I("alu", 0)
    [] p = 1 -> I("stg", 0)
    [] p = 2 -> I("barrier", 0)
    [] p = 3 -> I("ldg", 1)
    [] p = 4 -> I("halt", 0)
    [] p = 5 -> I("ldg", 0)
    [] p = 6 -> I("barrier", 0)
    [] p = 7 -> I("stg", 1)
    [] p = 8 -> I("branch", 3)]
=============================================================================
