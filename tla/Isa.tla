--------------------------------- MODULE Isa --------------------------------
(***************************************************************************)
(* What the core promises a program: its instructions execute one at a     *)
(* time, each completely, in program order, and an interrupt is taken      *)
(* between two of them.  No pipeline, no hazards, no flushes.              *)
(*                                                                         *)
(* The control is the one of the reference simulator (ref_sim.cpp) the     *)
(* compliance tests compare the core with.  What the instructions compute  *)
(* is a parameter; the runs and the proof take Golden's operators, which   *)
(* say it independently of the core's units.                               *)
(***************************************************************************)
EXTENDS Instructions

CONSTANTS Alu(_, _, _), Mul(_, _, _), Div(_, _, _),  \* operation, operands
          Taken(_, _, _),                            \* branch, operands
          Load(_, _, _), Store(_, _, _, _)           \* access, memory, address (, word)

VARIABLES prog,      \* the instruction memory
          pc,        \* the next instruction
          regs,      \* the integer registers
          mem,       \* the data memory
          csr        \* the control and status registers

vars == <<prog, pc, regs, mem, csr>>

Init == /\ pc = 0
        /\ regs = [r \in Named(prog) |-> 0]
        /\ mem = [a \in DataWord |-> 0]
        /\ csr = CsrReset

(***************************************************************************)
(* One instruction.                                                        *)
(***************************************************************************)
NextCsrValue(i, old, src) ==
  CASE i.op \in {"csrrw", "csrrwi"} -> src
    [] i.op \in {"csrrs", "csrrsi"} -> Alu("or", old, src)
    [] i.op \in {"csrrc", "csrrci"} -> Alu("and", old, W - 1 - src)

Result(i, a, b) ==
  CASE i.op \in AluOps  -> Alu(i.op, a, b)
    [] i.op \in ImmOps  -> Alu(AluOfImm[i.op], a, i.imm)
    [] i.op \in MulOps  -> Mul(i.op, a, b)
    [] i.op \in DivOps  -> Div(i.op, a, b)
    [] i.op \in Loads   -> Load(i.op, mem, (a + i.imm) % W)
    [] i.op \in Jumps   -> (pc + 1) % W
    [] i.op = "lui"     -> i.imm
    [] i.op = "auipc"   -> (pc + i.imm) % W
    [] i.op \in CsrOps  -> csr_rdata(csr, i.csr)

Execute ==
  LET i == InstrAt(prog, pc)
      a == regs[i.rs1]
      b == regs[i.rs2]
  IN  /\ i.op \notin Traps \cup {"mret"} /\ ~csr_illegal(i)
      /\ regs' = IF i.op \in Writers THEN WriteReg(regs, i.rd, Result(i, a, b)) ELSE regs
      /\ mem' = IF i.op \in Stores THEN Store(i.op, mem, (a + i.imm) % W, b) ELSE mem
      /\ csr' = IF i.op \in CsrOps /\ would_write(i)
                  THEN WrittenCsr(csr, i.csr, NextCsrValue(i, csr_rdata(csr, i.csr),
                                                           IF i.op \in CsrImmOps THEN i.imm ELSE a))
                  ELSE csr
      /\ pc' = CASE i.op = "jalr" -> (a + i.imm) % W
                 [] i.op = "jal"  -> i.imm
                 [] i.op \in Branches /\ Taken(i.op, a, b) -> i.imm
                 [] OTHER -> (pc + 1) % W
      /\ UNCHANGED prog

\* An exception and an interrupt save the pc of the instruction that did not
\* execute and continue at the vector.
TrapEntry(cause) == /\ csr' = TrapCsr(csr, pc, cause)
                    /\ pc' = csr.mtvec
                    /\ UNCHANGED <<prog, regs, mem>>

Exception == LET i == InstrAt(prog, pc)
             IN  (i.op \in Traps \/ csr_illegal(i)) /\ TrapEntry(CauseOf(i))
Interrupt == csr.mie /\ csr.mtie /\ TrapEntry(TimerCause)

Mret == /\ InstrAt(prog, pc).op = "mret"
        /\ pc' = csr.mepc
        /\ csr' = MretCsr(csr)
        /\ UNCHANGED <<prog, regs, mem>>

Next == Execute \/ Exception \/ Interrupt \/ Mret

Spec == Init /\ [][Next]_vars
=============================================================================
