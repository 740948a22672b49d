------------------------------- MODULE Pipeline -----------------------------
(***************************************************************************)
(* The five-stage pipeline of the core (cpu_top.v and the stages it wires  *)
(* together) in the configuration soc_top builds: no caches, a registered  *)
(* data memory.  One step is one rising clock edge; the operators without  *)
(* primes are the combinational wires of the cycle before it.              *)
(*                                                                         *)
(* What is abstracted: the counters and the external and software          *)
(* interrupts of the CSR file, and the atomic instructions, which need the *)
(* data cache.  A word has Xlen bits.  The data memory answers as          *)
(* UnifiedMemory shows it does: CpuLoadCurrent.                            *)
(***************************************************************************)
EXTENDS Instructions, Units, Golden

CONSTANTS Programs,    \* the contents instr_bram may start with
          MaxIrq       \* bound: how often the timer raises its interrupt

ASSUME IrqAssumption == MaxIrq \in Nat
ASSUME ProgramsAssumption == \A p \in Programs : p \in Seq(Instr) /\ Len(p) <= W

VARIABLES
  prog,     \* instr_bram.mem
  pc,       \* pc_gen.pc
  fetched,  \* instr_bram.rdata
  ifid_pc,  \* fetch_stage.if_id_pc
  flush_q,  \* fetch_stage.flush_q
  id,       \* the ID/EX bundle: pc, decoded instruction, register operands
  ex,       \* the EX/MEM bundle
  wb,       \* the MEM/WB bundle
  regs,     \* regfile.reg_file
  dmem,     \* data_bram.mem
  hold,     \* mem_stage.dbram_hold
  div,      \* the divider
  csr,      \* csr_file
  win,      \* exec_stage.redirect_win
  rtq,      \* exec_stage.redirect_target_q
  irq,      \* mip.MTIP and mie.MTIE: the timer's interrupt is pending
  raised,   \* how often it was raised (bound)
  apc       \* history: the pc of the next instruction to leave EX

vars == <<prog, pc, fetched, ifid_pc, flush_q, id, ex, wb, regs, dmem, hold,
          div, csr, win, rtq, irq, raised, apc>>

\* "real" is history: the bundle holds a fetched instruction, not the NOP of a
\* flush or a bubble.
Bubble  == [pc |-> 0, ins |-> Nop, a |-> 0, b |-> 0, real |-> FALSE]
ExEmpty == [wen |-> FALSE, mr |-> FALSE, mw |-> FALSE, rd |-> 0, val |-> 0, sdata |-> 0,
            op |-> "addi"]
WbEmpty == [wen |-> FALSE, rd |-> 0, val |-> 0]

Init ==
  /\ prog \in Programs
  /\ pc = 0 /\ fetched = InstrAt(prog, 0) /\ ifid_pc = 0 /\ flush_q = TRUE
  /\ id = Bubble /\ ex = ExEmpty /\ wb = WbEmpty
  /\ regs = [r \in Named(prog) |-> 0]
  /\ dmem = [a \in DataWord |-> 0]
  /\ hold = FALSE /\ div = DividerReset /\ csr = CsrReset
  /\ win = 0 /\ rtq = 0
  /\ irq = FALSE /\ raised = 0
  /\ apc = 0

(***************************************************************************)
(* Wires of EX.                                                            *)
(***************************************************************************)

Forward(r, base) ==
  IF r # 0 /\ ex.wen /\ ex.rd = r THEN ex.val
  ELSE IF r # 0 /\ wb.wen /\ wb.rd = r THEN wb.val
  ELSE base

rs1_data == Forward(id.ins.rs1, id.a)
rs2_data == Forward(id.ins.rs2, id.b)

is_div    == id.ins.op \in DivOps
div_busy  == div.state # "IDLE"
div_start == is_div /\ ~div_busy /\ ~div.done
div_stall == is_div /\ ~div.done

\* The operands of the ALU: a branch and a jal add their offset to the pc (their
\* imm is the sum), an auipc too.
operand_a == IF id.ins.op = "auipc" THEN id.pc ELSE rs1_data
operand_b == IF id.ins.op \in AluOps THEN rs2_data ELSE id.ins.imm
alu_op    == CASE id.ins.op \in AluOps -> id.ins.op
               [] id.ins.op \in ImmOps -> AluOfImm[id.ins.op]
               [] id.ins.op = "lui"    -> "lui_pass"
               [] OTHER -> "add"
result    == alu(alu_op, operand_a, operand_b)

redirect_valid   == take_branch(id.ins.op \in Jumps, id.ins.op \in Branches, id.ins.op,
                                rs1_data, rs2_data)
redirect_target  == IF id.ins.op = "jalr" THEN result ELSE id.ins.imm
redirect_pending == win # 0

\* A data-window load keeps the pipeline for the cycle its word needs.
mem_hold == ex.mr /\ IsData(ex.val) /\ ~hold

\* Mutant: the window waits for a redirect to drain instead of using its target.
int_window_Drained == id.pc # 0 /\ ~redirect_pending /\ ~ex.mr

int_window == (id.pc # 0 \/ redirect_pending) /\ ~ex.mr
timer_int  == csr.mie /\ csr.mtie /\ irq /\ int_window
is_exception == id.ins.op \in Traps \/ csr_illegal(id.ins)
trap_taken == is_exception \/ timer_int
mret       == id.ins.op = "mret"
trap_valid == trap_taken \/ mret
trap_target == IF mret THEN csr.mepc ELSE csr.mtvec
trap_pc     == IF timer_int /\ redirect_pending THEN rtq ELSE id.pc
trap_cause  == IF timer_int THEN TimerCause ELSE CauseOf(id.ins)

(***************************************************************************)
(* Wires of IF and ID.                                                     *)
(***************************************************************************)

\* Mutant: a trap redirects the fetch and leaves the decode stage alone.
flush_RedirectOnly == redirect_valid

flush       == redirect_valid \/ trap_valid
\* Mutant: the one-cycle flush fetch_stage had before flush_q.
if_id_flush_OneCycle == flush

if_id_flush == flush \/ flush_q
if_id_instr == IF if_id_flush THEN Nop ELSE fetched

\* The load-use hazard, and everything that freezes the front end.
stall  == /\ id.ins.op \in Loads /\ id.ins.rd # 0
          /\ id.ins.rd \in {if_id_instr.rs1, if_id_instr.rs2}
freeze == stall \/ div_stall \/ mem_hold

\* The register file writes through to its read ports.
ReadReg(r) == IF r = 0 THEN 0
              ELSE IF wb.wen /\ wb.rd = r THEN wb.val
              ELSE regs[r]

(***************************************************************************)
(* The clock edge of each block.                                           *)
(***************************************************************************)

Fetch ==
  /\ pc' = IF trap_valid THEN trap_target
           ELSE IF redirect_valid THEN redirect_target
           ELSE IF freeze THEN pc
           ELSE (pc + 1) % W
  /\ ifid_pc' = IF redirect_valid THEN redirect_target
                ELSE IF trap_valid THEN trap_target
                ELSE IF freeze THEN ifid_pc
                ELSE pc
  /\ fetched' = IF freeze THEN fetched ELSE InstrAt(prog, pc)
  /\ flush_q' = flush

\* A frozen bundle is kept even under a flush or a hazard.
DecodeHold    == /\ div_stall \/ mem_hold
                 /\ id' = id
DecodeBubble  == /\ ~(div_stall \/ mem_hold)
                 /\ stall \/ flush
                 /\ id' = Bubble
DecodeCapture == /\ ~(div_stall \/ mem_hold)
                 /\ ~(stall \/ flush)
                 /\ id' = [pc |-> ifid_pc, ins |-> if_id_instr,
                           a |-> ReadReg(if_id_instr.rs1),
                           b |-> ReadReg(if_id_instr.rs2),
                           real |-> ~if_id_flush]

\* Mutant: a flush or hazard bubble wins over a freeze (the load;load;branch bug).
Decode_BubbleFirst == \/ (stall \/ flush) /\ id' = Bubble
                      \/ DecodeHold /\ ~(stall \/ flush)
                      \/ DecodeCapture

Decode == DecodeHold \/ DecodeBubble \/ DecodeCapture

DivideEdge == div' = divider(div, div_start, id.ins.op, rs1_data, rs2_data)

\* What EX hands to MEM.
Executed ==
  LET i == id.ins
  IN  [wen |-> i.op \in Writers, mr |-> i.op \in Loads, mw |-> i.op \in Stores,
       rd |-> i.rd, sdata |-> rs2_data, op |-> i.op,
       val |-> CASE i.op \in CsrOps -> csr_rdata(csr, i.csr)
                 [] i.op \in DivOps -> div.result
                 [] i.op \in MulOps -> multiplier(i.op, rs1_data, rs2_data)
                 [] i.op \in Jumps  -> (id.pc + 1) % W
                 [] OTHER -> result]

Killed == [ex EXCEPT !.wen = FALSE, !.mr = FALSE, !.mw = FALSE]

\* The order of the conditions is the code's: a waiting division and a trap
\* clear the bundle whether or not the stage is stalled.
Exec == ex' = IF div_stall THEN Killed
              ELSE IF trap_valid THEN Killed
              ELSE IF mem_hold THEN ex
              ELSE Executed

Stored == IF ~ex.mw \/ ~IsData(ex.val) THEN dmem
          ELSE [dmem EXCEPT ![ex.val \div 4] =
                  Merged(@, dmem_wdata(ex.val, ex.sdata), dmem_wen(ex.op, ex.val))]
Loaded == load_data(ex.op, IF IsData(ex.val) THEN dmem[ex.val \div 4] ELSE DeviceWord, ex.val % 4)

Memory ==
  /\ dmem' = Stored
  /\ hold' = IF ex.mr /\ IsData(ex.val) THEN ~hold ELSE FALSE
  /\ wb' = IF mem_hold THEN wb
           ELSE [wen |-> ex.wen, rd |-> ex.rd,
                 val |-> IF ex.mr THEN Loaded ELSE ex.val]

WriteBack == regs' = IF wb.wen THEN WriteReg(regs, wb.rd, wb.val) ELSE regs

src      == IF id.ins.op \in CsrImmOps THEN id.ins.imm ELSE rs1_data
next_val == LET old == csr_rdata(csr, id.ins.csr)
            IN  CASE id.ins.op \in {"csrrw", "csrrwi"} -> src
                  [] id.ins.op \in {"csrrs", "csrrsi"} -> old | src
                  [] id.ins.op \in {"csrrc", "csrrci"} -> old & (W - 1 - src)
write_en == id.ins.op \in CsrOps /\ would_write(id.ins) /\ ~csr_illegal(id.ins)

\* The CSR file looks at neither freeze.
CsrEdge == csr' = IF trap_taken THEN TrapCsr(csr, trap_pc, trap_cause)
                  ELSE IF mret THEN MretCsr(csr)
                  ELSE IF write_en THEN WrittenCsr(csr, id.ins.csr, next_val)
                  ELSE csr

\* Mutant: the window is not kept from counting below zero.
RedirectDrain_Unguarded ==
  /\ win' = IF redirect_valid THEN 3 ELSE win - 1
  /\ rtq' = IF redirect_valid THEN redirect_target ELSE rtq

RedirectDrain ==
  /\ win' = IF redirect_valid THEN 3 ELSE IF win # 0 THEN win - 1 ELSE 0
  /\ rtq' = IF redirect_valid THEN redirect_target ELSE rtq

\* The timer (timer.v): its interrupt rises at any time and stays pending until
\* a store to the device pushes the compare value out again.
Acknowledged == ex.mw /\ ~IsData(ex.val)
TimerClear == Acknowledged /\ irq' = FALSE /\ raised' = raised
\* A program that never writes mie cannot tell whether the timer is pending, so the
\* timer stays silent there.
Listens    == \E a \in DOMAIN prog : prog[a].op \in CsrOps /\ prog[a].csr = "mie"
TimerRaise == ~Acknowledged /\ ~irq /\ Listens /\ raised < MaxIrq /\ irq' = TRUE /\ raised' = raised + 1
TimerKeep  == ~Acknowledged /\ UNCHANGED <<irq, raised>>

Timer == TimerClear \/ TimerRaise \/ TimerKeep

\* The instruction in EX leaves it for good in this cycle.
commit == id.real /\ ~trap_valid /\ ~div_stall /\ ~mem_hold

History == apc' = IF trap_valid THEN trap_target
                  ELSE IF ~commit THEN apc
                  ELSE IF redirect_valid THEN redirect_target
                  ELSE (id.pc + 1) % W

Next == /\ Fetch /\ Decode /\ DivideEdge /\ Exec /\ Memory /\ WriteBack
        /\ CsrEdge /\ RedirectDrain /\ Timer /\ History
        /\ UNCHANGED prog

Spec == Init /\ [][Next]_vars

\* The clock runs.
FairSpec == Spec /\ WF_vars(Next)

-----------------------------------------------------------------------------
TypeOK ==
  /\ prog \in Seq(Instr)
  /\ pc \in Word /\ ifid_pc \in Word /\ fetched \in Instr /\ flush_q \in BOOLEAN
  /\ id \in [pc : Word, ins : Instr, a : Word, b : Word, real : BOOLEAN]
  /\ ex \in [wen : BOOLEAN, mr : BOOLEAN, mw : BOOLEAN, rd : Reg, val : Word, sdata : Word, op : Op]
  /\ wb \in [wen : BOOLEAN, rd : Reg, val : Word]
  /\ regs \in [Named(prog) -> Word] /\ dmem \in [DataWord -> Word]
  /\ hold \in BOOLEAN
  /\ div \in Divider
  /\ csr \in CsrFile
  /\ win \in 0..3 /\ rtq \in Word
  /\ irq \in BOOLEAN /\ raised \in 0..MaxIrq
  /\ apc \in Word

\* The pc that travels with an instruction is the one it was fetched from.  The
\* fetch stage captures the two by different rules (the pc directly on a
\* redirect, the instruction a cycle later), so a freeze, a redirect or a trap
\* could pair one with the other's neighbour (fetch_stage.v:92-110).
PcNamesInstruction == id.real => id.ins = InstrAt(prog, id.pc)

\* cpu_top.v:73-75: while a load waits in MEM "its EX/MEM bundle must not be
\* clobbered by whatever decode/exec held".
HeldBundleKept == [][mem_hold => ex' = ex]_vars

\* exec_stage.v:216 "trapping instruction must not retire": the instruction
\* whose pc an interrupt saves does not stay in EX to finish after all.
TrappedDoesNotRetire == [][timer_int /\ id.real => ~id'.real]_vars

\* A pending and enabled interrupt is taken and acknowledged in the end, whatever loop the
\* program sits in: the interrupt window cannot stay shut for ever.
InterruptServed == irq /\ csr.mie /\ csr.mtie ~> ~irq

-----------------------------------------------------------------------------
(***************************************************************************)
(* The program's view.  An instruction counts as executed when it leaves   *)
(* EX, so the registers are those of the file with the results still in    *)
(* MEM/WB and EX/MEM on top, and the memory has the store in EX/MEM.       *)
(***************************************************************************)

absRegs ==
  LET written == IF wb.wen THEN WriteReg(regs, wb.rd, wb.val) ELSE regs
  IN  IF ~ex.wen THEN written
      ELSE WriteReg(written, ex.rd, IF ex.mr THEN Loaded ELSE ex.val)

Program == INSTANCE Isa WITH
  pc <- apc, regs <- absRegs, mem <- Stored,
  Alu <- golden_alu, Mul <- golden_mul, Div <- golden_div, Taken <- golden_taken,
  Load <- golden_load, Store <- golden_store

\* The pipeline executes the program: forwarding, stalls, flushes, the wait of a
\* load, divisions, redirects and interrupts at any cycle included, what it does
\* to registers, memory and CSRs is what one instruction at a time would do.
ImplementsIsa == Program!Spec
=============================================================================
