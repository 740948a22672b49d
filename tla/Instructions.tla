----------------------------- MODULE Instructions ---------------------------
(***************************************************************************)
(* The instructions of the RV32IM_Zicsr core as its decoder names them     *)
(* (decoder.v), and the control registers (csr_file.v).                    *)
(*                                                                         *)
(* An instruction is a record.  Every one has the register fields, as the  *)
(* encodings do: rs2 of an immediate instruction holds bits of the         *)
(* immediate, and the hazard unit and the forwarding net look at it all    *)
(* the same.  The pc counts instructions; the immediate of a branch or a   *)
(* jal is its target.  Data addresses count bytes.                         *)
(***************************************************************************)
EXTENDS Words, Sequences

CONSTANT DataTop   \* data addresses below it are memory, the others devices

ASSUME DataAssumption == DataTop \in Word \ {0} /\ DataTop % 4 = 0

Reg  == 0..31
Csr  == {"mstatus", "mie", "mtvec", "mscratch", "mepc", "mcause", "mvendorid"}

\* The ALU operation of an instruction with an immediate.
AluOfImm == [addi |-> "add", slti |-> "slt", sltiu |-> "sltu", xori |-> "xor", ori |-> "or",
             andi |-> "and", slli |-> "sll", srli |-> "srl", srai |-> "sra"]

AluOps    == {"add", "sub", "and", "or", "xor", "slt", "sltu", "sll", "srl", "sra"}
ImmOps    == DOMAIN AluOfImm
MulOps    == {"mul", "mulh", "mulhsu", "mulhu"}
DivOps    == {"div", "divu", "rem", "remu"}
Loads     == {"lb", "lh", "lw", "lbu", "lhu"}
Stores    == {"sb", "sh", "sw"}
Branches  == {"beq", "bne", "blt", "bge", "bltu", "bgeu"}
Jumps     == {"jal", "jalr"}
CsrRegOps == {"csrrw", "csrrs", "csrrc"}
CsrImmOps == {"csrrwi", "csrrsi", "csrrci"}
CsrOps    == CsrRegOps \cup CsrImmOps
Upper     == {"lui", "auipc"}
Traps     == {"ecall", "ebreak", "illegal"}

\* The stages of the code these control bits drive: a branch, a store and a
\* trap write no register.
Writers == AluOps \cup ImmOps \cup MulOps \cup DivOps \cup Loads \cup Jumps \cup Upper \cup CsrOps
Op      == Writers \cup Stores \cup Branches \cup Traps \cup {"mret"}

Instr == [op : Op, rd : Reg, rs1 : Reg, rs2 : Reg, imm : Word, csr : Csr]

Plain(op, rd, rs1, rs2, imm) ==
  [op |-> op, rd |-> rd, rs1 |-> rs1, rs2 |-> rs2, imm |-> imm, csr |-> "mscratch"]

\* addi x0, x0, 0: what a flush puts on the instruction wires, and what fills the
\* instruction memory behind a program.
Nop == Plain("addi", 0, 0, 0, 0)

\* A program is the sequence of its instructions; the first is at address 0.
InstrAt(p, a) == IF a + 1 \in DOMAIN p THEN p[a + 1] ELSE Nop

\* The registers a program names; nothing ever looks at the others.
Named(p) == {0} \cup UNION {{p[a].rd, p[a].rs1, p[a].rs2} : a \in DOMAIN p}

IsData(a)   == a < DataTop
DataWord    == 0..((DataTop \div 4) - 1)

\* What a device register reads as.
DeviceWord == 1

WriteReg(f, r, v) == IF r = 0 THEN f ELSE [f EXCEPT ![r] = v]

(***************************************************************************)
(* The control and status registers.  mstatus and mie keep the bits of     *)
(* machine and timer interrupts; their positions are those of a byte.      *)
(***************************************************************************)
CsrFile == [mie : BOOLEAN, mpie : BOOLEAN, mtie : BOOLEAN,
            mtvec : Word, mscratch : Word, mepc : Word, mcause : Word]

CsrReset == [mie |-> FALSE, mpie |-> FALSE, mtie |-> FALSE,
             mtvec |-> 0, mscratch |-> 0, mepc |-> 0, mcause |-> 0]

Bit(v, n) == (v \div 2^n) % 2 = 1
ReadOnly  == {"mvendorid"}

csr_rdata(c, r) ==
  CASE r = "mstatus" -> 128 * Flag(c.mpie) + 8 * Flag(c.mie)
    [] r = "mie"     -> 128 * Flag(c.mtie)
    [] r \in ReadOnly -> 0
    [] OTHER -> c[r]

WrittenCsr(c, r, v) ==
  CASE r = "mstatus" -> [c EXCEPT !.mie = Bit(v, 3), !.mpie = Bit(v, 7)]
    [] r = "mie"     -> [c EXCEPT !.mtie = Bit(v, 7)]
    [] r = "mcause"  -> [c EXCEPT !.mcause = (IF v >= IMIN THEN IMIN ELSE 0) + (v % 16)]
    [] OTHER -> [c EXCEPT ![r] = v]

would_write(i) == \/ i.op \in {"csrrw", "csrrwi"}
                  \/ IF i.op \in CsrImmOps THEN i.imm # 0 ELSE i.rs1 # 0

csr_illegal(i) == i.op \in CsrOps /\ would_write(i) /\ i.csr \in ReadOnly

TimerCause == IMIN + 7
CauseOf(i) == CASE i.op = "ecall" -> 11 [] i.op = "ebreak" -> 3 [] OTHER -> 2

TrapCsr(c, epc, cause) ==
  [c EXCEPT !.mepc = epc, !.mcause = cause, !.mpie = c.mie, !.mie = FALSE]
MretCsr(c) == [c EXCEPT !.mie = c.mpie, !.mpie = TRUE]
=============================================================================
