------------------------------- MODULE Decoder ------------------------------
(***************************************************************************)
(* decoder.v and imm_gen.v: an instruction word cracked into registers,    *)
(* immediate and control signals; and the encoders of its bench            *)
(* (tb_decoder.cpp), which put a word together.                            *)
(*                                                                         *)
(* A word is the record of its bit fields, each a number: funct7 31:25,    *)
(* rs2 24:20, rs1 19:15, funct3 14:12, rd 11:7, and the opcode by name.    *)
(* The formats of an immediate overlay these fields.  An immediate is the  *)
(* signed number its 32 bits stand for.                                    *)
(***************************************************************************)
EXTENDS Integers

Opcodes == {"RTYPE", "ITYPE", "LOAD", "STORE", "BRANCH", "LUI", "AUIPC", "JAL", "JALR",
            "SYSTEM", "ATOMIC", "FENCE"}

Fields(funct7, rs2, rs1, funct3, rd, opcode) ==
  [funct7 |-> funct7, rs2 |-> rs2, rs1 |-> rs1, funct3 |-> funct3, rd |-> rd, opcode |-> opcode]

\* Bits hi..lo of the two's complement of a number.
Slice(n, hi, lo) == (n \div 2^lo) % 2^(hi - lo + 1)

(***************************************************************************)
(* The encoders: an immediate loses its bits above the format's, and the   *)
(* branch and jump formats its lowest.                                     *)
(***************************************************************************)
encode_r(funct7, rs2, rs1, funct3, rd, opcode) == Fields(funct7, rs2, rs1, funct3, rd, opcode)

encode_i(imm, rs1, funct3, rd, opcode) ==
  Fields(Slice(imm, 11, 5), Slice(imm, 4, 0), rs1, funct3, rd, opcode)

encode_s(imm, rs2, rs1, funct3, opcode) ==
  Fields(Slice(imm, 11, 5), rs2, rs1, funct3, Slice(imm, 4, 0), opcode)

encode_b(imm, rs2, rs1, funct3, opcode) ==
  Fields(64 * Slice(imm, 12, 12) + Slice(imm, 10, 5), rs2, rs1, funct3,
         2 * Slice(imm, 4, 1) + Slice(imm, 11, 11), opcode)

encode_u(imm20, rd, opcode) ==
  Fields(Slice(imm20, 19, 13), Slice(imm20, 12, 8), Slice(imm20, 7, 3), Slice(imm20, 2, 0), rd, opcode)

encode_j(imm, rd, opcode) ==
  Fields(64 * Slice(imm, 20, 20) + Slice(imm, 10, 5), 2 * Slice(imm, 4, 1) + Slice(imm, 11, 11),
         Slice(imm, 19, 15), Slice(imm, 14, 12), rd, opcode)

(***************************************************************************)
(* imm_gen.v.  Bit 31, the top of funct7, is the sign of every format.     *)
(***************************************************************************)
SignBit(w, weight) == -weight * Slice(w.funct7, 6, 6)

imm_i(w) == SignBit(w, 2048) + 32 * Slice(w.funct7, 5, 0) + w.rs2
imm_s(w) == SignBit(w, 2048) + 32 * Slice(w.funct7, 5, 0) + w.rd

\* Mutant: bit 11 of a branch is taken for bit 0.
imm_b_Plain(w) == SignBit(w, 4096) + 32 * Slice(w.funct7, 5, 0) + w.rd

imm_b(w) == SignBit(w, 4096) + 2048 * Slice(w.rd, 0, 0)
              + 32 * Slice(w.funct7, 5, 0) + 2 * Slice(w.rd, 4, 1)
imm_u(w) == 4096 * (SignBit(w, 2^19) + 2^13 * Slice(w.funct7, 5, 0)
                      + 256 * w.rs2 + 8 * w.rs1 + w.funct3)
imm_j(w) == SignBit(w, 2^20) + 4096 * (8 * w.rs1 + w.funct3) + 2048 * Slice(w.rs2, 0, 0)
              + 32 * Slice(w.funct7, 5, 0) + 2 * Slice(w.rs2, 4, 1)

imm_gen(w) ==
  CASE w.opcode = "RTYPE"  -> 0
    [] w.opcode = "STORE"  -> imm_s(w)
    [] w.opcode = "BRANCH" -> imm_b(w)
    [] w.opcode = "JAL"    -> imm_j(w)
    [] w.opcode \in {"LUI", "AUIPC"} -> imm_u(w)
    [] OTHER -> imm_i(w)

(***************************************************************************)
(* decoder.v.  A combination of function bits it does not name is not      *)
(* illegal: it keeps alu_op 0, an addition, or is let through to the       *)
(* memory and branch stages.                                               *)
(***************************************************************************)
ByFunct3(f) == CASE f = 0 -> "add" [] f = 1 -> "sll" [] f = 2 -> "slt" [] f = 3 -> "sltu"
                 [] f = 4 -> "xor" [] f = 5 -> "srl" [] f = 6 -> "or" [] f = 7 -> "and"

alu_op_r(w) ==
  CASE w.funct7 = 0 -> ByFunct3(w.funct3)
    [] w.funct7 = 32 /\ w.funct3 = 0 -> "sub"
    [] w.funct7 = 32 /\ w.funct3 = 5 -> "sra"
    [] OTHER -> "add"

alu_op_i(w) ==
  CASE w.funct3 # 5 -> ByFunct3(w.funct3)
    [] w.funct3 = 5 /\ w.funct7 = 32 -> "sra"
    [] w.funct3 = 5 /\ w.funct7 = 0 -> "srl"
    [] OTHER -> "add"

\* The top twelve bits of the word.
funct12(w) == 32 * w.funct7 + w.rs2
lr(w) == w.opcode = "ATOMIC" /\ w.funct7 \div 4 = 2 /\ w.funct3 = 2
sc(w) == w.opcode = "ATOMIC" /\ w.funct7 \div 4 = 3 /\ w.funct3 = 2
privileged(w, f12) == w.opcode = "SYSTEM" /\ w.funct3 = 0 /\ funct12(w) = f12

decoder(w) ==
  [rs1 |-> w.rs1, rs2 |-> w.rs2, rd |-> w.rd, funct3 |-> w.funct3, funct7 |-> w.funct7,
   immediate |-> imm_gen(w),
   alu_op |-> CASE w.opcode = "RTYPE" -> alu_op_r(w) [] w.opcode = "ITYPE" -> alu_op_i(w)
                [] w.opcode = "LUI" -> "lui_pass" [] w.opcode = "ATOMIC" -> "atomic"
                [] OTHER -> "add",
   reg_write |-> \/ w.opcode \in {"RTYPE", "ITYPE", "LOAD", "LUI", "AUIPC", "JAL", "JALR", "ATOMIC"}
                 \/ w.opcode = "SYSTEM" /\ w.funct3 # 0,
   mem_read  |-> w.opcode = "LOAD" \/ lr(w) \/ sc(w),
   mem_write |-> w.opcode = "STORE" \/ sc(w),
   branch |-> w.opcode = "BRANCH",
   jump   |-> w.opcode \in {"JAL", "JALR"},
   is_mul_div |-> w.opcode = "RTYPE" /\ w.funct7 = 1,
   is_csr     |-> w.opcode = "SYSTEM" /\ w.funct3 # 0,
   is_ecall |-> privileged(w, 0), is_ebreak |-> privileged(w, 1), is_mret |-> privileged(w, 770),
   op_type |-> CASE w.opcode \in {"ITYPE", "LOAD", "JALR", "ATOMIC"} -> "I"
                 [] w.opcode = "STORE" -> "S" [] w.opcode = "BRANCH" -> "B" [] OTHER -> "R",
   illegal_instr |-> \/ w.opcode \notin Opcodes
                     \/ w.opcode = "ATOMIC" /\ ~lr(w) /\ ~sc(w)
                     \/ /\ w.opcode = "SYSTEM" /\ w.funct3 = 0
                        /\ ~\E f12 \in {0, 1, 770} : privileged(w, f12)]
=============================================================================
