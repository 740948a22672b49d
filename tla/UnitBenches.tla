----------------------------- MODULE UnitBenches ----------------------------
(***************************************************************************)
(* The unit benches of the core: each drives one unit with operands and    *)
(* compares what it answers with a golden model or a literal.  The         *)
(* operands are those of the benches, scaled to the width of a word, and   *)
(* every pair of them; a divider is driven tick by tick, a warp of the GPU *)
(* launch by launch and instruction by instruction.                        *)
(***************************************************************************)
EXTENDS Units, Golden, Decoder, GpuKernels, TLC

VARIABLES job,      \* what is driven, and what the bench expects of the answer
          stage,    \* where its bench is: "drive", "wait" for a divider, "checked"
          dut,      \* the divider, or a warp of the GPU with its memories
          guard,    \* the bench's count of ticks
          got       \* the answer
benchVars == <<job, stage, dut, guard, got>>

\* A bench expects some outputs of the unit and leaves the others alone.
Job(unit, op, a, b, exp) == [unit |-> unit, op |-> op, a |-> a, b |-> b, exp |-> exp]
Valued(v) == [value |-> v]

\* All operands of the benches: small numbers, the ends of the ranges, patterns.
Operands == {0, 1, 2, 3, 4, 5, 7, 16, 50, 52, 57, 85, 100, IMAX, IMIN, 170, 222,
             W - 7, W - 3, W - 2, W - 1}

(***************************************************************************)
(* tb_alu.cpp: literals.                                                   *)
(***************************************************************************)
AluVectors == LET Ones == W - 1 IN
  {<<"add", 5, 3, 8>>, <<"add", 0, 0, 0>>, <<"add", IMAX, 1, IMIN>>, <<"add", Ones, 1, 0>>,
   <<"add", Ones, Ones, Ones - 1>>,
   <<"sub", 10, 3, 7>>, <<"sub", 3, 3, 0>>, <<"sub", 0, 1, Ones>>, <<"sub", IMIN, 1, IMAX>>,
   <<"and", Ones, Ones, Ones>>, <<"and", Ones, 0, 0>>, <<"and", 170, 85, 0>>, <<"and", 204, 51, 0>>,
   <<"or", 0, 0, 0>>, <<"or", 170, 85, Ones>>, <<"or", 192, 3, 195>>,
   <<"xor", 222, 222, 0>>, <<"xor", Ones, 0, Ones>>, <<"xor", 170, 85, Ones>>,
   <<"slt", Ones, 0, 1>>, <<"slt", 0, Ones, 0>>, <<"slt", IMIN, IMAX, 1>>, <<"slt", 5, 5, 0>>,
   <<"sltu", 0, 1, 1>>, <<"sltu", Ones, 0, 0>>, <<"sltu", IMAX, IMIN, 1>>, <<"sltu", 10, 10, 0>>,
   <<"sll", 1, 0, 1>>, <<"sll", 1, Xlen - 1, IMIN>>, <<"sll", 15, 4, 240>>, <<"sll", 0, 3, 0>>,
   <<"srl", IMIN, Xlen - 1, 1>>, <<"srl", 15, 0, 15>>, <<"srl", 192, 6, 3>>,
   <<"sra", IMIN, Xlen - 1, Ones>>, <<"sra", IMAX, Xlen - 1, 0>>, <<"sra", 252, 2, Ones>>,
   <<"sra", IMIN, 0, IMIN>>, <<"lui_pass", 75, 220, 220>>, <<"lui_pass", 75, 0, 0>>}

AluJobs == {Job("alu", t[1], t[2], t[3], Valued(t[4])) : t \in AluVectors}
             \cup {Job("alu", op, a, b, Valued(golden_alu(op, a, b))) : op \in AluOps, a, b \in Operands}

(***************************************************************************)
(* tb_branch_unit.cpp: the condition, and the two inputs that gate it.     *)
(***************************************************************************)
BranchJobs ==
  {Job("branch", op, a, b, Valued(Flag(golden_taken(op, a, b)))) : op \in Branches, a, b \in Operands}
  \cup {Job("jump", "beq", a, b, Valued(1)) : a, b \in {1, 2, 5, 6}}
  \cup {Job("plain", "beq", a, b, Valued(0)) : a, b \in {5}}

(***************************************************************************)
(* tb_multiplier.cpp, tb_divider.cpp and tb_gpu_alu.cpp.                   *)
(***************************************************************************)
MulJobs == {Job("mul", op, a, b, Valued(golden_mul(op, a, b))) : op \in MulOps, a, b \in Operands}
DivJobs == {Job("div", op, a, b, Valued(golden_div(op, a, b))) : op \in DivOps, a, b \in Operands}

LaneJobs ==
  LET four(op, r0, r1, r2, r3) == {<<op, 2, 5, r0>>, <<op, 4, 1, r1>>, <<op, 8, 2, r2>>, <<op, 16, 3, r3>>}
      vectors == four("add", 7, 5, 10, 19) \cup four("sub", W - 3, 3, 6, 13) \cup four("and", 0, 0, 0, 0)
                   \cup four("or", 7, 5, 10, 19) \cup four("xor", 7, 5, 10, 19)
                   \cup four("slt", 1, 0, 0, 0) \cup four("sltu", 1, 0, 0, 0)
                   \cup four("sll", 64, 8, 32, 128) \cup four("srl", 0, 2, 2, 2)
                   \cup four("mul", 10, 4, 16, 48) \cup {<<"sra", W - 8, 1, W - 4>>, <<"sra", 0, 0, 0>>}
  IN  {Job("lane", t[1], t[2], t[3], Valued(t[4])) : t \in vectors}

(***************************************************************************)
(* tb_decoder.cpp: what a word of each format is decoded to.  Its vectors  *)
(* fix the registers and take one immediate or a few; here every format    *)
(* meets the same registers and the immediates at the format's ends.       *)
(***************************************************************************)
\* The outputs every vector checks.
Controls == {"reg_write", "mem_read", "mem_write", "branch", "jump", "is_mul_div", "illegal_instr"}
Asserted(on) == [c \in Controls |-> c \in on]

Decoded(word, on, others) == Job("decoder", "", word, 0, Asserted(on) @@ others)

Imm12 == {0, 1, 5, 10, 16, 32, 85, 100, 255, 291, 2047, 2048, 4088, 4091, 4092, 4095}
Imm13 == {4, 8, 12, 16, 20, 24, 2046, 2048, 4094, 4096, 8176, 8190}
Imm20 == {0, 1, 255, 4660, 74565, 524287, 524288, 912091, 1048575}
Imm21 == {2, 256, 2046, 2048, 4096, 1048574, 1048576, 2097150}

\* funct7, funct3 and operation of the register instructions, and of their
\* immediate forms that are not shifts.
RegForms == {<<0, 0, "add">>, <<32, 0, "sub">>, <<0, 7, "and">>, <<0, 6, "or">>, <<0, 4, "xor">>,
             <<0, 1, "sll">>, <<0, 5, "srl">>, <<32, 5, "sra">>, <<0, 2, "slt">>, <<0, 3, "sltu">>}
ImmForms == {t \in RegForms : t[1] = 0 /\ t[3] \notin {"sll", "srl"}}

RegisterVectors ==
  {Decoded(encode_r(t[1], 3, 2, t[2], 1, "RTYPE"), {"reg_write"},
           [rs1 |-> 2, rs2 |-> 3, rd |-> 1, funct3 |-> t[2], funct7 |-> t[1],
            immediate |-> 0, op_type |-> "R", alu_op |-> t[3]]) : t \in RegForms}
  \cup {Decoded(encode_r(1, 3, 2, f, 1, "RTYPE"), {"reg_write", "is_mul_div"},
           [rs1 |-> 2, rs2 |-> 3, rd |-> 1, funct3 |-> f, funct7 |-> 1,
            immediate |-> 0, op_type |-> "R"]) : f \in 0..7}

ImmediateVectors ==
  {Decoded(encode_i(i, 2, t[2], 1, "ITYPE"), {"reg_write"},
           [rs1 |-> 2, rd |-> 1, funct3 |-> t[2], immediate |-> sign_extend(i, 12),
            op_type |-> "I", alu_op |-> t[3]]) : t \in ImmForms, i \in Imm12}
  \cup {Decoded(encode_i(32 * t[1] + n, 2, t[2], 1, "ITYPE"), {"reg_write"},
           [rs1 |-> 2, rd |-> 1, funct3 |-> t[2], op_type |-> "I", alu_op |-> t[3]]) :
             t \in {<<0, 1, "sll">>, <<0, 5, "srl">>, <<32, 5, "sra">>}, n \in {0, 5, 31}}

LoadVectors ==
  {Decoded(encode_i(i, 2, f, 1, "LOAD"), {"reg_write", "mem_read"},
           [rs1 |-> 2, rd |-> 1, funct3 |-> f, immediate |-> sign_extend(i, 12), op_type |-> "I"]) :
     f \in {0, 1, 2, 4, 5}, i \in Imm12}

StoreVectors ==
  {Decoded(encode_s(i, 3, 2, f, "STORE"), {"mem_write"},
           [rs1 |-> 2, rs2 |-> 3, funct3 |-> f, immediate |-> sign_extend(i, 12), op_type |-> "S"]) :
     f \in {0, 1, 2}, i \in Imm12}

BranchVectors ==
  {Decoded(encode_b(i, 2, 1, f, "BRANCH"), {"branch"},
           [rs1 |-> 1, rs2 |-> 2, funct3 |-> f, immediate |-> sign_extend(i, 13), op_type |-> "B"]) :
     f \in {0, 1, 4, 5, 6, 7}, i \in Imm13}

UpperVectors ==
  {Decoded(encode_u(i, 2, opcode), {"reg_write"},
           [rd |-> 2, immediate |-> 4096 * sign_extend(i, 20)]) : i \in Imm20, opcode \in {"LUI", "AUIPC"}}

JumpVectors ==
  {Decoded(encode_j(i, 1, "JAL"), {"reg_write", "jump"},
           [rd |-> 1, immediate |-> sign_extend(i, 21)]) : i \in Imm21}
  \cup {Decoded(encode_i(i, 2, 0, 1, "JALR"), {"reg_write", "jump"},
           [rs1 |-> 2, rd |-> 1, funct3 |-> 0, immediate |-> sign_extend(i, 12), op_type |-> "I"]) :
             i \in Imm12}

\* mstatus, mepc and mcause.
CsrVectors ==
  {Decoded(encode_i(c, 2, f, 1, "SYSTEM"), {"reg_write"},
           [rs1 |-> 2, rd |-> 1, funct3 |-> f, immediate |-> c]) : f \in {1, 2, 3}, c \in {768, 833, 834}}

IllegalVectors == {Decoded(Fields(0, 0, 0, 0, 0, "unknown"), {"illegal_instr"}, << >>)}

DecoderJobs == RegisterVectors \cup ImmediateVectors \cup LoadVectors \cup StoreVectors
                 \cup BranchVectors \cup UpperVectors \cup JumpVectors \cup CsrVectors
                 \cup IllegalVectors

(***************************************************************************)
(* The benches.  A combinational unit answers at once.                     *)
(***************************************************************************)
Answered(j) ==
  CASE j.unit = "alu"     -> Valued(alu(j.op, j.a, j.b))
    [] j.unit = "branch"  -> Valued(Flag(take_branch(FALSE, TRUE, j.op, j.a, j.b)))
    [] j.unit = "jump"    -> Valued(Flag(take_branch(TRUE, FALSE, j.op, j.a, j.b)))
    [] j.unit = "plain"   -> Valued(Flag(take_branch(FALSE, FALSE, j.op, j.a, j.b)))
    [] j.unit = "mul"     -> Valued(multiplier(j.op, j.a, j.b))
    [] j.unit = "lane"    -> Valued(lane_op(j.op, j.a, j.b))
    [] j.unit = "decoder" -> decoder(j.a)

BenchInit ==
  /\ \/ job \in AluJobs \/ job \in BranchJobs \/ job \in MulJobs
     \/ job \in DivJobs \/ job \in LaneJobs \/ job \in DecoderJobs \/ job \in WarpJobs
  /\ dut = IF job.unit = "gpu" THEN PoweredUp(job.a, job.b) ELSE DividerReset
  /\ stage = "drive" /\ guard = 0 /\ got = Valued(0)

Evaluate == /\ stage = "drive" /\ job.unit \notin {"div", "gpu"}
            /\ got' = Answered(job) /\ stage' = "checked"
            /\ UNCHANGED <<job, dut, guard>>

\* run_div: one tick with start, then ticks until done, then one more.
Tick(start) == dut' = divider(dut, start, job.op, job.a, job.b)

StartDivide == /\ stage = "drive" /\ job.unit = "div"
               /\ Tick(TRUE) /\ stage' = "wait"
               /\ UNCHANGED <<job, guard, got>>

Waiting     == ~dut.done /\ guard < 200
SpinOnDone  == /\ stage = "wait" /\ Waiting
               /\ Tick(FALSE) /\ guard' = guard + 1
               /\ UNCHANGED <<job, stage, got>>

Settle      == /\ stage = "wait" /\ ~Waiting
               /\ got' = Valued(dut.result) /\ Tick(FALSE) /\ stage' = "checked"
               /\ UNCHANGED <<job, guard>>

\* A kernel is launched, runs to its HALT or until the bench gives up (an
\* instruction issues every four cycles, the longest wait is 4000), and the
\* next one is launched or the results are looked at.
LaunchKernel == /\ stage = "drive" /\ job.unit = "gpu"
                /\ dut' = gpu_launch(dut) /\ guard' = 0 /\ stage' = "run"
                /\ UNCHANGED <<job, got>>

Running      == ~dut.halted /\ guard < 1000
Issue        == /\ stage = "run" /\ Running
                /\ dut' = execute(dut) /\ guard' = guard + 1
                /\ UNCHANGED <<job, stage, got>>

Retire       == /\ stage = "run" /\ ~Running
                /\ IF dut.launches # << >> THEN stage' = "drive" /\ UNCHANGED got
                   ELSE /\ stage' = "checked"
                        /\ got' = [c \in DOMAIN job.exp |-> dut.store[c[1]][c[2]]]
                /\ UNCHANGED <<job, dut, guard>>

\* The bench goes on to its next vector: another initial state.
NextVector  == stage = "checked" /\ UNCHANGED benchVars

BenchNext == \/ Evaluate \/ StartDivide \/ SpinOnDone \/ Settle
             \/ LaunchKernel \/ Issue \/ Retire \/ NextVector

\* Every unit answers what its bench expects: the golden models' results for
\* every pair of operands, and the fields and control signals of the encoded
\* word.  A divider is done at most a cycle per bit and one more after its start,
\* and idle again when the bench starts the next division.  A kernel halts, and
\* leaves its results in every lane whatever registers and memories held before.
UnitsAgree ==
  stage = "checked" => /\ \A output \in DOMAIN job.exp : got[output] = job.exp[output]
                       /\ IF job.unit = "gpu" THEN dut.halted
                          ELSE guard <= Xlen + 1 /\ dut = DividerReset
=============================================================================
