----------------------------- MODULE BenchPrograms --------------------------
(***************************************************************************)
(* The directed programs the core is tested with: the phases of            *)
(* tb_cpu_top.cpp and the branch tests of firmware/apps (loadbr.c,         *)
(* branchtest.c, mincase.c).  A bench is its code, the address where it    *)
(* spins at the end, and what it expects registers and memory to hold      *)
(* then.                                                                   *)
(*                                                                         *)
(* The constants are those of the tests, those that need 32 bits scaled to *)
(* a word of four two-bit bytes; a pc in the code is a fourth of the       *)
(* source's.                                                               *)
(***************************************************************************)
EXTENDS Instructions, TLC

Li(rd, v)            == Plain("addi", rd, 0, v % 32, v % W)
R(op, rd, rs1, rs2)  == Plain(op, rd, rs1, rs2, 0)
I(op, rd, rs1, imm)  == Plain(op, rd, rs1, imm % 32, imm % W)
L(op, rd, off, rs1)  == I(op, rd, rs1, off)
S(op, rs2, off, rs1) == Plain(op, 0, rs1, rs2, off)
B(op, rs1, rs2, to)  == Plain(op, 0, rs1, rs2, to)
J(to)                == Plain("jal", 0, 0, 0, to)
C(op, rd, name, src) == [Plain(op, rd, IF op \in CsrImmOps THEN 0 ELSE src, 0,
                               IF op \in CsrImmOps THEN src ELSE 0) EXCEPT !.csr = name]
Trap(op)             == Plain(op, 0, 0, 0, 0)
Nops(n)              == [k \in 1..n |-> Nop]

\* A program that ends in a jump to itself.
Bench(code, inRegs, inMem) ==
  [code |-> Append(code, J(Len(code))), halt |-> Len(code), regs |-> inRegs, mem |-> inMem]

None == <<>>   \* no word of memory is looked at

(***************************************************************************)
(* tb_cpu_top.cpp.                                                         *)
(***************************************************************************)

\* Poisoned registers behind a jump and a taken branch stay as they were.
phase_boot ==
  Bench(<<Li(1, 5), Li(2, 7)>> \o Nops(2)
        \o <<R("add", 3, 1, 2), Plain("jal", 5, 0, 0, 8), Li(31, 17), Li(30, 34), Li(6, 1)>>
        \o Nops(2) \o <<B("beq", 1, 1, 14), Li(29, 51), Li(28, 68), Li(7, 9)>>,
        0 :> 0 @@ 1 :> 5 @@ 2 :> 7 @@ 3 :> 12 @@ 5 :> 6 @@ 6 :> 1 @@ 7 :> 9
        @@ 31 :> 0 @@ 30 :> 0 @@ 29 :> 0 @@ 28 :> 0, None)

\* Word A has the bytes 1 0 2 3 from the top, word B is -2.
A == 75
phase_mem ==
  Bench(<<Li(1, 16)>> \o Nops(2) \o <<I("lui", 2, 0, 72)>> \o Nops(2) \o <<I("addi", 2, 2, 3)>>
        \o Nops(2) \o <<S("sw", 2, 0, 1)>> \o Nops(2)
        \o <<L("lw", 3, 0, 1), L("lbu", 4, 0, 1), L("lbu", 5, 3, 1), L("lhu", 6, 2, 1)>> \o Nops(2)
        \o <<Li(7, W - 2)>> \o Nops(2) \o <<S("sw", 7, 4, 1)>> \o Nops(2)
        \o <<L("lb", 8, 4, 1), L("lbu", 9, 4, 1), L("lh", 10, 4, 1), L("lhu", 11, 4, 1)>> \o Nops(2)
        \o <<Li(12, 1)>> \o Nops(2) \o <<S("sb", 12, 1, 1)>> \o Nops(2) \o <<L("lw", 13, 0, 1)>>
        \o Nops(2) \o <<Li(14, W - 1)>> \o Nops(2) \o <<S("sw", 14, 8, 1)>> \o Nops(2)
        \o <<Li(15, 6)>> \o Nops(2) \o <<S("sh", 15, 8, 1)>> \o Nops(2) \o <<L("lw", 16, 8, 1)>>
        \o Nops(2),
        1 :> 16 @@ 2 :> A @@ 3 :> A @@ 4 :> 3 @@ 5 :> 1 @@ 6 :> 4 @@ 7 :> W - 2 @@ 8 :> W - 2
        @@ 9 :> 2 @@ 10 :> W - 2 @@ 11 :> 14 @@ 13 :> A - 4 @@ 16 :> W - 16 + 6, None)

\* Dependent instructions back to back.
phase_forward ==
  Bench(<<Li(1, 10), R("add", 2, 1, 1), Li(3, 1), I("addi", 4, 3, 1), I("addi", 5, 4, 1),
          I("addi", 6, 5, 1), Li(7, 100), Li(8, 0), R("add", 9, 7, 7), Li(10, 5), Li(10, 9),
          I("addi", 11, 10, 0), Li(0, 7), Li(12, 0), Li(13, 5), Li(14, 7), B("beq", 13, 14, 18),
          Li(15, 123), Li(16, 55)>>,
        2 :> 20 @@ 4 :> 2 @@ 5 :> 3 @@ 6 :> 4 @@ 9 :> 200 @@ 11 :> 9 @@ 12 :> 0 @@ 15 :> 123
        @@ 16 :> 55, None)

\* A load in front of its consumer: rs1, rs2, a subtraction and a branch.
phase_lduse ==
  Bench(<<Li(1, 16)>> \o Nops(2) \o <<Li(2, 85)>> \o Nops(2) \o <<S("sw", 2, 0, 1)>> \o Nops(2)
        \o <<L("lw", 3, 0, 1), I("addi", 4, 3, 1)>> \o Nops(2)
        \o <<L("lw", 5, 0, 1), R("add", 6, 0, 5)>> \o Nops(2)
        \o <<L("lw", 7, 0, 1), R("sub", 8, 7, 1)>> \o Nops(2)
        \o <<L("lw", 9, 0, 1), Li(10, 85), B("beq", 9, 10, 25), Li(11, 170), Li(12, 51)>>,
        3 :> 85 @@ 4 :> 86 @@ 5 :> 85 @@ 6 :> 85 @@ 7 :> 85 @@ 8 :> 69 @@ 11 :> 0 @@ 12 :> 51, None)

phase_mul ==
  Bench(<<Li(1, 6), Li(2, 7)>> \o Nops(2) \o <<R("mul", 3, 1, 2), I("addi", 4, 3, 1)>> \o Nops(2)
        \o <<Li(5, 5), R("mul", 6, 5, 5)>> \o Nops(2) \o <<I("lui", 7, 0, IMIN)>> \o Nops(2)
        \o <<Li(10, W - 1)>> \o Nops(2)
        \o <<R("mulh", 11, 10, 10), R("mulhu", 12, 10, 10), R("mulhsu", 13, 10, 10)>> \o Nops(2)
        \o <<R("mulh", 14, 7, 7)>> \o Nops(2),
        3 :> 42 @@ 4 :> 43 @@ 6 :> 25 @@ 11 :> 0 @@ 12 :> W - 2 @@ 13 :> W - 1 @@ 14 :> W \div 4, None)

\* The freeze, a forwarded divisor, signs, and division by zero.
phase_div ==
  Bench(<<Li(1, 100), Li(2, 7)>> \o Nops(2) \o <<R("div", 3, 1, 2), R("rem", 4, 1, 2)>> \o Nops(2)
        \o <<Li(5, 50), Li(6, 5)>> \o Nops(2) \o <<R("div", 7, 5, 6), I("addi", 8, 7, 1)>> \o Nops(2)
        \o <<Li(9, 84), Li(10, 6), R("div", 11, 9, 10)>> \o Nops(2)
        \o <<Li(12, W - 20), Li(13, 3)>> \o Nops(2) \o <<R("div", 14, 12, 13), R("rem", 15, 12, 13)>>
        \o Nops(2) \o <<Li(20, W - 1), Li(21, 2)>> \o Nops(2)
        \o <<R("divu", 22, 20, 21), R("remu", 23, 20, 21)>> \o Nops(2)
        \o <<Li(16, 42), R("add", 17, 0, 0)>> \o Nops(2)
        \o <<R("div", 18, 16, 17), R("rem", 19, 16, 17)>> \o Nops(2),
        3 :> 14 @@ 4 :> 2 @@ 7 :> 10 @@ 8 :> 11 @@ 11 :> 14 @@ 14 :> W - 6 @@ 15 :> W - 2
        @@ 22 :> IMAX @@ 23 :> 1 @@ 18 :> W - 1 @@ 19 :> 42, None)

\* Set, clear, immediates, and the write that rs1 = x0 leaves out.
Mask == 69
phase_csr ==
  Bench(<<C("csrrw", 4, "mtvec", 0)>> \o Nops(4) \o <<Li(2, Mask)>> \o Nops(4)
        \o <<C("csrrs", 3, "mtvec", 2)>> \o Nops(4) \o <<C("csrrc", 4, "mtvec", 2)>> \o Nops(4)
        \o <<C("csrrwi", 5, "mscratch", 21)>> \o Nops(4) \o <<C("csrrsi", 6, "mscratch", 2)>> \o Nops(4)
        \o <<C("csrrci", 7, "mscratch", 4)>> \o Nops(4) \o <<C("csrrw", 10, "mtvec", 2)>> \o Nops(4)
        \o <<C("csrrs", 11, "mtvec", 0)>> \o Nops(4) \o <<C("csrrc", 12, "mtvec", 0)>> \o Nops(4)
        \o <<C("csrrw", 13, "mtvec", 0)>> \o Nops(4) \o <<C("csrrs", 14, "mtvec", 0)>> \o Nops(4),
        1 :> 0 @@ 3 :> 0 @@ 4 :> Mask @@ 5 :> 0 @@ 6 :> 21 @@ 7 :> 23 @@ 10 :> 0 @@ 11 :> Mask
        @@ 12 :> Mask @@ 13 :> Mask @@ 14 :> 0, None)

\* Four traps; the handler writes mepc, mcause and mstatus to a slot each, counts
\* them and returns behind the instruction.  The table is at 0, the count in its
\* fourth word.
phase_trap ==
  Bench(<<I("auipc", 5, 0, 0), I("addi", 5, 5, 15), C("csrrw", 0, "mtvec", 5), Li(6, 8),
          C("csrrs", 0, "mstatus", 6), Li(7, 17), Trap("ecall"), Li(7, 34), Trap("ebreak"), Li(7, 51),
          Trap("illegal"), Li(7, 68), C("csrrw", 0, "mvendorid", 7), Li(7, 85), J(33),
          C("csrrs", 28, "mepc", 0), C("csrrs", 29, "mcause", 0), C("csrrs", 30, "mstatus", 0),
          Li(31, 0), L("lw", 31, 12, 31), I("slli", 31, 31, 4), Li(5, 0), R("add", 5, 5, 31),
          S("sw", 28, 0, 5), S("sw", 29, 4, 5), S("sw", 30, 8, 5),
          Li(5, 0), L("lw", 31, 12, 5), I("addi", 31, 31, 1), S("sw", 31, 12, 5),
          I("addi", 28, 28, 1), C("csrrw", 0, "mepc", 28), Trap("mret")>>,
        7 :> 85,
        0 :> 6 @@ 1 :> 11 @@ 2 :> 128 @@ 4 :> 8 @@ 5 :> 3 @@ 6 :> 128 @@ 8 :> 10 @@ 9 :> 2 @@ 10 :> 128
        @@ 12 :> 12 @@ 13 :> 2 @@ 14 :> 128 @@ 3 :> 4)

(***************************************************************************)
(* The branch tests of firmware/apps.  What they print is stored in a row  *)
(* of words.                                                               *)
(***************************************************************************)
Return == Plain("jalr", 0, 1, 0, 0)

\* A function of loadbr.c at address "at": two operands, a branch, 0 or 1.
Answers(at, operands, op, rs1, rs2) ==
  operands \o <<B(op, rs1, rs2, at + Len(operands) + 3), Li(10, 0), Return, Li(10, 1), Return>>

Both == <<L("lw", 5, 0, 10), L("lw", 6, 4, 10)>>

do_branch          == Answers(1, Both, "bgeu", 5, 6)
do_branch_nop      == Answers(8, <<Both[1], Nop, Both[2]>>, "bgeu", 5, 6)
do_bltu            == Answers(16, Both, "bltu", 5, 6)
do_bgeu_v2         == Answers(23, Both, "bgeu", 6, 5)
do_branch_rs1_load == Answers(30, Both, "bgeu", 6, 5)
do_branch_regs     == Answers(37, <<Li(5, 2), Li(6, 0)>>, "bgeu", 5, 6)

CallAndDump(to, slot) == <<Li(10, 0), Plain("jal", 1, 0, 0, to), S("sw", 10, 4 * slot, 0)>>

loadbr ==
  Bench(<<J(44)>> \o do_branch \o do_branch_nop \o do_bltu \o do_bgeu_v2 \o do_branch_rs1_load
        \o do_branch_regs \o <<Li(5, 2), S("sw", 5, 0, 0), S("sw", 0, 4, 0)>>
        \o CallAndDump(1, 8) \o CallAndDump(8, 9) \o CallAndDump(16, 10) \o CallAndDump(23, 11)
        \o CallAndDump(30, 12) \o CallAndDump(37, 13),
        None, 8 :> 1 @@ 9 :> 1 @@ 10 :> 0 @@ 11 :> 0 @@ 12 :> 0 @@ 13 :> 1)

\* branchtest.c: in[] is the first eight words, then a or p or x, b or q or y, v and
\* sink.  Every variable is volatile: each use is a load, each assignment a store.
Copy(from, to) == <<L("lw", 5, 4 * from, 0), S("sw", 5, 4 * to, 0)>>
Put(v, to)     == <<Li(5, v), S("sw", 5, 4 * to, 0)>>

\* if (first op second) sink = value, the branch around it being the negated one.
If(at, first, second, negated, value, slot) ==
  <<S("sw", 0, 44, 0), L("lw", 5, 4 * first, 0), second, B(negated, 5, 6, at + 6),
    Li(7, value), S("sw", 7, 44, 0), L("lw", 8, 44, 0), S("sw", 8, 4 * slot, 0)>>
Second(word) == L("lw", 6, 4 * word, 0)

branchtest ==
  Bench(Put(2, 1) \o Put(1, 2) \o Put(7, 3) \o Put(W - 1, 6) \o Put(1, 7)
        \o Copy(1, 8) \o Copy(0, 9)
        \o If(14, 9, Second(8), "bgeu", 161, 12) \o If(22, 8, Second(9), "bltu", 162, 13)
        \o Copy(6, 8) \o Copy(7, 9) \o If(34, 8, Second(9), "bge", 163, 14)
        \o If(42, 7, Second(6), "bgeu", 164, 15)
        \o Copy(3, 10) \o If(52, 10, Li(6, 7), "bne", 165, 16)
        \o Copy(1, 8) \o Copy(0, 9) \o If(64, 9, Second(8), "bgeu", 166, 17),
        None, [k \in 12..17 |-> 149 + k])

\* mincase.c: mem[] starts at the second word, so that the pointer of block E is
\* not zero; that block keeps the pointer one word behind the array.
Choose(at, operands, op, rs1, rs2, slot) ==
  operands \o <<B(op, rs1, rs2, at + Len(operands) + 3), Li(10, 0), J(at + Len(operands) + 4),
                Li(10, 1), S("sw", 10, 4 * slot, 0)>>

Pair == <<L("lw", 5, 0, 9), L("lw", 6, 4, 9)>>

mincase ==
  Bench(<<Li(9, 4), Li(5, 2), S("sw", 5, 0, 9), S("sw", 0, 4, 9)>>
        \o Choose(4, <<Pair[1], Li(6, 0)>>, "bgeu", 5, 6, 24)
        \o Choose(11, Pair, "bgeu", 5, 6, 25) \o Choose(18, Pair, "bgeu", 6, 5, 26)
        \o Choose(25, Pair, "bltu", 6, 5, 27) \o <<S("sw", 9, 64, 9)>>
        \o Choose(33, <<L("lw", 7, 64, 9), L("lw", 5, 0, 7), L("lw", 6, 4, 7)>>, "bltu", 6, 5, 28),
        None, 24 :> 1 @@ 25 :> 1 @@ 26 :> 0 @@ 27 :> 1 @@ 28 :> 1)

Benches == {phase_boot, phase_mem, phase_forward, phase_lduse, phase_mul, phase_div, phase_csr,
            phase_trap, loadbr, branchtest, mincase}
=============================================================================
