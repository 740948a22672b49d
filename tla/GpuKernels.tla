----------------------------- MODULE GpuKernels -----------------------------
(***************************************************************************)
(* The kernels of firmware/gpu_kernels, in the words gpu_asm.py assembles, *)
(* and the programs that run them and compare what they computed: the GPU  *)
(* benches, and the applications benchmark_gpu.c, gpu_loader_test.c,       *)
(* gpu_mem_test.c, mlp_test.c and mlp_mem_test.c.                          *)
(*                                                                         *)
(* A kernel exists twice where its author wrote it twice: on the words of  *)
(* the scratchpad, and (global) on words of the data memory, addressed by  *)
(* byte.                                                                   *)
(***************************************************************************)
EXTENDS GpuLanes

(***************************************************************************)
(* Instruction words.                                                      *)
(***************************************************************************)
Encode(op, rd, rs1, rs2, f3) == 4096 * op + 512 * rd + 64 * rs1 + 8 * rs2 + f3
ALU(rd, rs1, rs2, f3) == Encode(0, rd, rs1, rs2, f3)
ADD(rd, rs1, rs2)     == ALU(rd, rs1, rs2, 0)
SLT(rd, rs1, rs2)     == ALU(rd, rs1, rs2, 5)
MUL(rd, rs1, rs2)     == Encode(4, rd, rs1, rs2, 2)
LD(rd, rs1)           == Encode(1, rd, rs1, 0, 0)
ST(rs1, rs2)          == Encode(1, 0, rs1, rs2, 1)
LDG(rd, rs1)          == Encode(7, rd, rs1, 0, 0)
STG(rs1, rs2)         == Encode(7, 0, rs1, rs2, 1)
LDI(rd, imm)          == Encode(5, rd, 0, 0, 0) + (imm % 512)
BR(target)            == Encode(2, 0, 0, 0, 0) + (target % 256)
BARRIER               == Encode(6, 0, 0, 0, 0)
HALT                  == Encode(15, 0, 0, 0, 0)

Load(global, rd, rs1)   == IF global THEN LDG(rd, rs1) ELSE LD(rd, rs1)
Store(global, rs1, rs2) == IF global THEN STG(rs1, rs2) ELSE ST(rs1, rs2)
Stride(global)          == IF global THEN 4 ELSE 1

(***************************************************************************)
(* The kernels, unrolled: the instruction set has no conditional branch.   *)
(***************************************************************************)
Unrolled(body, step, n) == FlattenSeq([k \in 1..n |-> IF k < n THEN body \o step ELSE body])

vector_add ==
  <<LDI(1, 0), LDI(2, 16), LDI(3, 32), LDI(7, 1)>>
  \o Unrolled(<<LD(4, 1), LD(5, 2), ADD(6, 4, 5), ST(3, 6)>>,
              <<ADD(1, 1, 7), ADD(2, 2, 7), ADD(3, 3, 7)>>, 4) \o <<HALT>>

mem_add == <<LDI(1, 0), LDI(2, 4), LDI(3, 8), LDG(4, 1), LDG(5, 2), ADD(6, 4, 5), STG(3, 6), HALT>>

relu(global) ==
  <<LDI(1, 0), LDI(2, 16), LDI(7, Stride(global))>>
  \o Unrolled(<<Load(global, 3, 1), SLT(4, 0, 3), MUL(5, 3, 4), Store(global, 2, 5)>>,
              <<ADD(1, 1, 7), ADD(2, 2, 7)>>, 4) \o <<HALT>>

\* Word b of a product is the dot product of a row of A and a column of B.
dot(global, a, b, c) ==
  LET at(w) == LDI(1, w * Stride(global))
  IN  <<at(a), Load(global, 2, 1), at(a + 1), Load(global, 3, 1), at(b), Load(global, 4, 1),
        at(b + 2), Load(global, 5, 1), MUL(2, 2, 4), MUL(3, 3, 5), ADD(2, 2, 3),
        at(c), Store(global, 1, 2)>>

matmul(global) ==
  dot(global, 0, 4, 8) \o dot(global, 0, 5, 9) \o dot(global, 2, 4, 10) \o dot(global, 2, 5, 11)
  \o <<HALT>>

tap(i, w) == <<LDI(1, i), LD(3, 1), MUL(3, 3, w), ADD(2, 2, 3)>>
conv2d ==
  <<LDI(1, 8), LD(5, 1), LDI(1, 9), LD(6, 1), LDI(1, 10), LD(7, 1)>>
  \o FlattenSeq([i \in 1..4 |-> <<LDI(1, i - 1), LD(2, 1), MUL(2, 2, 5)>> \o tap(i, 6) \o tap(i + 1, 7)
                                \o <<LDI(1, 15 + i), ST(1, 2)>>]) \o <<HALT>>

barrier ==
  <<LDI(2, 0), LDI(3, 85), ST(2, 3), BARRIER, LDI(2, 0), LD(4, 2), LDI(2, 1), ST(2, 4),
    LDI(2, 2), LDI(3, 170), ST(2, 3), HALT>>

(***************************************************************************)
(* A bench: launches, and the cells it compares at the end.  Registers and *)
(* memories hold zeros, as in simulation, or anything, as in hardware.     *)
(***************************************************************************)
Residues == {0, W - 1}
Cells(words) == Lanes \X words
KernelBench(name, launches, exp) ==
  {[unit |-> "gpu", op |-> name, a |-> launches, b |-> residue, exp |-> exp] : residue \in Residues}

Nothing == << >>   \* no cell

\* What the kernels are to compute, for any input.
VectorAdd(in, at) ==
  KernelBench("vector_add", <<Launch(in, Nothing, vector_add, at, 0)>>,
    [c \in {<<l, w>> \in Cells(32..35) : <<l, w - 32>> \in DOMAIN in} |->
       (in[<<c[1], c[2] - 32>>] + in[<<c[1], c[2] - 16>>]) % W])

relu_ref(v) == IF Signed(v) > 0 THEN v ELSE 0
Relu(in, at) ==
  KernelBench("relu", <<Launch(in, Nothing, relu(FALSE), at, 0)>>,
    [c \in Cells(16..19) |-> relu_ref(in[<<c[1], c[2] - 16>>])])

MatMul(in, at) ==
  KernelBench("matmul", <<Launch(in, Nothing, matmul(FALSE), at, 0)>>,
    [c \in Cells(8..11) |->
       LET row == 2 * ((c[2] - 8) \div 2)
           col == 4 + ((c[2] - 8) % 2)
       IN  (in[<<c[1], row>>] * in[<<c[1], col>>] + in[<<c[1], row + 1>>] * in[<<c[1], col + 2>>]) % W])

Conv(in, at) ==
  KernelBench("conv2d", <<Launch(in, Nothing, conv2d, at, 0)>>,
    [c \in Cells(16..19) |->
       LET x(k) == in[<<c[1], c[2] - 16 + k>>] * in[<<c[1], 8 + k>>]
       IN  (x(0) + x(1) + x(2)) % W])

(***************************************************************************)
(* tb_gpu_top_kernels.cpp, and every kernel on numbers at the ends of the  *)
(* ranges.                                                                 *)
(***************************************************************************)
Edge(c) == <<IMIN, IMAX, W - 1, 1, 0>>[1 + ((3 * c[1] + c[2]) % 5)]
Edges   == [c \in Cells(0..19) |-> Edge(c)]

KernelBenches ==
  LET vadd_in == [c \in Cells((0..3) \cup (16..19)) |->
                    IF c[2] < 16 THEN 10 * c[1] + c[2] + 1 ELSE 100 + 7 * c[1] + (c[2] - 16)]
      relu_in == [c \in Cells(0..3) |-> (IF c[2] % 2 = 1 THEN -(5 * c[1] + c[2]) ELSE 3 * c[1] + c[2] + 2) % W]
      mm_in   == [c \in Cells(0..7) |-> IF c[2] < 4 THEN c[1] + c[2] + 1 ELSE 2 * c[1] + (c[2] - 4) + 1]
      conv_in == [c \in Cells((0..5) \cup (8..10)) |->
                    IF c[2] < 8 THEN c[1] + c[2] + 1 ELSE (c[2] - 8) + 1 + c[1]]
  IN  VectorAdd(vadd_in, 0) \cup Relu(relu_in, 128) \cup MatMul(mm_in, 256) \cup Conv(conv_in, 384)
      \cup VectorAdd(Edges, 0) \cup Relu(Edges, 128) \cup MatMul(Edges, 256) \cup Conv(Edges, 384)
      \cup KernelBench("barrier", <<Launch(Nothing, Nothing, barrier, 512, 0)>>,
                       [c \in Cells(0..2) |-> <<85, 85, 170>>[c[2] + 1]])

(***************************************************************************)
(* tb_gpu_top.cpp, tb_exec_lane.cpp, tb_gpu_scratchpad.cpp,                *)
(* tb_gpu_regfile.cpp: single instructions.  Where a bench drives the      *)
(* ports itself, loads fill the registers and stores show them.            *)
(***************************************************************************)
Get(rd, w) == <<LDI(1, w), LD(rd, 1)>>
Show(w, r) == <<LDI(1, w), ST(1, r)>>
Shown(r)   == [c \in Cells({20}) |-> r[c[1] + 1]]
OneResult(name, in, code, result) ==
  KernelBench(name, <<Launch(in, Nothing, code \o <<HALT>>, 0, 0)>>, Shown(result))

LaneBenches ==
  LET in == [c \in Cells({0, 16}) |-> IF c[2] = 0 THEN 10 * (c[1] + 1) ELSE c[1] + 1]
      r34  == Get(3, 0) \o Get(4, 16)
      add == ADD(5, 3, 4)
  IN  OneResult("r3", in, r34 \o <<ADD(2, 3, 0)>> \o Show(20, 2), <<10, 20, 30, 40>>)
      \cup OneResult("add", in, r34 \o <<add>> \o Show(20, 5), <<11, 22, 33, 44>>)
      \cup OneResult("mul", in, r34 \o <<add, MUL(6, 3, 4)>> \o Show(20, 6), <<10, 40, 90, 160>>)
      \cup OneResult("r0", in, <<LDI(0, 7)>> \o Show(20, 0), <<0, 0, 0, 0>>)

\* Each lane at an address of its own, and back; a store to lane 2's word 31, and
\* what all lanes then have there.
ScratchpadBenches ==
  LET own    == [c \in Cells({0, 16}) |-> IF c[2] = 0 THEN 10 * (c[1] + 1) ELSE 17 * (10 + c[1])]
      lane2  == [c \in Cells({0, 16, 31}) |-> IF c[1] = 2 /\ c[2] # 31 THEN 31 + c[2] ELSE 0]
      stored == Get(3, 0) \o Get(4, 16) \o <<ST(3, 4)>>
  IN  OneResult("own", own, stored \o <<LD(5, 3)>> \o Show(20, 5), <<170, 187, 204, 221>>)
      \cup OneResult("bank 2", lane2, stored \o Get(5, 31) \o Show(20, 5), <<0, 0, 47, 0>>)

TopBenches ==
  LET w0 == <<LDI(1, 5), LDI(2, 7), ALU(3, 1, 2, 0), ST(1, 3), LD(4, 1), ST(2, 4), HALT>>
      w1 == <<LDI(1, 3), LDI(2, 4), MUL(3, 1, 2), ST(1, 3), HALT>>
  IN  KernelBench("w0", <<Launch([c \in Cells({3}) |-> 0], Nothing, w0, 0, 0)>>,
                  [c \in Cells({3, 5, 7}) |-> IF c[2] = 3 THEN 0 ELSE 12])
      \cup KernelBench("w1", <<Launch(Nothing, Nothing, w1, 32, 0)>>, [c \in Cells({3}) |-> 12])
      \cup KernelBench("w2", <<Launch(Nothing, Nothing, <<HALT>>, 8, 0),
                               Launch(Nothing, Nothing, <<BR(16)>>, 64, 0)>>, Nothing)

(***************************************************************************)
(* The applications.  benchmark_gpu.c and gpu_loader_test.c stage one      *)
(* word of each vector per lane; gpu_mem_test.c three words of its memory, *)
(* twice, the second time with newer values.                               *)
(***************************************************************************)
AppBenches ==
  VectorAdd([c \in Cells({0, 16}) |-> IF c[2] = 0 THEN 10 * (c[1] + 1) ELSE c[1] + 1], 0)
  \cup VectorAdd([c \in Cells({0, 16}) |-> IF c[2] = 0 THEN 10 + c[1] ELSE 20 + c[1]], 0)

Buf(a, b, c) == <<Main, 16>> :> a @@ <<Main, 17>> :> b @@ <<Main, 18>> :> c
MemAddBenches ==
  LET first == Launch(Buf(111, 222, 239), Nothing, mem_add, 0, 64)
      again == Launch(<<Main, 16>> :> 5 @@ <<Main, 17>> :> 37, Nothing, mem_add, 0, 64)
  IN  KernelBench("mem_add", <<first>>, Buf(111, 222, 333 % W))
      \cup KernelBench("mem_add again", <<first, again>>, Buf(5, 37, 42))

(***************************************************************************)
(* mlp_test.c, mlp_mem_test.c: y = relu(W2 . relu(W1 . x)), one launch for *)
(* each matrix and each relu, the operands moved in between.  Through the  *)
(* window each lane has a sample; in memory each sample has its launches.  *)
(***************************************************************************)
W1 == <<<<1, 2, 3, 4>>, <<2, -1, 1, 3>>, <<-1, 2, 2, 1>>, <<3, 1, -2, 2>>>>
X  == <<<<1, 2>>, <<3, 4>>, <<5, 6>>, <<7, 8>>>>
W2 == <<<<1, 1, 1, -1>>, <<2, 1, -1, 1>>, <<1, -2, 2, 1>>, <<-1, 1, 1, 2>>>>

layer(m, v) == [i \in {1, 2} |-> relu_ref((m[2 * i - 1] * v[1] + m[2 * i] * v[2]) % W)]
mlp_ref(s)  == layer(W2[s], layer(W1[s], X[s]))

\* sample says whose operands a bank holds, from word org on; y is where relu
\* leaves its results.
Mlp(name, global, sample, org, y) ==
  LET in(words) == (DOMAIN sample) \X {org + k : k \in words}
      matrix(m, c) == m[sample[c[1]]][c[2] - org + 1] % W
      vector == [c \in in({4, 6}) |-> X[sample[c[1]]][(c[2] - org - 2) \div 2]]
      zeros == [c \in in({5, 7}) |-> 0]
      hidden == [c \in in({4, 6}) |-> <<c[1], c[2] - 4 + y>>]
      product == [c \in in(0..3) |-> <<c[1], c[2] + 8>>]
      run(put, move, kernel) == Launch(put, move, kernel, 0, 4 * org)
  IN  KernelBench(name,
        <<run([c \in in(0..3) |-> matrix(W1, c)] @@ vector @@ zeros, Nothing, matmul(global)),
          run(Nothing, product, relu(global)),
          run([c \in in(0..3) |-> matrix(W2, c)] @@ zeros, hidden, matmul(global)),
          run(Nothing, product, relu(global))>>,
        [c \in in({y, y + 2}) |-> mlp_ref(sample[c[1]])[1 + (c[2] - org - y) \div 2]])

MlpBenches ==
  Mlp("mlp", FALSE, [l \in Lanes |-> l + 1], 0, 16)
  \cup UNION {Mlp("mlp_mem", TRUE, Main :> s, 8, 4) : s \in 1..4}

WarpJobs == KernelBenches \cup LaneBenches \cup ScratchpadBenches \cup TopBenches
              \cup AppBenches \cup MemAddBenches \cup MlpBenches
=============================================================================
