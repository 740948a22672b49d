------------------------------ MODULE MCPipeline ----------------------------
(***************************************************************************)
(* Model checking Pipeline: every short program over an alphabet chosen    *)
(* for the hazards it makes.  Each has the shape                           *)
(*   0  set-up instructions                                                *)
(*   4  the body: every sequence of so many instructions of an alphabet;   *)
(*      one of three starts at 5                                           *)
(*   8  a loop, then wrong-path instructions the fetch runs ahead into     *)
(*  12  the trap handler                                                   *)
(* and the directed programs of the benches.  The unit benches (UnitBenches) *)
(* run beside them, on a core without a program.                           *)
(***************************************************************************)
EXTENDS Pipeline, BenchPrograms, UnitBenches, SequencesExt

Add  == Plain("add", 2, 1, 2, 0)
\* The rs2 field of an immediate instruction holds bits of the immediate.
Inc  == Plain("addi", 1, 1, 2, 1)
Ld   == Plain("lw", 1, 0, 0, 0)
LdX  == Plain("lb", 2, 1, 0, 0)
LdIO == Plain("lw", 2, 0, 0, DataTop)
St   == Plain("sw", 0, 0, 1, 0)
StX  == Plain("sb", 0, 1, 2, 0)
Div  == Plain("div", 1, 2, 1, 0)
Mul  == Plain("mul", 1, 1, 2, 0)
Skip == Plain("beq", 0, 1, 2, 8)
Back == Plain("beq", 0, 1, 0, 4)
Call == Plain("jal", 2, 0, 0, 7)
JmpX == Plain("jalr", 1, 2, 0, W - 3)
Swap == Plain("csrrw", 1, 2, 0, 0)
Sys  == Plain("ecall", 0, 0, 0, 0)
Ret  == Plain("mret", 0, 0, 0, 0)
Ack  == Plain("sw", 0, 0, 1, DataTop)
To(target) == Plain("jal", 0, 0, 0, target)
OnCsr(i, csr_name) == [i EXCEPT !.csr = csr_name]

SetUp     == <<Nop, Nop, Plain("addi", 1, 0, 0, 6), Plain("addi", 2, 0, 0, 7)>>
TrapSetUp == <<OnCsr(Plain("csrrwi", 0, 0, 0, 12), "mtvec"),
               Plain("addi", 2, 0, 0, 128), OnCsr(Plain("csrrs", 0, 2, 0, 0), "mie"),
               OnCsr(Plain("csrrsi", 0, 0, 0, 8), "mstatus")>>

Spin      == <<To(8), Inc, St, Swap>>
LoadSpin  == <<Ld, To(8), Inc, St>>
StoreSpin == <<StX, Plain("xori", 1, 1, 0, 1), To(8), St>>
\* The call handler skips the instruction an interrupt hit, so the loop
\* is closed behind every one of them.
CallSpin  == <<To(8), Inc, To(8), To(8)>>
UseSpin   == <<LdX, Add, Plain("beq", 0, 0, 0, 8), Swap>>

\* Acknowledge the timer and return.
TimerHandler == <<Inc, Ack, Ret, St, Swap, Inc, To(8)>>
\* Acknowledge the timer too, and return behind the instruction that trapped.
CallHandler  == <<Ack, OnCsr(Plain("csrrw", 2, 0, 0, 0), "mepc"), Plain("addi", 2, 2, 0, 1),
                  OnCsr(Plain("csrrw", 0, 2, 0, 0), "mepc"), Ret, St, To(8)>>

\* A load of the data window directly in front of an independent instruction
\* that traps, writes a CSR or divides: the pairs the core does not execute as
\* written (LoadDivPrograms shows one).
Dependent(i, j) == i.rd # 0 /\ i.rd \in {j.rs1, j.rs2}
Fragile(i, j) ==
  /\ i.op \in Loads /\ i # LdIO
  /\ j.op \in DivOps \cup CsrOps \cup Traps \cup {"mret"}
  /\ ~Dependent(i, j)

Robust(code) == \A k \in 1..(Len(code) - 1) : ~Fragile(code[k], code[k + 1])

Codes(setups, bodies, loops, handlers) ==
  {s \o b \o l \o h : s \in setups, b \in bodies, l \in loops, h \in handlers}

RobustPrograms(setups, bodies, loops, handlers) ==
  {code \in Codes(setups, bodies, loops, handlers) : Robust(code)}

\* Data and control hazards, no traps.
HazardPrograms ==
  RobustPrograms({<<Nop>> \o SetUp}, [1..3 -> {Add, Inc, Ld, LdX, LdIO, StX, Mul, Div, Skip, JmpX}],
                 {Spin}, {TimerHandler})
  \cup RobustPrograms({SetUp}, [1..4 -> {Add, Ld, LdX, Div, Skip}], {Spin}, {TimerHandler})

\* Interrupts at every cycle of programs without a division, in loops that might
\* keep the interrupt window shut; system calls and CSR accesses among them.
TrapPrograms ==
  RobustPrograms({TrapSetUp}, [1..4 -> {LdX, StX, Back, Call}], {UseSpin}, {TimerHandler})
  \cup RobustPrograms({TrapSetUp}, [1..4 -> {Inc, LdIO, Swap, Sys, Skip}], {CallSpin}, {CallHandler})
  \cup RobustPrograms({TrapSetUp}, [1..4 -> {Inc, Ld}], {Spin, LoadSpin, StoreSpin}, {TimerHandler})

DirectedPrograms == {bench.code : bench \in Benches}

\* A core that only lends its units to their benches.
Unprogrammed == << >>

AllPrograms == HazardPrograms \cup TrapPrograms \cup DirectedPrograms \cup {Unprogrammed}

NoJob == <<>>
BenchIdle == job = NoJob /\ stage = "none" /\ dut = DividerReset /\ guard = 0 /\ got = Valued(0)

CoreInit == Init /\ IF prog = Unprogrammed THEN BenchInit ELSE BenchIdle
CoreNext == prog # Unprogrammed /\ Next /\ UNCHANGED benchVars
CoreSpec == /\ CoreInit
            /\ [][CoreNext \/ (BenchNext /\ UNCHANGED vars)]_<<vars, benchVars>>
            /\ WF_<<vars, benchVars>>(CoreNext)

\* Every directed program ends where its test expects it to, with the registers
\* and the memory the test checks, and stays so: no instruction of a wrong path
\* that is still under way changes them afterwards (tb_cpu_top.cpp, check_reg and
\* check_mem; the "exp" comments of loadbr.c and mincase.c).
Shows(bench) == /\ apc = bench.halt
                /\ \A r \in DOMAIN bench.regs : r \in DOMAIN regs => regs[r] = bench.regs[r]
                /\ \A w \in DOMAIN bench.mem : dmem[w] = bench.mem[w]
Passed    == \E bench \in Benches : prog = bench.code /\ Shows(bench)
DirectedPass == prog \in DirectedPrograms ~> []Passed

\* The shortest programs that show what the core does not do as documented.
Short(setup, body) == {setup \o body \o Spin \o TimerHandler}
LoadDivPrograms  == Short(SetUp, <<Ld, Plain("div", 2, 2, 2, 0), Inc, Inc>>)
DivIrqPrograms   == Short(TrapSetUp, <<Inc, Plain("div", 1, 1, 1, 0), Inc, Inc>>)
=============================================================================
