-------------------------------- MODULE Litmus ------------------------------
(***************************************************************************)
(* The programs the benches of the coherence rig run on DualCore, and what *)
(* each bench says of the outcome: store buffering (tb_litmus_sb.cpp),     *)
(* message passing (tb_litmus_mp.cpp), one core's LR.W/SC.W (tb_lrsc.cpp), *)
(* two stores (tb_2store.cpp), and the spinlock (tb_dual_spin.cpp with     *)
(* apps/spinlock.S), one increment a core.                                 *)
(***************************************************************************)
EXTENDS DualCore

Access3(op, line, word) ==
  [op |-> op, addr |-> [line |-> line, word |-> word], imm |-> 0,
   acc |-> FALSE, want |-> -1, back |-> 0]

Load(line, word)        == Access3("lw", line, word)
Store(line, word, imm)  == [Access3("sw", line, word) EXCEPT !.imm = imm]
Record(line, word, imm) == [Store(line, word, imm) EXCEPT !.acc = TRUE]
Until(access, v, pc)    == [access EXCEPT !.want = v, !.back = pc]

Both(p0, p1) == [c \in Core |-> IF c = 0 THEN p0 ELSE p1]

tb_litmus_sb == Both(<<Store("x", 0, 1), Load("y", 0), Record("done", 0, 0)>>,
                     <<Store("y", 0, 1), Load("x", 0), Record("done", 1, 0)>>)

tb_litmus_mp == Both(<<Store("x", 0, 1), Store("y", 0, 1)>>,
                     <<Until(Load("y", 0), 1, 1), Load("x", 0), Store("done", 0, 1)>>)

LoadReserved(line, word)          == Access3("lr", line, word)
StoreConditional(line, word, imm) == [Access3("sc", line, word) EXCEPT !.imm = imm]

tb_lrsc   == Both(<<LoadReserved("x", 0), StoreConditional("x", 0, 1)>>, <<>>)
tb_2store == Both(<<Store("x", 0, 1), Store("x", 1, 1)>>, <<>>)

\* The lock is word 0 of a line, the counter word 1 of it.
spinlock ==
  <<Until(LoadReserved("x", 0), 0, 1), Until(StoreConditional("x", 0, 1), 0, 1),
    Load("x", 1), Record("x", 1, 1), Store("x", 0, 0)>>
tb_dual_spin == Both(spinlock, spinlock)

-----------------------------------------------------------------------------
\* What each bench calls a failure.  The benches judge the result words in
\* memory; the model judges what the cores loaded, because a result word of core 1
\* may itself be lost on the bus.
SbForbidden == prog = tb_litmus_sb /\ Quiet /\ cpu[0].r = 0 /\ cpu[1].r = 0

MpFails == /\ prog = tb_litmus_mp
           /\ \/ Halted(1) /\ cpu[1].r # 1
              \/ Quiet /\ \E l \in Lines : mem[[line |-> l, word |-> 0]] # 1

\* The other core only reads.
Reads(p) == \A i \in DOMAIN p : p[i].op \in {"lw", "lr"}

LrscFails == /\ prog[0] = tb_lrsc[0] /\ Reads(prog[1])
             /\ Halted(0) /\ (cpu[0].r # 0 \/ mem[[line |-> "x", word |-> 0]] # 1)

StoresFail == /\ prog[0] = tb_2store[0] /\ Reads(prog[1])
              /\ Halted(0) /\ \E w \in {0, 1} : mem[[line |-> "x", word |-> w]] # 1

SpinFails == prog = tb_dual_spin /\ Quiet
             /\ (mem[[line |-> "x", word |-> 1]] < 2 \/ mem[[line |-> "x", word |-> 0]] # 0)

-----------------------------------------------------------------------------
\* tb_litmus_sb.cpp:7-10: both cores store and then load what the other stored.
\* However the two refills, the write-throughs and the snoops interleave, one of
\* them sees the other's store.
StoreBuffering == ~SbForbidden

\* tb_litmus_mp.cpp:7-9: once the flag is visible to the receiver, so is the data.
MessagePassing == ~MpFails

\* tb_2store.cpp, tb_lrsc.cpp: when core 0 is done, its stores and its store-conditional
\* are in memory, whatever the other core reads meanwhile: its refills, the snoops
\* they cause and the write-backs of core 0's line lose none.
StoresLand == ~LrscFails /\ ~StoresFail

\* tb_dual_spin.cpp:6: "A correct MSI-coherent spinlock means no lost updates".
NoLostUpdates == ~SpinFails
=============================================================================
