------------------------------ MODULE MCLitmus ------------------------------
(***************************************************************************)
(* Model checking Litmus: the three lines of the programs share one set of *)
(* two ways, as 0x1000, 0x2000 and 0x4000 do, so refills evict.            *)
(***************************************************************************)
EXTENDS Litmus

\* What a second core may read meanwhile: the line the first one stores to, or lines
\* that evict it.
Readers == [1..3 -> {Load("x", 1), Load("y", 0), Load("done", 0)}]

LitmusPrograms == {tb_litmus_sb, tb_litmus_mp, tb_lrsc, tb_2store}
                  \cup {Both(p[0], r) : p \in {tb_lrsc, tb_2store}, r \in Readers}
SpinPrograms   == {tb_dual_spin}
=============================================================================
