------------------------------- MODULE DualCore -----------------------------
(***************************************************************************)
(* The coherence rig (dual_core_top.v): two cores, each with a snooping    *)
(* MSI data cache (l1_dcache_msi.v), over one single-ported data memory.   *)
(* One step is one rising clock edge of all of it.                         *)
(*                                                                         *)
(* What is abstracted: byte enables (the programs store words); the sets   *)
(* of the cache but one, the set every line of the programs maps to, so a  *)
(* line is its tag; the state WB_M, which no transition enters; and the    *)
(* instructions that are not memory accesses.  Between two accesses a core *)
(* waits as many cycles as it likes: the programs with any number of other *)
(* instructions in between.                                                *)
(***************************************************************************)
EXTENDS Integers, Sequences

CONSTANTS Lines,     \* the memory lines the programs touch
          WORDS,     \* words of a line
          Programs   \* pairs of programs: one sequence of accesses for each core

Core == {0, 1}
Way  == {0, 1}
Word == 0..(WORDS - 1)
Addr == [line : Lines, word : Word]

\* An access, and the branch behind it, if there is one.
Accesses == {a \in [op : {"lw", "sw", "lr", "sc"}, addr : Addr, imm : Int, acc : BOOLEAN,
                    want : Int, back : Nat] : a.want # -1 => a.back # 0}

ASSUME LineAssumption == WORDS \in Nat \ {0, 1} /\ Lines # {}
ASSUME ProgramAssumption == Programs \subseteq [Core -> Seq(Accesses)]

VARIABLES
  prog,   \* what each core runs
  cpu,    \* pc of the core's access, whether it was issued, the value it loaded
  l1,     \* the registers of each core's l1_dcache_msi
  mem,    \* data_bram.mem
  rdata,  \* data_bram.rdata
  tog     \* core0_tog, core1_tog

vars == <<prog, cpu, l1, mem, rdata, tog>>

NoAddr  == [line |-> CHOOSE l \in Lines : TRUE, word |-> 0]
NoReq   == [op |-> "none", addr |-> NoAddr, val |-> 0]
NoSnoop == [on |-> FALSE, write |-> FALSE, way |-> 0, msi |-> "I"]
Reset ==
  [state |-> "IDLE", req |-> NoReq, rdata |-> 0, ready |-> FALSE,
   tag |-> [w \in Way |-> NoAddr.line], msi |-> [w \in Way |-> "I"],
   data |-> [w \in Way |-> [i \in Word |-> 0]],
   fill_cnt |-> 0, fill_way |-> 0, last_way |-> 0, pending_write |-> FALSE,
   pend |-> NoSnoop, reserved |-> FALSE, reservation |-> NoAddr, wb_cnt |-> 0,
   mem_addr |-> NoAddr, mem_wdata |-> 0, read_req |-> FALSE, write_req |-> FALSE]

Init ==
  /\ prog \in Programs
  /\ cpu = [c \in Core |-> [pc |-> 1, issued |-> FALSE, r |-> 0]]
  /\ l1 = [c \in Core |-> Reset]
  /\ mem = [a \in Addr |-> 0] /\ rdata = 0
  /\ tog = [c \in Core |-> FALSE]

-----------------------------------------------------------------------------
(***************************************************************************)
(* The arbiter of the memory port: core 0 first.  A read is registered, so *)
(* its word is there every second cycle the core owns the port.            *)
(***************************************************************************)
\* Mutant: the other core first.
grant_Core1First == IF l1[1].read_req \/ l1[1].write_req THEN 1 ELSE 0

grant == IF l1[0].read_req \/ l1[0].write_req THEN 0 ELSE 1
owned == l1[grant]

DataBram ==
  /\ mem' = IF owned.write_req THEN [mem EXCEPT ![owned.mem_addr] = owned.mem_wdata] ELSE mem
  /\ rdata' = mem[owned.mem_addr]

Toggles == tog' = [c \in Core |-> l1[c].read_req /\ grant = c /\ ~tog[c]]

read_ack(c)  == l1[c].read_req /\ grant = c /\ tog[c]
write_ack(c) == l1[c].write_req /\ grant = c

-----------------------------------------------------------------------------
(***************************************************************************)
(* The core: it issues the access once and holds it until the cache is     *)
(* ready (mem_stage.v).                                                    *)
(***************************************************************************)
Halted(c) == cpu[c].pc > Len(prog[c])
Access(c) == prog[c][cpu[c].pc]
Stored(c) == Access(c).imm + (IF Access(c).acc THEN cpu[c].r ELSE 0)

\* Where the program goes on: a branch behind the access goes back to an earlier
\* one unless the value is the one it waits for.
Onward(c, v) == IF Access(c).want \in {-1, v} THEN cpu[c].pc + 1 ELSE Access(c).back

Result(c) == IF Access(c).op = "sw" THEN cpu[c].r ELSE l1[c].rdata

\* issue: the access of c reaches MEM in this cycle.
CpuEdge(c, issue) ==
  IF issue THEN [cpu[c] EXCEPT !.issued = TRUE]
  ELSE IF cpu[c].issued /\ l1[c].ready
    THEN [pc |-> Onward(c, Result(c)), issued |-> FALSE, r |-> Result(c)]
  ELSE cpu[c]

-----------------------------------------------------------------------------
(***************************************************************************)
(* The cache.  k is its state before the edge; d is k with the assignments *)
(* every cycle makes, which a state of the machine may overrule.           *)
(***************************************************************************)
Hits(k, line) == {w \in Way : k.msi[w] # "I" /\ k.tag[w] = line}
HitWay(k, line) == IF 0 \in Hits(k, line) THEN 0 ELSE 1

\* The other core's transaction, seen on its memory interface.
snooped(c) == l1[1 - c]

\* One register: a second snoop replaces the first.
Capture(c, k) ==
  LET s == snooped(c)
      w == HitWay(k, s.mem_addr.line)
  IN  IF /\ Hits(k, s.mem_addr.line) # {}
         /\ s.write_req \/ (s.read_req /\ k.msi[w] = "M")
        THEN [on |-> TRUE, write |-> s.write_req, way |-> w, msi |-> k.msi[w]]
        ELSE k.pend

Latched(c, issue, k) ==
  IF issue THEN [op |-> Access(c).op, addr |-> Access(c).addr, val |-> Stored(c)] ELSE k.req

Defaults(c, issue, k) ==
  [k EXCEPT !.read_req = FALSE, !.write_req = FALSE, !.ready = FALSE,
            !.req = Latched(c, issue, k), !.pend = Capture(c, k)]

pick_way(k) == IF k.msi[0] = "I" THEN 0 ELSE IF k.msi[1] = "I" THEN 1 ELSE 1 - k.last_way

Done(d) == [d EXCEPT !.ready = TRUE, !.req = NoReq, !.state = "IDLE"]

\* Mutant: a store updates the line and leaves the write-through out.
WriteThrough_CacheOnly(d, way, addr, val) ==
  [d EXCEPT !.data[way][addr.word] = val, !.msi[way] = "M"]

WriteThrough(d, way, addr, val) ==
  [d EXCEPT !.data[way][addr.word] = val, !.msi[way] = "M",
            !.mem_addr = addr, !.mem_wdata = val, !.write_req = TRUE]

Idle(k, d) ==
  IF k.pend.on
    THEN IF k.pend.write THEN [d EXCEPT !.state = "SNOOP_INV"]
         ELSE IF k.pend.msi = "M" THEN [d EXCEPT !.state = "SNOOP_WB", !.wb_cnt = 0]
         ELSE [d EXCEPT !.pend.on = FALSE]
  ELSE IF k.req # NoReq THEN [d EXCEPT !.state = "CHECK"] ELSE d

\* Mutant: the refill of a missing store forgets the store.
StartRefill_NoPending(k, d) ==
  [d EXCEPT !.state = "WAITM_RD", !.fill_cnt = 0, !.fill_way = pick_way(k),
            !.mem_addr = [k.req.addr EXCEPT !.word = 0], !.read_req = TRUE]

StartRefill(k, d) ==
  [d EXCEPT !.state = "WAITM_RD", !.fill_cnt = 0, !.fill_way = pick_way(k),
            !.mem_addr = [k.req.addr EXCEPT !.word = 0], !.read_req = TRUE,
            !.pending_write = k.req.op = "sw"]

Check(k, d) ==
  LET addr == k.req.addr
      hit  == Hits(k, addr.line) # {}
      way  == HitWay(k, addr.line)
      kept == k.reserved /\ k.reservation = addr
  IN  CASE k.req.op = "sc" ->
             IF hit /\ kept
               THEN [Done(WriteThrough(d, way, addr, k.req.val)) EXCEPT !.reserved = FALSE, !.rdata = 0]
               ELSE [Done(d) EXCEPT !.reserved = FALSE, !.rdata = 1]
        [] k.req.op = "sw" /\ hit ->
             [Done(WriteThrough(d, way, addr, k.req.val)) EXCEPT !.reserved = FALSE]
        [] k.req.op \in {"lw", "lr"} /\ hit ->
             [Done(d) EXCEPT !.rdata = k.data[way][addr.word],
                             !.reserved = k.reserved \/ k.req.op = "lr",
                             !.reservation = IF k.req.op = "lr" THEN addr ELSE @]
        [] OTHER -> StartRefill(k, d)

\* The last word completes the line.  What the load returns is read from the
\* line as it was before this edge.
Filled(k, d) ==
  LET addr == k.req.addr
      way  == k.fill_way
      line == [d EXCEPT !.tag[way] = addr.line, !.msi[way] = "S", !.last_way = way,
                        !.data[way][WORDS - 1] = rdata, !.pending_write = FALSE]
  IN  IF k.pending_write THEN Done(WriteThrough(line, way, addr, k.req.val))
      ELSE [Done(line) EXCEPT !.rdata = k.data[way][addr.word],
                              !.reserved = k.reserved \/ k.req.op = "lr",
                              !.reservation = IF k.req.op = "lr" THEN addr ELSE @]

Refill(c, k, d) ==
  IF ~read_ack(c) THEN [d EXCEPT !.read_req = TRUE]
  ELSE IF k.fill_cnt = WORDS - 1 THEN Filled(k, d)
  ELSE [d EXCEPT !.read_req = TRUE, !.data[k.fill_way][k.fill_cnt] = rdata,
                 !.fill_cnt = k.fill_cnt + 1,
                 !.mem_addr = [k.req.addr EXCEPT !.word = k.fill_cnt + 1]]

\* A read snoop of a modified line: words 1 .. 7 go to memory.
SnoopWb(c, k, d) ==
  IF k.write_req /\ ~write_ack(c) THEN d
  ELSE IF k.wb_cnt = WORDS - 1
    THEN [d EXCEPT !.msi[k.pend.way] = "S", !.pend.on = FALSE, !.state = "IDLE"]
  ELSE [d EXCEPT !.wb_cnt = k.wb_cnt + 1, !.write_req = TRUE,
                 !.mem_addr = [line |-> k.tag[k.pend.way], word |-> k.wb_cnt + 1],
                 !.mem_wdata = k.data[k.pend.way][k.wb_cnt + 1]]

SnoopInv(k, d) ==
  [d EXCEPT !.msi[k.pend.way] = "I", !.pend.on = FALSE, !.state = "IDLE",
            !.reserved = k.reserved /\ k.reservation.line # k.tag[k.pend.way]]

CacheEdge(c, issue) ==
  LET k == l1[c]
      d == Defaults(c, issue, k)
  IN  CASE k.state = "IDLE"      -> Idle(k, d)
        [] k.state = "CHECK"     -> Check(k, d)
        [] k.state = "WAITM_RD"  -> Refill(c, k, d)
        [] k.state = "SNOOP_WB"  -> SnoopWb(c, k, d)
        [] k.state = "SNOOP_INV" -> SnoopInv(k, d)

-----------------------------------------------------------------------------
Ready(c) == ~Halted(c) /\ ~cpu[c].issued

\* One clock: the cores for which issue holds present their next access.
Clock(issue) ==
  /\ \A c \in Core : issue[c] => Ready(c)
  /\ cpu' = [c \in Core |-> CpuEdge(c, issue[c])]
  /\ l1' = [c \in Core |-> CacheEdge(c, issue[c])]
  /\ DataBram /\ Toggles
  /\ UNCHANGED prog

Next == \E issue \in [Core -> BOOLEAN] : Clock(issue)

Spec == Init /\ [][Next]_vars

\* Nothing is on its way any more.
Quiet == \A c \in Core : /\ Halted(c) /\ l1[c].state = "IDLE" /\ ~l1[c].pend.on
                         /\ ~l1[c].read_req /\ ~l1[c].write_req
=============================================================================
