---------------------------- MODULE FirmwareProofs ---------------------------
(***************************************************************************)
(* Proofs about the programs of the firmware.                              *)
(*                                                                         *)
(*   - The tick service, for every number of slots, every width of mtime's *)
(*     low word, every period below half its range and every interleaving  *)
(*     of the main program with the interrupt handler.                     *)
(*   - The GPU drivers, for every set of kernels, every size of the        *)
(*     instruction memory and every number of time-outs.                   *)
(*   - The FreeRTOS kernel's calls, for any set of tasks, and the four     *)
(*     applications that use them.                                         *)
(*   - The shell, for any line length and any letters: its gpu command,    *)
(*     and the command that runs against the row on the terminal.          *)
(*   - The programs together.                                              *)
(***************************************************************************)
EXTENDS MCFirmware, BasicLemmas, FiniteSetTheorems, SequenceTheorems

-----------------------------------------------------------------------------
(* Arithmetic of the low word.                                             *)

LEMMA LowWord ==
  /\ LoWord \in Nat \ {0} /\ LoWord \div 2 \in Nat /\ LoWord = 2 * (LoWord \div 2)
  /\ \A t \in Int : Lo(t) \in 0..(LoWord - 1)
BY TickAssumption DEF Lo

LEMMA LowParts ==
  ASSUME NEW t \in Int
  PROVE  t = LoWord * (t \div LoWord) + Lo(t) /\ Lo(t) \in Int /\ t \div LoWord \in Int
BY LowWord, DivMod DEF Lo

\* A deadline is counted on in the low word.
LEMMA LoAdds ==
  ASSUME NEW t \in Int, NEW p \in Int
  PROVE  Lo(Lo(t) + p) = Lo(t + p)
<1> DEFINE x == Lo(t) + p
           y == t + p
           turns == -(t \div LoWord)
<1>1. t = LoWord * (t \div LoWord) + Lo(t) /\ Lo(t) \in Int /\ t \div LoWord \in Int
  BY LowParts
<1>2. x \in Int /\ y \in Int /\ turns \in Int /\ x = y + LoWord * turns
  BY <1>1, LowWord
<1> HIDE DEF x, y, turns
<1>3. x % LoWord = y % LoWord
  BY <1>2, LowWord, ModShift
<1> QED
  BY <1>3 DEF x, y, Lo

\* (int32_t)(now - deadline) tells the past from the future as long as the deadline is
\* less than half of the range ahead.
LEMMA DueIsPast ==
  ASSUME NEW now \in Int, NEW deadline \in Int, 2 * (deadline - now) < LoWord,
         ~Before(Lo(now), Lo(deadline))
  PROVE  deadline <= now
<1> SUFFICES ASSUME deadline > now PROVE FALSE
  OBVIOUS
<1> DEFINE x == Lo(now) - Lo(deadline)
           y == now - deadline + LoWord
           turns == (deadline \div LoWord) - (now \div LoWord) - 1
<1>1. /\ now = LoWord * (now \div LoWord) + Lo(now) /\ now \div LoWord \in Int /\ Lo(now) \in Int
      /\ deadline = LoWord * (deadline \div LoWord) + Lo(deadline)
      /\ deadline \div LoWord \in Int /\ Lo(deadline) \in Int
  BY LowParts
<1>2. x \in Int /\ y \in Int /\ turns \in Int /\ x = y + LoWord * turns
  BY <1>1, LowWord
<1>3. y >= LoWord \div 2 /\ y < LoWord /\ y \in 0..(LoWord - 1)
  BY LowWord
<1>4. ~(x % LoWord >= LoWord \div 2)
  BY DEF Before
<1> HIDE DEF x, y, turns
<1>5. x % LoWord = y % LoWord
  BY <1>2, LowWord, ModShift
<1>6. y % LoWord = y
  BY <1>3, LowWord
<1> QED
  BY <1>3, <1>4, <1>5, <1>6

-----------------------------------------------------------------------------
(* Types.                                                                  *)
Places == {"cb", "one_shot", "next"}   \* inside timer_add
Timer  == [used : BOOLEAN, next : Int, period_us : Nat, cb : Nat, one_shot : BOOLEAN]
Reg    == [period_us : Nat, one_shot : BOOLEAN, slot : Slots, at : Nat, fired : Nat,
           raced : BOOLEAN, cancelled : BOOLEAN, ghost : BOOLEAN]

TableTypeOK ==
  /\ mtime \in Nat
  /\ timers \in [Slots -> Timer]
  /\ regs \in Seq(Reg)
  /\ \A r \in DOMAIN regs : regs[r].at <= mtime /\ 2 * regs[r].period_us < LoWord
  /\ \A i \in Slots : timers[i].cb # 0 =>
       timers[i].cb \in DOMAIN regs /\ regs[timers[i].cb].slot = i

MainOK ==
  /\ "at" \in DOMAIN main
  /\ main.at = "boot" => regs = << >>
  /\ main.at \in Places => /\ main \in [at : Places, slot : Slots]
                           /\ regs # << >> /\ Registering.slot = main.slot

IsrOK ==
  isr.at = "loop" =>
    /\ isr \in [at : {"loop"}, now : Int, i : Int, called : BOOLEAN]
    /\ isr.i \in Slots => isr.now = Lo(mtime)

RacedOK == main.at \in Places /\ isr.at # "none" => Registering.raced

TickTypeOK == TableTypeOK /\ MainOK /\ IsrOK /\ RacedOK

-----------------------------------------------------------------------------
(* A registration that no tick met half filled in, as it stands in the     *)
(* table.                                                                  *)
Good(r) == \A s \in DOMAIN regs : regs[s].slot = regs[r].slot => ~regs[s].raced
Live(r) == ~regs[r].cancelled /\ ~(regs[r].one_shot /\ regs[r].fired > 0)

\* It waits for its next period,
Kept(r) ==
  LET t == timers[regs[r].slot]
  IN  /\ t.used /\ t.cb = r
      /\ t.next = Lo(regs[r].at + (regs[r].fired + 1) * regs[r].period_us)
      /\ t.period_us = regs[r].period_us /\ t.one_shot = regs[r].one_shot

\* or it is out of the table: the pointer to it stays in the slot until the next owner's is
\* stored over it.
Gone(r) ==
  timers[regs[r].slot].used /\ timers[regs[r].slot].cb = r =>
    main.at = "cb" /\ main.slot = regs[r].slot

Fired(r) ==
  /\ regs[r].fired * regs[r].period_us <= mtime - regs[r].at
  /\ regs[r].one_shot => regs[r].fired <= 1
  /\ ~regs[r].ghost

Settled(r) == Fired(r) /\ (Live(r) => Kept(r)) /\ (~Live(r) => Gone(r))

\* One that timer_add is filling in.
Half(r) ==
  LET t == timers[regs[r].slot]
  IN  /\ t.used /\ regs[r].fired = 0 /\ ~regs[r].cancelled /\ ~regs[r].ghost
      /\ main.at \in {"one_shot", "next"} => t.cb = r /\ t.period_us = regs[r].period_us
      /\ main.at = "next" => t.one_shot = regs[r].one_shot
      /\ \A s \in DOMAIN regs : s # r /\ regs[s].slot = regs[r].slot => ~Live(s)

RegOK(r) == Good(r) => IF Filled(r) THEN Settled(r) ELSE Half(r)

TickInv == TickTypeOK /\ \A r \in DOMAIN regs : RegOK(r)

-----------------------------------------------------------------------------
(* The registrations as a sequence.                                        *)

LEMMA RegsFacts ==
  ASSUME TableTypeOK
  PROVE  /\ Len(regs) \in Nat /\ DOMAIN regs = 1..Len(regs)
         /\ \A r \in DOMAIN regs : regs[r] \in Reg
BY DEF TableTypeOK

LEMMA SeqPut ==
  ASSUME NEW S, NEW s \in Seq(S), NEW i \in DOMAIN s, NEW v \in S
  PROVE  /\ [s EXCEPT ![i] = v] \in Seq(S) /\ Len([s EXCEPT ![i] = v]) = Len(s)
         /\ DOMAIN [s EXCEPT ![i] = v] = DOMAIN s
OBVIOUS

LEMMA CancelledRegs ==
  ASSUME TableTypeOK, NEW id \in Slots
  PROVE  /\ Cancelled(id) \in Seq(Reg) /\ Len(Cancelled(id)) = Len(regs)
         /\ DOMAIN Cancelled(id) = DOMAIN regs
         /\ \A r \in DOMAIN regs : Cancelled(id)[r] \in Reg
         /\ \A r \in DOMAIN regs : regs[r].slot # id => Cancelled(id)[r] = regs[r]
         /\ \A r \in DOMAIN regs : regs[r].slot = id =>
              Cancelled(id)[r] = [regs[r] EXCEPT !.cancelled = TRUE]
<1> DEFINE c(r) == IF regs[r].slot = id THEN [regs[r] EXCEPT !.cancelled = TRUE] ELSE regs[r]
<1>1. Cancelled(id) = [r \in 1..Len(regs) |-> c(r)]
  BY RegsFacts DEF Cancelled
<1>2. \A r \in 1..Len(regs) : c(r) \in Reg
  BY RegsFacts DEF Reg
<1>3. /\ \A r \in DOMAIN regs : regs[r].slot # id => c(r) = regs[r]
      /\ \A r \in DOMAIN regs : regs[r].slot = id => c(r) = [regs[r] EXCEPT !.cancelled = TRUE]
  OBVIOUS
<1> HIDE DEF c
<1>4. Cancelled(id) \in Seq(Reg) /\ Len(Cancelled(id)) = Len(regs)
  BY <1>1, <1>2, RegsFacts
<1> QED
  BY <1>1, <1>2, <1>3, <1>4, RegsFacts

LEMMA NotedRegs ==
  ASSUME TickTypeOK
  PROVE  /\ Noted \in Seq(Reg) /\ Len(Noted) = Len(regs) /\ DOMAIN Noted = DOMAIN regs
         /\ main.at \notin Places => Noted = regs
         /\ main.at \in Places => /\ Len(regs) \in DOMAIN regs
                                  /\ Noted[Len(regs)] = [Registering EXCEPT !.raced = TRUE]
         /\ \A r \in DOMAIN regs : r # Len(regs) => Noted[r] = regs[r]
<1>1. CASE main.at \notin Places
  BY <1>1, RegsFacts DEF Noted, Places, TickTypeOK, TableTypeOK
<1>2. CASE main.at \in Places
  <2>1. Len(regs) \in DOMAIN regs
    BY <1>2 DEF TickTypeOK, MainOK, TableTypeOK
  <2>2. Noted = [regs EXCEPT ![Len(regs)] = [Registering EXCEPT !.raced = TRUE]]
    BY <1>2 DEF Noted, Places, Registering
  <2>3. Registering \in Reg /\ [Registering EXCEPT !.raced = TRUE] \in Reg
    BY <2>1, RegsFacts DEF TickTypeOK, Registering, Reg
  <2> QED
    BY <1>2, <2>1, <2>2, <2>3, SeqPut DEF TickTypeOK, TableTypeOK
<1> QED
  BY <1>1, <1>2

LEMMA CalledRegs ==
  ASSUME TableTypeOK, NEW t \in Timer, t.cb = 0 \/ t.cb \in DOMAIN regs
  PROVE  /\ Called(t) \in Seq(Reg) /\ Len(Called(t)) = Len(regs) /\ DOMAIN Called(t) = DOMAIN regs
         /\ \A r \in DOMAIN regs : r # t.cb => Called(t)[r] = regs[r]
         /\ \A r \in DOMAIN regs :
              /\ Called(t)[r].slot = regs[r].slot /\ Called(t)[r].raced = regs[r].raced
              /\ Called(t)[r].at = regs[r].at /\ Called(t)[r].period_us = regs[r].period_us
              /\ Called(t)[r].one_shot = regs[r].one_shot /\ Called(t)[r].cancelled = regs[r].cancelled
         /\ t.cb \in DOMAIN regs =>
              /\ Called(t)[t.cb].fired = regs[t.cb].fired + 1
              /\ ~regs[t.cb].ghost /\ ~regs[t.cb].cancelled => ~Called(t)[t.cb].ghost
<1>1. CASE t.cb = 0
  <2>1. Called(t) = regs /\ t.cb \notin DOMAIN regs
    BY <1>1, RegsFacts DEF Called
  <2> QED
    BY <2>1 DEF TableTypeOK
<1>2. CASE t.cb \in DOMAIN regs
  <2> DEFINE x == regs[t.cb]
             g == x.ghost \/ x.cancelled
             m == x.fired + 1
             v == [x EXCEPT !.fired = m, !.ghost = g]
  <2>1. g \in BOOLEAN /\ (~x.ghost /\ ~x.cancelled => ~g)
    OBVIOUS
  <2>2. x \in Reg
    BY <1>2, RegsFacts
  <2>3. m \in Nat
    BY <2>2 DEF Reg
  <2>4. Called(t) = [regs EXCEPT ![t.cb] = v]
    <3>1. t.cb # 0
      BY <1>2, RegsFacts
    <3> QED
      BY <3>1 DEF Called
  <2> HIDE DEF g, m, x
  <2>5. /\ v \in Reg /\ v.fired = m /\ v.ghost = g
        /\ v.slot = x.slot /\ v.raced = x.raced /\ v.at = x.at /\ v.period_us = x.period_us
        /\ v.one_shot = x.one_shot /\ v.cancelled = x.cancelled
    BY <2>1, <2>2, <2>3 DEF Reg
  <2> HIDE DEF v
  <2>6. Called(t) \in Seq(Reg) /\ Len(Called(t)) = Len(regs) /\ DOMAIN Called(t) = DOMAIN regs
    BY <1>2, <2>4, <2>5, SeqPut DEF TableTypeOK
  <2>7. Called(t)[t.cb] = v /\ \A r \in DOMAIN regs : r # t.cb => Called(t)[r] = regs[r]
    BY <1>2, <2>4
  <2>8. \A r \in DOMAIN regs :
          /\ Called(t)[r].slot = regs[r].slot /\ Called(t)[r].raced = regs[r].raced
          /\ Called(t)[r].at = regs[r].at /\ Called(t)[r].period_us = regs[r].period_us
          /\ Called(t)[r].one_shot = regs[r].one_shot /\ Called(t)[r].cancelled = regs[r].cancelled
    BY <2>5, <2>7 DEF x
  <2>9. /\ Called(t)[t.cb].fired = regs[t.cb].fired + 1
        /\ ~regs[t.cb].ghost /\ ~regs[t.cb].cancelled => ~Called(t)[t.cb].ghost
    BY <2>1, <2>5, <2>7 DEF x, m
  <2> QED
    BY <2>6, <2>7, <2>8, <2>9
<1> QED
  BY <1>1, <1>2

-----------------------------------------------------------------------------
(* The steps that leave the table and the registrations alone.             *)

LEMMA TableKept ==
  ASSUME TickInv, UNCHANGED <<timers, regs>>, mtime' \in Nat, mtime <= mtime',
         \/ main' = main
         \/ main.at \notin Places /\ main'.at \notin Places
  PROVE  TableTypeOK' /\ \A r \in DOMAIN regs' : RegOK(r)'
<1>1. TableTypeOK /\ mtime \in Nat
  BY DEF TickInv, TickTypeOK, TableTypeOK
<1>2. TableTypeOK'
  <2>1. \A r \in DOMAIN regs : regs[r].at \in Nat /\ regs[r].at <= mtime'
    BY <1>1, RegsFacts DEF TableTypeOK, Reg
  <2> QED
    BY <1>1, <2>1 DEF TableTypeOK
<1>3. ASSUME NEW r \in DOMAIN regs PROVE RegOK(r)'
  <2>1. RegOK(r) /\ Good(r)' = Good(r) /\ Live(r)' = Live(r) /\ Kept(r)' = Kept(r)
    BY DEF TickInv, Good, Live, Kept
  <2>2. Filled(r)' = Filled(r)
    BY DEF Filled, Places
  <2>3. Fired(r) => Fired(r)'
    <3> DEFINE n == regs[r].fired * regs[r].period_us
    <3>1. n \in Int /\ regs[r].at \in Nat
      BY <1>1, RegsFacts DEF Reg
    <3> HIDE DEF n
    <3>2. n <= mtime - regs[r].at => n <= mtime' - regs[r].at
      BY <1>1, <3>1
    <3> QED
      BY <3>2 DEF Fired, n
  <2>4. Gone(r) => Gone(r)'
    BY DEF Gone, Places
  <2>5. ~Filled(r) => Half(r)' = Half(r)
    <3>1. ~Filled(r) => main' = main
      BY DEF Filled, Places
    <3> QED
      BY <3>1 DEF Half, Live
  <2> QED
    BY <2>1, <2>2, <2>3, <2>4, <2>5 DEF RegOK, Settled
<1> QED
  BY <1>2, <1>3

Aside ==
  \/ TimePasses \/ tick_init_arm \/ ticks_us \/ timer_init
  \/ tick_isr_arm \/ timer_int_handler_arm \/ UNCHANGED tickVars

LEMMA AsideStep == TickInv /\ Aside => TickInv'
<1> SUFFICES ASSUME TickInv, Aside PROVE TickInv'
  OBVIOUS
<1> USE DEF Places, At, Program
<1>1. mtime \in Nat /\ MainOK /\ IsrOK /\ RacedOK
  BY DEF TickInv, TickTypeOK, TableTypeOK
<1>2. CASE TimePasses
  <2>1. UNCHANGED <<timers, regs, main, isr>> /\ mtime' = mtime + 1 /\ (isr.at = "loop" => isr.i \notin Slots)
    BY <1>2 DEF TimePasses, tickTable
  <2>2. TableTypeOK' /\ \A r \in DOMAIN regs' : RegOK(r)'
    BY <1>1, <2>1, TableKept
  <2>3. MainOK' /\ IsrOK' /\ RacedOK'
    BY <1>1, <2>1 DEF MainOK, IsrOK, RacedOK, Registering
  <2> QED
    BY <2>2, <2>3 DEF TickInv, TickTypeOK
<1>3. CASE UNCHANGED tickVars
  <2>1. UNCHANGED <<timers, regs, main, isr, mtime>>
    BY <1>3 DEF tickVars, tickTable
  <2>2. TableTypeOK' /\ \A r \in DOMAIN regs' : RegOK(r)'
    BY <1>1, <2>1, TableKept
  <2>3. MainOK' /\ IsrOK' /\ RacedOK'
    BY <1>1, <2>1 DEF MainOK, IsrOK, RacedOK, Registering
  <2> QED
    BY <2>2, <2>3 DEF TickInv, TickTypeOK
<1>4. CASE tick_isr_arm \/ timer_int_handler_arm
  <2>1. UNCHANGED <<timers, regs, main, mtime>> /\ isr' = At("none")
    BY <1>4 DEF tick_isr_arm, timer_int_handler_arm, tickTable
  <2>2. TableTypeOK' /\ \A r \in DOMAIN regs' : RegOK(r)'
    BY <1>1, <2>1, TableKept
  <2>3. MainOK' /\ IsrOK' /\ RacedOK'
    BY <1>1, <2>1 DEF MainOK, IsrOK, RacedOK, Registering
  <2> QED
    BY <2>2, <2>3 DEF TickInv, TickTypeOK
<1>5. CASE tick_init_arm \/ ticks_us \/ timer_init
  <2>1. UNCHANGED <<timers, regs, isr, mtime>> /\ isr.at = "none"
    BY <1>5 DEF tick_init_arm, ticks_us, timer_init, tickTable
  <2>2. main.at \notin Places
    BY <1>5 DEF tick_init_arm, ticks_us, timer_init
  <2>3. "at" \in DOMAIN main' /\ main'.at \notin Places \cup {"boot"}
    <3>1. CASE tick_init_arm
      BY <3>1 DEF tick_init_arm
    <3>2. CASE ticks_us
      BY <3>2 DEF ticks_us
    <3>3. CASE timer_init
      BY <3>3 DEF timer_init
    <3> QED
      BY <1>5, <3>1, <3>2, <3>3
  <2>4. TableTypeOK' /\ \A r \in DOMAIN regs' : RegOK(r)'
    BY <1>1, <2>1, <2>2, <2>3, TableKept
  <2>5. MainOK' /\ IsrOK' /\ RacedOK'
    BY <1>1, <2>1, <2>3 DEF MainOK, IsrOK, RacedOK
  <2> QED
    BY <2>4, <2>5 DEF TickInv, TickTypeOK
<1> QED
  BY <1>2, <1>3, <1>4, <1>5 DEF Aside

-----------------------------------------------------------------------------
(* A step that leaves a slot alone leaves its registrations as they are.   *)

LEMMA Elsewhere ==
  ASSUME TickInv, UNCHANGED mtime, NEW r \in DOMAIN regs,
         DOMAIN regs \subseteq DOMAIN regs',
         \A s \in DOMAIN regs : /\ regs'[s].slot = regs[s].slot
                                /\ regs[s].slot = regs[r].slot => regs'[s] = regs[s],
         timers'[regs[r].slot] = timers[regs[r].slot],
         \/ main' = main /\ DOMAIN regs' = DOMAIN regs /\ Len(regs') = Len(regs)
         \/ Filled(r) /\ Filled(r)' /\ ~(main.at = "cb" /\ main.slot = regs[r].slot)
  PROVE  RegOK(r)'
<1>1. RegOK(r) /\ regs'[r] = regs[r] /\ r \in DOMAIN regs'
  BY DEF TickInv
<1>2. Good(r)' => Good(r)
  BY <1>1 DEF Good
<1>3. Live(r)' = Live(r) /\ Kept(r)' = Kept(r) /\ Fired(r)' = Fired(r)
  BY <1>1 DEF Live, Kept, Fired
<1>4. CASE main' = main /\ DOMAIN regs' = DOMAIN regs /\ Len(regs') = Len(regs)
  <2>1. Filled(r)' = Filled(r) /\ Gone(r)' = Gone(r)
    BY <1>1, <1>4 DEF Filled, Gone
  <2>2. Half(r) => Half(r)'
    BY <1>1, <1>4 DEF Half, Live
  <2> QED
    BY <1>1, <1>2, <1>3, <2>1, <2>2 DEF RegOK, Settled
<1>5. CASE Filled(r) /\ Filled(r)' /\ ~(main.at = "cb" /\ main.slot = regs[r].slot)
  <2>1. Gone(r) => Gone(r)'
    BY <1>1, <1>5 DEF Gone
  <2> QED
    BY <1>1, <1>2, <1>3, <1>5, <2>1 DEF RegOK, Settled
<1> QED
  BY <1>4, <1>5

LEMMA TimerPut ==
  ASSUME TableTypeOK, NEW i \in Slots, NEW v \in Timer
  PROVE  /\ [timers EXCEPT ![i] = v] \in [Slots -> Timer]
         /\ [timers EXCEPT ![i] = v][i] = v
         /\ \A j \in Slots \ {i} : [timers EXCEPT ![i] = v][j] = timers[j]
BY DEF TableTypeOK

-----------------------------------------------------------------------------
(* The program's steps.                                                    *)

LEMMA InitStep == TickInv /\ tick_init => TickInv'
<1> SUFFICES ASSUME TickInv, tick_init PROVE TickInv'
  OBVIOUS
<1>1. regs = << >> /\ regs' = << >> /\ mtime' = mtime /\ isr' = isr /\ main' = At("arm")
  BY DEF tick_init, TickInv, TickTypeOK, MainOK, Program, tickTable
<1>2. TableTypeOK /\ \A i \in Slots : timers[i].cb = 0
  BY <1>1 DEF TickInv, TickTypeOK, TableTypeOK
<1>3. timers' = [i \in Slots |-> [timers[i] EXCEPT !.used = FALSE]]
  BY DEF tick_init
<1>4. timers' \in [Slots -> Timer] /\ \A i \in Slots : timers'[i].cb = 0
  <2>1. ASSUME NEW i \in Slots PROVE [timers[i] EXCEPT !.used = FALSE] \in Timer
    <3>1. timers[i] \in Timer
      BY <1>2 DEF TableTypeOK
    <3> QED
      BY <3>1 DEF Timer
  <2>2. ASSUME NEW i \in Slots PROVE [timers[i] EXCEPT !.used = FALSE].cb = timers[i].cb
    <3>1. timers[i] \in Timer
      BY <1>2 DEF TableTypeOK
    <3> QED
      BY <3>1 DEF Timer
  <2> QED
    BY <1>2, <1>3, <2>1, <2>2
<1>5. TableTypeOK'
  BY <1>1, <1>2, <1>4 DEF TableTypeOK
<1>6. MainOK' /\ RacedOK'
  BY <1>1 DEF MainOK, RacedOK, At, Places
<1>7. IsrOK'
  BY <1>1 DEF TickInv, TickTypeOK, IsrOK
<1> QED
  BY <1>1, <1>5, <1>6, <1>7 DEF TickInv, TickTypeOK

\* A slot that is not used has no live owner.
LEMMA FreeSlot ==
  ASSUME TickInv, main.at \notin Places, NEW r \in DOMAIN regs, Good(r), ~timers[regs[r].slot].used
  PROVE  Fired(r) /\ ~Live(r)
BY DEF TickInv, RegOK, Filled, Settled, Kept, Places

LEMMA AddStep == TickInv /\ timer_add => TickInv'
<1> SUFFICES ASSUME TickInv, timer_add PROVE TickInv'
  OBVIOUS
<1>1. TableTypeOK /\ main.at = "idle" /\ isr.at = "none" /\ isr' = isr /\ mtime' = mtime
  BY DEF timer_add, TickInv, TickTypeOK, Program
<1>2. PICK kind \in Kinds, i \in Slots :
        /\ ~timers[i].used
        /\ timers' = [timers EXCEPT ![i].used = TRUE]
        /\ regs' = Append(regs, [period_us |-> kind.period_us, one_shot |-> kind.one_shot,
             slot |-> i, at |-> mtime, fired |-> 0, raced |-> FALSE, cancelled |-> FALSE, ghost |-> FALSE])
        /\ main' = [at |-> "cb", slot |-> i]
  BY DEF timer_add
<1> DEFINE new == [period_us |-> kind.period_us, one_shot |-> kind.one_shot, slot |-> i, at |-> mtime,
                   fired |-> 0, raced |-> FALSE, cancelled |-> FALSE, ghost |-> FALSE]
<1>3. new \in Reg /\ 2 * new.period_us < LoWord /\ new.at = mtime /\ new.slot = i
  BY <1>1, TickAssumption DEF Reg, TableTypeOK
<1>4. ~new.raced /\ new.fired = 0 /\ ~new.cancelled /\ ~new.ghost
  OBVIOUS
<1>5. regs' = Append(regs, new)
  BY <1>2
<1> HIDE DEF new
<1>n. PICK n \in Nat : n = Len(regs) + 1
  BY <1>1, RegsFacts
<1>6. /\ regs' \in Seq(Reg) /\ Len(regs') = n /\ DOMAIN regs' = 1..n /\ n \in Nat
      /\ regs'[n] = new /\ \A r \in DOMAIN regs : r \in DOMAIN regs' /\ r # n /\ regs'[r] = regs[r]
      /\ \A r \in DOMAIN regs' : r = n \/ r \in DOMAIN regs
  BY <1>1, <1>3, <1>5, <1>n DEF TableTypeOK
<1>7. /\ timers' \in [Slots -> Timer] /\ timers'[i].used
      /\ \A j \in Slots : timers'[j].cb = timers[j].cb
      /\ \A j \in Slots \ {i} : timers'[j] = timers[j]
  <2>1. timers[i] \in Timer /\ timers \in [Slots -> Timer]
    BY <1>1 DEF TableTypeOK
  <2>2. timers' = [timers EXCEPT ![i] = [timers[i] EXCEPT !.used = TRUE]]
    BY <1>2
  <2>3. [timers[i] EXCEPT !.used = TRUE] \in Timer
    BY <2>1 DEF Timer
  <2>4. [timers[i] EXCEPT !.used = TRUE].cb = timers[i].cb /\ [timers[i] EXCEPT !.used = TRUE].used
    BY <2>1 DEF Timer
  <2> QED
    BY <2>1, <2>2, <2>3, <2>4
<1>8. TableTypeOK'
  <2>1. \A r \in DOMAIN regs' : regs'[r].at <= mtime' /\ 2 * regs'[r].period_us < LoWord
    BY <1>1, <1>3, <1>6 DEF TableTypeOK
  <2>2. \A j \in Slots : timers'[j].cb # 0 =>
          timers'[j].cb \in DOMAIN regs' /\ regs'[timers'[j].cb].slot = j
    BY <1>1, <1>6, <1>7 DEF TableTypeOK
  <2> QED
    BY <1>1, <1>6, <1>7, <2>1, <2>2 DEF TableTypeOK
<1>9. MainOK' /\ IsrOK' /\ RacedOK'
  <2>1. regs' # << >>
    BY <1>5, <1>6
  <2> QED
    BY <1>1, <1>2, <1>3, <1>6, <2>1 DEF MainOK, IsrOK, RacedOK, Registering, Places
<1>10. ASSUME NEW r \in DOMAIN regs PROVE RegOK(r)'
  <2>1. Filled(r) /\ Filled(r)'
    BY <1>1, <1>6 DEF Filled
  <2>2. CASE regs[r].slot = i
    <3>1. Good(r)' => Good(r)
      BY <1>6 DEF Good
    <3>2. Good(r) => Fired(r) /\ ~Live(r)
      BY <1>1, <1>2, <2>2, FreeSlot DEF Places
    <3>3. Fired(r) /\ ~Live(r) => Fired(r)' /\ ~Live(r)'
      BY <1>1, <1>6 DEF Fired, Live
    <3>4. Gone(r)'
      BY <1>2, <1>6, <2>2 DEF Gone
    <3> QED
      BY <2>1, <3>1, <3>2, <3>3, <3>4 DEF RegOK, Settled
  <2>3. CASE regs[r].slot # i
    <3>1. regs[r].slot \in Slots
      BY <1>1, RegsFacts DEF Reg
    <3>2. timers'[regs[r].slot] = timers[regs[r].slot]
      BY <1>7, <2>3, <3>1
    <3> QED
      BY <1>1, <1>6, <2>1, <3>2, Elsewhere
  <2> QED
    BY <2>2, <2>3
<1>11. RegOK(n)'
  <2>1. ~Filled(n)'
    BY <1>2, <1>6 DEF Filled
  <2>2. ASSUME Good(n)', NEW s \in DOMAIN regs', s # n, regs'[s].slot = regs'[n].slot
        PROVE  ~Live(s)'
    <3>1. s \in DOMAIN regs /\ regs'[s] = regs[s] /\ regs[s].slot = i
      BY <1>3, <1>6, <2>2
    <3>2. Good(s)
      BY <1>3, <1>6, <2>2, <3>1 DEF Good
    <3>3. ~Live(s)
      BY <1>1, <1>2, <3>1, <3>2, FreeSlot DEF Places
    <3> QED
      BY <3>1, <3>3 DEF Live
  <2>3. Good(n)' => Half(n)'
    BY <1>2, <1>3, <1>4, <1>6, <1>7, <2>2 DEF Half
  <2> QED
    BY <2>1, <2>3 DEF RegOK
<1> QED
  BY <1>6, <1>8, <1>9, <1>10, <1>11 DEF TickInv, TickTypeOK

\* The owners that a half filled slot had before are gone.
LEMMA FormerOwners ==
  ASSUME TickInv, main.at \in Places, NEW r \in DOMAIN regs, r # Len(regs),
         regs[r].slot = main.slot, Good(r)
  PROVE  /\ Half(Len(regs)) /\ Fired(r) /\ ~Live(r) /\ Filled(r)
         /\ main.at # "cb" => timers[main.slot].cb # r
<1>1. /\ Len(regs) \in DOMAIN regs /\ regs[Len(regs)].slot = main.slot
      /\ main.slot \in Slots
  BY DEF TickInv, TickTypeOK, MainOK, TableTypeOK, Registering
<1>2. Good(Len(regs)) /\ ~Filled(Len(regs)) /\ Filled(r)
  BY <1>1 DEF Good, Filled, Places
<1>3. Half(Len(regs))
  BY <1>1, <1>2 DEF TickInv, RegOK
<1>4. ~Live(r)
  BY <1>1, <1>3 DEF Half
<1>5. Settled(r)
  BY <1>2 DEF TickInv, RegOK
<1>6. main.at # "cb" => timers[main.slot].cb # r
  BY <1>3, <1>1 DEF Half, Places
<1> QED
  BY <1>2, <1>3, <1>4, <1>5, <1>6 DEF Settled

\* What a store into the slot that is being filled has to do for the table to stay right.
LEMMA FillStep ==
  ASSUME TickInv, NEW from \in Places, NEW to \in {"one_shot", "next", "idle"}, NEW v \in Timer,
         Fill(from, to, v), NEW n \in Nat, n = Len(regs),
         v.used = timers[main.slot].used,
         v.cb = timers[main.slot].cb \/ v.cb = n,
         from = "cb" => v.cb = n,
         regs' \in Seq(Reg), Len(regs') = n, DOMAIN regs' = DOMAIN regs,
         \A r \in DOMAIN regs : r # n => regs'[r] = regs[r],
         /\ regs'[n].at <= mtime
         /\ regs'[n].slot = Registering.slot /\ regs'[n].period_us = Registering.period_us
         /\ regs'[n].raced = Registering.raced,
         Half(n) => RegOK(n)'
  PROVE  TickInv'
<1>1. /\ TableTypeOK /\ main.at = from /\ isr.at = "none" /\ isr' = isr /\ mtime' = mtime
      /\ timers' = [timers EXCEPT ![main.slot] = v] /\ main' = [main EXCEPT !.at = to]
      /\ main.at \in Places
  BY DEF Fill, Program, TickInv, TickTypeOK
<1>2. /\ main \in [at : Places, slot : Slots] /\ n \in DOMAIN regs /\ Registering = regs[n]
      /\ Registering.slot = main.slot
  BY <1>1 DEF TickInv, TickTypeOK, MainOK, TableTypeOK, Registering
<1>3. /\ timers' \in [Slots -> Timer] /\ timers'[main.slot] = v
      /\ \A j \in Slots \ {main.slot} : timers'[j] = timers[j]
  BY <1>1, <1>2, TimerPut
<1>4. "at" \in DOMAIN main' /\ main'.at = to /\ main'.slot = main.slot
  BY <1>1, <1>2
<1>5. \A r \in DOMAIN regs : regs'[r].slot = regs[r].slot /\ regs'[r].raced = regs[r].raced
  BY <1>2
<1>6. TableTypeOK'
  <2>1. \A r \in DOMAIN regs : regs'[r].at <= mtime /\ 2 * regs'[r].period_us < LoWord
    BY <1>1, <1>2 DEF TableTypeOK
  <2>2. \A j \in Slots : timers'[j].cb # 0 =>
          timers'[j].cb \in DOMAIN regs /\ regs'[timers'[j].cb].slot = j
    BY <1>1, <1>2, <1>3, <1>5 DEF TableTypeOK
  <2> QED
    BY <1>1, <1>3, <2>1, <2>2 DEF TableTypeOK
<1>7. MainOK' /\ IsrOK' /\ RacedOK'
  <2>1. main'.at \in Places => main' \in [at : Places, slot : Slots]
    BY <1>1, <1>2, <1>4
  <2>2. regs' # << >> /\ Registering'.slot = main'.slot
    BY <1>2, <1>4, <1>5 DEF Registering
  <2>3. IsrOK
    BY DEF TickInv, TickTypeOK
  <2> QED
    BY <1>1, <1>4, <2>1, <2>2, <2>3 DEF MainOK, IsrOK, RacedOK
<1>8. RegOK(n)'
  <2>1. Good(n)' => Good(n)
    BY <1>2, <1>5 DEF Good
  <2>2. ~Filled(n)
    BY <1>1 DEF Filled, Places
  <2>3. Good(n) => Half(n)
    BY <1>2, <2>2 DEF TickInv, RegOK
  <2> QED
    BY <2>1, <2>3 DEF RegOK
<1>9. ASSUME NEW r \in DOMAIN regs, r # n PROVE RegOK(r)'
  <2>1. Filled(r) /\ Filled(r)'
    BY <1>9 DEF Filled
  <2>2. CASE regs[r].slot = main.slot
    <3>1. Good(r)' => Good(r)
      BY <1>5 DEF Good
    <3>2. Good(r) => /\ Fired(r) /\ ~Live(r)
                     /\ main.at # "cb" => timers[main.slot].cb # r
      BY <1>1, <1>9, <2>2, FormerOwners
    <3>3. Fired(r) /\ ~Live(r) => Fired(r)' /\ ~Live(r)'
      BY <1>1, <1>9 DEF Fired, Live
    <3>4. Good(r) => Gone(r)'
      BY <1>1, <1>3, <1>5, <1>9, <2>2, <3>2 DEF Gone
    <3> QED
      BY <2>1, <3>1, <3>2, <3>3, <3>4 DEF RegOK, Settled
  <2>3. CASE regs[r].slot # main.slot
    <3>1. regs[r].slot \in Slots
      BY <1>1, RegsFacts DEF Reg
    <3>2. timers'[regs[r].slot] = timers[regs[r].slot]
      BY <1>3, <2>3, <3>1
    <3>3. \A s \in DOMAIN regs : regs[s].slot = regs[r].slot => regs'[s] = regs[s]
      BY <1>2, <2>3
    <3> QED
      BY <1>1, <1>5, <2>1, <2>3, <3>2, <3>3, Elsewhere
  <2> QED
    BY <2>2, <2>3
<1> QED
  BY <1>6, <1>7, <1>8, <1>9 DEF TickInv, TickTypeOK

LEMMA FillSteps == TickInv /\ (timer_add_cb \/ timer_add_one_shot \/ timer_add_next) => TickInv'
<1> SUFFICES ASSUME TickInv, timer_add_cb \/ timer_add_one_shot \/ timer_add_next PROVE TickInv'
  OBVIOUS
<1>1. TableTypeOK /\ mtime \in Nat /\ main.at \in Places
  BY DEF TickInv, TickTypeOK, TableTypeOK, timer_add_cb, timer_add_one_shot, timer_add_next,
         Fill, Program, Places
<1>n. PICK n \in Nat : n = Len(regs)
  BY <1>1, RegsFacts
<1>2. /\ n \in DOMAIN regs /\ Registering = regs[n] /\ regs[n] \in Reg /\ regs[n].at <= mtime
      /\ regs[n].slot = main.slot /\ main \in [at : Places, slot : Slots]
  BY <1>1, <1>n, RegsFacts DEF TickInv, TickTypeOK, MainOK, TableTypeOK, Registering
<1>3. timers[main.slot] \in Timer /\ timers \in [Slots -> Timer]
  BY <1>1, <1>2 DEF TableTypeOK
<1> DEFINE T == timers[main.slot]
<1>4. CASE timer_add_cb
  <2> DEFINE v == [T EXCEPT !.period_us = Registering.period_us, !.cb = Len(regs)]
  <2>1. Fill("cb", "one_shot", v) /\ regs' = regs
    BY <1>4 DEF timer_add_cb
  <2>2. v \in Timer /\ v.used = T.used /\ v.cb = n /\ v.period_us = regs[n].period_us
    BY <1>2, <1>3, <1>n DEF Timer, Reg
  <2> HIDE DEF v
  <2>3. timers' = [timers EXCEPT ![main.slot] = v] /\ main'.at = "one_shot" /\ mtime' = mtime
    BY <1>2, <2>1 DEF Fill
  <2>4. timers'[main.slot] = v
    BY <1>2, <1>3, <2>3
  <2>5. Half(n) => RegOK(n)'
    BY <1>2, <1>n, <2>1, <2>2, <2>3, <2>4 DEF Half, RegOK, Filled, Live
  <2> QED
    BY <1>1, <1>2, <1>n, <2>1, <2>2, <2>5, FillStep DEF Places, TableTypeOK
<1>5. CASE timer_add_one_shot
  <2> DEFINE v == [T EXCEPT !.one_shot = Registering.one_shot]
  <2>1. Fill("one_shot", "next", v) /\ regs' = regs
    BY <1>5 DEF timer_add_one_shot
  <2>2. /\ v \in Timer /\ v.used = T.used /\ v.cb = T.cb /\ v.period_us = T.period_us
        /\ v.one_shot = regs[n].one_shot
    BY <1>2, <1>3, <1>n DEF Timer, Reg
  <2> HIDE DEF v
  <2>3. /\ timers' = [timers EXCEPT ![main.slot] = v] /\ main.at = "one_shot" /\ main'.at = "next"
        /\ mtime' = mtime
    BY <1>2, <2>1 DEF Fill, Program
  <2>4. timers'[main.slot] = v
    BY <1>2, <1>3, <2>3
  <2>5. Half(n) => RegOK(n)'
    BY <1>2, <1>n, <2>1, <2>2, <2>3, <2>4 DEF Half, RegOK, Filled, Live
  <2> QED
    BY <1>1, <1>2, <1>n, <2>1, <2>2, <2>5, FillStep DEF Places, TableTypeOK
<1>6. CASE timer_add_next
  <2> DEFINE v == [T EXCEPT !.next = Lo(mtime + Registering.period_us)]
             w == [Registering EXCEPT !.at = mtime]
  <2>1. Fill("next", "idle", v) /\ regs' = [regs EXCEPT ![n] = w]
    BY <1>6, <1>n DEF timer_add_next, Registering
  <2>2. w \in Reg /\ w = [regs[n] EXCEPT !.at = mtime]
    BY <1>1, <1>2 DEF Reg
  <2>3. /\ w.at = mtime /\ w.slot = regs[n].slot /\ w.period_us = regs[n].period_us
        /\ w.raced = regs[n].raced /\ w.fired = regs[n].fired /\ w.one_shot = regs[n].one_shot
        /\ w.cancelled = regs[n].cancelled /\ w.ghost = regs[n].ghost
    BY <1>2 DEF Reg
  <2>4. Lo(mtime + regs[n].period_us) \in Int /\ regs[n].period_us \in Nat
    BY <1>1, <1>2, LowWord DEF Reg
  <2>5. /\ v \in Timer /\ v.used = T.used /\ v.cb = T.cb /\ v.period_us = T.period_us
        /\ v.one_shot = T.one_shot /\ v.next = Lo(mtime + regs[n].period_us)
    BY <1>2, <1>3, <2>4 DEF Timer
  <2> HIDE DEF v, w
  <2>6. /\ timers' = [timers EXCEPT ![main.slot] = v] /\ main.at = "next" /\ main'.at = "idle"
        /\ mtime' = mtime
    BY <1>2, <2>1 DEF Fill, Program
  <2>7. timers'[main.slot] = v
    BY <1>2, <1>3, <2>6
  <2>8. /\ regs' \in Seq(Reg) /\ Len(regs') = n /\ DOMAIN regs' = DOMAIN regs /\ regs'[n] = w
        /\ \A r \in DOMAIN regs : r # n => regs'[r] = regs[r]
    BY <1>1, <1>2, <1>n, <2>1, <2>2, SeqPut DEF TableTypeOK
  <2>9. ASSUME Half(n) PROVE RegOK(n)'
    <3>1. w.fired = 0 /\ ~w.cancelled /\ ~w.ghost /\ v.used /\ v.cb = n
          /\ v.period_us = w.period_us /\ v.one_shot = w.one_shot
      BY <1>2, <2>3, <2>5, <2>6, <2>9 DEF Half
    <3>2. Fired(n)' /\ Live(n)'
      BY <1>1, <2>3, <2>4, <2>6, <2>8, <3>1 DEF Fired, Live
    <3>3. (0 + 1) * regs[n].period_us = regs[n].period_us
      BY <2>4
    <3>4. Kept(n)'
      BY <1>2, <2>3, <2>5, <2>7, <2>8, <3>1, <3>3 DEF Kept
    <3>5. Filled(n)'
      BY <2>6 DEF Filled
    <3> QED
      BY <3>2, <3>4, <3>5 DEF RegOK, Settled
  <2> QED
    BY <1>1, <1>2, <1>n, <2>1, <2>3, <2>5, <2>8, <2>9, FillStep DEF Places, TableTypeOK
<1> QED
  BY <1>4, <1>5, <1>6

\* A slot is released.
LEMMA CancelStep ==
  ASSUME TickInv, NEW id \in Slots, timers' = [timers EXCEPT ![id].used = FALSE],
         regs' = Cancelled(id), UNCHANGED <<mtime, main>>,
         isr' = isr \/ (isr.at = "loop" /\ isr' = [isr EXCEPT !.called = FALSE]),
         main.at \in Places => isr.at # "none"
  PROVE  TickInv'
<1>1. TableTypeOK /\ MainOK /\ IsrOK /\ RacedOK
  BY DEF TickInv, TickTypeOK
<1>2. /\ regs' \in Seq(Reg) /\ Len(regs') = Len(regs) /\ DOMAIN regs' = DOMAIN regs
      /\ \A r \in DOMAIN regs : regs'[r] \in Reg
      /\ \A r \in DOMAIN regs : regs[r].slot # id => regs'[r] = regs[r]
      /\ \A r \in DOMAIN regs : regs[r].slot = id => regs'[r] = [regs[r] EXCEPT !.cancelled = TRUE]
  BY <1>1, CancelledRegs
<1>3. \A r \in DOMAIN regs :
        /\ regs'[r].slot = regs[r].slot /\ regs'[r].raced = regs[r].raced
        /\ regs'[r].at = regs[r].at /\ regs'[r].period_us = regs[r].period_us
        /\ regs'[r].fired = regs[r].fired /\ regs'[r].one_shot = regs[r].one_shot
        /\ regs'[r].ghost = regs[r].ghost
        /\ regs[r].slot = id => regs'[r].cancelled
  BY <1>1, <1>2, RegsFacts DEF Reg
<1>4. /\ timers' \in [Slots -> Timer] /\ ~timers'[id].used
      /\ \A j \in Slots : timers'[j].cb = timers[j].cb
      /\ \A j \in Slots \ {id} : timers'[j] = timers[j]
  <2> DEFINE v == [timers[id] EXCEPT !.used = FALSE]
  <2>1. timers[id] \in Timer /\ timers \in [Slots -> Timer] /\ timers' = [timers EXCEPT ![id] = v]
    BY <1>1 DEF TableTypeOK
  <2>2. v \in Timer /\ v.cb = timers[id].cb /\ ~v.used
    BY <2>1 DEF Timer
  <2> HIDE DEF v
  <2> QED
    BY <2>1, <2>2
<1>5. TableTypeOK'
  BY <1>1, <1>2, <1>3, <1>4 DEF TableTypeOK
<1>6. main.at \in Places => Len(regs) \in DOMAIN regs
  BY <1>1 DEF MainOK, TableTypeOK
<1>7. MainOK' /\ IsrOK' /\ RacedOK'
  <2>1. main.at \in Places => /\ Registering'.slot = Registering.slot
                              /\ Registering'.raced = Registering.raced
    BY <1>2, <1>3, <1>6 DEF Registering
  <2>2. MainOK'
    BY <1>1, <1>2, <2>1 DEF MainOK
  <2>3. IsrOK' /\ (isr'.at = "none" => isr.at = "none")
    BY <1>1 DEF IsrOK
  <2> QED
    BY <1>1, <2>1, <2>2, <2>3 DEF RacedOK
<1>8. ASSUME NEW r \in DOMAIN regs PROVE RegOK(r)'
  <2>1. Good(r)' => Good(r)
    BY <1>2, <1>3 DEF Good
  <2>2. CASE regs[r].slot = id
    <3>1. Good(r) => Filled(r)
      BY <1>1, <1>6 DEF Good, Filled, RacedOK, Registering, Places
    <3>2. Filled(r)' = Filled(r)
      BY <1>2 DEF Filled
    <3>3. Good(r) => Settled(r)
      BY <3>1 DEF TickInv, RegOK
    <3>4. Fired(r) => Fired(r)'
      BY <1>3 DEF Fired
    <3>5. ~Live(r)' /\ Gone(r)'
      BY <1>3, <1>4, <2>2 DEF Live, Gone
    <3> QED
      BY <2>1, <3>1, <3>2, <3>3, <3>4, <3>5 DEF RegOK, Settled
  <2>3. CASE regs[r].slot # id
    <3>1. timers'[regs[r].slot] = timers[regs[r].slot]
      BY <1>1, <1>4, <2>3, RegsFacts DEF Reg
    <3>2. \A s \in DOMAIN regs : regs[s].slot = regs[r].slot => regs'[s] = regs[s]
      BY <1>2, <2>3
    <3> QED
      BY <1>2, <1>3, <3>1, <3>2, Elsewhere
  <2> QED
    BY <2>2, <2>3
<1> QED
  BY <1>2, <1>5, <1>7, <1>8 DEF TickInv, TickTypeOK

LEMMA CancelSteps == TickInv /\ (timer_cancel \/ callback_cancels) => TickInv'
<1> SUFFICES ASSUME TickInv, timer_cancel \/ callback_cancels PROVE TickInv'
  OBVIOUS
<1>1. CASE timer_cancel
  <2>1. PICK id \in Slots : timers' = [timers EXCEPT ![id].used = FALSE] /\ regs' = Cancelled(id)
    BY <1>1 DEF timer_cancel
  <2>2. UNCHANGED <<mtime, main, isr>> /\ main.at \notin Places
    BY <1>1 DEF timer_cancel, Program, Places
  <2> QED
    BY <2>1, <2>2, CancelStep
<1>2. CASE callback_cancels
  <2>1. PICK id \in Slots : timers' = [timers EXCEPT ![id].used = FALSE] /\ regs' = Cancelled(id)
    BY <1>2 DEF callback_cancels
  <2>2. UNCHANGED <<mtime, main>> /\ isr.at = "loop" /\ isr' = [isr EXCEPT !.called = FALSE]
    BY <1>2 DEF callback_cancels
  <2> QED
    BY <2>1, <2>2, CancelStep
<1> QED
  BY <1>1, <1>2

-----------------------------------------------------------------------------
(* The interrupt's steps.                                                  *)

LEMMA DispatchStep == TickInv /\ trap_dispatch_timer => TickInv'
<1> SUFFICES ASSUME TickInv, trap_dispatch_timer PROVE TickInv'
  OBVIOUS
<1>1. TableTypeOK /\ MainOK /\ TickTypeOK
  BY DEF TickInv, TickTypeOK
<1>2. UNCHANGED <<mtime, timers>> /\ regs' = Noted /\ isr.at = "none"
  BY DEF trap_dispatch_timer
<1>3. main' = main \/ (main.at = "read" /\ main' = [main EXCEPT !.torn = TRUE])
  BY DEF trap_dispatch_timer
<1>4. "at" \in DOMAIN main' /\ main'.at = main.at /\ (main.at \in Places => main' = main)
  BY <1>1, <1>3 DEF MainOK, Places
<1>5. IsrOK'
  <2>1. mtime \in Int /\ 0 \in Int /\ FALSE \in BOOLEAN /\ Lo(mtime) \in Int
    BY <1>1, LowWord DEF TableTypeOK
  <2>2. CASE enabled
    <3>1. isr' = [at |-> "loop", now |-> Lo(mtime), i |-> 0, called |-> FALSE] /\ mtime' = mtime
      BY <2>2 DEF trap_dispatch_timer, tick_isr
    <3> QED
      BY <2>1, <3>1 DEF IsrOK
  <2>3. CASE ~enabled
    BY <2>3 DEF trap_dispatch_timer, timer_int_handler, IsrOK
  <2> QED
    BY <2>2, <2>3
<1>6. CASE main.at \notin Places
  <2>1. regs' = regs
    BY <1>1, <1>2, <1>6, NotedRegs
  <2>2. TableTypeOK' /\ \A r \in DOMAIN regs' : RegOK(r)'
    BY <1>1, <1>2, <1>4, <1>6, <2>1, TableKept DEF TableTypeOK
  <2>3. MainOK' /\ RacedOK'
    BY <1>1, <1>4, <1>6, <2>1 DEF MainOK, RacedOK
  <2> QED
    BY <1>5, <2>2, <2>3 DEF TickInv, TickTypeOK
<1>7. CASE main.at \in Places
  <2>n. PICK n \in Nat : n = Len(regs)
    BY <1>1, RegsFacts
  <2>1. /\ regs' \in Seq(Reg) /\ Len(regs') = n /\ DOMAIN regs' = DOMAIN regs /\ n \in DOMAIN regs
        /\ regs'[n] = [regs[n] EXCEPT !.raced = TRUE]
        /\ \A r \in DOMAIN regs : r # n => regs'[r] = regs[r]
    BY <1>1, <1>2, <1>7, <2>n, NotedRegs DEF Registering
  <2>2. /\ \A r \in DOMAIN regs : regs'[r].slot = regs[r].slot /\ regs'[r].at = regs[r].at
                                  /\ regs'[r].period_us = regs[r].period_us
        /\ regs'[n].raced = TRUE
    <3>1. /\ regs'[n].slot = regs[n].slot /\ regs'[n].at = regs[n].at
          /\ regs'[n].period_us = regs[n].period_us /\ regs'[n].raced = TRUE
      BY <1>1, <2>1, RegsFacts DEF Reg
    <3> QED
      BY <2>1, <3>1
  <2>3. /\ main' = main /\ main \in [at : Places, slot : Slots] /\ regs[n].slot = main.slot
        /\ regs # << >>
    BY <1>1, <1>4, <1>7, <2>n DEF MainOK, Registering
  <2>4. TableTypeOK'
    <3>1. TableTypeOK /\ mtime' = mtime /\ timers' = timers /\ DOMAIN regs' = DOMAIN regs /\ regs' \in Seq(Reg)
      BY <1>1, <1>2, <2>1
    <3>2. \A r \in DOMAIN regs' : regs'[r].at <= mtime' /\ 2 * regs'[r].period_us < LoWord
      BY <2>2, <3>1 DEF TableTypeOK
    <3>3. \A i \in Slots : timers'[i].cb # 0 =>
            timers'[i].cb \in DOMAIN regs' /\ regs'[timers'[i].cb].slot = i
      BY <2>2, <3>1 DEF TableTypeOK
    <3> QED
      BY <3>1, <3>2, <3>3 DEF TableTypeOK
  <2>5. MainOK' /\ RacedOK'
    BY <1>1, <2>1, <2>2, <2>3 DEF MainOK, RacedOK, Registering
  <2>6. ASSUME NEW r \in DOMAIN regs PROVE RegOK(r)'
    <3>1. CASE regs[r].slot = main.slot
      <4>1. ~Good(r)'
        <5>1. n \in DOMAIN regs' /\ regs'[n].slot = regs'[r].slot
          BY <2>1, <2>2, <2>3, <3>1
        <5> QED
          BY <2>2, <5>1 DEF Good
      <4> QED
        BY <4>1 DEF RegOK
    <3>2. CASE regs[r].slot # main.slot
      <4>1. \A s \in DOMAIN regs : regs[s].slot = regs[r].slot => regs'[s] = regs[s]
        BY <2>1, <2>3, <3>2
      <4> QED
        BY <1>2, <2>n, <2>1, <2>2, <2>3, <4>1, Elsewhere
    <3> QED
      BY <3>1, <3>2
  <2> QED
    BY <1>5, <2>1, <2>4, <2>5, <2>6 DEF TickInv, TickTypeOK
<1> QED
  BY <1>6, <1>7

\* A timer that is due in the low word is due: its next period is over.
LEMMA PeriodOver ==
  ASSUME NEW t \in Nat, NEW p \in Nat, NEW f \in Nat, NEW a \in Nat, 2 * p < LoWord,
         f * p <= t - a, ~Before(Lo(t), Lo(a + (f + 1) * p))
  PROVE  (f + 1) * p <= t - a
<1>1. (f + 1) * p = f * p + p /\ f * p \in Nat
  OBVIOUS
<1> DEFINE q == (f + 1) * p
<1>2. q \in Nat /\ q - (t - a) <= p
  BY <1>1
<1>3. ~Before(Lo(t), Lo(a + q))
  OBVIOUS
<1> HIDE DEF q
<1>4. 2 * ((a + q) - t) < LoWord
  BY <1>2, LowWord
<1>5. a + q <= t
  BY <1>2, <1>3, <1>4, DueIsPast
<1>6. q <= t - a
  BY <1>2, <1>5
<1> QED
  BY <1>6 DEF q

LEMMA NextDeadline ==
  ASSUME NEW p \in Nat, NEW f \in Nat, NEW a \in Nat
  PROVE  Lo(Lo(a + (f + 1) * p) + p) = Lo(a + (f + 1 + 1) * p)
<1>1. (f + 1 + 1) * p = (f + 1) * p + p
  OBVIOUS
<1> DEFINE q == (f + 1) * p
<1>2. q \in Nat
  OBVIOUS
<1> HIDE DEF q
<1>3. Lo(Lo(a + q) + p) = Lo((a + q) + p)
  BY <1>2, LoAdds
<1>4. (a + q) + p = a + (q + p)
  BY <1>2
<1> QED
  BY <1>1, <1>3, <1>4 DEF q

\* The callback of a timer that is due, and its next deadline.
LEMMA ExpireStep ==
  ASSUME TickInv, NEW i \in Slots, isr.at = "loop", isr.now = Lo(mtime),
         Due(timers[i], isr.now), timers' = [timers EXCEPT ![i] = Expire(timers[i])],
         regs' = Called(timers[i]), UNCHANGED <<mtime, main>>
  PROVE  /\ TableTypeOK' /\ DOMAIN regs' = DOMAIN regs /\ Len(regs') = Len(regs)
         /\ \A r \in DOMAIN regs : regs'[r].slot = regs[r].slot /\ regs'[r].raced = regs[r].raced
         /\ \A r \in DOMAIN regs : RegOK(r)'
<1> DEFINE t == timers[i]
           e == Expire(t)
<1>1. /\ TableTypeOK /\ MainOK /\ RacedOK /\ mtime \in Nat
      /\ t \in Timer /\ timers \in [Slots -> Timer]
      /\ t.cb = 0 \/ (t.cb \in DOMAIN regs /\ regs[t.cb].slot = i)
  BY DEF TickInv, TickTypeOK, TableTypeOK
<1>2. t.used /\ ~Before(Lo(mtime), t.next)
  BY DEF Due
<1>3. /\ e \in Timer /\ e.cb = t.cb /\ e.period_us = t.period_us /\ e.one_shot = t.one_shot
      /\ t.one_shot => ~e.used
      /\ ~t.one_shot => e.used /\ e.next = Lo(t.next + t.period_us)
  <2>1. Lo(t.next + t.period_us) \in Int
    BY <1>1, LowWord DEF Timer
  <2>2. CASE t.one_shot
    BY <1>1, <2>2 DEF Expire, Timer
  <2>3. CASE ~t.one_shot
    BY <1>1, <1>2, <2>1, <2>3 DEF Expire, Timer
  <2> QED
    BY <2>2, <2>3
<1>4. /\ timers' \in [Slots -> Timer] /\ timers'[i] = e
      /\ \A j \in Slots \ {i} : timers'[j] = timers[j]
  BY <1>1, <1>3, TimerPut
<1>5. regs' \in Seq(Reg) /\ Len(regs') = Len(regs) /\ DOMAIN regs' = DOMAIN regs
  BY <1>1, CalledRegs
<1>6. \A r \in DOMAIN regs :
        /\ regs'[r].slot = regs[r].slot /\ regs'[r].raced = regs[r].raced
        /\ regs'[r].at = regs[r].at /\ regs'[r].period_us = regs[r].period_us
        /\ regs'[r].one_shot = regs[r].one_shot /\ regs'[r].cancelled = regs[r].cancelled
        /\ r # t.cb => regs'[r] = regs[r]
  BY <1>1, CalledRegs
<1>7. t.cb \in DOMAIN regs => /\ regs'[t.cb].fired = regs[t.cb].fired + 1
                              /\ ~regs[t.cb].ghost /\ ~regs[t.cb].cancelled => ~regs'[t.cb].ghost
  BY <1>1, CalledRegs
<1> HIDE DEF e
<1>8. TableTypeOK'
  <2>1. \A r \in DOMAIN regs : regs'[r].at <= mtime /\ 2 * regs'[r].period_us < LoWord
    BY <1>1, <1>6 DEF TableTypeOK
  <2>2. \A j \in Slots : timers'[j].cb = timers[j].cb
    BY <1>3, <1>4
  <2>3. \A j \in Slots : timers'[j].cb # 0 =>
          timers'[j].cb \in DOMAIN regs /\ regs'[timers'[j].cb].slot = j
    BY <1>1, <1>6, <2>2 DEF TableTypeOK
  <2> QED
    BY <1>1, <1>4, <1>5, <2>1, <2>3 DEF TableTypeOK
<1>9. ASSUME NEW r \in DOMAIN regs PROVE RegOK(r)'
  <2>1. Good(r)' = Good(r) /\ Filled(r)' = Filled(r) /\ regs[r] \in Reg
    BY <1>1, <1>5, <1>6, RegsFacts DEF Good, Filled
  <2>2. CASE regs[r].slot # i
    <3>1. timers'[regs[r].slot] = timers[regs[r].slot]
      BY <1>4, <2>1, <2>2 DEF Reg
    <3>2. \A s \in DOMAIN regs : regs[s].slot = regs[r].slot => regs'[s] = regs[s]
      <4>1. ASSUME NEW s \in DOMAIN regs, regs[s].slot = regs[r].slot PROVE s # t.cb
        BY <1>1, <2>2, <4>1, RegsFacts
      <4> QED
        BY <1>6, <4>1
    <3> QED
      BY <1>5, <1>6, <3>1, <3>2, Elsewhere
  <2>3. CASE regs[r].slot = i /\ Good(r)
    <3>1. main.at \in Places => main.slot # i
      <4> SUFFICES ASSUME main.at \in Places, main.slot = i PROVE FALSE
        OBVIOUS
      <4>1. Len(regs) \in DOMAIN regs /\ regs[Len(regs)].slot = i /\ regs[Len(regs)].raced
        BY <1>1 DEF MainOK, RacedOK, TableTypeOK, Registering
      <4> QED
        BY <2>3, <4>1 DEF Good
    <3>2. Filled(r) /\ Settled(r)
      <4>1. Filled(r)
        BY <1>1, <2>3, <3>1 DEF Filled, MainOK, Registering, Places
      <4> QED
        BY <2>3, <4>1 DEF TickInv, RegOK
    <3>3. CASE ~Live(r)
      <4>1. t.cb # r
        BY <1>2, <2>3, <3>1, <3>2, <3>3 DEF Settled, Gone, Places
      <4>2. regs'[r] = regs[r] /\ timers'[i].cb # r
        BY <1>3, <1>4, <1>6, <4>1
      <4>3. Fired(r)' /\ ~Live(r)' /\ Gone(r)'
        BY <2>3, <3>2, <3>3, <4>2 DEF Settled, Fired, Live, Gone
      <4> QED
        BY <2>1, <3>2, <4>3 DEF RegOK, Settled
    <3>4. CASE Live(r)
      <4> DEFINE p == regs[r].period_us
                 f == regs[r].fired
                 a == regs[r].at
      <4>1. /\ t.cb = r /\ t.next = Lo(a + (f + 1) * p) /\ t.period_us = p
            /\ t.one_shot = regs[r].one_shot /\ f * p <= mtime - a /\ ~regs[r].ghost
            /\ ~regs[r].cancelled /\ (regs[r].one_shot => f = 0)
        <5>1. regs[r].one_shot => ~(f > 0)
          BY <3>4 DEF Live
        <5>2. f \in Nat
          BY <2>1 DEF Reg
        <5> QED
          BY <2>3, <3>2, <3>4, <5>1, <5>2 DEF Settled, Kept, Fired, Live
      <4>2. p \in Nat /\ f \in Nat /\ a \in Nat /\ 2 * p < LoWord
        BY <1>1, <2>1 DEF Reg, TableTypeOK
      <4>3. (f + 1) * p <= mtime - a
        <5>1. ~Before(Lo(mtime), Lo(a + (f + 1) * p)) /\ f * p <= mtime - a
          BY <1>2, <4>1
        <5> HIDE DEF p, f, a
        <5> QED
          BY <1>1, <4>2, <5>1, PeriodOver
      <4>4. /\ regs'[r].fired = f + 1 /\ regs'[r].at = a /\ regs'[r].period_us = p
            /\ ~regs'[r].ghost /\ ~regs'[r].cancelled /\ regs'[r].slot = i
            /\ regs'[r].one_shot = regs[r].one_shot
        <5>1. regs'[r].fired = f + 1 /\ ~regs'[r].ghost
          BY <1>7, <3>4, <4>1 DEF Live
        <5>2. ~regs'[r].cancelled
          BY <1>6, <3>4 DEF Live
        <5> QED
          BY <1>6, <2>3, <5>1, <5>2
      <4>5. Fired(r)'
        <5>1. regs[r].one_shot => f + 1 <= 1
          <6>1. regs[r].one_shot => f = 0
            BY <4>1
          <6> HIDE DEF f
          <6> QED
            BY <6>1
        <5> QED
          BY <4>3, <4>4, <5>1 DEF Fired
      <4>6. CASE regs[r].one_shot
        <5>1. ~Live(r)'
          BY <4>2, <4>4, <4>6 DEF Live
        <5>2. ~timers'[i].used
          BY <1>3, <1>4, <4>1, <4>6
        <5>3. Gone(r)'
          BY <4>4, <5>2 DEF Gone
        <5> QED
          BY <4>5, <5>1, <5>3, <2>1, <3>2 DEF RegOK, Settled
      <4>7. CASE ~regs[r].one_shot
        <5>1. Live(r)'
          BY <4>4, <4>7 DEF Live
        <5>2. e.used /\ e.cb = r /\ e.period_us = p /\ e.one_shot = regs[r].one_shot
              /\ e.next = Lo(Lo(a + (f + 1) * p) + p)
          BY <1>3, <4>1, <4>7
        <5>3. e.next = Lo(a + (f + 1 + 1) * p)
          <6>1. e.next = Lo(Lo(a + (f + 1) * p) + p)
            BY <5>2
          <6> HIDE DEF p, f, a
          <6> QED
            BY <4>2, <6>1, NextDeadline
        <5>4. Kept(r)'
          BY <1>4, <4>4, <5>2, <5>3 DEF Kept
        <5> QED
          BY <4>5, <5>1, <5>4, <2>1, <3>2 DEF RegOK, Settled
      <4> QED
        BY <4>6, <4>7
    <3> QED
      BY <3>3, <3>4
  <2> QED
    BY <2>1, <2>2, <2>3 DEF RegOK
<1> QED
  BY <1>5, <1>6, <1>8, <1>9

LEMMA LoopStep == TickInv /\ tick_isr_loop => TickInv'
<1> SUFFICES ASSUME TickInv, tick_isr_loop PROVE TickInv'
  OBVIOUS
<1>1. /\ isr.at = "loop" /\ isr.i \in Slots /\ isr.now = Lo(mtime) /\ UNCHANGED <<mtime, main>>
      /\ TableTypeOK /\ MainOK /\ RacedOK /\ mtime \in Nat
      /\ isr \in [at : {"loop"}, now : Int, i : Int, called : BOOLEAN]
  BY DEF TickInv, TickTypeOK, IsrOK, TableTypeOK, tick_isr_loop
<1>2. IsrOK' /\ isr'.at = "loop"
  <2>1. isr' = [isr EXCEPT !.i = @ + 1, !.called = Due(timers[isr.i], isr.now)]
    BY DEF tick_isr_loop
  <2>2. Due(timers[isr.i], isr.now) \in BOOLEAN
    BY <1>1 DEF Due, Before, TableTypeOK, Timer
  <2>3. isr.i + 1 \in Int
    BY <1>1
  <2>4. /\ isr' \in [at : {"loop"}, now : Int, i : Int, called : BOOLEAN]
        /\ isr'.now = isr.now /\ isr'.at = "loop"
    BY <1>1, <2>1, <2>2, <2>3
  <2> QED
    BY <1>1, <2>4 DEF IsrOK
<1>3. CASE Due(timers[isr.i], isr.now)
  <2>1. timers' = [timers EXCEPT ![isr.i] = Expire(timers[isr.i])] /\ regs' = Called(timers[isr.i])
    BY <1>3 DEF tick_isr_loop
  <2>2. /\ TableTypeOK' /\ DOMAIN regs' = DOMAIN regs /\ Len(regs') = Len(regs)
        /\ \A r \in DOMAIN regs : regs'[r].slot = regs[r].slot /\ regs'[r].raced = regs[r].raced
        /\ \A r \in DOMAIN regs : RegOK(r)'
    BY <1>1, <1>3, <2>1, ExpireStep
  <2>3. main.at \in Places => Len(regs) \in DOMAIN regs
    BY <1>1 DEF MainOK, TableTypeOK
  <2>4. MainOK' /\ RacedOK'
    <3>1. regs = << >> => regs' = << >>
      BY <1>1, <2>2, RegsFacts DEF TableTypeOK
    <3>2. regs # << >> => regs' # << >>
      BY <1>1, <2>2, RegsFacts DEF TableTypeOK
    <3>3. main.at \in Places => /\ Registering'.slot = Registering.slot
                                /\ Registering'.raced = Registering.raced
      BY <2>2, <2>3 DEF Registering
    <3> QED
      BY <1>1, <3>1, <3>2, <3>3 DEF MainOK, RacedOK
  <2> QED
    BY <1>2, <2>2, <2>4 DEF TickInv, TickTypeOK
<1>4. CASE ~Due(timers[isr.i], isr.now)
  <2>1. UNCHANGED <<timers, regs>>
    BY <1>4 DEF tick_isr_loop
  <2>2. TableTypeOK' /\ \A r \in DOMAIN regs' : RegOK(r)'
    BY <1>1, <2>1, TableKept
  <2>3. MainOK' /\ RacedOK'
    BY <1>1, <1>2, <2>1 DEF MainOK, RacedOK, Registering
  <2> QED
    BY <1>2, <2>2, <2>3 DEF TickInv, TickTypeOK
<1> QED
  BY <1>3, <1>4

-----------------------------------------------------------------------------
(* The theorems.                                                           *)

LEMMA TickInvInit == TickInit => TickInv
<1> SUFFICES ASSUME TickInit PROVE TickInv
  OBVIOUS
<1>1. Unused \in Timer /\ Unused.cb = 0
  BY DEF Unused, Timer
<1> HIDE DEF Unused
<1>2. TableTypeOK
  BY <1>1, TickAssumption DEF TickInit, TableTypeOK
<1>3. MainOK /\ IsrOK /\ RacedOK
  BY DEF TickInit, MainOK, IsrOK, RacedOK, At, Places
<1> QED
  BY <1>2, <1>3 DEF TickInv, TickTypeOK, TickInit

LEMMA TickInvStep == TickInv /\ [TickNext]_tickVars => TickInv'
BY AsideStep, InitStep, AddStep, FillSteps, CancelSteps, DispatchStep, LoopStep DEF TickNext, Aside

LEMMA TickInvAlways == TickSpec => []TickInv
<1> QED
  BY TickInvInit, TickInvStep, PTL DEF TickSpec

LEMMA CleanSettled == ASSUME TickInv, NEW r \in DOMAIN regs, Clean(r) PROVE Settled(r)
BY DEF TickInv, RegOK, Clean, Good

\* A timer's k-th callback comes when k periods are over and not before, across every
\* rollover of mtime's low word; a one-shot fires once; what was cancelled never fires.
THEOREM TimersFireAsRegistered == TickSpec => []FiresAsRegistered
<1>1. TickInv => FiresAsRegistered
  BY CleanSettled DEF FiresAsRegistered, Settled, Fired
<1> QED
  BY <1>1, TickInvAlways, PTL

\* A timer that was neither cancelled nor, one-shot, fired is in its slot with the deadline of
\* its next period: no period is skipped, and late ticks add no drift.
THEOREM TimersKeepTheirSlots == TickSpec => []TimersKept
<1>1. TickInv => TimersKept
  <2> SUFFICES ASSUME TickInv, NEW r \in DOMAIN regs, Clean(r), ~regs[r].cancelled,
                      ~(regs[r].one_shot /\ regs[r].fired > 0)
               PROVE  LET t == timers[regs[r].slot]
                      IN  /\ t.used /\ t.cb = r
                          /\ t.next = Lo(regs[r].at + (regs[r].fired + 1) * regs[r].period_us)
    BY DEF TimersKept
  <2>1. Kept(r)
    BY CleanSettled DEF Settled, Live
  <2> QED
    BY <2>1 DEF Kept
<1> QED
  BY <1>1, TickInvAlways, PTL

-----------------------------------------------------------------------------
(* The time that the ticks add up to, and the toggles of the plain timer.  *)

\* tick_init returns within a turn of mtime's low word.  The handler arms both words of
\* mtimecmp; the program's two stores, with a tick in between, take one carry at most then.
Undelayed == main.at \in {"arm", "armhi"} => mtime < epoch.t + LoWord

OnPlaces  == {"arm", "armhi", "idle", "read", "us"} \cup Places
OffPlaces == {"boot", "now", "spin"}

ClockTypeOK ==
  /\ cmp \in [lo : Nat, hi : Nat] /\ base_us \in Nat /\ gpio \in Nat
  /\ epoch.t \in Nat /\ "t" \in DOMAIN epoch /\ "torn" \in DOMAIN epoch /\ epoch.t <= mtime
  /\ enabled \in BOOLEAN
  /\ enabled => main.at \in OnPlaces /\ isr.at \in {"none", "loop"} /\ gpio = 0
  /\ ~enabled => main.at \in OffPlaces /\ isr.at \in {"none", "now"}
  /\ main.at \in {"boot", "now"} => ~mie /\ gpio = 0
  /\ main.at = "now" => main.hi \in Nat
  /\ isr.at = "now" => isr.hi \in Nat

\* The ticks up to the last one are ahead of it by n periods at most.
Within(n, last) == base_us <= last - epoch.t + n * tick_us

\* The handler armed mtimecmp since.
ArmedSince(last) == \E x \in Nat : last <= x /\ x <= mtime /\
                      cmp = [lo |-> Lo(x + tick_us), hi |-> Hi(x + tick_us)]

\* A carry came between the start of the program and the first of its two stores.
Carried == epoch.t + tick_us < main.hi * LoWord

\* tick_init between its two stores: before and after a tick there.
HalfArmed(last) ==
  /\ isr.at = "none" /\ Within(1, last) /\ last + tick_us <= main.hi * LoWord + cmp.lo
  /\ base_us = 0 \/ cmp.hi = main.hi \/ Carried
Overtaken(last) ==
  /\ main.hi * LoWord <= last + tick_us
  /\ Within(1, last) \/ (Within(2, last) /\ Carried)
  /\ isr.at = "none" => ArmedSince(last)

Phase(last) ==
  /\ main.at = "arm" => Within(1, last) /\ (isr.at = "none" => base_us = 0 \/ ArmedSince(last))
  /\ main.at = "armhi" => /\ main.hi \in Nat /\ main.hi * LoWord <= mtime + tick_us
                          /\ HalfArmed(last) \/ Overtaken(last)
  /\ main.at \notin {"arm", "armhi"} =>
       /\ Within(2, last)
       /\ isr.at = "none" => Within(1, last) \/ last + tick_us <= cmp.hi * LoWord + cmp.lo

OnTime == \E last \in Nat : /\ last_lo = Lo(last) /\ epoch.t <= last /\ last <= mtime
                            /\ Phase(last)

ReadOK ==
  /\ main.at = "read" => /\ main \in [at : {"read"}, base : Int, torn : BOOLEAN]
                         /\ ~main.torn => main.base = base_us
  /\ ReadingsTrack

PlainOK ==
  ~epoch.torn => /\ gpio * tick_us <= mtime - epoch.t
                 /\ mie /\ isr.at = "none" =>
                      epoch.t + (gpio + 1) * tick_us <= cmp.hi * LoWord + cmp.lo

ClockInv == ClockTypeOK /\ (enabled => ReadOK /\ OnTime) /\ (~enabled => PlainOK)

LEMMA Constants == tick_us \in Nat /\ 0 < tick_us /\ tick_us < LoWord /\ LoWord \in Nat
BY TickAssumption

LEMMA WordParts ==
  ASSUME NEW t \in Nat
  PROVE  /\ Hi(t) \in Nat /\ Lo(t) \in Nat /\ Lo(t) < LoWord
         /\ t = Hi(t) * LoWord + Lo(t) /\ Hi(t) * LoWord \in Nat
<1>1. t = LoWord * Hi(t) + Lo(t) /\ Hi(t) \in Int
  BY LowParts DEF Hi
<1>2. Lo(t) \in Nat /\ Lo(t) < LoWord
  BY LowWord
<1>3. Hi(t) \in Nat
  BY Constants DEF Hi
<1> QED
  BY <1>1, <1>2, <1>3, Constants

\* The time since the last tick is the difference of the low words, or longer.
LEMMA SinceTick ==
  ASSUME NEW t \in Nat, NEW last \in Nat, last <= t
  PROVE  (Lo(t) - Lo(last)) % LoWord \in Nat /\ (Lo(t) - Lo(last)) % LoWord <= t - last
<1> DEFINE x == Lo(t) - Lo(last)
           turns == Hi(last) - Hi(t)
           y == t - last
<1>1. /\ t = Hi(t) * LoWord + Lo(t) /\ last = Hi(last) * LoWord + Lo(last)
      /\ Lo(t) \in Nat /\ Lo(last) \in Nat /\ Hi(t) \in Nat /\ Hi(last) \in Nat
  BY WordParts
<1>2. x \in Int /\ y \in Int /\ y \in Nat /\ turns \in Int /\ x = y + LoWord * turns
  BY <1>1, Constants
<1> HIDE DEF x, y, turns
<1>3. x % LoWord = y % LoWord
  BY <1>2, LowWord, ModShift
<1>4. y % LoWord \in Nat /\ y % LoWord <= y
  <2> DEFINE q == y \div LoWord
             m == y % LoWord
  <2>1. y = LoWord * q + m /\ m \in Nat /\ q \in Int
    BY <1>2, LowWord, DivMod
  <2>2. q \in Nat
    BY <1>2, LowWord
  <2> HIDE DEF q, m
  <2>3. LoWord * q \in Nat
    BY <2>2, LowWord
  <2> QED
    BY <1>2, <2>1, <2>3 DEF m
<1> QED
  BY <1>3, <1>4 DEF x, y

\* The high words are ordered as the times are.
LEMMA Carry ==
  ASSUME NEW x \in Nat, NEW t \in Nat, x <= t, Hi(x) # Hi(t)
  PROVE  x < Hi(t) * LoWord
<1>1. /\ x = Hi(x) * LoWord + Lo(x) /\ Lo(x) < LoWord /\ Lo(x) \in Nat /\ Hi(x) \in Nat
      /\ t = Hi(t) * LoWord + Lo(t) /\ Lo(t) < LoWord /\ Lo(t) \in Nat /\ Hi(t) \in Nat
  BY WordParts
<1>2. CASE Hi(t) >= Hi(x) + 1
  <2>1. Hi(t) * LoWord >= Hi(x) * LoWord + LoWord
    BY <1>1, <1>2, Constants
  <2> QED
    BY <1>1, <2>1, Constants
<1>3. CASE Hi(x) >= Hi(t) + 1
  <2>1. Hi(x) * LoWord >= Hi(t) * LoWord + LoWord
    BY <1>1, <1>3, Constants
  <2> QED
    BY <1>1, <2>1, Constants
<1> QED
  BY <1>1, <1>2, <1>3

LEMMA ClockInit == TickInit => ClockInv
<1> SUFFICES ASSUME TickInit PROVE ClockInv
  OBVIOUS
<1>1. mtime \in Nat
  BY TickAssumption DEF TickInit
<1>2. ClockTypeOK
  <2>1. cmp \in [lo : Nat, hi : Nat] /\ base_us \in Nat /\ gpio \in Nat
    BY DEF TickInit
  <2>e. enabled \in BOOLEAN /\ ~enabled /\ ~mie /\ gpio = 0
    BY DEF TickInit
  <2>2. main.at = "boot" /\ isr.at = "none"
    BY DEF TickInit, At
  <2>3. epoch.t = mtime /\ "t" \in DOMAIN epoch /\ "torn" \in DOMAIN epoch
    BY DEF TickInit
  <2> QED
    BY <1>1, <2>1, <2>e, <2>2, <2>3 DEF ClockTypeOK, OffPlaces
<1>3. PlainOK
  BY <1>1, Constants DEF TickInit, PlainOK
<1> QED
  BY <1>2, <1>3 DEF ClockInv, TickInit

\* The steps that touch neither the clocks nor the handler, and leave tick_init alone.
Untouched == UNCHANGED <<mtime, cmp, enabled, mie, base_us, last_lo, gpio, epoch>>

LEMMA Bystander ==
  ASSUME TickInv, ClockInv, Untouched, enabled, isr'.at = isr.at,
         main.at \notin {"arm", "armhi"}, main'.at \in OnPlaces \ {"arm", "armhi"},
         ReadOK'
  PROVE  ClockInv'
<1>1. ClockTypeOK'
  BY DEF ClockInv, ClockTypeOK, Untouched, OnPlaces, Places
<1>2. OnTime'
  <2>1. PICK last \in Nat : /\ last_lo = Lo(last) /\ epoch.t <= last /\ last <= mtime
                            /\ Phase(last)
    BY DEF ClockInv, OnTime
  <2>2. Phase(last)'
    BY <2>1 DEF Phase, Within, Untouched
  <2> QED
    BY <2>1, <2>2 DEF OnTime, Untouched
<1> QED
  BY <1>1, <1>2 DEF ClockInv, Untouched

LEMMA BystanderSteps ==
  TickInv /\ ClockInv /\ (\/ timer_add \/ timer_add_cb \/ timer_add_one_shot \/ timer_add_next
                          \/ timer_cancel \/ ticks_us) => ClockInv'
<1> SUFFICES ASSUME TickInv, ClockInv,
                    \/ timer_add \/ timer_add_cb \/ timer_add_one_shot \/ timer_add_next
                    \/ timer_cancel \/ ticks_us
             PROVE  ClockInv'
  OBVIOUS
<1>1. Untouched /\ isr' = isr
  BY DEF timer_add, timer_add_cb, timer_add_one_shot, timer_add_next, Fill, timer_cancel, ticks_us,
         Untouched, tickTable
<1>2. main.at \in {"idle", "read", "us"} \cup Places
  BY DEF timer_add, timer_add_cb, timer_add_one_shot, timer_add_next, Fill, timer_cancel, ticks_us,
         Program, Places
<1>3. enabled
  BY <1>2 DEF ClockInv, ClockTypeOK, OffPlaces, Places
<1>4. CASE timer_add \/ timer_add_cb \/ timer_add_one_shot \/ timer_add_next \/ timer_cancel
  <2>1. "at" \in DOMAIN main
    BY DEF TickInv, TickTypeOK, MainOK
  <2>2. main'.at \in {"idle"} \cup Places
    <3>1. CASE timer_add
      BY <3>1 DEF timer_add, Places
    <3>2. CASE timer_add_cb
      BY <2>1, <3>2 DEF timer_add_cb, Fill, Places
    <3>3. CASE timer_add_one_shot
      BY <2>1, <3>3 DEF timer_add_one_shot, Fill, Places
    <3>4. CASE timer_add_next
      BY <2>1, <3>4 DEF timer_add_next, Fill, Places
    <3>5. CASE timer_cancel
      BY <3>5 DEF timer_cancel, Program
    <3> QED
      BY <1>4, <3>1, <3>2, <3>3, <3>4, <3>5
  <2>3. ReadOK'
    BY <2>2 DEF ReadOK, ReadingsTrack, Places
  <2> QED
    BY <1>1, <1>2, <1>3, <2>2, <2>3, Bystander DEF OnPlaces, Places
<1>5. CASE ticks_us
  <2>1. CASE Program("idle") /\ main' = [at |-> "read", base |-> base_us, torn |-> FALSE]
    <3>1. main'.at = "read"
      BY <2>1
    <3>2. ReadOK'
      BY <1>1, <2>1, <3>1 DEF ReadOK, ReadingsTrack, Untouched, ClockInv, ClockTypeOK
    <3> QED
      BY <1>1, <1>2, <1>3, <3>1, <3>2, Bystander DEF OnPlaces, Places
  <2>2. CASE Program("read")
    <3>1. main' = [at |-> "us", base |-> main.base + ((Lo(mtime) - last_lo) % LoWord),
                   torn |-> main.torn, when |-> mtime]
      BY <1>5, <2>2 DEF ticks_us, Program
    <3>2. main'.at = "us" /\ main'.torn = main.torn /\ main'.when = mtime
          /\ main'.base = main.base + ((Lo(mtime) - last_lo) % LoWord)
      BY <3>1
    <3>3. ASSUME ~main.torn PROVE main'.base <= mtime - epoch.t + 2 * tick_us
      <4>1. PICK last \in Nat : /\ last_lo = Lo(last) /\ epoch.t <= last /\ last <= mtime
                                /\ Phase(last)
        BY <1>3 DEF ClockInv, OnTime
      <4>2. base_us <= last - epoch.t + 2 * tick_us
        BY <2>2, <4>1 DEF Phase, Within, Program
      <4>3. main.base = base_us
        BY <1>3, <2>2, <3>3 DEF ClockInv, ReadOK, Program
      <4> DEFINE d == (Lo(mtime) - last_lo) % LoWord
      <4>4. d \in Nat /\ d <= mtime - last
        BY <4>1, SinceTick DEF TickInv, TickTypeOK, TableTypeOK
      <4>5. main'.base = base_us + d
        BY <3>2, <4>3
      <4> HIDE DEF d
      <4>6. mtime \in Nat /\ epoch.t \in Nat /\ base_us \in Nat
        BY DEF TickInv, TickTypeOK, TableTypeOK, ClockInv, ClockTypeOK
      <4> QED
        BY <4>2, <4>4, <4>5, <4>6, Constants
    <3>4. ReadOK'
      BY <1>1, <3>2, <3>3 DEF ReadOK, ReadingsTrack, Untouched
    <3> QED
      BY <1>1, <1>2, <1>3, <3>2, <3>4, Bystander DEF OnPlaces, Places, Program
  <2>3. CASE main' = At("idle")
    <3>1. main'.at = "idle"
      BY <2>3 DEF At
    <3>2. ReadOK'
      BY <3>1 DEF ReadOK, ReadingsTrack
    <3> QED
      BY <1>1, <1>2, <1>3, <3>1, <3>2, Bystander DEF OnPlaces, Places
  <2> QED
    BY <1>5, <2>1, <2>2, <2>3 DEF ticks_us
<1> QED
  BY <1>4, <1>5

\* The turns of the handler's loop, and no step at all.
LEMMA TurnSteps ==
  TickInv /\ ClockInv /\ (tick_isr_loop \/ callback_cancels \/ UNCHANGED tickVars) => ClockInv'
<1> SUFFICES ASSUME TickInv, ClockInv, tick_isr_loop \/ callback_cancels \/ UNCHANGED tickVars
             PROVE  ClockInv'
  OBVIOUS
<1>1. Untouched /\ main' = main
  BY DEF tick_isr_loop, callback_cancels, tickVars, tickTable, Untouched
<1>2. isr'.at = isr.at /\ (isr'.at = "now" => isr' = isr)
  BY DEF tick_isr_loop, callback_cancels, tickVars, TickInv, TickTypeOK, IsrOK
<1>3. ClockTypeOK' /\ (ReadOK => ReadOK') /\ (PlainOK => PlainOK')
  BY <1>1, <1>2 DEF ClockInv, ClockTypeOK, ReadOK, ReadingsTrack, PlainOK, Untouched
<1>4. OnTime => OnTime'
  <2> SUFFICES ASSUME OnTime PROVE OnTime'
    OBVIOUS
  <2>1. PICK last \in Nat : /\ last_lo = Lo(last) /\ epoch.t <= last /\ last <= mtime
                            /\ Phase(last)
    BY DEF OnTime
  <2>2. Phase(last)'
    BY <1>1, <1>2, <2>1 DEF Phase, Within, HalfArmed, Overtaken, Carried, ArmedSince, Untouched
  <2> QED
    BY <1>1, <2>1, <2>2 DEF OnTime, Untouched
<1> QED
  BY <1>1, <1>3, <1>4 DEF ClockInv, Untouched

LEMMA TimeStep == TickInv /\ ClockInv /\ TimePasses => ClockInv'
<1> SUFFICES ASSUME TickInv, ClockInv, TimePasses PROVE ClockInv'
  OBVIOUS
<1>1. /\ UNCHANGED <<cmp, enabled, mie, base_us, last_lo, gpio, epoch, main, isr>>
      /\ mtime \in Nat /\ mtime' = mtime + 1
  BY DEF TimePasses, tickTable, TickInv, TickTypeOK, TableTypeOK
<1>2. ClockTypeOK' /\ epoch.t \in Nat /\ gpio \in Nat
  BY <1>1 DEF ClockInv, ClockTypeOK
<1>3. ReadOK => ReadOK'
  BY <1>1 DEF ReadOK, ReadingsTrack
<1>4. PlainOK => PlainOK'
  <2> DEFINE n == gpio * tick_us
  <2>1. n \in Int
    BY <1>2, Constants
  <2> HIDE DEF n
  <2>2. n <= mtime - epoch.t => n <= mtime' - epoch.t
    BY <1>1, <1>2, <2>1
  <2> QED
    BY <1>1, <2>2 DEF PlainOK, n
<1>5. OnTime => OnTime'
  <2> SUFFICES ASSUME OnTime PROVE OnTime'
    OBVIOUS
  <2>1. PICK last \in Nat : /\ last_lo = Lo(last) /\ epoch.t <= last /\ last <= mtime
                            /\ Phase(last)
    BY DEF OnTime
  <2>2. ArmedSince(last) => ArmedSince(last)'
    BY <1>1 DEF ArmedSince
  <2>3. HalfArmed(last) => HalfArmed(last)'
    BY <1>1 DEF HalfArmed, Within, Carried
  <2>4. Overtaken(last) => Overtaken(last)'
    BY <1>1, <2>2 DEF Overtaken, Within, Carried
  <2>5. main.at = "armhi" /\ main.hi * LoWord <= mtime + tick_us => main.hi * LoWord <= mtime' + tick_us
    <3> SUFFICES ASSUME main.at = "armhi" PROVE main.hi * LoWord <= mtime + tick_us =>
                                                main.hi * LoWord <= mtime' + tick_us
      OBVIOUS
    <3> DEFINE m == main.hi * LoWord
    <3>1. m \in Int
      BY <2>1, Constants DEF Phase
    <3> HIDE DEF m
    <3>2. m <= mtime + tick_us => m <= mtime' + tick_us
      BY <1>1, <3>1, Constants
    <3> QED
      BY <3>2 DEF m
  <2>6. Phase(last)'
    BY <1>1, <2>1, <2>2, <2>3, <2>4, <2>5 DEF Phase, Within
  <2>7. last <= mtime'
    BY <1>1, <2>1
  <2> QED
    BY <1>1, <2>1, <2>6, <2>7 DEF OnTime
<1> QED
  BY <1>1, <1>2, <1>3, <1>4, <1>5 DEF ClockInv

LEMMA ClockTypes ==
  ASSUME TickInv, ClockInv
  PROVE  /\ mtime \in Nat /\ epoch.t \in Nat /\ base_us \in Nat /\ gpio \in Nat
         /\ cmp.lo \in Nat /\ cmp.hi \in Nat /\ cmp.hi * LoWord \in Nat /\ epoch.t <= mtime
BY Constants DEF TickInv, TickTypeOK, TableTypeOK, ClockInv, ClockTypeOK

\* tick_init: the first tick comes at once.
LEMMA BeginStep == TickInv /\ ClockInv /\ tick_init => ClockInv'
<1> SUFFICES ASSUME TickInv, ClockInv, tick_init PROVE ClockInv'
  OBVIOUS
<1>1. /\ mtime \in Nat /\ epoch.t \in Nat /\ epoch.t <= mtime /\ ~enabled
      /\ isr.at = "none" /\ main.at = "boot"
  BY ClockTypes DEF tick_init, Program, ClockInv, ClockTypeOK, OnPlaces, Places
<1>2. /\ UNCHANGED <<mtime, cmp, gpio, isr, epoch>> /\ base_us' = 0 /\ last_lo' = Lo(mtime)
      /\ enabled' = TRUE /\ main'.at = "arm"
  BY DEF tick_init, At
<1>3. gpio = 0
  BY <1>1 DEF ClockInv, ClockTypeOK
<1>4. ClockTypeOK'
  BY <1>1, <1>2, <1>3 DEF ClockInv, ClockTypeOK, OnPlaces
<1>5. ReadOK'
  BY <1>2 DEF ReadOK, ReadingsTrack
<1>6. OnTime'
  <2>1. (base_us <= mtime - epoch.t + 1 * tick_us)'
    BY <1>1, <1>2, Constants
  <2>2. Phase(mtime)'
    BY <1>2, <2>1 DEF Phase, Within
  <2>3. (last_lo = Lo(mtime) /\ epoch.t <= mtime /\ mtime \in Nat)'
    BY <1>1, <1>2
  <2> QED
    BY <1>1, <2>2, <2>3 DEF OnTime
<1> QED
  BY <1>2, <1>4, <1>5, <1>6 DEF ClockInv

\* The first of the two stores.
LEMMA LowStoreStep ==
  TickInv /\ ClockInv /\ tick_init_arm /\ main.at = "arm" => ClockInv'
<1> SUFFICES ASSUME TickInv, ClockInv, tick_init_arm, main.at = "arm" PROVE ClockInv'
  OBVIOUS
<1> DEFINE u == mtime + tick_us
<1>1. /\ UNCHANGED <<mtime, mie, enabled, base_us, last_lo, gpio, isr, epoch>>
      /\ cmp' = [cmp EXCEPT !.lo = Lo(u)] /\ main' = [at |-> "armhi", hi |-> Hi(u)]
      /\ isr.at = "none"
  BY DEF tick_init_arm, tickTable, Program
<1>2. enabled /\ cmp \in [lo : Nat, hi : Nat]
  BY DEF ClockInv, ClockTypeOK, OffPlaces
<1>3. /\ u \in Nat /\ Hi(u) \in Nat /\ Lo(u) \in Nat /\ u = Hi(u) * LoWord + Lo(u)
      /\ Hi(u) * LoWord \in Nat /\ mtime \in Nat
  <2>1. u \in Nat /\ mtime \in Nat
    BY Constants, ClockTypes
  <2> HIDE DEF u
  <2> QED
    BY <2>1, WordParts
<1>4. /\ main'.at = "armhi" /\ main'.hi = Hi(u) /\ cmp'.lo = Lo(u) /\ cmp'.hi = cmp.hi
      /\ cmp' \in [lo : Nat, hi : Nat]
  BY <1>1, <1>2, <1>3
<1>5. ClockTypeOK'
  BY <1>1, <1>2, <1>4 DEF ClockInv, ClockTypeOK, OnPlaces
<1>6. ReadOK'
  BY <1>4 DEF ReadOK, ReadingsTrack
<1>7. PICK last \in Nat : last_lo = Lo(last) /\ epoch.t <= last /\ last <= mtime /\ Phase(last)
  BY <1>2 DEF ClockInv, OnTime
<1>8. Within(1, last) /\ (base_us = 0 \/ ArmedSince(last))
  BY <1>1, <1>7 DEF Phase
<1>9. base_us' = 0 \/ cmp'.hi = main'.hi \/ Carried'
  <2> SUFFICES ASSUME ArmedSince(last), cmp.hi # Hi(u) PROVE Carried'
    BY <1>1, <1>4, <1>8
  <2>1. PICK x \in Nat : last <= x /\ x <= mtime /\ cmp = [lo |-> Lo(x + tick_us), hi |-> Hi(x + tick_us)]
    BY DEF ArmedSince
  <2>2. x + tick_us \in Nat /\ x + tick_us <= u /\ Hi(x + tick_us) # Hi(u)
    BY <1>3, <2>1, Constants
  <2>3. x + tick_us < Hi(u) * LoWord
    BY <1>3, <2>2, Carry
  <2>4. epoch.t + tick_us < Hi(u) * LoWord
    BY <1>3, <1>7, <2>1, <2>3, Constants, ClockTypes
  <2> QED
    BY <1>1, <1>4, <2>4 DEF Carried
<1>10. HalfArmed(last)'
  <2>1. last + tick_us <= Hi(u) * LoWord + Lo(u)
    BY <1>3, <1>7, Constants
  <2>2. Within(1, last)'
    BY <1>1, <1>8 DEF Within
  <2> QED
    BY <1>1, <1>4, <1>9, <2>1, <2>2 DEF HalfArmed
<1>11. Phase(last)'
  <2>1. Hi(u) * LoWord <= mtime + tick_us
    BY <1>3
  <2> QED
    BY <1>1, <1>3, <1>4, <1>10, <2>1 DEF Phase
<1>12. OnTime'
  BY <1>1, <1>7, <1>11 DEF OnTime
<1> QED
  BY <1>1, <1>2, <1>5, <1>6, <1>12 DEF ClockInv

\* The second: the comparator is a period after the last tick, unless a tick came in between
\* and a carry with it; then one more tick may come at once.
LEMMA HighStoreStep ==
  TickInv /\ ClockInv /\ Undelayed /\ tick_init_arm /\ main.at = "armhi" => ClockInv'
<1> SUFFICES ASSUME TickInv, ClockInv, Undelayed, tick_init_arm, main.at = "armhi" PROVE ClockInv'
  OBVIOUS
<1>1. /\ UNCHANGED <<mtime, mie, enabled, base_us, last_lo, gpio, isr, epoch>>
      /\ cmp' = [cmp EXCEPT !.hi = main.hi] /\ main'.at = "idle"
      /\ isr.at = "none"
  BY DEF tick_init_arm, tickTable, Program, At
<1>2. enabled /\ cmp \in [lo : Nat, hi : Nat]
  BY DEF ClockInv, ClockTypeOK, OffPlaces
<1>7. PICK last \in Nat : last_lo = Lo(last) /\ epoch.t <= last /\ last <= mtime /\ Phase(last)
  BY <1>2 DEF ClockInv, OnTime
<1>8. main.hi \in Nat /\ (HalfArmed(last) \/ Overtaken(last))
  BY <1>7 DEF Phase
<1>4. cmp'.lo = cmp.lo /\ cmp'.hi = main.hi /\ cmp' \in [lo : Nat, hi : Nat]
  BY <1>1, <1>2, <1>8
<1>5. ClockTypeOK'
  BY <1>1, <1>2, <1>4 DEF ClockInv, ClockTypeOK, OnPlaces
<1>6. ReadOK'
  BY <1>1 DEF ReadOK, ReadingsTrack
<1>9. /\ mtime \in Nat /\ epoch.t \in Nat /\ base_us \in Nat /\ tick_us \in Nat /\ cmp.lo \in Nat
      /\ main.hi * LoWord \in Nat
  BY <1>8, ClockTypes, Constants
<1>10. Within(1, last) => Within(2, last)
  BY <1>9, <1>7 DEF Within
<1>11. Within(1, last) \/ (Within(2, last) /\ last + tick_us <= main.hi * LoWord + cmp.lo)
  <2>1. CASE HalfArmed(last)
    BY <2>1 DEF HalfArmed
  <2>2. CASE Overtaken(last) /\ ~Within(1, last)
    <3>1. Within(2, last) /\ Carried /\ ArmedSince(last) /\ main.hi * LoWord <= last + tick_us
      BY <1>1, <2>2 DEF Overtaken
    <3>2. PICK x \in Nat : last <= x /\ x <= mtime /\ cmp = [lo |-> Lo(x + tick_us), hi |-> Hi(x + tick_us)]
      BY <3>1 DEF ArmedSince
    <3> DEFINE y == x + tick_us
    <3>3. /\ y \in Nat /\ cmp.lo = Lo(y) /\ Hi(y) \in Nat /\ Lo(y) \in Nat /\ Lo(y) < LoWord
          /\ y = Hi(y) * LoWord + Lo(y) /\ Hi(y) * LoWord \in Nat
      BY <3>2, WordParts, Constants
    <3>4. main.hi * LoWord <= y /\ y < main.hi * LoWord + LoWord /\ last + tick_us <= y
      BY <1>7, <1>9, <3>1, <3>2, Constants DEF Carried, Undelayed
    <3> HIDE DEF y
    <3>5. Hi(y) = main.hi
      <4>1. CASE Hi(y) >= main.hi + 1
        <5>1. Hi(y) * LoWord >= main.hi * LoWord + LoWord
          BY <1>8, <3>3, <4>1, Constants
        <5> QED
          BY <1>9, <3>3, <3>4, <5>1, Constants
      <4>2. CASE main.hi >= Hi(y) + 1
        <5>1. main.hi * LoWord >= Hi(y) * LoWord + LoWord
          BY <1>8, <3>3, <4>2, Constants
        <5> QED
          BY <1>9, <3>3, <3>4, <5>1, Constants
      <4> QED
        BY <1>8, <3>3, <4>1, <4>2
    <3>6. last + tick_us <= main.hi * LoWord + cmp.lo
      BY <3>3, <3>4, <3>5
    <3> QED
      BY <3>1, <3>6
  <2> QED
    BY <1>8, <2>1, <2>2
<1>12. Phase(last)'
  BY <1>1, <1>4, <1>10, <1>11 DEF Phase, Within
<1>13. OnTime'
  BY <1>1, <1>7, <1>12 DEF OnTime
<1> QED
  BY <1>1, <1>2, <1>5, <1>6, <1>13 DEF ClockInv

\* timer_init, and the plain timer's handler: the two reads of mtime are of one time unless
\* the reading is torn.
LEMMA PlainArms ==
  ASSUME TickInv, ClockInv, ~enabled, NEW hi \in Nat, arm(timer_now(hi)), Torn(hi),
         UNCHANGED <<mtime, enabled, gpio, base_us>>, isr'.at = "none",
         main'.at = "spin" \/ UNCHANGED <<main, mie>>
  PROVE  ClockInv'
<1> DEFINE t == timer_now(hi)
           u == t + tick_us
           n == gpio * tick_us
<1>1. /\ epoch'.t = epoch.t /\ "t" \in DOMAIN epoch' /\ "torn" \in DOMAIN epoch'
      /\ ~epoch'.torn => ~epoch.torn /\ t = mtime
  BY DEF Torn, ClockInv, ClockTypeOK
<1>2. t \in Nat
  <2>1. Lo(mtime) \in Nat /\ hi * LoWord \in Nat
    BY WordParts, Constants, ClockTypes
  <2> QED
    BY <2>1 DEF timer_now
<1>3. arm(t)
  OBVIOUS
<1> HIDE DEF t
<1>4. u \in Nat /\ cmp' = [lo |-> Lo(u), hi |-> Hi(u)]
  BY <1>2, <1>3, Constants DEF arm
<1>5. u = t + tick_us
  OBVIOUS
<1> HIDE DEF u
<1>6. Lo(u) \in Nat /\ Hi(u) \in Nat /\ u = Hi(u) * LoWord + Lo(u)
  BY <1>4, WordParts
<1>7. cmp' \in [lo : Nat, hi : Nat] /\ cmp'.hi * LoWord + cmp'.lo = u
  BY <1>4, <1>6
<1>8. ClockTypeOK'
  <2>1. main'.at \in OffPlaces /\ (main'.at \in {"boot", "now"} => ~mie' /\ gpio = 0)
        /\ (main'.at = "now" => main'.hi \in Nat)
    BY DEF ClockInv, ClockTypeOK, OffPlaces
  <2>2. epoch'.t \in Nat /\ epoch'.t <= mtime' /\ base_us' \in Nat /\ gpio' \in Nat
    BY <1>1, ClockTypes
  <2>3. enabled' \in BOOLEAN /\ ~enabled' /\ gpio' = gpio
    BY DEF ClockInv, ClockTypeOK
  <2> QED
    BY <1>1, <1>7, <2>1, <2>2, <2>3 DEF ClockTypeOK
<1>9. PlainOK'
  <2> SUFFICES ASSUME ~epoch'.torn
               PROVE  /\ gpio' * tick_us <= mtime' - epoch'.t
                      /\ epoch'.t + (gpio' + 1) * tick_us <= cmp'.hi * LoWord + cmp'.lo
    BY DEF PlainOK
  <2>1. n <= mtime - epoch.t
    BY <1>1 DEF ClockInv, PlainOK
  <2>2. n \in Int /\ (gpio + 1) * tick_us = n + tick_us /\ gpio \in Nat
    BY Constants, ClockTypes
  <2> HIDE DEF n
  <2>3. u = mtime + tick_us
    BY <1>1, <1>5
  <2>4. epoch.t + (gpio + 1) * tick_us <= u
    BY <2>1, <2>2, <2>3, Constants, ClockTypes
  <2> QED
    BY <1>1, <1>7, <2>1, <2>4 DEF n
<1> QED
  BY <1>8, <1>9 DEF ClockInv

LEMMA PlainSteps == TickInv /\ ClockInv /\ (timer_init \/ timer_int_handler_arm) => ClockInv'
<1> SUFFICES ASSUME TickInv, ClockInv, timer_init \/ timer_int_handler_arm PROVE ClockInv'
  OBVIOUS
<1>1. CASE timer_int_handler_arm
  <2>1. /\ isr.at = "now" /\ arm(timer_now(isr.hi)) /\ Torn(isr.hi) /\ isr'.at = "none"
        /\ UNCHANGED <<mtime, mie, enabled, gpio, base_us, main>>
    BY <1>1 DEF timer_int_handler_arm, tickTable, At
  <2>2. ~enabled /\ isr.hi \in Nat
    BY <2>1 DEF ClockInv, ClockTypeOK
  <2> QED
    BY <2>1, <2>2, PlainArms
<1>2. CASE timer_init /\ main.at = "now"
  <2>1. /\ isr.at = "none" /\ isr' = isr /\ arm(timer_now(main.hi)) /\ Torn(main.hi)
        /\ UNCHANGED <<mtime, enabled, gpio, base_us>> /\ main'.at = "spin"
    BY <1>2 DEF timer_init, tickTable, At, Program
  <2>2. ~enabled /\ main.hi \in Nat
    BY <1>2 DEF ClockInv, ClockTypeOK, OnPlaces, Places
  <2> QED
    BY <2>1, <2>2, PlainArms
<1>3. CASE timer_init /\ main.at # "now"
  <2>1. /\ main.at = "boot" /\ main'.at = "now" /\ main'.hi = Hi(mtime)
        /\ UNCHANGED <<mtime, cmp, mie, enabled, base_us, gpio, isr, epoch>>
    BY <1>3 DEF timer_init, tickTable, Program, timer_now_hi
  <2>2. ~enabled /\ Hi(mtime) \in Nat /\ ~mie
    BY <2>1, WordParts, ClockTypes DEF ClockInv, ClockTypeOK, OnPlaces, Places
  <2>3. ClockTypeOK'
    BY <2>1, <2>2 DEF ClockInv, ClockTypeOK, OffPlaces
  <2>4. PlainOK'
    BY <2>1, <2>2 DEF ClockInv, PlainOK
  <2> QED
    BY <2>1, <2>2, <2>3, <2>4 DEF ClockInv
<1> QED
  BY <1>1, <1>2, <1>3

\* The tick.
LEMMA TickComes ==
  TickInv /\ ClockInv /\ trap_dispatch_timer /\ enabled => ClockInv'
<1> SUFFICES ASSUME TickInv, ClockInv, trap_dispatch_timer, enabled PROVE ClockInv'
  OBVIOUS
<1>1. /\ mtip /\ isr.at = "none" /\ base_us' = base_us + tick_us /\ last_lo' = Lo(mtime)
      /\ isr'.at = "loop" /\ UNCHANGED <<mtime, cmp, mie, enabled, gpio, epoch>>
      /\ main' = IF main.at = "read" THEN [main EXCEPT !.torn = TRUE] ELSE main
  BY DEF trap_dispatch_timer, tick_isr
<1>2. /\ mtime \in Nat /\ epoch.t \in Nat /\ base_us \in Nat /\ base_us' \in Nat
      /\ cmp.hi * LoWord + cmp.lo \in Nat /\ epoch.t <= mtime
      /\ tick_us \in Nat /\ cmp.lo \in Nat /\ cmp.hi \in Nat
  BY <1>1, ClockTypes, Constants
<1>3. main'.at = main.at /\ (main.at # "read" => main' = main) /\ ReadOK'
  <2>1. CASE main.at = "read"
    <3>1. main \in [at : {"read"}, base : Int, torn : BOOLEAN]
      BY <2>1 DEF ClockInv, ReadOK
    <3>2. main' = [main EXCEPT !.torn = TRUE]
      BY <1>1, <2>1
    <3>3. main' \in [at : {"read"}, base : Int, torn : BOOLEAN] /\ main'.torn /\ main'.at = "read"
      BY <3>1, <3>2
    <3> QED
      BY <2>1, <3>3 DEF ReadOK, ReadingsTrack
  <2>2. CASE main.at # "read"
    BY <1>1, <2>2 DEF ClockInv, ReadOK, ReadingsTrack
  <2> QED
    BY <2>1, <2>2
<1>4. ClockTypeOK'
  BY <1>1, <1>2, <1>3 DEF ClockInv, ClockTypeOK, OnPlaces, Places
<1>5. PICK last \in Nat : last_lo = Lo(last) /\ epoch.t <= last /\ last <= mtime /\ Phase(last)
  BY DEF ClockInv, OnTime
<1>6. cmp.hi * LoWord + cmp.lo <= mtime
  BY <1>1, <1>2 DEF mtip
<1>7. ArmedSince(last) => last + tick_us <= mtime
  <2> SUFFICES ASSUME ArmedSince(last) PROVE last + tick_us <= mtime
    OBVIOUS
  <2>1. PICK x \in Nat : last <= x /\ cmp = [lo |-> Lo(x + tick_us), hi |-> Hi(x + tick_us)]
    BY DEF ArmedSince
  <2>2. x + tick_us \in Nat
    BY <1>2
  <2>3. x + tick_us = Hi(x + tick_us) * LoWord + Lo(x + tick_us)
    BY <2>2, WordParts
  <2>4. cmp.hi * LoWord + cmp.lo = x + tick_us
    BY <2>1, <2>3
  <2> QED
    BY <1>2, <1>5, <1>6, <2>1, <2>4
\* On time, the tick keeps the distance; early, it adds a period to it.
<1>8. /\ last + tick_us <= mtime /\ Within(1, last) => Within(1, mtime)'
      /\ last + tick_us <= mtime /\ Within(2, last) => Within(2, mtime)'
      /\ Within(1, last) => Within(2, mtime)'
      /\ base_us = 0 => Within(1, mtime)'
  <2>1. /\ Within(1, last) => base_us <= last - epoch.t + tick_us
        /\ Within(2, last) => base_us <= last - epoch.t + 2 * tick_us
    BY <1>2 DEF Within
  <2>2. /\ base_us + tick_us <= mtime - epoch.t + tick_us => Within(1, mtime)'
        /\ base_us + tick_us <= mtime - epoch.t + 2 * tick_us => Within(2, mtime)'
    BY <1>1, <1>2 DEF Within
  <2> QED
    BY <1>2, <1>5, <2>1, <2>2
<1>9. CASE main.at = "arm"
  <2>1. Within(1, mtime)'
    BY <1>1, <1>5, <1>7, <1>8, <1>9 DEF Phase
  <2>2. Phase(mtime)'
    BY <1>1, <1>3, <1>9, <2>1 DEF Phase
  <2> QED
    BY <1>1, <1>2, <1>3, <1>4, <2>2 DEF ClockInv, OnTime
<1>10. CASE main.at = "armhi"
  <2>1. main' = main /\ main.hi \in Nat /\ main.hi * LoWord <= mtime + tick_us
        /\ (HalfArmed(last) \/ Overtaken(last))
    BY <1>3, <1>5, <1>10 DEF Phase
  <2>2. Carried' = Carried
    BY <1>1, <2>1 DEF Carried
  <2>3. Within(1, mtime)' \/ (Within(2, mtime)' /\ Carried')
    <3>1. CASE HalfArmed(last)
      <4>1. cmp.hi = main.hi => last + tick_us <= mtime
        BY <1>2, <1>5, <1>6, <3>1 DEF HalfArmed
      <4> QED
        BY <1>8, <2>2, <3>1, <4>1 DEF HalfArmed
    <3>2. CASE Overtaken(last)
      BY <1>1, <1>7, <1>8, <2>2, <3>2 DEF Overtaken
    <3> QED
      BY <2>1, <3>1, <3>2
  <2>4. Overtaken(mtime)'
    BY <1>1, <2>1, <2>3 DEF Overtaken
  <2>5. Phase(mtime)'
    BY <1>1, <1>3, <1>10, <2>1, <2>4 DEF Phase
  <2> QED
    BY <1>1, <1>2, <1>3, <1>4, <2>5 DEF ClockInv, OnTime
<1>11. CASE main.at \notin {"arm", "armhi"}
  <2>1. Within(2, mtime)'
    <3>1. Within(2, last) /\ (Within(1, last) \/ last + tick_us <= cmp.hi * LoWord + cmp.lo)
      BY <1>1, <1>5, <1>11 DEF Phase
    <3>2. last + tick_us <= cmp.hi * LoWord + cmp.lo => last + tick_us <= mtime
      BY <1>2, <1>5, <1>6
    <3> QED
      BY <1>8, <3>1, <3>2
  <2>2. Phase(mtime)'
    BY <1>1, <1>3, <1>11, <2>1 DEF Phase
  <2> QED
    BY <1>1, <1>2, <1>3, <1>4, <2>2 DEF ClockInv, OnTime
<1> QED
  BY <1>9, <1>10, <1>11

LEMMA ToggleComes ==
  TickInv /\ ClockInv /\ trap_dispatch_timer /\ ~enabled => ClockInv'
<1> SUFFICES ASSUME TickInv, ClockInv, trap_dispatch_timer, ~enabled PROVE ClockInv'
  OBVIOUS
<1>1. /\ mie /\ mtip /\ isr.at = "none" /\ UNCHANGED <<mtime, cmp, mie, enabled, base_us, epoch>>
      /\ gpio' = gpio + 1 /\ isr' = [at |-> "now", hi |-> Hi(mtime)]
  BY DEF trap_dispatch_timer, timer_int_handler, timer_now_hi
<1>2. main.at \in OffPlaces /\ main' = main
  BY DEF trap_dispatch_timer, ClockInv, ClockTypeOK, OffPlaces
<1>3. Hi(mtime) \in Nat
  BY WordParts, ClockTypes
<1>4. ClockTypeOK'
  <2>1. gpio' \in Nat /\ isr'.at = "now" /\ isr'.hi \in Nat
    BY <1>1, <1>3, ClockTypes
  <2> QED
    BY <1>1, <1>2, <2>1 DEF ClockInv, ClockTypeOK
<1>5. PlainOK'
  <2> DEFINE m == (gpio + 1) * tick_us
             c == cmp.hi * LoWord + cmp.lo
  <2>1. m \in Int /\ c \in Nat
    BY Constants, ClockTypes
  <2>2. ~epoch.torn => epoch.t + m <= c
    BY <1>1 DEF ClockInv, PlainOK
  <2>3. c <= mtime
    BY <1>1, ClockTypes DEF mtip
  <2> HIDE DEF m, c
  <2>4. ~epoch.torn => m <= mtime - epoch.t
    BY <2>1, <2>2, <2>3, ClockTypes
  <2> QED
    BY <1>1, <2>4 DEF PlainOK, m
<1> QED
  BY <1>1, <1>4, <1>5 DEF ClockInv

LEMMA ArmStep == TickInv /\ ClockInv /\ tick_isr_arm => ClockInv'
<1> SUFFICES ASSUME TickInv, ClockInv, tick_isr_arm PROVE ClockInv'
  OBVIOUS
<1> DEFINE u == mtime + tick_us
<1>1. /\ isr.at = "loop" /\ isr'.at = "none" /\ cmp' = [lo |-> Lo(u), hi |-> Hi(u)]
      /\ UNCHANGED <<mtime, mie, enabled, base_us, last_lo, gpio, main, epoch>>
  BY DEF tick_isr_arm, tickTable, arm, At
<1>2. enabled
  BY <1>1 DEF ClockInv, ClockTypeOK
<1>3. u \in Nat /\ mtime \in Nat
  BY Constants, ClockTypes
<1>4. u = mtime + tick_us
  OBVIOUS
<1> HIDE DEF u
<1>5. Lo(u) \in Nat /\ Hi(u) \in Nat /\ u = Hi(u) * LoWord + Lo(u)
  BY <1>3, WordParts
<1>6. cmp' \in [lo : Nat, hi : Nat] /\ cmp'.hi * LoWord + cmp'.lo = u
  BY <1>1, <1>5
<1>7. ClockTypeOK' /\ ReadOK'
  BY <1>1, <1>2, <1>6 DEF ClockInv, ClockTypeOK, ReadOK, ReadingsTrack
<1>8. PICK last \in Nat : last_lo = Lo(last) /\ epoch.t <= last /\ last <= mtime /\ Phase(last)
  BY <1>2 DEF ClockInv, OnTime
<1>9. ArmedSince(last)'
  BY <1>1, <1>3, <1>4, <1>8 DEF ArmedSince
<1>10. last + tick_us <= u
  BY <1>3, <1>4, <1>8, Constants
<1>11. Phase(last)'
  <2>1. main.at = "arm" => Within(1, last)
    BY <1>8 DEF Phase
  <2>2. main.at = "armhi" => Overtaken(last) /\ main.hi \in Nat /\ main.hi * LoWord <= mtime + tick_us
    BY <1>1, <1>8 DEF Phase, HalfArmed
  <2>3. Overtaken(last) => Overtaken(last)'
    BY <1>1, <1>9 DEF Overtaken, Within, Carried
  <2>4. main.at \notin {"arm", "armhi"} => Within(2, last)
    BY <1>8 DEF Phase
  <2>5. Within(1, last)' = Within(1, last) /\ Within(2, last)' = Within(2, last)
    BY <1>1 DEF Within
  <2> QED
    BY <1>1, <1>6, <1>9, <1>10, <2>1, <2>2, <2>3, <2>4, <2>5 DEF Phase
<1> QED
  BY <1>1, <1>2, <1>7, <1>8, <1>11 DEF ClockInv, OnTime

LEMMA ClockStep == TickInv /\ ClockInv /\ Undelayed /\ [TickNext]_tickVars => ClockInv'
<1>1. tick_init_arm => main.at \in {"arm", "armhi"}
  BY DEF tick_init_arm, Program
<1> QED
  BY <1>1, TimeStep, BeginStep, LowStoreStep, HighStoreStep, BystanderSteps, PlainSteps, TickComes,
     ToggleComes, TurnSteps, ArmStep DEF TickNext

\* The time that us_now adds up never runs ahead of mtime by more than the tick that comes at
\* once and the one that may come between the two stores to mtimecmp, if tick_init is not held
\* up for a whole turn of the low word; and the plain timer's pin is toggled no more often than
\* once a period as long as no reading of mtime was torn.
THEOREM NeitherRunsAhead == TickSpec /\ []Undelayed => []NeverAhead
<1>1. TickInv /\ ClockInv => NeverAhead
  <2> SUFFICES ASSUME TickInv, ClockInv PROVE NeverAhead
    OBVIOUS
  <2>1. ReadingsTrack
    BY DEF ClockInv, ReadOK, ReadingsTrack, ClockTypeOK, OffPlaces
  <2>2. TogglesSpaced
    <3>1. CASE enabled
      <4>1. gpio = 0
        BY <3>1 DEF ClockInv, ClockTypeOK
      <4> QED
        BY <4>1, ClockTypes, Constants DEF TogglesSpaced
    <3>2. CASE ~enabled
      BY <3>2 DEF ClockInv, PlainOK, TogglesSpaced
    <3> QED
      BY <3>1, <3>2
  <2> QED
    BY <2>1, <2>2 DEF NeverAhead
<1>2. TickSpec /\ []Undelayed => []ClockInv
  BY TickInvAlways, ClockInit, ClockStep, PTL DEF TickSpec
<1> QED
  BY <1>1, <1>2, TickInvAlways, PTL

-----------------------------------------------------------------------------
(* Types.  The record that says where the program is grows when a kernel   *)
(* is taken, and shrinks when its results were read.                       *)
Polling == {"poll", "read"}
Waiting == {"enable", "wait", "time", "done", "gaveup"}
Stages  == {"load", "launch", "return"} \cup Polling \cup Waiting
Busy    == [at : Stages, kernel : Kernels, i : Nat, poll : BOOLEAN]

ProgTypeOK ==
  /\ prog = Where("idle") \/ prog \in Busy
  /\ prog.at \in Polling => prog.poll
  /\ prog.at \in Waiting => ~prog.poll

FlagsTypeOK ==
  /\ msie \in BOOLEAN /\ done_flag \in BOOLEAN /\ irq_ran \in BOOLEAN /\ irq_count \in Nat
  /\ handler \in {"none", "status", "count"}
  /\ timeouts \in Nat

GpuTypeOK ==
  /\ launch_pending \in BOOLEAN /\ active \in BOOLEAN
  /\ was_busy \in BOOLEAN /\ gpu_done_latch \in BOOLEAN
  /\ DOMAIN imem = 0..(ImemWords - 1) /\ imem_addr \in 0..(ImemWords - 1)
  /\ FlagsTypeOK
  /\ ProgTypeOK

\* What a cycle of the program does to its record.
LEMMA ProgramMoves ==
  ASSUME ProgTypeOK, NEW from \in Stages, NEW to \in Stages, Cycle(from, to)
  PROVE  /\ prog \in Busy /\ prog' \in Busy /\ prog.at = from /\ prog'.at = to
         /\ prog'.kernel = prog.kernel /\ prog'.i = prog.i /\ prog'.poll = prog.poll
<1>1. prog \in Busy /\ prog.at = from
  BY DEF ProgTypeOK, Cycle, Where, Stages, Polling, Waiting
<1>2. prog' = [prog EXCEPT !.at = to]
  BY DEF Cycle
<1> QED
  BY <1>1, <1>2 DEF Busy

LEMMA ProgTypeStep == ProgTypeOK /\ [GpuNext]_gpuVars => ProgTypeOK'
<1> SUFFICES ASSUME ProgTypeOK, [GpuNext]_gpuVars PROVE ProgTypeOK'
  OBVIOUS
<1> USE DEF Stages, Polling, Waiting
<1>1. CASE gpu_load_kernel
  BY <1>1 DEF gpu_load_kernel, ProgTypeOK, Busy
<1>2. CASE gpu_load_word
  <2>1. prog \in Busy /\ prog.at = "load" /\ prog' = [prog EXCEPT !.i = @ + 1]
    BY <1>2 DEF gpu_load_word, ProgTypeOK, Where
  <2>2. prog' \in Busy /\ prog'.at = "load"
    BY <2>1 DEF Busy
  <2> QED
    BY <2>2 DEF ProgTypeOK
<1>3. CASE gpu_run_wait_irq
  BY <1>3, ProgramMoves DEF gpu_run_wait_irq, ProgTypeOK
<1>4. CASE gpu_run_enable
  BY <1>4, ProgramMoves DEF gpu_run_enable, ProgTypeOK
<1>5. CASE gpu_write_word
  <2>1. Cycle("load", "launch")
    BY <1>5 DEF gpu_write_word
  <2>2. prog' \in Busy /\ prog'.at = "launch"
    BY <2>1, ProgramMoves
  <2> QED
    BY <2>2 DEF ProgTypeOK
<1>6. CASE gpu_launch
  BY <1>6, ProgramMoves DEF gpu_launch, ProgTypeOK
<1>7. CASE gpu_launch_return
  BY <1>7, ProgramMoves DEF gpu_launch_return, ProgTypeOK
<1>8. CASE gpu_wait
  BY <1>8, ProgramMoves DEF gpu_wait, ProgTypeOK
<1>9. CASE gpu_wait_time
  <2>1. PICK to \in {"wait", "gaveup"} : Cycle("time", to)
    BY <1>9 DEF gpu_wait_time
  <2>2. /\ prog.at = "time" /\ prog'.at \in {"wait", "gaveup"}
        /\ prog' \in Busy /\ prog'.poll = prog.poll
    BY <2>1, ProgramMoves
  <2> QED
    BY <2>2 DEF ProgTypeOK
<1>10. CASE gpu_wait_idle
  BY <1>10, ProgramMoves DEF gpu_wait_idle, ProgTypeOK
<1>11. CASE gpu_read_word
  BY <1>11 DEF gpu_read_word, ProgTypeOK, Where
<1>12. CASE UNCHANGED prog
  BY <1>12 DEF ProgTypeOK, Busy
<1> QED
  BY <1>1, <1>2, <1>3, <1>4, <1>5, <1>6, <1>7, <1>8, <1>9, <1>10, <1>11, <1>12
     DEF GpuNext, gpuVars, trap_dispatch_soft, omni_msi_isr, omni_msi_isr_count

\* A cycle of the hardware.
LEMMA EdgeTypes ==
  ASSUME GpuTypeOK, NEW clear \in BOOLEAN, NEW launch \in BOOLEAN, GpuEdge(clear, launch)
  PROVE  /\ launch_pending' \in BOOLEAN /\ active' \in BOOLEAN
         /\ was_busy' \in BOOLEAN /\ gpu_done_latch' \in BOOLEAN
BY DEF GpuTypeOK, GpuEdge, LatchEdge

LEMMA FlagsTypeStep == FlagsTypeOK /\ [GpuNext]_gpuVars => FlagsTypeOK'
<1> SUFFICES ASSUME FlagsTypeOK, [GpuNext]_gpuVars PROVE FlagsTypeOK'
  OBVIOUS
<1>1. CASE gpu_load_kernel
  BY <1>1 DEF gpu_load_kernel, flags, FlagsTypeOK
<1>2. CASE gpu_load_word
  BY <1>2 DEF gpu_load_word, flags, FlagsTypeOK
<1>3. CASE gpu_run_wait_irq
  BY <1>3 DEF gpu_run_wait_irq, Cycle, flags, FlagsTypeOK
<1>4. CASE gpu_run_enable
  BY <1>4 DEF gpu_run_enable, Cycle, flags, FlagsTypeOK
<1>5. CASE gpu_write_word
  BY <1>5 DEF gpu_write_word, Cycle, flags, FlagsTypeOK
<1>6. CASE gpu_launch
  BY <1>6 DEF gpu_launch, Cycle, flags, FlagsTypeOK
<1>7. CASE gpu_launch_return
  BY <1>7 DEF gpu_launch_return, Cycle, flags, FlagsTypeOK
<1>8. CASE gpu_wait
  BY <1>8 DEF gpu_wait, Cycle, flags, FlagsTypeOK
<1>9. CASE gpu_wait_time
  <2>1. UNCHANGED <<msie, flags, handler>> /\ timeouts' \in {timeouts, timeouts + 1}
    BY <1>9 DEF gpu_wait_time, Cycle
  <2> QED
    BY <2>1 DEF flags, FlagsTypeOK
<1>10. CASE gpu_wait_idle
  BY <1>10 DEF gpu_wait_idle, Cycle, flags, FlagsTypeOK
<1>11. CASE gpu_read_word
  BY <1>11 DEF gpu_read_word, flags, FlagsTypeOK
<1>12. CASE trap_dispatch_soft
  BY <1>12 DEF trap_dispatch_soft, flags, FlagsTypeOK
<1>13. CASE omni_msi_isr
  BY <1>13 DEF omni_msi_isr, flags, FlagsTypeOK
<1>14. CASE omni_msi_isr_count
  BY <1>14 DEF omni_msi_isr_count, flags, FlagsTypeOK
<1>15. CASE UNCHANGED gpuVars
  BY <1>15 DEF gpuVars, flags, FlagsTypeOK
<1> QED
  BY <1>1, <1>2, <1>3, <1>4, <1>5, <1>6, <1>7, <1>8, <1>9, <1>10, <1>11, <1>12, <1>13, <1>14, <1>15 DEF GpuNext

LEMMA GpuTypeStep == GpuTypeOK /\ [GpuNext]_gpuVars => GpuTypeOK'
<1> SUFFICES ASSUME GpuTypeOK, [GpuNext]_gpuVars PROVE GpuTypeOK'
  OBVIOUS
<1>1. ProgTypeOK' /\ FlagsTypeOK'
  BY ProgTypeStep, FlagsTypeStep DEF GpuTypeOK
<1>2. /\ launch_pending' \in BOOLEAN /\ active' \in BOOLEAN
      /\ was_busy' \in BOOLEAN /\ gpu_done_latch' \in BOOLEAN
  <2>1. CASE GpuNext
    <3>1. PICK clear \in BOOLEAN, launch \in BOOLEAN : GpuEdge(clear, launch)
      BY <2>1, CompletionAssumption
         DEF GpuNext, gpu_load_kernel, gpu_load_word, gpu_run_wait_irq, gpu_run_enable,
             gpu_write_word, gpu_launch, gpu_launch_return, gpu_wait, gpu_wait_time,
             gpu_wait_idle, gpu_read_word, trap_dispatch_soft, omni_msi_isr, omni_msi_isr_count
    <3> QED
      BY <3>1, EdgeTypes
  <2>2. CASE UNCHANGED gpuVars
    BY <2>2 DEF gpuVars, gpuHw, GpuTypeOK
  <2> QED
    BY <2>1, <2>2
<1>3. DOMAIN imem' = 0..(ImemWords - 1) /\ imem_addr' \in 0..(ImemWords - 1)
  <2>1. CASE gpu_load_kernel
    BY <2>1, CompletionAssumption DEF gpu_load_kernel, GpuTypeOK
  <2>2. CASE gpu_load_word
    BY <2>2, CompletionAssumption DEF gpu_load_word, GpuTypeOK
  <2>3. CASE UNCHANGED load
    BY <2>3 DEF load, GpuTypeOK
  <2> QED
    BY <2>1, <2>2, <2>3
       DEF GpuNext, gpu_run_wait_irq, gpu_run_enable, gpu_write_word, gpu_launch,
           gpu_launch_return, gpu_wait, gpu_wait_time, gpu_wait_idle, gpu_read_word,
           trap_dispatch_soft, omni_msi_isr, omni_msi_isr_count, gpuVars, load
<1> QED
  BY <1>1, <1>2, <1>3 DEF GpuTypeOK

LEMMA GpuTypeCorrect == GpuSpec => []GpuTypeOK
<1>1. GpuInit => GpuTypeOK
  BY CompletionAssumption DEF GpuInit, GpuTypeOK, FlagsTypeOK, ProgTypeOK, Where, Polling, Waiting
<1> QED
  BY <1>1, GpuTypeStep, PTL DEF GpuSpec


-----------------------------------------------------------------------------
(* The completion is not lost.                                             *)

\* From the launch on, a kernel that is over is on its way to the wait loop.
PendingFromLaunch ==
  prog.at \in {"return", "wait", "time"} /\ Ended =>
    was_busy \/ gpu_done_latch \/ handler # "none" \/ done_flag

LEMMA PendingStep ==
  ASSUME ~Aliased
  PROVE  GpuTypeOK /\ PendingFromLaunch /\ [GpuNext]_gpuVars => PendingFromLaunch'
<1> SUFFICES ASSUME GpuTypeOK, PendingFromLaunch, [GpuNext]_gpuVars PROVE PendingFromLaunch'
  OBVIOUS
<1> USE DEF PendingFromLaunch, Ended
<1>0. ProgTypeOK /\ handler \in {"none", "status", "count"}
  BY DEF GpuTypeOK, FlagsTypeOK
\* A cycle whose load does not clear the latch, and which keeps the flags.
<1>1. ASSUME GpuEdge(FALSE, FALSE), prog.at \in {"return", "wait", "time"},
             UNCHANGED <<handler, done_flag>>
      PROVE  PendingFromLaunch'
  BY <1>1 DEF GpuEdge, LatchEdge
<1>2. CASE gpu_load_kernel
  BY <1>2 DEF gpu_load_kernel
<1>3. CASE gpu_load_word
  <2>1. prog'.at = "load"
    BY <1>0, <1>3 DEF gpu_load_word, ProgTypeOK, Where, Busy
  <2> QED
    BY <2>1
<1>4. CASE gpu_run_wait_irq
  BY <1>0, <1>4, ProgramMoves DEF gpu_run_wait_irq, Stages, Waiting
<1>5. CASE gpu_run_enable
  BY <1>0, <1>5, ProgramMoves DEF gpu_run_enable, Stages, Waiting
<1>6. CASE gpu_write_word
  <2>1. Cycle("load", "launch")
    BY <1>6 DEF gpu_write_word
  <2>2. prog'.at = "launch"
    BY <1>0, <2>1, ProgramMoves DEF Stages
  <2> QED
    BY <2>2
<1>7. CASE gpu_launch
  BY <1>7 DEF gpu_launch, GpuEdge
<1>8. CASE gpu_launch_return
  BY <1>1, <1>8 DEF gpu_launch_return, Cycle, flags
<1>9. CASE gpu_wait
  <2>1. GpuEdge(FALSE, FALSE)
    BY <1>9 DEF gpu_wait, GpuEdge, LatchEdge
  <2> QED
    BY <1>1, <1>9, <2>1 DEF gpu_wait, Cycle, flags
<1>10. CASE gpu_wait_time
  BY <1>1, <1>10 DEF gpu_wait_time, Cycle, flags
<1>11. CASE gpu_wait_idle
  <2>1. prog'.at \in {"poll", "read"}
    BY <1>0, <1>11, ProgramMoves DEF gpu_wait_idle, Stages, Polling
  <2> QED
    BY <2>1
<1>12. CASE gpu_read_word
  BY <1>12 DEF gpu_read_word, Where
<1>13. CASE trap_dispatch_soft
  BY <1>13 DEF trap_dispatch_soft
<1>14. CASE omni_msi_isr
  BY <1>14 DEF omni_msi_isr
<1>15. CASE omni_msi_isr_count
  BY <1>15 DEF omni_msi_isr_count
<1>16. CASE UNCHANGED gpuVars
  BY <1>16 DEF gpuVars, gpuHw, flags
<1> QED
  BY <1>2, <1>3, <1>4, <1>5, <1>6, <1>7, <1>8, <1>9, <1>10, <1>11, <1>12, <1>13, <1>14, <1>15, <1>16
     DEF GpuNext

\* gpu_cmd_proc.v:73, gpu_loader.h:31: while the wait loop's own loads do not look
\* like a read of STATUS, the completion of the awaited kernel reaches it, whatever
\* time-outs, late completions and interrupts came before.
THEOREM CompletionNotLost ==
  ASSUME ~Aliased
  PROVE  GpuSpec => []CompletionPending
<1>1. GpuInit => PendingFromLaunch
  BY DEF GpuInit, PendingFromLaunch, Where
<1>2. PendingFromLaunch => CompletionPending
  BY DEF PendingFromLaunch, CompletionPending
<1> QED
  BY <1>1, <1>2, PendingStep, GpuTypeCorrect, PTL DEF GpuSpec


-----------------------------------------------------------------------------
(* The wait sees the end of its own kernel.                                *)

\* Nothing is left of an earlier kernel, and none runs.
AtRest == /\ ~launch_pending /\ ~active /\ ~was_busy /\ ~gpu_done_latch
         /\ handler = "none"

\* The completion of the one launch is in one place at a time.
OneCompletion ==
  /\ ~launch_pending
  /\ done_flag => AtRest /\ irq_count = 1 /\ irq_ran
  /\ ~done_flag => irq_count = 0
  /\ active \/ was_busy => ~gpu_done_latch /\ handler = "none"
  /\ handler = "count" => ~gpu_done_latch

\* Without a time-out a run begins and ends with clean hardware.
OwnRun ==
  /\ prog.at # "gaveup"
  /\ prog.at \in {"idle", "load", "enable", "launch", "done", "read"} => AtRest
  /\ prog.at = "return" =>
       launch_pending /\ ~active /\ ~was_busy /\ ~gpu_done_latch /\ handler = "none"
  /\ prog.at \in {"enable", "launch", "return"} /\ ~prog.poll => ~done_flag /\ irq_count = 0
  /\ prog.at \in {"wait", "time"} => OneCompletion
  /\ prog.at = "poll" => ~launch_pending
  /\ prog.at = "done" => irq_count = 1 /\ irq_ran

\* What a cycle without a launch makes of clean hardware, and of a kernel under way.
LEMMA EdgeKeeps ==
  ASSUME NEW clear \in BOOLEAN, GpuEdge(clear, FALSE), handler \in {"none", "status", "count"},
         UNCHANGED <<handler, flags>>
  PROVE  /\ AtRest => AtRest'
         /\ GpuTypeOK /\ OneCompletion /\ handler = "none" => OneCompletion'
BY DEF GpuEdge, LatchEdge, AtRest, OneCompletion, flags, GpuTypeOK

LEMMA OwnRunStep ==
  GpuTypeOK /\ (timeouts = 0 => OwnRun) /\ [GpuNext]_gpuVars => (timeouts = 0 => OwnRun)'
<1> SUFFICES ASSUME GpuTypeOK, timeouts = 0 => OwnRun, [GpuNext]_gpuVars, timeouts' = 0
             PROVE  OwnRun'
  OBVIOUS
<1>0. /\ timeouts = 0 /\ OwnRun /\ ProgTypeOK /\ handler \in {"none", "status", "count"}
  <2>1. timeouts \in Nat /\ (timeouts' = timeouts \/ timeouts' = timeouts + 1)
    BY DEF GpuNext, gpu_load_kernel, gpu_load_word, gpu_run_wait_irq, gpu_run_enable,
           gpu_write_word, gpu_launch, gpu_launch_return, gpu_wait, gpu_wait_time,
           gpu_wait_idle, gpu_read_word, trap_dispatch_soft, omni_msi_isr,
           omni_msi_isr_count, gpuVars, GpuTypeOK, FlagsTypeOK
  <2> QED
    BY <2>1 DEF GpuTypeOK, FlagsTypeOK
\* Nothing is interrupted while the hardware is clean.
<1>1. AtRest => ~Interrupted
  BY DEF AtRest, Interrupted, gpu_done
<1>2. CASE gpu_load_kernel
  <2>1. prog.at = "idle" /\ GpuEdge(FALSE, FALSE) /\ UNCHANGED <<handler, flags>>
    BY <1>2 DEF gpu_load_kernel
  <2>2. AtRest
    BY <1>0, <2>1 DEF OwnRun
  <2>3. prog'.at = "load"
    <3>1. PICK kern \in Kernels, poll \in BOOLEAN :
            prog' = [at |-> "load", kernel |-> kern, i |-> 0, poll |-> poll]
      BY <1>2 DEF gpu_load_kernel
    <3> QED
      BY <3>1
  <2> QED
    BY <1>0, <2>1, <2>2, <2>3, EdgeKeeps DEF OwnRun
<1>3. CASE gpu_load_word
  <2>1. prog.at = "load" /\ AtRest /\ GpuEdge(FALSE, FALSE) /\ UNCHANGED <<handler, flags>>
    BY <1>0, <1>3 DEF gpu_load_word, OwnRun
  <2>2. prog'.at = "load"
    BY <1>0, <1>3 DEF gpu_load_word, ProgTypeOK, Where, Busy
  <2> QED
    BY <1>0, <2>1, <2>2, EdgeKeeps DEF OwnRun
<1>4. CASE gpu_run_wait_irq
  <2>1. prog.at = "load" /\ AtRest /\ GpuEdge(FALSE, FALSE) /\ UNCHANGED handler /\ ~done_flag' /\ irq_count' = 0
    BY <1>0, <1>4 DEF gpu_run_wait_irq, OwnRun, Cycle
  <2>2. prog'.at = "enable"
    BY <1>0, <1>4, ProgramMoves DEF gpu_run_wait_irq, Stages, Waiting
  <2> QED
    BY <2>1, <2>2 DEF OwnRun, GpuEdge, LatchEdge, AtRest
<1>5. CASE gpu_run_enable
  <2>1. prog.at = "enable" /\ AtRest /\ GpuEdge(FALSE, FALSE) /\ UNCHANGED <<handler, flags>>
    BY <1>0, <1>5 DEF gpu_run_enable, OwnRun, Cycle
  <2>2. prog'.at = "launch" /\ prog'.poll = prog.poll
    BY <1>0, <1>5, ProgramMoves DEF gpu_run_enable, Stages, Waiting
  <2> QED
    BY <1>0, <2>1, <2>2, EdgeKeeps DEF OwnRun, flags
<1>6. CASE gpu_write_word
  <2>1. prog.at = "load" /\ prog.poll /\ AtRest /\ GpuEdge(FALSE, FALSE) /\ UNCHANGED <<handler, flags>>
    BY <1>0, <1>6 DEF gpu_write_word, OwnRun, Cycle
  <2>2. Cycle("load", "launch")
    BY <1>6 DEF gpu_write_word
  <2>3. prog'.at = "launch" /\ prog'.poll = prog.poll
    BY <1>0, <2>2, ProgramMoves DEF Stages
  <2> QED
    BY <1>0, <2>1, <2>3, EdgeKeeps DEF OwnRun
<1>7. CASE gpu_launch
  <2>1. prog.at = "launch" /\ AtRest /\ GpuEdge(FALSE, TRUE) /\ UNCHANGED <<handler, flags>>
    BY <1>0, <1>7 DEF gpu_launch, OwnRun, Cycle
  <2>2. prog'.at = "return" /\ prog'.poll = prog.poll
    BY <1>0, <1>7, ProgramMoves DEF gpu_launch, Stages
  <2> QED
    BY <1>0, <2>1, <2>2 DEF OwnRun, GpuEdge, LatchEdge, AtRest, flags
<1>8. CASE gpu_launch_return
  <2>1. prog.at = "return" /\ GpuEdge(FALSE, FALSE) /\ UNCHANGED <<handler, flags>>
    BY <1>0, <1>8 DEF gpu_launch_return, Cycle
  <2>2. /\ prog'.at = IF prog.poll THEN "poll" ELSE "wait"
        /\ prog'.poll = prog.poll
    BY <1>0, <1>8, ProgramMoves DEF gpu_launch_return, Stages, Polling, Waiting
  <2> QED
    BY <1>0, <2>1, <2>2 DEF OwnRun, OneCompletion, GpuEdge, LatchEdge, flags
<1>9. CASE gpu_wait
  <2>1. /\ prog.at = "wait" /\ OneCompletion /\ handler = "none" /\ GpuEdge(Aliased, FALSE)
        /\ UNCHANGED <<handler, flags>>
    BY <1>0, <1>9 DEF gpu_wait, OwnRun, Cycle
  <2>2. prog'.at = IF done_flag THEN "done" ELSE "time"
    BY <1>0, <1>9, ProgramMoves DEF gpu_wait, Stages, Waiting
  <2>3. OneCompletion' /\ (AtRest => AtRest')
    BY <1>0, <2>1, EdgeKeeps, CompletionAssumption
  <2> QED
    BY <2>1, <2>2, <2>3 DEF OwnRun, OneCompletion, flags
<1>10. CASE gpu_wait_time
  <2>0. /\ Cycle("time", "wait") /\ GpuEdge(FALSE, FALSE) /\ UNCHANGED flags
    <3>1. timeouts' # timeouts + 1
      BY <1>0
    <3> QED
      BY <1>10, <3>1 DEF gpu_wait_time
  <2>1. /\ prog.at = "time" /\ OneCompletion /\ handler = "none" /\ GpuEdge(FALSE, FALSE)
        /\ UNCHANGED <<handler, flags>>
    BY <1>0, <2>0 DEF OwnRun, Cycle
  <2>2. prog'.at = "wait"
    BY <1>0, <2>0, ProgramMoves DEF Stages, Waiting
  <2> QED
    BY <1>0, <2>1, <2>2, EdgeKeeps DEF OwnRun
<1>11. CASE gpu_wait_idle
  <2>1. /\ prog.at = "poll" /\ ~launch_pending /\ handler = "none" /\ GpuEdge(TRUE, FALSE)
        /\ UNCHANGED <<handler, flags>>
    BY <1>0, <1>11 DEF gpu_wait_idle, OwnRun, Cycle
  <2>2. prog'.at = IF active THEN "poll" ELSE "read"
    BY <1>0, <1>11, ProgramMoves DEF gpu_wait_idle, Stages, Polling
  <2> QED
    BY <2>1, <2>2 DEF OwnRun, GpuEdge, LatchEdge, AtRest
<1>12. CASE gpu_read_word
  <2>1. /\ prog.at \in {"done", "read"} /\ AtRest /\ GpuEdge(FALSE, FALSE) /\ prog'.at = "idle"
        /\ UNCHANGED <<handler, flags>>
    BY <1>0, <1>12 DEF gpu_read_word, OwnRun, Where
  <2> QED
    BY <1>0, <2>1, EdgeKeeps DEF OwnRun
<1>13. CASE trap_dispatch_soft
  <2>1. prog.at \in {"wait", "time", "poll"}
    BY <1>0, <1>1, <1>13 DEF trap_dispatch_soft, OwnRun, ProgTypeOK, Where, Busy, Stages, Polling, Waiting,
                              Interrupted, gpu_done
  <2>2. gpu_done_latch /\ handler' = "status" /\ GpuEdge(FALSE, FALSE) /\ UNCHANGED <<prog, flags>>
    BY <1>13 DEF trap_dispatch_soft, Interrupted, gpu_done
  <2> QED
    BY <1>0, <2>1, <2>2 DEF OwnRun, OneCompletion, GpuEdge, LatchEdge, AtRest, flags, GpuTypeOK
<1>14. CASE omni_msi_isr
  <2>1. handler = "status" /\ handler' = "count" /\ GpuEdge(TRUE, FALSE) /\ UNCHANGED <<prog, flags>>
    BY <1>14 DEF omni_msi_isr
  <2>2. prog.at \in {"wait", "time", "poll"}
    BY <1>0, <2>1 DEF OwnRun, AtRest, ProgTypeOK, Where, Busy, Stages, Polling, Waiting
  <2> QED
    BY <1>0, <2>1, <2>2 DEF OwnRun, OneCompletion, GpuEdge, LatchEdge, AtRest, flags, GpuTypeOK
<1>15. CASE omni_msi_isr_count
  <2>1. /\ handler = "count" /\ handler' = "none" /\ GpuEdge(FALSE, FALSE) /\ UNCHANGED prog
        /\ irq_count' = irq_count + 1 /\ irq_ran' /\ done_flag'
    BY <1>15 DEF omni_msi_isr_count
  <2>2. prog.at \in {"wait", "time", "poll"}
    BY <1>0, <2>1 DEF OwnRun, AtRest, ProgTypeOK, Where, Busy, Stages, Polling, Waiting
  <2>3. CASE prog.at = "poll"
    BY <1>0, <2>1, <2>3 DEF OwnRun, GpuEdge
  <2>4. CASE prog.at \in {"wait", "time"}
    <3>1. /\ ~launch_pending /\ ~active /\ ~was_busy /\ ~gpu_done_latch /\ irq_count = 0
      BY <1>0, <2>1, <2>4 DEF OwnRun, OneCompletion, AtRest
    <3>2. AtRest'
      BY <2>1, <3>1 DEF AtRest, GpuEdge, LatchEdge
    <3>4. irq_count' = 1
      BY <2>1, <3>1
    <3>3. OneCompletion'
      BY <2>1, <3>2, <3>4 DEF OneCompletion, AtRest
    <3> QED
      BY <2>1, <2>4, <3>3 DEF OwnRun
  <2> QED
    BY <2>2, <2>3, <2>4
<1>16. CASE UNCHANGED gpuVars
  BY <1>0, <1>16 DEF gpuVars, gpuHw, flags, OwnRun, OneCompletion, AtRest
<1> QED
  BY <1>2, <1>3, <1>4, <1>5, <1>6, <1>7, <1>8, <1>9, <1>10, <1>11, <1>12, <1>13, <1>14, <1>15, <1>16
     DEF GpuNext

LEMMA OwnRunHolds == GpuSpec => [](timeouts = 0 => OwnRun)
<1>1. GpuInit => (timeouts = 0 => OwnRun)
  BY DEF GpuInit, OwnRun, AtRest, Where
<1> QED
  BY <1>1, OwnRunStep, GpuTypeCorrect, PTL DEF GpuSpec

\* gpu_loader.h:30-35, gpu.c:11-14: for every mix of waiting and polling runs, with
\* the interrupts of one still enabled in the next: a wait returns for the one completion
\* of its own kernel, a poll ends behind its own.
THEOREM OwnEndSeen == GpuSpec => []SeesOwnEnd
<1>1. (timeouts = 0 => OwnRun) => SeesOwnEnd
  BY DEF OwnRun, AtRest, SeesOwnEnd, Ended
<1> QED
  BY <1>1, OwnRunHolds, PTL

-----------------------------------------------------------------------------
(* A kernel runs from its own image.                                       *)

Loaded(words, n) == \A j \in 1..n : imem[j - 1] = words[j]

\* The pointer follows the words pushed, and the image stays until the next one.
ImageOK ==
  /\ prog.at = "load" =>
       /\ prog.i <= Len(prog.kernel) /\ Loaded(prog.kernel, prog.i)
       /\ prog.i < Len(prog.kernel) => imem_addr = prog.i
  /\ prog.at \in {"enable", "launch"} => Loaded(prog.kernel, Len(prog.kernel))
  /\ prog.at \in {"return", "wait", "time", "poll"} => Loaded(running, Len(running))

LEMMA ImageStep == GpuTypeOK /\ ImageOK /\ [GpuNext]_gpuVars => ImageOK'
<1> SUFFICES ASSUME GpuTypeOK, ImageOK, [GpuNext]_gpuVars PROVE ImageOK'
  OBVIOUS
<1>0. ProgTypeOK
  BY DEF GpuTypeOK
<1>1. CASE gpu_load_kernel
  <2>1. PICK kern \in Kernels, poll \in BOOLEAN :
          prog' = [at |-> "load", kernel |-> kern, i |-> 0, poll |-> poll]
    BY <1>1 DEF gpu_load_kernel
  <2>2. imem_addr' = 0 /\ Len(kern) \in 1..ImemWords /\ ImemWords \in Nat
    BY <1>1, CompletionAssumption DEF gpu_load_kernel
  <2>3. prog'.at = "load" /\ prog'.i = 0 /\ prog'.kernel = kern
    BY <2>1
  <2> QED
    BY <2>2, <2>3 DEF ImageOK, Loaded
<1>2. CASE gpu_load_word
  <2>1. /\ prog \in Busy /\ prog.at = "load" /\ prog.i < Len(prog.kernel)
        /\ prog' = [prog EXCEPT !.i = @ + 1]
    BY <1>0, <1>2 DEF gpu_load_word, ProgTypeOK, Where
  <2>2. prog'.at = "load" /\ prog'.kernel = prog.kernel /\ prog'.i = prog.i + 1
    BY <2>1 DEF Busy
  <2>3. /\ Len(prog.kernel) \in 1..ImemWords /\ prog.i \in Nat /\ ImemWords \in Nat
        /\ imem_addr = prog.i /\ Loaded(prog.kernel, prog.i)
    BY <2>1, CompletionAssumption DEF Busy, ImageOK
  <2>4. /\ imem' = [imem EXCEPT ![imem_addr] = prog.kernel[prog.i + 1]]
        /\ imem_addr' = (imem_addr + 1) % ImemWords /\ DOMAIN imem = 0..(ImemWords - 1)
    BY <1>2 DEF gpu_load_word, GpuTypeOK
  <2>5. ASSUME NEW j \in 1..(prog.i + 1) PROVE imem'[j - 1] = prog.kernel[j]
    <3>1. CASE j = prog.i + 1
      BY <2>1, <2>3, <2>4, <3>1
    <3>2. CASE j # prog.i + 1
      <4>1. j - 1 \in 0..(ImemWords - 1) /\ j - 1 # imem_addr /\ imem[j - 1] = prog.kernel[j]
        BY <2>1, <2>3, <3>2 DEF Loaded
      <4> QED
        BY <2>4, <4>1
    <3> QED
      BY <3>1, <3>2
  <2>6. prog.i + 1 < Len(prog.kernel) => imem_addr' = prog.i + 1
    <3> SUFFICES ASSUME prog.i + 1 < Len(prog.kernel) PROVE imem_addr' = prog.i + 1
      OBVIOUS
    <3>1. (prog.i + 1) % ImemWords = prog.i + 1
      <4> DEFINE n == prog.i + 1
      <4>1. n \in Nat /\ n < ImemWords /\ ImemWords \in Nat
        BY <2>3
      <4> HIDE DEF n
      <4>2. n % ImemWords = n
        BY <4>1
      <4> QED
        BY <4>2 DEF n
    <3> QED
      BY <2>3, <2>4, <3>1
  <2>7. Loaded(prog.kernel, prog.i)'
    BY <2>2, <2>5 DEF Loaded
  <2>8. prog'.i <= Len(prog'.kernel)
    BY <2>1, <2>2, <2>3
  <2> QED
    BY <2>2, <2>6, <2>7, <2>8 DEF ImageOK
<1>3. CASE gpu_launch
  <2>1. /\ prog.at = "launch" /\ prog'.at = "return" /\ running' = prog.kernel /\ UNCHANGED imem
    BY <1>0, <1>3, ProgramMoves DEF gpu_launch, Stages, load
  <2> QED
    BY <2>1 DEF ImageOK, Loaded
<1>4. CASE gpu_read_word
  BY <1>4 DEF gpu_read_word, Where, ImageOK
<1>5. ASSUME UNCHANGED <<load, running>>, NEW from \in Stages, NEW to \in Stages, Cycle(from, to),
             from = "load" => prog.i = Len(prog.kernel) /\ to \in {"enable", "launch"},
             from # "load" => to # "load",
             to \in {"enable", "launch"} => from \in {"load", "enable"},
             to \in {"return", "wait", "time", "poll"} => from \in {"return", "wait", "time", "poll"}
      PROVE  ImageOK'
  <2>1. prog.at = from /\ prog'.at = to /\ prog'.kernel = prog.kernel /\ prog'.i = prog.i
    BY <1>0, <1>5, ProgramMoves
  <2> QED
    BY <1>5, <2>1 DEF ImageOK, Loaded, load
<1> USE DEF Stages, Polling, Waiting
<1>6. CASE gpu_run_wait_irq
  BY <1>5, <1>6 DEF gpu_run_wait_irq
<1>7. CASE gpu_run_enable
  BY <1>5, <1>7 DEF gpu_run_enable
<1>8. CASE gpu_write_word
  BY <1>5, <1>8 DEF gpu_write_word
<1>9. CASE gpu_launch_return
  BY <1>5, <1>9 DEF gpu_launch_return
<1>10. CASE gpu_wait
  BY <1>5, <1>10 DEF gpu_wait
<1>11. CASE gpu_wait_time
  <2>1. PICK to \in {"wait", "gaveup"} : Cycle("time", to)
    BY <1>11 DEF gpu_wait_time
  <2>2. UNCHANGED <<load, running>>
    BY <1>11 DEF gpu_wait_time
  <2> QED
    BY <1>5, <2>1, <2>2
<1>12. CASE gpu_wait_idle
  BY <1>5, <1>12 DEF gpu_wait_idle
<1>13. CASE UNCHANGED <<load, prog, running>>
  BY <1>13 DEF ImageOK, Loaded, load
<1> QED
  BY <1>1, <1>2, <1>3, <1>4, <1>6, <1>7, <1>8, <1>9, <1>10, <1>11, <1>12, <1>13
     DEF GpuNext, gpuVars, trap_dispatch_soft, omni_msi_isr, omni_msi_isr_count

\* gpu_loader.h:8-11: for every sequence of kernels, a kernel runs from its own image
\* until it is over, if none was given up before.
THEOREM KernelImage == GpuSpec => []RunsItsKernel
<1>1. GpuInit => ImageOK
  BY DEF GpuInit, ImageOK, Where
<1>2. GpuTypeOK /\ ImageOK /\ (timeouts = 0 => OwnRun) => RunsItsKernel
  <2> SUFFICES ASSUME GpuTypeOK, ImageOK, OwnRun, active
               PROVE  Loaded(running, Len(running))
    BY DEF RunsItsKernel, Loaded
  <2>1. prog.at \in {"wait", "time", "poll"}
    BY DEF OwnRun, AtRest, GpuTypeOK, ProgTypeOK, Where, Busy, Stages, Polling, Waiting
  <2> QED
    BY <2>1 DEF ImageOK
<1> QED
  BY <1>1, <1>2, ImageStep, OwnRunHolds, GpuTypeCorrect, PTL DEF GpuSpec

-----------------------------------------------------------------------------
(* Sequences and least elements.                                           *)

\* RemoveFirst takes away one element and leaves the others.
LEMMA Removed ==
  ASSUME NEW T, NEW s \in Seq(T), NEW e
  PROVE  /\ RemoveFirst(s, e) \in Seq(T)
         /\ \A i \in DOMAIN s :
              s[i] # e => \E j \in DOMAIN RemoveFirst(s, e) : RemoveFirst(s, e)[j] = s[i]
<1>1. CASE ~ \E i \in 1..Len(s) : s[i] = e
  BY <1>1 DEF RemoveFirst
<1>2. CASE \E i \in 1..Len(s) : s[i] = e
  <2> DEFINE I == {i \in 1..Len(s) : s[i] = e}
  <2>1. PICK m \in I : m = SelectInSeq(s, LAMBDA v : v = e)
    <3>1. \E x \in I : \A y \in I : x <= y
      <4>1. I \in SUBSET Nat /\ I # {}
        BY <1>2
      <4> HIDE DEF I
      <4> QED
        BY <4>1, Least
    <3>2. SelectInSeq(s, LAMBDA v : v = e) = CHOOSE x \in I : \A y \in I : x <= y
      BY <1>2 DEF SelectInSeq, Min
    <3> QED
      BY <3>1, <3>2
  <2>2. m \in 1..Len(s) /\ s[m] = e
    OBVIOUS
  <2>3. RemoveFirst(s, e) = SubSeq(s, 1, m - 1) \o SubSeq(s, m + 1, Len(s))
    BY <1>2, <2>1 DEF RemoveFirst, RemoveAt
  <2> HIDE DEF I
  <2> DEFINE a == SubSeq(s, 1, m - 1)
             b == SubSeq(s, m + 1, Len(s))
  <2>4. /\ a \in Seq(T) /\ Len(a) = m - 1 /\ \A i \in 1..(m - 1) : a[i] = s[i]
        /\ b \in Seq(T) /\ Len(b) = Len(s) - m /\ \A i \in 1..(Len(s) - m) : b[i] = s[m + i]
    <3>1. Len(s) \in Nat /\ m \in Nat /\ 1 <= m /\ m <= Len(s)
      BY <2>2
    <3>2. /\ a \in Seq(T) /\ Len(a) = m - 1 /\ \A i \in 1..(m - 1) : a[i] = s[i]
      BY <3>1
    <3>3. /\ b \in Seq(T) /\ Len(b) = Len(s) - m /\ \A i \in 1..(Len(s) - m) : b[i] = s[m + i]
      BY <3>1
    <3> QED
      BY <3>2, <3>3
  <2>5. RemoveFirst(s, e) = a \o b
    BY <2>3
  <2> HIDE DEF a, b
  <2>6. a \o b \in Seq(T) /\ Len(a \o b) = Len(s) - 1
    <3>1. a \o b \in Seq(T) /\ Len(a \o b) = Len(a) + Len(b)
      BY <2>4, ConcatProperties
    <3> QED
      BY <2>2, <2>4, <3>1
  <2>7. ASSUME NEW i \in DOMAIN s, s[i] # e
        PROVE  \E j \in DOMAIN (a \o b) : (a \o b)[j] = s[i]
    <3>1. i # m /\ i \in 1..Len(s) /\ m \in 1..Len(s)
      BY <2>2, <2>7
    <3>2. CASE i < m
      <4>1. i \in 1..Len(a) /\ (a \o b)[i] = s[i]
        BY <2>4, <2>7, <3>1, <3>2
      <4> QED
        BY <2>4, <2>6, <3>1, <3>2, <4>1
    <3>3. CASE i > m
      <4>1. i - 1 \in 1..(Len(s) - 1) /\ i - m \in 1..Len(b) /\ i - 1 = Len(a) + (i - m)
        BY <2>4, <3>1, <3>3
      <4>2. b[i - m] = s[i]
        <5>1. b[i - m] = s[m + (i - m)]
          BY <2>4, <4>1
        <5>2. m + (i - m) = i
          BY <3>1
        <5> QED
          BY <5>1, <5>2, Zenon
      <4>3. (a \o b)[i - 1] = b[i - m]
        BY <2>4, <4>1, ConcatProperties
      <4> QED
        BY <2>6, <2>7, <4>1, <4>2, <4>3
    <3> QED
      BY <3>1, <3>2, <3>3
  <2> QED
    BY <2>5, <2>6, <2>7
<1> QED
  BY <1>1, <1>2

\* SetToSeq lists the elements of a finite set.
LEMMA Listed ==
  ASSUME NEW S, IsFiniteSet(S)
  PROVE  SetToSeq(S) \in Seq(S) /\ \A x \in S : \E i \in DOMAIN SetToSeq(S) : SetToSeq(S)[i] = x
<1> DEFINE n == Cardinality(S)
<1>1. n \in Nat /\ ExistsBijection(1..n, S)
  BY FS_CardinalityType
<1>2. \E f \in [1..n -> S] : IsInjective(f)
  BY <1>1 DEF ExistsBijection, Bijection, Injection
<1>3. PICK f \in [1..n -> S] : f = SetToSeq(S) /\ IsInjective(f)
  BY <1>2 DEF SetToSeq
<1>4. f \in Injection(1..n, S)
  BY <1>3 DEF Injection
<1>5. Cardinality(1..n) = n
  BY <1>1, FS_Interval
<1>6. f \in Surjection(1..n, S)
  BY <1>1, <1>4, <1>5, FS_Injection
<1>7. f \in Seq(S)
  BY <1>1, <1>3, IsASeq
<1> QED
  BY <1>3, <1>6, <1>7 DEF Surjection


-----------------------------------------------------------------------------
(* The kernel while only the tasks of T were created.                      *)

What     == {"nothing", "sem", "items", "space"}
Sleep0(T) == {f \in [Tasks -> Nat] : \A t \in Tasks \ T : f[t] = 0}
Waits0(T) == {f \in [Tasks -> What] : \A t \in Tasks \ T : f[t] = "nothing"}
KernelOf(T) == [ready : Seq(T), sleep : Sleep0(T), waits : Waits0(T), sem : BOOLEAN, queue : Seq(Nat)]

\* What a call leaves a task that it is not about: ready if it was, or asleep or waiting
\* as it was, or woken.
Stays(q, r, t) ==
  /\ IsReady(q, t) => IsReady(r, t)
  /\ q.sleep[t] > 0 => IsReady(r, t) \/ r.sleep[t] > 0
  /\ q.waits[t] # "nothing" => IsReady(r, t) \/ r.waits[t] = q.waits[t]

LEMMA TaskFacts ==
  /\ Tasks = {"A", "B", "CONS", "PROD", "WAIT", "TRIG", "M", "LAT", "YA", "YB", "console"}
  /\ \A t \in Tasks : Prio[t] \in {1, 2, 3}
  /\ Prio["A"] = 2 /\ Prio["B"] = 1 /\ Prio["WAIT"] = 2 /\ Prio["TRIG"] = 1
<1>1. Tasks = {"A", "B", "CONS", "PROD", "WAIT", "TRIG", "M", "LAT", "YA", "YB", "console"}
  BY DEF Tasks, Prio
<1>2. Prio["A"] = 2 /\ Prio["B"] = 1 /\ Prio["WAIT"] = 2 /\ Prio["TRIG"] = 1
  BY DEF Prio
<1>3. /\ Prio["CONS"] = 2 /\ Prio["PROD"] = 1 /\ Prio["M"] = 3 /\ Prio["LAT"] = 1
      /\ Prio["YA"] = 2 /\ Prio["YB"] = 2 /\ Prio["console"] = 2
  BY DEF Prio
<1> QED
  BY <1>1, <1>2, <1>3

LEMMA TasksFinite == IsFiniteSet(Tasks)
<1> DEFINE S1 == {"A"}  S2 == S1 \cup {"B"}  S3 == S2 \cup {"CONS"}  S4 == S3 \cup {"PROD"}
           S5 == S4 \cup {"WAIT"}  S6 == S5 \cup {"TRIG"}  S7 == S6 \cup {"M"}
           S8 == S7 \cup {"LAT"}  S9 == S8 \cup {"YA"}  S10 == S9 \cup {"YB"}
           S11 == S10 \cup {"console"}
<1>1. IsFiniteSet(S1)
  BY FS_Singleton
<1>2. IsFiniteSet(S4)
  BY <1>1, FS_AddElement
<1>3. IsFiniteSet(S8)
  <2> HIDE DEF S4
  <2> QED
    BY <1>2, FS_AddElement
<1>4. IsFiniteSet(S11)
  <2> HIDE DEF S8
  <2> QED
    BY <1>3, FS_AddElement
<1>5. Tasks = S11
  BY TaskFacts
<1> QED
  BY <1>4, <1>5

\* A task of the highest priority runs, if any is ready.
LEMMA Runs ==
  ASSUME NEW T \in SUBSET Tasks, NEW q \in KernelOf(T)
  PROVE  /\ RunningTask(q) \in T \cup {"idle"}
         /\ RunningTask(q) # "idle" => IsReady(q, RunningTask(q))
         /\ \A t \in T : IsReady(q, t) => /\ RunningTask(q) \in T
                                          /\ Prio[t] <= Prio[RunningTask(q)]
<1> DEFINE best == {i \in DOMAIN q.ready : \A j \in DOMAIN q.ready : Prio[q.ready[j]] <= Prio[q.ready[i]]}
           p    == [i \in DOMAIN q.ready |-> Prio[q.ready[i]]]
<1>1. q.ready \in Seq(T)
  BY DEF KernelOf
<1>2. \A i \in DOMAIN q.ready : q.ready[i] \in T /\ p[i] = Prio[q.ready[i]] /\ p[i] \in {1, 2, 3}
  BY <1>1, TaskFacts
<1>3. CASE q.ready = << >>
  BY <1>3 DEF RunningTask, IsReady
<1>4. CASE q.ready # << >>
  <2>1. best # {}
    <3>1. PICK i \in DOMAIN q.ready : TRUE
      <4>1. Len(q.ready) # 0 /\ Len(q.ready) \in Nat /\ DOMAIN q.ready = 1..Len(q.ready)
        BY <1>1, <1>4, EmptySeq, LenProperties
      <4>2. 1 \in DOMAIN q.ready
        BY <4>1
      <4> QED
        BY <4>2
    <3> HIDE DEF p
    <3>2. \E n \in DOMAIN q.ready : \A j \in DOMAIN q.ready : p[j] <= p[n]
      BY <1>2, <3>1
    <3> QED
      BY <1>2, <3>2
  <2>2. best \in SUBSET Nat
    BY <1>1
  <2>3. \A i \in best : i \in DOMAIN q.ready /\ \A j \in DOMAIN q.ready : Prio[q.ready[j]] <= Prio[q.ready[i]]
    OBVIOUS
  <2>4. RunningTask(q) = q.ready[CHOOSE i \in best : \A j \in best : i <= j]
    BY <1>4 DEF RunningTask
  <2> HIDE DEF best
  <2>5. PICK m \in best : RunningTask(q) = q.ready[m]
    BY <2>1, <2>2, <2>4, Least
  <2>6. RunningTask(q) \in T /\ IsReady(q, RunningTask(q))
    BY <1>2, <2>3, <2>5 DEF IsReady
  <2>7. ASSUME NEW t \in T, IsReady(q, t) PROVE Prio[t] <= Prio[RunningTask(q)]
    BY <2>3, <2>5, <2>7 DEF IsReady
  <2> QED
    BY <2>6, <2>7
<1> QED
  BY <1>3, <1>4

\* MakeReady readies tasks and takes none away.
LEMMA Readied ==
  ASSUME NEW T \in SUBSET Tasks, NEW q \in KernelOf(T), NEW ts \in SUBSET T
  PROVE  LET r == MakeReady(q, ts)
         IN  /\ r \in KernelOf(T) /\ r.sem = q.sem /\ r.queue = q.queue
             /\ \A t \in ts : IsReady(r, t)
             /\ \A t \in T : Stays(q, r, t)
<1> DEFINE new   == SetToSeq({t \in ts : ~IsReady(q, t)})
           sleep == [t \in Tasks |-> IF t \in ts THEN 0 ELSE q.sleep[t]]
           waits == [t \in Tasks |-> IF t \in ts THEN "nothing" ELSE q.waits[t]]
<1>1. IsFiniteSet({t \in ts : ~IsReady(q, t)})
  BY TasksFinite, FS_Subset
<1>2. /\ new \in Seq(T)
      /\ \A x \in ts : ~IsReady(q, x) => \E i \in DOMAIN new : new[i] = x
  <2>1. new \in Seq({t \in ts : ~IsReady(q, t)})
    BY <1>1, Listed
  <2>2. \A x \in {t \in ts : ~IsReady(q, t)} : \E i \in DOMAIN new : new[i] = x
    BY <1>1, Listed
  <2>3. {t \in ts : ~IsReady(q, t)} \subseteq T
    OBVIOUS
  <2> QED
    BY <2>1, <2>2, <2>3, SeqMonotonic
<1>3. q.ready \in Seq(T) /\ q.sleep \in Sleep0(T) /\ q.waits \in Waits0(T)
  BY DEF KernelOf
<1>4. sleep \in Sleep0(T) /\ waits \in Waits0(T)
  BY <1>3 DEF Sleep0, Waits0, What
<1>5. MakeReady(q, ts) = [q EXCEPT !.ready = q.ready \o new, !.sleep = sleep, !.waits = waits]
  BY DEF MakeReady, KernelOf
<1>6. \A t \in Tasks \ ts : waits[t] = q.waits[t] /\ sleep[t] = q.sleep[t]
  OBVIOUS
<1> HIDE DEF new, sleep, waits
<1> DEFINE ready == q.ready \o new
<1>7. ready \in Seq(T)
  BY <1>2, <1>3, ConcatProperties
<1>8. \A t \in T : IsReady(q, t) \/ t \in ts => \E i \in DOMAIN ready : ready[i] = t
  <2>1. ASSUME NEW i \in DOMAIN q.ready PROVE i \in DOMAIN ready /\ ready[i] = q.ready[i]
    BY <1>2, <1>3, ConcatProperties
  <2>2. ASSUME NEW i \in DOMAIN new PROVE Len(q.ready) + i \in DOMAIN ready /\ ready[Len(q.ready) + i] = new[i]
    BY <1>2, <1>3, ConcatProperties
  <2> QED
    BY <1>2, <2>1, <2>2 DEF IsReady
<1> HIDE DEF ready
<1>9. MakeReady(q, ts) = [q EXCEPT !.ready = ready, !.sleep = sleep, !.waits = waits]
  BY <1>5 DEF ready
<1> DEFINE r == MakeReady(q, ts)
<1>10. /\ r \in KernelOf(T) /\ r.ready = ready /\ r.sleep = sleep /\ r.waits = waits
       /\ r.sem = q.sem /\ r.queue = q.queue
  BY <1>4, <1>7, <1>9 DEF KernelOf
<1> HIDE DEF r
<1>11. \A t \in T : IsReady(q, t) \/ t \in ts => IsReady(r, t)
  BY <1>8, <1>10 DEF IsReady
<1>12. \A t \in T : Stays(q, r, t)
  BY <1>6, <1>10, <1>11 DEF Stays
<1>13. \A t \in ts : IsReady(r, t)
  BY <1>11
<1> QED
  BY <1>10, <1>12, <1>13 DEF r

LEMMA Unreadied ==
  ASSUME NEW T \in SUBSET Tasks, NEW q \in KernelOf(T), NEW t \in T
  PROVE  LET r == Unready(q, t)
         IN  /\ r \in KernelOf(T) /\ r.sem = q.sem /\ r.queue = q.queue
             /\ r.waits = q.waits /\ r.sleep = q.sleep
             /\ \A u \in T \ {t} : Stays(q, r, u)
<1> DEFINE ready == RemoveFirst(q.ready, t)
<1>1. q.ready \in Seq(T)
  BY DEF KernelOf
<1>2. /\ ready \in Seq(T)
      /\ \A u \in T \ {t} : IsReady(q, u) => \E i \in DOMAIN ready : ready[i] = u
  <2>1. /\ ready \in Seq(T)
        /\ \A i \in DOMAIN q.ready : q.ready[i] # t => \E j \in DOMAIN ready : ready[j] = q.ready[i]
    BY <1>1, Removed
  <2> HIDE DEF ready
  <2> QED
    BY <2>1 DEF IsReady
<1>3. Unready(q, t) = [q EXCEPT !.ready = ready]
  BY DEF Unready, KernelOf
<1> HIDE DEF ready
<1> DEFINE r == Unready(q, t)
<1>4. /\ r \in KernelOf(T) /\ r.ready = ready /\ r.sem = q.sem /\ r.queue = q.queue
      /\ r.waits = q.waits /\ r.sleep = q.sleep
  BY <1>2, <1>3 DEF KernelOf
<1> HIDE DEF r
<1>5. \A u \in T \ {t} : IsReady(q, u) => IsReady(r, u)
  BY <1>2, <1>4 DEF IsReady
<1>6. \A u \in T \ {t} : Stays(q, r, u)
  BY <1>4, <1>5 DEF Stays
<1> QED
  BY <1>4, <1>6 DEF r

\* The calls of the running task, and the tick.
LEMMA Delays ==
  ASSUME NEW T \in SUBSET Tasks, NEW q \in KernelOf(T), NEW t \in T, NEW n \in Nat
  PROVE  LET r == vTaskDelay(q, t, n)
         IN  /\ r \in KernelOf(T) /\ r.sem = q.sem /\ r.queue = q.queue /\ r.sleep[t] = n
             /\ \A u \in T \ {t} : Stays(q, r, u)
<1> DEFINE u == Unready(q, t)
<1>1. /\ u \in KernelOf(T) /\ u.sem = q.sem /\ u.queue = q.queue
      /\ u.waits = q.waits /\ u.sleep = q.sleep /\ \A v \in T \ {t} : Stays(q, u, v)
  BY Unreadied
<1> HIDE DEF u
<1>2. vTaskDelay(q, t, n) = [u EXCEPT !.sleep[t] = n]
  BY DEF vTaskDelay, u
<1> DEFINE sleep == [u.sleep EXCEPT ![t] = n]
<1>3. sleep \in Sleep0(T) /\ sleep[t] = n /\ \A v \in T \ {t} : sleep[v] = u.sleep[v]
  BY <1>1 DEF KernelOf, Sleep0
<1>4. vTaskDelay(q, t, n) = [u EXCEPT !.sleep = sleep]
  BY <1>1, <1>2 DEF KernelOf
<1> HIDE DEF sleep
<1> DEFINE r == vTaskDelay(q, t, n)
<1>5. /\ r \in KernelOf(T) /\ r.sem = q.sem /\ r.queue = q.queue /\ r.sleep = sleep
      /\ r.waits = u.waits /\ r.ready = u.ready
  BY <1>1, <1>3, <1>4 DEF KernelOf
<1> HIDE DEF r
<1>6. \A v \in T \ {t} : Stays(q, r, v)
  BY <1>1, <1>3, <1>5 DEF Stays, IsReady
<1> QED
  BY <1>3, <1>5, <1>6 DEF r

LEMMA Awaits ==
  ASSUME NEW T \in SUBSET Tasks, NEW q \in KernelOf(T), NEW t \in T, NEW what \in What
  PROVE  LET r == Await(q, t, what, 0)
         IN  /\ r \in KernelOf(T) /\ r.sem = q.sem /\ r.queue = q.queue /\ r.waits[t] = what
             /\ \A u \in T \ {t} : Stays(q, r, u)
<1> DEFINE u == Unready(q, t)
<1>1. /\ u \in KernelOf(T) /\ u.sem = q.sem /\ u.queue = q.queue
      /\ u.waits = q.waits /\ u.sleep = q.sleep /\ \A v \in T \ {t} : Stays(q, u, v)
  BY Unreadied
<1> HIDE DEF u
<1>2. Await(q, t, what, 0) = [u EXCEPT !.waits[t] = what, !.sleep[t] = 0]
  BY DEF Await, u
<1> DEFINE sleep == [u.sleep EXCEPT ![t] = 0]
           waits == [u.waits EXCEPT ![t] = what]
<1>3. /\ sleep \in Sleep0(T) /\ waits \in Waits0(T) /\ waits[t] = what
      /\ \A v \in T \ {t} : sleep[v] = u.sleep[v] /\ waits[v] = u.waits[v]
  BY <1>1 DEF KernelOf, Sleep0, Waits0
<1>4. Await(q, t, what, 0) = [u EXCEPT !.waits = waits, !.sleep = sleep]
  BY <1>1, <1>2 DEF KernelOf
<1> HIDE DEF sleep, waits
<1> DEFINE r == Await(q, t, what, 0)
<1>5. /\ r \in KernelOf(T) /\ r.sem = q.sem /\ r.queue = q.queue /\ r.sleep = sleep
      /\ r.waits = waits /\ r.ready = u.ready
  BY <1>1, <1>3, <1>4 DEF KernelOf
<1> HIDE DEF r
<1>6. \A v \in T \ {t} : Stays(q, r, v)
  BY <1>1, <1>3, <1>5 DEF Stays, IsReady
<1> QED
  BY <1>3, <1>5, <1>6 DEF r

LEMMA Yields ==
  ASSUME NEW T \in SUBSET Tasks, NEW q \in KernelOf(T), NEW t \in T
  PROVE  LET r == taskYIELD(q, t)
         IN  /\ r \in KernelOf(T) /\ r.sem = q.sem /\ r.queue = q.queue /\ IsReady(r, t)
             /\ \A v \in T : Stays(q, r, v)
<1> DEFINE u == Unready(q, t)
<1>1. /\ u \in KernelOf(T) /\ u.sem = q.sem /\ u.queue = q.queue
      /\ u.waits = q.waits /\ u.sleep = q.sleep /\ \A v \in T \ {t} : Stays(q, u, v)
  BY Unreadied
<1> HIDE DEF u
<1>2. taskYIELD(q, t) = [u EXCEPT !.ready = Append(u.ready, t)]
  BY <1>1 DEF taskYIELD, u, KernelOf
<1> DEFINE ready == Append(u.ready, t)
<1>3. /\ ready \in Seq(T)
      /\ \E i \in DOMAIN ready : ready[i] = t
      /\ \A v \in T : IsReady(q, v) => \E i \in DOMAIN ready : ready[i] = v
  <2>1. u.ready \in Seq(T)
    BY <1>1 DEF KernelOf
  <2>2. ready \in Seq(T) /\ Len(ready) = Len(u.ready) + 1 /\ ready[Len(u.ready) + 1] = t
    BY <2>1
  <2>3. ASSUME NEW i \in DOMAIN u.ready PROVE i \in DOMAIN ready /\ ready[i] = u.ready[i]
    BY <2>1
  <2>4. Len(u.ready) + 1 \in DOMAIN ready
    BY <2>1, <2>2
  <2> HIDE DEF ready
  <2>5. ASSUME NEW v \in T, IsReady(q, v) PROVE \E i \in DOMAIN ready : ready[i] = v
    <3>1. CASE v = t
      BY <2>2, <2>4, <3>1
    <3>2. CASE v # t
      BY <1>1, <2>3, <2>5, <3>2 DEF IsReady, Stays
    <3> QED
      BY <3>1, <3>2
  <2> QED
    BY <2>2, <2>4, <2>5
<1>4. taskYIELD(q, t) = [u EXCEPT !.ready = ready]
  BY <1>2
<1> HIDE DEF ready
<1> DEFINE r == taskYIELD(q, t)
<1>5. /\ r \in KernelOf(T) /\ r.sem = q.sem /\ r.queue = q.queue
      /\ r.sleep = q.sleep /\ r.waits = q.waits /\ r.ready = ready
  BY <1>1, <1>3, <1>4 DEF KernelOf
<1> HIDE DEF r
<1>6. IsReady(r, t) /\ \A v \in T : IsReady(q, v) => IsReady(r, v)
  BY <1>3, <1>5 DEF IsReady
<1>7. \A v \in T : Stays(q, r, v)
  BY <1>5, <1>6 DEF Stays
<1> QED
  BY <1>5, <1>6, <1>7 DEF r

LEMMA Ticks ==
  ASSUME NEW T \in SUBSET Tasks, NEW q \in KernelOf(T)
  PROVE  LET r == xTaskIncrementTick(q)
         IN  /\ r \in KernelOf(T) /\ r.sem = q.sem /\ r.queue = q.queue
             /\ \A t \in T : Stays(q, r, t)
<1> DEFINE sleep == [t \in Tasks |-> IF q.sleep[t] > 0 THEN q.sleep[t] - 1 ELSE 0]
           ends  == {t \in Tasks : q.sleep[t] = 1}
<1>1. /\ q.sleep \in Sleep0(T) /\ sleep \in Sleep0(T) /\ ends \in SUBSET T
      /\ \A t \in T : q.sleep[t] > 0 => t \in ends \/ sleep[t] > 0
  BY DEF KernelOf, Sleep0
<1> DEFINE slept == [q EXCEPT !.sleep = sleep]
<1>2. xTaskIncrementTick(q) =
        LET woken == MakeReady(slept, ends)
        IN  IF RunningTask(q) = "idle" THEN woken ELSE taskYIELD(woken, RunningTask(q))
  BY DEF xTaskIncrementTick, KernelOf
<1> HIDE DEF sleep, ends
<1>3. /\ slept \in KernelOf(T) /\ slept.sem = q.sem /\ slept.queue = q.queue
      /\ slept.waits = q.waits /\ slept.ready = q.ready /\ slept.sleep = sleep
  BY <1>1 DEF KernelOf
<1> HIDE DEF slept
<1> DEFINE woken == MakeReady(slept, ends)
<1>4. /\ woken \in KernelOf(T) /\ woken.sem = q.sem /\ woken.queue = q.queue
      /\ (\A t \in ends : IsReady(woken, t)) /\ \A t \in T : Stays(slept, woken, t)
  BY <1>1, <1>3, Readied
<1>5. xTaskIncrementTick(q) = IF RunningTask(q) = "idle" THEN woken ELSE taskYIELD(woken, RunningTask(q))
  BY <1>2
<1> HIDE DEF woken
<1>6. \A t \in T : Stays(q, woken, t)
  BY <1>1, <1>3, <1>4 DEF Stays, IsReady
<1>7. CASE RunningTask(q) = "idle"
  BY <1>4, <1>5, <1>6, <1>7
<1>8. CASE RunningTask(q) # "idle"
  <2> DEFINE r == taskYIELD(woken, RunningTask(q))
  <2>1. /\ r \in KernelOf(T) /\ r.sem = woken.sem /\ r.queue = woken.queue
        /\ \A t \in T : Stays(woken, r, t)
    BY <1>4, <1>8, Runs, Yields
  <2> HIDE DEF r
  <2>2. \A t \in T : Stays(q, r, t)
    BY <1>6, <2>1 DEF Stays
  <2> QED
    BY <1>4, <1>5, <1>8, <2>1, <2>2 DEF r
<1> QED
  BY <1>7, <1>8

\* What an object wakes.
LEMMA Woken ==
  ASSUME NEW T \in SUBSET Tasks, NEW q \in KernelOf(T), NEW what \in What \ {"nothing"}
  PROVE  LET r == Wake(q, what)
         IN  /\ r \in KernelOf(T) /\ r.sem = q.sem /\ r.queue = q.queue
             /\ \A t \in T : Stays(q, r, t) /\ (q.waits[t] = what => IsReady(r, t))
<1> DEFINE ts == {t \in Tasks : q.waits[t] = what}
<1>1. ts \in SUBSET T
  BY DEF KernelOf, Waits0
<1>2. Wake(q, what) = MakeReady(q, ts)
  BY DEF Wake
<1>3. \A t \in T : q.waits[t] = what => t \in ts
  OBVIOUS
<1> HIDE DEF ts
<1> QED
  BY <1>1, <1>2, <1>3, Readied

\* The scheduler starts with the tasks of T ready.
LEMMA SchedulerStarts ==
  ASSUME NEW T \in SUBSET Tasks, NEW ts \in SUBSET T
  PROVE  LET r == StartScheduler(ts)
         IN  /\ r \in KernelOf(T) /\ r.sem = FALSE /\ r.queue = << >>
             /\ \A t \in ts : IsReady(r, t)
<1>1. KernelReset \in KernelOf(T) /\ KernelReset.sem = FALSE /\ KernelReset.queue = << >>
  BY EmptySeq DEF KernelReset, KernelOf, Sleep0, Waits0, What
<1> QED
  BY <1>1, Readied DEF StartScheduler

-----------------------------------------------------------------------------
(* What the four images have in common.                                    *)

SemTasks   == {"WAIT", "TRIG"}
QueueTasks == {"CONS", "PROD"}
PrintTasks == {"A", "B"}
MeterTasks == {"M", "LAT", "YA", "YB"}

LEMMA TaskSets == /\ SemTasks \in SUBSET Tasks /\ QueueTasks \in SUBSET Tasks
                  /\ PrintTasks \in SUBSET Tasks /\ MeterTasks \in SUBSET Tasks
BY TaskFacts DEF SemTasks, QueueTasks, PrintTasks, MeterTasks

LEMMA ImageKept == [RtosNext]_rtosVars => image' = image
BY DEF rtosVars, RtosNext, TaskStep, Tick, freertos_risc_v_application_interrupt_handler,
       vTaskPrint, vTaskLow, vProducer, vConsumer, vWaiterTask, vTriggerTask, vLatTrigTask,
       vYieldA, vYieldB, vMetricsTask, PrintHalf, Sleep, Look, Report, Silent, Prints

\* A task runs only if its image created it.
LEMMA OwnTasks ==
  ASSUME TaskStep
  PROVE  /\ RunningTask(k) \in SemTasks \cup {"idle"} => vWaiterTask \/ vTriggerTask
         /\ RunningTask(k) \in QueueTasks \cup {"idle"} => vProducer \/ vConsumer
         /\ RunningTask(k) \in PrintTasks \cup {"idle"} => vTaskPrint \/ vTaskLow
         /\ RunningTask(k) \in MeterTasks \cup {"idle"} =>
              vMetricsTask \/ vLatTrigTask \/ vYieldA \/ vYieldB
<1> USE DEF SemTasks, QueueTasks, PrintTasks, MeterTasks
<1>1. CASE vTaskPrint \/ vTaskLow
  BY <1>1 DEF vTaskPrint, vTaskLow, PrintHalf, Sleep, TaskAt
<1>2. CASE vProducer \/ vConsumer
  BY <1>2 DEF vProducer, vConsumer, TaskAt
<1>3. CASE vWaiterTask \/ vTriggerTask
  BY <1>3 DEF vWaiterTask, vTriggerTask, TaskAt
<1>4. CASE vMetricsTask \/ vLatTrigTask \/ vYieldA \/ vYieldB
  BY <1>4 DEF vMetricsTask, vLatTrigTask, vYieldA, vYieldB, Look, Report, TaskAt
<1> QED
  BY <1>1, <1>2, <1>3, <1>4 DEF TaskStep

\* No task of a hung image is ready or asleep.
LEMMA HungFacts ==
  ASSUME Hung, NEW t \in Tasks
  PROVE  ~IsReady(k, t) /\ ~(k.sleep[t] > 0) /\ ~msip
BY DEF Hung, IsReady

\* The bench keeps the shape of its record.
TbShape(b) == {"line", "got", "have", "done", "failed", "a_ticks", "b_prints"} \subseteq DOMAIN b

LEMMA SemLines ==
  ASSUME TbShape(tb), NEW l, tb_soc_rtos_sem(l)
  PROVE  /\ TbShape(tb') /\ tb'.line = tb.line /\ tb'.failed = tb.failed
         /\ l = "GOT" => tb'.got = tb.got + 1 /\ tb'.done = tb.done
         /\ l = "DONE" => tb'.got = tb.got /\ tb'.done = TRUE
BY DEF tb_soc_rtos_sem, TbShape

LEMMA QueueLines ==
  ASSUME TbShape(tb), tb_soc_rtos_q("QUEUE DONE") \/ tb_soc_rtos_q("PROGRESS")
  PROVE  /\ TbShape(tb') /\ tb'.line = tb.line /\ tb'.failed = tb.failed
         /\ tb_soc_rtos_q("QUEUE DONE") => tb'.done = TRUE
BY DEF tb_soc_rtos_q, TbShape

LEMMA MetricsLines ==
  ASSUME TbShape(tb), NEW l, tb_soc_rtos_metrics(l)
  PROVE  /\ TbShape(tb') /\ tb'.line = tb.line /\ tb'.failed = tb.failed
         /\ l = "DONE" => tb'.have = tb.have /\ tb'.done = TRUE
         /\ l # "DONE" => tb'.have = tb.have \cup {l} /\ tb'.done = tb.done
BY DEF tb_soc_rtos_metrics, TbShape

-----------------------------------------------------------------------------
(* rtos_sem: no raise is lost, none counts twice, and the waiter is woken. *)

SemTypeOK ==
  /\ k \in KernelOf(SemTasks) /\ msip \in BOOLEAN /\ late \in BOOLEAN
  /\ DOMAIN pc = Tasks /\ pc["WAIT"] \in {"start", "done"} /\ pc["TRIG"] \in {"start", "raise"}
  /\ data \in [raised : Nat, sem_count : Nat]

Count(b) == IF b THEN 1 ELSE 0

\* Why the trigger never raises while a raise is under way: until the waiter has taken the
\* semaphore it is waiting for it or, with the higher priority, ready.
SemOrder ==
  /\ data.raised = data.sem_count + Count(k.sem) + Count(msip)
  /\ ~(k.sem /\ msip)
  /\ msip /\ late => pc["TRIG"] = "start"
  /\ data.raised <= RAISES /\ (pc["TRIG"] = "raise" => data.raised < RAISES)
  /\ pc["WAIT"] = "start" => /\ data.sem_count < RAISES
                             /\ IsReady(k, "WAIT") \/ k.waits["WAIT"] = "sem"
  /\ pc["WAIT"] = "done" => data.sem_count >= RAISES
  /\ k.sem => pc["WAIT"] = "start" /\ IsReady(k, "WAIT")

\* What the bench has seen, and why nobody is left behind: a task that is not ready sleeps,
\* waits, or has no more to do.
SemBench ==
  /\ TbShape(tb) /\ ~tb.failed /\ tb.line = << >>
  /\ tb.got = data.sem_count
  /\ tb.done => pc["WAIT"] = "done"
  /\ pc["WAIT"] = "done" => IsReady(k, "WAIT") \/ tb.done
  /\ IsReady(k, "TRIG") \/ k.sleep["TRIG"] > 0 \/ data.raised = RAISES

SemAll == SemTypeOK /\ SemOrder /\ SemBench
SemInv == image = "rtos_sem" => SemAll

LEMMA WaiterStep == SemAll /\ ~BenchEnded /\ vWaiterTask => SemAll'
<1> SUFFICES ASSUME SemAll, ~BenchEnded, vWaiterTask PROVE SemAll'
  OBVIOUS
<1>0. /\ k \in KernelOf(SemTasks) /\ k.sem \in BOOLEAN /\ "WAIT" \in Tasks /\ "TRIG" \in Tasks
      /\ "WAIT" \in SemTasks /\ "TRIG" \in SemTasks \ {"WAIT"} /\ RAISES \in Nat
      /\ data.raised \in Nat /\ data.sem_count \in Nat
  BY TaskFacts, RtosAssumption DEF SemAll, SemTypeOK, KernelOf, SemTasks
<1>1. msip' = msip /\ late' = FALSE
  BY DEF vWaiterTask, Silent, Prints
<1>2. ~tb.done /\ ~tb.failed /\ TbShape(tb)
  BY DEF BenchEnded, SemAll, SemBench
<1>3. IsReady(k, "WAIT")
  BY <1>0, TaskSets, Runs DEF vWaiterTask, TaskAt
<1>4. CASE TaskAt("WAIT", "start") /\ Silent /\ ~k.sem /\ k' = Await(k, "WAIT", "sem", 0) /\ UNCHANGED <<pc, data>>
  <2>1. /\ k' \in KernelOf(SemTasks) /\ k'.sem = k.sem /\ k'.waits["WAIT"] = "sem"
        /\ Stays(k, k', "TRIG")
    <3>1. "sem" \in What
      BY DEF What
    <3> QED
      BY <1>0, <1>4, <3>1, TaskSets, Awaits
  <2>2. pc["WAIT"] = "start" /\ pc' = pc /\ data' = data /\ tb' = tb
    BY <1>4 DEF TaskAt, Silent
  <2>3. SemTypeOK'
    BY <1>1, <2>1, <2>2 DEF SemAll, SemTypeOK
  <2>4. SemOrder'
    BY <1>1, <1>4, <2>1, <2>2 DEF SemAll, SemOrder, Count
  <2>5. SemBench'
    BY <1>2, <2>1, <2>2 DEF SemAll, SemBench, Stays
  <2> QED
    BY <2>3, <2>4, <2>5 DEF SemAll
<1>5. CASE /\ TaskAt("WAIT", "start") /\ k.sem /\ k' = SemaphoreTaken(k) /\ tb_soc_rtos_sem("GOT")
           /\ data' = [data EXCEPT !.sem_count = @ + 1]
           /\ Goto("WAIT", IF data.sem_count + 1 >= RAISES THEN "done" ELSE "start")
  <2>1. /\ k' \in KernelOf(SemTasks) /\ k'.sem = FALSE /\ k'.waits = k.waits
        /\ k'.ready = k.ready /\ k'.sleep = k.sleep
    BY <1>0, <1>5 DEF SemaphoreTaken, KernelOf
  <2>2. \A t \in SemTasks : IsReady(k, t) => IsReady(k', t)
    BY <2>1 DEF IsReady
  <2>3. /\ data' \in [raised : Nat, sem_count : Nat]
        /\ data'.raised = data.raised /\ data'.sem_count = data.sem_count + 1
    BY <1>5 DEF SemAll, SemTypeOK
  <2>4. /\ DOMAIN pc' = Tasks /\ pc'["TRIG"] = pc["TRIG"] /\ pc["WAIT"] = "start"
        /\ pc'["WAIT"] = IF data.sem_count + 1 >= RAISES THEN "done" ELSE "start"
    BY <1>0, <1>5 DEF SemAll, SemTypeOK, Goto, TaskAt
  <2>5. /\ TbShape(tb') /\ tb'.line = tb.line /\ tb'.failed = tb.failed
        /\ tb'.got = tb.got + 1 /\ tb'.done = tb.done
    BY <1>2, <1>5, SemLines
  <2>6. SemTypeOK'
    BY <1>1, <2>1, <2>3, <2>4 DEF SemAll, SemTypeOK
  <2>7. SemOrder'
    BY <1>0, <1>1, <1>3, <1>5, <2>1, <2>2, <2>3, <2>4 DEF SemAll, SemTypeOK, SemOrder, Count
  <2>8. SemBench'
    BY <1>0, <1>2, <1>3, <2>1, <2>2, <2>3, <2>4, <2>5 DEF SemAll, SemBench
  <2> QED
    BY <2>6, <2>7, <2>8 DEF SemAll
<1>6. CASE /\ TaskAt("WAIT", "done") /\ tb_soc_rtos_sem("DONE")
           /\ k' = vTaskSuspend(k, "WAIT") /\ UNCHANGED <<pc, data>>
  <2>1. k' \in KernelOf(SemTasks) /\ k'.sem = k.sem /\ k'.waits = k.waits /\ Stays(k, k', "TRIG")
    BY <1>0, <1>6, TaskSets, Unreadied DEF vTaskSuspend
  <2>2. pc["WAIT"] = "done" /\ pc' = pc /\ data' = data
    BY <1>6 DEF TaskAt
  <2>3. /\ TbShape(tb') /\ tb'.line = tb.line /\ tb'.failed = tb.failed
        /\ tb'.got = tb.got /\ tb'.done = TRUE
    BY <1>2, <1>6, SemLines
  <2>4. SemTypeOK'
    BY <1>1, <2>1, <2>2 DEF SemAll, SemTypeOK
  <2>5. SemOrder'
    BY <1>1, <1>6, <2>1, <2>2 DEF SemAll, SemOrder, Count
  <2>6. SemBench'
    BY <1>2, <2>1, <2>2, <2>3 DEF SemAll, SemBench, Stays
  <2> QED
    BY <2>4, <2>5, <2>6 DEF SemAll
<1> QED
  BY <1>4, <1>5, <1>6 DEF vWaiterTask

LEMMA TriggerStep == SemAll /\ ~BenchEnded /\ vTriggerTask => SemAll'
<1> SUFFICES ASSUME SemAll, ~BenchEnded, vTriggerTask PROVE SemAll'
  OBVIOUS
<1>0. /\ k \in KernelOf(SemTasks) /\ k.sem \in BOOLEAN /\ "WAIT" \in Tasks /\ "TRIG" \in Tasks
      /\ "TRIG" \in SemTasks /\ "WAIT" \in SemTasks \ {"TRIG"} /\ RAISES \in Nat
      /\ data.raised \in Nat /\ data.sem_count \in Nat
  BY TaskFacts, RtosAssumption DEF SemAll, SemTypeOK, KernelOf, SemTasks
<1>1. RunningTask(k) = "TRIG" /\ ~IsReady(k, "WAIT") /\ (msip => late)
  <2>1. RunningTask(k) = "TRIG" /\ (msip => late)
    BY DEF vTriggerTask, TaskAt
  <2>2. IsReady(k, "WAIT") => Prio["WAIT"] <= Prio[RunningTask(k)]
    BY <1>0, TaskSets, Runs
  <2> QED
    BY <2>1, <2>2, TaskFacts
<1>2. ~tb.done /\ ~tb.failed /\ TbShape(tb) /\ tb' = tb
  BY DEF BenchEnded, SemAll, SemBench, vTriggerTask, Silent
<1>3. pc["WAIT"] = "start" /\ k.waits["WAIT"] = "sem" /\ ~k.sem
  BY <1>1, <1>2 DEF SemAll, SemTypeOK, SemOrder, SemBench
<1>4. CASE /\ TaskAt("TRIG", "start") /\ Silent /\ UNCHANGED data /\ data.raised < RAISES
           /\ k' = vTaskDelay(k, "TRIG", 1) /\ Goto("TRIG", "raise")
  <2>1. /\ k' \in KernelOf(SemTasks) /\ k'.sem = k.sem /\ k'.sleep["TRIG"] = 1
        /\ Stays(k, k', "WAIT")
    BY <1>0, <1>4, TaskSets, Delays
  <2>2. IsReady(k', "WAIT") \/ k'.waits["WAIT"] = "sem"
    BY <1>3, <2>1 DEF Stays
  <2>3. DOMAIN pc' = Tasks /\ pc'["TRIG"] = "raise" /\ pc'["WAIT"] = pc["WAIT"]
    BY <1>0, <1>4 DEF SemAll, SemTypeOK, Goto
  <2>4. msip' = msip /\ late' = FALSE /\ data' = data
    BY <1>4 DEF Silent, Prints
  <2>5. pc["TRIG"] = "start"
    BY <1>4 DEF TaskAt
  <2>6. SemTypeOK'
    BY <2>1, <2>3, <2>4 DEF SemAll, SemTypeOK
  <2>7. SemOrder'
    BY <1>0, <1>1, <1>3, <1>4, <2>1, <2>2, <2>3, <2>4, <2>5 DEF SemAll, SemTypeOK, SemOrder, Count
  <2>8. SemBench'
    BY <1>2, <1>3, <2>1, <2>3, <2>4 DEF SemAll, SemBench
  <2> QED
    BY <2>6, <2>7, <2>8 DEF SemAll
<1>5. CASE /\ TaskAt("TRIG", "start") /\ Silent /\ UNCHANGED <<data, pc>> /\ ~(data.raised < RAISES)
           /\ k' = vTaskDelete(k, "TRIG")
  <2>1. k' \in KernelOf(SemTasks) /\ k'.sem = k.sem /\ k'.waits = k.waits
    BY <1>0, <1>5, TaskSets, Unreadied DEF vTaskDelete
  <2>2. msip' = msip /\ late' = FALSE
    BY <1>5 DEF Silent, Prints
  <2>3. data.raised = RAISES
    BY <1>0, <1>5 DEF SemAll, SemOrder
  <2>4. SemTypeOK'
    BY <1>5, <2>1, <2>2 DEF SemAll, SemTypeOK
  <2>5. SemOrder'
    BY <1>1, <1>3, <1>5, <2>1, <2>2 DEF SemAll, SemTypeOK, SemOrder, Count
  <2>6. SemBench'
    BY <1>2, <1>3, <1>5, <2>3 DEF SemAll, SemBench
  <2> QED
    BY <2>4, <2>5, <2>6 DEF SemAll
<1>6. CASE /\ TaskAt("TRIG", "raise") /\ Goto("TRIG", "start")
           /\ msip' = TRUE /\ late' = TRUE /\ data' = [data EXCEPT !.raised = @ + 1] /\ UNCHANGED k
  <2>1. ~msip /\ data.raised < RAISES
    BY <1>1, <1>6 DEF SemAll, SemOrder, TaskAt
  <2>2. DOMAIN pc' = Tasks /\ pc'["TRIG"] = "start" /\ pc'["WAIT"] = pc["WAIT"]
    BY <1>0, <1>6 DEF SemAll, SemTypeOK, Goto
  <2>3. /\ data' \in [raised : Nat, sem_count : Nat]
        /\ data'.raised = data.raised + 1 /\ data'.sem_count = data.sem_count
    BY <1>6 DEF SemAll, SemTypeOK
  <2>4. IsReady(k', "TRIG")
    BY <1>0, <1>1, <1>6, TaskSets, Runs
  <2>5. SemTypeOK'
    BY <1>6, <2>2, <2>3 DEF SemAll, SemTypeOK
  <2>6. SemOrder'
    BY <1>0, <1>1, <1>3, <1>6, <2>1, <2>2, <2>3 DEF SemAll, SemTypeOK, SemOrder, Count
  <2>7. SemBench'
    BY <1>2, <1>3, <2>2, <2>3, <2>4 DEF SemAll, SemBench
  <2> QED
    BY <2>5, <2>6, <2>7 DEF SemAll
<1> QED
  BY <1>4, <1>5, <1>6 DEF vTriggerTask

\* The tick, and the interrupt that gives the semaphore.
LEMMA TickStep == SemAll /\ ~BenchEnded /\ image = "rtos_sem" /\ Tick => SemAll'
<1> SUFFICES ASSUME SemAll, ~BenchEnded, image = "rtos_sem", Tick PROVE SemAll'
  OBVIOUS
<1>1. /\ k' \in KernelOf(SemTasks) /\ k'.sem = k.sem
      /\ Stays(k, k', "WAIT") /\ Stays(k, k', "TRIG")
  BY TaskSets, Ticks DEF Tick, SemAll, SemTypeOK, SemTasks
<1>2. UNCHANGED <<pc, msip, late, data, tb>>
  BY DEF Tick, vApplicationTickHook
<1>3. SemTypeOK'
  BY <1>1, <1>2 DEF SemAll, SemTypeOK
<1>4. SemOrder'
  BY <1>1, <1>2 DEF SemAll, SemOrder, Count, Stays
<1>5. SemBench'
  BY <1>1, <1>2 DEF SemAll, SemBench, Stays
<1> QED
  BY <1>3, <1>4, <1>5 DEF SemAll

LEMMA HandlerStep ==
  SemAll /\ ~BenchEnded /\ image = "rtos_sem" /\ freertos_risc_v_application_interrupt_handler => SemAll'
<1> SUFFICES ASSUME SemAll, ~BenchEnded, image = "rtos_sem", freertos_risc_v_application_interrupt_handler
             PROVE  SemAll'
  OBVIOUS
<1>1. msip /\ msip' = FALSE /\ late' = FALSE /\ UNCHANGED <<pc, data, tb>> /\ k' = xSemaphoreGiveFromISR(k)
  BY DEF freertos_risc_v_application_interrupt_handler
<1> DEFINE full == [k EXCEPT !.sem = TRUE]
<1>2. /\ full \in KernelOf(SemTasks) /\ full.sem = TRUE /\ full.ready = k.ready
      /\ full.waits = k.waits /\ full.sleep = k.sleep
  BY DEF SemAll, SemTypeOK, KernelOf
<1>3. k' = Wake(full, "sem")
  BY <1>1 DEF xSemaphoreGiveFromISR
<1> HIDE DEF full
<1>4. /\ k' \in KernelOf(SemTasks) /\ k'.sem = TRUE
      /\ Stays(full, k', "WAIT") /\ (full.waits["WAIT"] = "sem" => IsReady(k', "WAIT"))
      /\ Stays(full, k', "TRIG")
  BY <1>2, <1>3, TaskSets, Woken DEF SemTasks, What
<1>5. IsReady(k, "WAIT") \/ k.waits["WAIT"] = "sem" => IsReady(k', "WAIT")
  BY <1>2, <1>4 DEF Stays, IsReady
<1>6. IsReady(k, "TRIG") \/ k.sleep["TRIG"] > 0 => IsReady(k', "TRIG") \/ k'.sleep["TRIG"] > 0
  BY <1>2, <1>4 DEF Stays, IsReady
<1>7. /\ ~k.sem /\ data.raised = data.sem_count + 1 /\ data.raised <= RAISES
      /\ data.raised \in Nat /\ data.sem_count \in Nat /\ RAISES \in Nat
  BY <1>1, RtosAssumption DEF SemAll, SemTypeOK, SemOrder, Count
<1>8. pc["WAIT"] = "start"
  BY <1>7 DEF SemAll, SemTypeOK, SemOrder
<1>9. SemTypeOK'
  BY <1>1, <1>4 DEF SemAll, SemTypeOK
<1>10. SemOrder'
  BY <1>1, <1>4, <1>5, <1>7, <1>8 DEF SemAll, SemTypeOK, SemOrder, Count
<1>11. SemBench'
  BY <1>1, <1>6, <1>8 DEF SemAll, SemBench
<1> QED
  BY <1>9, <1>10, <1>11 DEF SemAll

LEMMA SemInit == RtosInit => SemInv
<1> SUFFICES ASSUME RtosInit, image = "rtos_sem" PROVE SemAll
  BY DEF SemInv
<1>1. k \in KernelOf(SemTasks) /\ k.sem = FALSE /\ IsReady(k, "WAIT") /\ IsReady(k, "TRIG")
  BY TaskSets, SchedulerStarts DEF RtosInit, Created, SemTasks
<1>2. data = [raised |-> 0, sem_count |-> 0] /\ msip = FALSE /\ late = FALSE /\ pc = [t \in Tasks |-> "start"]
  BY DEF RtosInit, Statics
<1>3. DOMAIN pc = Tasks /\ pc["WAIT"] = "start" /\ pc["TRIG"] = "start"
  BY <1>2, TaskFacts
<1>4. data \in [raised : Nat, sem_count : Nat] /\ data.raised = 0 /\ data.sem_count = 0
  BY <1>2
<1>5. SemTypeOK
  BY <1>1, <1>2, <1>3, <1>4 DEF SemTypeOK
<1>6. SemOrder
  BY <1>1, <1>2, <1>3, <1>4, RtosAssumption DEF SemOrder, Count
<1>7. SemBench
  BY <1>1, <1>3, <1>4 DEF RtosInit, Bench, SemBench, TbShape
<1> QED
  BY <1>5, <1>6, <1>7 DEF SemAll

LEMMA SemStep == SemInv /\ [RtosNext]_rtosVars => SemInv'
<1> SUFFICES ASSUME SemInv, [RtosNext]_rtosVars, image' = "rtos_sem" PROVE SemAll'
  BY DEF SemInv
<1>1. image = "rtos_sem" /\ SemAll
  BY ImageKept DEF SemInv
<1>2. CASE UNCHANGED rtosVars
  BY <1>1, <1>2 DEF rtosVars, SemAll, SemTypeOK, SemOrder, SemBench, IsReady, Count, TbShape
<1>3. CASE RtosNext /\ TaskStep
  <2>1. RunningTask(k) \in SemTasks \cup {"idle"}
    BY <1>1, TaskSets, Runs DEF SemAll, SemTypeOK
  <2>2. vWaiterTask \/ vTriggerTask
    BY <1>3, <2>1, OwnTasks
  <2> QED
    BY <1>1, <1>3, <2>2, WaiterStep, TriggerStep DEF RtosNext
<1> QED
  BY <1>1, <1>2, <1>3, TickStep, HandlerStep DEF RtosNext

LEMMA SemInvHolds == RtosSpec => []SemInv
BY SemInit, SemStep, PTL DEF RtosSpec

\* rtos_sem.c:5-8: every raise of the trigger is pending, waits in the semaphore, or was
\* counted, and none counts twice, however often the trigger raises and wherever the ticks fall.
THEOREM NoRaiseLost == RtosSpec => []RaisesCounted
<1>1. SemInv => RaisesCounted
  BY DEF SemInv, SemAll, SemOrder, RaisesCounted, Count
<1> QED
  BY <1>1, SemInvHolds, PTL

-----------------------------------------------------------------------------
(* rtos_q: the items arrive in order and nobody waits for ever.            *)

QueueTypeOK ==
  /\ k \in KernelOf(QueueTasks) /\ msip = FALSE
  /\ DOMAIN pc = Tasks /\ pc["CONS"] \in {"start", "done"} /\ pc["PROD"] = "start"
  /\ data \in [sent : Nat, expect : Nat]
  /\ TbShape(tb) /\ ~tb.failed /\ tb.line = << >>

\* The queue holds the items sent and not received, in order; the consumer waits only for
\* an empty queue and the producer for a full one.
QueueOrder ==
  /\ data.expect >= 1 /\ data.sent = data.expect - 1 + Len(k.queue) /\ data.sent <= N_ITEMS
  /\ \A i \in 1..Len(k.queue) : k.queue[i] = data.expect + i - 1
  /\ pc["CONS"] = "start" =>
       /\ data.expect <= N_ITEMS
       /\ IsReady(k, "CONS") \/ (k.waits["CONS"] = "items" /\ Len(k.queue) = 0)
  /\ pc["CONS"] = "done" => tb.done
  /\ \/ IsReady(k, "PROD")
     \/ k.waits["PROD"] = "space" /\ Len(k.queue) = Q_LEN
     \/ data.sent = N_ITEMS

QueueAll == QueueTypeOK /\ QueueOrder
QueueInv == image = "rtos_q" => QueueAll

LEMMA QueueTaskFacts ==
  /\ "CONS" \in Tasks /\ "PROD" \in Tasks
  /\ "CONS" \in QueueTasks /\ "PROD" \in QueueTasks
  /\ "CONS" \in QueueTasks \ {"PROD"} /\ "PROD" \in QueueTasks \ {"CONS"}
  /\ "items" \in What \ {"nothing"} /\ "space" \in What \ {"nothing"}
  /\ N_ITEMS \in Nat \ {0} /\ Q_LEN \in Nat \ {0}
BY TaskFacts, RtosAssumption, QueueAssumption DEF QueueTasks, What

\* Changing the queue only.
LEMMA QueueChanged ==
  ASSUME NEW T \in SUBSET Tasks, NEW q \in KernelOf(T), NEW s \in Seq(Nat),
         NEW r, r = [q EXCEPT !.queue = s]
  PROVE  /\ r \in KernelOf(T) /\ r.queue = s /\ r.ready = q.ready
         /\ r.sleep = q.sleep /\ r.waits = q.waits
         /\ \A t : IsReady(r, t) <=> IsReady(q, t)
<1>1. /\ r \in KernelOf(T) /\ r.queue = s /\ r.ready = q.ready
      /\ r.sleep = q.sleep /\ r.waits = q.waits
  BY DEF KernelOf
<1> QED
  BY <1>1 DEF IsReady

LEMMA ProducerStep == QueueAll /\ ~BenchEnded /\ vProducer => QueueAll'
<1> SUFFICES ASSUME QueueAll, ~BenchEnded, vProducer PROVE QueueAll'
  OBVIOUS
<1>0. /\ k \in KernelOf(QueueTasks) /\ k.queue \in Seq(Nat) /\ Len(k.queue) \in Nat
      /\ data.sent \in Nat /\ data.expect \in Nat /\ data = [sent |-> data.sent, expect |-> data.expect]
  BY DEF QueueAll, QueueTypeOK, KernelOf
<1>1. msip' = FALSE /\ pc' = pc /\ tb' = tb
  BY DEF vProducer, Silent, Prints, QueueAll, QueueTypeOK
<1>2. IsReady(k, "PROD")
  BY <1>0, TaskSets, QueueTaskFacts, Runs DEF vProducer, TaskAt
<1>3. pc["CONS"] = "start"
  BY DEF QueueAll, QueueTypeOK, QueueOrder, BenchEnded
<1>4. CASE /\ data.sent < N_ITEMS /\ Len(k.queue) < Q_LEN
           /\ k' = QueueSent(k, data.sent + 1) /\ data' = [data EXCEPT !.sent = @ + 1]
  <2> DEFINE s == Append(k.queue, data.sent + 1)
             q == [k EXCEPT !.queue = s]
  <2>1. /\ s \in Seq(Nat) /\ Len(s) = Len(k.queue) + 1
        /\ \A i \in 1..Len(k.queue) : s[i] = k.queue[i]
        /\ s[Len(k.queue) + 1] = data.sent + 1
    BY <1>0
  <2>2. k' = Wake(q, "items")
    BY <1>0, <1>4 DEF QueueSent
  <2>c. q = [k EXCEPT !.queue = s]
    OBVIOUS
  <2>d. k \in KernelOf(QueueTasks) /\ s \in Seq(Nat) /\ QueueTasks \in SUBSET Tasks
    BY <1>0, <2>1, TaskSets
  <2> HIDE DEF s, q
  <2>3. /\ q \in KernelOf(QueueTasks) /\ q.queue = s /\ q.waits = k.waits
        /\ \A t : IsReady(q, t) <=> IsReady(k, t)
    BY <2>c, <2>d, QueueChanged
  <2>4. /\ k' \in KernelOf(QueueTasks) /\ k'.queue = s
        /\ Stays(q, k', "CONS") /\ (q.waits["CONS"] = "items" => IsReady(k', "CONS"))
        /\ Stays(q, k', "PROD")
    BY <2>2, <2>3, TaskSets, QueueTaskFacts, Woken
  <2>5. IsReady(k', "CONS") /\ IsReady(k', "PROD")
    BY <1>2, <1>3, <2>3, <2>4 DEF Stays, QueueAll, QueueOrder
  <2>6. data' \in [sent : Nat, expect : Nat] /\ data'.sent = data.sent + 1 /\ data'.expect = data.expect
    BY <1>0, <1>4
  <2>7. QueueTypeOK'
    BY <1>1, <2>4, <2>6 DEF QueueAll, QueueTypeOK
  <2>8. \A i \in 1..Len(k'.queue) : k'.queue[i] = data'.expect + i - 1
    <3> SUFFICES ASSUME NEW i \in 1..(Len(k.queue) + 1) PROVE s[i] = data.expect + i - 1
      BY <2>1, <2>4, <2>6
    <3>1. CASE i \in 1..Len(k.queue)
      BY <2>1, <3>1 DEF QueueAll, QueueOrder
    <3>2. CASE i = Len(k.queue) + 1
      BY <1>0, <2>1, <3>2 DEF QueueAll, QueueOrder
    <3> QED
      BY <1>0, <3>1, <3>2
  <2>9. data.sent + 1 = data.expect - 1 + (Len(k.queue) + 1) /\ data.sent + 1 <= N_ITEMS /\ data.expect >= 1
    BY <1>0, <1>4, QueueTaskFacts DEF QueueAll, QueueOrder
  <2>10. QueueOrder'
    BY <1>1, <1>3, <2>1, <2>4, <2>5, <2>6, <2>8, <2>9 DEF QueueAll, QueueOrder
  <2> QED
    BY <2>7, <2>10 DEF QueueAll
<1>5. CASE /\ data.sent < N_ITEMS /\ Len(k.queue) = Q_LEN
           /\ k' = Await(k, "PROD", "space", 0) /\ UNCHANGED data
  <2>1. /\ k' \in KernelOf(QueueTasks) /\ k'.queue = k.queue /\ k'.waits["PROD"] = "space"
        /\ Stays(k, k', "CONS")
    BY <1>0, <1>5, TaskSets, QueueTaskFacts, Awaits
  <2>2. QueueTypeOK'
    BY <1>1, <1>5, <2>1 DEF QueueAll, QueueTypeOK
  <2>3. QueueOrder'
    BY <1>1, <1>3, <1>5, <2>1 DEF QueueAll, QueueOrder, Stays
  <2> QED
    BY <2>2, <2>3 DEF QueueAll
<1>6. CASE data.sent = N_ITEMS /\ k' = vTaskDelete(k, "PROD") /\ UNCHANGED data
  <2>1. /\ k' \in KernelOf(QueueTasks) /\ k'.queue = k.queue /\ Stays(k, k', "CONS")
    BY <1>0, <1>6, TaskSets, QueueTaskFacts, Unreadied DEF vTaskDelete
  <2>2. QueueTypeOK'
    BY <1>1, <1>6, <2>1 DEF QueueAll, QueueTypeOK
  <2>3. QueueOrder'
    BY <1>1, <1>3, <1>6, <2>1 DEF QueueAll, QueueOrder, Stays
  <2> QED
    BY <2>2, <2>3 DEF QueueAll
<1> QED
  BY <1>4, <1>5, <1>6 DEF vProducer

LEMMA ConsumerStep == QueueAll /\ ~BenchEnded /\ vConsumer => QueueAll'
<1> SUFFICES ASSUME QueueAll, ~BenchEnded, vConsumer PROVE QueueAll'
  OBVIOUS
<1>0. /\ k \in KernelOf(QueueTasks) /\ k.queue \in Seq(Nat) /\ Len(k.queue) \in Nat
      /\ data.sent \in Nat /\ data.expect \in Nat /\ data = [sent |-> data.sent, expect |-> data.expect]
      /\ TbShape(tb)
  BY DEF QueueAll, QueueTypeOK, KernelOf
<1>1. msip' = FALSE
  BY DEF vConsumer, Silent, Prints, QueueAll, QueueTypeOK
<1>2. IsReady(k, "CONS")
  BY <1>0, TaskSets, QueueTaskFacts, Runs DEF vConsumer, TaskAt
<1>3. pc["CONS"] = "start" /\ data.expect <= N_ITEMS
  BY DEF QueueAll, QueueTypeOK, QueueOrder, BenchEnded
<1>4. CASE /\ Silent /\ k.queue = << >>
           /\ k' = Await(k, "CONS", "items", 0) /\ UNCHANGED <<pc, data>>
  <2>1. /\ k' \in KernelOf(QueueTasks) /\ k'.queue = k.queue /\ k'.waits["CONS"] = "items"
        /\ Stays(k, k', "PROD")
    BY <1>0, <1>4, TaskSets, QueueTaskFacts, Awaits
  <2>2. tb' = tb /\ Len(k.queue) = 0
    BY <1>4 DEF Silent
  <2>3. QueueTypeOK'
    BY <1>1, <1>4, <2>1, <2>2 DEF QueueAll, QueueTypeOK
  <2>4. Len(k.queue) # Q_LEN
    BY <2>2, QueueTaskFacts
  <2>5. QueueOrder'
    BY <1>1, <1>3, <1>4, <2>1, <2>2, <2>4 DEF QueueAll, QueueOrder, Stays
  <2> QED
    BY <2>3, <2>5 DEF QueueAll
<1>5. CASE /\ k.queue # << >> /\ k' = QueueReceived(k)
           /\ LET wrong == Head(k.queue) # data.expect  last == data.expect = N_ITEMS IN
                /\ data' = [data EXCEPT !.expect = @ + 1]
                /\ Goto("CONS", IF wrong THEN "wedged" ELSE IF last THEN "done" ELSE "start")
                /\ tb_soc_rtos_q(IF wrong THEN "ORDER FAIL" ELSE IF last THEN "QUEUE DONE" ELSE "PROGRESS")
  <2> DEFINE s == Tail(k.queue)
             q == [k EXCEPT !.queue = s]
  <2>1. /\ Len(k.queue) >= 1 /\ s \in Seq(Nat) /\ Len(s) = Len(k.queue) - 1
        /\ \A i \in 1..Len(s) : s[i] = k.queue[i + 1]
        /\ Head(k.queue) = k.queue[1]
    <3>1. k.queue # << >> /\ k.queue \in Seq(Nat)
      BY <1>0, <1>5
    <3>2. Len(k.queue) >= 1
      BY <3>1, EmptySeq
    <3>3. /\ Tail(k.queue) \in Seq(Nat) /\ Len(Tail(k.queue)) = Len(k.queue) - 1
          /\ \A i \in 1..Len(Tail(k.queue)) : Tail(k.queue)[i] = k.queue[i + 1]
      BY <3>1, HeadTailProperties
    <3> QED
      BY <3>1, <3>2, <3>3
  <2>2. Head(k.queue) = data.expect
    <3>1. 1 \in 1..Len(k.queue)
      BY <1>0, <2>1
    <3>2. k.queue[1] = data.expect + 1 - 1
      BY <3>1 DEF QueueAll, QueueOrder
    <3> QED
      BY <1>0, <2>1, <3>2
  <2>3. k' = Wake(q, "space")
    BY <1>0, <1>5 DEF QueueReceived
  <2>c. q = [k EXCEPT !.queue = s]
    OBVIOUS
  <2>d. k \in KernelOf(QueueTasks) /\ s \in Seq(Nat) /\ QueueTasks \in SUBSET Tasks
    BY <1>0, <2>1, TaskSets
  <2> HIDE DEF s, q
  <2>4. /\ q \in KernelOf(QueueTasks) /\ q.queue = s /\ q.waits = k.waits
        /\ \A t : IsReady(q, t) <=> IsReady(k, t)
    BY <2>c, <2>d, QueueChanged
  <2>5. /\ k' \in KernelOf(QueueTasks) /\ k'.queue = s
        /\ Stays(q, k', "PROD") /\ (q.waits["PROD"] = "space" => IsReady(k', "PROD"))
        /\ Stays(q, k', "CONS")
    BY <2>3, <2>4, TaskSets, QueueTaskFacts, Woken
  <2>6. IsReady(k', "CONS") /\ (IsReady(k', "PROD") \/ data.sent = N_ITEMS)
    BY <1>2, <2>4, <2>5 DEF Stays, QueueAll, QueueOrder
  <2>7. data' \in [sent : Nat, expect : Nat] /\ data'.sent = data.sent /\ data'.expect = data.expect + 1
    <3>1. data' = [data EXCEPT !.expect = @ + 1]
      BY <1>5
    <3> QED
      BY <1>0, <3>1
  <2>8. /\ DOMAIN pc' = Tasks /\ pc'["PROD"] = pc["PROD"]
        /\ pc'["CONS"] = IF data.expect = N_ITEMS THEN "done" ELSE "start"
    BY <1>5, <2>2, QueueTaskFacts DEF Goto, QueueAll, QueueTypeOK
  <2>9. tb_soc_rtos_q(IF data.expect = N_ITEMS THEN "QUEUE DONE" ELSE "PROGRESS")
    BY <1>5, <2>2
  <2>10. /\ TbShape(tb') /\ tb'.line = tb.line /\ tb'.failed = tb.failed
         /\ data.expect = N_ITEMS => tb'.done = TRUE
    <3>1. CASE data.expect = N_ITEMS
      <4>1. tb_soc_rtos_q("QUEUE DONE")
        BY <2>9, <3>1
      <4>2. TbShape(tb)
        BY <1>0
      <4> QED
        BY <4>1, <4>2, QueueLines
    <3>2. CASE data.expect # N_ITEMS
      <4>1. tb_soc_rtos_q("PROGRESS")
        BY <2>9, <3>2
      <4>2. TbShape(tb)
        BY <1>0
      <4> QED
        BY <3>2, <4>1, <4>2, QueueLines
    <3> QED
      BY <3>1, <3>2
  <2>11. QueueTypeOK'
    BY <1>1, <2>5, <2>7, <2>8, <2>10 DEF QueueAll, QueueTypeOK
  <2>12. \A i \in 1..Len(k'.queue) : k'.queue[i] = data'.expect + i - 1
    <3> SUFFICES ASSUME NEW i \in 1..Len(s) PROVE s[i] = data.expect + 1 + i - 1
      BY <2>5, <2>7
    <3>1. i + 1 \in 1..Len(k.queue) /\ i \in Nat
      <4>1. Len(s) = Len(k.queue) - 1 /\ Len(k.queue) \in Nat
        BY <1>0, <2>1
      <4> QED
        BY <4>1
    <3>2. k.queue[i + 1] = data.expect + (i + 1) - 1
      BY <3>1 DEF QueueAll, QueueOrder
    <3>3. s[i] = k.queue[i + 1] /\ data.expect \in Nat
      BY <1>0, <2>1
    <3> QED
      BY <3>1, <3>2, <3>3
  <2>13. data.sent = data.expect + 1 - 1 + Len(s) /\ data.expect + 1 >= 1 /\ data.sent <= N_ITEMS
    <3>1. data.sent = data.expect - 1 + Len(k.queue) /\ data.expect >= 1 /\ data.sent <= N_ITEMS
      BY DEF QueueAll, QueueOrder
    <3>2. Len(s) = Len(k.queue) - 1
      BY <2>1
    <3>3. data.sent \in Nat /\ data.expect \in Nat /\ Len(k.queue) \in Nat
      BY <1>0
    <3> QED
      BY <3>1, <3>2, <3>3
  <2>14. pc'["CONS"] = "start" => data.expect + 1 <= N_ITEMS
    BY <1>0, <1>3, <2>8, QueueTaskFacts
  <2>15. /\ data'.expect >= 1 /\ data'.sent = data'.expect - 1 + Len(k'.queue)
         /\ data'.sent <= N_ITEMS
    <3>1. data'.sent = data.sent /\ data'.expect = data.expect + 1 /\ Len(k'.queue) = Len(s)
      BY <2>5, <2>7
    <3>2. data.sent \in Nat /\ data.expect \in Nat /\ Len(s) \in Nat
      BY <1>0, <2>1
    <3> QED
      BY <2>13, <3>1, <3>2
  <2>16. pc'["CONS"] = "start" => data'.expect <= N_ITEMS
    BY <2>7, <2>14
  <2>17. pc'["CONS"] = "done" => tb'.done
    BY <2>8, <2>10
  <2>18. QueueOrder'
    BY <2>6, <2>7, <2>12, <2>15, <2>16, <2>17 DEF QueueOrder
  <2> QED
    BY <2>11, <2>18 DEF QueueAll
<1> QED
  BY <1>3, <1>4, <1>5 DEF vConsumer, TaskAt

LEMMA QueueInit == RtosInit => QueueInv
<1> SUFFICES ASSUME RtosInit, image = "rtos_q" PROVE QueueAll
  BY DEF QueueInv
<1>1. k \in KernelOf(QueueTasks) /\ k.queue = << >> /\ IsReady(k, "CONS") /\ IsReady(k, "PROD")
  BY TaskSets, SchedulerStarts DEF RtosInit, Created, QueueTasks
<1>2. data = [sent |-> 0, expect |-> 1] /\ msip = FALSE /\ pc = [t \in Tasks |-> "start"]
  BY DEF RtosInit, Statics
<1>3. DOMAIN pc = Tasks /\ pc["CONS"] = "start" /\ pc["PROD"] = "start"
  BY <1>2, QueueTaskFacts
<1>4. data \in [sent : Nat, expect : Nat] /\ data.sent = 0 /\ data.expect = 1
  BY <1>2
<1>5. QueueTypeOK
  BY <1>1, <1>2, <1>3, <1>4 DEF RtosInit, Bench, QueueTypeOK, TbShape
<1>6. QueueOrder
  BY <1>1, <1>3, <1>4, QueueTaskFacts DEF QueueOrder
<1> QED
  BY <1>5, <1>6 DEF QueueAll

LEMMA QueueStep == QueueInv /\ [RtosNext]_rtosVars => QueueInv'
<1> SUFFICES ASSUME QueueInv, [RtosNext]_rtosVars, image' = "rtos_q" PROVE QueueAll'
  BY DEF QueueInv
<1>1. image = "rtos_q" /\ QueueAll
  BY ImageKept DEF QueueInv
<1>2. CASE UNCHANGED rtosVars
  BY <1>1, <1>2 DEF rtosVars, QueueAll, QueueTypeOK, QueueOrder, IsReady, TbShape
<1>3. CASE RtosNext /\ TaskStep
  <2>1. RunningTask(k) \in QueueTasks \cup {"idle"}
    BY <1>1, TaskSets, Runs DEF QueueAll, QueueTypeOK
  <2>2. vProducer \/ vConsumer
    BY <1>3, <2>1, OwnTasks
  <2> QED
    BY <1>1, <1>3, <2>2, ProducerStep, ConsumerStep DEF RtosNext
<1>4. CASE Tick
  <2>1. /\ k' \in KernelOf(QueueTasks) /\ k'.queue = k.queue
        /\ Stays(k, k', "CONS") /\ Stays(k, k', "PROD")
    BY <1>1, <1>4, TaskSets, QueueTaskFacts, Ticks DEF Tick, QueueAll, QueueTypeOK
  <2>2. UNCHANGED <<pc, msip, data, tb>>
    BY <1>1, <1>4 DEF Tick, vApplicationTickHook
  <2>3. QueueTypeOK'
    BY <1>1, <2>1, <2>2 DEF QueueAll, QueueTypeOK, TbShape
  <2>4. QueueOrder'
    BY <1>1, <2>1, <2>2 DEF QueueAll, QueueOrder, Stays
  <2> QED
    BY <2>3, <2>4 DEF QueueAll
<1>5. ~freertos_risc_v_application_interrupt_handler
  BY <1>1 DEF freertos_risc_v_application_interrupt_handler, QueueAll, QueueTypeOK
<1> QED
  BY <1>2, <1>3, <1>4, <1>5 DEF RtosNext

-----------------------------------------------------------------------------
(* rtos: both printers come back, and the first one's line is never cut.   *)

PrintAll ==
  /\ k \in KernelOf(PrintTasks) /\ msip = FALSE
  /\ DOMAIN pc = Tasks /\ \A t \in PrintTasks : pc[t] \in {"start", "half", "sleep"}
  /\ TbShape(tb) /\ tb.line \in Seq(PrintTasks \X {1, 2})
  /\ \A t \in PrintTasks : IsReady(k, t) \/ k.sleep[t] > 0
  /\ pc["A"] = "half" => IsReady(k, "A")
  /\ \A i \in 1..Len(tb.line) : tb.line[i] = <<"A", 1>> => i = Len(tb.line) /\ pc["A"] = "half"

PrintInv == image = "rtos" => PrintAll

\* The bench's line after a half.
LEMMA PrintLines ==
  ASSUME TbShape(tb), NEW half, tb_soc_rtos(half)
  PROVE  /\ TbShape(tb')
         /\ half[2] = 1 => tb'.line = Append(tb.line, half)
         /\ half[2] # 1 => tb'.line = << >>
BY DEF tb_soc_rtos, TbShape

LEMMA PrintStep ==
  PrintAll /\ (vTaskPrint \/ vTaskLow) => PrintAll'
<1> SUFFICES ASSUME PrintAll, vTaskPrint \/ vTaskLow PROVE PrintAll'
  OBVIOUS
<1>0. /\ "A" \in PrintTasks /\ "B" \in PrintTasks /\ PrintTasks \subseteq Tasks
      /\ k \in KernelOf(PrintTasks) /\ TbShape(tb) /\ tb.line \in Seq(PrintTasks \X {1, 2})
      /\ DOMAIN pc = Tasks
  BY TaskSets DEF PrintTasks, PrintAll
<1>1. msip' = FALSE
  BY DEF PrintAll, vTaskPrint, vTaskLow, PrintHalf, Sleep, Silent, Prints
\* While the first printer is in its line the other does not run.
<1>2. ASSUME NEW t \in PrintTasks, RunningTask(k) = t
      PROVE  IsReady(k, t) /\ (t = "B" => pc["A"] # "half")
  <2>1. IsReady(k, t)
    BY <1>0, <1>2, TaskSets, TaskFacts, Runs DEF PrintTasks
  <2>2. IsReady(k, "A") => Prio["A"] <= Prio[t]
    BY <1>0, <1>2, TaskSets, Runs
  <2>3. t = "B" => ~IsReady(k, "A")
    BY <2>2, TaskFacts
  <2> QED
    BY <2>1, <2>3 DEF PrintAll
<1>3. ASSUME NEW t \in PrintTasks, PrintHalf(t, "start", "half", 1)
      PROVE  PrintAll'
  <2>1. RunningTask(k) = t /\ pc[t] = "start" /\ k' = k /\ tb_soc_rtos(<<t, 1>>)
    BY <1>3 DEF PrintHalf, TaskAt
  <2>2. IsReady(k, t) /\ pc["A"] # "half"
    BY <1>2, <2>1 DEF PrintTasks
  <2>3. /\ DOMAIN pc' = Tasks /\ pc'[t] = "half"
        /\ \A u \in PrintTasks \ {t} : pc'[u] = pc[u]
    BY <1>0, <1>3 DEF PrintHalf, Goto
  <2> DEFINE h == <<t, 1>>
  <2>4. h \in PrintTasks \X {1, 2} /\ h[2] = 1
    OBVIOUS
  <2>5. TbShape(tb') /\ tb'.line = Append(tb.line, h)
    <3> HIDE DEF h
    <3>1. tb_soc_rtos(h)
      BY <2>1 DEF h
    <3> QED
      BY <1>0, <2>4, <3>1, PrintLines
  <2>6. \A i \in 1..Len(tb.line) : tb.line[i] # <<"A", 1>>
    BY <2>2 DEF PrintAll
  <2>7. /\ tb'.line \in Seq(PrintTasks \X {1, 2}) /\ Len(tb'.line) = Len(tb.line) + 1
        /\ Len(tb.line) \in Nat
        /\ \A i \in 1..Len(tb.line) : tb'.line[i] = tb.line[i]
        /\ tb'.line[Len(tb.line) + 1] = h
    <3> HIDE DEF h
    <3> QED
      BY <1>0, <2>4, <2>5
  <2>8. ASSUME NEW i \in 1..Len(tb'.line), tb'.line[i] = <<"A", 1>>
        PROVE  i = Len(tb'.line) /\ pc'["A"] = "half"
    <3>1. i = Len(tb.line) + 1
      <4>1. ~ (i \in 1..Len(tb.line))
        BY <2>6, <2>7, <2>8, Zenon
      <4>2. i \in 1..(Len(tb.line) + 1) /\ Len(tb.line) \in Nat
        BY <2>7, <2>8
      <4> QED
        BY <4>1, <4>2
    <3>2. h = <<"A", 1>>
      BY <2>7, <2>8, <3>1
    <3>3. t = "A"
      BY <3>2
    <3> QED
      BY <2>3, <2>7, <3>1, <3>3
  <2>9. \A u \in PrintTasks : pc'[u] \in {"start", "half", "sleep"}
    BY <2>3 DEF PrintAll
  <2>10. \A u \in PrintTasks : IsReady(k', u) \/ k'.sleep[u] > 0
    BY <2>1 DEF PrintAll
  <2>11. pc'["A"] = "half" => IsReady(k', "A")
    BY <1>0, <2>1, <2>2, <2>3
  <2> QED
    BY <1>0, <1>1, <2>1, <2>3, <2>5, <2>7, <2>8, <2>9, <2>10, <2>11 DEF PrintAll
<1>4. ASSUME NEW t \in PrintTasks, PrintHalf(t, "half", "sleep", 2)
      PROVE  PrintAll'
  <2>1. RunningTask(k) = t /\ k' = k /\ tb_soc_rtos(<<t, 2>>)
    BY <1>4 DEF PrintHalf, TaskAt
  <2>2. t = "B" => pc["A"] # "half"
    BY <1>2, <2>1
  <2>3. /\ DOMAIN pc' = Tasks /\ pc'[t] = "sleep"
        /\ \A u \in PrintTasks \ {t} : pc'[u] = pc[u]
    BY <1>0, <1>4 DEF PrintHalf, Goto
  <2> DEFINE h == <<t, 2>>
  <2>4. h[2] # 1
    OBVIOUS
  <2>5. TbShape(tb') /\ tb'.line = << >>
    <3> HIDE DEF h
    <3>1. tb_soc_rtos(h)
      BY <2>1 DEF h
    <3> QED
      BY <1>0, <2>4, <3>1, PrintLines
  <2>6. tb'.line \in Seq(PrintTasks \X {1, 2}) /\ 1..Len(tb'.line) = {}
    BY <2>5, EmptySeq
  <2>7. \A u \in PrintTasks : pc'[u] \in {"start", "half", "sleep"}
    BY <2>3 DEF PrintAll
  <2>8. pc'["A"] # "half"
    BY <1>0, <2>2, <2>3 DEF PrintTasks
  <2>9. \A u \in PrintTasks : IsReady(k', u) \/ k'.sleep[u] > 0
    BY <2>1 DEF PrintAll
  <2> QED
    BY <1>0, <1>1, <2>1, <2>3, <2>5, <2>6, <2>7, <2>8, <2>9 DEF PrintAll
<1>5. ASSUME NEW t \in PrintTasks, NEW n \in Nat \ {0}, Sleep(t, "sleep", "start", n)
      PROVE  PrintAll'
  <2>1. RunningTask(k) = t /\ k' = vTaskDelay(k, t, n) /\ tb' = tb
    BY <1>5 DEF Sleep, TaskAt, Silent
  <2>2. t = "B" => pc["A"] # "half"
    BY <1>2, <2>1
  <2>3. /\ DOMAIN pc' = Tasks /\ pc'[t] = "start" /\ pc[t] = "sleep"
        /\ \A u \in PrintTasks \ {t} : pc'[u] = pc[u]
    BY <1>0, <1>5 DEF Sleep, Goto, TaskAt
  <2>4. /\ k' \in KernelOf(PrintTasks) /\ k'.sleep[t] = n
        /\ \A u \in PrintTasks \ {t} : Stays(k, k', u)
    <3>1. PrintTasks \in SUBSET Tasks /\ k \in KernelOf(PrintTasks) /\ n \in Nat
      BY <1>0, TaskSets
    <3> QED
      BY <2>1, <3>1, Delays
  <2>5. pc["A"] # "half" /\ pc'["A"] # "half"
    BY <1>0, <2>2, <2>3 DEF PrintTasks
  <2>6. \A u \in PrintTasks : IsReady(k', u) \/ k'.sleep[u] > 0
    <3>1. k'.sleep[t] > 0
      BY <2>4
    <3>2. \A u \in PrintTasks \ {t} : IsReady(k', u) \/ k'.sleep[u] > 0
      BY <2>4 DEF Stays, PrintAll
    <3> QED
      BY <3>1, <3>2
  <2>7. \A u \in PrintTasks : pc'[u] \in {"start", "half", "sleep"}
    BY <2>3 DEF PrintAll
  <2>8. \A i \in 1..Len(tb.line) : tb.line[i] # <<"A", 1>>
    BY <2>5 DEF PrintAll
  <2> QED
    BY <1>0, <1>1, <2>1, <2>3, <2>4, <2>5, <2>6, <2>7, <2>8 DEF PrintAll
<1> QED
  BY <1>0, <1>3, <1>4, <1>5 DEF vTaskPrint, vTaskLow

LEMMA PrintInit == RtosInit => PrintInv
<1> SUFFICES ASSUME RtosInit, image = "rtos" PROVE PrintAll
  BY DEF PrintInv
<1>1. k \in KernelOf(PrintTasks) /\ \A t \in PrintTasks : IsReady(k, t)
  BY TaskSets, SchedulerStarts DEF RtosInit, Created, PrintTasks
<1>2. msip = FALSE /\ pc = [t \in Tasks |-> "start"] /\ TbShape(tb) /\ tb.line = << >>
  BY DEF RtosInit, Bench, TbShape
<1>3. tb.line \in Seq(PrintTasks \X {1, 2}) /\ 1..Len(tb.line) = {}
  BY <1>2, EmptySeq
<1>4. DOMAIN pc = Tasks /\ \A t \in PrintTasks : pc[t] = "start"
  BY <1>2, TaskSets
<1> QED
  BY <1>1, <1>2, <1>3, <1>4 DEF PrintAll, PrintTasks

LEMMA PrintInvStep == PrintInv /\ [RtosNext]_rtosVars => PrintInv'
<1> SUFFICES ASSUME PrintInv, [RtosNext]_rtosVars, image' = "rtos" PROVE PrintAll'
  BY DEF PrintInv
<1>1. image = "rtos" /\ PrintAll
  BY ImageKept DEF PrintInv
<1>2. CASE UNCHANGED rtosVars
  BY <1>1, <1>2 DEF rtosVars, PrintAll, IsReady, TbShape
<1>3. CASE RtosNext /\ TaskStep
  <2>1. RunningTask(k) \in PrintTasks \cup {"idle"}
    BY <1>1, TaskSets, Runs DEF PrintAll
  <2> QED
    BY <1>1, <1>3, <2>1, OwnTasks, PrintStep
<1>4. CASE Tick
  <2>1. k' \in KernelOf(PrintTasks) /\ \A t \in PrintTasks : Stays(k, k', t)
    BY <1>1, <1>4, TaskSets, Ticks DEF Tick, PrintAll
  <2>2. UNCHANGED <<pc, msip, tb>>
    BY <1>4 DEF Tick
  <2>3. \A t \in PrintTasks : /\ IsReady(k, t) => IsReady(k', t)
                              /\ IsReady(k', t) \/ k'.sleep[t] > 0
    BY <1>1, <2>1 DEF Stays, PrintAll
  <2>4. "A" \in PrintTasks
    BY DEF PrintTasks
  <2> QED
    BY <1>1, <2>1, <2>2, <2>3, <2>4 DEF PrintAll, TbShape
<1>5. ~freertos_risc_v_application_interrupt_handler
  BY <1>1 DEF freertos_risc_v_application_interrupt_handler, PrintAll
<1> QED
  BY <1>2, <1>3, <1>4, <1>5 DEF RtosNext

-----------------------------------------------------------------------------
(* rtos_metrics: the orchestrator comes back, and reports its phases.      *)

\* What the bench has by the orchestrator's phase.
Has(phase) == CASE phase \in {"start", "phase L"} -> {}
             [] phase = "phase S" -> {"LAT"}
             [] phase = "phase T" -> {"LAT", "SW"}
             [] OTHER -> {"LAT", "SW", "TICK"}

MeterAll ==
  /\ k \in KernelOf(MeterTasks)
  /\ DOMAIN pc = Tasks /\ pc["M"] \in {"start", "phase L", "phase S", "phase T", "finish", "done"}
  /\ TbShape(tb) /\ ~tb.failed /\ tb.line = << >>
  /\ tb.have = Has(pc["M"])
  /\ IF pc["M"] = "done" THEN tb.done = TRUE
     ELSE tb.done = FALSE /\ (IsReady(k, "M") \/ k.sleep["M"] > 0)

MeterInv == image = "rtos_metrics" => MeterAll

\* The other tasks leave the orchestrator as it is.
LEMMA MeterOthers ==
  ASSUME MeterAll, vLatTrigTask \/ vYieldA \/ vYieldB
  PROVE  /\ k' \in KernelOf(MeterTasks) /\ Stays(k, k', "M")
         /\ DOMAIN pc' = Tasks /\ pc'["M"] = pc["M"] /\ tb' = tb
<1>0. /\ k \in KernelOf(MeterTasks) /\ DOMAIN pc = Tasks /\ MeterTasks \in SUBSET Tasks
      /\ "M" \in Tasks /\ "LAT" \in Tasks /\ "YA" \in Tasks /\ "YB" \in Tasks
      /\ "M" \in MeterTasks /\ "LAT" \in MeterTasks /\ "YA" \in MeterTasks /\ "YB" \in MeterTasks
  BY TaskFacts, TaskSets DEF MeterAll, MeterTasks
<1>1. tb' = tb
  BY DEF vLatTrigTask, vYieldA, vYieldB, Silent
<1>2. ASSUME NEW t \in {"LAT", "YA", "YB"}, NEW l, Goto(t, l) \/ UNCHANGED pc
      PROVE  DOMAIN pc' = Tasks /\ pc'["M"] = pc["M"]
  BY <1>0, <1>2 DEF Goto
<1>3. DOMAIN pc' = Tasks /\ pc'["M"] = pc["M"]
  BY <1>2 DEF vLatTrigTask, vYieldA, vYieldB
<1>4. ASSUME NEW t \in {"LAT", "YA", "YB"}
      PROVE  LET ok(r) == r \in KernelOf(MeterTasks) /\ Stays(k, r, "M")
             IN  /\ \A n \in Nat : ok(vTaskDelay(k, t, n))
                 /\ ok(vTaskSuspend(k, t)) /\ ok(taskYIELD(k, t)) /\ ok(k)
  <2>1. t \in MeterTasks /\ "M" \in MeterTasks \ {t}
    BY <1>0
  <2>2. \A n \in Nat : vTaskDelay(k, t, n) \in KernelOf(MeterTasks) /\ Stays(k, vTaskDelay(k, t, n), "M")
    BY <1>0, <2>1, Delays
  <2>3. vTaskSuspend(k, t) \in KernelOf(MeterTasks) /\ Stays(k, vTaskSuspend(k, t), "M")
    BY <1>0, <2>1, Unreadied DEF vTaskSuspend
  <2>4. taskYIELD(k, t) \in KernelOf(MeterTasks) /\ Stays(k, taskYIELD(k, t), "M")
    BY <1>0, <2>1, Yields
  <2>5. k \in KernelOf(MeterTasks) /\ Stays(k, k, "M")
    BY <1>0 DEF Stays
  <2> QED
    BY <2>2, <2>3, <2>4, <2>5
<1>5. \E t \in {"LAT", "YA", "YB"} :
        \/ \E n \in Nat : k' = vTaskDelay(k, t, n)
        \/ k' = vTaskSuspend(k, t) \/ k' = taskYIELD(k, t) \/ k' = k
  BY DEF vLatTrigTask, vYieldA, vYieldB
<1>6. k' \in KernelOf(MeterTasks) /\ Stays(k, k', "M")
  BY <1>4, <1>5
<1> QED
  BY <1>1, <1>3, <1>6

LEMMA MeterStep == MeterAll /\ ~BenchEnded /\ vMetricsTask => MeterAll'
<1> SUFFICES ASSUME MeterAll, ~BenchEnded, vMetricsTask PROVE MeterAll'
  OBVIOUS
<1>0. /\ k \in KernelOf(MeterTasks) /\ DOMAIN pc = Tasks /\ MeterTasks \in SUBSET Tasks
      /\ TbShape(tb) /\ ~tb.failed /\ tb.line = << >> /\ tb.have = Has(pc["M"])
      /\ "M" \in Tasks /\ "M" \in MeterTasks
  BY TaskFacts, TaskSets DEF MeterAll, MeterTasks
<1>1. RunningTask(k) = "M" /\ tb.done = FALSE /\ pc["M"] # "done"
  BY DEF vMetricsTask, Look, Report, TaskAt, BenchEnded, MeterAll
<1>2. IsReady(k, "M")
  BY <1>0, <1>1, Runs
<1>3. ASSUME NEW t \in MeterTasks
      PROVE  xTaskCreate(k, t) \in KernelOf(MeterTasks) /\ IsReady(xTaskCreate(k, t), "M")
  <2>1. {t} \in SUBSET MeterTasks
    OBVIOUS
  <2>2. xTaskCreate(k, t) \in KernelOf(MeterTasks) /\ Stays(k, xTaskCreate(k, t), "M")
    BY <1>0, <2>1, Readied DEF xTaskCreate
  <2> QED
    BY <1>2, <2>2 DEF Stays
<1>4. LET r == xTaskCreate(xTaskCreate(k, "YA"), "YB")
      IN  r \in KernelOf(MeterTasks) /\ IsReady(r, "M")
  <2> DEFINE q == xTaskCreate(k, "YA")
  <2>1. "YA" \in MeterTasks /\ {"YB"} \in SUBSET MeterTasks
    BY DEF MeterTasks
  <2>2. q \in KernelOf(MeterTasks) /\ IsReady(q, "M")
    BY <1>3, <2>1
  <2> HIDE DEF q
  <2>3. xTaskCreate(q, "YB") \in KernelOf(MeterTasks) /\ Stays(q, xTaskCreate(q, "YB"), "M")
    BY <1>0, <2>1, <2>2, Readied DEF xTaskCreate
  <2>4. IsReady(xTaskCreate(q, "YB"), "M")
    BY <2>2, <2>3 DEF Stays
  <2> QED
    BY <2>3, <2>4 DEF q
\* It begins, it looks again later, it reports a phase, it ends.
<1>5. CASE /\ TaskAt("M", "start") /\ Goto("M", "phase L") /\ Silent /\ k' = xTaskCreate(k, "LAT")
  <2>1. pc["M"] = "start" /\ DOMAIN pc' = Tasks /\ pc'["M"] = "phase L" /\ tb' = tb
    BY <1>0, <1>5 DEF TaskAt, Goto, Silent
  <2>2. k' \in KernelOf(MeterTasks) /\ IsReady(k', "M")
    BY <1>3, <1>5 DEF MeterTasks
  <2> QED
    BY <1>0, <1>1, <2>1, <2>2 DEF MeterAll, Has
<1>6. CASE Silent /\ k' = vTaskDelay(k, "M", 1) /\ UNCHANGED pc
  <2>1. k' \in KernelOf(MeterTasks) /\ k'.sleep["M"] > 0
    <3>1. k' \in KernelOf(MeterTasks) /\ k'.sleep["M"] = 1
      BY <1>0, <1>6, Delays
    <3> QED
      BY <3>1
  <2>2. pc' = pc /\ tb' = tb
    BY <1>6 DEF Silent
  <2> QED
    BY <1>0, <1>1, <2>1, <2>2 DEF MeterAll
<1>7. ASSUME DOMAIN pc' = Tasks, pc'["M"] \in {"phase S", "phase T", "finish"},
             TbShape(tb'), tb'.line = tb.line, tb'.failed = tb.failed, tb'.done = tb.done,
             tb'.have = Has(pc'["M"]), k' \in KernelOf(MeterTasks), IsReady(k', "M")
      PROVE  MeterAll'
  BY <1>0, <1>1, <1>7 DEF MeterAll
<1>8. CASE TaskAt("M", "finish") /\ Goto("M", "done") /\ tb_soc_rtos_metrics("DONE") /\ k' = vTaskSuspend(k, "M")
  <2>1. pc["M"] = "finish" /\ DOMAIN pc' = Tasks /\ pc'["M"] = "done"
    BY <1>0, <1>8 DEF TaskAt, Goto
  <2>2. /\ TbShape(tb') /\ tb'.line = tb.line /\ tb'.failed = tb.failed
        /\ tb'.have = tb.have /\ tb'.done = TRUE
    BY <1>0, <1>8, MetricsLines
  <2>3. k' \in KernelOf(MeterTasks)
    BY <1>0, <1>8, Unreadied DEF vTaskSuspend
  <2> QED
    BY <1>0, <2>1, <2>2, <2>3 DEF MeterAll, Has
<1>9. CASE Report("phase L", data.lat_count >= LAT_N, "LAT", "phase S")
           /\ k' = xTaskCreate(xTaskCreate(k, "YA"), "YB")
  <2>1. TaskAt("M", "phase L") /\ Goto("M", "phase S") /\ tb_soc_rtos_metrics("LAT")
    BY <1>9 DEF Report
  <2>2. k' \in KernelOf(MeterTasks) /\ IsReady(k', "M")
    BY <1>4, <1>9
  <2>3. pc["M"] = "phase L" /\ DOMAIN pc' = Tasks /\ pc'["M"] = "phase S"
    BY <1>0, <2>1 DEF TaskAt, Goto
  <2>4. /\ TbShape(tb') /\ tb'.line = tb.line /\ tb'.failed = tb.failed
        /\ tb'.have = tb.have \cup {"LAT"} /\ tb'.done = tb.done
    <3>1. tb_soc_rtos_metrics("LAT") /\ "LAT" # "DONE" /\ TbShape(tb)
      BY <1>0, <2>1
    <3> QED
      BY <3>1, MetricsLines, Zenon
  <2>5. Has("phase S") = Has("phase L") \cup {"LAT"}
    BY DEF Has
  <2> QED
    BY <1>0, <1>7, <2>2, <2>3, <2>4, <2>5
<1>10. CASE Report("phase S", data.sw_done, "SW", "phase T") /\ UNCHANGED k
  <2>1. TaskAt("M", "phase S") /\ Goto("M", "phase T") /\ tb_soc_rtos_metrics("SW")
    BY <1>10 DEF Report
  <2>2. k' \in KernelOf(MeterTasks) /\ IsReady(k', "M")
    BY <1>0, <1>2, <1>10
  <2>3. pc["M"] = "phase S" /\ DOMAIN pc' = Tasks /\ pc'["M"] = "phase T"
    BY <1>0, <2>1 DEF TaskAt, Goto
  <2>4. /\ TbShape(tb') /\ tb'.line = tb.line /\ tb'.failed = tb.failed
        /\ tb'.have = tb.have \cup {"SW"} /\ tb'.done = tb.done
    <3>1. tb_soc_rtos_metrics("SW") /\ "SW" # "DONE" /\ TbShape(tb)
      BY <1>0, <2>1
    <3> QED
      BY <3>1, MetricsLines, Zenon
  <2>5. Has("phase T") = Has("phase S") \cup {"SW"}
    BY DEF Has
  <2> QED
    BY <1>0, <1>7, <2>2, <2>3, <2>4, <2>5
<1>11. CASE Report("phase T", data.tj_n >= TICK_TARGET, "TICK", "finish") /\ UNCHANGED k
  <2>1. TaskAt("M", "phase T") /\ Goto("M", "finish") /\ tb_soc_rtos_metrics("TICK")
    BY <1>11 DEF Report
  <2>2. k' \in KernelOf(MeterTasks) /\ IsReady(k', "M")
    BY <1>0, <1>2, <1>11
  <2>3. pc["M"] = "phase T" /\ DOMAIN pc' = Tasks /\ pc'["M"] = "finish"
    BY <1>0, <2>1 DEF TaskAt, Goto
  <2>4. /\ TbShape(tb') /\ tb'.line = tb.line /\ tb'.failed = tb.failed
        /\ tb'.have = tb.have \cup {"TICK"} /\ tb'.done = tb.done
    <3>1. tb_soc_rtos_metrics("TICK") /\ "TICK" # "DONE" /\ TbShape(tb)
      BY <1>0, <2>1
    <3> QED
      BY <3>1, MetricsLines, Zenon
  <2>5. Has("finish") = Has("phase T") \cup {"TICK"}
    BY DEF Has
  <2> QED
    BY <1>0, <1>7, <2>2, <2>3, <2>4, <2>5
<1> QED
  BY <1>5, <1>6, <1>8, <1>9, <1>10, <1>11 DEF vMetricsTask, Look, Report

LEMMA MeterInit == RtosInit => MeterInv
<1> SUFFICES ASSUME RtosInit, image = "rtos_metrics" PROVE MeterAll
  BY DEF MeterInv
<1>1. {"M"} \in SUBSET MeterTasks /\ k = StartScheduler({"M"})
  BY DEF RtosInit, Created, MeterTasks
<1>2. k \in KernelOf(MeterTasks) /\ IsReady(k, "M")
  BY <1>1, TaskSets, SchedulerStarts
<1>3. DOMAIN pc = Tasks /\ pc["M"] = "start"
  BY TaskFacts DEF RtosInit
<1>4. TbShape(tb) /\ tb.failed = FALSE /\ tb.done = FALSE /\ tb.line = << >> /\ tb.have = {}
  BY DEF RtosInit, Bench, TbShape
<1> QED
  BY <1>2, <1>3, <1>4 DEF MeterAll, Has

LEMMA MeterInvStep == MeterInv /\ [RtosNext]_rtosVars => MeterInv'
<1> SUFFICES ASSUME MeterInv, [RtosNext]_rtosVars, image' = "rtos_metrics" PROVE MeterAll'
  BY DEF MeterInv
<1>1. image = "rtos_metrics" /\ MeterAll
  BY ImageKept DEF MeterInv
<1>2. ASSUME UNCHANGED tb, DOMAIN pc' = Tasks, pc'["M"] = pc["M"],
             k' \in KernelOf(MeterTasks), Stays(k, k', "M")
      PROVE  MeterAll'
  BY <1>1, <1>2 DEF MeterAll, Stays, TbShape
<1>3. Stays(k, k, "M")
  BY DEF Stays
<1>4. CASE UNCHANGED rtosVars
  BY <1>1, <1>2, <1>3, <1>4 DEF rtosVars, MeterAll
<1>5. CASE RtosNext /\ TaskStep
  <2>1. RunningTask(k) \in MeterTasks \cup {"idle"}
    BY <1>1, TaskSets, Runs DEF MeterAll
  <2>2. vMetricsTask \/ (vLatTrigTask \/ vYieldA \/ vYieldB)
    BY <1>5, <2>1, OwnTasks
  <2> QED
    BY <1>1, <1>2, <1>5, <2>2, MeterStep, MeterOthers DEF RtosNext
<1>6. CASE Tick
  <2>1. k' \in KernelOf(MeterTasks) /\ Stays(k, k', "M")
    BY <1>1, <1>6, TaskSets, Ticks DEF Tick, MeterAll, MeterTasks
  <2>2. UNCHANGED <<pc, tb>>
    BY <1>6 DEF Tick
  <2> QED
    BY <1>1, <1>2, <2>1, <2>2 DEF MeterAll
<1>7. CASE freertos_risc_v_application_interrupt_handler
  <2>1. UNCHANGED <<pc, tb>> /\ k' = k
    BY <1>1, <1>7 DEF freertos_risc_v_application_interrupt_handler
  <2> QED
    BY <1>1, <1>2, <1>3, <2>1 DEF MeterAll
<1> QED
  BY <1>4, <1>5, <1>6, <1>7 DEF RtosNext

-----------------------------------------------------------------------------
(* All four.                                                               *)

LEMMA SemEnds == SemInv /\ image = "rtos_sem" => AppsReachEnd
<1> SUFFICES ASSUME SemAll, image = "rtos_sem" PROVE AppsReachEnd
  BY DEF SemInv
<1>1. tb.failed = FALSE /\ tb.line = << >>
  BY DEF SemAll, SemBench
<1>2. tb.done => tb.got = RAISES
  <2>1. RAISES \in Nat /\ data.raised \in Nat /\ data.sem_count \in Nat
    BY RtosAssumption DEF SemAll, SemTypeOK
  <2>2. data.sem_count <= data.raised
    BY <2>1 DEF SemAll, SemOrder, Count
  <2> QED
    BY <2>1, <2>2 DEF SemAll, SemOrder, SemBench
<1>3. Hung => tb.done
  <2> SUFFICES ASSUME Hung, ~tb.done PROVE FALSE
    OBVIOUS
  <2>1. ~IsReady(k, "WAIT") /\ ~IsReady(k, "TRIG") /\ ~(k.sleep["TRIG"] > 0) /\ ~msip
    BY TaskFacts, HungFacts
  <2>2. pc["WAIT"] = "start" /\ data.sem_count < RAISES /\ data.raised = RAISES
    BY <2>1 DEF SemAll, SemTypeOK, SemOrder, SemBench
  <2>3. ~k.sem
    BY <2>1 DEF SemAll, SemOrder
  <2>4. data.raised = data.sem_count + 0 + 0
    BY <2>1, <2>3 DEF SemAll, SemOrder, Count
  <2> QED
    BY <2>2, <2>4, RtosAssumption DEF SemAll, SemTypeOK
<1> QED
  BY <1>1, <1>2, <1>3 DEF AppsReachEnd, BenchPasses, BenchEnded

LEMMA QueueEnds == QueueInv /\ image = "rtos_q" => AppsReachEnd
<1> SUFFICES ASSUME QueueAll, image = "rtos_q" PROVE AppsReachEnd
  BY DEF QueueInv
<1>1. tb.failed = FALSE /\ tb.line = << >>
  BY DEF QueueAll, QueueTypeOK
<1>2. Hung => tb.done
  <2> SUFFICES ASSUME Hung, ~tb.done PROVE FALSE
    OBVIOUS
  <2>1. ~IsReady(k, "CONS") /\ ~IsReady(k, "PROD")
    BY TaskFacts, HungFacts
  <2>2. pc["CONS"] = "start" /\ data.expect <= N_ITEMS /\ Len(k.queue) = 0
    BY <2>1 DEF QueueAll, QueueTypeOK, QueueOrder
  <2>3. data.sent = N_ITEMS
    BY <2>1, <2>2, QueueTaskFacts DEF QueueAll, QueueOrder
  <2>4. data.sent = data.expect - 1 + 0
    BY <2>2 DEF QueueAll, QueueOrder
  <2> QED
    BY <2>2, <2>3, <2>4, QueueTaskFacts DEF QueueAll, QueueTypeOK
<1> QED
  BY <1>1, <1>2 DEF AppsReachEnd, BenchPasses, BenchEnded

LEMMA PrintEnds == PrintInv /\ image = "rtos" => AppsReachEnd
<1> SUFFICES ASSUME PrintAll, image = "rtos" PROVE AppsReachEnd
  BY DEF PrintInv
<1>1. ~Hung
  BY TaskFacts, HungFacts DEF PrintAll, PrintTasks
<1>2. DOMAIN tb.line = 1..Len(tb.line)
  BY DEF PrintAll
<1> QED
  BY <1>1, <1>2 DEF AppsReachEnd, BenchPasses, PrintAll

LEMMA MeterEnds == MeterInv /\ image = "rtos_metrics" => AppsReachEnd
<1> SUFFICES ASSUME MeterAll, image = "rtos_metrics" PROVE AppsReachEnd
  BY DEF MeterInv
<1>1. ~tb.failed /\ tb.line = << >>
  BY DEF MeterAll
<1>2. Hung => tb.done
  BY TaskFacts, HungFacts DEF MeterAll
<1>3. tb.done => tb.have = {"LAT", "SW", "TICK"}
  BY DEF MeterAll, Has
<1> QED
  BY <1>1, <1>2, <1>3 DEF AppsReachEnd, BenchPasses, BenchEnded

\* rtos.c:9-10, rtos_q.c:4-6, rtos_sem.c, rtos_metrics.c: whatever the number of items, raises,
\* samples and trips, and wherever the ticks and the interrupts fall, none of the applications
\* comes to a state in which nothing will run before its bench has seen all it waits for, the
\* queue delivers in order, and the first printer's line is never cut by the other's.
THEOREM ApplicationsReachTheirEnd == RtosSpec => []AppsReachEnd
<1>1. RtosInit => image \in Images
  BY DEF RtosInit
<1>2. image \in Images /\ [RtosNext]_rtosVars => (image \in Images)'
  BY ImageKept
<1>3. RtosSpec => [](image \in Images)
  BY <1>1, <1>2, PTL DEF RtosSpec
<1>4. RtosSpec => []QueueInv
  BY QueueInit, QueueStep, PTL DEF RtosSpec
<1>5. RtosSpec => []PrintInv
  BY PrintInit, PrintInvStep, PTL DEF RtosSpec
<1>6. RtosSpec => []MeterInv
  BY MeterInit, MeterInvStep, PTL DEF RtosSpec
<1>7. image \in Images /\ SemInv /\ QueueInv /\ PrintInv /\ MeterInv => AppsReachEnd
  BY SemEnds, QueueEnds, PrintEnds, MeterEnds DEF Images
<1> QED
  BY <1>3, <1>4, <1>5, <1>6, <1>7, SemInvHolds, PTL

-----------------------------------------------------------------------------
(* The shell's gpu command.                                                *)

Awaiting == {"take", "woken", "poll"}

\* While no launch found the semaphore full, the completion of a kernel is in one place
\* at a time, and it is cmd_gpu that waits for it.
OneEnd ==
  /\ "sem" \in DOMAIN sk
  /\ ~stale =>
       /\ gpu => ~sk.sem /\ ~latch
       /\ latch => ~sk.sem
       /\ at \notin Awaiting => ~gpu /\ ~latch

\* What the calls leave of the semaphore.
LEMMA SemKept ==
  ASSUME NEW q, "sem" \in DOMAIN q
  PROVE  /\ \A ts : MakeReady(q, ts).sem = q.sem /\ "sem" \in DOMAIN MakeReady(q, ts)
         /\ \A t : Unready(q, t).sem = q.sem /\ "sem" \in DOMAIN Unready(q, t)
         /\ \A t, n : vTaskDelay(q, t, n).sem = q.sem /\ "sem" \in DOMAIN vTaskDelay(q, t, n)
         /\ \A t : taskYIELD(q, t).sem = q.sem /\ "sem" \in DOMAIN taskYIELD(q, t)
         /\ \A t, what, n : Await(q, t, what, n).sem = q.sem /\ "sem" \in DOMAIN Await(q, t, what, n)
BY DEF MakeReady, Unready, vTaskDelay, taskYIELD, Await

LEMMA SemTicks ==
  ASSUME NEW q, "sem" \in DOMAIN q
  PROVE  xTaskIncrementTick(q).sem = q.sem /\ "sem" \in DOMAIN xTaskIncrementTick(q)
<1> DEFINE slept == [q EXCEPT !.sleep = [t \in Tasks |-> IF @[t] > 0 THEN @[t] - 1 ELSE 0]]
           woken == MakeReady(slept, {t \in Tasks : q.sleep[t] = 1})
<1>1. slept.sem = q.sem /\ "sem" \in DOMAIN slept
  OBVIOUS
<1>2. woken.sem = q.sem /\ "sem" \in DOMAIN woken
  BY <1>1, SemKept
<1>3. xTaskIncrementTick(q) = IF RunningTask(q) = "idle" THEN woken ELSE taskYIELD(woken, RunningTask(q))
  BY DEF xTaskIncrementTick
<1> HIDE DEF woken
<1> QED
  BY <1>2, <1>3, SemKept

LEMMA OneEndStep == OneEnd /\ [ShellNext]_shellVars => OneEnd'
<1> SUFFICES ASSUME OneEnd, [ShellNext]_shellVars PROVE OneEnd'
  OBVIOUS
<1> USE DEF OneEnd, Awaiting
<1>1. CASE Type
  BY <1>1 DEF Type, gpuState
<1>2. CASE vConsoleTask
  BY <1>2 DEF vConsoleTask, Console
<1>3. CASE vConsoleTask_Sleeps
  BY <1>3, SemKept DEF vConsoleTask_Sleeps, Console
<1>4. CASE Dispatch
  <2>1. at' \in {"launch", "quit", "reboot", "prompt"}
    BY <1>4 DEF Dispatch
  <2> QED
    BY <1>4, <2>1 DEF Dispatch, Console
<1>5. CASE Prompt
  BY <1>5 DEF Prompt, Console
<1>6. CASE cmd_reboot
  <2>1. "sem" \in DOMAIN KernelReset
    BY DEF KernelReset
  <2> QED
    BY <1>6, <2>1, SemKept DEF cmd_reboot, Console
<1>7. CASE cmd_gpu
  BY <1>7 DEF cmd_gpu, Console
<1>8. CASE xSemaphoreTake
  BY <1>8, SemKept DEF xSemaphoreTake, Console, SemaphoreTaken
<1>9. CASE cmd_gpu_poll
  BY <1>9 DEF cmd_gpu_poll, Console
<1>10. CASE cmd_gpu_read
  BY <1>10 DEF cmd_gpu_read, Console
<1>11. CASE KernelEnds
  BY <1>11 DEF KernelEnds
<1>12. CASE application_interrupt_handler
  <2>1. "sem" \in DOMAIN sk'
    <3>1. "sem" \in DOMAIN [sk EXCEPT !.sem = TRUE]
      OBVIOUS
    <3> QED
      BY <1>12, <3>1, SemKept DEF application_interrupt_handler, xSemaphoreGiveFromISR, Wake
  <2> QED
    BY <1>12, <2>1 DEF application_interrupt_handler
<1>13. CASE SysTick
  BY <1>13, SemTicks DEF SysTick, gpuState
<1>14. CASE UNCHANGED shellVars
  BY <1>14 DEF shellVars
<1> QED
  BY <1>1, <1>2, <1>3, <1>4, <1>5, <1>6, <1>7, <1>8, <1>9, <1>10, <1>11, <1>12, <1>13, <1>14 DEF ShellNext

\* shell.c:174-183: cmd_gpu reads the results of a kernel that is over, whatever it was
\* woken by, as long as no launch found the semaphore full.
THEOREM ResultsAreOwn == ShellSpec => []GpuResultsOwn
<1>1. ShellInit => OneEnd
  <2>1. "sem" \in DOMAIN KernelReset
    BY DEF KernelReset
  <2> QED
    BY <2>1, SemKept DEF ShellInit, OneEnd
<1>2. OneEnd => GpuResultsOwn
  BY DEF OneEnd, GpuResultsOwn, Awaiting
<1> QED
  BY <1>1, <1>2, OneEndStep, PTL DEF ShellSpec

-----------------------------------------------------------------------------
(* Words on the screen.  The terminal shows the line and blanks behind it; *)
(* the tokenizer cuts the line, Words reads the screen.                    *)

Shown(s) == [i \in 1..LINE_MAX |-> IF i <= Len(s) THEN s[i] ELSE Blank]

Fits(s) == s \in Seq(Letters) /\ Len(s) <= LINE_MAX - 1

WordAt(s, i, j) == /\ \A m \in i..j : s[m] # Blank
                   /\ i = 1 \/ s[i - 1] = Blank
                   /\ j = Len(s) \/ s[j + 1] = Blank
StartsOf(s) == {i \in DOMAIN s : \E j \in i..Len(s) : WordAt(s, i, j)}
RankIn(S, i) == Cardinality({m \in S : m <= i})

LEMMA WordsByRank ==
  ASSUME NEW s
  PROVE  Words(s) = [n \in 1..Cardinality(StartsOf(s)) |->
           LET i == CHOOSE i \in StartsOf(s) : RankIn(StartsOf(s), i) = n
           IN  SubSeq(s, i, CHOOSE j \in i..Len(s) : WordAt(s, i, j))]
  BY DEF Words, StartsOf, WordAt, RankIn

LEMMA ShownIs ==
  ASSUME NEW s, Fits(s)
  PROVE  /\ Len(s) \in Nat /\ LINE_MAX \in Nat /\ LINE_MAX >= 2
         /\ Len(Shown(s)) = LINE_MAX /\ DOMAIN Shown(s) = 1..LINE_MAX
         /\ \A i \in 1..Len(s) : Shown(s)[i] = s[i]
         /\ \A i \in 1..LINE_MAX : i > Len(s) => Shown(s)[i] = Blank
<1>1. Len(s) \in Nat /\ LINE_MAX \in Nat /\ LINE_MAX >= 2 /\ Len(s) <= LINE_MAX - 1
  BY ShellAssumption DEF Fits
<1> QED
  BY <1>1 DEF Shown

LEMMA SameSequence ==
  ASSUME NEW S, NEW s \in Seq(S), NEW t \in Seq(S), Len(s) = Len(t), \A i \in 1..Len(s) : s[i] = t[i]
  PROVE  s = t
  OBVIOUS

LEMMA FirstHit ==
  ASSUME NEW S, NEW t \in Seq(S), NEW from \in 1..(Len(t) + 1), NEW blank \in BOOLEAN
  PROVE  LET h == FirstAt(t, from, blank) IN
         /\ h \in from..(Len(t) + 1)
         /\ \A m \in from..(h - 1) : (t[m] = Blank) # blank
         /\ h <= Len(t) => (t[h] = Blank) = blank
<1> DEFINE hits == {i \in from..Len(t) : (t[i] = Blank) = blank}
           h == FirstAt(t, from, blank)
<1>1. Len(t) \in Nat /\ from \in Nat
  OBVIOUS
<1>2. h = IF hits = {} THEN Len(t) + 1 ELSE CHOOSE x \in hits : \A y \in hits : x <= y
  BY DEF FirstAt, Min
<1>3. CASE hits = {}
  <2>1. h = Len(t) + 1
    BY <1>2, <1>3
  <2>2. \A m \in from..Len(t) : (t[m] = Blank) # blank
    BY <1>3
  <2> HIDE DEF hits, h
  <2> QED
    BY <1>1, <2>1, <2>2 DEF h
<1>4. CASE hits # {}
  <2>1. h \in hits /\ \A y \in hits : h <= y
    <3>1. hits \in SUBSET Nat
      BY <1>1
    <3> HIDE DEF hits, h
    <3>2. \E x \in hits : \A y \in hits : x <= y
      BY <1>4, <3>1, Least
    <3> QED
      BY <1>2, <1>4, <3>2
  <2>2. h \in from..Len(t) /\ (t[h] = Blank) = blank
    BY <2>1
  <2>3. ASSUME NEW m \in from..(h - 1) PROVE (t[m] = Blank) # blank
    <3>1. m \in from..Len(t) /\ ~(h <= m)
      BY <1>1, <2>2
    <3> QED
      BY <2>1, <3>1
  <2> HIDE DEF h
  <2> QED
    BY <1>1, <2>2, <2>3 DEF h
<1> QED
  BY <1>3, <1>4

LEMMA SuffixIs ==
  ASSUME NEW S, NEW s \in Seq(S), NEW p \in 1..(Len(s) + 2)
  PROVE  LET t == SubSeq(s, p, Len(s)) IN
         /\ t \in Seq(S) /\ Len(t) = IF p <= Len(s) THEN Len(s) - p + 1 ELSE 0
         /\ \A m \in 1..Len(t) : t[m] = s[p + m - 1]
  OBVIOUS

LEMMA NextToken ==
  ASSUME NEW s, Fits(s), NEW p \in 1..(Len(s) + 2), p = 1 \/ Shown(s)[p - 1] = Blank
  PROVE  LET t == next_tok(SubSeq(s, p, Len(s))) IN
         \/ t.tok = << >> /\ t.rest = << >> /\ \A m \in p..LINE_MAX : Shown(s)[m] = Blank
         \/ \E a \in p..Len(s) : \E b \in a..Len(s) :
              /\ \A m \in p..(a - 1) : Shown(s)[m] = Blank
              /\ WordAt(Shown(s), a, b)
              /\ t.tok = SubSeq(Shown(s), a, b)
              /\ t.rest = SubSeq(s, b + 2, Len(s))
<1> DEFINE t == SubSeq(s, p, Len(s))
           i == FirstAt(t, 1, FALSE)
           j == FirstAt(t, i, TRUE)
<1>1. /\ Len(s) \in Nat /\ LINE_MAX \in Nat /\ LINE_MAX >= Len(s) + 1
      /\ Len(Shown(s)) = LINE_MAX /\ DOMAIN Shown(s) = 1..LINE_MAX
      /\ \A m \in 1..Len(s) : Shown(s)[m] = s[m]
      /\ \A m \in 1..LINE_MAX : m > Len(s) => Shown(s)[m] = Blank
      /\ s \in Seq(Letters)
  BY ShownIs DEF Fits
<1>2. /\ t \in Seq(Letters) /\ Len(t) = IF p <= Len(s) THEN Len(s) - p + 1 ELSE 0
      /\ \A m \in 1..Len(t) : t[m] = s[p + m - 1]
  BY <1>1, SuffixIs
<1>3. next_tok(t).tok = SubSeq(t, i, j - 1) /\ next_tok(t).rest = SubSeq(t, j + 1, Len(t))
  BY DEF next_tok
<1> HIDE DEF t
<1>4. /\ i \in 1..(Len(t) + 1)
      /\ \A m \in 1..(i - 1) : t[m] = Blank
      /\ i <= Len(t) => t[i] # Blank
  <2>1. 1 \in 1..(Len(t) + 1) /\ FALSE \in BOOLEAN
    BY <1>2
  <2> QED
    BY <1>2, <2>1, FirstHit
<1>5. /\ j \in i..(Len(t) + 1)
      /\ \A m \in i..(j - 1) : t[m] # Blank
      /\ j <= Len(t) => t[j] = Blank
  BY <1>2, <1>4, FirstHit
<1> HIDE DEF i, j
<1>6. Len(t) \in Nat /\ i \in Nat /\ j \in Nat
  BY <1>1, <1>2, <1>4, <1>5
<1>7. CASE i = Len(t) + 1
  <2>1. j = Len(t) + 1
    BY <1>5, <1>6, <1>7
  <2>2. SubSeq(t, i, j - 1) = << >> /\ SubSeq(t, j + 1, Len(t)) = << >>
    BY <1>6, <1>7, <2>1, SubSeqEmpty
  <2>3. ASSUME NEW m \in p..LINE_MAX PROVE Shown(s)[m] = Blank
    <3>1. CASE m <= Len(s)
      <4>1. m - p + 1 \in 1..(i - 1) /\ m - p + 1 \in 1..Len(t) /\ p + (m - p + 1) - 1 = m
        BY <1>1, <1>2, <1>6, <1>7, <3>1
      <4>2. t[m - p + 1] = Blank /\ t[m - p + 1] = s[m]
        BY <1>2, <1>4, <4>1
      <4>3. m \in 1..Len(s)
        BY <1>1, <3>1
      <4> QED
        BY <1>1, <4>2, <4>3
    <3> QED
      BY <1>1, <3>1
  <2> QED
    BY <1>3, <2>2, <2>3 DEF t
<1>8. CASE i <= Len(t)
  <2> DEFINE a == p + i - 1
             b == p + j - 2
  <2>1. j > i
    BY <1>4, <1>5, <1>6, <1>8
  <2>2. a \in p..Len(s) /\ b \in a..Len(s) /\ a \in Nat /\ b \in Nat /\ p <= Len(s)
    BY <1>1, <1>2, <1>4, <1>5, <1>6, <1>8, <2>1
  <2>3. ASSUME NEW m \in p..(a - 1) PROVE Shown(s)[m] = Blank
    <3>1. m - p + 1 \in 1..(i - 1) /\ m - p + 1 \in 1..Len(t) /\ p + (m - p + 1) - 1 = m /\ m \in 1..Len(s)
      BY <1>1, <1>2, <1>6, <1>8, <2>2
    <3>2. t[m - p + 1] = Blank /\ t[m - p + 1] = s[m]
      BY <1>2, <1>4, <3>1
    <3> QED
      BY <1>1, <3>1, <3>2
  <2>4. ASSUME NEW m \in a..b PROVE Shown(s)[m] # Blank
    <3>1. m - p + 1 \in i..(j - 1) /\ m - p + 1 \in 1..Len(t) /\ p + (m - p + 1) - 1 = m /\ m \in 1..Len(s)
      BY <1>1, <1>2, <1>5, <1>6, <1>8, <2>2
    <3>2. t[m - p + 1] # Blank /\ t[m - p + 1] = s[m]
      BY <1>2, <1>5, <3>1
    <3> QED
      BY <1>1, <3>1, <3>2
  <2>5. a = 1 \/ Shown(s)[a - 1] = Blank
    <3>1. CASE i = 1
      BY <1>1, <3>1
    <3>2. CASE i > 1
      <4>1. a - 1 \in p..(a - 1)
        BY <1>6, <2>2, <3>2
      <4> QED
        BY <2>3, <4>1
    <3> QED
      BY <1>4, <1>6, <3>1, <3>2
  <2>6. Shown(s)[b + 1] = Blank
    <3>1. CASE j <= Len(t)
      <4>1. t[j] = Blank /\ t[j] = s[p + j - 1] /\ p + j - 1 = b + 1 /\ b + 1 \in 1..Len(s)
        BY <1>1, <1>2, <1>5, <1>6, <2>1, <2>2, <3>1
      <4> QED
        BY <1>1, <4>1
    <3>2. CASE j = Len(t) + 1
      <4>1. b + 1 = Len(s) + 1 /\ b + 1 \in 1..LINE_MAX
        BY <1>1, <1>2, <1>6, <2>2, <3>2
      <4> QED
        BY <1>1, <4>1
    <3> QED
      BY <1>5, <1>6, <3>1, <3>2
  <2>7. WordAt(Shown(s), a, b)
    BY <2>4, <2>5, <2>6 DEF WordAt
  <2>8. SubSeq(t, i, j - 1) = SubSeq(Shown(s), a, b)
    <3>1. \A m \in i..(j - 1) : t[m] \in Letters
      BY <1>2, <1>4, <1>5, <1>6
    <3>2. /\ SubSeq(t, i, j - 1) \in Seq(Letters) /\ Len(SubSeq(t, i, j - 1)) = j - i
          /\ \A m \in 1..(j - i) : SubSeq(t, i, j - 1)[m] = t[i + m - 1]
      BY <1>6, <2>1, <3>1, SubSeqProperties
    <3>3. \A m \in a..b : Shown(s)[m] \in Letters
      <4> TAKE m \in a..b
      <4>1. m \in 1..Len(s)
        BY <1>1, <2>2
      <4> QED
        BY <1>1, <4>1
    <3> HIDE DEF a, b
    <3>4. /\ SubSeq(Shown(s), a, b) \in Seq(Letters) /\ Len(SubSeq(Shown(s), a, b)) = b - a + 1
          /\ \A m \in 1..(b - a + 1) : SubSeq(Shown(s), a, b)[m] = Shown(s)[a + m - 1]
      BY <2>2, <3>3, SubSeqProperties
    <3>5. b - a + 1 = j - i
      BY <1>1, <1>6 DEF a, b
    <3>6. ASSUME NEW m \in 1..(j - i) PROVE t[i + m - 1] = Shown(s)[a + m - 1]
      <4>1. i + m - 1 \in 1..Len(t) /\ p + (i + m - 1) - 1 = a + m - 1 /\ a + m - 1 \in 1..Len(s)
        BY <1>1, <1>2, <1>5, <1>6, <2>1, <2>2 DEF a, b
      <4> QED
        BY <1>1, <1>2, <4>1
    <3>7. /\ Len(SubSeq(t, i, j - 1)) = Len(SubSeq(Shown(s), a, b))
          /\ \A m \in 1..Len(SubSeq(t, i, j - 1)) : SubSeq(t, i, j - 1)[m] = SubSeq(Shown(s), a, b)[m]
      BY <3>2, <3>4, <3>5, <3>6
    <3> QED
      BY <3>2, <3>4, <3>7, SameSequence
  <2>9. SubSeq(t, j + 1, Len(t)) = SubSeq(s, b + 2, Len(s))
    <3>1. /\ SubSeq(t, j + 1, Len(t)) \in Seq(Letters)
          /\ Len(SubSeq(t, j + 1, Len(t))) = IF j + 1 <= Len(t) THEN Len(t) - j ELSE 0
          /\ \A m \in 1..(Len(t) - j) : SubSeq(t, j + 1, Len(t))[m] = t[j + m]
      <4>1. \A m \in (j + 1)..Len(t) : t[m] \in Letters
        BY <1>2, <1>6
      <4> QED
        BY <1>6, <4>1, SubSeqProperties
    <3>2. b + 2 \in 1..(Len(s) + 2)
      BY <1>1, <2>2
    <3>3. /\ SubSeq(s, b + 2, Len(s)) \in Seq(Letters)
          /\ Len(SubSeq(s, b + 2, Len(s))) = IF b + 2 <= Len(s) THEN Len(s) - (b + 2) + 1 ELSE 0
          /\ \A m \in 1..Len(SubSeq(s, b + 2, Len(s))) : SubSeq(s, b + 2, Len(s))[m] = s[b + 2 + m - 1]
      <4> HIDE DEF b
      <4> QED
        BY <1>1, <3>2, SuffixIs
    <3>4. Len(SubSeq(s, b + 2, Len(s))) = Len(SubSeq(t, j + 1, Len(t)))
      BY <1>1, <1>2, <1>5, <1>6, <2>2, <3>1, <3>3
    <3>5. ASSUME NEW m \in 1..Len(SubSeq(t, j + 1, Len(t))) PROVE t[j + m] = s[b + 2 + m - 1]
      <4>1. j + m \in 1..Len(t) /\ p + (j + m) - 1 = b + 2 + m - 1
        BY <1>1, <1>6, <3>1
      <4> QED
        BY <1>2, <4>1
    <3>6. \A m \in 1..Len(SubSeq(t, j + 1, Len(t))) : m \in 1..(Len(t) - j)
      BY <1>6, <3>1
    <3> QED
      BY <3>1, <3>3, <3>4, <3>5, <3>6, SameSequence
  <2> HIDE DEF a, b
  <2>10. next_tok(t).tok = SubSeq(Shown(s), a, b) /\ next_tok(t).rest = SubSeq(s, b + 2, Len(s))
    BY <1>3, <2>8, <2>9
  <2> QED
    BY <2>2, <2>3, <2>7, <2>10 DEF t
<1>9. i = Len(t) + 1 \/ i <= Len(t)
  BY <1>4, <1>6
<1> QED
  BY <1>7, <1>8, <1>9

LEMMA RankFacts ==
  ASSUME NEW N \in Nat, NEW S \in SUBSET (1..N)
  PROVE  /\ IsFiniteSet(S) /\ Cardinality(S) \in Nat
         /\ \A i \in S : RankIn(S, i) \in 1..Cardinality(S)
         /\ \A i, h \in S : i < h => RankIn(S, i) < RankIn(S, h)
<1>1. IsFiniteSet(S) /\ Cardinality(S) \in Nat
  <2>1. IsFiniteSet(1..N)
    BY FS_Interval
  <2> QED
    BY <2>1, FS_Subset, FS_CardinalityType
<1>2. \A T \in SUBSET S : IsFiniteSet(T) /\ Cardinality(T) \in Nat /\ Cardinality(T) <= Cardinality(S)
  BY <1>1, FS_Subset, FS_CardinalityType
<1>3. ASSUME NEW i \in S, NEW h \in S, i < h PROVE RankIn(S, i) < RankIn(S, h)
  <2> DEFINE A == {m \in S : m <= i}
             B == {m \in S : m <= h}
  <2>0. i \in Int /\ h \in Int /\ \A m \in S : m \in Int
    <3>1. \A m \in S : m \in 1..N
      OBVIOUS
    <3>2. \A m \in 1..N : m \in Int
      OBVIOUS
    <3> QED
      BY <3>1, <3>2, Zenon
  <2>1. A \in SUBSET S /\ B \in SUBSET S /\ A \subseteq B /\ h \in B /\ h \notin A
    <3>1. \A m \in S : m <= i => m <= h
      BY <1>3, <2>0
    <3>2. h <= h /\ ~(h <= i)
      BY <1>3, <2>0
    <3> QED
      BY <3>1, <3>2
  <2> HIDE DEF A, B
  <2>2. IsFiniteSet(A) /\ IsFiniteSet(B) /\ Cardinality(A) \in Nat /\ Cardinality(B) \in Nat
    BY <1>2, <2>1
  <2>3. Cardinality(A \cup {h}) = Cardinality(A) + 1 /\ A \cup {h} \subseteq B
    BY <2>1, <2>2, FS_AddElement
  <2>4. Cardinality(A \cup {h}) <= Cardinality(B)
    BY <2>2, <2>3, FS_Subset
  <2> QED
    BY <2>2, <2>3, <2>4 DEF RankIn, A, B
<1>4. ASSUME NEW i \in S PROVE RankIn(S, i) \in 1..Cardinality(S)
  <2> DEFINE A == {m \in S : m <= i}
  <2>1. A \in SUBSET S /\ i \in A
    OBVIOUS
  <2> HIDE DEF A
  <2>2. Cardinality(A) \in Nat /\ Cardinality(A) <= Cardinality(S) /\ IsFiniteSet(A)
    BY <1>2, <2>1
  <2>3. Cardinality(A) # 0
    BY <2>1, <2>2, FS_EmptySet
  <2> QED
    BY <1>1, <2>2, <2>3 DEF RankIn, A
<1> QED
  BY <1>1, <1>3, <1>4

LEMMA StartsIn ==
  ASSUME NEW s, Fits(s)
  PROVE  /\ StartsOf(Shown(s)) \in SUBSET (1..LINE_MAX)
         /\ \A i \in 1..LINE_MAX : \A b \in i..LINE_MAX : WordAt(Shown(s), i, b) => i \in StartsOf(Shown(s))
  BY ShownIs DEF StartsOf

LEMMA NthWord ==
  ASSUME NEW s, Fits(s), NEW a \in 1..LINE_MAX, NEW b \in a..LINE_MAX, WordAt(Shown(s), a, b)
  PROVE  /\ RankIn(StartsOf(Shown(s)), a) \in 1..Len(Words(Shown(s)))
         /\ Words(Shown(s))[RankIn(StartsOf(Shown(s)), a)] = SubSeq(Shown(s), a, b)
<1> DEFINE c == Shown(s)
           S == StartsOf(c)
           Word(n) == LET i == CHOOSE i \in S : RankIn(S, i) = n
                      IN  SubSeq(c, i, CHOOSE j \in i..Len(c) : WordAt(c, i, j))
<1>1. LINE_MAX \in Nat /\ S \in SUBSET (1..LINE_MAX) /\ a \in S /\ Len(c) = LINE_MAX
  BY ShownIs, StartsIn
<1>2. /\ Cardinality(S) \in Nat /\ RankIn(S, a) \in 1..Cardinality(S)
      /\ \A i, h \in S : i < h => RankIn(S, i) < RankIn(S, h)
      /\ \A i \in S : RankIn(S, i) \in 1..Cardinality(S)
  <2> HIDE DEF S
  <2> QED
    BY <1>1, RankFacts
<1>3. Words(c) = [n \in 1..Cardinality(S) |-> Word(n)]
  BY WordsByRank
<1>4. (CHOOSE i \in S : RankIn(S, i) = RankIn(S, a)) = a
  <2> HIDE DEF S
  <2>1. \A i \in S : RankIn(S, i) = RankIn(S, a) => i = a
    <3> TAKE i \in S
    <3>1. i \in Nat /\ a \in Nat /\ RankIn(S, i) \in Nat /\ RankIn(S, a) \in Nat
      BY <1>1, <1>2
    <3> QED
      BY <1>1, <1>2, <3>1
  <2> QED
    BY <1>1, <2>1
<1>5. (CHOOSE j \in a..Len(c) : WordAt(c, a, j)) = b
  <2>1. \A j \in a..Len(c) : WordAt(c, a, j) => j = b
    <3> SUFFICES ASSUME NEW j \in a..Len(c), WordAt(c, a, j) PROVE j = b
      OBVIOUS
    <3>1. ~(j < b)
      <4> SUFFICES ASSUME j < b PROVE FALSE
        OBVIOUS
      <4>1. j + 1 \in a..b /\ j # Len(c)
        BY <1>1
      <4> QED
        BY <4>1 DEF WordAt
    <3>2. ~(b < j)
      <4> SUFFICES ASSUME b < j PROVE FALSE
        OBVIOUS
      <4>1. b + 1 \in a..j /\ b # Len(c)
        BY <1>1
      <4> QED
        BY <4>1 DEF WordAt
    <3> QED
      BY <1>1, <3>1, <3>2
  <2> HIDE DEF c
  <2> QED
    BY <1>1, <2>1
<1>6. Len(Words(c)) = Cardinality(S)
  <2> HIDE DEF Word, S, c
  <2> QED
    BY <1>2, <1>3
<1>7. Word(RankIn(S, a)) = SubSeq(c, a, b)
  <2> HIDE DEF S, c
  <2> QED
    BY <1>4, <1>5
<1> HIDE DEF Word, S, c
<1>8. Words(c)[RankIn(S, a)] = SubSeq(c, a, b) /\ RankIn(S, a) \in 1..Len(Words(c))
  BY <1>2, <1>3, <1>6, <1>7
<1> QED
  BY <1>8 DEF S, c

\* n words begin in front of position p of the line, where the tokenizer looks next.
ScannedTo(s, p, n) ==
  /\ p \in 1..(Len(s) + 2) /\ (p = 1 \/ Shown(s)[p - 1] = Blank)
  /\ n = Cardinality({m \in StartsOf(Shown(s)) : m < p})

LEMMA ScanStarts == ASSUME NEW s, Fits(s) PROVE ScannedTo(s, 1, 0)
<1>1. StartsOf(Shown(s)) \in SUBSET (1..LINE_MAX) /\ LINE_MAX \in Nat /\ Len(s) \in Nat
  BY StartsIn, ShownIs
<1>2. {m \in StartsOf(Shown(s)) : m < 1} = {}
  BY <1>1
<1> QED
  BY <1>1, <1>2, FS_EmptySet DEF ScannedTo

LEMMA ScanGoesOn ==
  ASSUME NEW s, Fits(s), NEW p, NEW n, ScannedTo(s, p, n)
  PROVE  LET t == next_tok(SubSeq(s, p, Len(s)))
             w == Words(Shown(s))
         IN  \/ t.tok = << >> /\ t.rest = << >> /\ Len(w) = n
             \/ /\ t.tok \in Seq(Letters) /\ t.tok # << >> /\ n + 1 \in 1..Len(w) /\ w[n + 1] = t.tok
                /\ \E q : ScannedTo(s, q, n + 1) /\ t.rest = SubSeq(s, q, Len(s))
<1> DEFINE c == Shown(s)
           S == StartsOf(c)
           t == next_tok(SubSeq(s, p, Len(s)))
           w == Words(c)
           Earlier == {m \in S : m < p}
<1>1. /\ Len(s) \in Nat /\ LINE_MAX \in Nat /\ LINE_MAX >= Len(s) + 1 /\ Len(c) = LINE_MAX
      /\ S \in SUBSET (1..LINE_MAX)
  BY ShownIs, StartsIn DEF Fits
<1>2. p \in 1..(Len(s) + 2) /\ (p = 1 \/ c[p - 1] = Blank) /\ n = Cardinality(Earlier)
  BY DEF ScannedTo
<1>3. IsFiniteSet(S) /\ Cardinality(S) \in Nat /\ IsFiniteSet(Earlier) /\ n \in Nat
  <2> HIDE DEF S
  <2>1. IsFiniteSet(S) /\ Cardinality(S) \in Nat
    BY <1>1, RankFacts
  <2> QED
    BY <1>2, <2>1, FS_Subset, FS_CardinalityType
<1>4. \A m \in S : c[m] # Blank
  <2> SUFFICES ASSUME NEW m \in S PROVE c[m] # Blank
    OBVIOUS
  <2>1. PICK j \in m..Len(c) : WordAt(c, m, j)
    BY DEF StartsOf
  <2>2. m \in m..j
    BY <1>1, <2>1
  <2> QED
    BY <2>1, <2>2 DEF WordAt
<1>5. Len(w) = Cardinality(S)
  <2>1. w = [h \in 1..Cardinality(S) |-> LET i == CHOOSE i \in S : RankIn(S, i) = h
                      IN  SubSeq(c, i, CHOOSE j \in i..Len(c) : WordAt(c, i, j))]
    BY WordsByRank
  <2> HIDE DEF S, c, w
  <2> QED
    BY <1>3, <2>1
<1>6. CASE t.tok = << >> /\ t.rest = << >> /\ \A m \in p..LINE_MAX : c[m] = Blank
  <2>1. Earlier = S
    <3> SUFFICES ASSUME NEW m \in S PROVE m < p
      OBVIOUS
    <3>1. m \in 1..LINE_MAX /\ m \notin p..LINE_MAX
      BY <1>1, <1>4, <1>6
    <3> QED
      BY <1>1, <1>2, <3>1
  <2> QED
    BY <1>2, <1>5, <1>6, <2>1
<1>7. ASSUME NEW a \in p..Len(s), NEW b \in a..Len(s),
             \A m \in p..(a - 1) : c[m] = Blank, WordAt(c, a, b),
             t.tok = SubSeq(c, a, b), t.rest = SubSeq(s, b + 2, Len(s))
      PROVE  /\ t.tok \in Seq(Letters) /\ t.tok # << >> /\ n + 1 \in 1..Len(w) /\ w[n + 1] = t.tok
             /\ \E q : ScannedTo(s, q, n + 1) /\ t.rest = SubSeq(s, q, Len(s))
  <2>1. a \in 1..LINE_MAX /\ b \in a..LINE_MAX /\ b < LINE_MAX /\ p <= a
    BY <1>1, <1>2
  <2>2. a \in S /\ a \notin Earlier
    <3>1. WordAt(Shown(s), a, b)
      BY <1>7
    <3>2. a \in S
      BY <2>1, <3>1, StartsIn
    <3>3. ~(a < p)
      BY <1>2, <2>1
    <3> QED
      BY <3>2, <3>3
  <2>3. \A m \in S : m < a <=> m \in Earlier
    <3> SUFFICES ASSUME NEW m \in S PROVE m < a <=> m < p
      OBVIOUS
    <3>1. m \in 1..LINE_MAX /\ m \notin p..(a - 1)
      BY <1>1, <1>4, <1>7
    <3> QED
      BY <1>1, <1>2, <2>1, <3>1
  <2>4. {m \in S : m <= a} = Earlier \cup {a}
    <3>1. \A m \in S : m <= a <=> m < a \/ m = a
      BY <1>1, <2>1
    <3> QED
      BY <2>2, <2>3, <3>1
  <2>5. Cardinality(Earlier \cup {a}) = n + 1
    <3> HIDE DEF Earlier
    <3> QED
      BY <1>2, <1>3, <2>2, FS_AddElement
  <2>6. RankIn(S, a) = n + 1
    BY <2>4, <2>5 DEF RankIn
  <2>7. n + 1 \in 1..Len(w) /\ w[n + 1] = SubSeq(c, a, b)
    <3>1. RankIn(S, a) \in 1..Len(w) /\ w[RankIn(S, a)] = SubSeq(c, a, b)
      BY <1>7, <2>1, NthWord
    <3> QED
      BY <2>6, <3>1
  <2>8. t.tok \in Seq(Letters) /\ t.tok # << >>
    <3>1. \A m \in a..b : c[m] \in Letters
      <4> TAKE m \in a..b
      <4>1. m \in 1..Len(s) /\ c[m] = s[m]
        BY <1>1, <2>1, ShownIs
      <4> QED
        BY <4>1 DEF Fits
    <3> HIDE DEF c
    <3>2. SubSeq(c, a, b) \in Seq(Letters) /\ Len(SubSeq(c, a, b)) = b - a + 1
      BY <2>1, <3>1, SubSeqProperties
    <3>3. SubSeq(c, a, b) \in Seq(Letters) /\ Len(SubSeq(c, a, b)) # 0 /\ t.tok = SubSeq(c, a, b)
      BY <1>7, <2>1, <3>2
    <3>4. Len(<< >>) = 0
      OBVIOUS
    <3> HIDE DEF t
    <3> QED
      BY <3>3, <3>4
  <2>9. {m \in S : m < b + 2} = Earlier \cup {a}
    <3> SUFFICES ASSUME NEW m \in S PROVE m < b + 2 <=> m <= a
      BY <2>4
    <3>1. ~(m \in (a + 1)..b)
      <4> SUFFICES ASSUME m \in (a + 1)..b PROVE FALSE
        OBVIOUS
      <4>1. m - 1 \in a..b /\ m # 1
        BY <2>1
      <4>2. c[m - 1] # Blank
        BY <1>7, <4>1 DEF WordAt
      <4>3. PICK j \in m..Len(c) : WordAt(c, m, j)
        BY DEF StartsOf
      <4> QED
        BY <4>1, <4>2, <4>3 DEF WordAt
    <3>2. m # b + 1
      <4>1. c[b + 1] = Blank
        BY <1>1, <1>7, <2>1 DEF WordAt
      <4> QED
        BY <1>4, <4>1
    <3> QED
      BY <1>1, <2>1, <3>1, <3>2
  <2>10. ScannedTo(s, b + 2, n + 1)
    <3>1. b + 2 \in 1..(Len(s) + 2)
      BY <1>1, <2>1
    <3>2. c[(b + 2) - 1] = Blank
      <4>1. b # Len(c) /\ (b + 2) - 1 = b + 1
        BY <1>1, <2>1
      <4> QED
        BY <1>7, <4>1 DEF WordAt
    <3>3. n + 1 = Cardinality({m \in StartsOf(Shown(s)) : m < b + 2})
      BY <2>5, <2>9
    <3> QED
      BY <3>1, <3>2, <3>3 DEF ScannedTo
  <2> QED
    BY <1>7, <2>7, <2>8, <2>10
<1>8. \/ t.tok = << >> /\ t.rest = << >> /\ \A m \in p..LINE_MAX : c[m] = Blank
      \/ \E a \in p..Len(s) : \E b \in a..Len(s) :
           /\ \A m \in p..(a - 1) : c[m] = Blank
           /\ WordAt(c, a, b)
           /\ t.tok = SubSeq(c, a, b)
           /\ t.rest = SubSeq(s, b + 2, Len(s))
  BY <1>2, NextToken
<1> HIDE DEF t, c, w
<1> QED
  BY <1>6, <1>7, <1>8 DEF t, c, w

-----------------------------------------------------------------------------
(* Numbers.  parse_num shifts the digits in from the left, Value adds them *)
(* up by their places.                                                     *)

LEMMA DigitsAre == /\ \A c \in DOMAIN Digits : Digits[c] \in Nat
                   /\ "x" \notin DOMAIN Digits
<1> DEFINE hex == <<"0", "1", "2", "3", "4", "5", "6", "7", "8", "9", "a", "b", "c", "d", "e", "f">>
<1>1. ASSUME NEW c \in DOMAIN Digits PROVE \E d \in 0..15 : hex[d + 1] = c
  <2>1. c \in {hex[1], hex[2], hex[3], hex[4], hex[5], hex[6], hex[7], hex[8], hex[9], hex[10],
               hex[11], hex[12], hex[13], hex[14], hex[15], hex[16]}
    BY DEF Digits
  <2> HIDE DEF hex
  <2>2. \A h \in 1..16 : h - 1 \in 0..15 /\ (h - 1) + 1 = h
    OBVIOUS
  <2>3. \E h \in 1..16 : c = hex[h]
    BY <2>1
  <2> QED
    BY <2>2, <2>3
<1>2. ASSUME NEW c \in DOMAIN Digits PROVE Digits[c] \in 0..15
  <2>1. Digits[c] = CHOOSE d \in 0..15 : hex[d + 1] = c
    BY DEF Digits
  <2> QED
    BY <1>1, <2>1
<1>3. "x" \notin DOMAIN Digits
  BY DEF Digits
<1> QED
  BY <1>2, <1>3

LEMMA Regrouped ==
  /\ \A a, d, p, s \in Int : (a * 16 + d) * p + s = a * (16 * p) + (s + d * p)
  /\ \A N, q, w, p, s \in Int : (N * q + w) * p + s = (w * p + s) + N * (q * p)
<1>1. ASSUME NEW a \in Int, NEW d \in Int, NEW p \in Int, NEW s \in Int
      PROVE  (a * 16 + d) * p + s = a * (16 * p) + (s + d * p)
  <2>1. (a * 16 + d) * p = (a * 16) * p + d * p /\ (a * 16) * p = a * (16 * p)
    OBVIOUS
  <2> QED
    BY <2>1
<1>2. ASSUME NEW N \in Int, NEW q \in Int, NEW w \in Int, NEW p \in Int, NEW s \in Int
      PROVE  (N * q + w) * p + s = (w * p + s) + N * (q * p)
  <2>1. (N * q + w) * p = (N * q) * p + w * p
    OBVIOUS
  <2>2. (N * q) * p = N * (q * p)
    OBVIOUS
  <2> QED
    BY <2>1, <2>2
<1> QED
  BY <1>1, <1>2

\* v takes the digits D from the left, sum adds them up from the right.
BothWays(n, N, D, v, place, sum) ==
  /\ n \in Nat /\ N \in Nat \ {0} /\ \A i \in 1..n : D[i] \in Nat
  /\ \A h \in 0..n : v[h] \in Nat /\ place[h] \in Nat /\ sum[h] \in Nat
  /\ v[0] = 0 /\ \A i \in 1..n : v[i] = (v[i - 1] * 16 + D[i]) % N
  /\ place[0] = 1 /\ \A i \in 1..n : place[i] = 16 * place[i - 1]
  /\ sum[0] = 0 /\ \A i \in 1..n : sum[i] = sum[i - 1] + D[n - i + 1] * place[i - 1]

LEMMA PlacesAddUp ==
  ASSUME NEW n, NEW N, NEW D, NEW v, NEW place, NEW sum, BothWays(n, N, D, v, place, sum)
  PROVE  v[n] = sum[n] % N
<1> USE DEF BothWays
<1> DEFINE Mixed(h) == (v[n - h] * place[h] + sum[h]) % N
           f == [h \in 0..n |-> Mixed(h)]
           V == {v[n]}
<1>1. Mixed(0) = v[n]
  <2>1. v[n] \in 0..(N - 1)
    <3>1. CASE n = 0
      BY <3>1
    <3>2. CASE n # 0
      <4>1. n \in 1..n /\ n - 1 \in 0..n
        BY <3>2
      <4>2. v[n] = (v[n - 1] * 16 + D[n]) % N /\ v[n - 1] \in Nat /\ D[n] \in Nat
        BY <4>1
      <4> DEFINE x == v[n - 1] * 16 + D[n]
      <4>3. x \in Int /\ v[n] = x % N
        BY <4>2
      <4> HIDE DEF x
      <4> QED
        BY <4>3, DivMod
    <3> QED
      BY <3>1, <3>2
  <2>2. n - 0 = n /\ v[n] * 1 + 0 = v[n]
    BY <2>1
  <2>3. v[n] % N = v[n]
    <3> DEFINE x == v[n]
    <3>1. x \in 0..(N - 1)
      BY <2>1
    <3> HIDE DEF x
    <3>2. x % N = x
      BY <3>1
    <3> QED
      BY <3>2 DEF x
  <2> QED
    BY <2>2, <2>3
<1>2. ASSUME NEW h \in 1..n PROVE Mixed(h) = Mixed(h - 1)
  <2> DEFINE i == n - h + 1
  <2>1. /\ h \in 1..n /\ i \in 1..n /\ h - 1 \in 0..n /\ h \in 0..n /\ i - 1 \in 0..n /\ i \in 0..n
        /\ i - 1 = n - h /\ n - (h - 1) = i
    OBVIOUS
  <2>2. v[i] = (v[i - 1] * 16 + D[i]) % N
    BY <2>1
  <2>3. place[h] = 16 * place[h - 1] /\ sum[h] = sum[h - 1] + D[i] * place[h - 1]
    OBVIOUS
  <2>4. place[h - 1] \in Nat /\ sum[h - 1] \in Nat
    BY <2>1
  <2>5. v[i - 1] \in Nat /\ D[i] \in Nat /\ v[i] \in Nat
    <3>1. v[i - 1] \in Nat
      BY <2>1
    <3>2. v[i] \in Nat
      BY <2>1
    <3>3. D[i] \in Nat
      BY <2>1
    <3> QED
      BY <3>1, <3>2, <3>3
  <2> DEFINE p == place[h - 1]
             s == sum[h - 1]
             a == v[i - 1]
             d == D[i]
             w == v[i]
             x == a * 16 + d
             q == x \div N
  <2>6. Mixed(h) = (a * (16 * p) + (s + d * p)) % N /\ Mixed(h - 1) = (w * p + s) % N
    BY <2>1, <2>3
  <2>7. p \in Int /\ s \in Int /\ a \in Int /\ d \in Int /\ w \in Int /\ w = x % N
    BY <2>2, <2>4, <2>5
  <2> HIDE DEF Mixed, p, s, a, d, w, i
  <2>8. x \in Int
    BY <2>7
  <2>9. a * (16 * p) + (s + d * p) = x * p + s
    BY <2>7, Regrouped
  <2> HIDE DEF x
  <2>10. q \in Int /\ x = N * q + w
    BY <2>7, <2>8, DivMod
  <2> HIDE DEF q
  <2>11. x * p + s = (w * p + s) + N * (q * p)
    BY <2>7, <2>10, Regrouped
  <2>12. x * p + s \in Int /\ w * p + s \in Int /\ q * p \in Int
    BY <2>7, <2>8, <2>10
  <2>13. (x * p + s) % N = (w * p + s) % N
    <3> DEFINE y == x * p + s
               z == w * p + s
               qp == q * p
    <3>1. y \in Int /\ z \in Int /\ qp \in Int /\ y = z + N * qp
      BY <2>11, <2>12
    <3>2. N \in Nat \ {0}
      OBVIOUS
    <3> HIDE DEF y, z, qp, BothWays
    <3>3. y % N = z % N
      BY <3>1, <3>2, ModShift
    <3> QED
      BY <3>3, Zenon DEF y, z
  <2> QED
    BY <2>6, <2>9, <2>13
<1>3. f[0] \in V /\ \A h \in (0 + 1)..n : f[h - 1] \in V => f[h] \in V
  <2>1. \A h \in (0 + 1)..n : h \in 1..n /\ h \in 0..n /\ h - 1 \in 0..n
    OBVIOUS
  <2>2. 0 \in 0..n
    OBVIOUS
  <2> HIDE DEF Mixed
  <2> QED
    BY <1>1, <1>2, <2>1, <2>2
<1>4. 0 \in Nat /\ 0 \in Int
  OBVIOUS
<1>5. \A h \in 0..n : f[h] \in V
  <2> HIDE DEF f, V
  <2> QED
    BY <1>3, <1>4, LoopStays
<1>6. Mixed(n) = sum[n] % N
  <2>1. n - n = 0 /\ n \in 0..n
    OBVIOUS
  <2>2. place[n] \in Nat /\ sum[n] \in Nat /\ v[n - n] = 0
    BY <2>1
  <2>3. v[n - n] * place[n] + sum[n] = sum[n]
    BY <2>2
  <2> QED
    BY <2>3
<1>7. n \in 0..n
  OBVIOUS
<1> HIDE DEF Mixed
<1> QED
  BY <1>5, <1>6, <1>7

LEMMA ParsesItsValue ==
  ASSUME NEW S, NEW s \in Seq(S), s # << >>
  PROVE  parse_num(s) = Value(s)
<1> DEFINE t == IF Len(s) >= 2 /\ s[1] = "0" /\ s[2] = "x" THEN SubSeq(s, 3, Len(s)) ELSE s
           d == IF Len(s) > 2 /\ SubSeq(s, 1, 2) = <<"0", "x">> THEN SubSeq(s, 3, Len(s)) ELSE s
<1>1. Len(s) \in Nat /\ Len(s) > 0
  OBVIOUS
<1>2. CASE Len(s) = 2 /\ s[1] = "0" /\ s[2] = "x"
  <2>1. t = << >>
    BY <1>2
  <2>2. parse_num(s) = NoNumber
    BY <2>1 DEF parse_num
  <2>3. d = s /\ 2 \in DOMAIN d /\ d[2] \notin DOMAIN Digits
    BY <1>2, DigitsAre
  <2>4. Value(s) = NoNumber
    BY <2>3 DEF Value
  <2> QED
    BY <2>2, <2>4
<1>3. CASE ~(Len(s) = 2 /\ s[1] = "0" /\ s[2] = "x")
  <2>0. Len(s) >= 2 <=> Len(s) > 2 \/ Len(s) = 2
    <3> DEFINE l == Len(s)
    <3>1. l \in Nat
      BY <1>1
    <3> HIDE DEF l
    <3>2. l >= 2 <=> l > 2 \/ l = 2
      BY <3>1
    <3> QED
      BY <3>2 DEF l
  <2>1. Len(s) > 2 => (SubSeq(s, 1, 2) = <<"0", "x">> <=> s[1] = "0" /\ s[2] = "x")
    <3> SUFFICES ASSUME Len(s) > 2 PROVE SubSeq(s, 1, 2) = <<"0", "x">> <=> s[1] = "0" /\ s[2] = "x"
      OBVIOUS
    <3> DEFINE u == SubSeq(s, 1, 2)
    <3>1. \A m \in 1..2 : s[m] \in S
      OBVIOUS
    <3>2. u \in Seq(S) /\ Len(u) = 2 /\ \A m \in 1..2 : u[m] = s[1 + m - 1]
      BY <3>1, SubSeqProperties
    <3> HIDE DEF u
    <3>3. u = <<u[1], u[2]>>
      BY <3>2
    <3>4. u[1] = s[1] /\ u[2] = s[2]
      BY <3>2
    <3> QED
      BY <3>3, <3>4 DEF u
  <2>2. t = d
    <3>1. (Len(s) >= 2 /\ s[1] = "0" /\ s[2] = "x") <=> (Len(s) > 2 /\ SubSeq(s, 1, 2) = <<"0", "x">>)
      BY <1>3, <2>0, <2>1, Zenon
    <3> QED
      BY <3>1, Zenon
  <2>3. t \in Seq(S) /\ t # << >>
    <3>1. CASE Len(s) > 2
      <4> DEFINE u == SubSeq(s, 3, Len(s))
      <4>1. \A m \in 3..Len(s) : s[m] \in S
        OBVIOUS
      <4>2. u \in Seq(S) /\ Len(u) = IF 3 <= Len(s) THEN Len(s) - 3 + 1 ELSE 0
        BY <1>1, <4>1, SubSeqProperties
      <4>3. u # << >>
        <5> HIDE DEF u
        <5>1. Len(u) >= 1
          BY <1>1, <3>1, <4>2
        <5> QED
          BY <5>1
      <4>4. t = u \/ t = s
        OBVIOUS
      <4> HIDE DEF t, u
      <4> QED
        BY <4>2, <4>3, <4>4
    <3>2. CASE Len(s) <= 2
      <4>0. ~(Len(s) > 2)
        BY <1>1, <3>2
      <4>1. ~(Len(s) >= 2 /\ s[1] = "0" /\ s[2] = "x")
        BY <1>3, <2>0, <4>0, Zenon
      <4>2. t = s
        BY <4>1, Zenon
      <4> HIDE DEF t
      <4> QED
        BY <4>2
    <3> QED
      BY <1>1, <3>1, <3>2
  <2> DEFINE n == Len(t)
             Bad == \E i \in DOMAIN t : t[i] \notin DOMAIN Digits
             F(f) == [h \in 0..n |-> IF h = 0 THEN 0 ELSE (f[h - 1] * 16 + Digits[t[h]]) % NumberW]
             v == CHOOSE f : f = F(f)
             P(f) == [h \in 0..n |-> IF h = 0 THEN 1 ELSE 16 * f[h - 1]]
             place == CHOOSE f : f = P(f)
             U(f) == [h \in 0..n |-> IF h = 0 THEN 0 ELSE f[h - 1] + Digits[t[n - h + 1]] * place[h - 1]]
             sum == CHOOSE f : f = U(f)
  <2>4. parse_num(s) = IF t = << >> \/ Bad THEN NoNumber ELSE v[n]
    BY DEF parse_num
  <2>5. Value(s) = IF \A i \in DOMAIN t : t[i] \in DOMAIN Digits THEN sum[n] % NumberW ELSE NoNumber
    <3> DEFINE Pd(f) == [h \in 0..Len(d) |-> IF h = 0 THEN 1 ELSE 16 * f[h - 1]]
               placed == CHOOSE f : f = Pd(f)
               Ud(f) == [h \in 0..Len(d) |-> IF h = 0 THEN 0 ELSE f[h - 1] + Digits[d[Len(d) - h + 1]] * placed[h - 1]]
               summed == CHOOSE f : f = Ud(f)
    <3>1. Value(s) = IF \A i \in DOMAIN d : d[i] \in DOMAIN Digits THEN summed[Len(d)] % NumberW ELSE NoNumber
      BY DEF Value
    <3> HIDE DEF t, d
    <3> QED
      BY <2>2, <3>1
  <2>6. CASE Bad
    BY <2>2, <2>4, <2>5, <2>6
  <2>7. ASSUME ~Bad PROVE v[n] = sum[n] % NumberW
    <3> HIDE DEF t, d
    <3> DEFINE D == [i \in 0..n |-> IF i = 0 THEN 0 ELSE Digits[t[i]]]
    <3>1. n \in Nat /\ 0 <= n /\ 0 \in Nat /\ 1 \in Nat /\ NumberW \in Nat \ {0} /\ 0 \in Int
      BY <2>3, ShellAssumption
    <3>2. \A i \in 0..n : D[i] \in Nat
      <4> SUFFICES ASSUME NEW i \in 1..n PROVE Digits[t[i]] \in Nat
        BY <3>1
      <4>1. t[i] \in DOMAIN Digits
        BY <2>3, <2>7
      <4> QED
        BY <4>1, DigitsAre
    <3>3. \A i \in 1..n : D[i] = Digits[t[i]]
      BY <3>1
    <3> HIDE DEF D, n
    <3>4. v = F(v)
      <4> DEFINE G == [i \in 0..n |-> [x \in Nat |-> (x * 16 + D[i]) % NumberW]]
      <4>1. G \in [0..n -> [Nat -> Nat]]
        <5> SUFFICES ASSUME NEW i \in 0..n, NEW x \in Nat PROVE (x * 16 + D[i]) % NumberW \in Nat
          OBVIOUS
        <5> DEFINE y == x * 16 + D[i]
        <5>1. y \in Int
          BY <3>2
        <5> HIDE DEF y
        <5>2. y % NumberW \in 0..(NumberW - 1)
          BY <3>1, <5>1, DivMod
        <5> QED
          BY <3>1, <5>2 DEF y
      <4>2. \A i \in 0..n, x \in Nat : G[i][x] = (x * 16 + D[i]) % NumberW
        OBVIOUS
      <4> HIDE DEF G
      <4>3. PICK f : Loops(f, Nat, 0, n, 0, G)
        BY <3>1, <4>1, LoopIsFunction, Zenon
      <4>4. f \in [0..n -> Nat] /\ f[0] = 0 /\ \A i \in 1..n : f[i] = (f[i - 1] * 16 + Digits[t[i]]) % NumberW
        <5>1. f \in [0..n -> Nat] /\ f[0] = 0 /\ \A i \in (0 + 1)..n : f[i] = G[i][f[i - 1]]
          BY <4>3 DEF Loops
        <5>2. \A i \in (0 + 1)..n : i \in 0..n /\ f[i - 1] \in Nat /\ i \in 1..n
          BY <3>1, <5>1
        <5>3. \A i \in 1..n : i \in (0 + 1)..n
          BY <3>1
        <5>4. ASSUME NEW i \in 1..n PROVE f[i] = (f[i - 1] * 16 + Digits[t[i]]) % NumberW
          <6>1. f[i] = G[i][f[i - 1]] /\ f[i - 1] \in Nat /\ i \in 0..n /\ D[i] = Digits[t[i]]
            BY <3>3, <5>1, <5>2, <5>3
          <6>2. G[i][f[i - 1]] = (f[i - 1] * 16 + D[i]) % NumberW
            BY <4>2, <6>1
          <6> QED
            BY <6>1, <6>2
        <5> QED
          BY <5>1, <5>4
      <4>5. f = F(f)
        BY <3>1, <4>4
      <4> QED
        BY <4>5, Zenon
    <3>5. place = P(place)
      <4> DEFINE G == [i \in 0..n |-> [x \in Nat |-> 16 * x]]
      <4>1. G \in [0..n -> [Nat -> Nat]] /\ \A i \in 0..n, x \in Nat : G[i][x] = 16 * x
        OBVIOUS
      <4> HIDE DEF G
      <4>3. PICK f : Loops(f, Nat, 0, n, 1, G)
        BY <3>1, <4>1, LoopIsFunction, Zenon
      <4>4. f \in [0..n -> Nat] /\ f[0] = 1 /\ \A i \in 1..n : f[i] = 16 * f[i - 1]
        <5>1. f \in [0..n -> Nat] /\ f[0] = 1 /\ \A i \in (0 + 1)..n : f[i] = G[i][f[i - 1]]
          BY <4>3 DEF Loops
        <5>2. \A i \in 1..n : i \in 0..n /\ f[i - 1] \in Nat /\ i \in (0 + 1)..n
          BY <3>1, <5>1
        <5> QED
          BY <4>1, <5>1, <5>2
      <4>5. f = P(f)
        BY <3>1, <4>4
      <4> QED
        BY <4>5, Zenon
    <3> HIDE DEF F, P, v, place
    <3>6. (\A h \in 0..n : place[h] \in Nat) /\ place[0] = 1 /\ \A i \in 1..n : place[i] = 16 * place[i - 1]
      <4>1. place[0] = 1 /\ \A i \in 1..n : place[i] = 16 * place[i - 1]
        BY <3>1, <3>5 DEF P
      <4>2. place[0] \in Nat /\ \A i \in (0 + 1)..n : place[i - 1] \in Nat => place[i] \in Nat
        BY <3>1, <4>1
      <4>3. \A h \in 0..n : place[h] \in Nat
        BY <3>1, <4>2, LoopStays
      <4> QED
        BY <4>1, <4>3
    <3>7. (\A h \in 0..n : v[h] \in Nat) /\ v[0] = 0 /\ \A i \in 1..n : v[i] = (v[i - 1] * 16 + D[i]) % NumberW
      <4>1. v[0] = 0 /\ \A i \in 1..n : v[i] = (v[i - 1] * 16 + D[i]) % NumberW
        BY <3>1, <3>3, <3>4 DEF F
      <4>2. v[0] \in Nat /\ \A i \in (0 + 1)..n : v[i - 1] \in Nat => v[i] \in Nat
        <5> SUFFICES ASSUME NEW i \in 1..n, v[i - 1] \in Nat PROVE v[i] \in Nat
          BY <3>1, <4>1
        <5> DEFINE y == v[i - 1] * 16 + D[i]
        <5>1. y \in Int /\ v[i] = y % NumberW
          BY <3>2, <4>1
        <5> HIDE DEF y
        <5> QED
          BY <3>1, <5>1, DivMod
      <4>3. \A h \in 0..n : v[h] \in Nat
        BY <3>1, <4>2, LoopStays
      <4> QED
        BY <4>1, <4>3
    <3>8. sum = U(sum)
      <4> DEFINE G == [i \in 0..n |-> [x \in Nat |-> IF i = 0 THEN x ELSE x + D[n - i + 1] * place[i - 1]]]
      <4>1. G \in [0..n -> [Nat -> Nat]]
        <5>1. ASSUME NEW i \in 0..n, i # 0, NEW x \in Nat PROVE x + D[n - i + 1] * place[i - 1] \in Nat
          <6>1. n - i + 1 \in 0..n /\ i - 1 \in 0..n
            BY <3>1, <5>1
          <6>2. D[n - i + 1] \in Nat /\ place[i - 1] \in Nat
            BY <3>2, <3>6, <6>1
          <6> QED
            BY <6>2
        <5>2. \A i \in 0..n, x \in Nat : (IF i = 0 THEN x ELSE x + D[n - i + 1] * place[i - 1]) \in Nat
          BY <5>1
        <5> QED
          BY <5>2
      <4>2. \A i \in 1..n, x \in Nat : G[i][x] = x + D[n - i + 1] * place[i - 1]
        BY <3>1
      <4> HIDE DEF G
      <4>3. PICK f : Loops(f, Nat, 0, n, 0, G)
        BY <3>1, <4>1, LoopIsFunction, Zenon
      <4>4. f \in [0..n -> Nat] /\ f[0] = 0 /\ \A i \in 1..n : f[i] = f[i - 1] + Digits[t[n - i + 1]] * place[i - 1]
        <5>1. f \in [0..n -> Nat] /\ f[0] = 0 /\ \A i \in (0 + 1)..n : f[i] = G[i][f[i - 1]]
          BY <4>3 DEF Loops
        <5>2. \A i \in 1..n : n - i + 1 \in 1..n /\ f[i - 1] \in Nat /\ i \in (0 + 1)..n
          BY <3>1, <5>1
        <5> QED
          BY <3>3, <4>2, <5>1, <5>2
      <4>5. f = U(f)
        BY <3>1, <4>4
      <4> QED
        BY <4>5, Zenon
    <3> HIDE DEF U, sum
    <3>9. (\A h \in 0..n : sum[h] \in Nat) /\ sum[0] = 0
          /\ \A i \in 1..n : sum[i] = sum[i - 1] + D[n - i + 1] * place[i - 1]
      <4>1. sum[0] = 0 /\ \A i \in 1..n : sum[i] = sum[i - 1] + D[n - i + 1] * place[i - 1]
        <5>1. \A i \in 1..n : n - i + 1 \in 1..n
          BY <3>1
        <5>2. sum[0] = 0 /\ \A i \in 1..n : sum[i] = sum[i - 1] + Digits[t[n - i + 1]] * place[i - 1]
          BY <3>1, <3>8 DEF U
        <5> QED
          BY <3>3, <5>1, <5>2
      <4>2. sum[0] \in Nat /\ \A i \in (0 + 1)..n : sum[i - 1] \in Nat => sum[i] \in Nat
        <5> SUFFICES ASSUME NEW i \in 1..n, sum[i - 1] \in Nat PROVE sum[i] \in Nat
          BY <3>1, <4>1
        <5>1. n - i + 1 \in 0..n /\ i - 1 \in 0..n
          BY <3>1
        <5>2. D[n - i + 1] \in Nat /\ place[i - 1] \in Nat
          BY <3>2, <3>6, <5>1
        <5> QED
          BY <4>1, <5>2
      <4>3. \A h \in 0..n : sum[h] \in Nat
        BY <3>1, <4>2, LoopStays
      <4> QED
        BY <4>1, <4>3
    <3>10. \A i \in 1..n : D[i] \in Nat
      BY <3>1, <3>2
    <3>11. BothWays(n, NumberW, D, v, place, sum)
      BY <3>1, <3>6, <3>7, <3>9, <3>10 DEF BothWays
    <3> QED
      BY <3>11, PlacesAddUp
  <2> HIDE DEF v, sum, place, t, d
  <2> QED
    BY <2>2, <2>3, <2>4, <2>5, <2>6, <2>7
<1> QED
  BY <1>2, <1>3

-----------------------------------------------------------------------------
(* The command.                                                            *)

LEMMA SingleLetter ==
  ASSUME NEW s, Fits(s), Len(s) = 1
  PROVE  Words(Shown(s)) = IF s[1] = Blank THEN << >> ELSE <<<<s[1]>>>>
<1> DEFINE c == Shown(s)
           S == StartsOf(c)
           w == Words(c)
           Word(n) == LET i == CHOOSE i \in S : RankIn(S, i) = n
                      IN  SubSeq(c, i, CHOOSE j \in i..Len(c) : WordAt(c, i, j))
<1>1. /\ LINE_MAX \in Nat /\ LINE_MAX >= 2 /\ Len(c) = LINE_MAX /\ DOMAIN c = 1..LINE_MAX
      /\ c[1] = s[1] /\ \A i \in 2..LINE_MAX : c[i] = Blank
  <2>1. /\ LINE_MAX \in Nat /\ LINE_MAX >= 2 /\ Len(c) = LINE_MAX /\ DOMAIN c = 1..LINE_MAX
        /\ \A i \in 1..1 : c[i] = s[i]
        /\ \A i \in 1..LINE_MAX : i > 1 => c[i] = Blank
    BY ShownIs
  <2> HIDE DEF c
  <2>2. \A i \in 2..LINE_MAX : i \in 1..LINE_MAX /\ i > 1
    BY <2>1
  <2> QED
    BY <2>1, <2>2
<1>2. w = [n \in 1..Cardinality(S) |-> Word(n)]
  BY WordsByRank
<1>3. S \subseteq {1} /\ (c[1] = Blank => S = {})
  <2> SUFFICES ASSUME NEW m \in S PROVE m = 1 /\ c[1] # Blank
    OBVIOUS
  <2>1. m \in 1..LINE_MAX
    BY <1>1 DEF StartsOf
  <2>2. PICK j \in m..Len(c) : WordAt(c, m, j)
    BY DEF StartsOf
  <2>3. c[m] # Blank
    BY <1>1, <2>1, <2>2 DEF WordAt
  <2> QED
    BY <1>1, <2>1, <2>3
<1>4. CASE s[1] = Blank
  <2>1. S = {}
    BY <1>1, <1>3, <1>4
  <2>2. Cardinality(S) = 0
    BY <2>1, FS_EmptySet
  <2> HIDE DEF S, w, Word
  <2>3. w = << >>
    BY <1>2, <2>2
  <2> QED
    BY <1>4, <2>3 DEF w
<1>5. CASE s[1] # Blank
  <2>1. 1 \in 1..LINE_MAX /\ 1 \in 1..LINE_MAX /\ WordAt(c, 1, 1)
    BY <1>1, <1>5 DEF WordAt
  <2>2. S = {1}
    BY <1>3, <2>1, StartsIn
  <2>3. Cardinality(S) = 1
    BY <2>2, FS_Singleton
  <2>4. RankIn(S, 1) \in 1..Len(w) /\ w[RankIn(S, 1)] = SubSeq(c, 1, 1)
    BY <2>1, NthWord
  <2>5. SubSeq(c, 1, 1) = <<s[1]>>
    <3>1. \A m \in 1..1 : c[m] \in {s[1]}
      BY <1>1
    <3> DEFINE u == SubSeq(c, 1, 1)
    <3> HIDE DEF c
    <3>2. u \in Seq({s[1]}) /\ Len(u) = 1 /\ u[1] = c[1 + 1 - 1]
      BY <3>1, SubSeqProperties
    <3> HIDE DEF u
    <3>3. u = <<u[1]>> /\ u[1] = c[1]
      BY <3>2
    <3> QED
      BY <1>1, <3>3 DEF u
  <2> HIDE DEF S, w, Word, c
  <2>6. w \in Seq({Word(1)}) /\ Len(w) = 1 /\ w[1] = Word(1)
    <3>1. w = [n \in 1..1 |-> Word(n)]
      BY <1>2, <2>3
    <3>2. \A n \in 1..1 : Word(n) = Word(1)
      <4> SUFFICES ASSUME NEW n \in 1..1 PROVE Word(n) = Word(1)
        OBVIOUS
      <4>1. n = 1
        OBVIOUS
      <4> QED
        BY <4>1
    <3> QED
      BY <3>1, <3>2
  <2>7. RankIn(S, 1) = 1
    BY <2>4, <2>6
  <2>8. w = <<w[1]>> /\ w[1] = <<s[1]>>
    <3>1. w[1] = <<s[1]>>
      BY <2>4, <2>5, <2>7
    <3>2. w = <<w[1]>>
      BY <2>6
    <3> QED
      BY <3>1, <3>2
  <2> QED
    BY <1>5, <2>8 DEF w, c
<1> QED
  BY <1>4, <1>5

LEMMA ArgumentShown ==
  ASSUME NEW s, Fits(s), NEW q, NEW n \in Nat, ScannedTo(s, q, n)
  PROVE  LET t == next_tok(SubSeq(s, q, Len(s)))
             w == Words(Shown(s))
         IN  /\ parse_num(t.tok) = IF Len(w) > n THEN Value(w[n + 1]) ELSE NoNumber
             /\ Len(w) > n => \E q2 : ScannedTo(s, q2, n + 1) /\ t.rest = SubSeq(s, q2, Len(s))
<1> DEFINE t == next_tok(SubSeq(s, q, Len(s)))
           w == Words(Shown(s))
<1>1. \/ t.tok = << >> /\ t.rest = << >> /\ Len(w) = n
      \/ /\ t.tok \in Seq(Letters) /\ t.tok # << >> /\ n + 1 \in 1..Len(w) /\ w[n + 1] = t.tok
         /\ \E q2 : ScannedTo(s, q2, n + 1) /\ t.rest = SubSeq(s, q2, Len(s))
  BY ScanGoesOn
<1> HIDE DEF t, w
<1>2. CASE t.tok = << >> /\ Len(w) = n
  <2>1. parse_num(<< >>) = NoNumber
    BY DEF parse_num
  <2> QED
    BY <1>2, <2>1 DEF t, w
<1>3. CASE /\ t.tok \in Seq(Letters) /\ t.tok # << >> /\ n + 1 \in 1..Len(w) /\ w[n + 1] = t.tok
           /\ \E q2 : ScannedTo(s, q2, n + 1) /\ t.rest = SubSeq(s, q2, Len(s))
  <2>1. parse_num(t.tok) = Value(w[n + 1])
    BY <1>3, ParsesItsValue
  <2>2. Len(w) > n
    BY <1>3
  <2> QED
    BY <1>3, <2>1, <2>2 DEF t, w
<1> QED
  BY <1>1, <1>2, <1>3

\* The command that words w of a row of n characters spell.
SpelledBy(w, n) ==
  LET Arg(h) == IF Len(w) > h THEN Value(w[h + 1]) ELSE NoNumber
      Plain(c) == [cmd |-> c, args |-> << >>]
  IN  IF w = << >> THEN Plain("unknown")
      ELSE CASE w = <<<<"q">>>> /\ n = 1 -> Plain("quit")
             [] w[1] = <<"g">> -> Plain("gpu")
             [] w[1] = <<"r">> -> Plain("reboot")
             [] w[1] = <<"p">> ->
                  IF Arg(1) = NoNumber THEN Usage ELSE [cmd |-> "peek", args |-> <<Arg(1)>>]
             [] w[1] = <<"m">> ->
                  IF Arg(1) = NoNumber \/ Arg(2) \notin 1..64 THEN Usage
                  ELSE [cmd |-> "mdump", args |-> <<Arg(1), Arg(2)>>]
             [] OTHER -> Plain("unknown")

LEMMA CommandIsSpelled ==
  ASSUME NEW s, Fits(s)
  PROVE  Command(s) = SpelledBy(Words(Shown(s)), Len(s))
<1> DEFINE t == next_tok(s)
           w == Words(Shown(s))
           Arg(h) == IF Len(w) > h THEN Value(w[h + 1]) ELSE NoNumber
           Plain(c) == [cmd |-> c, args |-> << >>]
<1>1. s \in Seq(Letters) /\ SubSeq(s, 1, Len(s)) = s /\ Len(s) \in Nat
  <2>1. s \in Seq(Letters)
    BY DEF Fits
  <2> QED
    BY <2>1, SubSeqFull
<1>2. \/ t.tok = << >> /\ t.rest = << >> /\ Len(w) = 0
      \/ /\ t.tok \in Seq(Letters) /\ t.tok # << >> /\ 0 + 1 \in 1..Len(w) /\ w[0 + 1] = t.tok
         /\ \E q : ScannedTo(s, q, 0 + 1) /\ t.rest = SubSeq(s, q, Len(s))
  <2>1. ScannedTo(s, 1, 0)
    BY ScanStarts
  <2> DEFINE u == next_tok(SubSeq(s, 1, Len(s)))
  <2>2. \/ u.tok = << >> /\ u.rest = << >> /\ Len(w) = 0
        \/ /\ u.tok \in Seq(Letters) /\ u.tok # << >> /\ 0 + 1 \in 1..Len(w) /\ w[0 + 1] = u.tok
           /\ \E q : ScannedTo(s, q, 0 + 1) /\ u.rest = SubSeq(s, q, Len(s))
    BY <2>1, ScanGoesOn
  <2>3. u = t
    BY <1>1
  <2> HIDE DEF u, t, w
  <2> QED
    BY <2>2, <2>3
<1>3. s = <<"q">> <=> w = <<<<"q">>>> /\ Len(s) = 1
  <2>1. CASE Len(s) = 1
    <3>1. w = IF s[1] = Blank THEN << >> ELSE <<<<s[1]>>>>
      BY <2>1, SingleLetter
    <3>2. s = <<s[1]>>
      BY <1>1, <2>1
    <3>3. "q" # Blank
      BY DEF Blank
    <3> HIDE DEF w
    <3>4. s[1] = Blank => w # <<<<"q">>>> /\ s # <<"q">>
      BY <3>1, <3>2, <3>3
    <3>5. s[1] # Blank => (w = <<<<"q">>>> <=> s[1] = "q")
      BY <3>1
    <3>6. s = <<"q">> <=> s[1] = "q"
      BY <3>2
    <3> QED
      BY <2>1, <3>3, <3>4, <3>5, <3>6
  <2>2. CASE Len(s) # 1
    BY <2>2
  <2> QED
    BY <2>1, <2>2
<1>4. Command(s) = CASE s = <<"q">>       -> Plain("quit")
                     [] t.tok = <<"p">>   -> cmd_peek(t.rest)
                     [] t.tok = <<"m">>   -> cmd_mdump(t.rest)
                     [] t.tok = <<"r">>   -> Plain("reboot")
                     [] t.tok = <<"g">>   -> Plain("gpu")
                     [] OTHER             -> Plain("unknown")
  BY DEF Command
<1>5. SpelledBy(w, Len(s)) = IF w = << >> THEN Plain("unknown")
      ELSE CASE w = <<<<"q">>>> /\ Len(s) = 1 -> Plain("quit")
             [] w[1] = <<"g">> -> Plain("gpu")
             [] w[1] = <<"r">> -> Plain("reboot")
             [] w[1] = <<"p">> ->
                  IF Arg(1) = NoNumber THEN Usage ELSE [cmd |-> "peek", args |-> <<Arg(1)>>]
             [] w[1] = <<"m">> ->
                  IF Arg(1) = NoNumber \/ Arg(2) \notin 1..64 THEN Usage
                  ELSE [cmd |-> "mdump", args |-> <<Arg(1), Arg(2)>>]
             [] OTHER -> Plain("unknown")
  BY DEF SpelledBy
<1>6. w \in Seq(UNION {{w[i] : i \in DOMAIN w}}) /\ (w = << >> <=> Len(w) = 0)
  <2> DEFINE S == StartsOf(Shown(s))
             Word(n) == LET i == CHOOSE i \in S : RankIn(S, i) = n
                        IN  SubSeq(Shown(s), i, CHOOSE j \in i..Len(Shown(s)) : WordAt(Shown(s), i, j))
  <2>1. w = [n \in 1..Cardinality(S) |-> Word(n)]
    BY WordsByRank
  <2>2. Cardinality(S) \in Nat
    <3>1. S \in SUBSET (1..LINE_MAX) /\ LINE_MAX \in Nat
      BY StartsIn, ShownIs
    <3> HIDE DEF S
    <3> QED
      BY <3>1, RankFacts
  <2> HIDE DEF S, Word, w
  <2> QED
    BY <2>1, <2>2
<1> HIDE DEF t, w
<1>7. CASE t.tok = << >> /\ Len(w) = 0
  <2>1. w = << >> /\ s # <<"q">>
    <3>1. w = << >>
      BY <1>6, <1>7
    <3>2. Len(<<<<"q">>>>) = 1 /\ Len(<< >>) = 0
      OBVIOUS
    <3> QED
      BY <1>3, <3>1, <3>2
  <2>2. << >> # <<"p">> /\ << >> # <<"m">> /\ << >> # <<"r">> /\ << >> # <<"g">>
    OBVIOUS
  <2> HIDE DEF Plain, Arg
  <2>3. Command(s) = Plain("unknown")
    BY <1>4, <1>7, <2>1, <2>2, Zenon
  <2>4. SpelledBy(w, Len(s)) = Plain("unknown")
    BY <1>5, <2>1
  <2> QED
    BY <2>3, <2>4 DEF w
<1>8. CASE /\ t.tok # << >> /\ 1 \in 1..Len(w) /\ w[1] = t.tok
           /\ \E q : ScannedTo(s, q, 1) /\ t.rest = SubSeq(s, q, Len(s))
  <2>1. w # << >>
    BY <1>6, <1>8
  <2>2. PICK q : ScannedTo(s, q, 1) /\ t.rest = SubSeq(s, q, Len(s))
    BY <1>8
  <2> DEFINE t2 == next_tok(t.rest)
  <2>3. /\ parse_num(t2.tok) = Arg(1)
        /\ Len(w) > 1 => \E q2 : ScannedTo(s, q2, 2) /\ t2.rest = SubSeq(s, q2, Len(s))
    <3>1. 1 \in Nat /\ 1 + 1 = 2
      OBVIOUS
    <3> QED
      BY <2>2, <3>1, ArgumentShown DEF w
  <2>4. Len(w) > 1 => parse_num(next_tok(t2.rest).tok) = Arg(2)
    <3> SUFFICES ASSUME Len(w) > 1 PROVE parse_num(next_tok(t2.rest).tok) = Arg(2)
      OBVIOUS
    <3>1. PICK q2 : ScannedTo(s, q2, 2) /\ t2.rest = SubSeq(s, q2, Len(s))
      BY <2>3
    <3>2. 2 \in Nat
      OBVIOUS
    <3> HIDE DEF t2
    <3> QED
      BY <3>1, <3>2, ArgumentShown DEF w
  <2>5. cmd_peek(t.rest) = IF Arg(1) = NoNumber THEN Usage ELSE [cmd |-> "peek", args |-> <<Arg(1)>>]
    <3> HIDE DEF Arg, t2
    <3> QED
      BY <2>3 DEF cmd_peek, t2
  <2>6. cmd_mdump(t.rest) = IF Arg(1) = NoNumber \/ Arg(2) \notin 1..64 THEN Usage
                            ELSE [cmd |-> "mdump", args |-> <<Arg(1), Arg(2)>>]
    <3> DEFINE n == parse_num(next_tok(t2.rest).tok)
    <3>1. cmd_mdump(t.rest) = IF Arg(1) = NoNumber \/ n \notin 1..64 THEN Usage
                              ELSE [cmd |-> "mdump", args |-> <<Arg(1), n>>]
      <4> HIDE DEF Arg
      <4> QED
        BY <2>3 DEF cmd_mdump
    <3>2. Arg(1) # NoNumber => Len(w) > 1
      OBVIOUS
    <3> HIDE DEF Arg, n, t2
    <3>3. Arg(1) # NoNumber => n = Arg(2)
      BY <2>4, <3>2 DEF n
    <3>4. CASE Arg(1) = NoNumber
      BY <3>1, <3>4
    <3>5. CASE Arg(1) # NoNumber
      <4>1. n = Arg(2)
        BY <3>3, <3>5
      <4> QED
        BY <3>1, <4>1
    <3> QED
      BY <3>4, <3>5
  <2>7. s = <<"q">> <=> w = <<<<"q">>>> /\ Len(s) = 1
    BY <1>3
  <2>8. w = <<<<"q">>>> => w[1] = <<"q">>
    OBVIOUS
  <2>9. /\ <<"q">> # <<"p">> /\ <<"q">> # <<"m">> /\ <<"q">> # <<"r">> /\ <<"q">> # <<"g">>
        /\ <<"p">> # <<"m">> /\ <<"p">> # <<"r">> /\ <<"p">> # <<"g">>
        /\ <<"m">> # <<"r">> /\ <<"m">> # <<"g">> /\ <<"r">> # <<"g">>
    OBVIOUS
  <2> DEFINE x == t.tok
             peeked == IF Arg(1) = NoNumber THEN Usage ELSE [cmd |-> "peek", args |-> <<Arg(1)>>]
             dumped == IF Arg(1) = NoNumber \/ Arg(2) \notin 1..64 THEN Usage
                       ELSE [cmd |-> "mdump", args |-> <<Arg(1), Arg(2)>>]
  <2>10. SpelledBy(w, Len(s)) =
           CASE s = <<"q">>  -> Plain("quit")
             [] x = <<"g">> -> Plain("gpu")
             [] x = <<"r">> -> Plain("reboot")
             [] x = <<"p">> -> peeked
             [] x = <<"m">> -> dumped
             [] OTHER -> Plain("unknown")
    <3> HIDE DEF Arg, Plain
    <3> QED
      BY <1>5, <1>8, <2>1, <2>7, Zenon
  <2>11. Command(s) =
           CASE s = <<"q">>  -> Plain("quit")
             [] x = <<"p">> -> peeked
             [] x = <<"m">> -> dumped
             [] x = <<"r">> -> Plain("reboot")
             [] x = <<"g">> -> Plain("gpu")
             [] OTHER -> Plain("unknown")
    <3> HIDE DEF Arg, Plain
    <3> QED
      BY <1>4, <2>5, <2>6, Zenon
  <2>12. s = <<"q">> => x = <<"q">>
    BY <1>8, <2>7, <2>8
  <2> HIDE DEF x, peeked, dumped, Plain, Arg
  <2>13. CASE s = <<"q">>
    BY <2>9, <2>10, <2>11, <2>12, <2>13 DEF w
  <2>14. CASE s # <<"q">> /\ x = <<"p">>
    BY <2>9, <2>10, <2>11, <2>14 DEF w
  <2>15. CASE s # <<"q">> /\ x = <<"m">>
    BY <2>9, <2>10, <2>11, <2>15 DEF w
  <2>16. CASE s # <<"q">> /\ x = <<"r">>
    BY <2>9, <2>10, <2>11, <2>16 DEF w
  <2>17. CASE s # <<"q">> /\ x = <<"g">>
    BY <2>9, <2>10, <2>11, <2>17 DEF w
  <2>18. CASE s # <<"q">> /\ x # <<"p">> /\ x # <<"m">> /\ x # <<"r">> /\ x # <<"g">>
    BY <2>10, <2>11, <2>18 DEF w
  <2> QED
    BY <2>13, <2>14, <2>15, <2>16, <2>17, <2>18
<1>9. 0 + 1 = 1
  OBVIOUS
<1> QED
  BY <1>2, <1>7, <1>8, <1>9

-----------------------------------------------------------------------------
(* The row is the line and blanks, and the command that ran is the line's. *)

LineShown ==
  /\ Fits(line) /\ screen = [cells |-> Shown(line), col |-> Len(line)]
  /\ at = "getchar" => ran = Nothing
  /\ ran # Nothing => ran = Command(line)

LEMMA EmptyShown == Fits(<< >>) /\ Clear = [cells |-> Shown(<< >>), col |-> Len(<< >>)]
<1>1. << >> \in Seq(Letters) /\ Len(<< >>) = 0
  OBVIOUS
<1>2. LINE_MAX \in Nat /\ 0 <= LINE_MAX - 1
  BY ShellAssumption
<1>3. [i \in 1..LINE_MAX |-> Blank] = Shown(<< >>)
  BY <1>1, <1>2 DEF Shown
<1> QED
  BY <1>1, <1>2, <1>3 DEF Fits, Clear

LEMMA EchoShown ==
  ASSUME NEW s, Fits(s), NEW c \in Letters, Len(s) < LINE_MAX - 1
  PROVE  /\ Fits(Append(s, c))
         /\ Put([cells |-> Shown(s), col |-> Len(s)], c) = [cells |-> Shown(Append(s, c)), col |-> Len(Append(s, c))]
<1> DEFINE u == Append(s, c)
           n == Len(s)
<1>1. s \in Seq(Letters) /\ n \in Nat /\ LINE_MAX \in Nat /\ n + 1 \in 1..LINE_MAX
  BY ShellAssumption DEF Fits
<1>2. u \in Seq(Letters) /\ Len(u) = n + 1 /\ u[n + 1] = c /\ \A i \in 1..n : u[i] = s[i]
  BY <1>1
<1>3. Put([cells |-> Shown(s), col |-> n], c) = [cells |-> [Shown(s) EXCEPT ![n + 1] = c], col |-> n + 1]
  BY DEF Put
<1> HIDE DEF u, n
<1>4. [Shown(s) EXCEPT ![n + 1] = c] = Shown(u)
  <2>1. \A i \in 1..LINE_MAX : IF i = n + 1 THEN Shown(u)[i] = c ELSE Shown(u)[i] = Shown(s)[i]
    <3> TAKE i \in 1..LINE_MAX
    <3>1. CASE i = n + 1
      BY <1>1, <1>2, <3>1 DEF Shown
    <3>2. CASE i <= n
      BY <1>1, <1>2, <3>2 DEF Shown, n
    <3>3. CASE i > n + 1
      BY <1>1, <1>2, <3>3 DEF Shown, n
    <3> QED
      BY <1>1, <3>1, <3>2, <3>3
  <2> QED
    BY <1>1, <2>1 DEF Shown
<1>5. Fits(u)
  BY <1>1, <1>2 DEF Fits, n
<1> QED
  BY <1>2, <1>3, <1>4, <1>5 DEF u, n

LEMMA EraseShown ==
  ASSUME NEW s, Fits(s), s # << >>
  PROVE  /\ Fits(Front(s))
         /\ Erase([cells |-> Shown(s), col |-> Len(s)]) = [cells |-> Shown(Front(s)), col |-> Len(Front(s))]
<1> DEFINE u == Front(s)
           n == Len(s)
<1>1. s \in Seq(Letters) /\ n \in Nat /\ LINE_MAX \in Nat /\ n \in 1..LINE_MAX /\ n <= LINE_MAX - 1
  BY ShellAssumption DEF Fits
<1>2. u \in Seq(Letters) /\ Len(u) = n - 1 /\ \A i \in 1..(n - 1) : u[i] = s[i]
  <2>1. u = SubSeq(s, 1, n - 1)
    BY DEF Front
  <2>2. \A m \in 1..(n - 1) : s[m] \in Letters
    BY <1>1
  <2> HIDE DEF u, n
  <2>3. /\ SubSeq(s, 1, n - 1) \in Seq(Letters)
        /\ Len(SubSeq(s, 1, n - 1)) = IF 1 <= n - 1 THEN (n - 1) - 1 + 1 ELSE 0
        /\ \A i \in 1..((n - 1) - 1 + 1) : SubSeq(s, 1, n - 1)[i] = s[1 + i - 1]
    BY <1>1, <2>2, SubSeqProperties
  <2> QED
    BY <1>1, <2>1, <2>3
<1>3. Erase([cells |-> Shown(s), col |-> n]) = [cells |-> [Shown(s) EXCEPT ![n - 1 + 1] = Blank], col |-> n - 1 + 1 - 1]
  BY DEF Erase, Put, Back
<1> HIDE DEF u, n
<1>4. [Shown(s) EXCEPT ![n - 1 + 1] = Blank] = Shown(u)
  <2>1. \A i \in 1..LINE_MAX : IF i = n THEN Shown(u)[i] = Blank ELSE Shown(u)[i] = Shown(s)[i]
    <3> TAKE i \in 1..LINE_MAX
    <3>1. CASE i >= n
      BY <1>1, <1>2, <3>1 DEF Shown, n
    <3>2. CASE i < n
      BY <1>1, <1>2, <3>2 DEF Shown, n
    <3> QED
      BY <1>1, <3>1, <3>2
  <2>2. n - 1 + 1 = n
    BY <1>1
  <2> QED
    BY <1>1, <2>1, <2>2 DEF Shown
<1>5. Fits(u)
  BY <1>1, <1>2 DEF Fits
<1> QED
  BY <1>1, <1>2, <1>3, <1>4, <1>5 DEF u, n

LEMMA LineStep == LineShown /\ [ShellNext]_shellVars => LineShown'
<1> SUFFICES ASSUME LineShown, [ShellNext]_shellVars PROVE LineShown'
  OBVIOUS
<1> USE DEF LineShown
<1>1. ASSUME UNCHANGED <<line, screen, ran>>, at' = "getchar" => at = "getchar" PROVE LineShown'
  BY <1>1
<1>2. ASSUME line' = << >>, screen' = Clear, ran' = Nothing PROVE LineShown'
  BY <1>2, EmptyShown
<1>3. CASE vConsoleTask
  <2> DEFINE c == Head(rx)
  <2>1. ran = Nothing /\ ran' = Nothing
    BY <1>3 DEF vConsoleTask, Console
  <2>2. \/ line = << >> /\ screen' = Clear /\ line' = line
        \/ line' = line /\ screen' = screen
        \/ line # << >> /\ line' = Front(line) /\ screen' = Erase(screen)
        \/ c \in Letters /\ Len(line) < LINE_MAX - 1 /\ line' = Append(line, c) /\ screen' = Put(screen, c)
    BY <1>3 DEF vConsoleTask
  <2> HIDE DEF c
  <2>3. CASE line = << >> /\ screen' = Clear /\ line' = line
    BY <2>1, <2>3, EmptyShown
  <2>4. CASE line' = line /\ screen' = screen
    BY <2>1, <2>4
  <2>5. CASE line # << >> /\ line' = Front(line) /\ screen' = Erase(screen)
    BY <2>1, <2>5, EraseShown
  <2>6. CASE c \in Letters /\ Len(line) < LINE_MAX - 1 /\ line' = Append(line, c) /\ screen' = Put(screen, c)
    BY <2>1, <2>6, EchoShown
  <2> QED
    BY <2>2, <2>3, <2>4, <2>5, <2>6
<1>4. CASE Dispatch
  <2>1. ran' = Command(line) /\ line' = line /\ screen' = screen
    BY <1>4 DEF Dispatch, editing
  <2>2. at' # "getchar"
    BY <1>4 DEF Dispatch
  <2> QED
    BY <2>1, <2>2
<1>5. CASE Prompt \/ cmd_reboot
  BY <1>2, <1>5 DEF Prompt, cmd_reboot
<1>6. CASE Type \/ vConsoleTask_Sleeps
  BY <1>1, <1>6 DEF Type, vConsoleTask_Sleeps, editing
<1>7. CASE cmd_gpu \/ xSemaphoreTake \/ cmd_gpu_poll \/ cmd_gpu_read
  BY <1>1, <1>7 DEF cmd_gpu, xSemaphoreTake, cmd_gpu_poll, cmd_gpu_read, editing
<1>8. CASE KernelEnds \/ application_interrupt_handler \/ SysTick
  BY <1>1, <1>8 DEF KernelEnds, application_interrupt_handler, SysTick, editing
<1>9. CASE UNCHANGED shellVars
  BY <1>1, <1>9 DEF shellVars
<1> QED
  BY <1>3, <1>4, <1>5, <1>6, <1>7, <1>8, <1>9 DEF ShellNext

\* shell.c:358-395: whatever is typed and erased, and however long the line, the command
\* that runs is the one the terminal shows.
THEOREM CommandIsShown == ShellSpec => []RunsWhatIsShown
<1>1. ShellInit => LineShown
  BY EmptyShown DEF ShellInit, LineShown, Nothing
<1>2. LineShown => RunsWhatIsShown
  <2> SUFFICES ASSUME LineShown, ran # Nothing PROVE RunsWhatIsShown
    BY DEF RunsWhatIsShown
  <2>1. ran = SpelledBy(Words(Shown(line)), Len(line))
    BY CommandIsSpelled DEF LineShown
  <2>2. screen.cells = Shown(line) /\ screen.col = Len(line)
    BY DEF LineShown
  <2>3. ran = SpelledBy(Words(screen.cells), screen.col)
    BY <2>1, <2>2
  <2> QED
    BY <2>3 DEF RunsWhatIsShown, SpelledBy
<1> QED
  BY <1>1, <1>2, LineStep, PTL DEF ShellSpec

-----------------------------------------------------------------------------
(* The programs together.                                                  *)

\* A step of one image is a step of its program and a stutter of the others.
LEMMA EachProgram == Firmware => TickSpec /\ GpuSpec /\ RtosSpec /\ ShellSpec
<1>1. FirmwareInit => TickInit /\ GpuInit /\ RtosInit /\ ShellInit
  BY DEF FirmwareInit
<1>2. ASSUME [FirmwareNext]_firmwareVars
      PROVE  [TickNext]_tickVars /\ [GpuNext]_gpuVars /\ [RtosNext]_rtosVars /\ [ShellNext]_shellVars
  BY <1>2 DEF FirmwareNext, firmwareVars
<1> QED
  BY <1>1, <1>2, PTL DEF Firmware, TickSpec, GpuSpec, RtosSpec, ShellSpec

\* gpu_loader.c:56, gpu.c:11, shell.c:174: whichever program is flashed, it reads the results
\* of the kernel it launched and never of one that still runs.
THEOREM FirmwareReadsOwnResults == Firmware => []ResultsOwn
BY EachProgram, OwnEndSeen, ResultsAreOwn, PTL DEF ResultsOwn

\* The promises of the four programs hold of the firmware as they hold of each.
THEOREM FirmwareKeeps ==
  Firmware => [](FiresAsRegistered /\ TimersKept /\ RunsItsKernel /\ RaisesCounted /\ AppsReachEnd
                 /\ RunsWhatIsShown)
BY EachProgram, TimersFireAsRegistered, TimersKeepTheirSlots, KernelImage, NoRaiseLost,
   ApplicationsReachTheirEnd, CommandIsShown, PTL
=============================================================================
