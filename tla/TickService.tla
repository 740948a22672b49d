----------------------------- MODULE TickService ----------------------------
(***************************************************************************)
(* The software timers of firmware/drivers/tick.c and the plain timer of   *)
(* firmware/drivers/timer.c, on the CLINT's mtime and mtimecmp: the        *)
(* interrupted program, and the interrupt that boot/fault.c's              *)
(* trap_dispatch hands to one of them.                                     *)
(*                                                                         *)
(* mtime advances between any two steps.  Every store of timer_add that an *)
(* interrupt could tell apart is a step, and each turn of tick_isr's loop  *)
(* is one.  A tick of mtime is a microsecond.  A callback is the index of  *)
(* the registration it was passed with (cb and arg in one); it may cancel  *)
(* a timer.  The counters for lateness are left out.                       *)
(***************************************************************************)
EXTENDS Integers, Sequences

CONSTANTS
  TICK_MAX_TIMERS,
  LoWord,    \* 2^32: the values of mtime's low word
  tick_us,   \* the period of the tick, and of the plain timer
  Kinds,     \* the timers a program registers: [period_us, one_shot]
  Starts,    \* mtime when main() reaches the application
  MaxTime,   \* bound: how long mtime runs from there
  MaxRegs    \* bound: registrations

ASSUME TickAssumption ==
  /\ TICK_MAX_TIMERS \in Nat \ {0} /\ LoWord \in Nat \ {0} /\ LoWord % 2 = 0
  /\ tick_us \in 1..(LoWord - 1) /\ Starts \subseteq Nat /\ MaxTime \in Nat /\ MaxRegs \in Nat
  /\ Kinds \subseteq [period_us : Nat, one_shot : BOOLEAN]
  /\ \A k \in Kinds : 0 < k.period_us /\ 2 * k.period_us < LoWord

VARIABLES
  mtime, cmp,    \* the CLINT; cmp has a low and a high word
  mie,           \* MTIE and MIE are set
  enabled,       \* tick_init has run: the interrupt goes to tick_isr
  timers, base_us, last_lo,
  gpio,          \* times gpio_out[0] was toggled
  main, isr,     \* where the program and the handler are
  regs,          \* history: the registrations
  epoch          \* history: mtime at the start, and whether a torn read of mtime followed
tickTable == <<timers, base_us, last_lo>>
tickVars  == <<mtime, cmp, mie, enabled, tickTable, gpio, main, isr, regs, epoch>>

Slots == 0..(TICK_MAX_TIMERS - 1)
Lo(t) == t % LoWord
Hi(t) == t \div LoWord
\* (int32_t)(a - b) < 0
Before(a, b) == (a - b) % LoWord >= LoWord \div 2

Unused == [used |-> FALSE, next |-> 0, period_us |-> 0, cb |-> 0, one_shot |-> FALSE]
At(l)  == [at |-> l]

TickInit ==
  /\ mtime \in Starts /\ cmp = [lo |-> 0, hi |-> 0] /\ mie = FALSE /\ enabled = FALSE
  /\ timers = [i \in Slots |-> Unused] /\ base_us = 0 /\ last_lo = 0 /\ gpio = 0
  /\ main = At("boot") /\ isr = At("none") /\ regs = << >>
  /\ epoch = [t |-> mtime, torn |-> FALSE]

\* mtime is not looked at between the turns of tick_isr's loop.
TimePasses ==
  /\ isr.at = "loop" => isr.i \notin Slots
  /\ main.at # "boot" /\ mtime < epoch.t + MaxTime /\ mtime' = mtime + 1
  /\ UNCHANGED <<cmp, mie, enabled, tickTable, gpio, main, isr, regs, epoch>>

mtip == mtime >= cmp.hi * LoWord + cmp.lo

arm(t) == cmp' = [lo |-> Lo(t + tick_us), hi |-> Hi(t + tick_us)]

------------------------------------------------------------------------------
(* The program.  Its steps wait while the handler runs.                    *)

Program(from) == isr.at = "none" /\ main.at = from

\* Interrupts are on before mtimecmp, still zero, is armed: the first tick comes at once.
tick_init ==
  /\ Program("boot")
  /\ base_us' = 0 /\ last_lo' = Lo(mtime) /\ enabled' = TRUE /\ mie' = TRUE
  /\ timers' = [i \in Slots |-> [timers[i] EXCEPT !.used = FALSE]]
  /\ main' = At("arm")
  /\ UNCHANGED <<mtime, cmp, gpio, isr, regs, epoch>>

\* The low word first: with interrupts on, the comparator may pass through a time long gone.
tick_init_arm ==
  /\ Program("arm") \/ Program("armhi")
  /\ IF main.at = "arm" THEN /\ cmp' = [cmp EXCEPT !.lo = Lo(mtime + tick_us)]
                             /\ main' = [at |-> "armhi", hi |-> Hi(mtime + tick_us)]
                        ELSE /\ cmp' = [cmp EXCEPT !.hi = main.hi]
                             /\ main' = At("idle")
  /\ UNCHANGED <<mtime, mie, enabled, tickTable, gpio, isr, regs, epoch>>

\* The first unused slot is taken before it is filled in.
timer_add ==
  /\ Program("idle") /\ enabled /\ Len(regs) < MaxRegs
  /\ \E k \in Kinds, i \in Slots :
       /\ ~timers[i].used /\ \A j \in 0..(i - 1) : timers[j].used
       /\ timers' = [timers EXCEPT ![i].used = TRUE]
       /\ regs' = Append(regs, [period_us |-> k.period_us, one_shot |-> k.one_shot,
            slot |-> i, at |-> mtime, fired |-> 0, raced |-> FALSE, cancelled |-> FALSE, ghost |-> FALSE])
       /\ main' = [at |-> "cb", slot |-> i]
  /\ UNCHANGED <<mtime, cmp, mie, enabled, base_us, last_lo, gpio, isr, epoch>>

\* One more store into the slot that was taken, for the last registration.
Registering == regs[Len(regs)]
Fill(from, to, slot) ==
  /\ Program(from) /\ timers' = [timers EXCEPT ![main.slot] = slot]
  /\ main' = [main EXCEPT !.at = to]
  /\ UNCHANGED <<mtime, cmp, mie, enabled, base_us, last_lo, gpio, isr, epoch>>

timer_add_cb ==
  /\ Fill("cb", "one_shot", [timers[main.slot] EXCEPT !.period_us = Registering.period_us, !.cb = Len(regs)])
  /\ UNCHANGED regs
timer_add_one_shot ==
  Fill("one_shot", "next", [timers[main.slot] EXCEPT !.one_shot = Registering.one_shot]) /\ UNCHANGED regs
timer_add_next ==
  /\ Fill("next", "idle", [timers[main.slot] EXCEPT !.next = Lo(mtime + Registering.period_us)])
  /\ regs' = [regs EXCEPT ![Len(regs)].at = mtime]

\* timer_cancel(id), by the program or by a callback.
Cancelled(id) == [r \in DOMAIN regs |->
  IF regs[r].slot = id THEN [regs[r] EXCEPT !.cancelled = TRUE] ELSE regs[r]]

timer_cancel ==
  /\ Program("idle")
  /\ \E id \in Slots :
       /\ timers[id].used
       /\ timers' = [timers EXCEPT ![id].used = FALSE] /\ regs' = Cancelled(id)
  /\ UNCHANGED <<mtime, cmp, mie, enabled, base_us, last_lo, gpio, main, isr, epoch>>

\* us_now reads base_us, then the time since last_lo; a tick in between tears the sum.
ticks_us ==
  \/ /\ Program("idle") /\ enabled /\ regs = << >>
     /\ main' = [at |-> "read", base |-> base_us, torn |-> FALSE]
     /\ UNCHANGED <<mtime, cmp, mie, enabled, tickTable, gpio, isr, regs, epoch>>
  \/ /\ Program("read")
     /\ main' = [at |-> "us", base |-> main.base + ((Lo(mtime) - last_lo) % LoWord),
                 torn |-> main.torn, when |-> mtime]
     /\ UNCHANGED <<mtime, cmp, mie, enabled, tickTable, gpio, isr, regs, epoch>>
  \/ /\ Program("us") /\ main' = At("idle")
     /\ UNCHANGED <<mtime, cmp, mie, enabled, tickTable, gpio, isr, regs, epoch>>

\* timer_now reads the high word before the low one, and does not look again:
\* a carry in between makes it an old time, and the reading torn.
timer_now_hi == Hi(mtime)
timer_now(hi) == hi * LoWord + Lo(mtime)
Torn(hi) == epoch' = [epoch EXCEPT !.torn = @ \/ timer_now(hi) # mtime]

timer_init ==
  \/ /\ Program("boot")
     /\ main' = [at |-> "now", hi |-> timer_now_hi]
     /\ UNCHANGED <<mtime, cmp, mie, enabled, tickTable, gpio, isr, regs, epoch>>
  \/ /\ Program("now")
     /\ arm(timer_now(main.hi)) /\ Torn(main.hi)
     /\ mie' = TRUE /\ main' = At("spin")
     /\ UNCHANGED <<mtime, enabled, tickTable, gpio, isr, regs>>

------------------------------------------------------------------------------
(* The interrupt: trap_dispatch and what it calls.                         *)

\* A tick that finds the program inside timer_add, or between the reads of us_now, is noted.
Noted == IF main.at \in {"cb", "one_shot", "next"}
         THEN [regs EXCEPT ![Len(regs)].raced = TRUE] ELSE regs

\* The tick does not note when it came.
tick_isr_NoLast ==
  /\ base_us' = base_us + tick_us /\ last_lo' = last_lo
  /\ isr' = [at |-> "loop", now |-> Lo(mtime), i |-> 0, called |-> FALSE]
  /\ UNCHANGED gpio

tick_isr ==
  /\ base_us' = base_us + tick_us /\ last_lo' = Lo(mtime)
  /\ isr' = [at |-> "loop", now |-> Lo(mtime), i |-> 0, called |-> FALSE]
  /\ UNCHANGED gpio

timer_int_handler ==
  /\ gpio' = gpio + 1
  /\ isr' = [at |-> "now", hi |-> timer_now_hi]
  /\ UNCHANGED <<base_us, last_lo>>

trap_dispatch_timer ==
  /\ mie /\ mtip /\ isr.at = "none"
  /\ IF enabled THEN tick_isr ELSE timer_int_handler
  /\ regs' = Noted
  /\ main' = IF main.at = "read" THEN [main EXCEPT !.torn = TRUE] ELSE main
  /\ UNCHANGED <<mtime, cmp, mie, enabled, timers, epoch>>

\* Absolute times are compared.
Due_Absolute(t, now) == t.used /\ now >= t.next

Due(t, now) == t.used /\ ~Before(now, t.next)

\* The next deadline is counted from the tick, not from the deadline.
Expire_FromNow(t) == IF t.one_shot THEN [t EXCEPT !.used = FALSE]
                     ELSE [t EXCEPT !.next = Lo(isr.now + t.period_us)]

\* What becomes of a timer that is due.
Expire(t) == IF t.one_shot THEN [t EXCEPT !.used = FALSE]
             ELSE [t EXCEPT !.next = Lo(@ + t.period_us)]

\* The callback of t is called: a registration that was cancelled has become a ghost.
Called(t) == IF t.cb = 0 THEN regs
             ELSE [regs EXCEPT ![t.cb].fired = @ + 1, ![t.cb].ghost = @ \/ regs[t.cb].cancelled]

tick_isr_loop ==
  /\ isr.at = "loop" /\ isr.i \in Slots
  /\ LET t == timers[isr.i] IN
     IF ~Due(t, isr.now) THEN UNCHANGED <<timers, regs>>
     ELSE /\ timers' = [timers EXCEPT ![isr.i] = Expire(t)]
          /\ regs' = Called(t)
  /\ isr' = [isr EXCEPT !.i = @ + 1, !.called = Due(timers[isr.i], isr.now)]
  /\ UNCHANGED <<mtime, cmp, mie, enabled, base_us, last_lo, gpio, main, epoch>>

\* A callback may cancel a timer, its own or another.
callback_cancels ==
  /\ isr.at = "loop" /\ isr.called /\ isr' = [isr EXCEPT !.called = FALSE]
  /\ \E id \in Slots :
       /\ timers[id].used
       /\ timers' = [timers EXCEPT ![id].used = FALSE] /\ regs' = Cancelled(id)
  /\ UNCHANGED <<mtime, cmp, mie, enabled, base_us, last_lo, gpio, main, epoch>>

tick_isr_arm ==
  /\ isr.at = "loop" /\ isr.i \notin Slots
  /\ arm(mtime) /\ isr' = At("none")
  /\ UNCHANGED <<mtime, mie, enabled, tickTable, gpio, main, regs, epoch>>

timer_int_handler_arm ==
  /\ isr.at = "now"
  /\ arm(timer_now(isr.hi)) /\ Torn(isr.hi) /\ isr' = At("none")
  /\ UNCHANGED <<mtime, mie, enabled, tickTable, gpio, main, regs>>

TickNext ==
  \/ TimePasses
  \/ tick_init \/ tick_init_arm \/ timer_add \/ timer_add_cb \/ timer_add_one_shot \/ timer_add_next
  \/ timer_cancel \/ ticks_us \/ timer_init
  \/ trap_dispatch_timer \/ tick_isr_loop \/ callback_cancels \/ tick_isr_arm \/ timer_int_handler_arm

TickSpec == TickInit /\ [][TickNext]_tickVars

------------------------------------------------------------------------------
(* What the timers promise.  A tick inside timer_add meets a slot that is  *)
(* in use with the deadline, the callback or the one_shot of its last      *)
(* owner; every promise to the two owners of that slot is void then.       *)

Filled(r) == ~(r = Len(regs) /\ main.at \in {"cb", "one_shot", "next"})
Clean(r)  == Filled(r) /\ \A s \in DOMAIN regs : regs[s].slot = regs[r].slot => ~regs[s].raced

\* tick.h:21-22, 36-37: a timer's k-th callback comes when k periods are over and not
\* before, however late the ticks and across the rollover of mtime's low word; a one-shot
\* fires once; what was cancelled, by the program or by another callback in the middle of
\* a pass of tick_isr, never fires again.
FiresAsRegistered ==
  \A r \in DOMAIN regs : Clean(r) =>
    /\ regs[r].fired * regs[r].period_us <= mtime - regs[r].at
    /\ regs[r].one_shot => regs[r].fired <= 1
    /\ ~regs[r].ghost

\* tick.h:36: "a periodic timer keeps it [its slot] until cancelled", with the deadline of
\* its next period: no period is skipped and late ticks add no drift; a one-shot keeps its
\* slot until it fires, whoever else adds and cancels.
TimersKept ==
  \A r \in DOMAIN regs :
    Clean(r) /\ ~regs[r].cancelled /\ ~(regs[r].one_shot /\ regs[r].fired > 0) =>
      LET t == timers[regs[r].slot]
      IN  t.used /\ t.cb = r /\ t.next = Lo(regs[r].at + (regs[r].fired + 1) * regs[r].period_us)

\* tick.c:49-52: the time accumulated by the ticks plus the part of the current one never
\* runs ahead of mtime by more than the tick that comes at once and the one that may
\* come between the two stores to mtimecmp.
ReadingsTrack == main.at = "us" /\ ~main.torn => main.base <= main.when - epoch.t + 2 * tick_us

\* timer.c: the pin is toggled no more often than once a period, as long as no carry fell
\* between the two reads of mtime.
TogglesSpaced == ~epoch.torn => gpio * tick_us <= mtime - epoch.t

\* Neither service runs ahead of mtime.
NeverAhead == ReadingsTrack /\ TogglesSpaced
=============================================================================
