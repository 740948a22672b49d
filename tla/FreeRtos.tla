------------------------------ MODULE FreeRtos ------------------------------
(***************************************************************************)
(* The part of the FreeRTOS kernel the applications use, as                *)
(* rtos/FreeRTOSConfig.h configures it: preemption by priority, equal      *)
(* priorities in turn, a tick.  The kernel itself is third-party code; a   *)
(* call runs with interrupts off, so it is one step.                       *)
(*                                                                         *)
(* k is the kernel's state: the ready list (the order in which equals      *)
(* run), the ticks each task still sleeps, what it waits for, the binary   *)
(* semaphore and the queue.                                                *)
(***************************************************************************)
EXTENDS Integers, Sequences, SequencesExt, FiniteSets

CONSTANTS Q_LEN   \* the queue's length

ASSUME QueueAssumption == Q_LEN \in Nat \ {0}

\* The task that waits for the semaphore runs below the one that raises the interrupt.
Prio_WaiterLow == [A |-> 2, B |-> 1, CONS |-> 2, PROD |-> 1, WAIT |-> 1, TRIG |-> 2,
                   M |-> 3, LAT |-> 1, YA |-> 2, YB |-> 2, console |-> 2]

Prio == [A |-> 2, B |-> 1, CONS |-> 2, PROD |-> 1, WAIT |-> 2, TRIG |-> 1,
         M |-> 3, LAT |-> 1, YA |-> 2, YB |-> 2, console |-> 2]
Tasks == DOMAIN Prio

\* The scheduler has not started: nothing is ready.
KernelReset == [ready |-> << >>, sleep |-> [t \in Tasks |-> 0], waits |-> [t \in Tasks |-> "nothing"],
                sem |-> FALSE, queue |-> << >>]

IsReady(k, t) == \E i \in DOMAIN k.ready : k.ready[i] = t
\* The first of the highest priority that is ready; "idle" if none is.
RunningTask(k) ==
  IF k.ready = << >> THEN "idle"
  ELSE LET best == {i \in DOMAIN k.ready : \A j \in DOMAIN k.ready : Prio[k.ready[j]] <= Prio[k.ready[i]]}
       IN  k.ready[CHOOSE i \in best : \A j \in best : i <= j]

MakeReady(k, ts) ==
  [k EXCEPT !.ready = @ \o SetToSeq({t \in ts : ~IsReady(k, t)}),
            !.sleep = [t \in Tasks |-> IF t \in ts THEN 0 ELSE @[t]],
            !.waits = [t \in Tasks |-> IF t \in ts THEN "nothing" ELSE @[t]]]
Unready(k, t) == [k EXCEPT !.ready = RemoveFirst(@, t)]

xTaskCreate(k, t)   == MakeReady(k, {t})
vTaskDelay(k, t, n) == [Unready(k, t) EXCEPT !.sleep[t] = n]
vTaskSuspend(k, t)  == Unready(k, t)
vTaskDelete(k, t)   == Unready(k, t)
taskYIELD(k, t)     == [Unready(k, t) EXCEPT !.ready = Append(@, t)]

\* t waits for an object, for ticks ticks (0: for ever); it tries again when it is woken.
Await(k, t, what, ticks) == [Unready(k, t) EXCEPT !.waits[t] = what, !.sleep[t] = ticks]
Wake(k, what) == MakeReady(k, {t \in Tasks : k.waits[t] = what})

xSemaphoreGiveFromISR(k) == Wake([k EXCEPT !.sem = TRUE], "sem")
SemaphoreTaken(k) == [k EXCEPT !.sem = FALSE]

QueueSent(k, v)   == Wake([k EXCEPT !.queue = Append(@, v)], "items")
QueueReceived(k)  == Wake([k EXCEPT !.queue = Tail(@)], "space")

\* The tick: sleepers wake, and the running task goes behind its equals.
xTaskIncrementTick(k) ==
  LET woken == MakeReady([k EXCEPT !.sleep = [t \in Tasks |-> IF @[t] > 0 THEN @[t] - 1 ELSE 0]],
                         {t \in Tasks : k.sleep[t] = 1})
      run   == RunningTask(k)
  IN  IF run = "idle" THEN woken ELSE taskYIELD(woken, run)
=============================================================================
