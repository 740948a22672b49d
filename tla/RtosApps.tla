------------------------------ MODULE RtosApps ------------------------------
(***************************************************************************)
(* The FreeRTOS applications: the periodic printers (apps/rtos.c), the     *)
(* queue (rtos_q.c), the semaphore given from an interrupt (rtos_sem.c)    *)
(* and the scheduler metrics (rtos_metrics.c).  image says which of them   *)
(* was flashed.  A step is what a task does up to its next kernel call or  *)
(* shared access; the tick and the software interrupt fall between any     *)
(* two.  Delays are scaled down and times are not measured.  Of the output *)
(* the lines the test bench of the image looks for are kept: the bench     *)
(* reads them and ends the simulation.  A printer's line is two halves.    *)
(***************************************************************************)
EXTENDS FreeRtos

CONSTANTS
  N_ITEMS,      \* items through the queue
  RAISES,       \* software interrupts raised by rtos_sem
  LAT_N,        \* latency samples of rtos_metrics
  SW_TRIPS,     \* its yield round trips
  TICK_TARGET,  \* the ticks it waits for
  REQUIRED_A_TICKS, REQUIRED_B_PRINTS   \* what tb_soc_rtos waits for

ASSUME RtosAssumption == N_ITEMS \in Nat \ {0} /\ RAISES \in Nat \ {0}

VARIABLES
  image,     \* the application flashed
  k,         \* the kernel
  pc,        \* where each task is
  msip,      \* the CLINT's software interrupt
  late,      \* the instruction behind the one that raised it may still complete
  data,      \* the application's variables
  tb         \* the test bench
rtosVars == <<image, k, pc, msip, late, data, tb>>

Images == {"rtos", "rtos_q", "rtos_sem", "rtos_metrics"}

\* The tasks app_main creates, and its variables.
Created(i) == CASE i = "rtos" -> {"A", "B"} [] i = "rtos_q" -> {"CONS", "PROD"}
                [] i = "rtos_sem" -> {"WAIT", "TRIG"} [] i = "rtos_metrics" -> {"M"}
Statics(i) ==
  CASE i = "rtos"         -> << >>
    [] i = "rtos_q"       -> [sent |-> 0, expect |-> 1]
    [] i = "rtos_sem"     -> [raised |-> 0, sem_count |-> 0]
    [] i = "rtos_metrics" -> [lat_count |-> 0, before |-> 0, sw_go |-> FALSE,
                              trips |-> 0, sw_done |-> FALSE, tj_n |-> 0]

Bench == [line |-> << >>, a_ticks |-> 0, b_prints |-> 0, got |-> 0, have |-> {}, done |-> FALSE, failed |-> FALSE]

StartScheduler(ts) == MakeReady(KernelReset, ts)

RtosInit ==
  /\ image \in Images /\ k = StartScheduler(Created(image))
  /\ pc = [t \in Tasks |-> "start"]
  /\ msip = FALSE /\ late = FALSE
  /\ data = Statics(image) /\ tb = Bench

\* A pending interrupt is taken before the task's next step but one.
TaskAt(t, l) == RunningTask(k) = t /\ pc[t] = l /\ (msip => late)
Goto(t, l) == pc' = [pc EXCEPT ![t] = l]
Prints == late' = FALSE /\ UNCHANGED <<image, msip>>
Silent  == Prints /\ UNCHANGED tb

------------------------------------------------------------------------------
(* The test benches: what a line does to one.                              *)

\* A line counts when it is whole; a half cut by another stays in the line.
tb_soc_rtos(half) ==
  LET line == Append(tb.line, half)
      starts(t) == line[1] = <<t, 1>>
      cap(n, max) == IF n < max THEN n + 1 ELSE n
  IN  tb' = IF half[2] = 1 THEN [tb EXCEPT !.line = line]
            ELSE [tb EXCEPT !.line = << >>,
                   !.a_ticks  = IF starts("A") THEN cap(@, REQUIRED_A_TICKS) ELSE @,
                   !.b_prints = IF line = <<<<"B", 1>>, <<"B", 2>>>> THEN cap(@, REQUIRED_B_PRINTS) ELSE @]

tb_soc_rtos_q(line) ==
  tb' = CASE line = "QUEUE DONE" -> [tb EXCEPT !.done = TRUE]
          [] line = "ORDER FAIL" -> [tb EXCEPT !.failed = TRUE]
          [] OTHER -> tb

tb_soc_rtos_sem(line) ==
  tb' = CASE line = "GOT" -> [tb EXCEPT !.got = @ + 1]
          [] line = "DONE" -> [tb EXCEPT !.done = TRUE]
          [] OTHER -> tb

\* The measured times are in range.
tb_soc_rtos_metrics(line) ==
  tb' = IF line = "DONE" THEN [tb EXCEPT !.done = TRUE] ELSE [tb EXCEPT !.have = @ \cup {line}]

\* The bench ends the simulation.
BenchEnded == tb.done \/ tb.failed \/ (image = "rtos" /\ tb.a_ticks = REQUIRED_A_TICKS /\ tb.b_prints = REQUIRED_B_PRINTS)

------------------------------------------------------------------------------
(* rtos.c: a line in two halves, then a delay.                             *)

PrintHalf(t, from, to, n) ==
  /\ TaskAt(t, from) /\ Goto(t, to) /\ Prints /\ UNCHANGED k /\ UNCHANGED data
  /\ tb_soc_rtos(<<t, n>>)

Sleep(t, from, to, n) ==
  /\ TaskAt(t, from) /\ Goto(t, to) /\ Silent /\ k' = vTaskDelay(k, t, n) /\ UNCHANGED data

vTaskPrint == PrintHalf("A", "start", "half", 1) \/ PrintHalf("A", "half", "sleep", 2) \/ Sleep("A", "sleep", "start", 1)
vTaskLow   == PrintHalf("B", "start", "half", 1) \/ PrintHalf("B", "half", "sleep", 2) \/ Sleep("B", "sleep", "start", 2)

------------------------------------------------------------------------------
(* rtos_q.c                                                                *)

\* xQueueSend waits for room, as long as it takes.
vProducer ==
  /\ TaskAt("PROD", "start") /\ Silent /\ UNCHANGED pc
  /\ \/ data.sent < N_ITEMS /\ Len(k.queue) < Q_LEN
        /\ k' = QueueSent(k, data.sent + 1) /\ data' = [data EXCEPT !.sent = @ + 1]
     \/ data.sent < N_ITEMS /\ Len(k.queue) = Q_LEN
        /\ k' = Await(k, "PROD", "space", 0) /\ UNCHANGED data
     \/ data.sent = N_ITEMS /\ k' = vTaskDelete(k, "PROD") /\ UNCHANGED data

\* An item out of order wedges the task; behind the last one it is suspended.
vConsumer ==
  \/ /\ TaskAt("CONS", "start") /\ Silent /\ k.queue = << >>
     /\ k' = Await(k, "CONS", "items", 0) /\ UNCHANGED <<pc, data>>
  \/ /\ TaskAt("CONS", "start") /\ Prints /\ k.queue # << >>
     /\ k' = QueueReceived(k)
     /\ LET wrong == Head(k.queue) # data.expect  last == data.expect = N_ITEMS IN
          /\ data' = [data EXCEPT !.expect = @ + 1]
          /\ Goto("CONS", IF wrong THEN "wedged" ELSE IF last THEN "done" ELSE "start")
          /\ tb_soc_rtos_q(IF wrong THEN "ORDER FAIL" ELSE IF last THEN "QUEUE DONE" ELSE "PROGRESS")
  \/ /\ TaskAt("CONS", "done") /\ Silent /\ k' = vTaskSuspend(k, "CONS") /\ UNCHANGED <<pc, data>>

------------------------------------------------------------------------------
(* rtos_sem.c                                                              *)

vWaiterTask ==
  \/ /\ TaskAt("WAIT", "start") /\ Silent /\ ~k.sem
     /\ k' = Await(k, "WAIT", "sem", 0) /\ UNCHANGED <<pc, data>>
  \/ /\ TaskAt("WAIT", "start") /\ Prints /\ k.sem
     /\ k' = SemaphoreTaken(k) /\ data' = [data EXCEPT !.sem_count = @ + 1] /\ tb_soc_rtos_sem("GOT")
     /\ Goto("WAIT", IF data.sem_count + 1 >= RAISES THEN "done" ELSE "start")
  \/ /\ TaskAt("WAIT", "done") /\ Prints /\ tb_soc_rtos_sem("DONE")
     /\ k' = vTaskSuspend(k, "WAIT") /\ UNCHANGED <<pc, data>>

vTriggerTask ==
  \/ /\ TaskAt("TRIG", "start") /\ Silent /\ UNCHANGED data
     /\ IF data.raised < RAISES THEN k' = vTaskDelay(k, "TRIG", 1) /\ Goto("TRIG", "raise")
        ELSE k' = vTaskDelete(k, "TRIG") /\ UNCHANGED pc
  \/ /\ TaskAt("TRIG", "raise") /\ Goto("TRIG", "start")
     /\ msip' = TRUE /\ late' = TRUE /\ data' = [data EXCEPT !.raised = @ + 1]
     /\ UNCHANGED <<image, k, tb>>

------------------------------------------------------------------------------
(* rtos_metrics.c                                                          *)

\* The sample may be taken before the task reads lat_count, or after.
vLatTrigTask ==
  \/ /\ TaskAt("LAT", "start") /\ Silent /\ UNCHANGED data
     /\ IF data.lat_count < LAT_N THEN k' = vTaskDelay(k, "LAT", 2) /\ Goto("LAT", "raise")
        ELSE k' = vTaskSuspend(k, "LAT") /\ UNCHANGED pc
  \/ /\ TaskAt("LAT", "raise") /\ Goto("LAT", "before")
     /\ msip' = TRUE /\ late' = TRUE /\ UNCHANGED <<image, k, data, tb>>
  \/ /\ TaskAt("LAT", "before") /\ Goto("LAT", "wait") /\ Silent /\ UNCHANGED k
     /\ data' = [data EXCEPT !.before = data.lat_count]
  \/ /\ TaskAt("LAT", "wait") /\ Silent /\ UNCHANGED data
     /\ IF data.lat_count = data.before THEN k' = vTaskDelay(k, "LAT", 1) /\ UNCHANGED pc
        ELSE Goto("LAT", "start") /\ UNCHANGED k

vYieldA ==
  \/ /\ TaskAt("YA", "start") /\ Silent /\ UNCHANGED data
     /\ IF data.sw_go THEN Goto("YA", "trip") /\ UNCHANGED k
        ELSE k' = vTaskDelay(k, "YA", 1) /\ UNCHANGED pc
  \/ /\ TaskAt("YA", "trip") /\ Silent
     /\ IF data.trips < SW_TRIPS
        THEN k' = taskYIELD(k, "YA") /\ data' = [data EXCEPT !.trips = @ + 1]
        ELSE k' = vTaskSuspend(k, "YA") /\ data' = [data EXCEPT !.sw_done = TRUE]
     /\ UNCHANGED pc

vYieldB ==
  \/ /\ TaskAt("YB", "start") /\ Silent /\ UNCHANGED data
     /\ IF data.sw_go THEN Goto("YB", "trip") /\ UNCHANGED k
        ELSE k' = vTaskDelay(k, "YB", 1) /\ UNCHANGED pc
  \/ /\ TaskAt("YB", "trip") /\ Silent /\ UNCHANGED <<pc, data>>
     /\ k' = IF data.sw_done THEN vTaskSuspend(k, "YB") ELSE taskYIELD(k, "YB")

\* The orchestrator: creates the tasks of a phase and looks every so often.
Look(from, ready) ==
  /\ TaskAt("M", from) /\ ~ready /\ Silent /\ k' = vTaskDelay(k, "M", 1) /\ UNCHANGED <<pc, data>>
Report(from, ready, line, to) ==
  TaskAt("M", from) /\ ready /\ Goto("M", to) /\ Prints /\ tb_soc_rtos_metrics(line)

vMetricsTask ==
  \/ /\ TaskAt("M", "start") /\ Goto("M", "phase L") /\ Silent
     /\ k' = xTaskCreate(k, "LAT") /\ UNCHANGED data
  \/ Look("phase L", data.lat_count >= LAT_N)
  \/ /\ Report("phase L", data.lat_count >= LAT_N, "LAT", "phase S")
     /\ k' = xTaskCreate(xTaskCreate(k, "YA"), "YB") /\ data' = [data EXCEPT !.sw_go = TRUE]
  \/ Look("phase S", data.sw_done)
  \/ Report("phase S", data.sw_done, "SW", "phase T") /\ UNCHANGED <<k, data>>
  \/ Look("phase T", data.tj_n >= TICK_TARGET)
  \/ Report("phase T", data.tj_n >= TICK_TARGET, "TICK", "finish") /\ UNCHANGED <<k, data>>
  \/ Report("finish", TRUE, "DONE", "done") /\ k' = vTaskSuspend(k, "M") /\ UNCHANGED data

------------------------------------------------------------------------------
(* Interrupts.                                                             *)

\* rtos_metrics counts ticks in its hook; the other images have the empty one.
vApplicationTickHook ==
  data' = IF image = "rtos_metrics" /\ data.tj_n < TICK_TARGET
          THEN [data EXCEPT !.tj_n = @ + 1] ELSE data

Tick ==
  /\ msip => late
  /\ k' = xTaskIncrementTick(k) /\ vApplicationTickHook
  /\ UNCHANGED <<image, pc, msip, late, tb>>

\* The source is not cleared.
freertos_risc_v_application_interrupt_handler_NoClear ==
  /\ msip /\ msip' = TRUE /\ late' = FALSE
  /\ k' = IF image = "rtos_sem" THEN xSemaphoreGiveFromISR(k) ELSE k
  /\ data' = IF image = "rtos_metrics" THEN [data EXCEPT !.lat_count = @ + 1] ELSE data
  /\ UNCHANGED <<image, pc, tb>>

\* The source is cleared; rtos_sem gives its semaphore, rtos_metrics counts a sample.
freertos_risc_v_application_interrupt_handler ==
  /\ msip /\ msip' = FALSE /\ late' = FALSE
  /\ k' = IF image = "rtos_sem" THEN xSemaphoreGiveFromISR(k) ELSE k
  /\ data' = IF image = "rtos_metrics" THEN [data EXCEPT !.lat_count = @ + 1] ELSE data
  /\ UNCHANGED <<image, pc, tb>>

TaskStep ==
  \/ vTaskPrint \/ vTaskLow \/ vProducer \/ vConsumer \/ vWaiterTask \/ vTriggerTask
  \/ vLatTrigTask \/ vYieldA \/ vYieldB \/ vMetricsTask

RtosNext == ~BenchEnded /\ (TaskStep \/ Tick \/ freertos_risc_v_application_interrupt_handler)

RtosSpec == RtosInit /\ [][RtosNext]_rtosVars

------------------------------------------------------------------------------
\* rtos_sem.c:5-8: every software interrupt the trigger raised is pending, waits in the
\* semaphore, or was counted by the waiter, and none counts twice: the binary semaphore
\* never swallows a second one.
RaisesCounted ==
  image = "rtos_sem" =>
    data.raised = data.sem_count + (IF k.sem THEN 1 ELSE 0) + (IF msip THEN 1 ELSE 0)

\* The verdicts of the test benches.
BenchPasses ==
  CASE image = "rtos"         -> BenchEnded
    [] image = "rtos_q"       -> tb.done /\ ~tb.failed
    [] image = "rtos_sem"     -> tb.done /\ tb.got = RAISES
    [] image = "rtos_metrics" -> tb.done /\ tb.have = {"LAT", "SW", "TICK"}

\* Nothing is ready, nothing sleeps and no interrupt is pending: nothing will ever run.
Hung == k.ready = << >> /\ (\A t \in Tasks : k.sleep[t] = 0) /\ ~msip

\* What the test benches are there to see (rtos.c:9-10, rtos_q.c:4-6, rtos_sem.c,
\* rtos_metrics.c): no application waits for a wake-up that was lost, one that reaches its
\* last line has printed the others and none of failure, and the line of the printer with
\* the higher priority is never cut by the other.
AppsReachEnd ==
  /\ Hung \/ BenchEnded => BenchPasses
  /\ \A i \in DOMAIN tb.line : tb.line[i] = <<"A", 1>> => i = Len(tb.line)
=============================================================================
