-------------------------------- MODULE Shell -------------------------------
(***************************************************************************)
(* The interactive shell of apps/shell.c: the console task (line editing,  *)
(* splitting, dispatch), the gpu command with its completion interrupt and *)
(* semaphore, and the host that types.                                     *)
(*                                                                         *)
(* A command is named by one letter: p peek, m mdump, g gpu, q quit,       *)
(* r reboot; the others take the same paths.  The screen is the terminal's *)
(* row behind the last prompt.  What a command prints, and the statistics  *)
(* of the tick hook, are left out.                                         *)
(***************************************************************************)
EXTENDS FreeRtos, Functions, FiniteSetsExt

CONSTANTS
  LINE_MAX,   \* the line buffer, with its NUL
  Letters,    \* what the host types besides the control characters
  NumberW,    \* the values of a uint32_t, which parse_num returns
  RxDepth,    \* bound: typed and not yet read
  GpuTicks    \* pdMS_TO_TICKS(1000): how long cmd_gpu waits

ASSUME ShellAssumption ==
  LINE_MAX \in Nat \ {0, 1} /\ NumberW \in Nat \ {0} /\ RxDepth \in Nat \ {0} /\ GpuTicks \in Nat \ {0}

VARIABLES
  sk,          \* the kernel
  at,          \* where the console task is
  rx,          \* the UART's receive FIFO
  line,        \* line[0..len)
  screen,      \* the terminal's row and its cursor
  ran,         \* the command the last line ran
  gpu, latch,  \* a kernel runs; its completion is latched
  justNow,     \* the completion is too fresh to have interrupted
  stale        \* history: the semaphore was full when a cmd_gpu launched
shellVars == <<sk, at, rx, line, screen, ran, gpu, latch, justNow, stale>>
editing   == <<rx, line, screen>>
gpuState  == <<gpu, latch, justNow>>

CR == "cr"   BS == "bs"   Bell == "bell"
Blank == " "

Nothing == [cmd |-> "nothing", args |-> << >>]

\* What a character, and the erasing echo "\b \b", do to the row.
Clear == [cells |-> [i \in 1..LINE_MAX |-> Blank], col |-> 0]
Put(scr, c) == [cells |-> [scr.cells EXCEPT ![scr.col + 1] = c], col |-> scr.col + 1]
Back(scr)   == [scr EXCEPT !.col = @ - 1]
Erase(scr)  == Back(Put(Back(scr), Blank))

ShellInit ==
  /\ sk = MakeReady(KernelReset, {"console"}) /\ at = "getchar"
  /\ rx = << >> /\ line = << >> /\ screen = Clear /\ ran = Nothing
  /\ gpu = FALSE /\ latch = FALSE /\ justNow = FALSE /\ stale = FALSE

\* The host types; bound: no more once a command was launched with the semaphore full.
Type ==
  /\ ~stale /\ Len(rx) < RxDepth
  /\ \E c \in Letters \cup {CR, BS, Bell} : rx' = Append(rx, c)
  /\ UNCHANGED <<sk, at, line, screen, ran, gpuState, stale>>

\* A pending interrupt lets one step of the task pass at most.
Console(l) == RunningTask(sk) = "console" /\ at = l /\ (latch => justNow) /\ justNow' = FALSE

------------------------------------------------------------------------------
(* Numbers and words.                                                      *)

Digits == [c \in {"0", "1", "2", "3", "4", "5", "6", "7", "8", "9", "a", "b", "c", "d", "e", "f"} |->
  CHOOSE d \in 0..15 : <<"0", "1", "2", "3", "4", "5", "6", "7", "8", "9", "a", "b", "c", "d", "e", "f">>[d + 1] = c]

NoNumber == -1
\* parse_num: an optional 0x, then hexadecimal digits to the end.
parse_num(s) ==
  LET t == IF Len(s) >= 2 /\ s[1] = "0" /\ s[2] = "x" THEN SubSeq(s, 3, Len(s)) ELSE s
      v[n \in 0..Len(t)] == IF n = 0 THEN 0 ELSE (v[n - 1] * 16 + Digits[t[n]]) % NumberW
  IN  IF t = << >> \/ (\E i \in DOMAIN t : t[i] \notin DOMAIN Digits) THEN NoNumber ELSE v[Len(t)]

\* next_tok: skips blanks and cuts the word off; none is << >>.
FirstAt(s, from, blank) ==
  LET hits == {i \in from..Len(s) : (s[i] = Blank) = blank} IN IF hits = {} THEN Len(s) + 1 ELSE Min(hits)
next_tok(s) ==
  LET i == FirstAt(s, 1, FALSE)
      j == FirstAt(s, i, TRUE)
  IN  [tok |-> SubSeq(s, i, j - 1), rest |-> SubSeq(s, j + 1, Len(s))]

------------------------------------------------------------------------------
(* The console task.                                                       *)

\* What a full line does not take is echoed all the same.
vConsoleTask_EchoesAll ==
  /\ Console("getchar") /\ rx # << >> /\ rx' = Tail(rx)
  /\ LET c == Head(rx) IN
       \/ /\ c = CR /\ line = << >> /\ screen' = Clear /\ UNCHANGED <<line, at>>
       \/ /\ c = CR /\ line # << >> /\ at' = "dispatch" /\ UNCHANGED <<line, screen>>
       \/ /\ c = BS /\ line # << >> /\ line' = Front(line) /\ screen' = Erase(screen) /\ UNCHANGED at
       \/ /\ c \in Letters /\ Len(line) < LINE_MAX - 1
          /\ line' = Append(line, c) /\ screen' = Put(screen, c) /\ UNCHANGED at
       \/ /\ c = Bell \/ (c = BS /\ line = << >>)
          /\ UNCHANGED <<line, screen, at>>
       \/ /\ c \in Letters /\ Len(line) = LINE_MAX - 1
          /\ screen' = Put(screen, c) /\ UNCHANGED <<line, at>>
  /\ UNCHANGED <<sk, ran, gpu, latch, stale>>

\* One character: an empty line prompts again, a full one takes no more.
vConsoleTask ==
  /\ Console("getchar") /\ rx # << >> /\ rx' = Tail(rx)
  /\ LET c == Head(rx) IN
       \/ /\ c = CR /\ line = << >> /\ screen' = Clear /\ UNCHANGED <<line, at>>
       \/ /\ c = CR /\ line # << >> /\ at' = "dispatch" /\ UNCHANGED <<line, screen>>
       \/ /\ c = BS /\ line # << >> /\ line' = Front(line) /\ screen' = Erase(screen) /\ UNCHANGED at
       \/ /\ c \in Letters /\ Len(line) < LINE_MAX - 1
          /\ line' = Append(line, c) /\ screen' = Put(screen, c) /\ UNCHANGED at
       \/ /\ \/ c = Bell
             \/ c = BS /\ line = << >>
             \/ c \in Letters /\ Len(line) = LINE_MAX - 1
          /\ UNCHANGED <<line, screen, at>>
  /\ UNCHANGED <<sk, ran, gpu, latch, stale>>

\* Nothing typed: look again in two ticks.
vConsoleTask_Sleeps ==
  /\ Console("getchar") /\ rx = << >> /\ sk' = vTaskDelay(sk, "console", 2)
  /\ UNCHANGED <<at, editing, ran, gpu, latch, stale>>

Usage == [cmd |-> "usage", args |-> << >>]
cmd_peek(args) ==
  LET addr == parse_num(next_tok(args).tok)
  IN  IF addr = NoNumber THEN Usage ELSE [cmd |-> "peek", args |-> <<addr>>]
cmd_mdump(args) ==
  LET addr == parse_num(next_tok(args).tok)
      n    == parse_num(next_tok(next_tok(args).rest).tok)
  IN  IF addr = NoNumber \/ n \notin 1..64 THEN Usage ELSE [cmd |-> "mdump", args |-> <<addr, n>>]

\* quit is the whole line; for a blank line the command's name is whatever address 0
\* holds, which is code and names no command.
Command(s) ==
  LET t == next_tok(s) IN
  CASE s = <<"q">>       -> [cmd |-> "quit", args |-> << >>]
    [] t.tok = <<"p">>   -> cmd_peek(t.rest)
    [] t.tok = <<"m">>   -> cmd_mdump(t.rest)
    [] t.tok = <<"r">>   -> [cmd |-> "reboot", args |-> << >>]
    [] t.tok = <<"g">>   -> [cmd |-> "gpu", args |-> << >>]
    [] OTHER             -> [cmd |-> "unknown", args |-> << >>]

Dispatch ==
  /\ Console("dispatch") /\ ran' = Command(line)
  /\ at' = CASE ran'.cmd = "gpu" -> "launch" [] ran'.cmd = "quit" -> "quit"
             [] ran'.cmd = "reboot" -> "reboot" [] OTHER -> "prompt"
  /\ UNCHANGED <<sk, editing, gpu, latch, stale>>

Prompt ==
  /\ Console("prompt") /\ at' = "getchar" /\ line' = << >> /\ screen' = Clear /\ ran' = Nothing
  /\ UNCHANGED <<sk, rx, gpu, latch, stale>>

\* Interrupts are off and everything starts again; the FIFO keeps what was typed.
cmd_reboot ==
  /\ Console("reboot")
  /\ sk' = MakeReady(KernelReset, {"console"}) /\ at' = "getchar"
  /\ line' = << >> /\ screen' = Clear /\ ran' = Nothing
  /\ UNCHANGED <<rx, gpu, latch, stale>>

\* cmd_gpu: launch, take the semaphore or give up on it and poll, read the results.
cmd_gpu ==
  /\ Console("launch") /\ gpu' = TRUE /\ stale' = (stale \/ sk.sem) /\ at' = "take"
  /\ UNCHANGED <<sk, editing, ran, latch>>

xSemaphoreTake ==
  \/ /\ Console("take") \/ Console("woken")
     /\ sk.sem /\ sk' = SemaphoreTaken(sk) /\ at' = "read"
     /\ UNCHANGED <<editing, ran, gpu, latch, stale>>
  \/ /\ Console("take") /\ ~sk.sem
     /\ sk' = Await(sk, "console", "sem", GpuTicks) /\ at' = "woken"
     /\ UNCHANGED <<editing, ran, gpu, latch, stale>>
  \/ /\ Console("woken") /\ ~sk.sem /\ at' = "poll"
     /\ UNCHANGED <<sk, editing, ran, gpu, latch, stale>>

\* STATUS: active_warps, and the latch is cleared.
cmd_gpu_poll ==
  /\ Console("poll") /\ latch' = FALSE /\ at' = IF gpu THEN "poll" ELSE "read"
  /\ UNCHANGED <<sk, editing, ran, gpu, stale>>

cmd_gpu_read ==
  /\ Console("read") /\ at' = "prompt"
  /\ UNCHANGED <<sk, editing, ran, gpu, latch, stale>>

------------------------------------------------------------------------------
KernelEnds ==
  /\ gpu /\ gpu' = FALSE /\ latch' = TRUE /\ justNow' = TRUE
  /\ UNCHANGED <<sk, at, editing, ran, stale>>

\* STATUS is read, which clears the latch, and the semaphore is given.
application_interrupt_handler ==
  /\ latch /\ latch' = FALSE /\ justNow' = FALSE
  /\ sk' = xSemaphoreGiveFromISR(sk)
  /\ UNCHANGED <<at, editing, ran, gpu, stale>>

SysTick ==
  /\ latch => justNow
  /\ sk' = xTaskIncrementTick(sk) /\ sk' # sk
  /\ UNCHANGED <<at, editing, ran, gpuState, stale>>

ShellNext ==
  \/ Type \/ vConsoleTask \/ vConsoleTask_Sleeps \/ Dispatch \/ Prompt \/ cmd_reboot
  \/ cmd_gpu \/ xSemaphoreTake \/ cmd_gpu_poll \/ cmd_gpu_read
  \/ KernelEnds \/ application_interrupt_handler \/ SysTick

ShellSpec == ShellInit /\ [][ShellNext]_shellVars

------------------------------------------------------------------------------
\* The words of s: its maximal blank-free stretches, in order.
Words(s) ==
  LET Word(i, j) == /\ \A m \in i..j : s[m] # Blank
                    /\ i = 1 \/ s[i - 1] = Blank
                    /\ j = Len(s) \/ s[j + 1] = Blank
      starts == {i \in DOMAIN s : \E j \in i..Len(s) : Word(i, j)}
  IN  [n \in 1..Cardinality(starts) |->
        LET i == CHOOSE i \in starts : Cardinality({m \in starts : m <= i}) = n
        IN  SubSeq(s, i, CHOOSE j \in i..Len(s) : Word(i, j))]

\* The number a word of hexadecimal digits, with or without 0x, stands for, in a
\* uint32_t: every digit, from the last one, counts for its place.
Value(w) ==
  LET d == IF Len(w) > 2 /\ SubSeq(w, 1, 2) = <<"0", "x">> THEN SubSeq(w, 3, Len(w)) ELSE w
      place[k \in 0..Len(d)] == IF k = 0 THEN 1 ELSE 16 * place[k - 1]
      sum[k \in 0..Len(d)] == IF k = 0 THEN 0 ELSE sum[k - 1] + Digits[d[Len(d) - k + 1]] * place[k - 1]
  IN  IF \A i \in DOMAIN d : d[i] \in DOMAIN Digits THEN sum[Len(d)] % NumberW ELSE NoNumber

\* shell.c:4-5, 358-395: the command that runs is the one the terminal shows, through
\* erasing, a full buffer and ignored characters: its first word names it, the words behind
\* are its arguments, more than it needs are ignored, and with one missing or malformed it
\* prints its usage and touches nothing.  quit must be the whole line.
RunsWhatIsShown ==
  ran # Nothing =>
    LET w == Words(screen.cells)
        Arg(n) == IF Len(w) > n THEN Value(w[n + 1]) ELSE NoNumber
        Plain(c) == [cmd |-> c, args |-> << >>]
    IN  ran = IF w = << >> THEN Plain("unknown")
              ELSE CASE w = <<<<"q">>>> /\ screen.col = 1 -> Plain("quit")
                     [] w[1] = <<"g">> -> Plain("gpu")
                     [] w[1] = <<"r">> -> Plain("reboot")
                     [] w[1] = <<"p">> ->
                          IF Arg(1) = NoNumber THEN Usage ELSE [cmd |-> "peek", args |-> <<Arg(1)>>]
                     [] w[1] = <<"m">> ->
                          IF Arg(1) = NoNumber \/ Arg(2) \notin 1..64 THEN Usage
                          ELSE [cmd |-> "mdump", args |-> <<Arg(1), Arg(2)>>]
                     [] OTHER -> Plain("unknown")

\* shell.c:32, 174-183: cmd_gpu reads the results when the kernel it launched is over, by
\* interrupt or by polling; a time-out whose completion came before the poll leaves the
\* semaphore full, and the commands after it read too early.
GpuResultsOwn == at = "read" /\ ~stale => ~gpu
=============================================================================
