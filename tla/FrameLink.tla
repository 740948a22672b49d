------------------------------ MODULE FrameLink -----------------------------
(***************************************************************************)
(* A host and the firmware's framed protocol over the UART: the receive    *)
(* FIFO (uart.v), the receive ring (uart_rx.c), the parser (frame.c) and   *)
(* the application that answers each frame (frame_test.c).                 *)
(*                                                                         *)
(* The host is external: it sends a command, waits for the answer that     *)
(* carries its sequence number, and sends it again when none comes, which  *)
(* is what frame.h asks of a sender.  The line may lose, change or invent  *)
(* a byte in either direction.  The ring is the sequence of the bytes from *)
(* tail to head; what the statistics counters read is a choice of Counts.  *)
(*                                                                         *)
(* The application's session is over when IDLE_STOP has passed since the   *)
(* last frame it accepted: from there on nobody reads the line.  Time is   *)
(* counted in ticks; a host's next try comes at most RetryAfter of them    *)
(* after the last one, and everything a try sets off happens before.       *)
(***************************************************************************)
EXTENDS FrameCodec

CONSTANTS Commands,    \* the frames the host has to get executed
          Counts,      \* payloads of an answer to FRAME_CMD_STATS
          MaxPayload,  \* FRAME_MAX_PAYLOAD
          FifoDepth,   \* 16 in uart.v
          RingSize,    \* UART_RX_RING
          IDLE_STOP,   \* ticks without an accepted frame that end the session
          RetryAfter,  \* ticks from one try of the host to the next, at most
          MaxFaults    \* bound: faults of the line and premature retries

ASSUME LinkAssumption ==
  /\ MaxPayload \in 0..123 /\ FifoDepth \in Nat \ {0} /\ RingSize \in Nat \ {0, 1}
  /\ IDLE_STOP \in Nat /\ RetryAfter \in Nat /\ MaxFaults \in Nat
  /\ Commands \in Seq(Frame) /\ Counts # {} /\ \A p \in Counts : p \in Seq(Byte) /\ Len(p) = 5
  /\ \A i \in DOMAIN Commands : Len(Commands[i].payload) <= MaxPayload

VARIABLES
  \* the host
  acked,    \* commands it knows to be done
  hout,     \* what it is transmitting
  reply,    \* what it received since the last flag
  faults,   \* bound
  \* time: MTIME
  wait,     \* since the host's last try, or the answer to it
  idle,     \* since the last accepted frame (app_main's last)
  \* uart.v: the receive FIFO
  fifo,
  \* uart_rx.c
  ring,
  \* frame.c
  body, in_frame, esc,
  last,     \* <<>>, or <<last_seq>> once a frame was accepted
  \* the application
  at,       \* which call it is in
  out,      \* what frame_send still has to write
  executed  \* history: the commands it acted on

hostVars == <<acked, hout, reply, faults, wait>>
parser   == <<body, in_frame, esc, last>>
vars     == <<hostVars, idle, fifo, ring, parser, at, out, executed>>

BODY_MAX == 3 + MaxPayload + 2

Init ==
  /\ acked = 0 /\ hout = <<>> /\ reply = <<>> /\ faults = 0 /\ wait = 0 /\ idle = 0
  /\ fifo = <<>> /\ ring = <<>>
  /\ body = <<>> /\ in_frame = FALSE /\ esc = FALSE /\ last = <<>>
  /\ at = "pump" /\ out = <<>> /\ executed = <<>>

------------------------------------------------------------------------------
(* The host and the line.                                                  *)

FRAME_CMD_ECHO  == 1
FRAME_CMD_STATS == 2

\* The commands as they go over the line.
Wire == [i \in DOMAIN Commands |-> frame_send(Commands[i])]

\* Nothing is under way in either direction that somebody still reads.
Quiet == hout = <<>> /\ out = <<>> /\ (at = "done" \/ (fifo = <<>> /\ ring = <<>>))

HostSend ==
  /\ acked < Len(Commands) /\ hout = <<>>
  /\ \/ Quiet /\ UNCHANGED faults
     \/ ~Quiet /\ faults < MaxFaults /\ faults' = faults + 1
  /\ hout' = Wire[acked + 1] /\ wait' = 0
  /\ UNCHANGED <<acked, reply, idle, fifo, ring, parser, at, out, executed>>

\* The frames that answer a command: itself, or for the statistics the counters.
AnswersTo(f) ==
  {f} \cup (IF f.cmd = FRAME_CMD_STATS THEN {[f EXCEPT !.payload = p] : p \in Counts} ELSE {})
WireAnswers == [i \in DOMAIN Commands |-> {frame_send(f) : f \in AnswersTo(Commands[i])}]

Answers(s) == acked < Len(Commands) /\ <<FLAG>> \o s \o <<FLAG>> \in WireAnswers[acked + 1]

HostByte(b) ==
  /\ reply' = IF b = FLAG THEN <<>> ELSE Append(reply, b)
  /\ IF b = FLAG /\ Answers(reply) THEN acked' = acked + 1 /\ wait' = 0 ELSE UNCHANGED <<acked, wait>>

\* Time passes; the host does not let more than RetryAfter pass without trying again.
Tick ==
  /\ IF acked = Len(Commands) THEN UNCHANGED wait
                             ELSE wait < RetryAfter /\ wait' = wait + 1
  /\ idle <= IDLE_STOP /\ idle' = idle + 1
  /\ UNCHANGED <<acked, hout, reply, faults, fifo, ring, parser, at, out, executed>>

\* What a fault may put in place of a byte.
Noise == {0, FLAG, ESC}

\* The firmware drains the FIFO within a byte time unless it is busy answering, or done.
KeepsUp == \/ at \in {"nak", "answer", "done"}
           \/ Len(fifo) < FifoDepth /\ Len(fifo) + Len(ring) < RingSize - 1

\* The stop bit: the byte goes into the FIFO, or is dropped when that is full.
rx_push(b) == fifo' = IF Len(fifo) = FifoDepth THEN fifo ELSE Append(fifo, b)

Arrive ==
  /\ hout # <<>> /\ KeepsUp
  /\ rx_push(Head(hout))
  /\ hout' = Tail(hout)
  /\ UNCHANGED <<acked, reply, faults, wait, idle, ring, parser, at, out, executed>>

LineFault ==
  /\ faults < MaxFaults /\ faults' = faults + 1
  /\ \/ \* a byte is lost
        hout # <<>> /\ hout' = Tail(hout) /\ UNCHANGED fifo
     \/ \* or replaced
        /\ hout # <<>> /\ KeepsUp
        /\ \E b \in Noise \ {Head(hout)} : rx_push(b)
        /\ hout' = Tail(hout)
     \/ \* or comes out of nothing
        /\ KeepsUp
        /\ \E b \in Noise : rx_push(b)
        /\ UNCHANGED hout
  /\ UNCHANGED <<acked, reply, wait, idle, ring, parser, at, out, executed>>

------------------------------------------------------------------------------
(* uart_rx_pump: one byte from the FIFO to the ring per step.              *)

\* head + 1 = tail: the ring is full and the byte dropped.
stage(b) == IF Len(ring) = RingSize - 1 THEN ring ELSE Append(ring, b)

uart_rx_pump ==
  /\ at = "pump"
  /\ IF fifo = <<>> THEN at' = "poll" /\ UNCHANGED <<fifo, ring>>
                    ELSE fifo' = Tail(fifo) /\ ring' = stage(Head(fifo)) /\ UNCHANGED at
  /\ UNCHANGED <<hostVars, idle, parser, out, executed>>

------------------------------------------------------------------------------
(* frame_poll: one byte of the ring per step.                              *)

Send(bytes, where) == out' = bytes /\ at' = where

Drop == body' = <<>> /\ in_frame' = FALSE

\* The answer to the first arrival of f.
Answer(f) ==
  \/ f.cmd = FRAME_CMD_ECHO  /\ Send(frame_send(f), "answer")
  \/ f.cmd = FRAME_CMD_STATS /\ \E p \in Counts : Send(frame_send([f EXCEPT !.payload = p]), "answer")
  \/ f.cmd \notin {FRAME_CMD_ECHO, FRAME_CMD_STATS} /\ Send(frame_send_nak(f.seq), "answer")

Act(f) == executed' = IF f.cmd \in {FRAME_CMD_ECHO, FRAME_CMD_STATS} THEN Append(executed, f) ELSE executed

\* Mutant: a repeated sequence number is not recognised.
handle_NoDup(f) == Act(f) /\ Answer(f)

\* A repeat is answered with what it carries and not acted on.
handle(f) ==
  IF last = <<f.seq>> THEN Send(frame_send(f), "answer") /\ UNCHANGED executed
                      ELSE Act(f) /\ Answer(f)

crc_ok(b, len) == frame_crc16(SubSeq(b, 1, 3 + len)) = 256 * b[4 + len] + b[5 + len]

\* b is body with its newest byte.
body_complete(b) ==
  LET len == b[1]
  IN  IF Len(b) < 3 + len + 2
        THEN body' = b /\ UNCHANGED <<in_frame, last, idle, executed, out, at>>
      ELSE IF crc_ok(b, len)
        THEN /\ Drop
             /\ last' = <<b[2]>> /\ idle' = 0
             /\ handle([seq |-> b[2], cmd |-> b[3], payload |-> SubSeq(b, 4, 3 + len)])
        ELSE Drop /\ Send(frame_send_nak(b[2]), "nak") /\ UNCHANGED <<last, idle, executed>>

\* Mutant: the declared length is not compared with FRAME_MAX_PAYLOAD.
Oversized_Never(b) == FALSE

Oversized(b) == Len(b) = 1 /\ b[1] > MaxPayload

\* A byte that is neither a flag nor an escape.
Collect(c) ==
  IF ~in_frame \/ Oversized(body)
    THEN UNCHANGED <<body, in_frame, last, idle, executed, out, at>>
  ELSE IF Len(body) >= BODY_MAX
    THEN Drop /\ Send(frame_send_nak(0), "nak") /\ UNCHANGED <<last, idle, executed>>
  ELSE IF Oversized(Append(body, c))
    THEN /\ body' = Append(body, c) /\ Send(frame_send_nak(0), "nak")
         /\ UNCHANGED <<in_frame, last, idle, executed>>
  ELSE body_complete(Append(body, c))

\* Mutant: a flag inside a frame is skipped.
Flagged_OnlyOutside ==
  IF in_frame /\ body # <<>> THEN UNCHANGED <<body, in_frame>> ELSE body' = <<>> /\ in_frame' = TRUE

\* Any unescaped flag starts a frame.
Flagged == body' = <<>> /\ in_frame' = TRUE

Poll ==
  /\ at = "poll"
  /\ UNCHANGED <<hostVars, fifo>>
  /\ \/ \* nothing left: frame_poll returns 0 and is called again
        /\ ring = <<>> /\ idle <= IDLE_STOP /\ at' = "pump"
        /\ UNCHANGED <<idle, ring, parser, out, executed>>
     \/ \* nothing accepted for too long: the session is over
        /\ ring = <<>> /\ idle > IDLE_STOP /\ at' = "done"
        /\ UNCHANGED <<idle, ring, parser, out, executed>>
     \/ /\ ring # <<>> /\ ring' = Tail(ring)
        /\ \/ esc /\ esc' = FALSE /\ Collect(Xor20(Head(ring)))
           \/ /\ ~esc /\ Head(ring) = FLAG
              /\ Flagged /\ UNCHANGED <<esc, last, idle, out, executed, at>>
           \/ /\ ~esc /\ Head(ring) = ESC /\ esc' = TRUE
              /\ UNCHANGED <<body, in_frame, last, idle, out, executed, at>>
           \/ /\ ~esc /\ Head(ring) \notin {FLAG, ESC}
              /\ Collect(Head(ring)) /\ UNCHANGED esc

\* uart_putc: one byte of frame_send, which the line may lose.
uart_putc ==
  /\ at \in {"nak", "answer"}
  /\ IF out = <<>>
       THEN at' = (IF at = "nak" THEN "poll" ELSE "pump") /\ UNCHANGED <<hostVars, out>>
       ELSE /\ out' = Tail(out)
            /\ \/ HostByte(Head(out)) /\ UNCHANGED faults
               \/ faults < MaxFaults /\ faults' = faults + 1 /\ UNCHANGED <<acked, reply, wait>>
            /\ UNCHANGED <<hout, at>>
  /\ UNCHANGED <<idle, fifo, ring, parser, executed>>

Firmware == uart_rx_pump \/ Poll \/ uart_putc
Next == HostSend \/ Tick \/ Arrive \/ LineFault \/ Firmware
Spec == Init /\ [][Next]_vars

\* The firmware runs until the session is over: it has a step wherever it is not
\* done, so this is its weak fairness.
FirmwareRuns == []<>(at = "done") \/ []<><<Firmware>>_vars

\* Besides, the transmitter runs, time passes, and the host tries again.
FairSpec == Spec /\ FirmwareRuns /\ WF_vars(Arrive) /\ WF_vars(Tick) /\ WF_vars(HostSend)

------------------------------------------------------------------------------
(* Types; the body never outgrows its array and the queues their memories  *)
(* (frame.c's body, uart.v's rx_fifo, uart_rx.c's ring).                   *)
TypeOK ==
  /\ acked \in 0..Len(Commands) /\ hout \in Seq(Byte) /\ reply \in Seq(Byte)
  /\ faults \in 0..MaxFaults /\ wait \in 0..RetryAfter /\ idle \in 0..(IDLE_STOP + 1)
  /\ fifo \in Seq(Byte) /\ Len(fifo) <= FifoDepth
  /\ ring \in Seq(Byte) /\ Len(ring) < RingSize
  /\ body \in Seq(Byte) /\ Len(body) < BODY_MAX
  /\ in_frame \in BOOLEAN /\ esc \in BOOLEAN /\ last \in Seq(Byte) /\ Len(last) <= 1
  /\ at \in {"pump", "poll", "nak", "answer", "done"} /\ out \in Seq(Byte)

\* The parser and the application keep the protocol's promise: the commands are
\* executed in order, each once, with the content that was sent, whatever the line
\* does and however often the host repeats itself (frame.c, frame_test.c).
Service == INSTANCE CommandChannel
ImplementsChannel == Service!Spec

\* Every command is executed and answered in the end: noise, an escape before a flag,
\* a truncated frame or a full FIFO never leave the parser deaf (frame.c), and a host
\* that never pauses for more than RetryAfter has had its answers before the session's
\* end, which bad frames and NAKs do not put off (frame_test.c:85-99).
CommandsComplete == <>(acked = Len(Commands))
=============================================================================
