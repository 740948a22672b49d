---------------------------- MODULE CommandChannel --------------------------
(***************************************************************************)
(* What the framed protocol promises its two ends: the device executes the *)
(* host's commands in order, each once and as it was sent, and the host    *)
(* takes a command for done only after the device executed it.             *)
(***************************************************************************)
EXTENDS Naturals, Sequences

CONSTANT Commands   \* the sequence of commands the host wants executed

VARIABLES executed,  \* what the device has executed
          acked      \* how many commands the host knows to be done

Init == executed = <<>> /\ acked = 0

Execute ==
  /\ acked = Len(executed) /\ acked < Len(Commands)
  /\ executed' = Append(executed, Commands[acked + 1])
  /\ UNCHANGED acked

Acknowledge ==
  /\ acked < Len(executed)
  /\ acked' = acked + 1
  /\ UNCHANGED executed

Next == Execute \/ Acknowledge
Spec == Init /\ [][Next]_<<executed, acked>>
=============================================================================
