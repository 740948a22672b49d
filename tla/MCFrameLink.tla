----------------------------- MODULE MCFrameLink ----------------------------
(***************************************************************************)
(* Model checking FrameLink: an echo with a payload byte that has to be    *)
(* escaped, and a request for the statistics.                              *)
(***************************************************************************)
EXTENDS FrameLink

Session == << [seq |-> 1, cmd |-> 1, payload |-> <<FLAG>>],
              [seq |-> 2, cmd |-> 2, payload |-> <<>>] >>
Counters == { <<1, 0, 0, 0, 0>> }
=============================================================================
