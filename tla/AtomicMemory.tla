---------------------------- MODULE AtomicMemory ----------------------------
(***************************************************************************)
(* What "unified memory" promises its two masters, stated without any      *)
(* arbiter: a memory in which every access takes effect at one instant     *)
(* between the moment it is issued and the moment its issuer sees it       *)
(* complete, and at most one access takes effect per clock.                *)
(*                                                                         *)
(* This is the abstract specification of soc_top's data memory (the claim  *)
(* of soc_top.v:36-43 and of mem_arbiter.v:9-21).  UnifiedMemory           *)
(* implements it.                                                          *)
(***************************************************************************)
EXTENDS Integers

CONSTANTS Ports,  \* the masters
          Addr,   \* word addresses
          Data    \* word values

ReadReq  == [op : {"read"}, addr : Addr]
WriteReq == [op : {"write"}, addr : Addr, data : Data]
Request  == ReadReq \cup WriteReq

VARIABLES mem,    \* the one data memory
          port    \* what each master is doing

vars == <<mem, port>>

Idle          == [st |-> "idle"]
Pending(r)    == [st |-> "pending", req |-> r]
Done(v)       == [st |-> "done", val |-> v]
PortState     == {Idle} \cup {Pending(r) : r \in Request} \cup {Done(v) : v \in Data}

Init == /\ mem \in [Addr -> Data]
        /\ port = [p \in Ports |-> Idle]

\* A master without an access in progress may issue one, or stay silent.
Fresh == {Idle} \cup {Pending(r) : r \in Request}

\* What a port may become in a step in which its access does not take effect.
\* A load may be withdrawn (the processor flushes it); a store may not.
Quiet(p) ==
  {port[p]} \cup
  (IF port[p].st = "pending"
     THEN IF port[p].req.op = "read" THEN {Idle} ELSE {}
     ELSE Fresh)

\* The access of p takes effect.  A load obtains the word as it is now; a store
\* returns nothing that matters and is over with its effect, so its port may be
\* seen free or busy again at once.
Perform(p) ==
  LET r == port[p].req
  IN  /\ port[p].st = "pending"
      /\ IF r.op = "read"
           THEN /\ port'[p] = Done(mem[r.addr])
                /\ mem' = mem
           ELSE /\ port'[p] \in {Done(v) : v \in Data} \cup Fresh
                /\ mem' = [mem EXCEPT ![r.addr] = r.data]

Silent == /\ mem' = mem
          /\ port' \in [Ports -> PortState]
          /\ \A p \in Ports : port'[p] \in Quiet(p)

Effect == \E p \in Ports :
            /\ port' \in [Ports -> PortState]
            /\ Perform(p)
            /\ \A q \in Ports \ {p} : port'[q] \in Quiet(q)

Next == Silent \/ Effect

Spec == Init /\ [][Next]_vars
=============================================================================
