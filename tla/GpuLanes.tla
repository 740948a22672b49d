------------------------------ MODULE GpuLanes ------------------------------
(***************************************************************************)
(* What one instruction of a warp does to data: the decoder (gpu_decode.v) *)
(* on the 16-bit word, the four lanes with their registers, ALU, address   *)
(* unit and scratchpad banks (exec_lane.v and what it instantiates), and   *)
(* the write-back of gpu_top.v.  When an instruction issues, and how a     *)
(* global access waits for the bus, is GpuTop's matter: here it takes one  *)
(* step.                                                                   *)
(*                                                                         *)
(* A vector is a function of the lane.  Storage is five banks of words:    *)
(* the scratchpad bank of each lane, and Main, the data memory.            *)
(***************************************************************************)
EXTENDS Units, Decoder, SequencesExt

Main  == 4
Banks == Lanes \cup {Main}

\* The n bits of a field as a signed number.
sign_extend(n, bits) == IF Slice(n, bits - 1, bits - 1) = 1 THEN n - 2^bits ELSE n

(***************************************************************************)
(* gpu_alu.v: one lane, the operations of the CPU's ALU and the low        *)
(* product, numbered; the others give zero.                                *)
(***************************************************************************)
lane_op(op, x, y) == IF op = "mul" THEN (x * y) % W ELSE alu(op, x, y)

LaneOps == <<"add", "sub", "and", "or", "xor", "slt", "sltu", "sll", "srl", "sra", "mul">>

gpu_alu(alu_op, a, b) ==
  [l \in Lanes |-> IF alu_op < Len(LaneOps) THEN lane_op(LaneOps[alu_op + 1], a[l], b[l]) ELSE 0]

(***************************************************************************)
(* gpu_decode.v.                                                           *)
(***************************************************************************)
gpu_decode(instr) ==
  LET opcode == Slice(instr, 15, 12)
      funct3 == Slice(instr, 2, 0)
      store  == Slice(instr, 0, 0) = 1
      load   == opcode \in {1, 7} /\ ~store
  IN  [alu_op |-> CASE opcode = 0 -> funct3
                    [] opcode = 4 -> 8 + funct3
                    [] opcode = 3 -> 10
                    [] OTHER      -> 0,
       rd_addr |-> Slice(instr, 11, 9), rs1_addr |-> Slice(instr, 8, 6),
       rs2_addr |-> Slice(instr, 5, 3), branch_target |-> Slice(instr, 7, 0),
       ldi_imm |-> sign_extend(Slice(instr, 8, 0), 9) % W,
       mem_read |-> opcode = 1 /\ load, mem_write |-> opcode = 1 /\ store,
       is_gld |-> opcode = 7 /\ load, is_gst |-> opcode = 7 /\ store,
       is_ldi |-> opcode = 5, is_halt |-> opcode = 15, is_branch |-> opcode = 2,
       reg_write |-> opcode \in {0, 3, 4, 5} \/ load]

(***************************************************************************)
(* gpu_regfile.v: r0 reads as zero, whatever was written to it.            *)
(***************************************************************************)
Broadcast(v)      == [l \in Lanes |-> v]
regfile(regs, rs) == IF rs = 0 THEN Broadcast(0) ELSE regs[rs]

(***************************************************************************)
(* gpu_lsu.v, gpu_scratchpad.v: a lane's bank at the low eight bits of its *)
(* own address; the data memory at the byte address of lane 0 from a base. *)
(***************************************************************************)
WordsOfBank          == 0..255
lane_addr(rs1, l)    == rs1[l] % 256
global_addr(d, rs1)  == ((d.mem_base + rs1[0]) % W) \div 4

(***************************************************************************)
(* One instruction of warp d, fetched at d.pc.  A BARRIER only moves the   *)
(* pc: what it waits for is the scheduler's.                               *)
(***************************************************************************)
WrittenBack(d, c, rs1, rs2) ==
  CASE c.is_gld   -> Broadcast(d.store[Main][global_addr(d, rs1)])
    [] c.mem_read -> [l \in Lanes |-> d.store[l][lane_addr(rs1, l)]]
    [] c.is_ldi   -> Broadcast(c.ldi_imm)
    [] OTHER      -> gpu_alu(c.alu_op, rs1, rs2)

Deposited(d, c, rs1, rs2) ==
  CASE c.is_gst    -> [d.store EXCEPT ![Main][global_addr(d, rs1)] = rs2[0]]
    [] c.mem_write -> [b \in Banks |-> IF b = Main THEN d.store[Main]
                                       ELSE [d.store[b] EXCEPT ![lane_addr(rs1, b)] = rs2[b]]]
    [] OTHER       -> d.store

execute(d) ==
  LET c   == gpu_decode(d.imem[d.pc \div 2])
      rs1 == regfile(d.regs, c.rs1_addr)
      rs2 == regfile(d.regs, c.rs2_addr)
  IN  [d EXCEPT !.regs   = IF c.reg_write /\ c.rd_addr # 0
                           THEN [@ EXCEPT ![c.rd_addr] = WrittenBack(d, c, rs1, rs2)] ELSE @,
                !.store  = Deposited(d, c, rs1, rs2),
                !.pc     = IF c.is_branch THEN c.branch_target ELSE @ + 2,
                !.halted = c.is_halt]

(***************************************************************************)
(* What the program on the CPU does before a launch: it stores words, and  *)
(* copies words, through the scratchpad window (gpu_write_word,            *)
(* gpu_read_word) or in the memory they share; pushes the kernel into the  *)
(* instruction memory over what is there; sets base and pc; and goes.  A   *)
(* cell is a bank and a word in it.                                        *)
(***************************************************************************)
Launch(put, move, kernel, at, base) ==
  [put |-> put, move |-> move, at |-> at, base |-> base,
   kernel |-> [i \in at..(at + Len(kernel) - 1) |-> kernel[i - at + 1]]]

Staged(store, put, move) ==
  [b \in Banks |-> [w \in WordsOfBank |->
     LET c == <<b, w>>
     IN  CASE c \in DOMAIN put  -> put[c]
           [] c \in DOMAIN move -> store[move[c][1]][move[c][2]]
           [] OTHER             -> store[b][w]]]

gpu_launch(d) ==
  LET l == Head(d.launches)
  IN  [d EXCEPT !.launches = Tail(@), !.store = Staged(@, l.put, l.move),
                !.imem = l.kernel @@ @, !.mem_base = l.base, !.pc = 2 * l.at, !.halted = FALSE]

\* Registers and memories have no reset: they hold whatever they hold.
PoweredUp(launches, residue) ==
  [launches |-> launches, imem |-> << >>, mem_base |-> 0, pc |-> 0, halted |-> TRUE,
   regs |-> [r \in 0..7 |-> Broadcast(residue)],
   store |-> [b \in Banks |-> [w \in WordsOfBank |-> residue]]]
=============================================================================
