-------------------------------- MODULE Units -------------------------------
(***************************************************************************)
(* The execution units of the core, as their modules compute: the ALU, the *)
(* branch unit, the multiplier, the bit-serial divider, and the lanes of   *)
(* the load/store unit with the extraction the write-back stage does.      *)
(***************************************************************************)
EXTENDS Words

(***************************************************************************)
(* alu.v and branch_unit.v.                                                *)
(***************************************************************************)

\* The bits of two words combined one by one, and the word they make.
bitwise(op(_, _), a, b) ==
  LET bit(v, n) == (v \div 2^n) % 2
      low[n \in 0..Xlen] == IF n = 0 THEN 0
                            ELSE low[n - 1] + 2^(n - 1) * op(bit(a, n - 1), bit(b, n - 1))
  IN  low[Xlen]

a & b  == bitwise(LAMBDA p, q : p * q, a, b)
a | b  == bitwise(LAMBDA p, q : p + q - p * q, a, b)
a ^^ b == bitwise(LAMBDA p, q : (p + q) % 2, a, b)

\* The amount of a shift is the low bits of its operand.
alu(op, a, b) ==
  CASE op = "add"  -> (a + b) % W
    [] op = "sub"  -> (a - b) % W
    [] op = "and"  -> a & b
    [] op = "or"   -> a | b
    [] op = "xor"  -> a ^^ b
    [] op = "slt"  -> Flag(Signed(a) < Signed(b))
    [] op = "sltu" -> Flag(a < b)
    [] op = "sll"  -> (a * 2^(b % Xlen)) % W
    [] op = "srl"  -> a \div 2^(b % Xlen)
    [] op = "sra"  -> (Signed(a) \div 2^(b % Xlen)) % W
    [] op = "lui_pass" -> b

condition(funct3, a, b) ==
  CASE funct3 = "beq"  -> a = b
    [] funct3 = "bne"  -> a # b
    [] funct3 = "blt"  -> Signed(a) < Signed(b)
    [] funct3 = "bge"  -> Signed(a) >= Signed(b)
    [] funct3 = "bltu" -> a < b
    [] funct3 = "bgeu" -> a >= b

take_branch(is_jump, is_branch, funct3, a, b) ==
  is_jump \/ (is_branch /\ condition(funct3, a, b))

(***************************************************************************)
(* multiplier.v: both operands extended to twice the width.                *)
(***************************************************************************)
Extended(signed, a) == IF signed THEN Signed(a) ELSE a

multiplier(funct3, a, b) ==
  LET product == (Extended(funct3 # "mulhu", a) * Extended(funct3 \in {"mul", "mulh"}, b)) % (W * W)
  IN  IF funct3 = "mul" THEN product % W ELSE product \div W

(***************************************************************************)
(* divider.v: one bit of the quotient per cycle, as many as the dividend   *)
(* has.  The operands are latched at the start, with their signs.          *)
(***************************************************************************)
Divider == [state : {"IDLE", "DIVIDE", "FINISH"}, done : BOOLEAN, result : Word,
            rem : Word, quo : Word, divd : Word, count : 0..Xlen, b_mag : Word,
            sign_quo : BOOLEAN, sign_rem : BOOLEAN, is_rem : BOOLEAN]

DividerReset == [state |-> "IDLE", done |-> FALSE, result |-> 0, rem |-> 0, quo |-> 0,
                 divd |-> 0, count |-> 0, b_mag |-> 0,
                 sign_quo |-> FALSE, sign_rem |-> FALSE, is_rem |-> FALSE]

Negated(a)   == (W - a) % W
Magnitude(signed, a) == IF signed /\ a >= IMIN THEN Negated(a) ELSE a

\* Bits in front of the first one.
clz(a) == CHOOSE n \in 0..Xlen : a < 2^(Xlen - n) /\ (n = Xlen \/ a >= 2^(Xlen - n - 1))

Answer(result) == [DividerReset EXCEPT !.done = TRUE, !.result = result]

div_begin(funct3, a, b) ==
  LET signed == funct3 \in {"div", "rem"}
      is_rem == funct3 \in {"rem", "remu"}
      a_mag  == Magnitude(signed, a)
      b_mag  == Magnitude(signed, b)
  IN  CASE b = 0 -> Answer(IF is_rem THEN a ELSE W - 1)
        [] signed /\ a = IMIN /\ b = W - 1 -> Answer(IF is_rem THEN 0 ELSE IMIN)
        [] b_mag > a_mag -> Answer(IF is_rem THEN a ELSE 0)
        [] OTHER -> [DividerReset EXCEPT
                       !.state = "DIVIDE", !.b_mag = b_mag, !.is_rem = is_rem,
                       !.divd = (a_mag * 2^clz(a_mag)) % W, !.count = Xlen - clz(a_mag),
                       !.sign_quo = signed /\ ((a >= IMIN) # (b >= IMIN)),
                       !.sign_rem = signed /\ a >= IMIN]

\* Mutant: a remainder equal to the divisor is not subtracted.
div_step_Strictly(d) ==
  LET part == 2 * d.rem + (d.divd \div IMIN)
      fits == part > d.b_mag
  IN  [d EXCEPT !.rem = IF fits THEN part - d.b_mag ELSE part,
                !.quo = (2 * @ + Flag(fits)) % W, !.divd = (2 * @) % W,
                !.count = @ - 1, !.state = IF d.count = 1 THEN "FINISH" ELSE @]

div_step(d) ==
  LET part == 2 * d.rem + (d.divd \div IMIN)
      fits == part >= d.b_mag
  IN  [d EXCEPT !.rem = IF fits THEN part - d.b_mag ELSE part,
                !.quo = (2 * @ + Flag(fits)) % W, !.divd = (2 * @) % W,
                !.count = @ - 1, !.state = IF d.count = 1 THEN "FINISH" ELSE @]

div_finish(d) ==
  Answer(IF d.is_rem THEN IF d.sign_rem THEN Negated(d.rem) ELSE d.rem
         ELSE IF d.sign_quo THEN Negated(d.quo) ELSE d.quo)

\* One clock edge; what an idle divider still holds is never read.
divider(d, start, funct3, a, b) ==
  CASE d.state = "DIVIDE" -> div_step(d)
    [] d.state = "FINISH" -> div_finish(d)
    [] d.state = "IDLE" /\ start -> div_begin(funct3, a, b)
    [] OTHER -> DividerReset

(***************************************************************************)
(* lsu.v, the byte writes of data_bram.v, and the load half of wb_stage.v. *)
(***************************************************************************)
Lanes == 0..3

\* A half word at the last byte of a word keeps the lane that exists.
dmem_wen(funct3, addr) ==
  CASE funct3 = "sb" -> {addr % 4}
    [] funct3 = "sh" -> {addr % 4, (addr % 4) + 1} \cap Lanes
    [] funct3 = "sw" -> Lanes

dmem_wdata(addr, v) == (v * ByteW^(addr % 4)) % W

\* The word after a store, for the lanes that are enabled.
Merged(word, wdata, wen) ==
  FromBytes([l \in Lanes |-> ByteOf(IF l \in wen THEN wdata ELSE word, l)])

load_data(funct3, rdata, lsb) ==
  LET shifted == rdata \div ByteW^lsb
      byte    == shifted % ByteW
      half    == shifted % ByteW^2
  IN  CASE funct3 = "lb"  -> byte + (IF byte >= ByteW \div 2 THEN W - ByteW ELSE 0)
        [] funct3 = "lh"  -> half + (IF half >= ByteW^2 \div 2 THEN W - ByteW^2 ELSE 0)
        [] funct3 = "lw"  -> shifted
        [] funct3 = "lbu" -> byte
        [] funct3 = "lhu" -> half
=============================================================================
