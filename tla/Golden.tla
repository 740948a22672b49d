-------------------------------- MODULE Golden ------------------------------
(***************************************************************************)
(* What an instruction computes, as the reference simulator (ref_sim.cpp)  *)
(* and the golden models of the unit benches say it: on numbers, sets of   *)
(* bits and bytes, sharing no formula with the execution units (Units).    *)
(* It says nothing of an access that is not aligned; the programs have     *)
(* none.                                                                   *)
(***************************************************************************)
EXTENDS Instructions, FiniteSetsExt

(***************************************************************************)
(* Arithmetic.                                                             *)
(***************************************************************************)

\* A word as the set of its bits, and back.
Bits(a)    == {i \in 0..(Xlen - 1) : Bit(a, i)}
Value(B)   == MapThenSumSet(LAMBDA i : 2^i, B)
Shift(a)   == a % Xlen

\* The bits an arithmetic shift by n brings in from the left.
SignFill(a, n) == IF Bit(a, Xlen - 1) THEN (Xlen - n)..(Xlen - 1) ELSE {}

golden_alu(op, a, b) ==
  CASE op = "add"  -> (a + b) % W
    [] op = "sub"  -> (a + W - b) % W
    [] op = "and"  -> Value(Bits(a) \cap Bits(b))
    [] op = "or"   -> Value(Bits(a) \cup Bits(b))
    [] op = "xor"  -> Value((Bits(a) \ Bits(b)) \cup (Bits(b) \ Bits(a)))
    [] op = "slt"  -> Flag((a >= IMIN /\ b < IMIN) \/ (((a >= IMIN) = (b >= IMIN)) /\ a < b))
    [] op = "sltu" -> Flag(a < b)
    [] op = "sll"  -> Value({i + Shift(b) : i \in {j \in Bits(a) : j + Shift(b) < Xlen}})
    [] op = "srl"  -> Value({i - Shift(b) : i \in {j \in Bits(a) : j >= Shift(b)}})
    [] op = "sra"  -> Value({i - Shift(b) : i \in {j \in Bits(a) : j >= Shift(b)}}
                              \cup SignFill(a, Shift(b)))

golden_mul(op, a, b) ==
  CASE op = "mul"    -> (Signed(a) * Signed(b)) % W
    [] op = "mulh"   -> ((Signed(a) * Signed(b)) \div W) % W
    [] op = "mulhsu" -> ((Signed(a) * b) \div W) % W
    [] op = "mulhu"  -> (a * b) \div W

\* C's division: towards zero, and the remainder has the dividend's sign.
Abs(a)          == IF a < 0 THEN -a ELSE a
Quotient(a, b)  == IF (a < 0) = (b < 0) THEN Abs(a) \div Abs(b) ELSE -(Abs(a) \div Abs(b))
Remainder(a, b) == a - b * Quotient(a, b)

golden_div(op, a, b) ==
  IF b = 0 THEN IF op \in {"rem", "remu"} THEN a ELSE W - 1
  ELSE CASE op = "div"  -> Quotient(Signed(a), Signed(b)) % W
         [] op = "rem"  -> Remainder(Signed(a), Signed(b)) % W
         [] op = "divu" -> a \div b
         [] op = "remu" -> a % b

golden_taken(op, a, b) ==
  CASE op = "beq"  -> a = b
    [] op = "bne"  -> a # b
    [] op = "blt"  -> golden_alu("slt", a, b) = 1
    [] op = "bge"  -> golden_alu("slt", a, b) = 0
    [] op = "bltu" -> a < b
    [] op = "bgeu" -> ~(a < b)

(***************************************************************************)
(* Memory, byte by byte.                                                   *)
(***************************************************************************)
MemByte(m, a) == IF IsData(a) THEN ByteOf(m[a \div 4], a % 4) ELSE ByteOf(DeviceWord, a % 4)

BytesOf(op) == CASE op \in {"lb", "lbu", "sb"} -> 1 [] op \in {"lh", "lhu", "sh"} -> 2 [] OTHER -> 4

Unsigned(m, a, n) == MapThenSumSet(LAMBDA k : MemByte(m, a + k) * ByteW^k, 0..(n - 1))

golden_load(op, m, a) ==
  LET n == BytesOf(op)
      v == Unsigned(m, a, n)
  IN  IF op \in {"lb", "lh"} /\ v >= ByteW^n \div 2 THEN v + W - ByteW^n ELSE v

golden_store(op, m, a, v) ==
  IF ~IsData(a) THEN m
  ELSE [m EXCEPT ![a \div 4] =
          FromBytes([l \in 0..3 |-> LET k == l - (a % 4)
                                    IN  IF k \in 0..(BytesOf(op) - 1) THEN ByteOf(v, k) ELSE ByteOf(@, l)])]
=============================================================================
