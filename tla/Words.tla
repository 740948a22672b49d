-------------------------------- MODULE Words -------------------------------
(***************************************************************************)
(* Machine words of Xlen bits, read as unsigned numbers, as signed ones    *)
(* and as four bytes.  The code has Xlen = 32; nothing below it depends on *)
(* the width but the masks of a shift amount, the lanes of a byte and the  *)
(* bit positions of a control register, which the models name.             *)
(***************************************************************************)
EXTENDS Integers

CONSTANT Xlen   \* bits of a register

\* Four bytes, shift amounts that are the low bits of a word, and control registers
\* whose bits a word holds.
ASSUME XlenAssumption == Xlen \in {8, 16, 32}

W    == 2^Xlen
Word == 0..(W - 1)
IMIN == W \div 2
IMAX == IMIN - 1

Signed(a) == IF a >= IMIN THEN a - W ELSE a
Flag(p)   == IF p THEN 1 ELSE 0

ByteW        == 2^(Xlen \div 4)
ByteOf(a, l) == (a \div ByteW^l) % ByteW
FromBytes(b) == b[0] + ByteW * (b[1] + ByteW * (b[2] + ByteW * b[3]))
=============================================================================
