------------------------------ MODULE FrameCodec ----------------------------
(***************************************************************************)
(* The wire format of firmware/net/frame.c: CRC-16/CCITT-FALSE over the    *)
(* body, byte stuffing, flags around it.  A frame is [seq, cmd, payload].  *)
(***************************************************************************)
EXTENDS Naturals, Sequences, SequencesExt

Byte == 0..255
FLAG == 126
ESC  == 125

\* v XOR m, for a power of two m.
Flip(v, m) == IF (v \div m) % 2 = 1 THEN v - m ELSE v + m
Xor20(b)   == Flip(b, 32)

\* crc ^= b << 8, bit by bit
Crc16    == 0..(65536 - 1)
BitMasks == <<1, 2, 4, 8, 16, 32, 64, 128>>
MixHigh(crc, b) ==
  LET mix[k \in 0..8] ==
        IF k = 0 THEN crc
        ELSE IF (b \div BitMasks[k]) % 2 = 1 THEN Flip(mix[k - 1], 256 * BitMasks[k])
        ELSE mix[k - 1]
  IN  mix[8]

\* One of the eight shifts: the polynomial 0x1021 has bits 12, 5 and 0.
Shift(crc) ==
  LET up == (2 * crc) % 65536
  IN  IF crc >= 32768 THEN Flip(Flip(Flip(up, 4096), 32), 1) ELSE up

CrcByte(b) ==
  [crc \in Crc16 |->
     LET shift[k \in 0..8] == IF k = 0 THEN MixHigh(crc, b) ELSE Shift(shift[k - 1])
     IN  shift[8]]

frame_crc16(bytes) ==
  LET crc[i \in 0..Len(bytes)] == IF i = 0 THEN 65535 ELSE CrcByte(bytes[i])[crc[i - 1]]
  IN  crc[Len(bytes)]

tx_byte(b) == IF b \in {FLAG, ESC} THEN <<ESC, Xor20(b)>> ELSE <<b>>

Frame == [seq : Byte, cmd : Byte, payload : Seq(Byte)]

Header(f)  == <<Len(f.payload), f.seq, f.cmd>>
Body(f)    == LET content == Header(f) \o f.payload
                  crc     == frame_crc16(content)
              IN  content \o <<crc \div 256, crc % 256>>

\* frame_send: everything it writes to the UART, in order.
frame_send(f) == <<FLAG>> \o FlattenSeq([i \in DOMAIN Body(f) |-> tx_byte(Body(f)[i])]) \o <<FLAG>>

Nak(seq) == [seq |-> seq, cmd |-> 0, payload |-> <<255>>]
frame_send_nak(seq) == frame_send(Nak(seq))

\* The check value the specification in frame.h gives.
ASSUME CheckValue == frame_crc16(<<49, 50, 51, 52, 53, 54, 55, 56, 57>>) = 10673
=============================================================================
