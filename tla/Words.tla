------------------------------- MODULE Words -------------------------------
(***************************************************************************)
(* The fixed-width arithmetic the emulator is written in: u8 and u16       *)
(* values, their wrapping operations, the casts between them and the few   *)
(* bitwise operations the instruction handlers use.                        *)
(***************************************************************************)
EXTENDS Integers

Byte == 0 .. 255
Word == 0 .. 65535

(* wrapping_add / wrapping_sub, and the casts "as u8" and "as u16" *)
Wrap8(n)  == n % 256
Wrap16(n) == n % 65536

(* (w >> 8) as u8, (w & 0xFF) as u8, and (hi as u16) << 8 | (lo as u16) *)
HighByte(w)  == w \div 256
LowByte(w)   == w % 256
Join(hi, lo) == 256 * hi + lo

(* (b as i8) < 0, and byte1 as i8 as u16 as the addend of a branch *)
SignBit(b)    == b >= 128
SignExtend(b) == IF SignBit(b) THEN b - 256 ELSE b

(* Bit w of b, w being the bit's weight *)
HasBit(b, w) == (b \div w) % 2 = 1
Weights      == {1, 2, 4, 8, 16, 32, 64, 128}

(* a & b, of which the code only asks whether it is zero *)
AndIsZero(a, b) == \A w \in Weights : ~ (HasBit(a, w) /\ HasBit(b, w))

(* a | b *)
OrBit(a, b, w) == IF HasBit(a, w) \/ HasBit(b, w) THEN w ELSE 0
BitOr(a, b) ==
  OrBit(a, b, 1) + OrBit(a, b, 2) + OrBit(a, b, 4) + OrBit(a, b, 8)
    + OrBit(a, b, 16) + OrBit(a, b, 32) + OrBit(a, b, 64) + OrBit(a, b, 128)

(* value << 1 on a u8 *)
ShiftLeft(b) == Wrap8(2 * b)
=============================================================================
