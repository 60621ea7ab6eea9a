------------------------------ MODULE NetFrame ------------------------------
(***************************************************************************)
(* The eight bytes in front of every message of CNetwork: its size and its *)
(* id, each an unsigned 32-bit number in network order.                    *)
(*                                                                         *)
(* A 32-bit number is the tuple of its four bytes, the high one first, so  *)
(* htonl and memcpy are the identity on it.  The receiver puts the bytes   *)
(* together with  n = ( n << 8 ) | c  on a signed char c: a byte from      *)
(* SignBit on is negative, and widening it fills the three bytes above     *)
(* with ByteMax.  In the code ByteMax is 255 and SignBit is 128.           *)
(***************************************************************************)
EXTENDS Integers

CONSTANTS ByteMax,  \* the largest byte
          SignBit   \* the first byte that is negative as a signed char

ASSUME ByteAssumption == /\ ByteMax \in Nat
                         /\ SignBit \in 1 .. ByteMax

Byte == 0 .. ByteMax
Word == Byte \X Byte \X Byte \X Byte

\* The word of a number that fits in its low byte.
Low(b) == <<0, 0, 0, b>>

\* convertSendMsg: the size, or the id, as the bytes on the wire.
ToWire(w) == w

\* A signed char widened to 32 bits.
Widen(c) == IF c < SignBit THEN <<0, 0, 0, c>>
                           ELSE <<ByteMax, ByteMax, ByteMax, c>>

\* ( w << 8 ) | c
ShiftOr(w, c) == IF c < SignBit
                 THEN <<w[2], w[3], w[4], c>>
                 ELSE <<ByteMax, ByteMax, ByteMax, c>>

\* convertReceiveMsg, and Receive of both socket classes: four chars to a word.
FromWire(s) == ShiftOr(ShiftOr(ShiftOr(Widen(s[1]), s[2]), s[3]), s[4])

\* The words that arrive as they were sent: a byte from SignBit on may stand
\* only below bytes that its widening does not change.
Faithful(w) ==
    /\ w[2] >= SignBit => w[1] = ByteMax
    /\ w[3] >= SignBit => w[1] = ByteMax /\ w[2] = ByteMax
    /\ w[4] >= SignBit => w[1] = ByteMax /\ w[2] = ByteMax /\ w[3] = ByteMax
=============================================================================
