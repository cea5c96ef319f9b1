------------------------------- MODULE Bytes -------------------------------
(***************************************************************************)
(* Bytes on a SpaceWire link: numbers 0..255.  Where the code shifts and   *)
(* masks, a byte is taken as the set of its bits that are one, so that XOR *)
(* is the symmetric difference of sets.                                    *)
(***************************************************************************)
EXTENDS Integers, Sequences, SequencesExt, FiniteSetsExt

Byte == 0 .. 255

(* Routers take off the bytes of a path address; a logical address, which  *)
(* is not below 32, ends it.                                               *)
PathAddress == Seq(0 .. 31)
LogicalAddress == 32 .. 255

BitWeight == <<1, 2, 4, 8, 16, 32, 64, 128>>
BitsOf(b) == {k \in 0 .. 7 : (b \div BitWeight[k + 1]) % 2 = 1}
ByteOf(S) ==
    LET bit(k) == IF k \in S THEN 1 ELSE 0
    IN bit(0) + 2 * bit(1) + 4 * bit(2) + 8 * bit(3)
       + 16 * bit(4) + 32 * bit(5) + 64 * bit(6) + 128 * bit(7)

(* Numbers of two, three and four bytes, the highest byte first.           *)
TwoBytes(n) == <<(n \div 256) % 256, n % 256>>
ThreeBytes(n) == <<(n \div 65536) % 256, (n \div 256) % 256, n % 256>>
FourBytes(n) ==
    <<(n \div 16777216) % 256, (n \div 65536) % 256, (n \div 256) % 256, n % 256>>
NumberOfTwo(b) == 256 * b[1] + b[2]
NumberOfThree(b) == 65536 * b[1] + 256 * b[2] + b[3]
NumberOfFour(b) == 16777216 * b[1] + 65536 * b[2] + 256 * b[3] + b[4]
=============================================================================
