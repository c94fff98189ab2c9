-------------------------------- MODULE Md5 --------------------------------
(***************************************************************************)
(* utils/secure/md5.cpp, up to the hash of a block: how a text is padded   *)
(* and cut into blocks, and what unit_hash reads of a block.  A text is a  *)
(* sequence of bytes; a word is its four bytes, the highest first.         *)
(***************************************************************************)
EXTENDS Naturals, Sequences

Zeros(n) == [i \in 1..n |-> 0]

\* ui64tostr, for texts of less than 2^32 bytes.
ui64tostr(num) == [i \in 1..8 |-> IF i <= 4 THEN 0 ELSE (num \div 256^(8 - i)) % 256]

\* How many zeros follow the byte 0x80 of a text of n bytes.  md5() counts the bits in an
\* int, so what is said here holds of texts of less than 2^28 bytes.
\* mutant: of a text that fills its block to the length's place, a whole block.
DifTooMuch(n) == LET left == (8 * (n + 1)) % 512
                 IN  IF left < 448 THEN (448 - left) \div 8 ELSE (960 - left) \div 8

Dif(n) == LET left == (8 * (n + 1)) % 512
          IN  IF left < 448 THEN (448 - left) \div 8
              ELSE IF left > 448 THEN (960 - left) \div 8 ELSE 0

\* The text that the loop of md5() cuts into pieces of 64 bytes: the length counts bytes.
Padded(text) == text \o <<128>> \o Zeros(Dif(Len(text))) \o ui64tostr(Len(text))

Blocks(text) == LET str == Padded(text)
                IN  [i \in 1..((Len(str) + 63) \div 64) |->
                       SubSeq(str, 64 * (i - 1) + 1, IF 64 * i < Len(str) THEN 64 * i ELSE Len(str))]

\* One turn of strtoui32's loop: the word is shifted by a byte, and char is signed, so a
\* byte of 0x80 or more sets every bit above it.  mutant: it only clears them.
ShiftInClearing(num, c) == IF c < 128 THEN <<num[2], num[3], num[4], c>> ELSE <<0, 0, 0, c>>

ShiftIn(num, c) == IF c < 128 THEN <<num[2], num[3], num[4], c>> ELSE <<255, 255, 255, c>>

strtoui32(s) == ShiftIn(ShiftIn(ShiftIn(ShiftIn(Zeros(4), s[1]), s[2]), s[3]), s[4])

\* The words M of a block.
Words(b) == [i \in 1..16 |-> strtoui32(SubSeq(b, 4 * (i - 1) + 1, 4 * i))]

=============================================================================
