------------------------------- MODULE Encode -------------------------------
(***************************************************************************)
(* utils/encode: the length that precedes each block of a block file, as   *)
(* four bytes, the lowest first; and what read_file_once leaves of such a  *)
(* prefix, since it makes its string from a char pointer and so stops at   *)
(* the first byte that is zero.                                            *)
(***************************************************************************)
EXTENDS Naturals

\* mutant: the highest byte first.
EncodeBigEndian(num) == [i \in 1..4 |-> (num \div 256^(4 - i)) % 256]

EncodeInt2CharArray(num) == [i \in 1..4 |-> (num \div 256^(i - 1)) % 256]

\* DecodeCharArray2Int
DecodeCharArray2Int(src) == src[1] + 256 * src[2] + 256^2 * src[3] + 256^3 * src[4]

\* How many bytes are left of a file that begins with a block of this length: blocks are
\* shorter than 2^24 bytes, so one of the four bytes is zero.
MaxLength == 256^3 - 1
Readable(length) ==
  LET bytes == EncodeInt2CharArray(length)
  IN  CHOOSE n \in 0..3 : bytes[n + 1] = 0 /\ \A i \in 1..n : bytes[i] # 0
=============================================================================
