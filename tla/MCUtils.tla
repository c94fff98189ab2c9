------------------------------ MODULE MCUtils ------------------------------
(***************************************************************************)
(* The pure code of utils against what each piece is meant to compute, on  *)
(* every text up to a length: the run writes texts, one item after the     *)
(* other, in the alphabet of each subject.                                 *)
(***************************************************************************)
EXTENDS Md5, Rsa, Naturals, Sequences, FiniteSets

Ini == INSTANCE Gini
E == INSTANCE Encode

CONSTANTS
  Primes,      \* the primes that generate_key may draw
  Bytes,       \* the bytes of a text that is hashed
  Digits,      \* the bytes of a block's length
  Characters,  \* the characters of a value in config.ini
  Longest,     \* bound: the longest text of each subject
  Lines        \* the lines that a configuration file may have

ASSUME ByteAssumption == Bytes \subseteq 0..255 /\ Digits \subseteq 0..255

\* generate_key takes what gmp draws for a prime, and does not ask mpz_invert whether e has
\* an inverse.
ASSUME PrimeAssumption ==
  /\ \A p \in Primes : p \in Nat /\ p > 1 /\ \A d \in 2..(p - 1) : p % d # 0
  /\ \A p, q \in Primes : p < q =>
       LET r == (p - 1) * (q - 1) IN \E d \in 1..r : (d * (PublicExponent % r)) % r = 1

VARIABLES subject, text

Alphabet == [
  bytes |-> Bytes,
  padding |-> {97},                         \* of a long one
  message |-> {0, 1, 128, 163},             \* of what is encrypted
  length |-> Digits,
  value |-> Characters,
  file |-> Lines]

Init == subject \in DOMAIN Alphabet /\ text = <<>>

Write == /\ Len(text) < Longest[subject]
         /\ \E item \in Alphabet[subject] : text' = Append(text, item)
         /\ UNCHANGED subject

Spec == Init /\ [][Write]_<<subject, text>>

-----------------------------------------------------------------------------
\* md5 calls unit_hash on whole blocks only: N+1 of them for a text that is padded to
\* N*512+448 bits (md5.cpp:187, 202), no more than the text, the byte 0x80 and the eight
\* bytes of its length need.
BlocksWhole ==
  subject \in {"padding", "bytes"} =>
    /\ \A i \in DOMAIN Blocks(text) : Len(Blocks(text)[i]) = 64
    /\ Len(Blocks(text)) = (Len(text) + 9 + 63) \div 64

\* What the hash is taken of: strtoui32 keeps a byte of the text unless a byte of 0x80 or
\* more follows it in its word.  The padding starts with such a byte, so what stands in
\* the last word of a text that does not fill it is not in the hash.
BytesKept ==
  subject \in {"padding", "bytes"} =>
    \A i \in 1..Len(text) :
      LET w == (i - 1) \div 4   \* the words of all blocks, counted from 0
          wiped == \E j \in (i + 1)..(4 * w + 4) : j = Len(text) + 1 \/ (j <= Len(text) /\ text[j] >= 128)
      IN  Words(Blocks(text)[(w \div 16) + 1])[(w % 16) + 1][((i - 1) % 4) + 1]
            = IF wiped THEN 255 ELSE text[i]

\* A message comes back from encrypt and decrypt, with the keys in either order, exactly
\* when its number is below n and its first byte is not zero; a signature is valid then.
KeyPairs == {generate_key(pq[1], pq[2]) : pq \in {x \in Primes \X Primes : x[1] < x[2]}}

SignatureReadsBack ==
  subject = "message" /\ text # <<>> =>
    \A key \in KeyPairs :
      LET fits == text[1] # 0 /\ serial_message(text) < key.pub[1]
      IN  /\ valid(sign(text, key.pri), text, key.pub) = fits
          /\ valid(sign(text, key.pub), text, key.pri) = fits

\* The length of a block is read back from its prefix; and what read_file_once leaves of
\* the prefix reaches to its first zero byte.
LengthReadsBack ==
  subject = "length" /\ Len(text) = 3 =>
    LET num == text[1] + 256 * text[2] + 256 * 256 * text[3]
        src == E!EncodeInt2CharArray(num)
    IN  /\ E!DecodeCharArray2Int(src) = num
        /\ src = text \o <<0>>
        /\ \A i \in 1..3 : i <= E!Readable(num) <=> \A j \in 1..i : text[j] # 0

\* A value is read as it is written between quotes, whatever it contains, and without the
\* spaces around it otherwise; unless the key is in quotes too, when the quotes at the ends
\* of the line are taken for a pair and the key keeps one.
PairReadsBack ==
  subject = "value" =>
    LET Read(line) == Ini!get_key_value(Ini!trim_space(line))
        key == <<"k">>
        quoted == <<"\"">> \o text \o <<"\"">>
        plain == Ini!CutEnds(text)
    IN  /\ Read(<<" ">> \o key \o <<" ", "=", " ">> \o quoted \o <<" ", "CR">>) = <<key, text>>
        /\ Read(<<"\"", "k", "\"", "=">> \o quoted)[1] = <<"k", "\"">>
        /\ "\"" \notin {text[i] : i \in DOMAIN text} =>
             Read(key \o <<"=">> \o text) = <<key, plain>>

\* The value of a key in a section is the one on the last line that sets it there: lines
\* before the first section belong to the section without a name.
LastValueStays ==
  subject = "file" =>
    LET Type(i) == Ini!judge_type(Ini!trim_space(text[i]))
        Pair(i) == Ini!get_key_value(Ini!trim_space(text[i]))
        Opened(i) == {h \in 1..(i - 1) : Type(h) = "section"}
        Section(i) == IF Opened(i) = {} THEN <<>>
                      ELSE Ini!get_section_name(Ini!trim_space(text[Ini!Greatest(Opened(i))]))
        Set == {i \in DOMAIN text : Type(i) = "pair"}
        Names(i) == <<Section(i), Pair(i)[1]>>
    IN  Ini!ParseIni(text) =
          {<<Section(i), Pair(i)[1], Pair(i)[2]>> :
             i \in {h \in Set : \A j \in Set : j > h => Names(j) # Names(h)}}

SmallPrimes == {11, 23, 199, 211}
SomeBytes == {97, 127, 128, 255}
SomeDigits == {0, 1, 127, 128, 255}
SomeCharacters == {"a", " ", "\"", "=", "#", "CR"}
Bounds == [bytes |-> 5, padding |-> 130, message |-> 2, length |-> 3, value |-> 4, file |-> 4]
FewLines == {<<"[", "s", "]">>, <<" ", "[", "t", "]", "CR">>, <<"k", "=", "1">>, <<" ", "k", " ", "=", "2", "CR">>,
             <<"#", "k", "=", "3">>, <<" ">>}
=============================================================================
