----------------------------- MODULE UtilProofs -----------------------------
(***************************************************************************)
(* Theorems about the pure code of utils, for texts of any length: what    *)
(* md5 pads, reads and forgets, how the prefix of a block is read back,    *)
(* what a line and a file of settings mean.                                *)
(***************************************************************************)
EXTENDS MCUtils, Numbers, SequenceTheorems

Byte == 0 .. 255

\* Two sequences put together, and a piece of one.
JoinIs(S, s, t) ==
  /\ s \o t \in Seq(S) /\ Len(s \o t) = Len(s) + Len(t)
  /\ \A i \in 1 .. Len(s) : (s \o t)[i] = s[i]
  /\ \A i \in 1 .. Len(t) : (s \o t)[Len(s) + i] = t[i]

CutIs(S, s, a, b) ==
  /\ SubSeq(s, a, b) \in Seq(S) /\ Len(SubSeq(s, a, b)) = b - a + 1
  /\ \A i \in 1 .. (b - a + 1) : SubSeq(s, a, b)[i] = s[a + i - 1]

LEMMA Joined == ASSUME NEW S, NEW s \in Seq(S), NEW t \in Seq(S) PROVE JoinIs(S, s, t)
<1> DEFINE c == s \o t
           m == Len(s)
           n == Len(t)
<1>1. c \in Seq(S) /\ Len(c) = m + n /\ m \in Nat /\ n \in Nat
      /\ \A i \in 1 .. (m + n) : c[i] = IF i <= m THEN s[i] ELSE t[i - m]
  BY ConcatProperties, LenProperties, Zenon
<1> HIDE DEF c, m, n
<1>2. ASSUME NEW i \in 1 .. m PROVE c[i] = s[i]
  BY <1>1
<1>3. ASSUME NEW i \in 1 .. n PROVE c[m + i] = t[i]
  <2>1. m + i \in 1 .. (m + n) /\ ~(m + i <= m) /\ (m + i) - m = i
    BY <1>1
  <2> QED
    BY <1>1, <2>1, Zenon
<1> QED
  BY <1>1, <1>2, <1>3, Zenon DEF c, m, n, JoinIs

LEMMA Cut ==
  ASSUME NEW S, NEW s \in Seq(S), NEW a \in 1 .. Len(s), NEW b \in Nat, b <= Len(s), a <= b + 1
  PROVE  CutIs(S, s, a, b)
<1>1. \A i \in a .. b : s[i] \in S
  OBVIOUS
<1>2. a \in Int /\ b \in Int
  OBVIOUS
<1>3. SubSeq(s,a,b) \in Seq(S) /\ Len(SubSeq(s,a,b)) = (IF a<=b THEN b-a+1 ELSE 0)
         /\ \A i \in 1 .. b-a+1 : SubSeq(s,a,b)[i] = s[a+i-1]
  BY <1>1, <1>2, SubSeqProperties
<1>4. (IF a<=b THEN b-a+1 ELSE 0) = b - a + 1
  OBVIOUS
<1> QED
  BY <1>3, <1>4, Zenon DEF CutIs

JoinAt(S, s, t, m, n) ==
  /\ s \o t \in Seq(S) /\ Len(s \o t) = m + n
  /\ \A i \in 1 .. m : (s \o t)[i] = s[i]
  /\ \A i \in 1 .. n : (s \o t)[m + i] = t[i]

LEMMA JoinedAt ==
  ASSUME NEW S, NEW s \in Seq(S), NEW t \in Seq(S), NEW m, NEW n, m = Len(s), n = Len(t)
  PROVE  JoinAt(S, s, t, m, n)
<1>1. JoinIs(S, s, t)
  BY Joined, Zenon
<1> QED
  BY <1>1, Zenon DEF JoinIs, JoinAt

\* A piece of a piece: from c to d of what stands from a to b is what stands from x to y.
Nested(n, a, b, c, d, x, y) ==
  /\ a \in 1 .. n /\ b \in a .. n /\ c \in Nat \ {0} /\ d \in Nat /\ c <= d + 1
  /\ d <= b - a + 1 /\ c <= b - a + 1 /\ x = a + c - 1 /\ y = a + d - 1

Same(s, a, b, c, d, x, y) == SubSeq(SubSeq(s, a, b), c, d) = SubSeq(s, x, y)

LEMMA CutTwice ==
  ASSUME NEW S, NEW s \in Seq(S), NEW a, NEW b, NEW c, NEW d, NEW x, NEW y,
         Nested(Len(s), a, b, c, d, x, y)
  PROVE  Same(s, a, b, c, d, x, y)
<1> DEFINE u == SubSeq(s, a, b)
           n == Len(s)
           v == SubSeq(u, c, d)
           w == SubSeq(s, x, y)
<1>1. /\ n \in Nat /\ a \in 1 .. n /\ b \in a .. n /\ c \in Nat \ {0} /\ d \in Nat
      /\ c <= d + 1 /\ d <= b - a + 1 /\ c <= b - a + 1 /\ x = a + c - 1 /\ y = a + d - 1
  BY LenProperties, Zenon DEF Nested
<1> HIDE DEF n
<1>2. b \in Nat /\ b <= n /\ a <= b + 1
  BY <1>1
<1>3. CutIs(S, s, a, b)
  BY <1>1, <1>2, Cut, Zenon DEF n
<1>4. u \in Seq(S) /\ Len(u) = b - a + 1 /\ \A i \in 1 .. (b - a + 1) : u[i] = s[a + i - 1]
  BY <1>3, Zenon DEF CutIs
<1> HIDE DEF u
<1>5. c \in 1 .. (b - a + 1) /\ d \in Nat /\ d <= b - a + 1 /\ c <= d + 1
  BY <1>1, <1>2
<1>6. CutIs(S, u, c, d)
  BY <1>1, <1>4, <1>5, Cut, Zenon
<1>7. v \in Seq(S) /\ Len(v) = d - c + 1 /\ \A i \in 1 .. (d - c + 1) : v[i] = u[c + i - 1]
  BY <1>6, Zenon DEF CutIs
<1>8. x \in 1 .. n /\ y \in Nat /\ y <= n /\ x <= y + 1 /\ y - x + 1 = d - c + 1
  BY <1>1, <1>2
<1> HIDE DEF v
<1>9. CutIs(S, s, x, y)
  BY <1>8, Cut, Zenon DEF n
<1>10. w \in Seq(S) /\ Len(w) = y - x + 1 /\ \A i \in 1 .. (y - x + 1) : w[i] = s[x + i - 1]
  BY <1>9, Zenon DEF CutIs
<1> HIDE DEF w
<1>11. ASSUME NEW i \in 1 .. (d - c + 1) PROVE v[i] = w[i]
  <2>1. c + i - 1 \in 1 .. (b - a + 1) /\ a + (c + i - 1) - 1 = x + i - 1
    BY <1>1, <1>2
  <2>2. v[i] = u[c + i - 1]
    BY <1>7
  <2>3. u[c + i - 1] = s[a + (c + i - 1) - 1]
    BY <1>4, <2>1, Zenon
  <2>4. w[i] = s[x + i - 1]
    BY <1>8, <1>10, Zenon
  <2> QED
    BY <2>1, <2>2, <2>3, <2>4, Zenon
<1>12. Len(v) = Len(w)
  BY <1>7, <1>8, <1>10, Zenon
<1>13. v = w
  BY <1>7, <1>10, <1>11, <1>12, SeqEqual, Zenon
<1> QED
  BY <1>13 DEF v, w, u, Same

-----------------------------------------------------------------------------
(***************************************************************************)
(* The texts that the run writes.                                          *)
(***************************************************************************)
TextInv == subject \in DOMAIN Alphabet /\ text \in Seq(Alphabet[subject])

LEMMA Texts == Spec => []TextInv
<1>1. Init => TextInv
  BY DEF Init, TextInv
<1>2. TextInv /\ [Write]_<<subject, text>> => TextInv'
  <2> SUFFICES ASSUME TextInv, [Write]_<<subject, text>> PROVE TextInv'
    OBVIOUS
  <2>1. CASE Write
    <3>1. PICK item \in Alphabet[subject] : text' = Append(text, item)
      BY <2>1 DEF Write
    <3>2. subject' = subject /\ text' \in Seq(Alphabet[subject])
      BY <2>1, <3>1 DEF Write, TextInv
    <3>3. Alphabet' = Alphabet
      BY Zenon DEF Alphabet
    <3> QED
      BY <3>2, <3>3 DEF TextInv
  <2>2. CASE UNCHANGED <<subject, text>>
    BY <2>2 DEF TextInv
  <2> QED
    BY <2>1, <2>2
<1> QED
  BY <1>1, <1>2, PTL DEF Spec

-----------------------------------------------------------------------------
(***************************************************************************)
(* The length of a block.                                                  *)
(***************************************************************************)
LEMMA Powers == 256^0 = 1 /\ 256^1 = 256 /\ 256^2 = 256 * 256 /\ 256^3 = 256 * 256 * 256
BY SMT

LEMMA BytesAre ==
  ASSUME NEW b1 \in Byte, NEW b2 \in Byte, NEW b3 \in Byte
  PROVE  LET num == b1 + 256 * b2 + 256 * 256 * b3
             src == E!EncodeInt2CharArray(num)
         IN  src = <<b1, b2, b3, 0>> /\ E!DecodeCharArray2Int(src) = num
<1> DEFINE num == b1 + 256 * b2 + 256 * 256 * b3
           src == E!EncodeInt2CharArray(num)
           Digit(i) == (num \div 256^(i - 1)) % 256
<1>1. num \in Nat
  BY DEF Byte
<1>2. src = [i \in 1 .. 4 |-> Digit(i)]
  BY Zenon DEF E!EncodeInt2CharArray
<1>3. Digit(1) = b1 /\ Digit(2) = b2 /\ Digit(3) = b3 /\ Digit(4) = 0
  <2>1. 1 - 1 = 0 /\ 2 - 1 = 1 /\ 3 - 1 = 2 /\ 4 - 1 = 3
    BY SMT
  <2>2. /\ Digit(1) = (num \div 1) % 256 /\ Digit(2) = (num \div 256) % 256
        /\ Digit(3) = (num \div (256 * 256)) % 256 /\ Digit(4) = (num \div (256 * 256 * 256)) % 256
    <3> DEFINE P(i) == 256^i
    <3>1. P(0) = 1 /\ P(1) = 256 /\ P(2) = 256 * 256 /\ P(3) = 256 * 256 * 256
      BY Powers
    <3>2. \A i \in 1 .. 4 : Digit(i) = (num \div P(i - 1)) % 256
      OBVIOUS
    <3> HIDE DEF P, Digit, num
    <3> QED
      BY <2>1, <3>1, <3>2
  <2> DEFINE rest == b2 + 256 * b3
  <2>3. num = b1 + 256 * rest /\ rest \in Nat
    BY DEF Byte
  <2>4. num % 256 = b1 /\ num \div 256 = rest
    <3> HIDE DEF num, rest
    <3> QED
      BY <2>3 DEF Byte
  <2>5. rest % 256 = b2
    BY DEF Byte
  <2>6. num \div (256 * 256) = b3
    BY DEF Byte
  <2>7. num \div (256 * 256 * 256) = 0
    BY DEF Byte
  <2> HIDE DEF Digit, num, rest
  <2>8. num \div 1 = num
    BY <1>1
  <2> QED
    BY <2>2, <2>4, <2>5, <2>6, <2>7, <2>8 DEF Byte
<1> HIDE DEF Digit, num
<1>4. src = <<b1, b2, b3, 0>>
  BY <1>2, <1>3
<1>5. E!DecodeCharArray2Int(src) = num
  <2>1. E!DecodeCharArray2Int(src) = b1 + 256 * b2 + 256 * 256 * b3 + 256 * 256 * 256 * 0
    BY <1>4, Powers DEF E!DecodeCharArray2Int
  <2> QED
    BY <2>1 DEF num, Byte
<1> QED
  BY <1>4, <1>5 DEF num

\* What is left of a prefix ends before its first zero byte.
LEMMA ReadableIs ==
  ASSUME NEW b1 \in Byte, NEW b2 \in Byte, NEW b3 \in Byte, NEW num,
         E!EncodeInt2CharArray(num) = <<b1, b2, b3, 0>>
  PROVE  E!Readable(num) = IF b1 = 0 THEN 0 ELSE IF b2 = 0 THEN 1 ELSE IF b3 = 0 THEN 2 ELSE 3
<1> DEFINE bytes == <<b1, b2, b3, 0>>
           Ends(n) == bytes[n + 1] = 0 /\ \A i \in 1 .. n : bytes[i] # 0
           r == IF b1 = 0 THEN 0 ELSE IF b2 = 0 THEN 1 ELSE IF b3 = 0 THEN 2 ELSE 3
<1>1. E!Readable(num) = CHOOSE n \in 0 .. 3 : Ends(n)
  BY Zenon DEF E!Readable
<1>2. r \in 0 .. 3 /\ Ends(r)
  BY DEF Byte
<1>3. \A n \in 0 .. 3 : Ends(n) => n = r
  BY DEF Byte
<1> HIDE DEF Ends, r
<1> QED
  BY <1>1, <1>2, <1>3 DEF r

LEMMA ZeroAdded ==
  ASSUME NEW t \in Seq(Byte) PROVE Len(t) = 3 => t \o <<0>> = <<t[1], t[2], t[3], 0>>
<1> DEFINE zero == <<0>>
           both == t \o zero
           all == <<t[1], t[2], t[3], 0>>
<1>0. zero \in Seq(Byte)
  BY DEF Byte
<1>1. Len(zero) = 1 /\ zero[1] = 0
  OBVIOUS
<1> HIDE DEF zero
<1>2. /\ both \in Seq(Byte) /\ Len(both) = Len(t) + Len(zero)
      /\ \A i \in 1 .. Len(t) : both[i] = t[i]
      /\ \A i \in 1 .. Len(zero) : both[Len(t) + i] = zero[i]
  <2>1. JoinIs(Byte, t, zero)
    BY <1>0, Joined, Zenon
  <2> QED
    BY <2>1, Zenon DEF JoinIs
<1> HIDE DEF both
<1>3. ASSUME Len(t) = 3 PROVE both = all
  <2>1. /\ Len(both) = 3 + 1 /\ \A i \in 1 .. 3 : both[i] = t[i]
        /\ \A i \in 1 .. 1 : both[3 + i] = zero[i]
    BY <1>1, <1>2, <1>3, Zenon
  <2>2. all \in Seq(Byte) /\ Len(all) = 4
    <3>1. t[1] \in Byte /\ t[2] \in Byte /\ t[3] \in Byte /\ 0 \in Byte
      <4>1. 0 \in Byte /\ \A i \in 1 .. Len(t) : t[i] \in Byte
        BY ElementOfSeq DEF Byte
      <4>2. 1 \in 1 .. 3 /\ 2 \in 1 .. 3 /\ 3 \in 1 .. 3
        OBVIOUS
      <4> QED
        BY <1>3, <4>1, <4>2, Zenon
    <3> QED
      BY <3>1
  <2>3. Len(both) = 4 /\ \A i \in 1 .. 4 : both[i] = all[i]
    BY <1>1, <2>1
  <2> HIDE DEF all
  <2> QED
    BY <1>2, <2>2, <2>3, SeqEqual, Zenon
<1> QED
  BY <1>3 DEF both, zero

\* LengthReadsBack: the length of a block comes back from its prefix, and read_file_once
\* leaves of the prefix what is before its first zero byte.
THEOREM LengthsReadBack == Spec => []LengthReadsBack
<1>1. TextInv => LengthReadsBack
  <2> SUFFICES ASSUME TextInv, subject = "length", Len(text) = 3
               PROVE  LET num == text[1] + 256 * text[2] + 256 * 256 * text[3]
                          src == E!EncodeInt2CharArray(num)
                      IN  /\ E!DecodeCharArray2Int(src) = num
                          /\ src = text \o <<0>>
                          /\ \A i \in 1..3 : i <= E!Readable(num) <=> \A j \in 1..i : text[j] # 0
    BY DEF LengthReadsBack
  <2>1. text \in Seq(Byte)
    <3>1. Alphabet["length"] \subseteq Byte
      BY ByteAssumption DEF Alphabet, Byte
    <3> QED
      BY <3>1, SeqMonotonic DEF TextInv
  <2>2. text[1] \in Byte /\ text[2] \in Byte /\ text[3] \in Byte
    BY <2>1
  <2> DEFINE num == text[1] + 256 * text[2] + 256 * 256 * text[3]
             src == E!EncodeInt2CharArray(num)
  <2>3. src = <<text[1], text[2], text[3], 0>> /\ E!DecodeCharArray2Int(src) = num
    BY <2>2, BytesAre
  <2> HIDE DEF num
  <2>4. text \o <<0>> = <<text[1], text[2], text[3], 0>>
    BY <2>1, ZeroAdded
  <2>5. E!Readable(num) = IF text[1] = 0 THEN 0 ELSE IF text[2] = 0 THEN 1 ELSE IF text[3] = 0 THEN 2 ELSE 3
    BY <2>2, <2>3, ReadableIs
  <2>6. \A i \in 1..3 : i <= E!Readable(num) <=> \A j \in 1..i : text[j] # 0
    BY <2>5
  <2> QED
    BY <2>3, <2>4, <2>6 DEF num
<1> QED
  BY <1>1, Texts, PTL

-----------------------------------------------------------------------------
(***************************************************************************)
(* The padding of a text and its blocks.                                   *)
(***************************************************************************)
BlocksOf(n) == (n + 72) \div 64

\* The eight bytes of the length end a block.
LEMMA DifIs ==
  ASSUME NEW n \in Nat
  PROVE  Dif(n) \in Nat /\ BlocksOf(n) \in Nat /\ n + 1 + Dif(n) + 8 = 64 * BlocksOf(n)
<1> DEFINE a == (n + 1) \div 64
           b == (n + 1) % 64
           left == (8 * (n + 1)) % 512
<1>1. a \in Nat /\ b \in 0 .. 63 /\ n + 1 = 64 * a + b
  OBVIOUS
<1>2. left = 8 * b
  OBVIOUS
<1>3. Dif(n) = IF left < 448 THEN (448 - left) \div 8
               ELSE IF left > 448 THEN (960 - left) \div 8 ELSE 0
  BY Zenon DEF Dif
<1>4. BlocksOf(n) = IF b <= 56 THEN a + 1 ELSE a + 2
  BY DEF BlocksOf
<1> HIDE DEF a, b, left
<1>5. Dif(n) = IF b < 56 THEN 56 - b ELSE IF b > 56 THEN 120 - b ELSE 0
  BY <1>1, <1>2, <1>3
<1> QED
  BY <1>1, <1>4, <1>5

\* What may stand in a padded text.
Items(t) == Byte \cup {ui64tostr(Len(t))[i] : i \in 1 .. 8}

PaddedShape(t, n) ==
  /\ Padded(t) \in Seq(Items(t)) /\ Len(Padded(t)) = 64 * BlocksOf(n)
  /\ \A i \in 1 .. n : Padded(t)[i] = t[i]
  /\ Padded(t)[n + 1] = 128
  /\ \A i \in (n + 2) .. (64 * BlocksOf(n) - 8) : Padded(t)[i] = 0

LEMMA PaddedIs == ASSUME NEW t \in Seq(Byte), NEW n \in Nat, n = Len(t) PROVE PaddedShape(t, n)
<1> DEFINE S == Items(t)
           one == <<128>>
           zeros == Zeros(Dif(n))
           last == ui64tostr(n)
           x == t \o one
           y == x \o zeros
           z == y \o last
<1>1. t \in Seq(S)
  BY SeqMonotonic DEF Items
<1>2. one \in Seq(S) /\ Len(one) = 1 /\ one[1] = 128
  BY DEF Items, Byte
<1>3. zeros \in Seq(S) /\ Len(zeros) = Dif(n) /\ \A i \in 1 .. Dif(n) : zeros[i] = 0
  <2>1. 0 \in S /\ Dif(n) \in Nat
    BY DifIs DEF Items, Byte
  <2> HIDE DEF S
  <2> QED
    BY <2>1 DEF Zeros
<1>4. last \in Seq(S) /\ Len(last) = 8
  <2> DEFINE Digit(i) == IF i <= 4 THEN 0 ELSE (n \div 256^(8 - i)) % 256
  <2>1. last = [i \in 1 .. 8 |-> Digit(i)]
    BY Zenon DEF ui64tostr
  <2>2. \A i \in 1 .. 8 : last[i] \in S
    BY DEF Items
  <2> HIDE DEF last, Digit, S
  <2> QED
    BY <2>1, <2>2
<1>5. Padded(t) = z
  BY DEF Padded
<1> HIDE DEF S, one, zeros, last
<1>6. /\ x \in Seq(S) /\ Len(x) = Len(t) + Len(one)
      /\ \A i \in 1 .. Len(t) : x[i] = t[i]
      /\ \A i \in 1 .. Len(one) : x[Len(t) + i] = one[i]
  <2>1. JoinIs(S, t, one)
    BY <1>1, <1>2, Joined, Zenon
  <2> QED
    BY <2>1, Zenon DEF JoinIs
<1> HIDE DEF x
<1>7. /\ y \in Seq(S) /\ Len(y) = Len(x) + Len(zeros)
      /\ \A i \in 1 .. Len(x) : y[i] = x[i]
      /\ \A i \in 1 .. Len(zeros) : y[Len(x) + i] = zeros[i]
  <2>1. JoinIs(S, x, zeros)
    BY <1>3, <1>6, Joined, Zenon
  <2> QED
    BY <2>1, Zenon DEF JoinIs
<1> HIDE DEF y
<1>8. /\ z \in Seq(S) /\ Len(z) = Len(y) + Len(last)
      /\ \A i \in 1 .. Len(y) : z[i] = y[i]
  <2>1. JoinIs(S, y, last)
    BY <1>4, <1>7, Joined, Zenon
  <2> QED
    BY <2>1, Zenon DEF JoinIs
<1> HIDE DEF z
<1> DEFINE d == Dif(n)
<1>9. d \in Nat /\ n + 1 + d + 8 = 64 * BlocksOf(n) /\ BlocksOf(n) \in Nat
  BY DifIs
<1> HIDE DEF d
<1>10. Len(x) = n + 1 /\ Len(y) = n + 1 + d /\ Len(z) = n + 1 + d + 8
  <2>1. Len(x) = n + 1
    BY <1>2, <1>6, Zenon
  <2>2. Len(y) = n + 1 + d
    BY <1>3, <1>7, <2>1, Zenon DEF d
  <2> QED
    BY <1>4, <1>8, <2>1, <2>2, Zenon
<1>11. /\ \A i \in 1 .. n : x[i] = t[i]
       /\ \A i \in 1 .. 1 : x[n + i] = one[i]
       /\ \A i \in 1 .. (n + 1) : y[i] = x[i]
       /\ \A i \in 1 .. d : y[n + 1 + i] = 0
       /\ \A i \in 1 .. (n + 1 + d) : z[i] = y[i]
  <2>1. /\ \A i \in 1 .. n : x[i] = t[i]
        /\ \A i \in 1 .. 1 : x[n + i] = one[i]
    BY <1>2, <1>6, Zenon
  <2>2. \A i \in 1 .. (n + 1) : y[i] = x[i]
    BY <1>7, <1>10, Zenon
  <2>3. \A i \in 1 .. d : y[n + 1 + i] = 0
    BY <1>3, <1>7, <1>10, Zenon DEF d
  <2>4. \A i \in 1 .. (n + 1 + d) : z[i] = y[i]
    BY <1>8, <1>10, Zenon
  <2> QED
    BY <2>1, <2>2, <2>3, <2>4
<1>12. \A i \in 1 .. n : z[i] = t[i]
  BY <1>9, <1>11
<1>13. z[n + 1] = 128
  BY <1>2, <1>9, <1>11
<1>14. ASSUME NEW i \in (n + 2) .. (64 * BlocksOf(n) - 8) PROVE z[i] = 0
  <2>1. i - (n + 1) \in 1 .. d /\ n + 1 + (i - (n + 1)) = i /\ i \in 1 .. (n + 1 + d)
    BY <1>9
  <2> QED
    BY <1>11, <2>1, ZenonT(60)
<1> QED
  BY <1>5, <1>8, <1>9, <1>10, <1>12, <1>13, <1>14, Zenon DEF S, PaddedShape

\* The pieces that md5 hands to unit_hash.
IsBlock(t, b, i) ==
  /\ b \in Seq(Items(t)) /\ Len(b) = 64
  /\ \A j \in 1 .. 64 : b[j] = Padded(t)[64 * (i - 1) + j]

LEMMA BlocksAre ==
  ASSUME NEW t \in Seq(Byte), NEW n \in Nat, n = Len(t)
  PROVE  /\ Len(Blocks(t)) = BlocksOf(n) /\ DOMAIN Blocks(t) = 1 .. BlocksOf(n)
         /\ \A i \in 1 .. BlocksOf(n) : IsBlock(t, Blocks(t)[i], i)
<1> DEFINE m == BlocksOf(n)
           str == Padded(t)
           Piece(i) == SubSeq(str, 64 * (i - 1) + 1, IF 64 * i < Len(str) THEN 64 * i ELSE Len(str))
<1>1. m \in Nat
  BY DifIs
<1>2. str \in Seq(Items(t)) /\ Len(str) = 64 * m
  <2>1. PaddedShape(t, n)
    BY PaddedIs, Zenon
  <2> QED
    BY <2>1, Zenon DEF PaddedShape
<1>3. Blocks(t) = [i \in 1 .. ((Len(str) + 63) \div 64) |-> Piece(i)]
  BY Zenon DEF Blocks
<1> HIDE DEF m, str
<1>4. (Len(str) + 63) \div 64 = m
  <2>1. (64 * m + 63) \div 64 = m
    BY <1>1
  <2> QED
    BY <1>2, <2>1, Zenon
<1>5. ASSUME NEW i \in 1 .. m
      PROVE  IsBlock(t, Piece(i), i)
  <2> DEFINE a == 64 * (i - 1) + 1  b == 64 * i
  <2>1. /\ a \in 1 .. (64 * m) /\ b \in Nat /\ b <= 64 * m /\ a <= b + 1 /\ b - a + 1 = 64
        /\ (IF b < 64 * m THEN b ELSE 64 * m) = b
    BY <1>1
  <2>2. \A j \in 1 .. 64 : a + j - 1 = 64 * (i - 1) + j
    BY <1>1
  <2>3. Piece(i) = SubSeq(str, a, b)
    BY <1>2, <2>1, Zenon
  <2>4. a \in 1 .. Len(str) /\ b <= Len(str)
    BY <1>2, <2>1, Zenon
  <2> HIDE DEF a, b, Piece
  <2>5. /\ Piece(i) \in Seq(Items(t)) /\ Len(Piece(i)) = b - a + 1
        /\ \A j \in 1 .. (b - a + 1) : Piece(i)[j] = str[a + j - 1]
    <3>1. CutIs(Items(t), str, a, b)
      BY <1>2, <2>1, <2>4, Cut, Zenon
    <3> QED
      BY <2>3, <3>1, Zenon DEF CutIs
  <2>6. /\ Piece(i) \in Seq(Items(t)) /\ Len(Piece(i)) = 64
        /\ \A j \in 1 .. 64 : Piece(i)[j] = str[a + j - 1]
    BY <2>1, <2>5, Zenon
  <2> QED
    <3>1. ASSUME NEW j \in 1 .. 64 PROVE Piece(i)[j] = str[64 * (i - 1) + j]
      <4>1. a + j - 1 = 64 * (i - 1) + j
        BY <2>2
      <4>2. Piece(i)[j] = str[a + j - 1]
        BY <2>6
      <4> QED
        BY <4>1, <4>2, Zenon
    <3> QED
      BY <2>6, <3>1, Zenon DEF IsBlock, str
<1> HIDE DEF Piece
<1>6. Blocks(t) = [i \in 1 .. m |-> Piece(i)]
  BY <1>3, <1>4, Zenon
<1>7. Len(Blocks(t)) = m /\ DOMAIN Blocks(t) = 1 .. m /\ \A i \in 1 .. m : Blocks(t)[i] = Piece(i)
  BY <1>1, <1>6
<1> QED
  BY <1>5, <1>7, Zenon DEF m, str

LEMMA TextBytes ==
  ASSUME TextInv, subject \in {"padding", "bytes"} PROVE text \in Seq(Byte)
<1>1. Alphabet["padding"] \subseteq Byte /\ Alphabet["bytes"] \subseteq Byte
  BY ByteAssumption DEF Alphabet, Byte
<1> QED
  BY <1>1, SeqMonotonic DEF TextInv

\* BlocksWhole: unit_hash gets whole blocks only, and no more of them than the text, the
\* byte 0x80 and the length need.
THEOREM BlocksAreWhole == Spec => []BlocksWhole
<1>1. ASSUME NEW t \in Seq(Byte)
      PROVE  /\ \A i \in DOMAIN Blocks(t) : Len(Blocks(t)[i]) = 64
             /\ Len(Blocks(t)) = (Len(t) + 9 + 63) \div 64
  <2> DEFINE n == Len(t)
  <2>1. n \in Nat
    OBVIOUS
  <2>2. n + 9 + 63 = n + 72
    BY <2>1
  <2>3. /\ Len(Blocks(t)) = BlocksOf(n) /\ DOMAIN Blocks(t) = 1 .. BlocksOf(n)
        /\ \A i \in 1 .. BlocksOf(n) : IsBlock(t, Blocks(t)[i], i)
    BY <2>1, BlocksAre, Zenon
  <2> HIDE DEF n
  <2>4. Len(Blocks(t)) = (n + 9 + 63) \div 64
    BY <2>2, <2>3, Zenon DEF BlocksOf
  <2> QED
    BY <2>3, <2>4, Zenon DEF n, IsBlock
<1>2. TextInv => BlocksWhole
  BY <1>1, TextBytes, Zenon DEF BlocksWhole
<1> QED
  BY <1>2, Texts, PTL

-----------------------------------------------------------------------------
(***************************************************************************)
(* The words of a block.                                                   *)
(***************************************************************************)
\* A byte of 0x80 or more sets the bytes before it in its word.
LEMMA StrtouiIs ==
  ASSUME NEW s, s[1] \in Byte, s[2] \in Byte, s[3] \in Byte, s[4] \in Byte, NEW k \in 1 .. 4
  PROVE  strtoui32(s)[k] = IF \E l \in (k + 1) .. 4 : s[l] >= 128 THEN 255 ELSE s[k]
<1> DEFINE w0 == Zeros(4)
           w1 == ShiftIn(w0, s[1])
           w2 == ShiftIn(w1, s[2])
           w3 == ShiftIn(w2, s[3])
           w4 == ShiftIn(w3, s[4])
<1>1. strtoui32(s) = w4
  BY DEF strtoui32
<1>2. \A num, c : ShiftIn(num, c) = IF c < 128 THEN <<num[2], num[3], num[4], c>> ELSE <<255, 255, 255, c>>
  BY DEF ShiftIn
<1>3. w1[4] = s[1]
  BY <1>2
<1> HIDE DEF w1
<1>4. w2[4] = s[2] /\ w2[3] = IF s[2] < 128 THEN s[1] ELSE 255
  BY <1>2, <1>3
<1> HIDE DEF w2
<1>5. w3[4] = s[3] /\ w3[3] = (IF s[3] < 128 THEN s[2] ELSE 255) /\ w3[2] = (IF s[3] < 128 THEN w2[3] ELSE 255)
  BY <1>2, <1>4
<1> HIDE DEF w3
<1>6. /\ w4[4] = s[4] /\ w4[3] = (IF s[4] < 128 THEN s[3] ELSE 255)
      /\ w4[2] = (IF s[4] < 128 THEN w3[3] ELSE 255) /\ w4[1] = (IF s[4] < 128 THEN w3[2] ELSE 255)
  BY <1>2, <1>5
<1> HIDE DEF w4
<1>7. \A l \in 1 .. 4 : s[l] >= 128 <=> ~(s[l] < 128)
  BY SMTT(60) DEF Byte
<1>8. CASE k = 4
  BY <1>1, <1>6, <1>8
<1>9. CASE k = 3
  BY <1>1, <1>6, <1>7, <1>9
<1>10. CASE k = 2
  BY <1>1, <1>5, <1>6, <1>7, <1>10
<1>11. CASE k = 1
  BY <1>1, <1>4, <1>5, <1>6, <1>7, <1>11
<1> QED
  BY <1>8, <1>9, <1>10, <1>11

Spells(s, b, v) == \A q \in 1 .. 4 : s[q] = b[4 * (v - 1) + q]

LEMMA WordsAre ==
  ASSUME NEW S, NEW b \in Seq(S), Len(b) = 64, NEW v \in 1 .. 16
  PROVE  \E s : Words(b)[v] = strtoui32(s) /\ Spells(s, b, v)
<1> DEFINE x == 4 * (v - 1) + 1  y == 4 * v  s == SubSeq(b, x, y)
<1>1. Words(b)[v] = strtoui32(s)
  BY Zenon DEF Words
<1>2. x \in 1 .. 64 /\ y \in Nat /\ y <= 64 /\ x <= y + 1 /\ y - x + 1 = 4
  OBVIOUS
<1>3. \A q \in 1 .. 4 : x + q - 1 = 4 * (v - 1) + q
  OBVIOUS
<1> HIDE DEF x, y
<1>4. CutIs(S, b, x, y)
  BY <1>2, Cut, Zenon
<1>5. \A q \in 1 .. 4 : s[q] = b[x + q - 1]
  BY <1>2, <1>4, Zenon DEF CutIs
<1> HIDE DEF s
<1>6. ASSUME NEW q \in 1 .. 4 PROVE s[q] = b[4 * (v - 1) + q]
  <2>1. x + q - 1 = 4 * (v - 1) + q /\ s[q] = b[x + q - 1]
    BY <1>3, <1>5
  <2> QED
    BY <2>1, Zenon
<1>7. Spells(s, b, v)
  BY <1>6, Zenon DEF Spells
<1> QED
  BY <1>1, <1>7, Zenon

\* The byte 4 w + k of a text is the k-th of the word w, in the block where it stands.
LEMMA PlaceIs ==
  ASSUME NEW n \in Nat, NEW i \in 1 .. n, NEW w \in Nat, NEW k, NEW m \in Nat, NEW d \in Nat,
         w = (i - 1) \div 4, k = ((i - 1) % 4) + 1, n + 1 + d + 8 = 64 * m
  PROVE  /\ k \in 1 .. 4 /\ i = 4 * w + k
         /\ (w \div 16) + 1 \in 1 .. m /\ (w % 16) + 1 \in 1 .. 16
         /\ \A q \in 1 .. 4 : /\ 4 * w + q \in 1 .. (64 * m - 8)
                              /\ 4 * (((w % 16) + 1) - 1) + q \in 1 .. 64
                              /\ 64 * (((w \div 16) + 1) - 1) + (4 * (((w % 16) + 1) - 1) + q) = 4 * w + q
<1>1. k \in 1 .. 4 /\ i = 4 * w + k
  OBVIOUS
<1> DEFINE a == w \div 16  c == w % 16
<1>2. a \in Nat /\ c \in 0 .. 15 /\ w = 16 * a + c
  OBVIOUS
<1> HIDE DEF a, c
<1>3. 4 * w + 4 <= 64 * m - 8
  BY <1>1
<1>4. a + 1 \in 1 .. m /\ c + 1 \in 1 .. 16
  BY <1>2, <1>3
<1>5. ASSUME NEW q \in 1 .. 4
      PROVE  /\ 4 * w + q \in 1 .. (64 * m - 8) /\ 4 * ((c + 1) - 1) + q \in 1 .. 64
             /\ 64 * ((a + 1) - 1) + (4 * ((c + 1) - 1) + q) = 4 * w + q
  BY <1>2, <1>3
<1> QED
  BY <1>1, <1>4, <1>5 DEF a, c

\* What becomes of the i-th byte of a text.
KeptAt(t, n, i, w) ==
  Words(Blocks(t)[(w \div 16) + 1])[(w % 16) + 1][((i - 1) % 4) + 1]
    = IF \E j \in (i + 1)..(4 * w + 4) : j = n + 1 \/ (j <= n /\ t[j] >= 128) THEN 255 ELSE t[i]

LEMMA ByteKept ==
  ASSUME NEW t \in Seq(Byte), NEW n \in Nat, n = Len(t), NEW i \in 1 .. n, NEW w, w = (i - 1) \div 4
  PROVE  KeptAt(t, n, i, w)
<1> DEFINE k == ((i - 1) % 4) + 1
           B == (w \div 16) + 1
           v == (w % 16) + 1
           m == BlocksOf(n)
           b == Blocks(t)[B]
           d == Dif(n)
<1>1. d \in Nat /\ m \in Nat /\ n + 1 + d + 8 = 64 * m
  BY DifIs
<1>2. w \in Nat
  OBVIOUS
<1> HIDE DEF m, d
<1>3. /\ k \in 1 .. 4 /\ i = 4 * w + k /\ B \in 1 .. m /\ v \in 1 .. 16
      /\ \A q \in 1 .. 4 : /\ 4 * w + q \in 1 .. (64 * m - 8)
                           /\ 4 * (v - 1) + q \in 1 .. 64
                           /\ 64 * (B - 1) + (4 * (v - 1) + q) = 4 * w + q
  BY <1>1, <1>2, PlaceIs
<1> HIDE DEF k, B, v
<1>4. IsBlock(t, b, B)
  BY <1>3, BlocksAre, Zenon DEF m
<1>5. b \in Seq(Items(t)) /\ Len(b) = 64 /\ \A j \in 1 .. 64 : b[j] = Padded(t)[64 * (B - 1) + j]
  BY <1>4, Zenon DEF IsBlock
<1> HIDE DEF b
<1>6. PICK s : Words(b)[v] = strtoui32(s) /\ Spells(s, b, v)
  BY <1>3, <1>5, WordsAre, Zenon
<1>7. ASSUME NEW q \in 1 .. 4 PROVE s[q] = Padded(t)[4 * w + q]
  <2> DEFINE x == 4 * (v - 1) + q
  <2>1. s[q] = b[x]
    BY <1>6, Zenon DEF Spells
  <2>2. x \in 1 .. 64 /\ 64 * (B - 1) + x = 4 * w + q
    BY <1>3, Zenon
  <2> HIDE DEF x
  <2>3. b[x] = Padded(t)[64 * (B - 1) + x]
    BY <1>5, <2>2, Zenon
  <2> QED
    BY <2>1, <2>2, <2>3, Zenon
<1>8. /\ \A j \in 1 .. n : Padded(t)[j] = t[j]
      /\ Padded(t)[n + 1] = 128
      /\ \A j \in (n + 2) .. (64 * m - 8) : Padded(t)[j] = 0
  <2>1. PaddedShape(t, n)
    BY PaddedIs, Zenon
  <2> QED
    BY <2>1, Zenon DEF PaddedShape, m
<1> DEFINE p == Padded(t)
<1> HIDE DEF p
<1>9. ASSUME NEW j \in 1 .. (64 * m - 8)
      PROVE  /\ j <= n => p[j] = t[j] /\ t[j] \in Byte
             /\ j = n + 1 => p[j] = 128
             /\ j > n + 1 => p[j] = 0
  <2>1. j <= n => j \in 1 .. n
    BY <1>1
  <2>2. j > n + 1 => j \in (n + 2) .. (64 * m - 8)
    BY <1>1
  <2>3. j <= n => t[j] \in Byte
    BY <2>1, ElementOfSeq
  <2> QED
    BY <1>8, <2>1, <2>2, <2>3, Zenon DEF p
<1>10. \A j \in 1 .. (64 * m - 8) : p[j] \in Byte /\ (p[j] >= 128 <=> (j = n + 1 \/ (j <= n /\ t[j] >= 128)))
  <2> SUFFICES ASSUME NEW j \in 1 .. (64 * m - 8)
               PROVE  p[j] \in Byte /\ (p[j] >= 128 <=> (j = n + 1 \/ (j <= n /\ t[j] >= 128)))
    OBVIOUS
  <2>1. CASE j <= n
    BY <1>9, <2>1
  <2>2. CASE j = n + 1
    BY <1>9, <2>2 DEF Byte
  <2>3. CASE j > n + 1
    BY <1>9, <2>3 DEF Byte
  <2> QED
    BY <2>1, <2>2, <2>3
<1>11. \A q \in 1 .. 4 : s[q] = p[4 * w + q] /\ s[q] \in Byte
  BY <1>3, <1>7, <1>10, Zenon DEF p
<1>12. strtoui32(s)[k] = IF \E l \in (k + 1) .. 4 : s[l] >= 128 THEN 255 ELSE s[k]
  <2>1. s[1] \in Byte /\ s[2] \in Byte /\ s[3] \in Byte /\ s[4] \in Byte
    BY <1>11
  <2> QED
    BY <1>3, <2>1, StrtouiIs, Zenon
<1>13. s[k] = t[i]
  <2>1. s[k] = p[i]
    BY <1>3, <1>11, Zenon
  <2> QED
    BY <1>8, <2>1, Zenon DEF p
<1> DEFINE Wiping(j) == j = n + 1 \/ (j <= n /\ t[j] >= 128)
<1>14. \A q \in 1 .. 4 : s[q] >= 128 <=> Wiping(4 * w + q)
  BY <1>3, <1>10, <1>11, Zenon
<1> HIDE DEF Wiping
<1>15. (\E l \in (k + 1) .. 4 : s[l] >= 128) <=> \E j \in (i + 1) .. (4 * w + 4) : Wiping(j)
  <2>1. ASSUME NEW l \in (k + 1) .. 4, s[l] >= 128 PROVE \E j \in (i + 1) .. (4 * w + 4) : Wiping(j)
    <3>1. l \in 1 .. 4 /\ 4 * w + l \in (i + 1) .. (4 * w + 4)
      BY <1>2, <1>3
    <3> QED
      BY <1>14, <2>1, <3>1, Zenon
  <2>2. ASSUME NEW j \in (i + 1) .. (4 * w + 4), Wiping(j) PROVE \E l \in (k + 1) .. 4 : s[l] >= 128
    <3> DEFINE l == j - 4 * w
    <3>1. l \in (k + 1) .. 4 /\ l \in 1 .. 4 /\ 4 * w + l = j
      BY <1>2, <1>3
    <3> HIDE DEF l
    <3> QED
      BY <1>14, <2>2, <3>1, Zenon
  <2> QED
    BY <2>1, <2>2, Zenon
<1>16. Words(b)[v][k] = IF \E j \in (i + 1) .. (4 * w + 4) : Wiping(j) THEN 255 ELSE t[i]
  BY <1>6, <1>12, <1>13, <1>15, Zenon
<1> QED
  BY <1>16, Zenon DEF k, B, v, b, Wiping, KeptAt

\* BytesKept: strtoui32 keeps a byte of the text unless one of 0x80 or more, or the byte that
\* the padding begins with, follows it in its word; whichever block it is in.
THEOREM BytesAreKept == Spec => []BytesKept
<1>1. TextInv => BytesKept
  <2> SUFFICES ASSUME TextInv, subject \in {"padding", "bytes"}, NEW i \in 1 .. Len(text)
               PROVE  LET w == (i - 1) \div 4
                          wiped == \E j \in (i + 1)..(4 * w + 4) :
                                     j = Len(text) + 1 \/ (j <= Len(text) /\ text[j] >= 128)
                      IN  Words(Blocks(text)[(w \div 16) + 1])[(w % 16) + 1][((i - 1) % 4) + 1]
                            = IF wiped THEN 255 ELSE text[i]
    BY Zenon DEF BytesKept
  <2>1. text \in Seq(Byte) /\ Len(text) \in Nat
    BY TextBytes, LenProperties, Zenon
  <2> QED
    <3>1. KeptAt(text, Len(text), i, (i - 1) \div 4)
      BY <2>1, ByteKept, Zenon
    <3> QED
      BY <3>1, Zenon DEF KeptAt
<1> QED
  BY <1>1, Texts, PTL

-----------------------------------------------------------------------------
(***************************************************************************)
(* A line of settings.                                                     *)
(***************************************************************************)
LEMMA TheGreatest ==
  ASSUME NEW S \in SUBSET Int, NEW g \in S, \A j \in S : j <= g PROVE Ini!Greatest(S) = g
<1>1. \A i \in S : (\A j \in S : j <= i) <=> i = g
  OBVIOUS
<1> QED
  BY <1>1 DEF Ini!Greatest

LEMMA TheLeast ==
  ASSUME NEW S \in SUBSET Int, NEW g \in S, \A j \in S : g <= j PROVE Ini!Least(S) = g
<1>1. \A i \in S : (\A j \in S : i <= j) <=> i = g
  OBVIOUS
<1> QED
  BY <1>1 DEF Ini!Least

Blank == {" ", "CR"}

\* What is left of the piece of a line from a to b between the blanks: from f to l.
Within(line, a, b, f, l) ==
  /\ a \in 1 .. Len(line) /\ b \in a .. Len(line) /\ l \in a .. b /\ f \in a .. l
  /\ line[f] # " " /\ \A i \in a .. (f - 1) : line[i] = " "
  /\ line[l] \notin Blank /\ \A i \in (l + 1) .. b : line[i] \in Blank

CutTo(line, a, b, f, l) == Ini!CutEnds(SubSeq(line, a, b)) = SubSeq(line, f, l)

LEMMA CutEndsIs ==
  ASSUME NEW S, NEW line \in Seq(S), NEW a, NEW b, NEW f, NEW l, Within(line, a, b, f, l)
  PROVE  CutTo(line, a, b, f, l)
<1> DEFINE n == Len(line)
           m == b - a + 1
           x == f - a + 1
           y == l - a + 1
           piece == SubSeq(line, a, b)
           kept == {i \in DOMAIN piece : piece[i] \notin Blank}
           cut == SubSeq(piece, 1, y)
           starts == {i \in DOMAIN cut : cut[i] # " "}
           Empty(i) == line[i] \in Blank
           Space(i) == line[i] = " "
<1>1. /\ n \in Nat /\ a \in 1 .. n /\ b \in a .. n /\ l \in a .. b /\ f \in a .. l
  BY LenProperties, Zenon DEF Within
<1>2. /\ ~Space(f) /\ \A i \in a .. (f - 1) : Space(i)
      /\ ~Empty(l) /\ \A i \in (l + 1) .. b : Empty(i)
  BY Zenon DEF Within
<1>3. Ini!CutEnds(piece) =
        IF kept = {} THEN <<>>
        ELSE LET c == SubSeq(piece, 1, Ini!Greatest(kept))
             IN  SubSeq(c, Ini!Least({i \in DOMAIN c : c[i] # " "}), Len(c))
  BY Zenon DEF Ini!CutEnds, Ini!Space, Ini!Return, Blank
<1> HIDE DEF n, m, x, y, Empty, Space, piece, kept, cut, starts
<1>4. /\ m \in Nat /\ x \in 1 .. y /\ y \in 1 .. m /\ a + 1 - 1 = a /\ a + y - 1 = l /\ a + x - 1 = f
      /\ a \in Nat /\ b \in Nat /\ l \in Nat /\ b <= n /\ a <= b + 1 /\ l \in a .. n
      /\ y = l - a + 1 /\ m = b - a + 1 /\ l <= n /\ a <= l + 1
  BY <1>1 DEF m, x, y
<1>5. CutIs(S, line, a, b) /\ CutIs(S, line, a, l)
  BY <1>1, <1>4, Cut, Zenon DEF n
<1>6. piece \in Seq(S) /\ Len(piece) = m /\ \A i \in 1 .. m : piece[i] = line[a + i - 1]
  BY <1>4, <1>5, Zenon DEF CutIs, piece
<1>7. kept = {i \in 1 .. m : ~Empty(a + i - 1)}
  <2>1. DOMAIN piece = 1 .. m
    BY <1>6, LenProperties, Zenon
  <2> QED
    BY <1>6, <2>1, Zenon DEF kept, Empty
<1>8. kept \in SUBSET Int /\ y \in kept /\ \A j \in kept : j <= y
  <2>1. ~Empty(a + y - 1)
    BY <1>2, <1>4, Zenon
  <2>2. ASSUME NEW j \in 1 .. m, ~Empty(a + j - 1) PROVE j <= y
    <3> SUFFICES ASSUME ~(j <= y) PROVE a + j - 1 \in (l + 1) .. b
      BY <1>2, <2>2, Zenon
    <3> QED
      BY <1>1, <1>4
  <2>3. \A j \in 1 .. m : j \in Int
    OBVIOUS
  <2> QED
    BY <1>4, <1>7, <2>1, <2>2, <2>3, Zenon
<1>9. Ini!Greatest(kept) = y
  BY <1>8, TheGreatest, Zenon
<1>10. Ini!CutEnds(piece) = SubSeq(cut, Ini!Least(starts), Len(cut))
  BY <1>3, <1>8, <1>9, Zenon DEF cut, starts
<1>11. cut = SubSeq(line, a, l)
  <2>1. Nested(n, a, b, 1, y, a, l)
    BY <1>1, <1>4 DEF Nested
  <2>2. Same(line, a, b, 1, y, a, l)
    BY <2>1, CutTwice, Zenon DEF n
  <2> QED
    BY <2>2, Zenon DEF Same, cut, piece
<1>12. cut \in Seq(S) /\ Len(cut) = y /\ \A i \in 1 .. y : cut[i] = line[a + i - 1]
  BY <1>4, <1>5, <1>11, Zenon DEF CutIs
<1>13. starts = {i \in 1 .. y : ~Space(a + i - 1)}
  <2>1. DOMAIN cut = 1 .. y
    BY <1>12, LenProperties, Zenon
  <2> QED
    BY <1>12, <2>1, Zenon DEF starts, Space
<1>14. starts \in SUBSET Int /\ x \in starts /\ \A j \in starts : x <= j
  <2>1. ~Space(a + x - 1)
    BY <1>2, <1>4, Zenon
  <2>2. ASSUME NEW j \in 1 .. y, ~Space(a + j - 1) PROVE x <= j
    <3> SUFFICES ASSUME ~(x <= j) PROVE a + j - 1 \in a .. (f - 1)
      BY <1>2, <2>2, Zenon
    <3> QED
      BY <1>1, <1>4
  <2>3. \A j \in 1 .. y : j \in Int
    OBVIOUS
  <2> QED
    BY <1>4, <1>13, <2>1, <2>2, <2>3, Zenon
<1>15. Ini!Least(starts) = x
  BY <1>14, TheLeast, Zenon
<1>16. SubSeq(cut, x, y) = SubSeq(line, f, l)
  <2>1. Nested(n, a, l, x, y, f, l)
    BY <1>1, <1>4 DEF Nested
  <2>2. Same(line, a, l, x, y, f, l)
    BY <2>1, CutTwice, Zenon DEF n
  <2> QED
    BY <1>11, <2>2, Zenon DEF Same
<1> QED
  BY <1>10, <1>12, <1>15, <1>16, Zenon DEF CutTo, piece

\* A line and itself without its ends.
LEMMA Whole == ASSUME NEW S, NEW line \in Seq(S) PROVE SubSeq(line, 1, Len(line)) = line
<1> DEFINE n == Len(line)
           w == SubSeq(line, 1, n)
<1>1. n \in Nat
  BY LenProperties, Zenon
<1>2. CASE n = 0
  <2>1. line = <<>>
    BY <1>2
  <2> QED
    BY <2>1
<1>3. CASE n # 0
  <2> HIDE DEF n
  <2>1. 1 \in 1 .. n /\ n <= n /\ 1 <= n + 1 /\ n - 1 + 1 = n /\ \A i \in 1 .. n : 1 + i - 1 = i
    BY <1>1, <1>3
  <2>2. CutIs(S, line, 1, n)
    BY <1>1, <2>1, Cut, Zenon DEF n
  <2>3. w \in Seq(S) /\ Len(w) = n /\ \A i \in 1 .. n : w[i] = line[i]
    BY <2>1, <2>2, Zenon DEF CutIs
  <2> HIDE DEF w
  <2>4. w = line
    BY <2>3, SeqEqual, Zenon DEF n
  <2> QED
    BY <2>4 DEF w, n
<1> QED
  BY <1>2, <1>3

LEMMA EmptyPiece == ASSUME NEW S, NEW s \in Seq(S), NEW b \in Nat PROVE SubSeq(s, b + 1, b) = <<>>
<1> DEFINE w == SubSeq(s, b + 1, b)
<1>1. b + 1 \in Int /\ b \in Int /\ ~(b + 1 <= b) /\ \A i \in (b + 1) .. b : s[i] \in S
  OBVIOUS
<1>2. w \in Seq(S) /\ Len(w) = (IF b + 1 <= b THEN b - (b + 1) + 1 ELSE 0)
  BY <1>1, SubSeqProperties
<1> HIDE DEF w
<1>3. w \in Seq(S) /\ Len(w) = 0
  BY <1>1, <1>2, Zenon
<1>4. w = <<>>
  BY <1>3
<1> QED
  BY <1>4 DEF w

\* trim_space of a piece of a line, whose quotes go if there is one at each end.
Quoted(line, f, l) == line[f] = Ini!Quote /\ line[l] = Ini!Quote

Trimmed(line, a, b, f, l) ==
  /\ ~Quoted(line, f, l) => Ini!trim_space(SubSeq(line, a, b)) = SubSeq(line, f, l)
  /\ Quoted(line, f, l) /\ f < l => Ini!trim_space(SubSeq(line, a, b)) = SubSeq(line, f + 1, l - 1)

LEMMA TrimIs ==
  ASSUME NEW S, NEW line \in Seq(S), NEW a, NEW b, NEW f, NEW l, Within(line, a, b, f, l)
  PROVE  Trimmed(line, a, b, f, l)
<1> DEFINE n == Len(line)
           m == l - f + 1
           cut == SubSeq(line, f, l)
<1>1. Ini!CutEnds(SubSeq(line, a, b)) = cut
  <2>1. CutTo(line, a, b, f, l)
    BY CutEndsIs, Zenon
  <2> QED
    BY <2>1, Zenon DEF CutTo
<1>2. Ini!trim_space(SubSeq(line, a, b)) =
        IF cut # <<>> /\ cut[1] = Ini!Quote /\ cut[Len(cut)] = Ini!Quote
        THEN SubSeq(cut, 2, Len(cut) - 1) ELSE cut
  BY <1>1, Zenon DEF Ini!trim_space, Ini!Last
<1>3. /\ n \in Nat /\ a \in 1 .. n /\ b \in a .. n /\ l \in a .. b /\ f \in a .. l
  BY LenProperties, Zenon DEF Within
<1> HIDE DEF n
<1>4. /\ f \in 1 .. n /\ l \in Nat /\ l \in f .. n /\ l <= n /\ f <= l + 1 /\ f + 1 - 1 = f
      /\ m = l - f + 1 /\ m \in 1 .. m /\ 1 \in 1 .. m /\ f + m - 1 = l /\ m # 0
  BY <1>3
<1> HIDE DEF m
<1>5. CutIs(S, line, f, l)
  BY <1>4, Cut, Zenon DEF n
<1>6. cut \in Seq(S) /\ Len(cut) = m /\ \A i \in 1 .. m : cut[i] = line[f + i - 1]
  BY <1>4, <1>5, Zenon DEF CutIs
<1>7. cut[1] = line[f] /\ cut[m] = line[l]
  BY <1>4, <1>6, Zenon
<1> HIDE DEF cut
<1>8. cut # <<>>
  BY <1>4, <1>6
<1>9. Ini!trim_space(SubSeq(line, a, b)) = IF Quoted(line, f, l) THEN SubSeq(cut, 2, m - 1) ELSE cut
  BY <1>2, <1>6, <1>7, <1>8, Zenon DEF Quoted
<1>10. ASSUME f < l PROVE SubSeq(cut, 2, m - 1) = SubSeq(line, f + 1, l - 1)
  <2>1. Nested(n, f, l, 2, m - 1, f + 1, l - 1)
    BY <1>3, <1>4, <1>10 DEF Nested
  <2>2. Same(line, f, l, 2, m - 1, f + 1, l - 1)
    BY <2>1, CutTwice, Zenon DEF n
  <2> QED
    BY <2>2, Zenon DEF Same, cut
<1> QED
  BY <1>9, <1>10, Zenon DEF Trimmed, cut

\* get_key_value of a piece of a line, whose first '=' is at e.
FirstEqual(line, a, b, e) ==
  /\ a \in 1 .. Len(line) /\ b \in a .. Len(line) /\ e \in a .. b
  /\ line[e] = "=" /\ \A i \in a .. (e - 1) : line[i] # "="

KeyAndValue(line, a, b, e) ==
  Ini!get_key_value(SubSeq(line, a, b)) =
    <<Ini!trim_space(SubSeq(line, a, e - 1)), Ini!trim_space(SubSeq(line, e + 1, b))>>

LEMMA PairIs ==
  ASSUME NEW S, NEW line \in Seq(S), NEW a, NEW b, NEW e, FirstEqual(line, a, b, e)
  PROVE  KeyAndValue(line, a, b, e)
<1> DEFINE n == Len(line)
           m == b - a + 1
           x == e - a + 1
           piece == SubSeq(line, a, b)
           equals == {i \in DOMAIN piece : piece[i] = "="}
           Equal(i) == line[i] = "="
<1>1. n \in Nat /\ a \in 1 .. n /\ b \in a .. n /\ e \in a .. b
  BY LenProperties, Zenon DEF FirstEqual
<1>2. Equal(e) /\ \A i \in a .. (e - 1) : ~Equal(i)
  BY Zenon DEF FirstEqual
<1>3. LET at == IF equals = {} THEN Len(piece) + 1 ELSE Ini!Least(equals)
      IN  Ini!get_key_value(piece) =
            <<Ini!trim_space(SubSeq(piece, 1, at - 1)),
              Ini!trim_space(SubSeq(piece, at + 1, Len(piece)))>>
  BY Zenon DEF Ini!get_key_value
<1> HIDE DEF n, m, x, piece, equals, Equal
<1>4. /\ m \in Nat /\ x \in 1 .. m /\ a + x - 1 = e /\ b \in Nat /\ b <= n /\ a <= b + 1
      /\ m = b - a + 1
  BY <1>1 DEF m, x
<1>5. CutIs(S, line, a, b)
  BY <1>1, <1>4, Cut, Zenon DEF n
<1>6. piece \in Seq(S) /\ Len(piece) = m /\ \A i \in 1 .. m : piece[i] = line[a + i - 1]
  BY <1>4, <1>5, Zenon DEF CutIs, piece
<1>7. equals = {i \in 1 .. m : Equal(a + i - 1)}
  <2>1. DOMAIN piece = 1 .. m
    BY <1>6, LenProperties, Zenon
  <2> QED
    BY <1>6, <2>1, Zenon DEF equals, Equal
<1>8. equals \in SUBSET Int /\ x \in equals /\ \A j \in equals : x <= j
  <2>1. Equal(a + x - 1)
    BY <1>2, <1>4, Zenon
  <2>2. ASSUME NEW j \in 1 .. m, Equal(a + j - 1) PROVE x <= j
    <3> SUFFICES ASSUME ~(x <= j) PROVE a + j - 1 \in a .. (e - 1)
      BY <1>2, <2>2, Zenon
    <3> QED
      BY <1>1, <1>4
  <2>3. \A j \in 1 .. m : j \in Int
    OBVIOUS
  <2> QED
    BY <1>4, <1>7, <2>1, <2>2, <2>3, Zenon
<1>9. Ini!Least(equals) = x
  BY <1>8, TheLeast, Zenon
<1>10. Ini!get_key_value(piece) =
         <<Ini!trim_space(SubSeq(piece, 1, x - 1)), Ini!trim_space(SubSeq(piece, x + 1, m))>>
  BY <1>3, <1>6, <1>8, <1>9, Zenon
<1>11. SubSeq(piece, 1, x - 1) = SubSeq(line, a, e - 1)
  <2>1. Nested(n, a, b, 1, x - 1, a, e - 1)
    BY <1>1, <1>4 DEF Nested
  <2>2. Same(line, a, b, 1, x - 1, a, e - 1)
    BY <2>1, CutTwice, Zenon DEF n
  <2> QED
    BY <2>2, Zenon DEF Same, piece
<1>12. SubSeq(piece, x + 1, m) = SubSeq(line, e + 1, b)
  <2>1. CASE e = b
    <3>1. x = m
      BY <1>1, <1>4, <2>1
    <3>2. SubSeq(piece, m + 1, m) = <<>> /\ SubSeq(line, b + 1, b) = <<>>
      BY <1>4, <1>6, EmptyPiece, Zenon
    <3> QED
      BY <2>1, <3>1, <3>2, Zenon
  <2>2. CASE e # b
    <3>1. Nested(n, a, b, x + 1, m, e + 1, b)
      BY <1>1, <1>4, <2>2 DEF Nested
    <3>2. Same(line, a, b, x + 1, m, e + 1, b)
      BY <3>1, CutTwice, Zenon DEF n
    <3> QED
      BY <3>2, Zenon DEF Same, piece
  <2> QED
    BY <2>1, <2>2, Zenon
<1> QED
  BY <1>10, <1>11, <1>12, Zenon DEF KeyAndValue, piece

\* A line of blanks leaves nothing.
LEMMA BlankCut ==
  ASSUME NEW S, NEW t \in Seq(S), \A i \in 1 .. Len(t) : t[i] \in Blank
  PROVE  Ini!CutEnds(t) = <<>>
<1>1. {i \in DOMAIN t : t[i] \notin Blank} = {}
  <2>1. DOMAIN t = 1 .. Len(t)
    BY LenProperties, Zenon
  <2> QED
    BY <2>1, Zenon
<1> QED
  BY <1>1, Zenon DEF Ini!CutEnds, Ini!Space, Ini!Return, Blank

LEMMA EmptyTrim == Ini!trim_space(<<>>) = <<>>
<1>1. <<>> \in Seq(STRING) /\ Len(<<>>) = 0 /\ 1 .. 0 = {}
  OBVIOUS
<1>2. Ini!CutEnds(<<>>) = <<>>
  BY <1>1, BlankCut, Zenon
<1> QED
  BY <1>2, Zenon DEF Ini!trim_space

\* t stands in s from a to b.
Stands(S, s, a, b, t) ==
  /\ s \in Seq(S) /\ a \in 1 .. Len(s) /\ b \in Nat /\ b <= Len(s) /\ a <= b + 1
  /\ t \in Seq(S) /\ Len(t) = b - a + 1 /\ \A i \in 1 .. (b - a + 1) : s[a + i - 1] = t[i]

LEMMA PieceIs ==
  ASSUME NEW S, NEW s, NEW a, NEW b, NEW t, Stands(S, s, a, b, t) PROVE SubSeq(s, a, b) = t
<1> DEFINE w == SubSeq(s, a, b)
<1>1. CutIs(S, s, a, b)
  BY Cut, Zenon DEF Stands
<1>2. w \in Seq(S) /\ Len(w) = Len(t) /\ \A i \in 1 .. Len(w) : w[i] = t[i]
  BY <1>1, Zenon DEF CutIs, Stands
<1>3. t \in Seq(S)
  BY Zenon DEF Stands
<1> HIDE DEF w
<1>4. w = t
  BY <1>2, <1>3, SeqEqual, Zenon
<1> QED
  BY <1>4 DEF w

\* A text between quotes.
Between(S, z, t, n, q) ==
  /\ z \in Seq(S) /\ Len(z) = n + 2 /\ z[1] = q /\ z[n + 2] = q
  /\ \A i \in 1 .. n : z[1 + i] = t[i]

LEMMA BetweenQuotes ==
  ASSUME NEW S, NEW t \in Seq(S), NEW n \in Nat, n = Len(t), NEW q \in S
  PROVE  Between(S, <<q>> \o t \o <<q>>, t, n, q)
<1> DEFINE o == <<q>>
           h == o \o t
           z == h \o o
<1>1. o \in Seq(S) /\ Len(o) = 1 /\ o[1] = q
  OBVIOUS
<1> HIDE DEF o
<1>2. JoinAt(S, o, t, 1, n)
  BY <1>1, JoinedAt, Zenon
<1>3. h \in Seq(S) /\ Len(h) = 1 + n /\ h[1] = o[1] /\ \A i \in 1 .. n : h[1 + i] = t[i]
  <2>1. 1 \in 1 .. 1
    OBVIOUS
  <2> QED
    BY <1>2, <2>1, Zenon DEF JoinAt
<1> HIDE DEF h
<1>4. JoinAt(S, h, o, 1 + n, 1)
  BY <1>1, <1>3, JoinedAt, Zenon
<1>5. z \in Seq(S) /\ Len(z) = 1 + n + 1 /\ z[1 + n + 1] = o[1]
      /\ \A i \in 1 .. (1 + n) : z[i] = h[i]
  <2>1. 1 \in 1 .. 1
    OBVIOUS
  <2> QED
    BY <1>4, <2>1, Zenon DEF JoinAt
<1> HIDE DEF z
<1>6. 1 + n + 1 = n + 2 /\ 1 \in 1 .. (1 + n) /\ \A i \in 1 .. n : 1 + i \in 1 .. (1 + n)
  OBVIOUS
<1>7. Between(S, z, t, n, q)
  BY <1>1, <1>3, <1>5, <1>6, Zenon DEF Between
<1> QED
  BY <1>7, Zenon DEF z, h, o

TwoAre(S, z, x, y) == z \in Seq(S) /\ Len(z) = 2 /\ z[1] = x /\ z[2] = y

LEMMA TwoJoined == ASSUME NEW S, NEW x \in S, NEW y \in S PROVE TwoAre(S, <<x>> \o <<y>>, x, y)
<1> DEFINE u == <<x>>
           v == <<y>>
           z == u \o v
<1>1. u \in Seq(S) /\ Len(u) = 1 /\ u[1] = x /\ v \in Seq(S) /\ Len(v) = 1 /\ v[1] = y
  OBVIOUS
<1> HIDE DEF u, v
<1>2. JoinAt(S, u, v, 1, 1)
  BY <1>1, JoinedAt, Zenon
<1>3. z \in Seq(S) /\ Len(z) = 1 + 1 /\ \A i \in 1 .. 1 : z[i] = u[i] /\ z[1 + i] = v[i]
  BY <1>2, Zenon DEF JoinAt
<1> HIDE DEF z
<1>4. z[1] = u[1] /\ z[1 + 1] = v[1]
  BY <1>3
<1>5. TwoAre(S, z, x, y)
  BY <1>1, <1>3, <1>4 DEF TwoAre
<1> QED
  BY <1>5 DEF z, u, v

\* The three lines of PairReadsBack, by position.
FirstLine(S, z, t, n, sp, k, eq, cr, q) ==
  /\ z \in Seq(S) /\ Len(z) = n + 9
  /\ z[1] = sp /\ z[2] = k /\ z[3] = sp /\ z[4] = eq /\ z[5] = sp /\ z[6] = q
  /\ \A i \in 1 .. n : z[6 + i] = t[i]
  /\ z[n + 7] = q /\ z[n + 8] = sp /\ z[n + 9] = cr

SecondLine(S, z, n, k, eq, q) ==
  /\ z \in Seq(S) /\ Len(z) = n + 6
  /\ z[1] = q /\ z[2] = k /\ z[3] = q /\ z[4] = eq /\ z[n + 6] = q

ThirdLine(S, z, t, n, k, eq) ==
  /\ z \in Seq(S) /\ Len(z) = n + 2 /\ z[1] = k /\ z[2] = eq
  /\ \A i \in 1 .. n : z[2 + i] = t[i]

LEMMA FirstLineIs ==
  ASSUME NEW S, NEW sp \in S, NEW k \in S, NEW eq \in S, NEW cr \in S, NEW q \in S,
         NEW t \in Seq(S), NEW n \in Nat, n = Len(t)
  PROVE  FirstLine(S, <<sp>> \o <<k>> \o <<sp, eq, sp>> \o (<<q>> \o t \o <<q>>)
                        \o <<sp, cr>>, t, n, sp, k, eq, cr, q)
<1> DEFINE h == <<sp>> \o <<k>> \o <<sp, eq, sp>>
           v == <<q>> \o t \o <<q>>
           e == <<sp, cr>>
           g == h \o v
           z == g \o e
<1>1. h \in Seq(S) /\ Len(h) = 5 /\ h[1] = sp /\ h[2] = k /\ h[3] = sp /\ h[4] = eq /\ h[5] = sp
  <2> DEFINE x == <<sp, eq, sp>>
             y == <<sp>> \o <<k>>
  <2>1. y \in Seq(S) /\ Len(y) = 2 /\ y[1] = sp /\ y[2] = k
    <3>1. TwoAre(S, y, sp, k)
      BY TwoJoined, Zenon
    <3> QED
      BY <3>1, Zenon DEF TwoAre
  <2>2. x \in Seq(S) /\ Len(x) = 3 /\ x[1] = sp /\ x[2] = eq /\ x[3] = sp
    OBVIOUS
  <2> HIDE DEF x, y
  <2>3. JoinAt(S, y, x, 2, 3)
    BY <2>1, <2>2, JoinedAt, Zenon
  <2>4. /\ h \in Seq(S) /\ Len(h) = 2 + 3 /\ \A i \in 1 .. 2 : h[i] = y[i]
        /\ \A i \in 1 .. 3 : h[2 + i] = x[i]
    BY <2>3, Zenon DEF JoinAt, x, y
  <2> HIDE DEF h
  <2>5. h[1] = y[1] /\ h[2] = y[2] /\ h[2 + 1] = x[1] /\ h[2 + 2] = x[2] /\ h[2 + 3] = x[3]
    BY <2>4
  <2> QED
    BY <2>1, <2>2, <2>4, <2>5
<1>2. e \in Seq(S) /\ Len(e) = 2 /\ e[1] = sp /\ e[2] = cr
  OBVIOUS
<1> HIDE DEF e, h
<1>3. v \in Seq(S) /\ Len(v) = n + 2 /\ v[1] = q /\ v[n + 2] = q /\ \A i \in 1 .. n : v[1 + i] = t[i]
  <2>1. Between(S, v, t, n, q)
    BY BetweenQuotes, Zenon
  <2> QED
    BY <2>1, Zenon DEF Between
<1> HIDE DEF v
<1>4. JoinAt(S, h, v, 5, n + 2)
  BY <1>1, <1>3, JoinedAt, Zenon
<1>5. /\ g \in Seq(S) /\ Len(g) = 5 + (n + 2) /\ \A i \in 1 .. 5 : g[i] = h[i]
      /\ \A i \in 1 .. (n + 2) : g[5 + i] = v[i]
  BY <1>4, Zenon DEF JoinAt
<1> HIDE DEF g
<1>6. JoinAt(S, g, e, 5 + (n + 2), 2)
  BY <1>2, <1>5, JoinedAt, Zenon
<1>7. /\ z \in Seq(S) /\ Len(z) = (5 + (n + 2)) + 2 /\ \A i \in 1 .. (5 + (n + 2)) : z[i] = g[i]
      /\ \A i \in 1 .. 2 : z[5 + (n + 2) + i] = e[i]
  BY <1>6, Zenon DEF JoinAt
<1> HIDE DEF z
<1>8. /\ z[1] = h[1] /\ z[2] = h[2] /\ z[3] = h[3] /\ z[4] = h[4] /\ z[5] = h[5]
      /\ z[6] = v[1] /\ z[n + 7] = v[n + 2] /\ z[n + 8] = e[1] /\ z[n + 9] = e[2]
  <2>1. ASSUME NEW i \in 1 .. 5 PROVE z[i] = h[i]
    BY <1>5, <1>7
  <2>2. ASSUME NEW i \in 1 .. (n + 2) PROVE z[5 + i] = v[i]
    BY <1>5, <1>7
  <2>3. /\ 1 \in 1 .. (n + 2) /\ n + 2 \in 1 .. (n + 2) /\ 5 + (n + 2) = n + 7 /\ 5 + 1 = 6
        /\ 5 + (n + 2) + 1 = n + 8 /\ 5 + (n + 2) + 2 = n + 9 /\ 1 \in 1 .. 2 /\ 2 \in 1 .. 2
    OBVIOUS
  <2>4. z[6] = v[1] /\ z[n + 7] = v[n + 2]
    BY <2>2, <2>3, Zenon
  <2>5. z[n + 8] = e[1] /\ z[n + 9] = e[2]
    BY <1>7, <2>3, Zenon
  <2> QED
    BY <2>1, <2>4, <2>5
<1>9. ASSUME NEW i \in 1 .. n PROVE z[6 + i] = t[i]
  <2> DEFINE x == 1 + i
  <2>1. x \in 1 .. (n + 2) /\ 5 + x = 6 + i /\ 5 + x \in 1 .. (5 + (n + 2)) /\ v[x] = t[i]
    BY <1>3
  <2> HIDE DEF x
  <2>2. z[5 + x] = g[5 + x] /\ g[5 + x] = v[x]
    BY <1>5, <1>7, <2>1, Zenon
  <2> QED
    BY <2>1, <2>2, Zenon
<1>10. (5 + (n + 2)) + 2 = n + 9
  OBVIOUS
<1>11. FirstLine(S, z, t, n, sp, k, eq, cr, q)
  BY <1>1, <1>2, <1>3, <1>7, <1>8, <1>9, <1>10, Zenon DEF FirstLine
<1> QED
  BY <1>11, Zenon DEF z, g, h, v, e

LEMMA SecondLineIs ==
  ASSUME NEW S, NEW k \in S, NEW eq \in S, NEW q \in S, NEW t \in Seq(S), NEW n \in Nat, n = Len(t)
  PROVE  SecondLine(S, <<q, k, q, eq>> \o (<<q>> \o t \o <<q>>), n, k, eq, q)
<1> DEFINE h == <<q, k, q, eq>>
           v == <<q>> \o t \o <<q>>
           z == h \o v
<1>1. h \in Seq(S) /\ Len(h) = 4 /\ h[1] = q /\ h[2] = k /\ h[3] = q /\ h[4] = eq
  OBVIOUS
<1> HIDE DEF h
<1>2. v \in Seq(S) /\ Len(v) = n + 2 /\ v[n + 2] = q
  <2>1. Between(S, v, t, n, q)
    BY BetweenQuotes, Zenon
  <2> QED
    BY <2>1, Zenon DEF Between
<1> HIDE DEF v
<1>3. JoinAt(S, h, v, 4, n + 2)
  BY <1>1, <1>2, JoinedAt, Zenon
<1>4. /\ z \in Seq(S) /\ Len(z) = 4 + (n + 2) /\ \A i \in 1 .. 4 : z[i] = h[i]
      /\ \A i \in 1 .. (n + 2) : z[4 + i] = v[i]
  BY <1>3, Zenon DEF JoinAt
<1> HIDE DEF z
<1>5. /\ 4 + (n + 2) = n + 6 /\ n + 2 \in 1 .. (n + 2)
      /\ 1 \in 1 .. 4 /\ 2 \in 1 .. 4 /\ 3 \in 1 .. 4 /\ 4 \in 1 .. 4
  OBVIOUS
<1>6. SecondLine(S, z, n, k, eq, q)
  BY <1>1, <1>2, <1>4, <1>5, Zenon DEF SecondLine
<1> QED
  BY <1>6, Zenon DEF z, h, v

LEMMA ThirdLineIs ==
  ASSUME NEW S, NEW k \in S, NEW eq \in S, NEW t \in Seq(S), NEW n \in Nat, n = Len(t)
  PROVE  ThirdLine(S, <<k>> \o <<eq>> \o t, t, n, k, eq)
<1> DEFINE h == <<k>> \o <<eq>>
           z == h \o t
<1>1. h \in Seq(S) /\ Len(h) = 2 /\ h[1] = k /\ h[2] = eq
  <2>1. TwoAre(S, h, k, eq)
    BY TwoJoined, Zenon
  <2> QED
    BY <2>1, Zenon DEF TwoAre
<1> HIDE DEF h
<1>2. JoinAt(S, h, t, 2, n)
  BY <1>1, JoinedAt, Zenon
<1>3. /\ z \in Seq(S) /\ Len(z) = 2 + n /\ \A i \in 1 .. 2 : z[i] = h[i]
      /\ \A i \in 1 .. n : z[2 + i] = t[i]
  BY <1>2, Zenon DEF JoinAt
<1> HIDE DEF z
<1>4. 2 + n = n + 2 /\ 1 \in 1 .. 2 /\ 2 \in 1 .. 2
  OBVIOUS
<1>5. ThirdLine(S, z, t, n, k, eq)
  BY <1>1, <1>3, <1>4, Zenon DEF ThirdLine
<1> QED
  BY <1>5, Zenon DEF z, h

\* What the constructor makes of a line that is a pair.
Read(line) == Ini!get_key_value(Ini!trim_space(line))

Character == Characters \union {" ", "k", "=", "CR", Ini!Quote}

LEMMA CharacterFacts ==
  /\ " " \in Character /\ "k" \in Character /\ "=" \in Character /\ "CR" \in Character /\ Ini!Quote \in Character
  /\ "k" # Ini!Quote /\ Ini!Quote \notin Blank /\ "k" \notin Blank /\ "=" \notin Blank
  /\ Ini!Quote # "=" /\ " " # "=" /\ "k" # "="
<1>1. " " \in Character /\ "k" \in Character /\ "=" \in Character /\ "CR" \in Character
  BY Zenon DEF Character
<1>2. Ini!Quote \in Character
  BY Zenon DEF Character
<1>3. "k" # Ini!Quote /\ Ini!Quote # "="
  BY Zenon DEF Ini!Quote
<1>4. Ini!Quote \notin Blank
  BY Zenon DEF Ini!Quote, Blank
<1>5. "k" \notin Blank /\ "=" \notin Blank /\ " " # "=" /\ "k" # "="
  BY Zenon DEF Blank
<1> QED
  BY <1>1, <1>2, <1>3, <1>4, <1>5, Zenon

LEMMA OneCharacter ==
  ASSUME NEW S, NEW s \in Seq(S), NEW i \in 1 .. Len(s) PROVE SubSeq(s, i, i) = <<s[i]>>
<1> DEFINE w == SubSeq(s, i, i)
           n == Len(s)
           c == s[i]
<1>1. n \in Nat /\ i \in 1 .. n /\ c \in S
  BY LenProperties, ElementOfSeq, Zenon
<1> HIDE DEF n
<1>2. i \in Nat /\ i <= n /\ i <= i + 1 /\ i - i + 1 = 1 /\ i + 1 - 1 = i /\ 1 \in 1 .. 1
  BY <1>1
<1>3. CutIs(S, s, i, i)
  BY <1>1, <1>2, Cut, Zenon DEF n
<1>4. w \in Seq(S) /\ Len(w) = 1 /\ w[1] = c
  BY <1>2, <1>3, Zenon DEF CutIs
<1> HIDE DEF w, c
<1>5. w = <<c>>
  BY <1>1, <1>4
<1> QED
  BY <1>5 DEF w, c

IsFirst(z, t, n) == FirstLine(Character, z, t, n, " ", "k", "=", "CR", Ini!Quote)
IsSecond(z, n) == SecondLine(Character, z, n, "k", "=", Ini!Quote)
IsThird(z, t, n) == ThirdLine(Character, z, t, n, "k", "=")

LEMMA FirstRead ==
  ASSUME NEW t \in Seq(Character), NEW n \in Nat, n = Len(t), NEW z, IsFirst(z, t, n)
  PROVE  Read(z) = <<<<"k">>, t>>
<1> DEFINE q == Ini!Quote
<1>1. /\ z \in Seq(Character) /\ Len(z) = n + 9
      /\ z[1] = " " /\ z[2] = "k" /\ z[3] = " " /\ z[4] = "=" /\ z[5] = " " /\ z[6] = q
      /\ \A i \in 1 .. n : z[6 + i] = t[i]
      /\ z[n + 7] = q /\ z[n + 8] = " " /\ z[n + 9] = "CR"
  BY Zenon DEF FirstLine, IsFirst
<1> HIDE DEF q
<1>2. /\ "k" # q /\ q \notin Blank /\ "k" \notin Blank /\ "=" \notin Blank
      /\ " " \in Blank /\ "CR" \in Blank /\ q # " " /\ "k" # " " /\ "k" # "=" /\ " " # "="
  BY CharacterFacts, Zenon DEF q, Blank
<1>3. Within(z, 1, n + 9, 2, n + 7)
  <2>1. /\ 1 \in 1 .. (n + 9) /\ n + 9 \in 1 .. (n + 9) /\ n + 7 \in 1 .. (n + 9) /\ 2 \in 1 .. (n + 7)
        /\ \A i \in 1 .. (2 - 1) : i = 1
        /\ \A i \in (n + 7 + 1) .. (n + 9) : i = n + 8 \/ i = n + 9
    OBVIOUS
  <2> QED
    BY <1>1, <1>2, <2>1, Zenon DEF Within
<1>4. Within(z, 2, 3, 2, 2)
  <2>1. /\ 2 \in 1 .. (n + 9) /\ 3 \in 2 .. (n + 9) /\ 2 \in 2 .. 3 /\ 2 \in 2 .. 2
        /\ \A i \in 2 .. (2 - 1) : FALSE
        /\ \A i \in (2 + 1) .. 3 : i = 3
    OBVIOUS
  <2> QED
    BY <1>1, <1>2, <2>1, Zenon DEF Within
<1>5. Within(z, 5, n + 7, 6, n + 7)
  <2>1. /\ 5 \in 1 .. (n + 9) /\ n + 7 \in 5 .. (n + 9) /\ n + 7 \in 5 .. (n + 7) /\ 6 \in 5 .. (n + 7)
        /\ \A i \in 5 .. (6 - 1) : i = 5
        /\ \A i \in (n + 7 + 1) .. (n + 7) : FALSE
    OBVIOUS
  <2> QED
    BY <1>1, <1>2, <2>1, Zenon DEF Within
<1>6. FirstEqual(z, 2, n + 7, 4)
  <2>1. /\ 2 \in 1 .. (n + 9) /\ n + 7 \in 2 .. (n + 9) /\ 4 \in 2 .. (n + 7)
        /\ \A i \in 2 .. (4 - 1) : i = 2 \/ i = 3
    OBVIOUS
  <2> QED
    BY <1>1, <1>2, <2>1, Zenon DEF FirstEqual
<1>7. /\ Trimmed(z, 1, n + 9, 2, n + 7) /\ Trimmed(z, 2, 3, 2, 2) /\ Trimmed(z, 5, n + 7, 6, n + 7)
      /\ KeyAndValue(z, 2, n + 7, 4)
  BY <1>1, <1>3, <1>4, <1>5, <1>6, TrimIs, PairIs, Zenon
<1>8. Ini!trim_space(z) = SubSeq(z, 2, n + 7)
  <2>1. SubSeq(z, 1, n + 9) = z
    BY <1>1, Whole, Zenon
  <2>2. ~Quoted(z, 2, n + 7)
    BY <1>1, <1>2, Zenon DEF Quoted, q
  <2> QED
    BY <1>7, <2>1, <2>2, Zenon DEF Trimmed
<1>9. Ini!trim_space(SubSeq(z, 2, 3)) = <<"k">>
  <2>1. ~Quoted(z, 2, 2)
    BY <1>1, <1>2, Zenon DEF Quoted, q
  <2>2. 2 \in 1 .. (n + 9)
    OBVIOUS
  <2>3. SubSeq(z, 2, 2) = <<z[2]>>
    BY <1>1, <2>2, OneCharacter, ZenonT(60)
  <2> QED
    BY <1>1, <1>7, <2>1, <2>3, Zenon DEF Trimmed
<1>10. Ini!trim_space(SubSeq(z, 5, n + 7)) = t
  <2>1. /\ 6 < n + 7 /\ 6 + 1 = 7 /\ (n + 7) - 1 = n + 6 /\ 7 \in 1 .. (n + 9) /\ n + 6 \in Nat
        /\ n + 6 <= n + 9 /\ 7 <= n + 6 + 1 /\ (n + 6) - 7 + 1 = n /\ \A i \in 1 .. n : 7 + i - 1 = 6 + i
    OBVIOUS
  <2>2. Quoted(z, 6, n + 7)
    BY <1>1, Zenon DEF Quoted, q
  <2>3. Ini!trim_space(SubSeq(z, 5, n + 7)) = SubSeq(z, 7, n + 6)
    BY <1>7, <2>1, <2>2, Zenon DEF Trimmed
  <2>4. Stands(Character, z, 7, n + 6, t)
    BY <1>1, <2>1, ZenonT(60) DEF Stands
  <2>5. SubSeq(z, 7, n + 6) = t
    BY <2>4, PieceIs, Zenon
  <2> QED
    BY <2>3, <2>5, Zenon
<1>11. Read(z) = <<Ini!trim_space(SubSeq(z, 2, 4 - 1)), Ini!trim_space(SubSeq(z, 4 + 1, n + 7))>>
  BY <1>7, <1>8, Zenon DEF KeyAndValue, Read
<1>12. 4 - 1 = 3 /\ 4 + 1 = 5
  OBVIOUS
<1> QED
  BY <1>9, <1>10, <1>11, <1>12, Zenon

\* A piece of a line without blanks at its ends.
BareAt(line, a, b) ==
  /\ a \in 1 .. Len(line) /\ b \in a .. Len(line) /\ line[a] # " " /\ line[b] \notin Blank

LEMMA Bare ==
  ASSUME NEW line, NEW a \in Nat, NEW b \in Nat, a <= b, BareAt(line, a, b)
  PROVE  Within(line, a, b, a, b)
<1>1. a \in a .. b /\ b \in a .. b
  OBVIOUS
<1>2. /\ \A i \in a .. (a - 1) : FALSE
      /\ \A i \in (b + 1) .. b : FALSE
  OBVIOUS
<1> QED
  BY <1>1, <1>2, Zenon DEF Within, BareAt

LEMMA SecondRead ==
  ASSUME NEW n \in Nat, NEW z, IsSecond(z, n) PROVE Read(z)[1] = <<"k", Ini!Quote>>
<1> DEFINE q == Ini!Quote
<1>1. /\ z \in Seq(Character) /\ Len(z) = n + 6
      /\ z[1] = q /\ z[2] = "k" /\ z[3] = q /\ z[4] = "=" /\ z[n + 6] = q
  BY Zenon DEF SecondLine, IsSecond
<1> HIDE DEF q
<1>2. /\ "k" # q /\ q \notin Blank /\ q # " " /\ "k" # " " /\ "k" # "=" /\ q # "="
  BY CharacterFacts, Zenon DEF q, Blank
<1>3. Within(z, 1, n + 6, 1, n + 6)
  <2>1. 1 \in 1 .. (n + 6) /\ n + 6 \in 1 .. (n + 6) /\ 1 \in Nat /\ n + 6 \in Nat /\ 1 <= n + 6
    OBVIOUS
  <2>2. z[1] # " " /\ z[n + 6] \notin Blank
    BY <1>1, <1>2, Zenon
  <2>3. BareAt(z, 1, n + 6)
    BY <1>1, <2>1, <2>2, Zenon DEF BareAt
  <2> QED
    BY <2>1, <2>3, Bare, Zenon
<1>4. Within(z, 2, 3, 2, 3)
  <2>1. 2 \in 1 .. (n + 6) /\ 3 \in 2 .. (n + 6) /\ 2 \in Nat /\ 3 \in Nat /\ 2 <= 3
    OBVIOUS
  <2>2. z[2] # " " /\ z[3] \notin Blank
    BY <1>1, <1>2, Zenon
  <2>3. BareAt(z, 2, 3)
    BY <1>1, <2>1, <2>2, Zenon DEF BareAt
  <2> QED
    BY <2>1, <2>3, Bare, Zenon
<1>5. FirstEqual(z, 2, n + 5, 4)
  <2>1. /\ 2 \in 1 .. (n + 6) /\ n + 5 \in 2 .. (n + 6) /\ 4 \in 2 .. (n + 5)
        /\ \A i \in 2 .. (4 - 1) : i = 2 \/ i = 3
    OBVIOUS
  <2> QED
    BY <1>1, <1>2, <2>1, Zenon DEF FirstEqual
<1>6. Trimmed(z, 1, n + 6, 1, n + 6) /\ Trimmed(z, 2, 3, 2, 3) /\ KeyAndValue(z, 2, n + 5, 4)
  BY <1>1, <1>3, <1>4, <1>5, TrimIs, PairIs, Zenon
<1>7. Ini!trim_space(z) = SubSeq(z, 2, n + 5)
  <2>1. SubSeq(z, 1, n + 6) = z
    BY <1>1, Whole, Zenon
  <2>2. Quoted(z, 1, n + 6)
    BY <1>1, Zenon DEF Quoted, q
  <2>3. 1 < n + 6 /\ 1 + 1 = 2 /\ (n + 6) - 1 = n + 5
    OBVIOUS
  <2> QED
    BY <1>6, <2>1, <2>2, <2>3, Zenon DEF Trimmed
<1>8. Ini!trim_space(SubSeq(z, 2, 3)) = <<"k", q>>
  <2> DEFINE t == <<"k", q>>
  <2>1. ~Quoted(z, 2, 3)
    BY <1>1, <1>2, Zenon DEF Quoted, q
  <2>2. "k" \in Character /\ q \in Character
    BY CharacterFacts, Zenon DEF q
  <2>3. t \in Seq(Character) /\ Len(t) = 2 /\ t[1] = "k" /\ t[2] = q
    BY <2>2
  <2> HIDE DEF t
  <2>4. /\ 2 \in 1 .. (n + 6) /\ 3 \in Nat /\ 3 <= n + 6 /\ 2 <= 3 + 1 /\ 3 - 2 + 1 = 2
        /\ 2 + 1 - 1 = 2 /\ 2 + 2 - 1 = 3 /\ \A i \in 1 .. 2 : i = 1 \/ i = 2
    OBVIOUS
  <2>5. Stands(Character, z, 2, 3, t)
    BY <1>1, <2>3, <2>4, Zenon DEF Stands
  <2>6. SubSeq(z, 2, 3) = t
    BY <2>5, PieceIs, Zenon
  <2> QED
    BY <1>6, <2>1, <2>6, Zenon DEF Trimmed, t
<1>9. Read(z) = <<Ini!trim_space(SubSeq(z, 2, 4 - 1)), Ini!trim_space(SubSeq(z, 4 + 1, n + 5))>>
  BY <1>6, <1>7, Zenon DEF KeyAndValue, Read
<1>10. Read(z)[1] = Ini!trim_space(SubSeq(z, 2, 4 - 1))
  <2>1. \A x, y : <<x, y>>[1] = x
    OBVIOUS
  <2> QED
    BY <1>9, <2>1, Zenon
<1>11. 4 - 1 = 3
  OBVIOUS
<1> QED
  BY <1>8, <1>10, <1>11, Zenon DEF q

\* A text that is not blank has ends.
HasEnds(t, n) == \E l \in 1 .. n : \E f \in 1 .. l : Within(t, 1, n, f, l)

Blanks(t, n) == \A i \in 1 .. n : t[i] \in Blank

LEMMA Ends == ASSUME NEW t, NEW n \in Nat, n = Len(t), ~Blanks(t, n) PROVE HasEnds(t, n)
<1> DEFINE Empty(i) == t[i] \in Blank
           Space(i) == t[i] = " "
           kept == {i \in 1 .. n : ~Empty(i)}
<1>1. kept # {}
  BY Zenon DEF Blanks
<1>2. \A i : Space(i) => Empty(i)
  BY Zenon DEF Blank
<1> HIDE DEF Empty, Space
<1>3. kept \in SUBSET (1 .. n)
  OBVIOUS
<1>4. PICK l \in kept : \A i \in kept : i <= l
  BY <1>1, <1>3, Greatest, Zenon
<1> DEFINE starts == {i \in 1 .. l : ~Space(i)}
<1>5. l \in 1 .. n /\ ~Empty(l) /\ \A i \in (l + 1) .. n : Empty(i)
  <2>1. l \in 1 .. n /\ ~Empty(l)
    BY <1>4
  <2>2. ASSUME NEW i \in (l + 1) .. n, ~Empty(i) PROVE FALSE
    <3>1. i \in 1 .. n /\ ~(i <= l)
      BY <2>1
    <3> QED
      BY <1>4, <2>2, <3>1
  <2> QED
    BY <2>1, <2>2
<1>6. starts \in SUBSET Nat /\ starts # {}
  <2>1. l \in 1 .. l /\ 1 .. l \subseteq Nat
    BY <1>5
  <2> QED
    BY <1>2, <1>5, <2>1, Zenon
<1>7. PICK f \in starts : \A i \in starts : f <= i
  BY <1>6, Least, Zenon
<1>8. f \in 1 .. l /\ ~Space(f) /\ \A i \in 1 .. (f - 1) : Space(i)
  <2>1. f \in 1 .. l /\ ~Space(f)
    BY <1>7
  <2>2. ASSUME NEW i \in 1 .. (f - 1), ~Space(i) PROVE FALSE
    <3>1. i \in 1 .. l /\ ~(f <= i)
      BY <1>5, <2>1
    <3> QED
      BY <1>7, <2>2, <3>1
  <2> QED
    BY <2>1, <2>2
<1>9. 1 \in 1 .. n /\ n \in 1 .. n
  BY <1>5
<1>10. Within(t, 1, n, f, l)
  BY <1>5, <1>8, <1>9, Zenon DEF Within, Empty, Space
<1> QED
  BY <1>5, <1>8, <1>10, Zenon DEF HasEnds

NoQuotes(t, n) == \A i \in 1 .. n : t[i] # Ini!Quote

LEMMA ThirdRead ==
  ASSUME NEW t \in Seq(Character), NEW n \in Nat, n = Len(t), NEW z, IsThird(z, t, n), NoQuotes(t, n)
  PROVE  Read(z) = <<<<"k">>, Ini!CutEnds(t)>>
<1>1. /\ z \in Seq(Character) /\ Len(z) = n + 2 /\ z[1] = "k" /\ z[2] = "="
      /\ \A i \in 1 .. n : z[2 + i] = t[i]
  BY Zenon DEF ThirdLine, IsThird
<1>2. /\ z[1] # Ini!Quote /\ z[1] \notin Blank /\ z[1] # " " /\ z[1] # "=" /\ z[2] \notin Blank
  BY <1>1, CharacterFacts, Zenon DEF Blank
<1>3. SubSeq(z, 1, n + 2) = z
  BY <1>1, Whole, Zenon
<1>4. Ini!trim_space(SubSeq(z, 1, 1)) = <<"k">>
  <2>1. 1 \in 1 .. (n + 2) /\ 1 \in 1 .. 1 /\ 1 \in Nat /\ 1 <= 1
    OBVIOUS
  <2>2. BareAt(z, 1, 1)
    BY <1>1, <1>2, <2>1, Zenon DEF BareAt
  <2>3. Trimmed(z, 1, 1, 1, 1)
    BY <1>1, <2>1, <2>2, Bare, TrimIs, Zenon
  <2>4. SubSeq(z, 1, 1) = <<z[1]>>
    BY <1>1, <2>1, OneCharacter, Zenon
  <2> QED
    BY <1>1, <1>2, <2>3, <2>4, Zenon DEF Trimmed, Quoted
<1>5. CASE Blanks(t, n)
  <2>1. Within(z, 1, n + 2, 1, 2)
    <3>1. /\ 1 \in 1 .. (n + 2) /\ n + 2 \in 1 .. (n + 2) /\ 2 \in 1 .. (n + 2) /\ 1 \in 1 .. 2
          /\ \A i \in 1 .. (1 - 1) : FALSE
      OBVIOUS
    <3>2. ASSUME NEW i \in (2 + 1) .. (n + 2) PROVE z[i] \in Blank
      <4> DEFINE j == i - 2
      <4>1. j \in 1 .. n /\ 2 + j = i
        OBVIOUS
      <4> HIDE DEF j
      <4> QED
        BY <1>1, <1>5, <4>1, Zenon DEF Blanks
    <3> QED
      BY <1>1, <1>2, <3>1, <3>2, Zenon DEF Within
  <2>2. FirstEqual(z, 1, 2, 2)
    <3>1. 1 \in 1 .. (n + 2) /\ 2 \in 1 .. (n + 2) /\ 2 \in 1 .. 2 /\ \A i \in 1 .. (2 - 1) : i = 1
      OBVIOUS
    <3> QED
      BY <1>1, <1>2, <3>1, Zenon DEF FirstEqual
  <2>3. Trimmed(z, 1, n + 2, 1, 2) /\ KeyAndValue(z, 1, 2, 2)
    BY <1>1, <2>1, <2>2, TrimIs, PairIs, Zenon
  <2>4. Ini!trim_space(z) = SubSeq(z, 1, 2)
    BY <1>2, <1>3, <2>3, Zenon DEF Trimmed, Quoted
  <2>5. Read(z) = <<Ini!trim_space(SubSeq(z, 1, 2 - 1)), Ini!trim_space(SubSeq(z, 2 + 1, 2))>>
    BY <2>3, <2>4, Zenon DEF KeyAndValue, Read
  <2>6. SubSeq(z, 2 + 1, 2) = <<>>
    <3>1. 2 \in Nat
      OBVIOUS
    <3> QED
      BY <1>1, <3>1, EmptyPiece, Zenon
  <2>7. Ini!CutEnds(t) = <<>>
    BY <1>5, BlankCut, Zenon DEF Blanks
  <2>8. 2 - 1 = 1
    OBVIOUS
  <2> QED
    BY <1>4, <2>5, <2>6, <2>7, <2>8, EmptyTrim, Zenon
<1>6. CASE ~Blanks(t, n)
  <2>1. PICK l \in 1 .. n : \E f \in 1 .. l : Within(t, 1, n, f, l)
    BY <1>6, Ends, Zenon DEF HasEnds
  <2>2. PICK f \in 1 .. l : Within(t, 1, n, f, l)
    BY <2>1
  <2>3. /\ t[f] # " " /\ \A i \in 1 .. (f - 1) : t[i] = " "
        /\ t[l] \notin Blank /\ \A i \in (l + 1) .. n : t[i] \in Blank
    BY <2>2, Zenon DEF Within
  <2>4. Ini!CutEnds(t) = SubSeq(t, f, l)
    <3>1. CutTo(t, 1, n, f, l)
      BY <2>2, CutEndsIs, Zenon
    <3>2. SubSeq(t, 1, n) = t
      BY Whole, Zenon
    <3> QED
      BY <3>1, <3>2, Zenon DEF CutTo
  <2>5. z[f + 2] = t[f] /\ z[l + 2] = t[l]
    <3>1. f \in 1 .. n /\ 2 + f = f + 2 /\ 2 + l = l + 2
      OBVIOUS
    <3> QED
      BY <1>1, <3>1, Zenon
  <2>6. Within(z, 1, n + 2, 1, l + 2)
    <3>1. /\ 1 \in 1 .. (n + 2) /\ n + 2 \in 1 .. (n + 2) /\ l + 2 \in 1 .. (n + 2) /\ 1 \in 1 .. (l + 2)
          /\ \A i \in 1 .. (1 - 1) : FALSE
      OBVIOUS
    <3>2. ASSUME NEW i \in (l + 2 + 1) .. (n + 2) PROVE z[i] \in Blank
      <4> DEFINE j == i - 2
      <4>1. j \in 1 .. n /\ j \in (l + 1) .. n /\ 2 + j = i
        OBVIOUS
      <4> HIDE DEF j
      <4> QED
        BY <1>1, <2>3, <4>1, Zenon
    <3> QED
      BY <1>1, <1>2, <2>3, <2>5, <3>1, <3>2, Zenon DEF Within
  <2>7. FirstEqual(z, 1, l + 2, 2)
    <3>1. /\ 1 \in 1 .. (n + 2) /\ l + 2 \in 1 .. (n + 2) /\ 2 \in 1 .. (l + 2)
          /\ \A i \in 1 .. (2 - 1) : i = 1
      OBVIOUS
    <3> QED
      BY <1>1, <1>2, <3>1, Zenon DEF FirstEqual
  <2>8. Within(z, 3, l + 2, f + 2, l + 2)
    <3>1. /\ 3 \in 1 .. (n + 2) /\ l + 2 \in 3 .. (n + 2) /\ l + 2 \in 3 .. (l + 2) /\ f + 2 \in 3 .. (l + 2)
          /\ \A i \in (l + 2 + 1) .. (l + 2) : FALSE
      OBVIOUS
    <3>2. ASSUME NEW i \in 3 .. ((f + 2) - 1) PROVE z[i] = " "
      <4> DEFINE j == i - 2
      <4>1. j \in 1 .. n /\ j \in 1 .. (f - 1) /\ 2 + j = i
        OBVIOUS
      <4> HIDE DEF j
      <4> QED
        BY <1>1, <2>3, <4>1, Zenon
    <3>3. z[f + 2] # " " /\ z[l + 2] \notin Blank
      BY <2>3, <2>5, Zenon
    <3> QED
      BY <1>1, <3>1, <3>2, <3>3, Zenon DEF Within
  <2>9. /\ Trimmed(z, 1, n + 2, 1, l + 2) /\ KeyAndValue(z, 1, l + 2, 2)
        /\ Trimmed(z, 3, l + 2, f + 2, l + 2)
    BY <1>1, <2>6, <2>7, <2>8, TrimIs, PairIs, Zenon
  <2>10. Ini!trim_space(z) = SubSeq(z, 1, l + 2)
    BY <1>2, <1>3, <2>9, Zenon DEF Trimmed, Quoted
  <2>11. Read(z) = <<Ini!trim_space(SubSeq(z, 1, 2 - 1)), Ini!trim_space(SubSeq(z, 2 + 1, l + 2))>>
    BY <2>9, <2>10, Zenon DEF KeyAndValue, Read
  <2>12. Ini!trim_space(SubSeq(z, 3, l + 2)) = SubSeq(z, f + 2, l + 2)
    <3>1. f \in 1 .. n
      OBVIOUS
    <3>2. z[f + 2] # Ini!Quote
      BY <2>5, <3>1, Zenon DEF NoQuotes
    <3> QED
      BY <2>9, <3>2, Zenon DEF Trimmed, Quoted
  <2>13. SubSeq(z, f + 2, l + 2) = SubSeq(t, f, l)
    <3> DEFINE w == SubSeq(t, f, l)
    <3>1. /\ f \in 1 .. n /\ l \in Nat /\ l <= n /\ f <= l + 1 /\ l + 2 - (f + 2) + 1 = l - f + 1
          /\ f + 2 \in 1 .. (n + 2) /\ l + 2 \in Nat /\ l + 2 <= n + 2 /\ f + 2 <= l + 2 + 1
      OBVIOUS
    <3>2. CutIs(Character, t, f, l)
      BY <3>1, Cut, Zenon
    <3>3. w \in Seq(Character) /\ Len(w) = l - f + 1 /\ \A i \in 1 .. (l - f + 1) : w[i] = t[f + i - 1]
      BY <3>2, Zenon DEF CutIs
    <3> HIDE DEF w
    <3>4. ASSUME NEW i \in 1 .. (l - f + 1) PROVE z[f + 2 + i - 1] = w[i]
      <4> DEFINE j == f + i - 1
      <4>1. j \in 1 .. n /\ 2 + j = f + 2 + i - 1
        BY <3>1
      <4>2. w[i] = t[j]
        BY <3>3
      <4> HIDE DEF j
      <4> QED
        BY <1>1, <4>1, <4>2, Zenon
    <3>5. Len(w) = l + 2 - (f + 2) + 1 /\ \A i \in 1 .. (l + 2 - (f + 2) + 1) : z[f + 2 + i - 1] = w[i]
      BY <3>1, <3>3, <3>4, Zenon
    <3>6. f + 2 \in 1 .. Len(z) /\ l + 2 <= Len(z)
      BY <1>1, <3>1, Zenon
    <3>7. z \in Seq(Character)
      BY <1>1, Zenon
    <3>8. Stands(Character, z, f + 2, l + 2, w)
      BY <3>1, <3>3, <3>5, <3>6, <3>7, SMT DEF Stands
    <3> QED
      BY <3>8, PieceIs, Zenon DEF w
  <2>14. 2 - 1 = 1 /\ 2 + 1 = 3
    OBVIOUS
  <2> QED
    BY <1>4, <2>4, <2>11, <2>12, <2>13, <2>14, Zenon
<1> QED
  BY <1>5, <1>6, Zenon

\* PairReadsBack: a value between quotes comes back whatever it contains, a plain one without
\* the blanks at its ends, and a key in quotes keeps one of them; of any length.
THEOREM PairsReadBack == Spec => []PairReadsBack
<1>1. ASSUME NEW t \in Seq(Character)
      PROVE  /\ Read(<<" ">> \o <<"k">> \o <<" ", "=", " ">> \o (<<Ini!Quote>> \o t \o <<Ini!Quote>>)
                       \o <<" ", "CR">>) = <<<<"k">>, t>>
             /\ Read(<<Ini!Quote, "k", Ini!Quote, "=">> \o (<<Ini!Quote>> \o t \o <<Ini!Quote>>))[1]
                  = <<"k", Ini!Quote>>
             /\ NoQuotes(t, Len(t)) => Read(<<"k">> \o <<"=">> \o t) = <<<<"k">>, Ini!CutEnds(t)>>
  <2> DEFINE n == Len(t)
             q == Ini!Quote
             x == <<" ">> \o <<"k">> \o <<" ", "=", " ">> \o (<<q>> \o t \o <<q>>) \o <<" ", "CR">>
             y == <<q, "k", q, "=">> \o (<<q>> \o t \o <<q>>)
             z == <<"k">> \o <<"=">> \o t
  <2>1. n \in Nat /\ n = Len(t) /\ q \in Character
    BY LenProperties, CharacterFacts, Zenon
  <2> HIDE DEF n
  <2>2. IsFirst(x, t, n)
    BY <2>1, FirstLineIs, CharacterFacts, Zenon DEF IsFirst
  <2>3. IsSecond(y, n)
    BY <2>1, SecondLineIs, CharacterFacts, Zenon DEF IsSecond
  <2>4. IsThird(z, t, n)
    BY <2>1, ThirdLineIs, CharacterFacts, Zenon DEF IsThird
  <2> HIDE DEF x, y, z
  <2>5. Read(x) = <<<<"k">>, t>>
    BY <2>1, <2>2, FirstRead, Zenon
  <2>6. Read(y)[1] = <<"k", q>>
    BY <2>1, <2>3, SecondRead, Zenon
  <2>7. NoQuotes(t, n) => Read(z) = <<<<"k">>, Ini!CutEnds(t)>>
    BY <2>1, <2>4, ThirdRead, Zenon
  <2> QED
    BY <2>5, <2>6, <2>7, Zenon DEF n, x, y, z
<1>2. ASSUME TextInv, subject = "value" PROVE text \in Seq(Character)
  <2>1. Alphabet["value"] \subseteq Character
    BY Zenon DEF Character, Alphabet
  <2>2. text \in Seq(Alphabet["value"])
    BY <1>2, Zenon DEF TextInv
  <2> QED
    BY <2>1, <2>2, SeqMonotonic, Zenon
<1>3. ASSUME "\"" \notin {text[i] : i \in DOMAIN text}, text \in Seq(Character) PROVE NoQuotes(text, Len(text))
  <2>1. DOMAIN text = 1 .. Len(text)
    BY <1>3, LenProperties, Zenon
  <2> QED
    BY <1>3, <2>1, Zenon DEF NoQuotes, Ini!Quote
<1>4. TextInv => PairReadsBack
  <2> SUFFICES ASSUME TextInv, subject = "value" PROVE PairReadsBack
    BY Zenon DEF PairReadsBack
  <2>1. text \in Seq(Character)
    BY <1>2, Zenon
  <2> QED
    BY <1>1, <1>3, <2>1, Zenon DEF PairReadsBack, Read, Ini!Quote
<1> QED
  BY <1>4, Texts, PTL

-----------------------------------------------------------------------------
(***************************************************************************)
(* A file of settings.                                                     *)
(***************************************************************************)
Kind(t, i) == Ini!judge_type(Ini!trim_space(t[i]))
PairOf(t, i) == Read(t[i])
Openers(t, i) == {h \in 1 .. (i - 1) : Kind(t, h) = "section"}
SectionOf(t, i) == IF Openers(t, i) = {} THEN <<>>
                   ELSE Ini!get_section_name(Ini!trim_space(t[Ini!Greatest(Openers(t, i))]))
Setters(t, n) == {i \in 1 .. n : Kind(t, i) = "pair"}
NamesOf(t, i) == <<SectionOf(t, i), PairOf(t, i)[1]>>
Triple(t, i) == <<SectionOf(t, i), PairOf(t, i)[1], PairOf(t, i)[2]>>
Lasting(t, n) == {h \in Setters(t, n) : \A j \in Setters(t, n) : j > h => NamesOf(t, j) # NamesOf(t, h)}

\* What the reader has after n lines.
After(t, n) == [section |-> SectionOf(t, n + 1), values |-> {Triple(t, i) : i \in Lasting(t, n)}]

\* A line that sets nothing, and one that does.
LEMMA Unset ==
  ASSUME NEW t, NEW n \in Nat, Kind(t, n + 1) # "pair" PROVE Lasting(t, n + 1) = Lasting(t, n)
<1>1. Setters(t, n + 1) = Setters(t, n)
  BY DEF Setters
<1> QED
  BY <1>1 DEF Lasting

LEMMA Unopened ==
  ASSUME NEW t, NEW n \in Nat, Kind(t, n + 1) # "section"
  PROVE  SectionOf(t, n + 2) = SectionOf(t, n + 1)
<1>1. Openers(t, n + 2) = Openers(t, n + 1)
  BY DEF Openers
<1> QED
  BY <1>1 DEF SectionOf

LEMMA Opening ==
  ASSUME NEW t, NEW n \in Nat, Kind(t, n + 1) = "section"
  PROVE  SectionOf(t, n + 2) = Ini!get_section_name(Ini!trim_space(t[n + 1]))
<1> DEFINE O == Openers(t, n + 2)
<1>1. O \in SUBSET Int /\ n + 1 \in O /\ \A i \in O : i <= n + 1
  BY DEF Openers
<1> HIDE DEF O
<1>2. Ini!Greatest(O) = n + 1
  BY <1>1, TheGreatest
<1> QED
  BY <1>1, <1>2 DEF SectionOf, O

LEMMA Setting ==
  ASSUME NEW t, NEW n \in Nat, Kind(t, n + 1) = "pair"
  PROVE  Lasting(t, n + 1) = {h \in Lasting(t, n) : NamesOf(t, h) # NamesOf(t, n + 1)} \union {n + 1}
<1> DEFINE S == Setters(t, n)
           N(i) == NamesOf(t, i)
<1>1. Setters(t, n + 1) = S \union {n + 1} /\ \A i \in S : i \in Nat /\ i < n + 1
  BY DEF Setters
<1>2. /\ Lasting(t, n + 1) = {h \in Setters(t, n + 1) : \A j \in Setters(t, n + 1) : j > h => N(j) # N(h)}
      /\ Lasting(t, n) = {h \in S : \A j \in S : j > h => N(j) # N(h)}
  BY DEF Lasting
<1> HIDE DEF S, N
<1>3. ASSUME NEW h \in S
      PROVE  (\A j \in S \union {n + 1} : j > h => N(j) # N(h))
               <=> (\A j \in S : j > h => N(j) # N(h)) /\ N(h) # N(n + 1)
  BY <1>1
<1>4. \A j \in S \union {n + 1} : ~(j > n + 1)
  BY <1>1
<1>5. Lasting(t, n + 1) = {h \in Lasting(t, n) : N(h) # N(n + 1)} \union {n + 1}
  BY <1>1, <1>2, <1>3, <1>4
<1> QED
  BY <1>5 DEF N

LEMMA LineRead ==
  ASSUME NEW t, NEW n \in Nat PROVE Ini!ReadLine(After(t, n), t[n + 1]) = After(t, n + 1)
<1> DEFINE a == After(t, n)
           i == n + 1
           line == Ini!trim_space(t[i])
<1>1. a = [section |-> SectionOf(t, i), values |-> {Triple(t, h) : h \in Lasting(t, n)}]
  BY DEF After
<1>2. After(t, i) = [section |-> SectionOf(t, n + 2), values |-> {Triple(t, h) : h \in Lasting(t, i)}]
  <2>1. i + 1 = n + 2
    OBVIOUS
  <2> QED
    BY <2>1 DEF After
<1>3. CASE Kind(t, i) = "section"
  <2>1. Ini!ReadLine(a, t[i]) = [a EXCEPT !.section = Ini!get_section_name(line)]
    BY <1>3 DEF Ini!ReadLine, Kind
  <2>2. Lasting(t, i) = Lasting(t, n)
    BY <1>3, Unset
  <2>3. SectionOf(t, n + 2) = Ini!get_section_name(line)
    BY <1>3, Opening
  <2> QED
    BY <1>1, <1>2, <2>1, <2>2, <2>3
<1>4. CASE Kind(t, i) = "pair"
  <2> DEFINE c == Triple(t, i)
             V == {Triple(t, h) : h \in Lasting(t, n)}
  <2>1. Ini!ReadLine(a, t[i]) =
          [a EXCEPT !.values = {v \in @ : <<v[1], v[2]>> # <<a.section, PairOf(t, i)[1]>>}
                                 \union {<<a.section, PairOf(t, i)[1], PairOf(t, i)[2]>>}]
    BY <1>4 DEF Ini!ReadLine, Kind, PairOf, Read
  <2>2. SectionOf(t, n + 2) = SectionOf(t, i)
    BY <1>4, Unopened
  <2>3. Ini!ReadLine(a, t[i]) =
          [section |-> SectionOf(t, i), values |-> {v \in V : <<v[1], v[2]>> # NamesOf(t, i)} \union {c}]
    <3> DEFINE p == PairOf(t, i)
               W == {v \in V : <<v[1], v[2]>> # <<SectionOf(t, i), p[1]>>} \union {<<SectionOf(t, i), p[1], p[2]>>}
    <3>1. a.section = SectionOf(t, i) /\ a.values = V
      BY <1>1
    <3> HIDE DEF a, V
    <3>2. Ini!ReadLine(a, t[i]) = [a EXCEPT !.values = W]
      BY <2>1, <3>1, Zenon
    <3> HIDE DEF W
    <3>3. [a EXCEPT !.values = W] = [section |-> SectionOf(t, i), values |-> W]
      BY <1>1
    <3> QED
      BY <3>2, <3>3, Zenon DEF W, NamesOf, Triple
  <2>4. \A h : <<Triple(t, h)[1], Triple(t, h)[2]>> = NamesOf(t, h)
    BY DEF Triple, NamesOf
  <2>5. Lasting(t, i) = {h \in Lasting(t, n) : NamesOf(t, h) # NamesOf(t, i)} \union {i}
    BY <1>4, Setting
  <2>6. {v \in V : <<v[1], v[2]>> # NamesOf(t, i)} \union {c} = {Triple(t, h) : h \in Lasting(t, i)}
    BY <2>4, <2>5, Zenon
  <2> QED
    BY <1>2, <2>2, <2>3, <2>6
<1>5. CASE Kind(t, i) \notin {"section", "pair"}
  <2>1. Ini!ReadLine(a, t[i]) = a
    BY <1>5 DEF Ini!ReadLine, Kind
  <2>2. Lasting(t, i) = Lasting(t, n) /\ SectionOf(t, n + 2) = SectionOf(t, i)
    BY <1>5, Unset, Unopened
  <2> QED
    BY <1>1, <1>2, <2>1, <2>2
<1> QED
  BY <1>3, <1>4, <1>5

\* What is read from a file, as a function on its lines.
Reading(t, N) ==
  LET Parsed[n \in 0 .. N] ==
        IF n = 0 THEN [section |-> <<>>, values |-> {}] ELSE Ini!ReadLine(Parsed[n - 1], t[n])
  IN  Parsed

LEMMA FileRead == ASSUME NEW t, NEW N \in Nat PROVE Reading(t, N)[N] = After(t, N)
<1> DEFINE start == [section |-> <<>>, values |-> {}]
           read == Reading(t, N)
           Reads(g) == g = [n \in 0 .. N |-> IF n = 0 THEN start ELSE Ini!ReadLine(g[n - 1], t[n])]
           f == [n \in 0 .. N |-> After(t, n)]
<1>1. After(t, 0) = start
  <2>1. Openers(t, 0 + 1) = {} /\ Lasting(t, 0) = {}
    BY DEF Openers, Lasting, Setters
  <2>2. SectionOf(t, 0 + 1) = <<>>
    BY <2>1 DEF SectionOf
  <2> QED
    BY <2>1, <2>2 DEF After
<1>2. ASSUME NEW n \in 0 .. N, n # 0 PROVE After(t, n) = Ini!ReadLine(After(t, n - 1), t[n])
  <2>1. n - 1 \in Nat /\ (n - 1) + 1 = n
    BY <1>2
  <2> QED
    BY <2>1, LineRead, Zenon
<1> HIDE DEF start
<1>3. Reads(f)
  <2>1. \A n \in 0 .. N : f[n] = IF n = 0 THEN start ELSE Ini!ReadLine(f[n - 1], t[n])
    <3> SUFFICES ASSUME NEW n \in 0 .. N
                 PROVE  f[n] = IF n = 0 THEN start ELSE Ini!ReadLine(f[n - 1], t[n])
      OBVIOUS
    <3>1. n # 0 => n - 1 \in 0 .. N
      OBVIOUS
    <3> QED
      BY <1>1, <1>2, <3>1
  <2>2. f = [n \in 0 .. N |-> f[n]]
    OBVIOUS
  <2> HIDE DEF f
  <2> QED
    BY <2>1, <2>2
<1>4. \A n \in 0 .. N : f[n] = After(t, n)
  OBVIOUS
<1> HIDE DEF f
<1>5. Reads(read)
  <2>1. read = CHOOSE g : Reads(g)
    BY DEF Reading, start
  <2> HIDE DEF read
  <2> QED
    BY <1>3, <2>1
<1> HIDE DEF read
<1> DEFINE Wrong == {n \in 0 .. N : f[n] # read[n]}
<1>6. Wrong = {}
  <2> SUFFICES ASSUME Wrong # {} PROVE FALSE
    OBVIOUS
  <2>1. Wrong \in SUBSET Nat
    OBVIOUS
  <2>2. PICK n \in Wrong : \A j \in Wrong : n <= j
    BY <2>1, Least
  <2>3. n = 0 \/ (n - 1 \in 0 .. N /\ n - 1 \notin Wrong)
    BY <2>2
  <2>4. read[n] = IF n = 0 THEN start ELSE Ini!ReadLine(read[n - 1], t[n])
    BY <1>5
  <2>5. f[n] = IF n = 0 THEN start ELSE Ini!ReadLine(f[n - 1], t[n])
    BY <1>3
  <2> QED
    BY <2>2, <2>3, <2>4, <2>5
<1>7. N \in 0 .. N
  OBVIOUS
<1> QED
  BY <1>4, <1>6, <1>7 DEF read

\* LastValueStays: the values of a file are those that are last set, for any file.
THEOREM TheLastValueStays == Spec => []LastValueStays
<1>1. ASSUME NEW t \in Seq(Lines)
      PROVE  Ini!ParseIni(t) = {Triple(t, i) : i \in Lasting(t, Len(t))}
  <2>1. Len(t) \in Nat
    BY LenProperties, Zenon
  <2>2. Ini!ParseIni(t) = Reading(t, Len(t))[Len(t)].values
    BY DEF Ini!ParseIni, Reading
  <2>3. Ini!ParseIni(t) = After(t, Len(t)).values
    BY <2>1, <2>2, FileRead, Zenon
  <2> QED
    BY <2>3 DEF After
<1>2. ASSUME TextInv, subject = "file" PROVE text \in Seq(Lines)
  <2>1. Alphabet["file"] = Lines
    BY Zenon DEF Alphabet
  <2> QED
    BY <1>2, <2>1, Zenon DEF TextInv
<1>3. TextInv => LastValueStays
  <2> SUFFICES ASSUME TextInv, subject = "file" PROVE LastValueStays
    BY Zenon DEF LastValueStays
  <2>1. text \in Seq(Lines)
    BY <1>2, Zenon
  <2>2. DOMAIN text = 1 .. Len(text)
    BY <2>1, LenProperties, Zenon
  <2>3. Ini!ParseIni(text) = {Triple(text, i) : i \in Lasting(text, Len(text))}
    BY <1>1, <2>1, Zenon
  <2> QED
    BY <2>2, <2>3, Zenon DEF LastValueStays, Triple, Lasting, Setters, NamesOf, SectionOf, Openers, PairOf, Read, Kind
<1> QED
  BY <1>3, Texts, PTL

-----------------------------------------------------------------------------
(***************************************************************************)
(* Numbers and messages.                                                   *)
(***************************************************************************)
\* The number that serial_message has made of the first i bytes.
NumOf(s) == CHOOSE f : f = [i \in 0 .. Len(s) |-> IF i = 0 THEN 0 ELSE 256 * f[i - 1] + s[i]]

NumShape(s, n, f) ==
  /\ serial_message(s) = f[n] /\ f[0] = 0 /\ \A i \in 0 .. n : f[i] \in Nat
  /\ \A i \in 1 .. n : f[i] = 256 * f[i - 1] + s[i]

LEMMA NumIs ==
  ASSUME NEW s \in Seq(Byte), NEW n \in Nat, n = Len(s)
  PROVE  NumShape(s, n, NumOf(s))
<1> DEFINE N == 0 .. n
           down == [k \in N |-> IF k = 0 THEN 0 ELSE k - 1]
           step == [x \in N \X Nat |-> IF x[1] = 0 THEN 0 ELSE 256 * x[2] + s[x[1]]]
           f == NumOf(s)
<1>1. N \in SUBSET Nat /\ 0 \in N /\ down \in [N -> N] /\ \A k \in N : k # 0 => down[k] < k
  <2>1. N \in SUBSET Nat /\ 0 \in N
    OBVIOUS
  <2>2. \A k \in N : (IF k = 0 THEN 0 ELSE k - 1) \in N
    OBVIOUS
  <2>3. \A k \in N : k # 0 => k - 1 < k
    OBVIOUS
  <2> HIDE DEF N
  <2> QED
    BY <2>1, <2>2, <2>3
<1>2. \A k \in 1 .. n : s[k] \in Byte /\ s[k] \in Nat
  <2>1. \A k \in 1 .. n : s[k] \in Byte
    BY ElementOfSeq, Zenon
  <2>2. \A b \in Byte : b \in Nat
    BY DEF Byte
  <2> QED
    BY <2>1, <2>2, Zenon
<1>3. step \in [N \X Nat -> Nat]
  <2>1. ASSUME NEW x \in N \X Nat PROVE (IF x[1] = 0 THEN 0 ELSE 256 * x[2] + s[x[1]]) \in Nat
    <3>1. x[2] \in Nat /\ x[1] \in N
      OBVIOUS
    <3>2. x[1] # 0 => x[1] \in 1 .. n
      BY <3>1
    <3>3. x[1] # 0 => s[x[1]] \in Nat
      BY <1>2, <3>2
    <3> QED
      BY <3>1, <3>3
  <2> QED
    BY <2>1
<1>4. \A k \in 1 .. n, v \in Nat : down[k] = k - 1 /\ k - 1 \in N /\ k \in N /\ step[<<k, v>>] = 256 * v + s[k]
  OBVIOUS
<1> HIDE DEF down, step
<1>5. PICK g \in [N -> Nat] : Follows(N, 0, down, step, g)
  <2> HIDE DEF N
  <2> QED
    BY <1>1, <1>3, Recursion
<1>6. g = [i \in 0 .. n |-> IF i = 0 THEN 0 ELSE 256 * g[i - 1] + s[i]]
  <2>1. ASSUME NEW k \in N PROVE g[k] = IF k = 0 THEN 0 ELSE 256 * g[k - 1] + s[k]
    <3>1. g[k] = IF k = 0 THEN 0 ELSE step[<<k, g[down[k]]>>]
      BY <1>5, Zenon DEF Follows
    <3>2. CASE k = 0
      BY <3>1, <3>2
    <3>3. CASE k # 0
      <4>1. k \in 1 .. n
        BY <3>3
      <4>2. g[k - 1] \in Nat
        BY <1>4, <4>1
      <4>3. g[k] = step[<<k, g[k - 1]>>]
        BY <1>4, <3>1, <3>3, <4>1, Zenon
      <4>4. step[<<k, g[k - 1]>>] = 256 * g[k - 1] + s[k]
        BY <1>4, <4>1, <4>2
      <4> QED
        BY <3>3, <4>3, <4>4
    <3> QED
      BY <3>2, <3>3
  <2> QED
    BY <2>1
<1>7. f = [i \in 0 .. n |-> IF i = 0 THEN 0 ELSE 256 * f[i - 1] + s[i]]
  BY <1>6 DEF NumOf
<1> HIDE DEF f
<1>8. f[0] = 0 /\ \A i \in 1 .. n : f[i] = 256 * f[i - 1] + s[i]
  BY <1>7
<1> DEFINE S == {k \in Nat : k <= n => f[k] \in Nat}
<1>9. 0 \in S
  BY <1>8
<1>10. ASSUME NEW k \in S PROVE k + 1 \in S
  <2>1. SUFFICES ASSUME k + 1 <= n PROVE f[k + 1] \in Nat
    OBVIOUS
  <2>2. k \in Nat /\ k + 1 \in 1 .. n /\ (k + 1) - 1 = k /\ f[k] \in Nat
    BY <2>1
  <2>3. f[k + 1] = 256 * f[k] + s[k + 1]
    BY <1>8, <2>2
  <2> QED
    BY <1>2, <2>2, <2>3
<1>11. \A k \in Nat : k \in S
  <2> HIDE DEF S
  <2> QED
    BY <1>9, <1>10, Induct DEF S
<1>12. \A i \in 0 .. n : f[i] \in Nat
  BY <1>11
<1>13. serial_message(s) = f[n]
  BY Zenon DEF serial_message, f, NumOf
<1> QED
  BY <1>8, <1>12, <1>13 DEF NumShape, f

LEMMA SerialIs ==
  ASSUME NEW s \in Seq(Byte), NEW b \in Byte
  PROVE  /\ serial_message(s) \in Nat /\ serial_message(<<>>) = 0
         /\ serial_message(Append(s, b)) = 256 * serial_message(s) + b
<1> DEFINE n == Len(s)
           t == Append(s, b)
           f == NumOf(s)
           g == NumOf(t)
<1>1. /\ n \in Nat /\ t \in Seq(Byte) /\ Len(t) = n + 1 /\ t[n + 1] = b
      /\ \A i \in 1 .. n : t[i] = s[i]
  OBVIOUS
<1>2. NumShape(s, n, f) /\ NumShape(t, n + 1, g)
  <2>1. n + 1 \in Nat
    BY <1>1
  <2> HIDE DEF t
  <2>2. NumShape(s, n, f)
    BY <1>1, NumIs, Zenon
  <2>3. NumShape(t, n + 1, g)
    BY <1>1, <2>1, NumIs, Zenon
  <2> QED
    BY <2>2, <2>3
<1>3. serial_message(<<>>) = 0
  <2>1. <<>> \in Seq(Byte) /\ 0 = Len(<<>>)
    OBVIOUS
  <2> HIDE DEF t, f, g, n
  <2>2. NumShape(<<>>, 0, NumOf(<<>>))
    BY <2>1, NumIs, Zenon
  <2> QED
    BY <2>2, Zenon DEF NumShape
<1> HIDE DEF t, f, g, n
<1>4. \A i \in 1 .. n : f[i] = 256 * f[i - 1] + s[i]
  BY <1>2, Zenon DEF NumShape
<1>5. \A i \in 1 .. (n + 1) : g[i] = 256 * g[i - 1] + t[i]
  BY <1>2, Zenon DEF NumShape
<1> DEFINE S == {k \in Nat : k <= n => g[k] = f[k]}
<1>6. 0 \in S
  BY <1>2 DEF NumShape
<1>7. ASSUME NEW k \in S PROVE k + 1 \in S
  <2>1. SUFFICES ASSUME k + 1 <= n PROVE g[k + 1] = f[k + 1]
    OBVIOUS
  <2>2. k \in Nat /\ (k <= n => g[k] = f[k]) /\ n \in Nat
    BY <1>1
  <2>3. k \in Nat /\ k + 1 \in 1 .. n /\ k + 1 \in 1 .. (n + 1) /\ (k + 1) - 1 = k /\ g[k] = f[k]
    BY <2>2, <2>1
  <2>4. f[k + 1] = 256 * f[(k + 1) - 1] + s[k + 1]
    BY <1>4, <2>3, Zenon
  <2>5. g[k + 1] = 256 * g[(k + 1) - 1] + t[k + 1]
    BY <1>5, <2>3, Zenon
  <2>6. t[k + 1] = s[k + 1]
    BY <1>1, <2>3, Zenon
  <2> QED
    BY <2>3, <2>4, <2>5, <2>6, Zenon
<1>8. \A k \in Nat : k \in S
  <2> HIDE DEF S
  <2> QED
    BY <1>6, <1>7, Induct DEF S
<1>9. g[n] = f[n]
  BY <1>1, <1>8
<1>10. n + 1 \in 1 .. (n + 1) /\ (n + 1) - 1 = n /\ n \in 0 .. n
  BY <1>1
<1>11. g[n + 1] = 256 * g[n] + t[n + 1]
  BY <1>2, <1>10, Zenon DEF NumShape
<1> QED
  BY <1>1, <1>2, <1>3, <1>9, <1>10, <1>11 DEF NumShape, t

\* The bytes that parse_message has taken off, for every number.
IsTable(f) == f = [n \in Nat |-> IF n = 0 THEN <<>> ELSE <<n % 256>> \o f[n \div 256]]

LEMMA Halving ==
  ASSUME NEW n \in Nat, n > 0, NEW b \in Nat, b > 1
  PROVE  n \div b \in Nat /\ n \div b < n /\ n = b * (n \div b) + (n % b) /\ n % b \in 0 .. b - 1
<1>1. n = b * (n \div b) + (n % b) /\ n \div b \in Nat /\ n % b \in 0 .. b - 1
  BY Division
<1> DEFINE q == n \div b  r == n % b
<1> HIDE DEF q, r
<1>2. n = b * q + r /\ q \in Nat /\ r \in 0 .. b - 1
  BY <1>1 DEF q, r
<1>3. CASE q = 0
  BY <1>1, <1>3 DEF q
<1>4. CASE q > 0
  <2>1. q * 1 + q <= q * b
    BY <1>2, <1>4, ProductGrows
  <2>2. q * b = b * q /\ q * b \in Nat /\ q * 1 = q
    BY <1>2, ProductNat
  <2>3. q < n
    BY <1>2, <1>4, <2>1, <2>2
  <2> QED
    BY <1>1, <2>3 DEF q
<1> QED
  BY <1>2, <1>3, <1>4

LEMMA BytesAre256 ==
  ASSUME NEW n \in Nat
  PROVE  /\ BytesOf(n) \in Seq(Byte) /\ BytesOf(0) = <<>>
         /\ n > 0 => BytesOf(n) = <<n % 256>> \o BytesOf(n \div 256)
<1> DEFINE down == [k \in Nat |-> k \div 256]
           V == Seq(Byte)
           step == [x \in Nat \X V |-> <<x[1] % 256>> \o x[2]]
           f == CHOOSE f : IsTable(f)
<1>1. Nat \in SUBSET Nat /\ 0 \in Nat /\ <<>> \in V
  OBVIOUS
<1>2. down \in [Nat -> Nat] /\ \A k \in Nat : down[k] = k \div 256
  OBVIOUS
<1>3. \A k \in Nat : k # 0 => down[k] < k
  <2> HIDE DEF down
  <2> SUFFICES ASSUME NEW k \in Nat, k # 0 PROVE down[k] < k
    OBVIOUS
  <2>1. k > 0 /\ 256 \in Nat /\ 256 > 1
    OBVIOUS
  <2>2. k \div 256 < k
    BY <2>1, Halving
  <2> QED
    BY <1>2, <2>2
<1>4. ASSUME NEW k \in Nat, NEW s \in V PROVE <<k % 256>> \o s \in V
  <2>1. k % 256 \in Byte
    BY DEF Byte
  <2>2. <<k % 256>> \in Seq(Byte)
    BY <2>1
  <2> QED
    BY <2>2, ConcatProperties
<1>5. step \in [Nat \X V -> V] /\ \A k \in Nat, s \in V : step[<<k, s>>] = <<k % 256>> \o s
  <2>1. \A x \in Nat \X V : x[1] \in Nat /\ x[2] \in V
    BY Zenon
  <2> HIDE DEF V
  <2>2. \A x \in Nat \X V : <<x[1] % 256>> \o x[2] \in V
    BY <1>4, <2>1, Zenon
  <2>3. step \in [Nat \X V -> V]
    BY <2>2, Zenon
  <2>4. \A k \in Nat, s \in V : <<k, s>> \in Nat \X V /\ <<k, s>>[1] = k /\ <<k, s>>[2] = s
    OBVIOUS
  <2>5. ASSUME NEW k \in Nat, NEW s \in V PROVE step[<<k, s>>] = <<k % 256>> \o s
    <3> DEFINE x == <<k, s>>
    <3>1. x \in Nat \X V /\ x[1] = k /\ x[2] = s
      BY <2>4
    <3> HIDE DEF x
    <3>2. step[x] = <<x[1] % 256>> \o x[2]
      BY <3>1, Zenon
    <3> QED
      BY <3>1, <3>2, Zenon DEF x
  <2> QED
    BY <2>3, <2>5
<1> HIDE DEF V, down, step
<1>6. PICK g \in [Nat -> V] : Follows(Nat, <<>>, down, step, g)
  BY <1>1, <1>2, <1>3, <1>5, Recursion
<1>7. IsTable(g)
  <2>1. ASSUME NEW k \in Nat PROVE (IF k = 0 THEN <<>> ELSE step[<<k, g[down[k]]>>])
                                     = IF k = 0 THEN <<>> ELSE <<k % 256>> \o g[k \div 256]
    <3>1. down[k] = k \div 256 /\ down[k] \in Nat
      BY <1>2, Zenon
    <3>2. g[down[k]] \in V
      BY <3>1, Zenon
    <3>3. step[<<k, g[down[k]]>>] = <<k % 256>> \o g[down[k]]
      BY <1>5, <3>2, Zenon
    <3> QED
      BY <3>1, <3>3, Zenon
  <2>2. g = [k \in Nat |-> IF k = 0 THEN <<>> ELSE step[<<k, g[down[k]]>>]]
    BY <1>6, Zenon DEF Follows
  <2> QED
    BY <2>1, <2>2 DEF IsTable
<1>8. IsTable(f)
  BY <1>7, Zenon
<1>9. \A k \in Nat : BytesOf(k) = f[k]
  BY Zenon DEF BytesOf, IsTable
<1> HIDE DEF f
<1>10. \A k \in Nat : f[k] = IF k = 0 THEN <<>> ELSE <<k % 256>> \o f[k \div 256]
  BY <1>8 DEF IsTable
<1> DEFINE Bad == {k \in Nat : f[k] \notin V}
<1>11. Bad = {}
  <2> SUFFICES ASSUME Bad # {} PROVE FALSE
    OBVIOUS
  <2>1. Bad \in SUBSET Nat
    OBVIOUS
  <2>2. PICK k \in Bad : \A j \in Bad : k <= j
    BY <2>1, Least
  <2>3. k \in Nat /\ f[k] \notin V /\ k # 0
    BY <1>1, <1>10
  <2>4. k \div 256 \in Nat /\ k \div 256 < k
    BY <2>3, Halving
  <2>5. f[k \div 256] \in V
    BY <2>2, <2>3, <2>4
  <2>6. f[k] = <<k % 256>> \o f[k \div 256]
    BY <1>10, <2>3
  <2> QED
    BY <1>4, <2>3, <2>5, <2>6
<1>12. n > 0 => n \div 256 \in Nat
  BY Halving
<1>13. 0 \in Nat
  OBVIOUS
<1>14. BytesOf(n) \in V
  BY <1>9, <1>11
<1>15. BytesOf(0) = <<>>
  BY <1>9, <1>10, <1>13
<1>16. n > 0 => BytesOf(n) = <<n % 256>> \o BytesOf(n \div 256)
  <2> SUFFICES ASSUME n > 0 PROVE BytesOf(n) = <<n % 256>> \o BytesOf(n \div 256)
    OBVIOUS
  <2>1. n # 0
    OBVIOUS
  <2>2. BytesOf(n) = f[n] /\ BytesOf(n \div 256) = f[n \div 256]
    BY <1>9, <1>12
  <2>3. f[n] = <<n % 256>> \o f[n \div 256]
    BY <1>10, <2>1, Zenon
  <2> QED
    BY <2>2, <2>3
<1> QED
  BY <1>14, <1>15, <1>16 DEF V

LEMMA ReverseAdds ==
  ASSUME NEW s \in Seq(Byte), NEW b \in Byte
  PROVE  Reverse(<<b>> \o s) = Append(Reverse(s), b) /\ Reverse(s) \in Seq(Byte)
<1> DEFINE one == <<b>>
           t == one \o s
           n == Len(s)
           u == Reverse(s)
           v == Append(u, b)
           w == Reverse(t)
<1>1. one \in Seq(Byte) /\ Len(one) = 1 /\ one[1] = b /\ n \in Nat
  OBVIOUS
<1>2. JoinAt(Byte, one, s, 1, n)
  BY <1>1, JoinedAt, Zenon
<1> HIDE DEF one
<1>3. t \in Seq(Byte) /\ Len(t) = n + 1 /\ t[1] = b /\ \A i \in 1 .. n : t[1 + i] = s[i]
  BY <1>1, <1>2 DEF JoinAt
<1> HIDE DEF t
<1>4. \A i \in 1 .. n : s[i] \in Byte
  BY ElementOfSeq, Zenon
<1> HIDE DEF n
<1>5. u = [i \in 1 .. n |-> s[(n - i) + 1]] /\ w = [i \in 1 .. (n + 1) |-> t[((n + 1) - i) + 1]]
  BY <1>3, Zenon DEF Reverse, n
<1>6. u \in Seq(Byte) /\ Len(u) = n /\ \A i \in 1 .. n : u[i] = s[(n - i) + 1]
  <2>1. \A i \in 1 .. n : (n - i) + 1 \in 1 .. n
    BY <1>1
  <2>2. \A i \in 1 .. n : s[(n - i) + 1] \in Byte
    BY <1>4, <2>1
  <2> HIDE DEF u
  <2> QED
    BY <1>1, <1>5, <2>2
<1>7. w \in Seq(Byte) /\ Len(w) = n + 1 /\ \A i \in 1 .. (n + 1) : w[i] = t[((n + 1) - i) + 1]
  <2>1. \A i \in 1 .. (n + 1) : ((n + 1) - i) + 1 \in 1 .. (n + 1)
    BY <1>1
  <2>2. \A i \in 1 .. (n + 1) : t[i] \in Byte
    BY <1>3, ElementOfSeq, Zenon
  <2>3. \A i \in 1 .. (n + 1) : t[((n + 1) - i) + 1] \in Byte
    BY <2>1, <2>2
  <2>4. n + 1 \in Nat
    BY <1>1
  <2> HIDE DEF w
  <2> QED
    BY <1>5, <2>3, <2>4
<1> HIDE DEF u, w
<1>8. v \in Seq(Byte) /\ Len(v) = n + 1 /\ v[n + 1] = b /\ \A i \in 1 .. n : v[i] = u[i]
  BY <1>6
<1> HIDE DEF v
<1>9. ASSUME NEW i \in 1 .. (n + 1) PROVE w[i] = v[i]
  <2>1. CASE i = n + 1
    <3>1. ((n + 1) - i) + 1 = 1
      BY <1>1, <2>1
    <3> QED
      BY <1>3, <1>7, <1>8, <2>1, <3>1
  <2>2. CASE i # n + 1
    <3>1. i \in 1 .. n /\ ((n + 1) - i) + 1 = 1 + ((n - i) + 1) /\ (n - i) + 1 \in 1 .. n
      BY <1>1, <2>2
    <3>2. w[i] = t[1 + ((n - i) + 1)]
      BY <1>7, <3>1
    <3>3. t[1 + ((n - i) + 1)] = s[(n - i) + 1]
      BY <1>3, <3>1, Zenon
    <3> QED
      BY <1>6, <1>8, <3>1, <3>2, <3>3
  <2> QED
    BY <2>1, <2>2
<1>10. w = v
  BY <1>7, <1>8, <1>9, SeqEqual
<1> QED
  BY <1>6, <1>10 DEF w, v, t, u, one

LEMMA ParseIs ==
  ASSUME NEW n \in Nat
  PROVE  /\ parse_message(n) \in Seq(Byte) /\ parse_message(0) = <<>>
         /\ n > 0 => parse_message(n) = Append(parse_message(n \div 256), n % 256)
<1>1. Reverse(<<>>) = <<>>
  <2>1. Len(<<>>) = 0
    OBVIOUS
  <2> DEFINE r == Reverse(<<>>)
  <2>2. r = [i \in 1 .. Len(<<>>) |-> <<>>[(Len(<<>>) - i) + 1]]
    BY Zenon DEF Reverse
  <2>3. r \in Seq(Byte) /\ Len(r) = 0
    <3> HIDE DEF r
    <3>1. 1 .. Len(<<>>) = {} /\ {} = 1 .. 0
      BY <2>1
    <3>2. r \in [1 .. 0 -> Byte]
      BY <2>2, <3>1, Zenon
    <3> QED
      BY <3>2
  <2> HIDE DEF r
  <2>4. r = <<>>
    BY <2>3, EmptySeq
  <2> QED
    BY <2>4 DEF r
<1>2. BytesOf(n) \in Seq(Byte) /\ BytesOf(0) = <<>>
  BY BytesAre256
<1>3. Reverse(BytesOf(n)) \in Seq(Byte)
  <2>1. 0 \in Byte
    BY DEF Byte
  <2> QED
    BY <1>2, <2>1, ReverseAdds, Zenon
<1>4. ASSUME n > 0 PROVE Reverse(BytesOf(n)) = Append(Reverse(BytesOf(n \div 256)), n % 256)
  <2>1. n \div 256 \in Nat /\ n % 256 \in Byte
    BY <1>4, Halving DEF Byte
  <2>2. BytesOf(n) = <<n % 256>> \o BytesOf(n \div 256)
    BY <1>4, BytesAre256
  <2>3. BytesOf(n \div 256) \in Seq(Byte)
    BY <2>1, BytesAre256
  <2> DEFINE s == BytesOf(n \div 256)  b == n % 256
  <2>4. s \in Seq(Byte) /\ b \in Byte
    BY <2>1, <2>3
  <2> HIDE DEF s, b
  <2>5. Reverse(<<b>> \o s) = Append(Reverse(s), b)
    BY <2>4, ReverseAdds, Zenon
  <2> QED
    BY <2>2, <2>5, Zenon DEF s, b
<1> QED
  <2>1. \A k : parse_message(k) = Reverse(BytesOf(k))
    BY Zenon DEF parse_message
  <2> HIDE DEF parse_message
  <2>2. parse_message(0) = <<>>
    BY <1>1, <1>2, <2>1, Zenon
  <2> QED
    BY <1>3, <1>4, <2>1, <2>2, Zenon

\* A number comes back from its bytes, and a number above zero begins with one that is not.
LEMMA SerialOfParse ==
  ASSUME NEW n \in Nat
  PROVE  /\ serial_message(parse_message(n)) = n
         /\ n > 0 => parse_message(n) # <<>> /\ parse_message(n)[1] # 0
<1> DEFINE Good(k) == /\ serial_message(parse_message(k)) = k
                      /\ k > 0 => parse_message(k) # <<>> /\ parse_message(k)[1] # 0
           Bad == {k \in Nat : ~Good(k)}
<1>1. SUFFICES ASSUME Bad # {} PROVE FALSE
  OBVIOUS
<1>2. PICK k \in Bad : \A j \in Bad : k <= j
  <2>1. Bad \in SUBSET Nat
    OBVIOUS
  <2> HIDE DEF Bad
  <2> QED
    BY <1>1, <2>1, Least
<1>3. k \in Nat /\ ~Good(k) /\ \A j \in Nat : j < k => Good(j)
  <2>1. k \in Nat /\ ~Good(k)
    BY <1>2
  <2>2. ASSUME NEW j \in Nat, j < k PROVE Good(j)
    <3>1. ~(k <= j)
      BY <2>1, <2>2
    <3> HIDE DEF Good
    <3> QED
      BY <1>2, <3>1
  <2> HIDE DEF Good
  <2> QED
    BY <2>1, <2>2
<1> HIDE DEF Good, Bad
<1>4. Good(0)
  <2>1. <<>> \in Seq(Byte) /\ 0 \in Byte /\ 0 \in Nat /\ ~(0 > 0)
    BY DEF Byte
  <2>2. serial_message(<<>>) = 0 /\ parse_message(0) = <<>>
    BY <2>1, SerialIs, ParseIs, Zenon
  <2> QED
    BY <2>1, <2>2, Zenon DEF Good
<1>5. k > 0
  BY <1>3, <1>4
<1> DEFINE q == k \div 256
           b == k % 256
           s == parse_message(q)
<1>6. q \in Nat /\ q < k /\ k = 256 * q + b /\ b \in Byte
  BY <1>3, <1>5, Halving DEF Byte
<1>7. parse_message(k) = Append(s, b)
  BY <1>3, <1>5, ParseIs
<1> HIDE DEF b, q
<1>8. Good(q) /\ s \in Seq(Byte)
  BY <1>3, <1>6, ParseIs
<1>9. serial_message(s) = q /\ (q > 0 => s # <<>> /\ s[1] # 0)
  BY <1>8 DEF Good
<1>10. q = 0 => s = <<>>
  BY <1>6, ParseIs
<1> HIDE DEF s
<1>11. serial_message(Append(s, b)) = 256 * q + b
  BY <1>6, <1>8, <1>9, SerialIs
<1>12. Append(s, b) # <<>> /\ Append(s, b)[1] # 0
  <2>1. CASE q = 0
    <3>1. s = <<>> /\ b # 0
      BY <1>5, <1>6, <1>10, <2>1
    <3> QED
      BY <3>1, <1>8
  <2>2. CASE q > 0
    <3>1. Len(s) > 0 /\ Len(s) \in Nat
      BY <1>8, <1>9, <2>2, EmptySeq
    <3>2. Append(s, b)[1] = s[1] /\ Len(Append(s, b)) > 0
      BY <1>8, <3>1
    <3>3. Append(s, b) # <<>>
      BY <3>2
    <3> QED
      BY <1>9, <2>2, <3>2, <3>3
  <2> QED
    BY <1>6, <2>1, <2>2
<1>13. Good(k)
  BY <1>6, <1>7, <1>11, <1>12, Zenon DEF Good
<1> QED
  BY <1>3, <1>13

\* A message comes back from its number when it does not begin with zero.
LEMMA ParseOfSerial ==
  ASSUME NEW s \in Seq(Byte), s # <<>> => s[1] # 0
  PROVE  parse_message(serial_message(s)) = s
<1> DEFINE Good(t) == parse_message(serial_message(t)) = t
           Fit(k) == {t \in Seq(Byte) : Len(t) = k /\ (t # <<>> => t[1] # 0)}
           S == {k \in Nat : \A t \in Fit(k) : Good(t)}
<1>1. 0 \in S
  <2>1. \A t \in Fit(0) : t = <<>>
    BY EmptySeq
  <2>2. <<>> \in Seq(Byte) /\ 0 \in Byte /\ 0 \in Nat
    BY DEF Byte
  <2>3. Good(<<>>)
    BY <2>2, SerialIs, ParseIs
  <2> HIDE DEF Good, Fit
  <2> QED
    BY <2>1, <2>3
<1>2. ASSUME NEW k \in S PROVE k + 1 \in S
  <2>0. k \in Nat /\ \A t \in Fit(k) : Good(t)
    <3> HIDE DEF Fit, Good
    <3> QED
      BY <1>2
  <2>1. SUFFICES ASSUME NEW t \in Fit(k + 1) PROVE Good(t)
    <3> HIDE DEF Fit, Good
    <3> QED
      BY <2>0
  <2>2. t \in Seq(Byte) /\ Len(t) = k + 1 /\ t # <<>> /\ t[1] # 0
    <3>1. t \in Seq(Byte) /\ Len(t) = k + 1 /\ (t # <<>> => t[1] # 0)
      OBVIOUS
    <3>2. Len(<<>>) = 0 /\ k + 1 # 0
      BY <2>0
    <3> QED
      BY <3>1, <3>2, Zenon
  <2>3. PICK u \in Seq(Byte), b \in Byte : t = Append(u, b)
    BY <2>2, SequenceEmptyOrAppend
  <2>4. Len(u) = k /\ (k > 0 => t[1] = u[1]) /\ (k = 0 => u = <<>> /\ t[1] = b)
    <3>1. Len(u) = k /\ Len(u) \in Nat
      BY <2>0, <2>2, <2>3
    <3>2. k > 0 => t[1] = u[1]
      BY <2>3, <3>1
    <3>3. k = 0 => u = <<>>
      BY <3>1, EmptySeq
    <3>4. u = <<>> => t[1] = b
      BY <2>3
    <3> QED
      BY <3>1, <3>2, <3>3, <3>4
  <2>5. u \in Fit(k)
    <3>1. u # <<>> => k > 0
      BY <2>0, <2>4, EmptySeq
    <3> QED
      BY <2>2, <2>4, <3>1
  <2>6. parse_message(serial_message(u)) = u
    <3>1. Good(u)
      BY <2>0, <2>5
    <3> QED
      BY <3>1
  <2> DEFINE n == serial_message(u)  m == serial_message(t)
  <2>7. n \in Nat /\ m = 256 * n + b /\ b \in 0 .. 255
    <3>1. n \in Nat /\ serial_message(Append(u, b)) = 256 * n + b
      BY SerialIs, Zenon
    <3>2. b \in 0 .. 255
      BY DEF Byte
    <3> QED
      BY <2>3, <3>1, <3>2, Zenon
  <2>8. m > 0 /\ m \in Nat
    <3>1. CASE k = 0
      <4>1. b # 0
        BY <2>2, <2>4, <3>1
      <4> HIDE DEF n, m
      <4> QED
        BY <2>7, <4>1
    <3>2. CASE k # 0
      <4>1. u # <<>>
        <5>1. Len(<<>>) = 0
          OBVIOUS
        <5> QED
          BY <2>4, <3>2, <5>1, Zenon
      <4>2. parse_message(0) = <<>>
        <5>1. 0 \in Nat
          OBVIOUS
        <5> QED
          BY <5>1, ParseIs, Zenon
      <4>3. n # 0
        BY <2>6, <4>1, <4>2, Zenon
      <4> HIDE DEF n, m
      <4> QED
        BY <2>7, <4>3
    <3> QED
      BY <3>1, <3>2
  <2>9. m \div 256 = n /\ m % 256 = b
    <3> HIDE DEF m, n
    <3> DEFINE c == 256
    <3>1. c \in Nat /\ c > 0 /\ b \in 0 .. c - 1
      BY <2>7
    <3> HIDE DEF c
    <3>2. (c * n + b) % c = b /\ (c * n + b) \div c = n
      BY <2>7, <3>1, Remainder, Zenon
    <3> QED
      BY <2>7, <3>2, Zenon DEF c
  <2>10. parse_message(m) = Append(parse_message(m \div 256), m % 256)
    <3> HIDE DEF m
    <3> QED
      BY <2>8, ParseIs
  <2> QED
    BY <2>3, <2>6, <2>9, <2>10, Zenon
<1>3. \A k \in Nat : k \in S
  <2>1. S \in SUBSET Nat
    OBVIOUS
  <2> HIDE DEF S
  <2> QED
    BY <1>1, <1>2, <2>1, Induct
<1>4. Len(s) \in Nat /\ s \in Fit(Len(s))
  BY LenProperties
<1>5. Good(s)
  <2> HIDE DEF Good, Fit
  <2> QED
    BY <1>3, <1>4
<1> QED
  BY <1>5

-----------------------------------------------------------------------------
(***************************************************************************)
(* Keys and powers.                                                        *)
(***************************************************************************)
\* mpz_powm computes the power, modulo n.
IsPowm(b, n, f) ==
  f = [e \in Nat |->
        IF e = 0 THEN 1 % n
        ELSE LET half == f[e \div 2]
                 square == (half * half) % n
             IN  IF e % 2 = 0 THEN square ELSE (square * (b % n)) % n]

LEMMA SquareIs ==
  ASSUME NEW n \in Nat, n > 0, NEW b \in Nat, NEW e \in Nat, e > 0
  PROVE  LET half == Power(b)[e \div 2] % n
             square == (half * half) % n
         IN  Power(b)[e] % n = IF e % 2 = 0 THEN square ELSE (square * (b % n)) % n
<1> DEFINE h == e \div 2
           P(k) == Power(b)[k]
           half == P(h) % n
           square == (half * half) % n
<1>1. h \in Nat /\ e = 2 * h + (e % 2) /\ e % 2 \in 0 .. 1
  BY Halving
<1> HIDE DEF h
<1>2. \A k \in Nat : P(k) \in Nat
  BY PowerNat
<1>3. P(h + h) = P(h) * P(h)
  BY <1>1, PowerSum
<1>4. half \in Nat /\ Congruent(n, half, P(h)) /\ half < n
  BY <1>1, <1>2, SameAsRemainder
<1> HIDE DEF P
<1> HIDE DEF half
<1>5. half * half \in Nat /\ Congruent(n, half * half, P(h) * P(h))
  BY <1>1, <1>2, <1>4, SameProducts, ProductNat
<1>6. square = P(h + h) % n
  BY <1>3, <1>5 DEF Congruent
<1>7. CASE e % 2 = 0
  <2>1. e = h + h
    BY <1>1, <1>7
  <2>2. P(e) % n = square
    BY <1>6, <2>1
  <2> QED
    BY <1>7, <2>2 DEF P, half, h
<1>8. CASE e % 2 = 1
  <2>1. e = (h + h) + 1 /\ h + h \in Nat /\ 1 \in Nat
    BY <1>1, <1>8
  <2>2. P(e) = P(h + h) * P(1) /\ P(1) = b
    BY <2>1, PowerSum, PowerOne DEF P
  <2>3. Congruent(n, square, P(h + h)) /\ square \in Nat
    <3>1. P(h + h) \in Nat
      BY <1>2, <2>1
    <3> QED
      BY <1>6, <3>1, SameAsRemainder
  <2>4. Congruent(n, b % n, b) /\ b % n \in Nat
    BY SameAsRemainder
  <2>5. Congruent(n, square * (b % n), P(h + h) * b)
    <3>1. P(h + h) \in Nat
      BY <1>2, <2>1
    <3> HIDE DEF square
    <3> QED
      BY <2>3, <2>4, <3>1, SameProducts
  <2>6. P(e) % n = (square * (b % n)) % n
    BY <2>2, <2>5 DEF Congruent
  <2> QED
    BY <1>8, <2>6 DEF P, half, h
<1> QED
  BY <1>1, <1>7, <1>8

LEMMA PowmIs ==
  ASSUME NEW n \in Nat, n > 0, NEW b \in Nat, NEW e \in Nat
  PROVE  Powm(b, e, n) = Power(b)[e] % n
<1> DEFINE g == [k \in Nat |-> Power(b)[k] % n]
           f == CHOOSE f : IsPowm(b, n, f)
           Next1(h, k) == LET half == h[k \div 2]
                              square == (half * half) % n
                          IN  IF k % 2 = 0 THEN square ELSE (square * (b % n)) % n
<1>1. Power(b)[0] = 1
  BY PowerIs DEF IsPower
<1>2. \A k \in Nat : g[k] = Power(b)[k] % n
  OBVIOUS
<1>3. \A k \in Nat : k > 0 => k \div 2 \in Nat /\ k \div 2 < k
  BY Halving
<1>4. ASSUME NEW k \in Nat, k > 0 PROVE g[k] = Next1(g, k)
  <2>1. g[k \div 2] = Power(b)[k \div 2] % n
    BY <1>2, <1>3, <1>4
  <2>2. LET half == Power(b)[k \div 2] % n
            square == (half * half) % n
        IN  Power(b)[k] % n = IF k % 2 = 0 THEN square ELSE (square * (b % n)) % n
    BY <1>4, SquareIs, Zenon
  <2> HIDE DEF g
  <2> QED
    BY <1>2, <2>1, <2>2, Zenon
<1>5. IsPowm(b, n, g)
  <2>1. \A k \in Nat : Power(b)[k] % n = IF k = 0 THEN 1 % n ELSE Next1(g, k)
    <3> SUFFICES ASSUME NEW k \in Nat PROVE Power(b)[k] % n = IF k = 0 THEN 1 % n ELSE Next1(g, k)
      OBVIOUS
    <3> HIDE DEF g, Next1
    <3>1. k # 0 => k > 0
      OBVIOUS
    <3> QED
      BY <1>1, <1>2, <1>4, <3>1, Zenon
  <2>2. g = [k \in Nat |-> Power(b)[k] % n]
    OBVIOUS
  <2> HIDE DEF g, Next1
  <2>3. g = [k \in Nat |-> IF k = 0 THEN 1 % n ELSE Next1(g, k)]
    BY <2>1, <2>2
  <2> QED
    BY <2>3, Zenon DEF IsPowm, Next1
<1> HIDE DEF g
<1>6. IsPowm(b, n, f)
  BY <1>5, Zenon
<1>7. Powm(b, e, n) = f[e]
  BY Zenon DEF Powm, IsPowm
<1> HIDE DEF f
<1>8. \A k \in Nat : f[k] = IF k = 0 THEN 1 % n ELSE Next1(f, k)
  BY <1>6 DEF IsPowm
<1>9. \A k \in Nat : g[k] = IF k = 0 THEN 1 % n ELSE Next1(g, k)
  BY <1>5 DEF IsPowm
<1>10. \A k \in Nat : f[k \div 2] = g[k \div 2] => Next1(f, k) = Next1(g, k)
  BY Zenon
<1> HIDE DEF Next1
<1> DEFINE Bad == {k \in Nat : f[k] # g[k]}
<1>11. Bad = {}
  <2> SUFFICES ASSUME Bad # {} PROVE FALSE
    OBVIOUS
  <2>1. Bad \in SUBSET Nat
    OBVIOUS
  <2>2. PICK k \in Bad : \A j \in Bad : k <= j
    BY <2>1, Least
  <2>3. k \in Nat /\ f[k] # g[k] /\ k # 0
    BY <1>8, <1>9
  <2>4. k \div 2 \in Nat /\ k \div 2 < k
    BY <1>3, <2>3
  <2>5. f[k \div 2] = g[k \div 2]
    BY <2>2, <2>3, <2>4
  <2> QED
    BY <1>8, <1>9, <1>10, <2>3, <2>5
<1> QED
  BY <1>2, <1>7, <1>11

\* The key of two primes: the second exponent is an inverse of the first.
HasKey(p, q, w) ==
  \E d, k \in Nat :
    /\ generate_key(p, q) = [pub |-> <<p * q, w>>, pri |-> <<p * q, d>>]
    /\ d * w = ((p - 1) * (q - 1)) * k + 1

LEMMA KeyIs ==
  ASSUME NEW p \in Primes, NEW q \in Primes, p < q
  PROVE  /\ IsPrime(p) /\ IsPrime(q) /\ p # q /\ p * q \in Nat /\ p * q > 0
         /\ HasKey(p, q, PublicExponent)
<1> DEFINE r == (p - 1) * (q - 1)
           w == PublicExponent
           Inverse1(d) == (d * (w % r)) % r = 1
           d == CHOOSE d \in 1 .. r : Inverse1(d)
<1>1. IsPrime(p) /\ IsPrime(q)
  BY PrimeAssumption, Zenon DEF IsPrime
<1>2. p # q /\ p \in Nat /\ q \in Nat /\ p > 1 /\ q > 1 /\ p - 1 \in Nat /\ q - 1 \in Nat
  BY <1>1 DEF IsPrime
<1>3. p * q \in Nat /\ p * q > 0
  <2>1. p * 0 + p <= p * q /\ p * q \in Nat /\ p * 0 = 0
    <3>1. 0 < q /\ p > 0 /\ 0 \in Nat
      BY <1>2
    <3> QED
      BY <1>2, <3>1, ProductGrows, ProductNat
  <2> HIDE DEF r
  <2> QED
    BY <1>2, <2>1
<1>4. r \in Nat
  BY <1>2, ProductNat
<1>5. \E e \in 1 .. r : Inverse1(e)
  BY PrimeAssumption, Zenon
<1>6. generate_key(p, q) = [pub |-> <<p * q, w>>, pri |-> <<p * q, d>>]
  BY Zenon DEF generate_key, KeyOfTotient
<1>7. d \in 1 .. r /\ Inverse1(d)
  <2> HIDE DEF Inverse1, r
  <2> QED
    BY <1>5, Zenon
<1>8. w \in Nat
  BY DEF PublicExponent
<1> HIDE DEF d, r, w
<1>9. d \in Nat /\ r > 0
  BY <1>4, <1>7
<1>10. (w * d) % r = ((w % r) * d) % r /\ w % r \in Nat
  BY <1>4, <1>8, <1>9, ProductRemainder, SameAsRemainder
<1>11. (d * w) % r = 1 /\ d * w \in Nat
  BY <1>7, <1>8, <1>9, <1>10, ProductNat
<1> DEFINE k == (d * w) \div r
<1>12. d * w = r * k + 1 /\ k \in Nat
  <2> DEFINE a == d * w
  <2>1. a \in Nat /\ a % r = 1
    BY <1>11
  <2> HIDE DEF a
  <2>2. a = r * (a \div r) + (a % r) /\ a \div r \in Nat
    BY <1>4, <1>9, <2>1, Division
  <2> QED
    BY <2>1, <2>2, Zenon DEF a
<1> HIDE DEF k
<1> QED
  <2>1. d * w = ((p - 1) * (q - 1)) * k + 1
    BY <1>12 DEF r
  <2>2. HasKey(p, q, w)
    BY <1>6, <1>9, <1>12, <2>1, Zenon DEF HasKey
  <2> QED
    BY <1>1, <1>2, <1>3, <2>2, Zenon DEF w

\* The n of a key, and the two exponents in either order.
Keys(p, q, x, y) ==
  /\ IsPrime(p) /\ IsPrime(q) /\ p # q /\ p * q \in Nat /\ p * q > 0 /\ x \in Nat /\ y \in Nat
  /\ \E k \in Nat : x * y = ((p - 1) * (q - 1)) * k + 1

LEMMA ComesBackIf ==
  ASSUME NEW p, NEW q, NEW x, NEW y, Keys(p, q, x, y), NEW s \in Seq(Byte), s # <<>>
  PROVE  decrypt(encrypt(s, <<p * q, x>>), <<p * q, y>>) = s
           <=> s[1] # 0 /\ serial_message(s) < p * q
<1> DEFINE n == p * q
           m == serial_message(s)
           c == Power(m)[x] % n
           back == decrypt(encrypt(s, <<n, x>>), <<n, y>>)
<1>1. n \in Nat /\ n > 0 /\ x \in Nat /\ y \in Nat
  BY DEF Keys
<1>2. m \in Nat
  <2>1. 0 \in Byte
    BY DEF Byte
  <2> QED
    BY <2>1, SerialIs, Zenon
<1>3. Congruent(n, Power(Power(m)[x])[y], m)
  <2> HIDE DEF m
  <2>1. PICK k \in Nat : x * y = ((p - 1) * (q - 1)) * k + 1
    BY Zenon DEF Keys
  <2>2. IsPrime(p) /\ IsPrime(q) /\ p # q
    BY Zenon DEF Keys
  <2> QED
    BY <1>1, <1>2, <2>1, <2>2, ExponentsInvert, Zenon
<1>4. encrypt(s, <<n, x>>) = parse_message(Powm(m, x, n))
  BY DEF encrypt
<1>5. back = parse_message(Powm(serial_message(encrypt(s, <<n, x>>)), y, n))
  BY DEF encrypt, decrypt
<1> HIDE DEF m, n, back
<1>6. Powm(m, x, n) = c
  BY <1>1, <1>2, PowmIs, Zenon
<1>7. Power(m)[x] \in Nat /\ c \in Nat /\ Congruent(n, c, Power(m)[x])
  <2>1. Power(m)[x] \in Nat
    BY <1>1, <1>2, PowerNat
  <2> QED
    BY <1>1, <2>1, SameAsRemainder
<1> HIDE DEF c
<1>8. serial_message(parse_message(c)) = c
  BY <1>7, SerialOfParse, Zenon
<1>9. Powm(c, y, n) = Power(c)[y] % n
  BY <1>1, <1>7, PowmIs, Zenon
<1>10. Congruent(n, Power(c)[y], Power(Power(m)[x])[y])
  BY <1>1, <1>7, PowerSame, Zenon
<1>11. Power(c)[y] % n = m % n
  BY <1>3, <1>10, Zenon DEF Congruent
<1>12. back = parse_message(m % n)
  BY <1>4, <1>5, <1>6, <1>8, <1>9, <1>11, Zenon
<1>13. m % n \in Nat /\ m % n < n
  BY <1>1, <1>2, SameAsRemainder
<1>14. ASSUME s[1] # 0, m < n PROVE back = s
  <2>1. m % n = m
    BY <1>1, <1>2, <1>13, <1>14, SameAsRemainder, SameBelow
  <2>2. parse_message(m) = s
    BY <1>14, ParseOfSerial, Zenon DEF m
  <2> QED
    BY <1>12, <2>1, <2>2, Zenon
<1>15. ASSUME back = s PROVE s[1] # 0 /\ m < n
  <2> DEFINE z == m % n
  <2>1. z \in Nat /\ parse_message(z) = s /\ z < n
    BY <1>12, <1>13, <1>15, Zenon
  <2> HIDE DEF z
  <2>2. m = z
    BY <2>1, SerialOfParse, Zenon DEF m
  <2>3. parse_message(0) = <<>>
    <3>1. 0 \in Nat
      OBVIOUS
    <3> QED
      BY <3>1, ParseIs, Zenon
  <2>4. z # 0
    BY <2>1, <2>3, Zenon
  <2>5. z > 0
    BY <2>1, <2>4
  <2>6. parse_message(z)[1] # 0
    BY <2>1, <2>5, SerialOfParse, Zenon
  <2> QED
    BY <2>1, <2>2, <2>6, Zenon
<1> QED
  BY <1>14, <1>15, Zenon DEF m, n, back

\* SignatureReadsBack: a message of any length comes back under any two keys that
\* generate_key makes of two primes, in either order, exactly when its number is below n and
\* its first byte is not zero.
THEOREM SignaturesReadBack == Spec => []SignatureReadsBack
<1>1. ASSUME NEW t \in Seq(Byte), t # <<>>, NEW key \in KeyPairs
      PROVE  LET fits == t[1] # 0 /\ serial_message(t) < key.pub[1]
             IN  /\ valid(sign(t, key.pri), t, key.pub) = fits
                 /\ valid(sign(t, key.pub), t, key.pri) = fits
  <2>1. PICK p \in Primes, q \in Primes : p < q /\ key = generate_key(p, q)
    <3>1. PICK pq \in {x \in Primes \X Primes : x[1] < x[2]} : key = generate_key(pq[1], pq[2])
      BY Zenon DEF KeyPairs
    <3>2. pq[1] \in Primes /\ pq[2] \in Primes /\ pq[1] < pq[2]
      BY <3>1
    <3> QED
      BY <3>1, <3>2
  <2> DEFINE w == PublicExponent  n == p * q
  <2>2. /\ IsPrime(p) /\ IsPrime(q) /\ p # q /\ n \in Nat /\ n > 0
        /\ HasKey(p, q, w)
    <3>1. p < q
      BY <2>1
    <3> QED
      BY <3>1, KeyIs, Zenon
  <2>3. w \in Nat
    BY DEF PublicExponent
  <2> HIDE DEF w
  <2>4. PICK d \in Nat, k \in Nat :
             /\ generate_key(p, q) = [pub |-> <<n, w>>, pri |-> <<n, d>>]
             /\ d * w = ((p - 1) * (q - 1)) * k + 1
    BY <2>2, Zenon DEF HasKey
  <2>5. d * w = w * d
    BY <2>3, ProductNat
  <2>6. Keys(p, q, d, w) /\ Keys(p, q, w, d)
    <3> DEFINE r == (p - 1) * (q - 1)
    <3>1. d * w = r * k + 1 /\ w * d = r * k + 1
      BY <2>4, <2>5, Zenon
    <3> HIDE DEF r
    <3> QED
      BY <2>2, <2>3, <3>1, Zenon DEF Keys, r
  <2>7. /\ decrypt(encrypt(t, <<n, d>>), <<n, w>>) = t <=> t[1] # 0 /\ serial_message(t) < n
        /\ decrypt(encrypt(t, <<n, w>>), <<n, d>>) = t <=> t[1] # 0 /\ serial_message(t) < n
    BY <1>1, <2>6, ComesBackIf, Zenon
  <2> HIDE DEF n
  <2>8. key.pri = <<n, d>> /\ key.pub = <<n, w>> /\ key.pub[1] = n
    <3>1. key = [pub |-> <<n, w>>, pri |-> <<n, d>>]
      BY <2>1, <2>4, Zenon
    <3> QED
      BY <3>1
  <2> QED
    BY <2>7, <2>8, Zenon DEF valid, sign
<1>2. TextInv => SignatureReadsBack
  <2> SUFFICES ASSUME TextInv, subject = "message", text # <<>> PROVE SignatureReadsBack
    BY Zenon DEF SignatureReadsBack
  <2>1. text \in Seq(Byte)
    <3>1. Alphabet["message"] \subseteq Byte
      BY DEF Alphabet, Byte
    <3> QED
      BY <3>1, SeqMonotonic DEF TextInv
  <2> QED
    BY <1>1, <2>1, Zenon DEF SignatureReadsBack
<1> QED
  BY <1>2, Texts, PTL
=============================================================================
