-------------------------------- MODULE Rsa --------------------------------
(***************************************************************************)
(* utils/secure: rsa.cpp and signature.cpp.  Numbers and keys are those of *)
(* gmp; the run takes small primes.  A message is a sequence of bytes.     *)
(***************************************************************************)
EXTENDS Naturals, Sequences, SequencesExt

PublicExponent == 65537

\* generate_key, for the primes it has drawn; mutant: r is made of one p - 1 only.
KeyOfTotient(p, q, r) ==
  [pub |-> <<p * q, PublicExponent>>,
   pri |-> <<p * q, CHOOSE d \in 1..r : (d * (PublicExponent % r)) % r = 1>>]

GenerateKeyHalf(p, q) == KeyOfTotient(p, q, (p - 1) * q)

generate_key(p, q) == KeyOfTotient(p, q, (p - 1) * (q - 1))

\* serial_message: the first byte is the highest.
serial_message(message) ==
  LET num[i \in 0 .. Len(message)] == IF i = 0 THEN 0 ELSE 256 * num[i - 1] + message[i]
  IN  num[Len(message)]

\* parse_message takes bytes off the low end until nothing is left, and reverses them.
\* mutant: it does not reverse.
BytesOf(num) ==
  LET bytes[n \in Nat] == IF n = 0 THEN <<>> ELSE <<n % 256>> \o bytes[n \div 256]
  IN  bytes[num]

parse_message(num) == Reverse(BytesOf(num))

\* mpz_powm
Powm(base, exponent, n) ==
  LET power[e \in Nat] ==
        IF e = 0 THEN 1 % n
        ELSE LET half == power[e \div 2]
                 square == (half * half) % n
             IN  IF e % 2 = 0 THEN square ELSE (square * (base % n)) % n
  IN  power[exponent]

\* encrypt and decrypt are the same text, for either key.
encrypt(message, key) == parse_message(Powm(serial_message(message), key[2], key[1]))
decrypt(message, key) == encrypt(message, key)

\* sign and valid, of the text's md5.
sign(md5_value, key) == encrypt(md5_value, key)
valid(signature, md5_value, key) == decrypt(signature, key) = md5_value
=============================================================================
