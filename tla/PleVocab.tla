------------------------------ MODULE PleVocab ------------------------------
(***************************************************************************)
(* How one PLE layer divides its n-gram table: the hash multipliers and    *)
(* the prime number of rows each head gets.                                *)
(*                                                                         *)
(* The program works in 64-bit integers.  Here MaxInt is the largest of    *)
(* them and the width is a parameter; the mixing function is left out,     *)
(* and its result is any natural number.                                   *)
(***************************************************************************)
EXTENDS Integers

(* The primes a candidate is divided by before it is tested.               *)
SmallPrimes == {2, 3, 5, 7, 11, 13, 17, 19, 23, 29, 31, 37}

Bases == {2, 325, 9375, 28178, 450775, 9780504, 1795265022}

(* pow(base, exponent, value)                                              *)
PowMod(base, exponent, value) ==
  LET pow[e \in 0..exponent] ==
        IF e = 0 THEN 1 % value
        ELSE LET half == pow[e \div 2]
             IN  IF e % 2 = 0 THEN (half * half) % value
                 ELSE (((half * half) % value) * (base % value)) % value
  IN  pow[exponent]

(* How many times 2 divides n, for n > 0.                                  *)
Twos(n) == CHOOSE s \in 0..n : n % 2^s = 0 /\ (n \div 2^s) % 2 = 1

(* One base of the test: value may be prime.                               *)
Passes(base, value) ==
  LET shifts  == Twos(value - 1)
      witness == PowMod(base, (value - 1) \div 2^shifts, value)
      squared[k \in 0..shifts] == IF k = 0 THEN witness ELSE (squared[k-1] * squared[k-1]) % value
  IN  \/ base % value = 0
      \/ witness \in {1, value - 1}
      \/ \E k \in 1..shifts-1 : squared[k] = value - 1

IsPrime64(value) ==
  /\ value >= 2
  /\ IF \E p \in SmallPrimes : value % p = 0
     THEN value \in SmallPrimes
     ELSE \A base \in Bases : Passes(base, value)

(* The first prime after start: the odd numbers from there on are tried.   *)
NextPrime(start) ==
  IF start + 1 <= 2 THEN 2
  ELSE LET first == IF (start + 1) % 2 = 0 THEN start + 2 ELSE start + 1
           steps == CHOOSE k \in 0..start : /\ IsPrime64(first + 2 * k)
                                            /\ \A j \in 0..k-1 : ~IsPrime64(first + 2 * j)
       IN  first + 2 * steps

NthPrimeAfter(start, count) ==
  LET prime[k \in 0..count] == IF k = 0 THEN start ELSE NextPrime(prime[k-1])
  IN  prime[count]

-----------------------------------------------------------------------------
(* Seeded fault: every layer starts again from the first prime.            *)
HeadSizeOfLayer(base, heads, layer, h) == NthPrimeAfter(base - 1, h + 1)

(* Heads are numbered through all PLE layers, so no two share a prime.     *)
HeadSize(base, heads, layer, h) == NthPrimeAfter(base - 1, layer * heads + h + 1)

HeadSizes(base, heads, layer) == [h \in 0..heads-1 |-> HeadSize(base, heads, layer, h)]

(* Where each head's rows begin; the entry past the last is the row count. *)
HeadOffsets(sizes, heads) ==
  LET offset[h \in 0..heads] == IF h = 0 THEN 0 ELSE offset[h-1] + sizes[h-1]
  IN  offset

(* Rows of the table: padded up to a multiple of divisor.                  *)
PaddedRows(rows, divisor) == ((rows + divisor - 1) \div divisor) * divisor

-----------------------------------------------------------------------------
HalfBound(maxInt, vocab) ==
  LET half == (maxInt \div vocab) \div 2
  IN  IF half > 1 THEN half ELSE 1

(* A hash multiplier, odd and small enough for any token of the vocabulary.*)
Multiplier(maxInt, vocab, mix) == 2 * (mix % HalfBound(maxInt, vocab)) + 1

-----------------------------------------------------------------------------
(* The product of a token and a multiplier is an integer of the width, for *)
(* every vocabulary and every mix: the hash overflows only for tokens      *)
(* outside the vocabulary or multipliers loaded from a checkpoint.         *)
ProductFits(maxInt, vocab) ==
  \A mix \in 0..maxInt, token \in 0..vocab-1 : token * Multiplier(maxInt, vocab, mix) <= maxInt

=============================================================================
