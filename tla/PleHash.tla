------------------------------ MODULE PleHash ------------------------------
(***************************************************************************)
(* From an n-gram to a row of the table, on the GPU and on the CPU.        *)
(* Products and their xor wrap at the width of the machine's integers;     *)
(* the two paths take the remainder of a negative number differently.     *)
(***************************************************************************)
EXTENDS PleVocab, Functions

CONSTANTS
  Width,          \* bits of an integer
  NGram,          \* ngram_size
  HeadsPerNgram   \* heads of each order 2..NGram

Heads == (NGram - 1) * HeadsPerNgram

(* Two's complement                                                        *)
Unsigned(x) == x % 2^Width
Signed(x)   == LET u == Unsigned(x) IN IF u < 2^(Width-1) THEN u ELSE u - 2^Width

(* The bits of the integers x and y that differ                            *)
Bit(x, b) == (Unsigned(x) \div 2^b) % 2
SignedXor(x, y) ==
  Signed(SumFunction([b \in 0..Width-1 |-> IF Bit(x, b) # Bit(y, b) THEN 2^b ELSE 0]))

-----------------------------------------------------------------------------
(* gram[s] is the s-th token before the current one, gram[0] the current.  *)

(* _ple_ngram_ids_kernel walks the predecessors once for all heads.        *)
KernelMixed(gram, multipliers, h) ==
  LET order == (h \div HeadsPerNgram) + 2
      mixed[s \in 0..NGram-1] ==
        IF s = 0 THEN Signed(gram[0] * multipliers[0])
        ELSE IF order > s THEN SignedXor(mixed[s-1], Signed(gram[s] * multipliers[s]))
        ELSE mixed[s-1]
  IN  mixed[NGram-1]

(* % of the compiled kernel rounds the quotient toward zero.               *)
TruncatedRemainder(x, d) == IF x >= 0 THEN x % d ELSE -((-x) % d)

(* Seeded fault: the sign of the remainder is left as the machine gives it.*)
KernelRemainderRaw(x, d) == TruncatedRemainder(x, d)

KernelRemainder(x, d) ==
  LET r == TruncatedRemainder(x, d) IN IF r < 0 THEN r + d ELSE r

KernelId(gram, multipliers, sizes, h) ==
  KernelRemainder(KernelMixed(gram, multipliers, h), sizes[h]) + HeadOffsets(sizes, Heads)[h]

(* compute_ngram_ids mixes anew for every order; torch.remainder is the    *)
(* mathematical one.                                                       *)
TorchMixed(gram, multipliers, ngram) ==
  LET mixed[s \in 0..ngram-1] ==
        IF s = 0 THEN Signed(gram[0] * multipliers[0])
        ELSE SignedXor(mixed[s-1], Signed(gram[s] * multipliers[s]))
  IN  mixed[ngram-1]

TorchId(gram, multipliers, sizes, h) ==
  LET ngram == 2 + (h \div HeadsPerNgram)
  IN  (TorchMixed(gram, multipliers, ngram) % sizes[h]) + HeadOffsets(sizes, Heads)[h]

=============================================================================
