------------------------------- MODULE TpPad -------------------------------
(***************************************************************************)
(* The tensors of the checkpoint are changed while they are loaded, so     *)
(* that sizes that do not divide by the tensor-parallel size can be split. *)
(*                                                                         *)
(* A tensor is a function from 0..n-1, along the one dimension that is     *)
(* changed, to whatever identifies the entry of the checkpoint.            *)
(***************************************************************************)
EXTENDS Integers

Size(n) == 0..n-1

(* Seeded fault: the copies of the heads follow one another in turn.       *)
RepHeadsTiled(t, heads, dim, rep) ==
  [i \in Size(heads * dim * rep) |-> t[((i \div dim) % heads) * dim + (i % dim)]]

(* _rep_heads: every head, dim entries of it, is repeated rep times.       *)
RepHeads(t, heads, dim, rep) ==
  [i \in Size(heads * dim * rep) |-> t[((i \div dim) \div rep) * dim + (i % dim)]]

(* Seeded fault: sizes that do not scale are rounded down.                 *)
ScalesRounded(old, iOld, iNew) == TRUE

(* A dimension scales if it grows by whole entries.                        *)
Scales(old, iOld, iNew) == (old * iNew) % iOld = 0

(* _pad_dim: old entries, then fill up to the size of the new dimension.   *)
PadDim(t, old, iOld, iNew, fill) ==
  [i \in Size((old * iNew) \div iOld) |-> IF i < old THEN t[i] ELSE fill]

(* The q, k and v rows of a gated delta net, and the channels of its       *)
(* convolution: the heads of q and of k are repeated, v is left alone.     *)
TransformQkv(t, heads, dim, vRows, rep) ==
  LET kd == heads * dim
      q  == RepHeads([i \in Size(kd) |-> t[i]], heads, dim, rep)
      k  == RepHeads([i \in Size(kd) |-> t[kd + i]], heads, dim, rep)
  IN  [i \in Size(2 * kd * rep + vRows) |->
         IF i < kd * rep THEN q[i]
         ELSE IF i < 2 * kd * rep THEN k[i - kd * rep]
         ELSE t[i - 2 * kd * rep + 2 * kd]]

(* The padding of the vocabulary once install() has wrapped the layer.     *)
PaddingSize(ps, tp) == IF tp > 1 /\ ps % tp # 0 THEN ps * tp ELSE ps

-----------------------------------------------------------------------------
(* How vLLM splits what it is given                                        *)

(* Entry l of rank r of a tensor of n entries split over tp ranks.         *)
ShardOf(t, n, tp, r) == [l \in Size(n \div tp) |-> t[r * (n \div tp) + l]]

(* The heads of a rank: query heads l on the rank reads its KV head l div  *)
(* the group; with fewer KV heads than ranks the KV heads are replicated.  *)
KvPerRank(kv, tp) == IF kv >= tp THEN kv \div tp ELSE 1
KvOfRank(kv, tp, r, j) == IF kv >= tp THEN r * (kv \div tp) + j ELSE r \div (tp \div kv)

SplitsHeads(q, kv, tp) ==
  /\ q % tp = 0
  /\ IF kv >= tp THEN kv % tp = 0 ELSE tp % kv = 0

PaddedVocab(org, ps) == ((org + ps - 1) \div ps) * ps
=============================================================================
