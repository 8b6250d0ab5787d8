----------------------------- MODULE DraftVocab -----------------------------
(***************************************************************************)
(* Drafting over a reduced vocabulary: each tensor-parallel rank computes  *)
(* the logits of those of its rows of lm_head whose ids are below K, the   *)
(* ranks add their buffers, and ids from K on get no logit at all.         *)
(*                                                                         *)
(* A step asks for the logits of one hidden state; the logit of id v       *)
(* under the head h is logit[h][v].  The head starts as the draft model's  *)
(* own and is replaced by the target's before the first step.              *)
(***************************************************************************)
EXTENDS Integers, Sequences

CONSTANTS
  TP,         \* tensor-parallel size
  Vocab,      \* config.vocab_size
  PerRank,    \* ids of the padded vocabulary a rank is given
  Ks,         \* settings of QWEN4EXP_DRAFT_VOCAB to try
  Logits,     \* values of a logit
  MinusInf

Ranks == 0..TP-1
Ids   == 0..Vocab-1
Heads == {"draft", "target"}

DraftAssumption ==
  /\ TP \in Nat \ {0} /\ Vocab \in Nat \ {0} /\ PerRank \in Nat \ {0}
  /\ Vocab <= TP * PerRank /\ Ks \subseteq Nat /\ Logits \subseteq Int

VARIABLES
  k,       \* the setting in force
  head,    \* which weights lm_head is
  cache,   \* cache[r] = the rows kept for drafting, or none yet
  logit,   \* the logits of this step's hidden state
  small,   \* small[r] = the buffer of rank r, one entry for each id below k
  full,    \* full[r] = the logits rank r returns
  pc       \* pc[r] \in {"idle", "reduce", "summed", "done", "failed"}

vars == <<k, head, cache, logit, small, full, pc>>

NoCache == [k |-> -1]

-----------------------------------------------------------------------------
Least(a, b)    == IF a < b THEN a ELSE b
Greatest(a, b) == IF a > b THEN a ELSE b

Start(r) == Least(r * PerRank, Vocab)
End(r)   == Least((r + 1) * PerRank, Vocab)

(* Rows of the head a rank keeps: rows lo-start..hi-start of its own       *)
(* weight, none past k.                                                    *)
CacheOf(r) ==
  LET lo == Greatest(Start(r), 0)
      hi == Least(End(r), k)
  IN  [k |-> k, lo |-> lo, hi |-> hi, of |-> head,
       rows |-> [j \in 0..hi-lo-1 |-> Start(r) + (lo - Start(r)) + j]]

(* Seeded fault: rows kept for another setting are used.                   *)
RefreshedOnce(r) == IF cache[r] = NoCache THEN CacheOf(r) ELSE cache[r]

Refreshed(r) == IF cache[r] = NoCache \/ cache[r].k # k THEN CacheOf(r) ELSE cache[r]

(* The rank's columns of the buffer; zeros where it holds no row.          *)
Partial(c) ==
  [v \in 0..k-1 |-> IF c.lo <= v /\ v < c.hi THEN logit[c.of][c.rows[v - c.lo]] ELSE 0]

(* compute_logits up to the all-reduce.  With no reduction the logits are  *)
(* those of the whole head.                                                *)
ComputeLogits(r) ==
  /\ pc[r] = "idle"
  /\ IF k = 0
     THEN /\ full' = [full EXCEPT ![r] = [v \in Ids |-> logit[head][v]]]
          /\ pc' = [pc EXCEPT ![r] = "done"]
          /\ UNCHANGED <<cache, small>>
     ELSE /\ cache' = [cache EXCEPT ![r] = Refreshed(r)]
          /\ small' = [small EXCEPT ![r] = Partial(Refreshed(r))]
          /\ pc' = [pc EXCEPT ![r] = IF TP > 1 THEN "reduce" ELSE "summed"]
          /\ UNCHANGED full
  /\ UNCHANGED <<k, head, logit>>

Total(v) == LET sum[r \in -1..TP-1] == IF r = -1 THEN 0 ELSE sum[r-1] + small[r][v]
            IN  sum[TP-1]

AllReduce ==
  /\ \A r \in Ranks : pc[r] = "reduce"
  /\ small' = [r \in Ranks |-> [v \in 0..k-1 |-> Total(v)]]
  /\ pc' = [r \in Ranks |-> "summed"]
  /\ UNCHANGED <<k, head, cache, logit, full>>

Widened(s) == [v \in Ids |-> IF v < k THEN s[v] ELSE MinusInf]

(* The buffer is written into one of full width.  It does not fit when k   *)
(* exceeds the vocabulary, and the assignment raises.                      *)
Scatter(r) ==
  /\ pc[r] = "summed"
  /\ IF k > Vocab
     THEN pc' = [pc EXCEPT ![r] = "failed"] /\ UNCHANGED full
     ELSE /\ full' = [full EXCEPT ![r] = Widened(small[r])]
          /\ pc' = [pc EXCEPT ![r] = "done"]
  /\ UNCHANGED <<k, head, cache, logit, small>>

-----------------------------------------------------------------------------
(* The speculator shares the target's lm_head with the draft model once    *)
(* both are loaded, before it drafts.                                      *)
ShareHead ==
  /\ head = "draft"
  /\ head' = "target"
  /\ UNCHANGED <<k, cache, logit, small, full, pc>>

(* The next hidden state.  The setting is read anew for every step.        *)
NextStep ==
  /\ \A r \in Ranks : pc[r] = "done"
  /\ k' \in Ks
  /\ logit' \in [Heads -> [Ids -> Logits]]
  /\ pc' = [r \in Ranks |-> "idle"]
  /\ UNCHANGED <<head, cache, small, full>>

Init ==
  /\ k \in Ks
  /\ head = "draft"
  /\ cache = [r \in Ranks |-> NoCache]
  /\ logit \in [Heads -> [Ids -> Logits]]
  /\ small = [r \in Ranks |-> << >>]
  /\ full = [r \in Ranks |-> << >>]
  /\ pc = [r \in Ranks |-> "idle"]

Next ==
  \/ ShareHead
  \/ head = "target" /\ \E r \in Ranks : ComputeLogits(r) \/ Scatter(r)
  \/ head = "target" /\ (AllReduce \/ NextStep)

Spec == Init /\ [][Next]_vars

-----------------------------------------------------------------------------
(* compute_logits returns, on every rank, the logits of the target's head  *)
(* for the ids below k and nothing for the others, as though one rank held *)
(* the whole head, also when k changed since rows were last kept.          *)
LogitsOfPrefix ==
  \A r \in Ranks : pc[r] = "done" =>
    full[r] = [v \in Ids |-> IF k = 0 \/ v < k THEN logit["target"][v] ELSE MinusInf]

=============================================================================
