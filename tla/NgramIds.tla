------------------------------ MODULE NgramIds ------------------------------
(***************************************************************************)
(* The n-gram every token is looked up by: the token and its NgramSize-1   *)
(* predecessors, cut at the start of the request and at the last EOS.      *)
(* Only the tokens of this step are in the batch, so the predecessors of   *)
(* a chunk come from a context tail the model state reads from the         *)
(* runner's token history each step.                                       *)
(*                                                                         *)
(* Two implementations compute the n-grams: the Triton kernel of           *)
(* ops_ple.py and the torch path of compute_ngram_ids.  The hash of an     *)
(* n-gram into the table is left out.                                      *)
(***************************************************************************)
EXTENDS Integers, Sequences, FiniteSets, TokenSearch

CONSTANTS
  MaxReqs,     \* max_num_reqs: request indices of the runner
  Tokens,      \* token ids
  Eos,         \* the EOS token id
  NgramSize,   \* ngram_size
  NumSpec,     \* draft tokens a decode step may carry
  MaxLen,      \* bound: tokens of a request
  MaxPrompt,   \* bound: tokens of a new request
  MaxPad       \* bound: requests and tokens a batch is padded by

NgramAssumption ==
  /\ MaxReqs \in Nat \ {0}
  /\ Eos \in Tokens
  /\ NgramSize \in Nat /\ NgramSize >= 2
  /\ NumSpec \in Nat /\ MaxLen \in Nat \ {0} /\ MaxPad \in Nat
  /\ MaxPrompt \in 1..MaxLen

VARIABLES
  live,      \* request indices in use
  all,       \* all_token_ids: the tokens of each index, never cleared
  len,       \* how many of them belong to the current request
  computed,  \* num_computed_tokens
  batch,     \* this step's chunks, in batch order
  rows,      \* requests of the batch after padding
  input,     \* the flattened token ids, padding included
  qsl,       \* ple_query_start_loc, a buffer kept between steps
  ctx,       \* ngram_context, a buffer kept between steps
  out,       \* the n-grams of this step's tokens
  kept       \* history: the n-gram of every token computed and not rejected

requests == <<live, all, len, computed>>
buffers  == <<rows, input, qsl, ctx>>
vars     == <<live, all, len, computed, batch, rows, input, qsl, ctx, out, kept>>

Reqs    == 1..MaxReqs
CtxLen  == NgramSize - 1
Shifts  == 0..CtxLen
EosRow  == [c \in 0..CtxLen-1 |-> Eos]
NoInput == << >>
NumTokens == Len(input)

UpTo(S, k) == UNION {[1..n -> S] : n \in 0..k}

Init ==
  /\ live = {}
  /\ all = [r \in Reqs |-> [p \in 0..MaxLen-1 |-> Eos]]
  /\ len = [r \in Reqs |-> 0]
  /\ computed = [r \in Reqs |-> 0]
  /\ batch = << >> /\ rows = 0 /\ input = NoInput
  /\ qsl = [i \in 0..MaxReqs |-> 0]
  /\ ctx = [i \in 0..MaxReqs-1 |-> EosRow]
  /\ out = << >>
  /\ kept = [r \in Reqs |-> << >>]

-----------------------------------------------------------------------------
(* The runner's requests.                                                  *)

(* A request takes a free index; a preempted one comes back this way with  *)
(* the tokens it had.  A cached prefix counts as computed from the start.  *)
Admit(r, prompt, cached) ==
  /\ batch = << >> /\ r \notin live /\ cached < Len(prompt)
  /\ live' = live \cup {r}
  /\ all' = [all EXCEPT ![r] = [p \in 0..MaxLen-1 |-> IF p < Len(prompt) THEN prompt[p+1] ELSE @[p]]]
  /\ len' = [len EXCEPT ![r] = Len(prompt)]
  /\ computed' = [computed EXCEPT ![r] = cached]
  /\ kept' = [kept EXCEPT ![r] = << >>]
  /\ UNCHANGED <<batch, buffers, out>>

(* A request ends or is preempted; its index is free for another.          *)
Release(r) ==
  /\ batch = << >> /\ r \in live
  /\ live' = live \ {r}
  /\ kept' = [kept EXCEPT ![r] = << >>]
  /\ UNCHANGED <<all, len, computed, batch, buffers, out>>

(* What the scheduler may give request r: a chunk of the tokens it has, or *)
(* in decode its last token followed by drafts.                            *)
Chunks(r) ==
  {[req |-> r, q |-> q, drafts |-> d] :
     q \in 1..len[r] - computed[r],
     d \in {d \in UpTo(Tokens, NumSpec) : d # << >> => computed[r] = len[r] - 1}}

Fits(c) == computed[c.req] + c.q = len[c.req] => len[c.req] + Len(c.drafts) + 1 <= MaxLen

ChunkTokens(c) == [j \in 1..c.q |-> all[c.req][computed[c.req] + j - 1]] \o c.drafts
ChunkLen(c)    == c.q + Len(c.drafts)

Flatten(b) ==
  LET f[i \in 0..Len(b)] == IF i = 0 THEN << >> ELSE f[i-1] \o ChunkTokens(b[i])
  IN  f[Len(b)]

(* query_start_loc: where each request begins; padded requests are empty.  *)
QueryStart(b) ==
  LET f[i \in 0..MaxReqs] ==
        IF i = 0 THEN 0 ELSE f[i-1] + (IF i <= Len(b) THEN ChunkLen(b[i]) ELSE 0)
  IN  f

-----------------------------------------------------------------------------
(* The model state.                                                        *)

(* Seeded fault: the context ends with the last token of the request.      *)
ContextOfLast(r) ==
  [c \in 0..CtxLen-1 |->
     LET p == len[r] + c - CtxLen IN IF p >= 0 THEN all[r][p] ELSE Eos]

(* The NgramSize-1 tokens before the first one not yet computed.           *)
ContextOf(r) ==
  [c \in 0..CtxLen-1 |->
     LET p == computed[r] + c - CtxLen IN IF p >= 0 THEN all[r][p] ELSE Eos]

(* _prepare_ngram_context: the rows of the batch are cleared, then those   *)
(* of its requests written; rows after them keep what they had.            *)
PrepareContext(b, padded) ==
  ctx' = [i \in 0..MaxReqs-1 |->
            CASE i < Len(b) -> ContextOf(b[i+1].req)
              [] i \in Len(b)..padded-1 -> EosRow
              [] OTHER -> ctx[i]]

(* prepare_inputs, for a batch padded to `padded` requests and by `tail`.  *)
Prepare(b, padded, tail) ==
  /\ batch = << >> /\ b # << >>
  /\ batch' = b
  /\ rows' = padded
  /\ input' = Flatten(b) \o tail
  /\ qsl' = [i \in 0..MaxReqs |-> IF i <= padded THEN QueryStart(b)[i] ELSE qsl[i]]
  /\ PrepareContext(b, padded)
  /\ out' = << >>
  /\ UNCHANGED <<requests, kept>>

(* prepare_dummy_inputs, before requests come: the same buffers, for n     *)
(* requests that share m tokens evenly, the last ones having one more.     *)
PrepareDummy(n, m) ==
  /\ batch = << >> /\ live = {}
  /\ LET first   == n - (m % n)
         more(i) == IF i > first THEN i - first ELSE 0
     IN  qsl' = [i \in 0..MaxReqs |-> IF i <= n THEN i * (m \div n) + more(i) ELSE qsl[i]]
  /\ ctx' = [i \in 0..MaxReqs-1 |-> IF i < n THEN EosRow ELSE ctx[i]]
  /\ UNCHANGED <<requests, batch, rows, input, out, kept>>

-----------------------------------------------------------------------------
(* The kernel, _ple_ngram_ids_kernel: tokens t count from 0.               *)

RequestOf(t) == FindRequest(qsl, rows, BitLength(rows), t)

(* The token `shift` places before t: from this step's input, or from the  *)
(* context when t is nearer than that to the start of its chunk.           *)
Predecessor(t, shift) ==
  LET req == RequestOf(t)
      pos == t - qsl[req]
  IN  IF pos >= shift THEN input[t - shift + 1] ELSE ctx[req][CtxLen - shift + pos]

(* The walk from newest to oldest; past the first EOS everything is EOS.   *)
KernelGram(t) ==
  LET walk[s \in Shifts] ==
        IF s = 0 THEN [token |-> input[t+1], crossed |-> FALSE]
        ELSE LET cand == IF walk[s-1].crossed THEN Eos ELSE Predecessor(t, s)
             IN  [token |-> cand, crossed |-> walk[s-1].crossed \/ cand = Eos]
  IN  [s \in Shifts |-> walk[s].token]

(* The ids of every token of the batch, padding included.                  *)
Compute ==
  /\ batch # << >> /\ out = << >>
  /\ out' = [t \in 1..NumTokens |-> KernelGram(t - 1)]
  /\ UNCHANGED <<requests, batch, buffers, kept>>

-----------------------------------------------------------------------------
(* The torch path of compute_ngram_ids: one row per request, the context   *)
(* before the chunk and EOS after it.                                      *)

(* searchsorted(right=True) - 1, clamped to the last request.              *)
PackedRequest(t) ==
  LET i == Cardinality({k \in 0..rows : qsl[k] <= t}) - 1
  IN  IF i < rows - 1 THEN i ELSE rows - 1

(* columns, clamped to the packed width.                                   *)
Column(t) ==
  LET c == t - qsl[PackedRequest(t)]
  IN  IF c < 0 THEN 0 ELSE IF c > NumTokens - 1 THEN NumTokens - 1 ELSE c

ContextAndPacked(req) ==
  [i \in 0..CtxLen + NumTokens - 1 |->
     IF i < CtxLen THEN ctx[req][i]
     ELSE LET ts == {t \in 0..NumTokens-1 : PackedRequest(t) = req /\ Column(t) = i - CtxLen}
          IN  IF ts = {} THEN Eos ELSE input[(CHOOSE t \in ts : TRUE) + 1]]

(* Seeded fault: an EOS counts as the end of its own segment.              *)
PositionFromInclusive(row, i) ==
  LET eos == {k \in 0..i : row[k] = Eos} \cup {-1}
  IN  i - (CHOOSE k \in eos : \A m \in eos : m <= k) - 1

(* _shift_precompute: how far position i is from the EOS before it.        *)
PositionInSegment(row, i) ==
  LET eos == {k \in 0..i-1 : row[k] = Eos} \cup {-1}
  IN  i - (CHOOSE k \in eos : \A m \in eos : m <= k) - 1

(* _shift_apply                                                            *)
Shifted(row, i, shift) ==
  IF shift = 0 THEN row[i]
  ELSE IF i - shift >= 0 /\ PositionInSegment(row, i) >= shift THEN row[i - shift] ELSE Eos

PackedGram(t) ==
  LET row == ContextAndPacked(PackedRequest(t))
      i   == Column(t) + CtxLen
  IN  [s \in Shifts |-> Shifted(row, i, s)]

-----------------------------------------------------------------------------
(* The runner samples: chunk i accepts its first acc[i] drafts and, when it*)
(* reached the end of the request, one new token.                          *)

(* The tokens of chunk c that stay: its own and the drafts accepted.       *)
Accepted(c, a) == c.q + a

ReachesEnd(c) == computed[c.req] + c.q = len[c.req]
ChunkOf(r) == CHOOSE i \in 1..Len(batch) : batch[i].req = r
InBatch == {batch[i].req : i \in 1..Len(batch)}

Sample(acc, new) ==
  LET NewTokens(i) ==
        IF ReachesEnd(batch[i]) THEN SubSeq(batch[i].drafts, 1, acc[i]) \o <<new[i]>> ELSE << >>
      Start(i) == QueryStart(batch)[i-1]
  IN
  /\ batch # << >> /\ out # << >>
  /\ all' = [r \in Reqs |-> [p \in 0..MaxLen-1 |->
       IF r \in InBatch /\ p \in len[r]..len[r] + Len(NewTokens(ChunkOf(r))) - 1
       THEN NewTokens(ChunkOf(r))[p - len[r] + 1] ELSE all[r][p]]]
  /\ len' = [r \in Reqs |-> IF r \in InBatch THEN len[r] + Len(NewTokens(ChunkOf(r))) ELSE len[r]]
  /\ computed' = [r \in Reqs |->
       IF r \in InBatch THEN computed[r] + Accepted(batch[ChunkOf(r)], acc[ChunkOf(r)]) ELSE computed[r]]
  /\ kept' = [r \in Reqs |->
       IF r \in InBatch
       THEN LET i == ChunkOf(r)
            IN  kept[r] \o SubSeq(out, Start(i) + 1, Start(i) + Accepted(batch[i], acc[i]))
       ELSE kept[r]]
  /\ batch' = << >> /\ rows' = 0 /\ input' = NoInput /\ out' = << >>
  /\ UNCHANGED <<live, qsl, ctx>>

-----------------------------------------------------------------------------
Batches ==
  {b \in UNION {[1..n -> UNION {Chunks(r) : r \in live}] : n \in 1..Cardinality(live)} :
     /\ \A i, j \in DOMAIN b : i # j => b[i].req # b[j].req
     /\ \A i \in DOMAIN b : Fits(b[i])}

Next ==
  \/ \E r \in Reqs, prompt \in UpTo(Tokens, MaxPrompt), cached \in 0..MaxPrompt-1 : Admit(r, prompt, cached)
  \/ \E r \in Reqs : Release(r)
  \/ \E b \in Batches, tail \in UpTo(Tokens, MaxPad) :
       \E padded \in Len(b)..MaxReqs : padded <= Len(b) + MaxPad /\ Prepare(b, padded, tail)
  \/ \E n \in Reqs, m \in 1..MaxLen : PrepareDummy(n, m)
  \/ Compute
  \/ \E acc \in [1..Len(batch) -> 0..NumSpec], new \in [1..Len(batch) -> Tokens] :
       /\ \A i \in DOMAIN acc : acc[i] <= Len(batch[i].drafts)
       /\ Sample(acc, new)

Spec == Init /\ [][Next]_vars

-----------------------------------------------------------------------------
Gram == [Shifts -> Tokens]

(* Every variable has its type; a request in use always has a token still  *)
(* to compute, also after a step that rejected drafts.                     *)
TypeOK ==
  /\ live \subseteq Reqs
  /\ all \in [Reqs -> [0..MaxLen-1 -> Tokens]]
  /\ len \in [Reqs -> 0..MaxLen]
  /\ computed \in [Reqs -> 0..MaxLen]
  /\ \A r \in live : computed[r] < len[r]
  /\ rows \in 0..MaxReqs
  /\ input \in Seq(Tokens)
  /\ qsl \in [0..MaxReqs -> Nat]
  /\ ctx \in [0..MaxReqs-1 -> [0..CtxLen-1 -> Tokens]]
  /\ out \in Seq(Gram)
  /\ kept \in [Reqs -> Seq(Gram)]

(* The n-gram of position p of a token history: a predecessor counts when  *)
(* it exists and no EOS lies between it and p, itself included.            *)
GramOfHistory(r, p) ==
  [s \in Shifts |->
     IF s <= p /\ (\A k \in p-s..p-1 : all[r][k] # Eos) THEN all[r][p-s] ELSE Eos]

(* Whatever chunks a prompt was cut into, whatever drafts came and went,   *)
(* and whoever had the request's index before: each token that counts as   *)
(* computed was looked up by the n-gram of the request's own full history  *)
(* (_prepare_ngram_context and _ple_ngram_ids_kernel together).            *)
KeptGramsAreOfHistory ==
  \A r \in live : \A k \in 1..Len(kept[r]) :
    kept[r][k] = GramOfHistory(r, computed[r] - Len(kept[r]) + k - 1)

(* The kernel and the torch path give every token of every batch the same  *)
(* n-gram, the tokens padded past the last request included.               *)
PathsAgree ==
  out # << >> => \A t \in 1..NumTokens : out[t] = PackedGram(t - 1)

=============================================================================
