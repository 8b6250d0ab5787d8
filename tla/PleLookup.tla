------------------------------ MODULE PleLookup ------------------------------
(***************************************************************************)
(* What the staged n-gram lookup promises, with no pool, no pinned buffer  *)
(* and no CUDA stream: the model runner hands over one batch per step and  *)
(* the forwards run in step order, each reading, for every PLE layer, the  *)
(* table rows of its own step's tokens followed by zeros up to the padded  *)
(* length.  PleStaging is shown to implement this.                         *)
(***************************************************************************)
EXTENDS Integers, Sequences

CONSTANTS
  NumLayers,   \* n-gram embedding modules served from disk
  Heads,       \* ngram_heads: table rows per token
  MaxTokens    \* max_num_tokens: tokens a step may hold after padding

VARIABLES
  batch,       \* the batches handed over so far, one per step
  out          \* what the forwards run so far have read, one per step

vars == <<batch, out>>

Layers == 1..NumLayers

(* A batch: n tokens, padded to `padded`; real is FALSE for the profiling  *)
(* and capture batches that carry no prompt.                               *)
Batches == {b \in [n : 0..MaxTokens, padded : 0..MaxTokens, real : BOOLEAN] :
              b.n <= b.padded}

(* The content of a staging row: the table row of head-row r of step s in  *)
(* layer l, or the zero row.                                               *)
TableRow(l, s, r) == <<l, s, r>>
Zero == <<0, 0, 0>>

RowsOf(b)   == IF b.real THEN b.n * Heads ELSE 0
PaddedOf(b) == b.padded * Heads

ExpectedRow(l, s, b, r) == IF r < RowsOf(b) THEN TableRow(l, s, r) ELSE Zero

Expected(s, b) ==
  [l \in Layers |-> [r \in 0..PaddedOf(b)-1 |-> ExpectedRow(l, s, b, r)]]

Init == batch = << >> /\ out = << >>

Submit(b) == batch' = Append(batch, b) /\ UNCHANGED out

Deliver ==
  /\ Len(out) < Len(batch)
  /\ LET s == Len(out) + 1 IN out' = Append(out, Expected(s, batch[s]))
  /\ UNCHANGED batch

Next == (\E b \in Batches : Submit(b)) \/ Deliver

Spec == Init /\ [][Next]_vars
==============================================================================
