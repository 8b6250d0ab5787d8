----------------------------- MODULE DraftSteps -----------------------------
(***************************************************************************)
(* The rounds of the draft model.  Its first step runs over all rows of    *)
(* the batch the target has just verified and selects, for each, the       *)
(* tokens its sparse attention reads; the later steps run over one row per *)
(* request and reuse the selection of the row the target has accepted.     *)
(*                                                                         *)
(* The speculator that calls the steps, and the indexer that fills the     *)
(* buffer unless it skips, are external.                                   *)
(***************************************************************************)
EXTENDS Naturals, Sequences

CONSTANTS
  Requests,     \* most requests of a batch
  MaxRows,      \* most rows of a request: its accepted token and its drafts
  MtpLayers,    \* layers of the draft model
  Steps,        \* draft steps of a round
  MaxRounds

DraftStepsAssumption ==
  Requests \in Nat /\ MaxRows \in Nat /\ MtpLayers \in Nat \ {0} /\ Steps \in Nat \ {0}

VARIABLES
  round,
  count,    \* rows of each request, in the order of the batch
  chosen,   \* chosen[q] = the accepted row of request q
  step,     \* next draft step, 0 = none has run
  phase,    \* "round", "first", "compact" or "later"
  skip,     \* skip[l]: layer l reuses what its buffer has
  topk,     \* topk[l][i] = row i of the layer's topk_indices_buffer
  used      \* used[q] = the selection the last step of request q read

vars == <<round, count, chosen, step, phase, skip, topk, used>>

Layer     == 0..MtpLayers-1
Rows      == 1..Requests * MaxRows
Stale     == <<0, 0>>

(* query_start_loc: rows of the requests before q + 1                      *)
RowsUpTo(c) == LET rows[q \in 0..Len(c)] == IF q = 0 THEN 0 ELSE rows[q - 1] + c[q]
               IN  rows

FirstRow(c, q) == RowsUpTo(c)[q - 1] + 1
LastRow(c, q) == RowsUpTo(c)[q]
Total(c) == RowsUpTo(c)[Len(c)]

Init ==
  /\ round = 0 /\ count = <<1>> /\ chosen = <<1>> /\ step = 0 /\ phase = "round"
  /\ skip = [l \in Layer |-> FALSE]
  /\ topk = [l \in Layer |-> [i \in Rows |-> Stale]]
  /\ used = <<>>

(* The target has verified a batch.                                        *)
Verify(c, rows) ==
  /\ phase = "round" /\ round < MaxRounds
  /\ \A q \in DOMAIN c : rows[q] \in FirstRow(c, q)..LastRow(c, q)
  /\ round' = round + 1
  /\ count' = c /\ chosen' = rows
  /\ step' = 0 /\ phase' = "first"
  /\ used' = <<>>
  /\ UNCHANGED <<skip, topk>>

(* set_skip_topk                                                           *)
SetSkip(b) == [l \in Layer |-> b]

(* The layer of a step                                                     *)
LayerOf(k) == k % MtpLayers

(* forward, step 0: one layer runs over all rows and the indexer selects   *)
(* for each.  A selection is known by its round and its row.               *)
FirstForward ==
  /\ phase = "first"
  /\ skip' = SetSkip(FALSE)
  /\ topk' = [topk EXCEPT ![LayerOf(0)] =
                [i \in Rows |-> IF i <= Total(count) /\ ~skip'[LayerOf(0)]
                                THEN <<round, i>> ELSE topk[LayerOf(0)][i]]]
  /\ used' = [q \in DOMAIN count |-> topk'[LayerOf(0)][chosen[q]]]
  /\ step' = 1 /\ phase' = "compact"
  /\ UNCHANGED <<round, count, chosen>>

(* Seeded fault: the buffer is used as it is.                              *)
CompactNothing(b) == b

(* compact_topk_indices of one buffer: the chosen rows are read before any *)
(* is written.                                                             *)
Compact(b) == [i \in Rows |-> IF i \in DOMAIN chosen THEN b[chosen[i]] ELSE b[i]]

CompactTopk ==
  /\ phase = "compact"
  /\ topk' = [l \in Layer |-> Compact(topk[l])]
  /\ skip' = SetSkip(TRUE)
  /\ phase' = IF step < Steps THEN "later" ELSE "round"
  /\ UNCHANGED <<round, count, chosen, step, used>>

(* forward of a later step: row q is request q.                            *)
LaterForward ==
  /\ phase = "later"
  /\ LET l == LayerOf(step)
     IN  /\ topk' = IF skip[l] THEN topk
                    ELSE [topk EXCEPT ![l] = [i \in Rows |-> IF i <= Len(count) THEN <<round, i>> ELSE topk[l][i]]]
         /\ used' = [q \in DOMAIN count |-> topk'[l][q]]
  /\ step' = step + 1
  /\ phase' = IF step' < Steps THEN "later" ELSE "round"
  /\ UNCHANGED <<round, count, chosen, skip>>

Batches == UNION {[1..n -> 1..MaxRows] : n \in 1..Requests}

Next ==
  \/ \E c \in Batches : \E rows \in [DOMAIN c -> Rows] : Verify(c, rows)
  \/ FirstForward
  \/ CompactTopk
  \/ LaterForward

Spec == Init /\ [][Next]_vars

-----------------------------------------------------------------------------
(* set_skip_topk, compact_topk_indices: every step of a round attends to   *)
(* the selection its own request made in this round for its accepted row,  *)
(* never to one of another request or of the round before.                 *)
SelectionIsReused == \A q \in DOMAIN used : used[q] = <<round, chosen[q]>>
=============================================================================
