----------------------------- MODULE RankSlices -----------------------------
(***************************************************************************)
(* The resident mode of the n-gram table: every tensor-parallel rank keeps *)
(* a slice of the rows on its GPU, looks up the rows it has, writes zeros  *)
(* for the others, and the ranks add their buffers up byte by byte.        *)
(*                                                                         *)
(* A row is one byte here; the sum is taken for each byte on its own.  The *)
(* buffers are added one rank at a time, in any order, as a ring does.     *)
(***************************************************************************)
EXTENDS Integers

CONSTANTS
  TP,        \* tensor-parallel size
  Rows,      \* rows of the table
  PerRank,   \* rows of the padded vocabulary a rank is given
  Byte,      \* values of a byte
  Table,     \* row -> byte
  Slots      \* ids looked up in a step

Ranks   == 0..TP-1
RowIds  == 0..Rows-1
SlotIds == 1..Slots

ASSUME SliceAssumption ==
  /\ TP \in Nat \ {0} /\ Rows \in Nat \ {0} /\ PerRank \in Nat \ {0}
  /\ Byte \in Nat \ {0, 1} /\ Slots \in Nat
  /\ Table \in [RowIds -> 0..Byte-1]
  /\ Rows <= TP * PerRank

VARIABLES
  slab,    \* slab[r] = the rows rank r holds, by their place in its slice
  loaded,  \* the ranks that have loaded their slice
  ids,     \* the rows asked for in this step, the same on every rank
  out,     \* out[r] = the buffer of rank r
  pc,      \* pc[r] \in {"idle", "reduce", "done", "failed"}
  summed,  \* ranks whose buffer is in the sum
  acc      \* the sum so far

vars == <<slab, loaded, ids, out, pc, summed, acc>>

-----------------------------------------------------------------------------
Least(a, b) == IF a < b THEN a ELSE b

(* shard_indices.org_vocab_start_index and org_vocab_end_index             *)
Start(r) == Least(r * PerRank, Rows)
End(r)   == Least((r + 1) * PerRank, Rows)

Count(r) == IF End(r) > Start(r) THEN End(r) - Start(r) ELSE 0

(* _ple_load_resident_slice.  A second visit of load_weights finds the     *)
(* slice there and leaves it.                                              *)
LoadSlice(r) ==
  /\ pc[r] = "idle"
  /\ IF r \in loaded THEN UNCHANGED slab
     ELSE slab' = [slab EXCEPT ![r] = [j \in 0..Count(r)-1 |-> Table[Start(r) + j]]]
  /\ loaded' = loaded \union {r}
  /\ UNCHANGED <<ids, out, pc, summed, acc>>

(* Seeded fault: rows of other ranks are clamped to row 0 and not zeroed.  *)
OwnRowsUnmasked(r) ==
  [k \in SlotIds |->
     LET local == ids[k] - Start(r)
         mask  == 0 <= local /\ local < Count(r)
     IN  slab[r][IF mask THEN local ELSE 0]]

(* The rows of this rank, zeros for the others.                            *)
OwnRows(r) ==
  [k \in SlotIds |->
     LET local == ids[k] - Start(r)
         mask  == 0 <= local /\ local < Count(r)
     IN  slab[r][IF mask THEN local ELSE 0] * (IF mask THEN 1 ELSE 0)]

(* The forward of one rank up to the all-reduce.  Selecting from an empty  *)
(* slice is an error of the device.                                        *)
Lookup(r) ==
  /\ pc[r] = "idle" /\ loaded = Ranks
  /\ IF Count(r) = 0
     THEN pc' = [pc EXCEPT ![r] = "failed"] /\ UNCHANGED out
     ELSE /\ out' = [out EXCEPT ![r] = OwnRows(r)]
          /\ pc' = [pc EXCEPT ![r] = IF TP > 1 THEN "reduce" ELSE "done"]
  /\ UNCHANGED <<slab, loaded, ids, summed, acc>>

(* The collective: no rank's buffer leaves before every rank is in it.     *)
Contribute(r) ==
  /\ \A q \in Ranks : pc[q] = "reduce"
  /\ r \notin summed
  /\ acc' = [k \in SlotIds |-> (acc[k] + out[r][k]) % Byte]
  /\ summed' = summed \union {r}
  /\ UNCHANGED <<slab, loaded, ids, out, pc>>

Distribute ==
  /\ summed = Ranks
  /\ out' = [r \in Ranks |-> acc]
  /\ pc' = [r \in Ranks |-> "done"]
  /\ summed' = {}
  /\ acc' = [k \in SlotIds |-> 0]
  /\ UNCHANGED <<slab, loaded, ids>>

(* The next step looks other rows up.                                      *)
NextStep ==
  /\ \A r \in Ranks : pc[r] = "done"
  /\ ids' \in [SlotIds -> RowIds]
  /\ pc' = [r \in Ranks |-> "idle"]
  /\ UNCHANGED <<slab, loaded, out, summed, acc>>

Init ==
  /\ slab = [r \in Ranks |-> << >>]
  /\ loaded = {}
  /\ ids \in [SlotIds -> RowIds]
  /\ out = [r \in Ranks |-> [k \in SlotIds |-> 0]]
  /\ pc = [r \in Ranks |-> "idle"]
  /\ summed = {}
  /\ acc = [k \in SlotIds |-> 0]

Next ==
  \/ \E r \in Ranks : LoadSlice(r) \/ Lookup(r) \/ Contribute(r)
  \/ Distribute
  \/ NextStep

Spec == Init /\ [][Next]_vars

-----------------------------------------------------------------------------
Done(r) == pc[r] = "done"

(* What the byte-wise sum in _ple_mmap_gather_into relies on: after it,    *)
(* every rank holds, for every id, the row of the table itself.  Exactly   *)
(* one rank contributes it, whatever the split of the rows.                *)
SumIsCopy ==
  \A r \in Ranks : Done(r) => \A k \in SlotIds : out[r][k] = Table[ids[k]]

(* The inductive invariant behind it: what each rank holds and has looked  *)
(* up, and the sum of the ranks that are in it.                            *)
Owner(r, id) == Start(r) <= id /\ id < End(r)

TypeInv ==
  /\ ids \in [SlotIds -> RowIds]
  /\ loaded \subseteq Ranks /\ summed \subseteq Ranks
  /\ pc \in [Ranks -> {"idle", "reduce", "done", "failed"}]
  /\ DOMAIN slab = Ranks /\ DOMAIN out = Ranks
  /\ acc \in [SlotIds -> 0..Byte-1]

SlabInv ==
  \A r \in loaded : slab[r] = [j \in 0..Count(r)-1 |-> Table[Start(r) + j]]

StepInv ==
  /\ \A r \in Ranks : pc[r] # "idle" => loaded = Ranks
  /\ \A r \in Ranks : pc[r] = "reduce" =>
       out[r] = [k \in SlotIds |-> IF Owner(r, ids[k]) THEN Table[ids[k]] ELSE 0]
  /\ \A r \in Ranks : pc[r] = "done" => out[r] = [k \in SlotIds |-> Table[ids[k]]]

SumInv ==
  /\ summed # {} => \A r \in Ranks : pc[r] = "reduce"
  /\ acc = [k \in SlotIds |-> IF \E r \in summed : Owner(r, ids[k]) THEN Table[ids[k]] ELSE 0]

IInv == TypeInv /\ SlabInv /\ StepInv /\ SumInv

=============================================================================
