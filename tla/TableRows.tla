----------------------------- MODULE TableRows -----------------------------
(***************************************************************************)
(* Rows and who holds them: the rows of the n-gram table from the          *)
(* checkpoint to the reader, those rows divided over the ranks, and the    *)
(* rows of lm_head a draft takes its logits from.  The three share no      *)
(* state; a behaviour runs one of them, and the others stay at rest.       *)
(***************************************************************************)
EXTENDS RankSlices, Sequences

CONSTANTS
  Checkpoints, NgramParts, EmbeddingDim, ChunkRows, Other, StrayFile,   \* PleTable
  DraftTP, Vocab, PerDraftRank, Ks, Logits, MinusInf               \* DraftVocab

VARIABLES
  part,                                                  \* "table", "slices" or "drafts"
  ckpt, indexed, toLoad, toScan, shards, table, phase,   \* PleTable
  k, head, cache, logit, small, full, dpc                \* DraftVocab

tableVars == <<ckpt, indexed, toLoad, toScan, shards, table, phase>>
draftVars == <<k, head, cache, logit, small, full, dpc>>
rowsVars  == <<part, tableVars, vars, draftVars>>

OfTable  == INSTANCE PleTable WITH Parts <- NgramParts
OfDrafts == INSTANCE DraftVocab WITH TP <- DraftTP, PerRank <- PerDraftRank, pc <- dpc

RowsAssumption == OfTable!TableAssumption /\ OfDrafts!DraftAssumption

-----------------------------------------------------------------------------
TableAtRest  == /\ ckpt = {} /\ indexed = FALSE /\ toLoad = {} /\ toScan = {}
                /\ shards = <<>> /\ table = <<>> /\ phase = "rest"
DraftsAtRest == /\ k = 0 /\ head = "rest" /\ cache = <<>> /\ logit = <<>>
                /\ small = <<>> /\ full = <<>> /\ dpc = <<>>
SlicesAtRest == Init /\ \A i \in SlotIds : ids[i] = 0

InitRows ==
  \/ part = "table"  /\ OfTable!Init /\ SlicesAtRest /\ DraftsAtRest
  \/ part = "slices" /\ TableAtRest /\ Init /\ DraftsAtRest
  \/ part = "drafts" /\ TableAtRest /\ SlicesAtRest /\ OfDrafts!Init

NextRows ==
  \/ part = "table"  /\ OfTable!Next /\ UNCHANGED <<part, vars, draftVars>>
  \/ part = "slices" /\ Next /\ UNCHANGED <<part, tableVars, draftVars>>
  \/ part = "drafts" /\ OfDrafts!Next /\ UNCHANGED <<part, tableVars, vars>>

SpecRows == InitRows /\ [][NextRows]_rowsVars

-----------------------------------------------------------------------------
(* Whatever lies in the files, a table PLEMmapTable accepts returns for    *)
(* every row the bytes of that row, and a whole checkpoint is accepted:    *)
(* see PleTable.                                                           *)
RowsAreTheirOwn == part = "table" => OfTable!RowsAreTheirOwn /\ OfTable!WholeIsAccepted

(* The contiguous reader of the resident mode returns what the reader of   *)
(* single rows does, for every range of rows: see PleTable.                *)
ReadersAgree == part = "table" => OfTable!ReadersAgree

(* Drafting over a reduced vocabulary gives every rank the logits of the   *)
(* target's head for the ids below k and none for the others: see          *)
(* DraftVocab.                                                             *)
LogitsOfPrefix == part = "drafts" => OfDrafts!LogitsOfPrefix
=============================================================================
