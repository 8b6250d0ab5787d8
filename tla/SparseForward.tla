---------------------------- MODULE SparseForward ---------------------------
(***************************************************************************)
(* The parts of a forward that sparse attention is made of: the rounds of  *)
(* the draft model with the selections its steps share, a layer with the   *)
(* cache it is bound to, the index that pools the keys, and the kernel of  *)
(* a row.  They meet in the selection and share no state; a behaviour runs *)
(* one of them, and what it does not run stays at rest.                    *)
(***************************************************************************)
EXTENDS Integers, Sequences

CONSTANTS
  DraftRequests, DraftRows, MtpLayers, Steps, DraftRounds,         \* DraftSteps
  LayerConfigs, Addresses, PageSize, Pages, StepRows, Pad,         \* QsaLayer
  Requests, Keys, Ratio, Ring, ChunkRows, BatchRows, Drafts, MaxLen, Rounds,  \* QsaCompress
  Selections, Blocks, KernelRequests, MaxScore                     \* QsaAttention

VARIABLES
  scope,                                                     \* what runs
  round, count, chosen, step, phase, skip, topk, used,       \* DraftSteps
  config, state, impl, bound, handedOut, views, tokens, selected, read,  \* QsaLayer
  history, ring, table, chunk, pooled, rounds,               \* QsaCompress
  cf, tile, running, output, programs                        \* QsaAttention

draftVars  == <<round, count, chosen, step, phase, skip, topk, used>>
layerVars  == <<config, state, impl, bound, handedOut, views, tokens, selected, read>>
indexVars  == <<history, ring, table, chunk, pooled, rounds>>
kernelVars == <<cf, tile, running, output, programs>>
sparseVars == <<scope, draftVars, layerVars, indexVars, kernelVars>>

Draft  == INSTANCE DraftSteps WITH Requests <- DraftRequests, MaxRows <- DraftRows,
                                   MaxRounds <- DraftRounds

Layer  == INSTANCE QsaLayer WITH Configs <- LayerConfigs, MaxRows <- StepRows,
  cf <- config, phase <- state, buffer <- bound, used <- handedOut, history <- tokens,
  step <- selected, output <- read

Index  == INSTANCE QsaCompress WITH MaxRows <- ChunkRows, batch <- chunk

Kernel == INSTANCE QsaAttention WITH Configs <- Selections, Requests <- KernelRequests,
                                     phase <- programs

SparseAssumption ==
  /\ Draft!DraftStepsAssumption /\ Layer!LayerAssumption
  /\ Index!CompressAssumption /\ Kernel!AttentionAssumption

-----------------------------------------------------------------------------
IndexAtRest  == /\ history = <<>> /\ ring = <<>> /\ table = <<>> /\ chunk = <<>>
                /\ pooled = <<>> /\ rounds = 0
KernelAtRest == /\ cf = <<>> /\ tile = <<>> /\ running = <<>> /\ output = <<>>
                /\ programs = "rest"
LayerAtRest  == /\ config = <<>> /\ state = "rest" /\ impl = Layer!Plain /\ bound = Layer!NoBuffer
                /\ handedOut = {} /\ views = Layer!None /\ tokens = 0
                /\ selected = <<>> /\ read = <<>>

AtRest == Draft!Init /\ LayerAtRest /\ IndexAtRest /\ KernelAtRest

InitSparse ==
  \/ scope = "drafts" /\ AtRest
  \/ scope = "layer"  /\ Draft!Init /\ Layer!Init /\ IndexAtRest /\ KernelAtRest
  \/ scope = "index"  /\ Draft!Init /\ LayerAtRest /\ Index!Init /\ KernelAtRest
  \/ scope = "kernel" /\ Draft!Init /\ LayerAtRest /\ IndexAtRest /\ Kernel!Init

NextSparse ==
  \/ scope = "drafts" /\ Draft!Next  /\ UNCHANGED <<scope, layerVars, indexVars, kernelVars>>
  \/ scope = "layer"  /\ Layer!Next  /\ UNCHANGED <<scope, draftVars, indexVars, kernelVars>>
  \/ scope = "index"  /\ Index!Next  /\ UNCHANGED <<scope, draftVars, layerVars, kernelVars>>
  \/ scope = "kernel" /\ Kernel!Next /\ UNCHANGED <<scope, draftVars, layerVars, indexVars>>

SpecSparse == InitSparse /\ [][NextSparse]_sparseVars

-----------------------------------------------------------------------------
(* Every step of the draft model attends to what its own request selected  *)
(* in this round: see DraftSteps.                                          *)
SelectionIsReused == scope = "drafts" => Draft!SelectionIsReused

(* Every row of _run_qsa reads the tokens the index selected for it, in    *)
(* the format they were written in, through views of the buffer that is    *)
(* bound: see QsaLayer.                                                    *)
RowsReadTheirSelection ==
  scope = "layer" => Layer!RowsReadTheirSelection /\ Layer!ViewsAreOfTheBuffer

(* A split of heads over ranks that is not refused gives every query its   *)
(* KV head: see QsaLayer.                                                  *)
QueriesFindTheirHead == scope = "layer" => Layer!QueriesFindTheirHead

(* A pooled key is made of the tokens of its group, whatever was rejected  *)
(* or replaced before, and the ring holds the kept tokens of the group     *)
(* that is being collected: see QsaCompress.                               *)
PooledIsHistory == scope = "index" => Index!PooledIsHistory /\ Index!UnfinishedGroupIsHeld

(* Whatever the split into programs and their order, a row gets the        *)
(* softmax over its selected tokens, and no program is left without a      *)
(* tile: see QsaAttention.                                                 *)
OutputIsSoftmax == scope = "kernel" => Kernel!OutputIsSoftmax /\ Kernel!TilesAreDealt
=============================================================================
