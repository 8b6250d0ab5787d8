---------------------------- MODULE QuantLinear ----------------------------
(***************************************************************************)
(* The life of a quantized linear layer: its parameters are registered,    *)
(* loaded shard by shard, turned into what the kernel reads, and applied.  *)
(*                                                                         *)
(* One layer, possibly fused from several shards; a row of its weight is   *)
(* one number, and a row of its input too.  Codes are multiples of 4, so   *)
(* that scaling them by 1, 2 or 4 is exact: rounding is left out.          *)
(***************************************************************************)
EXTENDS Integers, Sequences, SequencesExt, FiniteSets, FiniteSetsExt, Functions

CONSTANTS
  Algos,     \* algorithms to try
  Widths,    \* sequences of the widths of the shards
  Block,     \* rows of a block of scales (128)
  Scales,    \* values of a scale
  Biases,    \* values of the bias of every row
  Garbage    \* what memory that was not written may hold

LinearAssumption ==
  /\ Block \in Nat \ {0}
  /\ \A w \in Widths : w \in Seq(Nat \ {0}) /\ w # <<>>
  /\ Scales \subseteq {1, 2, 4} /\ Biases \subseteq Nat /\ Garbage \subseteq Nat

VARIABLES
  algo, widths, bias,
  disk,        \* "split": a tensor for each shard, "fused": one for all
  ckScale, ckInput,   \* scales in the checkpoint, for each shard
  params,      \* the registered parameters: name -> value
  loaded,      \* shards that were loaded
  phase,       \* "new", "created", "processed", "again" when processed again, "failed"
  out          \* output of the layer, or <<>>

checkpoint == <<algo, widths, bias, disk, ckScale, ckInput>>
vars == <<checkpoint, params, loaded, phase, out>>

Shards == DOMAIN widths
Width(shards) == SumFunctionOnSet(widths, shards)
Rows == 1..Width(Shards)
ShardOf(r) == Min({s \in Shards : r <= Width(1..s)})
Code(r) == 4 * r
Input == 4

-----------------------------------------------------------------------------
(* resolve: the keys of the weight and of the activation.                  *)
WeightKey ==
  CASE algo = "FP8" -> "tensor"
    [] algo = "FP8_PER_CHANNEL_PER_TOKEN" -> "channel"
    [] algo = "FP8_PB_WO" -> "block"
    [] algo = "MXFP8" -> "mxfp8"
    [] algo \in {"NVFP4", "W4A16_NVFP4"} -> "nvfp4"

ActivationKey ==
  CASE algo = "FP8" -> "static"
    [] algo = "NVFP4" -> "nvfp4"
    [] algo = "W4A16_NVFP4" -> "none"
    [] OTHER -> "dynamic"

HasInputScale == ActivationKey \in {"static", "nvfp4"}

(* FP8_SCALE_SENTINEL, below any scale, and the NaN of a scale that nobody *)
(* may load.                                                               *)
Sentinel == 0

-----------------------------------------------------------------------------
(* create_weights                                                          *)

PerShard(v) == [s \in Shards |-> v]
PerRow(v) == [r \in Rows |-> v]
Blocks == 1..((Width(Shards) + Block - 1) \div Block)

(* f, and g where it says nothing. *)
Over(f, g) == [x \in DOMAIN f \cup DOMAIN g |-> IF x \in DOMAIN f THEN f[x] ELSE g[x]]

Weight(g) == [weight |-> [rows |-> PerRow(g), layout |-> "out_in", exact |-> FALSE]]

KNvfp4Static(g)      == Over(Weight(g), [weight_scale_2 |-> PerShard(g), weight_scale |-> PerRow(g)])
KFp8StaticTensor(g)  == Over(Weight(g), [weight_scale |-> PerShard(Sentinel)])
KFp8StaticChannel(g) == Over(Weight(g), [weight_scale |-> PerRow(Sentinel)])
KFp8Block128(g)      == Over(Weight(g), [weight_scale |-> [b \in Blocks |-> Sentinel]])
KMxfp8Static(g)      == Over(Weight(g), [weight_scale |-> PerRow(g)])

WeightParams(g) ==
  CASE WeightKey = "nvfp4"   -> KNvfp4Static(g)
    [] WeightKey = "tensor"  -> KFp8StaticTensor(g)
    [] WeightKey = "channel" -> KFp8StaticChannel(g)
    [] WeightKey = "block"   -> KFp8Block128(g)
    [] WeightKey = "mxfp8"   -> KMxfp8Static(g)

ActivationParams(g) ==
  CASE ActivationKey = "static" -> [input_scale |-> PerShard(Sentinel)]
    [] ActivationKey = "nvfp4"  -> [input_scale |-> PerShard(g)]
    [] OTHER -> <<>>

(* _DropInputScale registers the scale a weight-only checkpoint may have.  *)
ExtraWeights == IF algo = "W4A16_NVFP4" THEN [input_scale |-> PerShard(Sentinel)] ELSE <<>>

CreateWeights ==
  /\ phase = "new"
  /\ \E g \in Garbage : params' = Over(Over(WeightParams(g), ActivationParams(g)), ExtraWeights)
  /\ phase' = "created"
  /\ UNCHANGED <<checkpoint, loaded, out>>

-----------------------------------------------------------------------------
(* The loader.  A fused tensor on disk has one scale for all its rows, and *)
(* the loader puts it in the place of the first shard.                     *)

RowsOf(shards) == {r \in Rows : ShardOf(r) \in shards}
BlocksOf(shards) == {(r + Block - 1) \div Block : r \in RowsOf(shards)}
FirstRowOf(shards, b) == Min({r \in RowsOf(shards) : (r + Block - 1) \div Block = b})
DiskScale(s) == IF disk = "fused" THEN ckScale[1] ELSE ckScale[s]

Load(shards, first) ==
  LET rowScale(r) == IF WeightKey = "nvfp4" THEN 2 ELSE DiskScale(ShardOf(r))
      perShard(v, ck) == [v EXCEPT ![first] = ck[first]]
      scales == CASE WeightKey = "tensor" -> perShard(params.weight_scale, ckScale)
                  [] WeightKey = "block" ->
                       Over([b \in BlocksOf(shards) |-> rowScale(FirstRowOf(shards, b))], params.weight_scale)
                  [] OTHER -> Over([r \in RowsOf(shards) |-> rowScale(r)], params.weight_scale)
  IN  /\ phase = "created" /\ loaded \cap shards = {}
      /\ params' = [p \in DOMAIN params |->
           CASE p = "weight" -> [params.weight EXCEPT !.rows = Over([r \in RowsOf(shards) |-> Code(r)], @)]
             [] p = "weight_scale" -> scales
             [] p = "weight_scale_2" -> perShard(params[p], ckScale)
             [] p = "input_scale" -> IF ckInput = <<>> THEN params[p] ELSE perShard(params[p], ckInput)]
      /\ loaded' = loaded \cup shards
      /\ UNCHANGED <<checkpoint, phase, out>>

LoadSplit == disk = "split" /\ \E s \in Shards : Load({s}, s)
LoadFused == disk = "fused" /\ Load(Shards, 1)

-----------------------------------------------------------------------------
(* process_weights_after_loading                                           *)

MaxOf(f) == Max(Range(f))
Without(f, names) == Restrict(f, DOMAIN f \ names)

(* requantize_with_max_scale: rows of shards with scales of their own; a   *)
(* tensor that is fused on disk leaves the last scale unwritten.           *)
Requantized(p) ==
  LET m == MaxOf(p.weight_scale)
  IN  IF p.weight_scale[Len(widths)] = Sentinel THEN p.weight.rows
      ELSE [r \in Rows |-> (p.weight.rows[r] * p.weight_scale[ShardOf(r)]) \div m]

Transposed(weight) == [weight EXCEPT !.layout = IF @ = "out_in" THEN "in_out" ELSE "out_in"]

ProcessTensor(p) ==
  [p EXCEPT !.weight = Transposed([@ EXCEPT !.rows = Requantized(p)]), !.weight_scale = MaxOf(@)]
ProcessChannel(p) == [p EXCEPT !.weight = Transposed(@)]
ProcessNvfp4(p) ==
  Without(Over([weight_global_scale |-> MaxOf(p.weight_scale_2)], p), {"weight_scale_2"})

ProcessWeight(p) ==
  CASE WeightKey = "tensor"  -> ProcessTensor(p)
    [] WeightKey = "channel" -> ProcessChannel(p)
    [] WeightKey = "nvfp4"   -> ProcessNvfp4(p)
    [] OTHER -> p

ProcessActivation(p) ==
  CASE ActivationKey = "static" -> [p EXCEPT !.input_scale = MaxOf(@)]
    [] ActivationKey = "nvfp4" ->
         Without(Over([input_global_scale |-> MaxOf(p.input_scale),
                       input_global_scale_inv |-> MaxOf(p.input_scale)], p), {"input_scale"})
    [] OTHER -> p

(* maybe_fuse_global_scales                                                *)
MaybeFuse(p) ==
  IF {"weight_global_scale", "input_global_scale"} \subseteq DOMAIN p
  THEN Over([alpha |-> p.input_global_scale * p.weight_global_scale], p) ELSE p

Padding(rows) == (Block - (Len(rows) % Block)) % Block

(* post_process of _Fp8PbWoPartialBlock and of _DropInputScale.            *)
PostProcess(p) ==
  CASE algo = "W4A16_NVFP4" -> Without(p, {"input_scale"})
    [] algo = "FP8_PB_WO" /\ Padding(p.weight.rows) > 0 ->
         Over([logical_out |-> Len(p.weight.rows)],
              [p EXCEPT !.weight.rows = @ \o [i \in 1..Padding(@) |-> 0]])
    [] OTHER -> p

(* The kernel's own step: the emulation of MXFP8 may replace the weight by *)
(* its exact values.                                                       *)
Exact(weight, scales) ==
  [weight EXCEPT !.rows = [r \in DOMAIN weight.rows |-> weight.rows[r] * scales[r]], !.exact = TRUE]

KernelProcess(p, emulate) ==
  IF WeightKey = "mxfp8" /\ emulate /\ ~p.weight.exact
  THEN [p EXCEPT !.weight = Exact(@, p.weight_scale)] ELSE p

(* What a second call needs is gone: the scale of plain FP8 has become one *)
(* number, of which the code asks the first, and that of NVFP4 is deleted. *)
Spent == phase # "created" /\ WeightKey \in {"tensor", "nvfp4"}

ProcessWeightsAfterLoading ==
  /\ \/ phase = "created" /\ loaded = Shards
     \/ phase \in {"processed", "again"}    \* on a reload, for any format
  /\ ~Spent
  /\ \E emulate \in BOOLEAN :
       params' = KernelProcess(PostProcess(MaybeFuse(ProcessActivation(ProcessWeight(params)))), emulate)
  /\ phase' = IF phase = "created" THEN "processed" ELSE "again"
  /\ out' = <<>>
  /\ UNCHANGED <<checkpoint, loaded>>

(* It raises before anything of the layer is changed.                      *)
ProcessAgainFails ==
  /\ phase = "processed" /\ Spent
  /\ phase' = "failed" /\ out' = <<>>
  /\ UNCHANGED <<checkpoint, params, loaded>>

-----------------------------------------------------------------------------
(* apply                                                                   *)

(* What the kernels read, for each key of the weight.                      *)
KernelParams ==
  {"weight", "weight_scale"} \cup
  CASE algo = "NVFP4" -> {"weight_global_scale", "input_global_scale", "input_global_scale_inv", "alpha"}
    [] algo = "W4A16_NVFP4" -> {"weight_global_scale"}
    [] algo = "FP8" -> {"input_scale"}
    [] OTHER -> {}

RowScale(r) ==
  CASE WeightKey = "tensor"  -> params.weight_scale
    [] WeightKey = "channel" -> params.weight_scale[r]
    [] WeightKey = "block"   -> params.weight_scale[(r + Block - 1) \div Block]
    [] WeightKey = "mxfp8"   -> IF params.weight.exact THEN 1 ELSE params.weight_scale[r]
    [] WeightKey = "nvfp4"   -> params.weight_scale[r]

(* The kernel on the input and with what the scales of both make of it.    *)
Rescale(v) ==
  CASE algo = "NVFP4" -> (Input \div params.input_global_scale_inv) * v * params.alpha
    [] algo = "W4A16_NVFP4" -> Input * v * params.weight_global_scale
    [] algo = "FP8" -> (Input \div params.input_scale) * v * params.input_scale
    [] OTHER -> Input * v

(* Plain FP8 kernels take the weight transposed, all others as it was.     *)
LayoutFits == params.weight.layout = (IF WeightKey \in {"tensor", "channel"} THEN "in_out" ELSE "out_in")

KernelApply(b) == [r \in DOMAIN params.weight.rows |-> Rescale(params.weight.rows[r] * RowScale(r)) + b]

(* Seeded fault: the kernel adds the bias, and so does the format.         *)
FormatApplyTwice ==
  LET trimmed == SubSeq(KernelApply(bias), 1, params.logical_out)
  IN  IF "logical_out" \notin DOMAIN params THEN KernelApply(bias)
      ELSE [r \in DOMAIN trimmed |-> trimmed[r] + bias]

FormatApply ==
  LET trimmed == SubSeq(KernelApply(0), 1, params.logical_out)
  IN  IF "logical_out" \notin DOMAIN params THEN KernelApply(bias)
      ELSE [r \in DOMAIN trimmed |-> trimmed[r] + bias]

(* A weight laid out otherwise is multiplied all the same: by anything.    *)
Apply ==
  /\ phase \in {"processed", "again"} /\ out = <<>>
  /\ out' \in IF LayoutFits THEN {FormatApply} ELSE {PerRow(g) : g \in Garbage}
  /\ UNCHANGED <<checkpoint, params, loaded, phase>>

-----------------------------------------------------------------------------
(* A block of scales may be partial at the end of the last shard; the      *)
(* loader cannot place the blocks of a shard that starts within one.       *)
BlocksFit == WeightKey = "block" => \A s \in Shards \ {Len(widths)} : Width(1..s) % Block = 0

Init ==
  /\ algo \in Algos /\ widths \in Widths /\ bias \in Biases /\ disk \in {"split", "fused"}
  /\ ckScale \in [Shards -> Scales]
  /\ \/ HasInputScale /\ ckInput \in [Shards -> Scales]
     \/ algo = "W4A16_NVFP4" /\ ckInput \in {<<>>} \cup [Shards -> Scales]
     \/ ~HasInputScale /\ algo # "W4A16_NVFP4" /\ ckInput = <<>>
  /\ BlocksFit
  /\ params = <<>> /\ loaded = {} /\ phase = "new" /\ out = <<>>

Next ==
  \/ CreateWeights \/ LoadSplit \/ LoadFused
  \/ ProcessWeightsAfterLoading \/ ProcessAgainFails
  \/ Apply

Spec == Init /\ [][Next]_vars

-----------------------------------------------------------------------------
(* What the rows of the layer are worth in the checkpoint.                 *)
RowValue(r) ==
  Code(r) * (IF disk = "fused" THEN ckScale[1] ELSE ckScale[ShardOf(r)]) * (IF WeightKey = "nvfp4" THEN 2 ELSE 1)

(* Shards of NVFP4 share their global scale: the code warns that anything  *)
(* else is inexact, and uses the largest.                                  *)
ScaleIsShared == WeightKey = "nvfp4" => Cardinality(Range(ckScale)) = 1

(* NVFP4 has no sentinel: a tensor that is fused on disk leaves the scales *)
(* of the shards after the first as the memory was, and the code takes the *)
(* largest of them.                                                        *)
ScalesAreWritten == WeightKey = "nvfp4" /\ disk = "fused" => Len(widths) = 1

(* Weights of blocks and MXFP8 may be processed again; NVFP4 and plain FP8 *)
(* are refused, but one scale for each row is transposed back.             *)
Ready == phase = "processed" \/ (phase = "again" /\ WeightKey # "channel")

(* ModelOptLinearMethod: in every format, and in the order in which shards *)
(* are loaded, the output has the width of the layer, each row is the one  *)
(* of the checkpoint and the bias counts once, if the scales are shared    *)
(* and written where there is no sentinel; processing again keeps it so,   *)
(* but for the format with a scale for each row.                           *)
OutputIsOfTheCheckpoint ==
  out # <<>> /\ Ready /\ ScaleIsShared /\ ScalesAreWritten =>
    out = [r \in Rows |-> Input * RowValue(r) + bias]

(* process_weights_after_loading leaves exactly the parameters that the    *)
(* selected kernel reads, laid out as it reads them: none of another       *)
(* format, none that was only there to be loaded; after a second time too, *)
(* but for the format with a scale for each row.                           *)
KernelFindsItsParams ==
  Ready => DOMAIN params \ {"logical_out"} = KernelParams /\ LayoutFits
=============================================================================
