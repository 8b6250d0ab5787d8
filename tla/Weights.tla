------------------------------ MODULE Weights -------------------------------
(***************************************************************************)
(* The weights of a ModelOpt checkpoint: which method every layer gets,    *)
(* and a linear layer from its parameters to its output.  A behaviour      *)
(* lists the layers of a checkpoint one after another, after each of which *)
(* the model is given its methods, or runs one linear layer.               *)
(***************************************************************************)
EXTENDS QuantDispatch

CONSTANTS
  Topics,         \* what to look at, out of "layers", "formats", "drafts" and "linear"
  LayerKeys,      \* names the checkpoint may list: of any layers,
  DraftKeys,      \* and of those where experts and draft layers are told apart
  ListedAlgos,    \* algorithms of its entries
  MaxEntries,     \* bound: entries of the checkpoint
  LinearLayers,   \* vLLM's names of linear layers
  ExpertLayers,   \* and of experts, those of the draft layers included
  Names,          \* names to ask of in either format
  HiddenLayers,   \* the draft layers are numbered from here on
  DraftLayers,    \* number of draft layers
  Raws,           \* raw configs, in the flat format
  Widths, Block, Scales, Biases, Garbage   \* QuantLinear

VARIABLES
  topic, raw,
  algo, widths, bias, disk, ckScale, ckInput, params, loaded, stage, out   \* QuantLinear

linearVars == <<algo, widths, bias, disk, ckScale, ckInput, params, loaded, stage, out>>

Linear == INSTANCE QuantLinear WITH Algos <- LinearAlgos, phase <- stage

Layers == LinearLayers \cup ExpertLayers
Experts == {name \in ExpertLayers : DraftPlaces(name) # {}}

MixedRaw ==
  [ format |-> "flat", algo |-> "MIXED_PRECISION", kv |-> "none", gs |-> 0, legacy_ex |-> <<>>,
    flat_ex |-> <<>>, missing |-> {}, weight_only |-> FALSE, layers |-> <<>> ]

-----------------------------------------------------------------------------
(* Independently of the lookup: the names the checkpoint may have for a    *)
(* layer, and its entries for the layer, its shards or what is below it.   *)
(* A checkpoint numbers its draft layers from 0.                           *)
OwnNames(name) ==
  {name} \cup (IF Last(name) = "lm_head" THEN {<<"lm_head">>} ELSE {})
         \cup UNION {{[name EXCEPT ![i] = Digits[d + 1]] :
                        d \in {e \in 0..DraftLayers-1 : name[i] = Digits[HiddenLayers + e + 1]}} :
                     i \in DraftPlaces(name)}

ShardsOf(name) ==
  IF Last(name) \in DOMAIN PackedModules
  THEN {Append(Parent(name), s) : s \in ToSet(PackedModules[Last(name)])} ELSE {}

IsOwn(key, name) == \E n \in OwnNames(name) : IsPrefix(n, key) \/ key \in ShardsOf(n)

OwnEntries(ck, name) == {i \in DOMAIN ck : IsOwn(ck[i].key, name)}

-----------------------------------------------------------------------------
(* Names of layers, as vLLM has them.                                      *)
IsLayerName(name) ==
  /\ name \in Seq(STRING) /\ Len(name) > 1
  /\ ~Under(name, <<"language_model", "model">>) /\ ~Under(name, <<"model", "language_model">>)
  /\ \A i, j \in DraftPlaces(name) : i = j
  /\ \A i \in DraftPlaces(name) :
       /\ i < Len(name) - 1
       /\ \E d \in 0..DraftLayers-1 : name[i] = Digits[HiddenLayers + d + 1]

ListedKeys == {Mapped(key, FALSE) : key \in LayerKeys}

(* Nothing is below a linear layer, and a fused one is not listed itself.  *)
IsLeaf(name) ==
  LET under(key) == \E n \in OwnNames(name) : IsPrefix(n, key)
  IN  /\ \A k1, k2 \in ListedKeys : under(k1) /\ under(k2) => k1 = k2
      /\ Last(name) \in DOMAIN PackedModules => ~\E key \in ListedKeys : under(key)
      /\ Last(name) \in DOMAIN PackedModules => Last(Parent(name)) # "lm_head"

(* The names of the checkpoint stay apart when they are mapped, and number *)
(* its draft layers from 0.                                                *)
NamesAssumption ==
  /\ HiddenLayers \in Nat \ {0} /\ DraftLayers \in Nat /\ HiddenLayers + DraftLayers <= Len(Digits)
  /\ "lm_head" \notin DOMAIN PackedModules /\ "experts" \notin DOMAIN PackedModules
  /\ \A a \in ListedAlgos : a \in STRING /\ a \notin {"none", "mixed"}
  /\ \A key \in LayerKeys : key \in Seq(STRING) /\ key # <<>>
  /\ \A k1, k2 \in LayerKeys : Mapped(k1, FALSE) = Mapped(k2, FALSE) => k1 = k2
  /\ \A key \in ListedKeys : \A i \in DraftPlaces(key) : \E d \in 0..DraftLayers-1 : key[i] = Digits[d + 1]
  /\ \A name \in LinearLayers : IsLayerName(name) /\ IsLeaf(name)
  /\ \A name \in ExpertLayers : IsLayerName(name) /\ Last(name) = "experts"

(* Raw configs in the flat format, to be said in the legacy format too.    *)
(* What is missing there has no value here.                                *)
RawsAssumption ==
  \A r \in Raws : /\ DOMAIN r = DOMAIN MixedRaw /\ r.format = "flat" /\ r.layers = <<>>
                  /\ "group_size" \in r.missing => r.gs = 0
                  /\ "kv_cache_quant_algo" \in r.missing => r.kv = "none"
                  /\ "exclude_modules" \in r.missing => r.flat_ex = <<>>

WeightsAssumption == DispatchAssumption /\ NamesAssumption /\ RawsAssumption /\ Linear!LinearAssumption

-----------------------------------------------------------------------------
LinearAtRest == /\ algo = "none" /\ widths = <<>> /\ bias = 0 /\ disk = "none" /\ ckScale = <<>>
                /\ ckInput = <<>> /\ params = <<>> /\ loaded = {} /\ stage = "rest" /\ out = <<>>

InitWeights ==
  /\ topic \in Topics
  /\ \/ topic \in {"layers", "drafts"} /\ raw = MixedRaw /\ LinearAtRest
     \/ topic = "formats" /\ raw \in Raws /\ LinearAtRest
     \/ topic = "linear" /\ raw = MixedRaw /\ Linear!Init

(* What is listed, and how much: one entry where the formats are compared. *)
Listed == IF topic = "layers" THEN LayerKeys ELSE DraftKeys
Bound  == IF topic = "formats" THEN 1 ELSE MaxEntries

Entry(key, a) == [key |-> key, algo |-> a, gs |-> IF a \in BlockFp8 THEN 128 ELSE 16]

List ==
  /\ topic # "linear" /\ Len(raw.layers) < Bound
  /\ \E key \in Listed \ {raw.layers[i].key : i \in DOMAIN raw.layers}, a \in ListedAlgos :
       raw' = [raw EXCEPT !.layers = Append(@, Entry(key, a))]
  /\ UNCHANGED <<topic, linearVars>>

RunLinear == topic = "linear" /\ Linear!Next /\ UNCHANGED <<topic, raw>>

NextWeights == List \/ RunLinear

SpecWeights == InitWeights /\ [][NextWeights]_<<topic, raw, linearVars>>

LoadedConfig(config, r) == LET c == FromConfig(config, r) IN IF IsError(c) THEN c ELSE ApplyVllmMapper(c)
Config == LoadedConfig("modelopt_mixed", raw)

-----------------------------------------------------------------------------
(* _resolve_quant_algo: a layer whose entries agree gets their algorithm,  *)
(* whatever else the checkpoint lists, in whatever order and under         *)
(* whichever of its names.                                                 *)
OwnEntryDecides ==
  topic = "layers" /\ raw.layers # <<>> =>
    \A name \in Layers :
      LET algos == AlgosOf(Config.layers, OwnEntries(Config.layers, name))
      IN  Cardinality(algos) = 1 => ResolveQuantAlgo(Config.layers, name) \in algos

(* _resolve_quant_algo: shards of a fused projection that differ are       *)
(* refused, never loaded by the rules of one of them.                      *)
DisagreementIsRefused ==
  topic = "layers" /\ raw.layers # <<>> =>
    \A name \in LinearLayers :
      Cardinality(AlgosOf(Config.layers, OwnEntries(Config.layers, name))) > 1 =>
        GetQuantMethod(Config, "linear", name).method = "error"

Kinds(name) == IF Last(name) = "experts" THEN {"experts"} ELSE {"linear", "attention"}

(* The methods of a layer in the flat and in the legacy format: the same,  *)
(* but for the two things that one of the formats does not say.            *)
SameMethod(r, config, kind, flat, legacy) ==
  IF config = "modelopt_mixed" /\ kind = "attention" /\ r.kv \notin {"none", "FP8"}
  THEN flat = Plain("none") /\ legacy = Plain("kv_cache")
  ELSE IF r.algo = "NVFP4" /\ r.weight_only /\ legacy.algo = "NVFP4"
  THEN flat = [legacy EXCEPT !.algo = "W4A16_NVFP4"]
  ELSE flat = legacy

(* from_config, apply_vllm_mapper, get_quant_method: whether a checkpoint  *)
(* is described in the legacy format or in that of config.json, the class  *)
(* that claims it gives every layer the same method, but for two things:   *)
(* NVFP4 of the weights alone is seen in the flat format only, and a cache *)
(* of mixed precision quantized otherwise than as FP8 in the legacy one    *)
(* only.  The legacy format is refused for fields it requires and for a    *)
(* cache algorithm that is no string, and for nothing else that the flat   *)
(* format accepts.                                                         *)
FormatsAgree ==
  topic = "formats" =>
    \A config \in ClaimedBy(raw.algo) :
      LET flat   == LoadedConfig(config, raw)
          legacy == LoadedConfig(config, [raw EXCEPT !.format = "legacy", !.legacy_ex = raw.flat_ex,
                                              !.flat_ex = <<>>])
      IN  /\ IsError(legacy) <=>
               IsError(flat) \/ raw.kv = "other" \/ raw.missing \cap RequiredFields(config) # {}
          /\ ~IsError(legacy) => \A name \in Names : \A kind \in Kinds(name) :
               SameMethod(raw, config, kind, GetQuantMethod(flat, kind, name),
                                             GetQuantMethod(legacy, kind, name))

(* ModelOptLinearMethod: a linear layer computes what the checkpoint says, *)
(* with exactly the parameters its kernel reads, where the scales it loads *)
(* determine it and unless it is processed again in a format that does not *)
(* bear that: QuantLinear says which.                                      *)
OutputIsOfTheCheckpoint ==
  topic = "linear" => Linear!OutputIsOfTheCheckpoint /\ Linear!KernelFindsItsParams

(* "Offer the draft-local index as an extra candidate (single- and         *)
(* multi-layer MTP)": every draft layer gets the algorithm of its own      *)
(* entry.  The candidates begin with draft layer 0, for every layer.       *)
DraftLayersKeepTheirs ==
  topic = "drafts" /\ raw.layers # <<>> =>
    \A name \in Experts :
      LET algos == AlgosOf(Config.layers, OwnEntries(Config.layers, name))
      IN  Cardinality(algos) = 1 => ResolveQuantAlgo(Config.layers, name) \in algos
=============================================================================
