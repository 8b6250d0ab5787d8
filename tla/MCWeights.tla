----------------------------- MODULE MCWeights ------------------------------
(* Weights for one hidden layer and up to two draft layers, with linear    *)
(* layers plain and fused of two or three shards, in whole and partial     *)
(* blocks.                                                                 *)
EXTENDS Weights

MCPackedModules ==
  [ qkv_proj |-> <<"q_proj", "k_proj", "v_proj">>, kv_proj |-> <<"key_proj", "value_proj">> ]
MCDigits == <<"0", "1", "2">>
MCBegins == {<<"mlp", "mlp_gate">>}

HF(rest) == <<"model", "language_model", "layers", "0">> \o rest
VLLM(rest) == <<"model", "layers", "0">> \o rest
Draft(number, rest) == <<"mtp", "layers", MCDigits[number + 1]>> \o rest

MCLayerKeys ==
  {HF(<<"self_attn", "q_proj">>), HF(<<"self_attn", "k_proj">>),
   HF(<<"ple", "key_proj">>), HF(<<"ple", "value_proj">>),
   HF(<<"mlp", "experts", "0">>), HF(<<"mlp", "shared_expert", "down_proj">>),
   Draft(0, <<"mlp", "experts">>), <<"lm_head">>}
MCDraftKeys == {Draft(d, <<"mlp", "experts">>) : d \in 0..1} \cup {HF(<<"mlp", "experts">>)}

MCLinearLayers ==
  {VLLM(<<"self_attn", "qkv_proj">>), VLLM(<<"ple", "kv_proj">>),
   VLLM(<<"mlp", "shared_expert", "down_proj">>), <<"language_model", "lm_head">>}
MCExpertLayers ==
  {VLLM(<<"mlp", "experts">>)} \cup {Draft(HiddenLayers + d, <<"mlp", "experts">>) : d \in 0..DraftLayers-1}
MCNames == MCLinearLayers \cup MCExpertLayers \cup {VLLM(<<"mlp_gate">>)}

Pattern(path, star) == [path |-> path, star |-> star]
MCPatterns ==
  {Pattern(<<"lm_head">>, "end"), Pattern(HF(<<"mlp">>), "glued"), Pattern(<<"mtp">>, "glued"),
   Pattern(<<"mlp">>, "glued"), Pattern(<<"mtp", "layers">>, "dotted")}
(* The fields a legacy config may lack, and a cache of any kind.           *)
MCRaws ==
  {[MixedRaw EXCEPT !.algo = a, !.kv = kv, !.gs = gs, !.flat_ex = <<p>>, !.weight_only = w] :
     a \in QuantAlgos \cup {"", "INT4"}, kv \in {"none", "FP8", "NVFP4", "other"},
     gs \in {-1, 0, 16, 32}, p \in MCPatterns, w \in BOOLEAN}
  \cup {[MixedRaw EXCEPT !.algo = a, !.missing = m] :
          a \in QuantAlgos, m \in SUBSET {"group_size", "kv_cache_quant_algo", "exclude_modules"}}

MCWidths == {<<2>>, <<3>>, <<2, 2>>, <<2, 1>>, <<1, 2>>, <<2, 2, 1>>}

ASSUME MCAssumption == WeightsAssumption
=============================================================================
