--------------------------- MODULE QuantDispatch ---------------------------
(***************************************************************************)
(* How a layer of the model gets its quantization method from what the     *)
(* ModelOpt checkpoint says about its layers.                              *)
(*                                                                         *)
(* A name is the sequence of its parts: a.b.c is <<"a", "b", "c">>.  What  *)
(* the checkpoint lists is a sequence of entries, in the order of the file *)
(* (the code takes the first that fits), with                              *)
(*   key    the name the entry is for                                      *)
(*   algo   its algorithm                                                  *)
(*   gs     its group size, 0 when the entry has none                      *)
(* An exclude pattern is a path and what follows it: "end" for nothing,    *)
(* "glued" for a star next to the path and "dotted" for a dot and a star.  *)
(***************************************************************************)
EXTENDS Integers, Sequences, SequencesExt, FiniteSets, FiniteSetsExt

CONSTANTS
  PackedModules,  \* packed_modules_mapping: fused projection -> its shards
  Digits,         \* <<"0", "1", ...>>: the parts that are layer numbers
  Begins          \* pairs of different parts of which one begins the other

DispatchAssumption ==
  /\ \A f \in DOMAIN PackedModules : PackedModules[f] \in Seq(STRING)
  /\ Digits \in Seq(STRING) /\ IsInjective(Digits)
  /\ \A b \in Begins : b[1] # b[2]

-----------------------------------------------------------------------------
(* The algorithms                                                          *)

(* LINEAR_ALGOS: the config class that owns a linear algorithm.            *)
Owner == [ FP8 |-> "modelopt", FP8_PER_CHANNEL_PER_TOKEN |-> "modelopt",
           FP8_PB_WO |-> "modelopt", NVFP4 |-> "modelopt_fp4",
           W4A16_NVFP4 |-> "modelopt_fp4", MXFP8 |-> "modelopt_mxfp8" ]

LinearAlgos == DOMAIN Owner
QuantAlgos == LinearAlgos \cup {"MIXED_PRECISION"}
AlgosOwnedBy(config) == {a \in LinearAlgos : Owner[a] = config}

(* The names a checkpoint has for block-scaled FP8 experts.                *)
BlockFp8 == {"FP8_BLOCK_SCALES", "FP8_BLOCK", "FP8_PB_WO"}

(* override_quantization_method: the config classes that claim a           *)
(* checkpoint of this algorithm.                                           *)
ClaimedBy(algo) ==
  {c \in {"modelopt", "modelopt_fp4", "modelopt_mxfp8", "modelopt_mixed"} :
     \/ c = "modelopt" /\ algo = "FP8"
     \/ c = "modelopt_fp4" /\ algo \in {"NVFP4", "W4A16_NVFP4"}
     \/ c = "modelopt_mxfp8" /\ algo = "MXFP8"
     \/ c = "modelopt_mixed" /\ algo = "MIXED_PRECISION"}

-----------------------------------------------------------------------------
(* from_config.  A raw config has                                          *)
(*   format    "legacy": all under the key quantization, or "flat"         *)
(*   algo      quant_algo in upper case, "" when missing                   *)
(*   kv        kv_cache_quant_algo, or in the flat format what             *)
(*             kv_cache_scheme describes: "FP8", "NVFP4", "none" or        *)
(*             "other" for a value that is not a string                    *)
(*   gs        group_size: a number, 0 when missing, -1 when not a number  *)
(*   legacy_ex, flat_ex   exclude_modules and ignore: patterns, <<>> when  *)
(*             missing                                                     *)
(*   missing   those keys of the legacy format that are not there          *)
(*   weight_only   whether no config group quantizes the activations       *)
(*   layers    quantized_layers                                            *)
(* and is read into a config or into "error".                              *)

(* Seeded fault: the two formats are taken to have the same keys.          *)
ReadSameKeys(raw) ==
  [ algo    |-> raw.algo,
    kv      |-> IF raw.format = "legacy" THEN raw.kv
                ELSE IF raw.kv = "FP8" THEN "FP8" ELSE "none",
    gs      |-> raw.gs,
    exclude |-> raw.legacy_ex ]

Read(raw) ==
  [ algo    |-> raw.algo,
    kv      |-> IF raw.format = "legacy" THEN raw.kv
                ELSE IF raw.kv = "FP8" THEN "FP8" ELSE "none",
    gs      |-> raw.gs,
    exclude |-> IF raw.format = "legacy" THEN raw.legacy_ex ELSE raw.flat_ex ]

(* Mixed precision without a group size takes that of the first entry of   *)
(* the NVFP4 family for all of them.                                       *)
SharedGroupSize(gs, layers) ==
  LET nvfp4 == {i \in DOMAIN layers : layers[i].algo \in {"NVFP4", "W4A16_NVFP4"}}
  IN  IF gs # 0 THEN gs
      ELSE IF nvfp4 = {} \/ layers[Min(nvfp4)].gs = 0 THEN 16
      ELSE layers[Min(nvfp4)].gs

(* _from_config of the classes, for the class `config`.  The groups are    *)
(* looked for where the flat format has them, not under quantization.      *)
Specialised(config, raw, r) ==
  [ config  |-> config,
    algo    |-> IF r.algo = "NVFP4" /\ raw.format = "flat" /\ raw.weight_only
               THEN "W4A16_NVFP4" ELSE r.algo,
    kv      |-> r.kv,
    exclude |-> r.exclude,
    gs      |-> IF config = "modelopt_fp4" THEN (IF r.gs = 0 THEN 16 ELSE r.gs)
                ELSE IF config = "modelopt_mixed" THEN SharedGroupSize(r.gs, raw.layers)
                ELSE 0,
    layers  |-> IF config = "modelopt_mixed" THEN raw.layers ELSE <<>> ]

IsError(r) == r.config = "error"

(* required_fields, of the legacy format alone                             *)
RequiredFields(config) ==
  CASE config = "modelopt_fp4"   -> {"group_size", "kv_cache_quant_algo", "exclude_modules"}
    [] config = "modelopt_mxfp8" -> {"kv_cache_quant_algo", "exclude_modules"}
    [] OTHER -> {}

FromConfig(config, raw) ==
  LET r == Read(raw)
  IN  IF \/ r.algo \notin QuantAlgos
         \/ r.kv = "other"
         \/ r.gs = -1
         \/ config # "modelopt_mixed" /\ r.algo \notin AlgosOwnedBy(config)
         \/ raw.format = "legacy" /\ raw.missing \cap RequiredFields(config) # {}
         \/ config = "modelopt_mixed" /\ raw.layers = <<>>
      THEN [config |-> "error"]
      ELSE Specialised(config, raw, r)

(* has_blocked_weights: whether "+quant_fp8" is switched on.               *)
HasBlockedWeights(c) ==
  IF c.config = "modelopt_mixed"
  THEN \E i \in DOMAIN c.layers : c.layers[i].algo = "FP8_PB_WO"
  ELSE c.algo = "FP8_PB_WO"

-----------------------------------------------------------------------------
(* apply_vllm_mapper                                                       *)

(* The model's hf_to_vllm_mapper, on a name or the path of a pattern that  *)
(* more of a name follows.                                                 *)
Mapped(name, followed) ==
  IF IsPrefix(<<"model", "language_model">>, name) /\ (Len(name) > 2 \/ followed)
  THEN <<"model">> \o SubSeq(name, 3, Len(name))
  ELSE name

Split(p) ==
  IF p.star = "glued" THEN <<[p EXCEPT !.star = "end"], [p EXCEPT !.star = "dotted"]>>
  ELSE <<p>>

SplitAll(patterns) == FlattenSeq([i \in DOMAIN patterns |-> Split(patterns[i])])

ApplyVllmMapper(c) ==
  LET split == SplitAll(c.exclude)
  IN  [c EXCEPT
        !.exclude = [i \in DOMAIN split |->
                       [split[i] EXCEPT !.path = Mapped(@, split[i].star = "dotted")]],
        !.layers = [i \in DOMAIN c.layers |->
                       [c.layers[i] EXCEPT !.key = Mapped(@, FALSE)]]]

-----------------------------------------------------------------------------
(* is_layer_excluded                                                       *)

Parent(name) == SubSeq(name, 1, Len(name) - 1)
Under(key, name) == IsStrictPrefix(name, key)
Starts(part, whole) == part = whole \/ <<part, whole>> \in Begins

(* The path begins the part of the name that starts at position i.         *)
Matches(path, name, i) ==
  /\ i + Len(path) - 1 <= Len(name)
  /\ SubSeq(name, i, i + Len(path) - 2) = Parent(path)
  /\ Starts(Last(path), name[i + Len(path) - 1])

IsSubstring(p, name) == p.star = "end" /\ \E i \in DOMAIN name : Matches(p.path, name, i)

Fnmatch(p, name) ==
  CASE p.star = "end"    -> name = p.path
    [] p.star = "glued"  -> Matches(p.path, name, 1)
    [] p.star = "dotted" -> Under(name, p.path)

(* is_layer_skipped: a fused projection is listed by all its shards, and   *)
(* experts by anything below them.                                         *)
IsLayerSkipped(paths, name) ==
  IF Last(name) \in DOMAIN PackedModules
  THEN \A s \in ToSet(PackedModules[Last(name)]) : Append(Parent(name), s) \in paths
  ELSE IF Last(name) = "experts" THEN \E p \in paths : IsPrefix(name, p)
  ELSE name \in paths

IsLayerExcluded(patterns, name) ==
  /\ patterns # <<>>
  /\ \/ IsLayerSkipped({p.path : p \in {q \in ToSet(patterns) : q.star = "end"}}, name)
     \/ \E p \in ToSet(patterns) : p.path # name /\ IsSubstring(p, name)
     \/ \E p \in ToSet(patterns) : Fnmatch(p, name)

-----------------------------------------------------------------------------
(* _quantized_layer_prefix_candidates                                      *)

Digit(part) == CHOOSE i \in DOMAIN Digits : Digits[i] = part

(* The places in a name of the number of a draft layer.                    *)
DraftPlaces(name) ==
  {i \in 3..Len(name)-1 : /\ name[i-2] = "mtp" /\ name[i-1] = "layers"
                          /\ name[i] \in ToSet(Digits)}

(* The numbers below its own, up to 8.                                     *)
DraftLocal(name) ==
  IF DraftPlaces(name) = {} THEN <<>>
  ELSE LET i == Min(DraftPlaces(name))
       IN  [j \in 1..Min({Digit(name[i]) - 1, 9}) |-> [name EXCEPT ![i] = Digits[j]]]

LmHead(name) ==
  IF Last(name) = "lm_head" /\ Len(name) > 1 THEN <<<<"lm_head">>>> ELSE <<>>

Swapped(name) ==
  LET rest == SubSeq(name, 3, Len(name))
  IN  IF Under(name, <<"language_model", "model">>) THEN <<<<"model", "language_model">> \o rest>>
      ELSE IF Under(name, <<"model", "language_model">>) THEN <<<<"language_model", "model">> \o rest>>
      ELSE <<>>

(* Seeded fault: the draft layers are looked up by the model's numbers.    *)
CandidatesAsNumbered(name) == <<name>> \o LmHead(name) \o Swapped(name)

Candidates(name) == <<name>> \o LmHead(name) \o DraftLocal(name) \o Swapped(name)

-----------------------------------------------------------------------------
(* _resolve_quant_algo.  "none" stands for None, "mixed" for the error     *)
(* that the shards of a fused layer differ.                                *)

EntriesFor(ck, keys) == {i \in DOMAIN ck : ck[i].key \in keys}
AlgosOf(ck, entries) == {ck[i].algo : i \in entries}
OnlyOne(algos) ==
  IF algos = {} THEN "none" ELSE IF Cardinality(algos) = 1 THEN CHOOSE a \in algos : TRUE
  ELSE "mixed"

(* The algorithm at the first candidate for which there are entries, the   *)
(* first of them in the order of the file.                                 *)
FirstHit(ck, entriesOf) ==
  LET hits == {i \in DOMAIN entriesOf : entriesOf[i] # {}}
  IN  IF hits = {} THEN "none" ELSE ck[Min(entriesOf[Min(hits)])].algo

Direct(ck, name) ==
  LET cands == Candidates(name)
  IN  FirstHit(ck, [i \in DOMAIN cands |-> EntriesFor(ck, {cands[i]})])

(* Seeded fault: the first shard decides for a fused layer.                *)
PackedFirst(ck, name) ==
  LET shards == PackedModules[Last(name)]
      keys   == {Append(b, s) : b \in ToSet(Candidates(Parent(name))), s \in ToSet(shards)}
      own    == EntriesFor(ck, keys)
  IN  IF Last(name) \notin DOMAIN PackedModules \/ own = {} THEN "none" ELSE ck[Min(own)].algo

Packed(ck, name) ==
  LET shards == PackedModules[Last(name)]
      keys   == {Append(b, s) : b \in ToSet(Candidates(Parent(name))), s \in ToSet(shards)}
  IN  IF Last(name) \notin DOMAIN PackedModules THEN "none"
      ELSE OnlyOne(AlgosOf(ck, EntriesFor(ck, keys)))

Children(ck, name) ==
  LET cands == Candidates(name)
  IN  FirstHit(ck, [i \in DOMAIN cands |-> {e \in DOMAIN ck : Under(ck[e].key, cands[i])}])

(* The entries under the parent of the experts.                            *)
SiblingEntries(ck, name) ==
  IF Last(name) = "experts" THEN {i \in DOMAIN ck : Under(ck[i].key, Parent(name))} ELSE {}

Siblings(ck, name) ==
  LET s == SiblingEntries(ck, name) IN IF s = {} THEN "none" ELSE ck[Min(s)].algo

(* Fused projections that the model's mapping does not name.               *)
FusedProjectionShards ==
  [qkv_proj |-> {"q_proj", "k_proj", "v_proj"}, gate_up_proj |-> {"gate_proj", "up_proj"}]

Unnamed(ck, name) ==
  LET cands == Candidates(name)
      At(c) == AlgosOf(ck, EntriesFor(ck, {Append(Parent(c), s) : s \in FusedProjectionShards[Last(name)]}))
      hits  == {i \in DOMAIN cands : At(cands[i]) # {}}
  IN  IF Last(name) \notin DOMAIN FusedProjectionShards \/ hits = {} THEN "none"
      ELSE OnlyOne(At(cands[Min(hits)]))

ResolveQuantAlgo(ck, name) ==
  LET tries == <<Direct(ck, name), Packed(ck, name), Children(ck, name),
                 Siblings(ck, name), Unnamed(ck, name)>>
      found == {i \in DOMAIN tries : tries[i] # "none"}
  IN  IF found = {} THEN "none" ELSE tries[Min(found)]

(* _quantized_layer_group_size of the entry for a name, 0 for None.        *)
LayerGroupSize(ck, name) ==
  LET cands == Candidates(name)
      At(c) == IF EntriesFor(ck, {c}) # {} THEN EntriesFor(ck, {c})
               ELSE {i \in DOMAIN ck : Under(ck[i].key, c)}
      hits  == {i \in DOMAIN cands : At(cands[i]) # {}}
  IN  IF hits = {} THEN 0 ELSE ck[Min(At(cands[Min(hits)]))].gs

-----------------------------------------------------------------------------
(* get_quant_method.  A layer has a kind and a name; the method is "none"  *)
(* for None, and "error" where the code raises.                            *)

Plain(method) == [method |-> method, algo |-> "none", gs |-> 0]

OfExcluded(kind) == Plain(IF kind = "linear" THEN "unquantized" ELSE "none")

IsVision(name) ==
  \E part \in {"vision_tower", "vision_model", "vit_large_projector"} : part \in ToSet(name)

LinearMethod(c, algo) ==
  [ method |-> "linear", algo |-> algo,
    gs |-> IF Owner[algo] = "modelopt_fp4" THEN c.gs ELSE 0 ]

MethodOfOne(c, kind, name) ==
  IF kind = "attention" THEN Plain("kv_cache")
  ELSE IF IsLayerExcluded(c.exclude, name) THEN OfExcluded(kind)
  ELSE IF IsVision(name) THEN Plain("unquantized")
  ELSE IF kind = "linear" THEN LinearMethod(c, c.algo)
  ELSE [method |-> "experts", algo |-> c.algo, gs |-> c.gs]

ExpertsMethod(c, algo, name) ==
  CASE algo \in {"FP8", "MXFP8"} -> [method |-> "experts", algo |-> algo, gs |-> 0]
    [] algo \in {"NVFP4", "W4A16_NVFP4"} -> [method |-> "experts", algo |-> algo, gs |-> c.gs]
    [] algo \in BlockFp8 ->
         LET gs == LayerGroupSize(c.layers, name)
         IN  [method |-> "block_experts", algo |-> algo, gs |-> IF gs = 0 THEN 128 ELSE gs]
    [] OTHER -> Plain("none")

MethodOfMixed(c, kind, name) ==
  LET algo == ResolveQuantAlgo(c.layers, name)
  IN  IF kind = "attention" THEN Plain(IF c.kv = "none" THEN "none" ELSE "kv_cache")
      ELSE IF IsLayerExcluded(c.exclude, name) THEN OfExcluded(kind)
      ELSE IF algo = "mixed" THEN Plain("error")
      ELSE IF kind = "linear"
           THEN IF algo \in LinearAlgos THEN LinearMethod(c, algo) ELSE Plain("unquantized")
      ELSE ExpertsMethod(c, algo, name)

GetQuantMethod(c, kind, name) ==
  IF c.config = "modelopt_mixed" THEN MethodOfMixed(c, kind, name) ELSE MethodOfOne(c, kind, name)
=============================================================================
