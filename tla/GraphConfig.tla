---------------------------- MODULE GraphConfig ----------------------------
(***************************************************************************)
(* The CUDA graphs a server captures: what GRAPHS asks for, what the       *)
(* compilation config makes of it, and what the attention backend leaves.  *)
(*                                                                         *)
(* A graph mode is the pair of what decode batches and mixed batches get:  *)
(* no graph, graphs of the pieces between the splitting ops, or one graph  *)
(* of the whole forward.  A configuration is a record:                     *)
(*   compile   0, 1 or 3: compilation mode   graphs   graph mode           *)
(*   split     splitting ops, or Unset       inductor graph partition      *)
(*   passes    fusion passes asked for       custom   directives on ops    *)
(*   deepep    all2all without graphs        support  of the backend       *)
(*   qlen      rows of a decode batch        tp       ranks                *)
(*   v2        runner sizes graphs itself    sizes    captured             *)
(*   requests, blocks   most requests, and blocks of states there are      *)
(***************************************************************************)
EXTENDS Integers, Sequences, FiniteSetsExt

CONSTANTS
  Configs,     \* the configurations to look at
  Platform     \* "cuda", "rocm" or "cpu"

No == 0
Pieces == 1
Whole == 2
NONE == <<No, No>>
PIECEWISE == <<Pieces, Pieces>>
FULL == <<Whole, Whole>>
FULL_DECODE_ONLY == <<Whole, No>>
FULL_AND_PIECEWISE == <<Whole, Pieces>>

Decode(g) == g[1]
Mixed(g) == g[2]
HasPieces(g) == Pieces \in {Decode(g), Mixed(g)}
HasWhole(g) == Max({Decode(g), Mixed(g)}) = Whole

NEVER == 0
SINGLE == 1
UNIFORM == 2
ALWAYS == 3

VLLM_COMPILE == 3
Unset == {"unset"}

(* Sizes are positive, and some size is the largest where there are any.   *)
GraphAssumption ==
  \A c \in Configs :
    /\ c.graphs \in {NONE, PIECEWISE, FULL, FULL_DECODE_ONLY, FULL_AND_PIECEWISE}
    /\ c.support \in NEVER..ALWAYS
    /\ c.qlen \in Nat \ {0} /\ c.tp \in Nat \ {0}
    /\ c.sizes \subseteq Nat \ {0}
    /\ c.sizes # {} => \E largest \in c.sizes : \A s \in c.sizes : s <= largest

VARIABLES
  cf,          \* the configuration asked for
  phase,       \* "new", "made", "split", "resolved", "ended" or "failed"
  passes,      \* fusion passes that are on
  custom,      \* directives on custom ops
  graphs,      \* graph mode
  split,       \* splitting ops
  sizes,       \* cudagraph_capture_sizes
  maxSize,     \* max_cudagraph_capture_size
  resolved     \* what each call of resolve ended with

vars == <<cf, phase, passes, custom, graphs, split, sizes, maxSize, resolved>>

-----------------------------------------------------------------------------
(* What GRAPHS of the launcher puts into the configuration.                *)
Launched(GRAPHS) ==
  CASE GRAPHS = "eager"     -> [compile |-> 0, graphs |-> NONE]
    [] GRAPHS = "piecewise" -> [compile |-> VLLM_COMPILE, graphs |-> PIECEWISE]
    [] GRAPHS = "nocompile" -> [compile |-> 0, graphs |-> FULL_DECODE_ONLY]
    [] OTHER                -> [compile |-> VLLM_COMPILE, graphs |-> FULL_AND_PIECEWISE]

(* Seeded fault: the list of ops as it was without the host's gather.      *)
AttentionOpsWithoutGather == {"attention"}

(* _attention_ops: the ops that stay outside the pieces.  "gather" is the  *)
(* copy of the rows through the host.                                      *)
AttentionOps == {"attention", "gather"}

KvOps == {"kv_update", "mla_kv_update"}

(* A pass stays on where the platform has it.                              *)
PlatformPasses(asked) ==
  {p \in asked :
     /\ p = "qk_norm_rope" => Platform # "cpu"
     /\ p \in {"act_padding", "dual_rms", "rope_kv", "qk_rope_kv"} => Platform = "rocm"
     /\ p = "mla_rope_kv" => Platform # "cpu"}

NeedRotary == {"qk_norm_rope", "rope_kv", "qk_rope_kv"}

(* The passes that match rotary embeddings turn their op on.               *)
WithRotary(ops, on) ==
  IF on \cap NeedRotary # {} THEN ops \union {<<"+", "rotary">>} ELSE ops

BaseModes(ops) == ops \cap {<<"all">>, <<"none">>}
Directed(sign, ops) == {o[2] : o \in {q \in ops : q[1] = sign}}

(* What __post_init__ accepts of the directives.                           *)
Acceptable(ops) ==
  /\ Cardinality(BaseModes(ops)) <= 1
  /\ Directed("+", ops) \cap Directed("-", ops) = {}

(* is_custom_op_enabled                                                    *)
Enabled(op, ops) ==
  IF <<"all">> \in ops THEN <<"-", op>> \notin ops ELSE <<"+", op>> \in ops

Init ==
  /\ cf \in Configs
  /\ phase = "new"
  /\ passes = cf.passes /\ custom = cf.custom /\ graphs = cf.graphs /\ split = cf.split
  /\ sizes = cf.sizes /\ maxSize = Max({0} \union cf.sizes)
  /\ resolved = <<>>

(* PassConfig and CompilationConfig are made; the engine adds the base     *)
(* mode the user did not name.                                             *)
Make ==
  /\ phase = "new"
  /\ passes' = PlatformPasses(passes)
  /\ LET ops == WithRotary(custom, passes')
     IN  IF Acceptable(ops)
         THEN /\ phase' = "made"
              /\ \E base \in {<<"all">>, <<"none">>} :
                   custom' = IF BaseModes(ops) = {} THEN ops \union {base} ELSE ops
         ELSE phase' = "failed" /\ UNCHANGED custom
  /\ UNCHANGED <<cf, graphs, split, sizes, maxSize, resolved>>

-----------------------------------------------------------------------------
ContainsAttention(ops) == ops # Unset /\ AttentionOps \subseteq ops

(* The ops, the graph mode and the passes after the first choice.          *)
Chosen ==
  IF "attn_quant" \in passes /\ ~cf.inductor
  THEN IF split = Unset
       THEN [split |-> {}, graphs |-> IF HasPieces(graphs) THEN FULL ELSE graphs, passes |-> passes]
       ELSE [split |-> split, graphs |-> graphs, passes |-> passes]
  ELSE IF split = Unset
  THEN [split  |-> AttentionOps \union (IF cf.inductor THEN {} ELSE KvOps), graphs |-> graphs,
        passes |-> IF cf.inductor THEN passes ELSE passes \ {"rope_kv", "qk_rope_kv"}]
  ELSE [split  |-> split, passes |-> passes,
        graphs |-> CASE split = {} /\ graphs = PIECEWISE -> NONE
                     [] split = {} /\ graphs = FULL_AND_PIECEWISE -> FULL
                     [] OTHER -> graphs]

(* Sequence parallelism wants the whole graph in one piece.                *)
InOnePiece == ~cf.inductor /\ passes \cap {"sp", "gemm_comms"} # {} /\ Chosen.split # {}

(* set_splitting_ops_for_v1                                                *)
SetSplittingOps ==
  /\ phase = "made"
  /\ IF cf.compile # VLLM_COMPILE
     THEN /\ split' = IF split = Unset THEN {} ELSE split
          /\ phase' = "split"
          /\ UNCHANGED <<graphs, passes>>
     ELSE IF "attn_quant" \in passes /\ ~cf.inductor /\ ContainsAttention(Chosen.split)
     THEN phase' = "failed" /\ UNCHANGED <<split, graphs, passes>>
     ELSE /\ passes' = Chosen.passes
          /\ split' = IF InOnePiece THEN {} ELSE Chosen.split
          /\ graphs' = CASE cf.deepep -> NONE
                         [] ~cf.deepep /\ InOnePiece /\ HasPieces(Chosen.graphs) -> FULL
                         [] OTHER -> Chosen.graphs
          /\ phase' = "split"
  /\ UNCHANGED <<cf, custom, sizes, maxSize, resolved>>

-----------------------------------------------------------------------------
Failed == <<-1, -1>>

(* One graph for mixed batches, where the backend has it                   *)
MixedSupported(g) ==
  CASE Mixed(g) # Whole \/ cf.support = ALWAYS -> g
    [] Mixed(g) = Whole /\ cf.support = NEVER  -> Failed
    [] OTHER -> IF ContainsAttention(split) THEN FULL_AND_PIECEWISE ELSE FULL_DECODE_ONLY

DecodeSupported(g) ==
  IF Decode(g) = Whole /\ cf.support = NEVER
  THEN IF cf.compile = VLLM_COMPILE /\ (ContainsAttention(split) \/ cf.inductor) THEN PIECEWISE ELSE NONE
  ELSE g

(* Seeded fault: any backend that captures decode batches will do.         *)
DraftsSupportedByAny(g) == g

(* Decode batches with drafts have several rows to a request.              *)
DraftsSupported(g) ==
  IF Decode(g) = Whole /\ cf.qlen > 1 /\ cf.support < UNIFORM
  THEN IF ContainsAttention(split) THEN PIECEWISE ELSE NONE
  ELSE g

Supported(g) ==
  LET end == DraftsSupported(DecodeSupported(MixedSupported(g)))
  IN  IF MixedSupported(g) = Failed \/ (HasWhole(end) /\ cf.support = NEVER) THEN Failed ELSE end

RoundUp(n, k) == ((n + k - 1) \div k) * k

(* The rows every captured size is a multiple of                           *)
Multiple == IF cf.tp > 1 /\ "sp" \in passes THEN Max({cf.qlen, cf.tp}) ELSE cf.qlen

NoMultiple == Multiple % cf.qlen # 0 \/ (cf.tp > 1 /\ "sp" \in passes /\ Multiple % cf.tp # 0)

(* Seeded fault: sizes are rounded without a look at the maximum.          *)
RoundedBeyond == {RoundUp(s, Multiple) : s \in sizes}

Rounded ==
  LET within == {RoundUp(s, Multiple) : s \in sizes} \cap (0..maxSize)
  IN  IF within = {} /\ Multiple <= maxSize THEN {Multiple} ELSE within

TooManyRequests(g) == cf.blocks # 0 /\ HasWhole(g) /\ cf.requests > cf.blocks

(* resolve_cudagraph_mode_and_sizes, called while the memory is profiled   *)
(* and once more when there is a KV cache.                                 *)
Resolve ==
  /\ phase \in {"split", "resolved"}
  /\ LET g        == Supported(graphs)
         adjusted == ~cf.v2 /\ g # Failed /\ Decode(g) = Whole /\ cf.qlen > 1
         rounds   == adjusted /\ ~NoMultiple /\ sizes # {}
         fails    == \/ g = Failed
                     \/ adjusted /\ NoMultiple
                     \/ rounds /\ Rounded = {}
                     \/ phase = "resolved" /\ TooManyRequests(g)
     IN  /\ sizes' = IF rounds /\ Rounded # {} THEN Rounded ELSE sizes
         /\ maxSize' = IF rounds /\ Rounded # {} THEN Max(Rounded) ELSE maxSize
         /\ graphs' = IF fails THEN graphs ELSE g
         /\ phase' = IF fails THEN "failed" ELSE IF phase = "split" THEN "resolved" ELSE "ended"
         /\ resolved' = IF fails THEN resolved ELSE Append(resolved, <<g, sizes', maxSize'>>)
  /\ UNCHANGED <<cf, passes, custom, split>>

Next == Make \/ SetSplittingOps \/ Resolve

Spec == Init /\ [][Next]_vars

-----------------------------------------------------------------------------
(* get_compile_ranges: to every endpoint, from behind the one before it    *)
CompileRanges(endpoints) ==
  {<<Max({0} \union {f \in endpoints : f < e}) + 1, e>> : e \in endpoints}

-----------------------------------------------------------------------------
Resolved == phase \in {"resolved", "ended"}

(* A server captures no graph its attention backend cannot replay, however *)
(* the mode came down from the one asked for; what is captured in pieces   *)
(* although nobody asked for it is cut at the attention.                   *)
SupportedIsResolved ==
  Resolved =>
    /\ Mixed(graphs) = Whole => cf.support = ALWAYS
    /\ Decode(graphs) = Whole => cf.support # NEVER /\ (cf.qlen > 1 => cf.support >= UNIFORM)
    /\ HasPieces(graphs) /\ ~HasPieces(cf.graphs) => ContainsAttention(split) \/ cf.inductor

(* Graphs of decode batches have whole requests in them, the largest is    *)
(* the size the engine reckons with and no larger than the one allowed,    *)
(* and no request's rows are lost between two sizes.                       *)
SizesFit ==
  Resolved /\ ~cf.v2 /\ Decode(graphs) = Whole /\ cf.sizes # {} =>
    /\ \A s \in sizes : s % cf.qlen = 0
    /\ maxSize \in sizes /\ \A s \in sizes : s <= maxSize
    /\ maxSize <= Max(cf.sizes)
    /\ \A n \in 1..maxSize : \E s \in sizes :
         s >= n /\ \A t \in cf.sizes : t >= n => s < t + Multiple

(* Resolving once more, after the KV cache is there, changes nothing the   *)
(* first call was profiled with.                                           *)
ResolvedOnce == Len(resolved) = 2 => resolved[1] = resolved[2]

(* A fusion that matches the rotary op finds that op in the model.         *)
FusedRotaryIsOn ==
  phase \in {"made", "split", "resolved", "ended"} =>
    (passes \cap NeedRotary # {} => Enabled("rotary", custom))

(* common.sh: mmap "needs GRAPHS=piecewise|eager".  These, and no others,  *)
(* keep the copy through the host out of every graph the server captures.  *)
GatherStaysOutside ==
  \A G \in {"eager", "piecewise", "nocompile", "full", "default"} :
    Resolved /\ cf.compile = Launched(G).compile /\ cf.graphs = Launched(G).graphs
             /\ cf.split = Unset /\ cf.passes = {} /\ ~cf.deepep /\ cf.support >= UNIFORM =>
      (G \in {"eager", "piecewise"} <=>
         ~HasWhole(graphs) /\ (HasPieces(graphs) => "gather" \in split))

(* Every number of tokens up to the last endpoint is in one range.  The    *)
(* sizes of the configuration stand for the endpoints.                     *)
RangesPartition ==
  \A n \in 1..Max({0} \union cf.sizes) :
    \E r \in CompileRanges(cf.sizes) : \A q \in CompileRanges(cf.sizes) :
      n \in q[1]..q[2] <=> q = r
=============================================================================
