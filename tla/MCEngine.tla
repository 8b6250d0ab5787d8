------------------------------ MODULE MCEngine ------------------------------
(* Engine for configurations of blocks and of graphs                       *)
EXTENDS Engine

(* Every format, with heads of 16 values, one or two of them on a rank;    *)
(* states below, at and above the page of a block; block sizes the user    *)
(* asks for that do and do not fit.                                        *)
MCBlockConfigs ==
  [format : {"bf16", "fp8", "nvfp4", "turboquant", "mla"}, kv : {1, 2}, dim : {16},
   skip : BOOLEAN, states : {{s, t} : s \in {100, 288, 600}, t \in {288, 1000}},
   user : {0, 16, 24, 64}, hybrid : BOOLEAN, mode : {"none", "align", "all"}, chunk : {0, 24}]

-----------------------------------------------------------------------------
(* The modes of GraphConfig, in full: a configuration cannot be written    *)
(* with the instance that it is a constant of.                             *)
None == <<0, 0>>
Piecewise == <<1, 1>>
Full == <<2, 2>>
FullDecode == <<2, 0>>
FullAndPieces == <<2, 1>>
Modes == {None, Piecewise, Full, FullDecode, FullAndPieces}

Base == [compile |-> 3, graphs |-> FullAndPieces, split |-> {"unset"}, inductor |-> FALSE,
         passes |-> {}, custom |-> {}, deepep |-> FALSE, support |-> 2, qlen |-> 2, tp |-> 1,
         v2 |-> FALSE, sizes |-> {1, 2, 5}, requests |-> 2, blocks |-> 0]

(* Every graph mode with every set of ops and every backend.  The engine   *)
(* refuses pieces where nothing is compiled.                               *)
ModeConfigs ==
  {c \in {[Base EXCEPT !.compile = m, !.graphs = g, !.split = s, !.inductor = i, !.passes = p,
                       !.support = a, !.qlen = q] :
            m \in {0, 1, 3}, g \in Modes,
            s \in {{"unset"}, {}, {"attention"}, {"attention", "gather"},
                   {"attention", "gather", "kv_update", "mla_kv_update"}},
            i \in BOOLEAN, p \in {{}, {"attn_quant"}, {"sp"}}, a \in 0..3, q \in 1..2} :
     c.compile # 3 => 1 \notin {c.graphs[1], c.graphs[2]}}
  \union {[Base EXCEPT !.deepep = TRUE, !.graphs = g] : g \in Modes}

(* Sizes, ranks and requests                                               *)
SizeConfigs ==
  {[Base EXCEPT !.graphs = g, !.passes = p, !.sizes = z, !.qlen = q, !.tp = t, !.v2 = v] :
     g \in {FullDecode, FullAndPieces}, p \in {{}, {"sp"}}, z \in SUBSET {1, 2, 3, 5, 6},
     q \in 1..4, t \in {1, 2}, v \in BOOLEAN}
  \union {[Base EXCEPT !.graphs = g, !.blocks = b, !.tp = 3, !.passes = {"sp"}, !.qlen = q] :
     g \in {FullDecode, Piecewise}, b \in 0..2, q \in 1..4}

(* Directives on the ops, and the passes that need one                     *)
OpConfigs ==
  {[Base EXCEPT !.custom = o, !.passes = p, !.inductor = i] :
     o \in SUBSET {<<"all">>, <<"none">>, <<"+", "rotary">>, <<"-", "rotary">>, <<"-", "other">>},
     p \in SUBSET {"qk_norm_rope", "rope_kv", "qk_rope_kv", "mla_rope_kv"}, i \in BOOLEAN}

(* Either kind of configuration                                           *)
MCGraphConfigs == ModeConfigs \union SizeConfigs \union OpConfigs

ASSUME MCAssumption == EngineAssumption
=============================================================================
