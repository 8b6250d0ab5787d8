----------------------------- MODULE MCForward ------------------------------
(* The forward of the target model, or one of the parts of its sparse      *)
(* attention.                                                              *)
EXTENDS LayerForward, SparseForward

(* The streams are the sequence of what was added to them; a block's       *)
(* output names the block and how much it had read.                        *)
MCEmbed(b) == << <<"embed", b>> >>
MCPlus(s, d) == Append(s, d)
MCCombine(s, o, i) == Append(s, <<o, i>>)
MCPle(l, s) == <<"ple", l, Len(s)>>
MCBlock(l, p, s) == <<p, l, Len(s)>>
MCInject(l, p, s) == <<"gate", p, l, Len(s)>>
MCDeep(l, shown) == <<"deep", l, shown>>

Base == [heads |-> 4, kv |-> 2, tp |-> 2, dtype |-> "auto", bf16 |-> TRUE,
         scheme |-> FALSE, context |-> FALSE, causal |-> TRUE]

HeadConfigs ==
  {[Base EXCEPT !.heads = h, !.kv = n, !.tp = t, !.scheme = s, !.causal = c] :
     h \in 1..12, n \in 1..6, t \in 1..6, s \in BOOLEAN, c \in BOOLEAN}

DtypeConfigs == {[Base EXCEPT !.dtype = d] : d \in {"auto", "fp8", "fp8_e5m2", "nvfp4"}}

MCLayerConfigs == HeadConfigs \union DtypeConfigs

(* A selection has tokens on both pages, one past the table, and none.     *)
MCSelections ==
  {[selected |-> s, request |-> 0, table |-> t, width |-> w, target |-> g] :
     s \in UNION {[1..n -> {-1, 0, 1, 2, 5}] : n \in 1..4},
     t \in {<<1, 0>>, <<0, -1>>, <<1, 2>>}, w \in 1..2, g \in {1, 2, 4}}
  \union
  {[selected |-> s, request |-> r, table |-> <<0, 1>>, width |-> 1, target |-> 2] :
     s \in [1..2 -> {-1, 0, 3}], r \in {-1, 0, 1}}

ASSUME ForwardAssumption == SparseAssumption

-----------------------------------------------------------------------------
TargetAtRest == /\ Init /\ ple = {} /\ levels = 0 /\ first = [s \in 1..Stages |-> 0]

InitForward ==
  \/ scope = "target" /\ Init /\ AtRest
  \/ TargetAtRest /\ InitSparse

(* Every split of heads is built, and only the dtypes are bound and run.   *)
LayerIsBounded == config \in DtypeConfigs \/ state \in {"new", "rest"}

NextForward ==
  \/ scope = "target" /\ Next /\ UNCHANGED sparseVars
  \/ LayerIsBounded /\ NextSparse /\ UNCHANGED vars

SpecForward == InitForward /\ [][NextForward]_<<vars, sparseVars>>
=============================================================================
