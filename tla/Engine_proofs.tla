--------------------------- MODULE Engine_proofs ---------------------------
(***************************************************************************)
(* What the engine settles before the first batch, for every configuration *)
(* it can be given: the CUDA graphs are ones the backend can replay, their *)
(* sizes hold whole requests, and resolving twice changes nothing; the     *)
(* caches of all layers share pages of one size, chosen once.              *)
(*                                                                         *)
(* And what it makes of a checkpoint's weights: the two formats are read   *)
(* alike, a layer gets the algorithm of its own entries or is refused when *)
(* they differ, and a linear layer computes what its checkpoint says.      *)
(***************************************************************************)
EXTENDS Engine, Weights, TokenSearch_proofs, SequenceTheorems, WellFoundedInduction, TLAPS

Modes == {Graph!NONE, Graph!PIECEWISE, Graph!FULL, Graph!FULL_DECODE_ONLY, Graph!FULL_AND_PIECEWISE}

(* One of the two is settled, by steps of its own.                         *)
LEMMA StepOfGraph ==
  ASSUME [Next]_engineVars
  PROVE  UNCHANGED part /\ (part = "graphs" => [Graph!Next]_(Graph!vars))
<1>1. CASE UNCHANGED engineVars
  BY <1>1 DEF engineVars, graphVars, Graph!vars
<1>2. CASE Next
  BY <1>2 DEF Next
<1> QED BY <1>1, <1>2

-----------------------------------------------------------------------------
(* Modes                                                                   *)

LEMMA MaxIs ==
  ASSUME NEW S \in SUBSET Int, NEW b \in S, \A y \in S : y <= b
  PROVE  Graph!Max(S) = b
<1>1. \E x \in S : \A y \in S : x >= y
  OBVIOUS
<1> DEFINE x == Graph!Max(S)
<1>2. x \in S /\ \A y \in S : x >= y
  BY <1>1 DEF Graph!Max
<1> HIDE DEF x
<1>3. x >= b /\ x <= b /\ x \in Int /\ b \in Int
  BY <1>2
<1> QED BY <1>3 DEF x

(* What there is to a mode                                                 *)
LEMMA ModesAre ==
  ASSUME NEW g \in Modes
  PROVE  /\ Graph!Decode(g) \in 0..2 /\ Graph!Mixed(g) \in 0..2
         /\ g = <<Graph!Decode(g), Graph!Mixed(g)>>
         /\ Graph!HasWhole(g) <=> Graph!Decode(g) = 2 \/ Graph!Mixed(g) = 2
         /\ Graph!HasPieces(g) <=> Graph!Decode(g) = 1 \/ Graph!Mixed(g) = 1
         /\ g # Graph!Failed
<1>1. /\ Graph!Decode(g) \in 0..2 /\ Graph!Mixed(g) \in 0..2
      /\ g = <<Graph!Decode(g), Graph!Mixed(g)>>
      /\ g # Graph!Failed
  BY DEF Modes, Graph!NONE, Graph!PIECEWISE, Graph!FULL, Graph!FULL_DECODE_ONLY, Graph!FULL_AND_PIECEWISE,
         Graph!No, Graph!Pieces, Graph!Whole, Graph!Decode, Graph!Mixed, Graph!Failed
<1>2. Graph!HasWhole(g) <=> Graph!Decode(g) = 2 \/ Graph!Mixed(g) = 2
  <2> DEFINE d == Graph!Decode(g)
             m == Graph!Mixed(g)
  <2>1. d \in 0..2 /\ m \in 0..2
    BY <1>1
  <2> HIDE DEF d, m
  <2>2. CASE d >= m
    <3>1. Graph!Max({d, m}) = d
      BY <2>1, <2>2, MaxIs
    <3> QED BY <2>1, <2>2, <3>1 DEF Graph!HasWhole, Graph!Whole, d, m
  <2>3. CASE m >= d
    <3>1. Graph!Max({d, m}) = m
      BY <2>1, <2>3, MaxIs
    <3> QED BY <2>1, <2>3, <3>1 DEF Graph!HasWhole, Graph!Whole, d, m
  <2> QED BY <2>1, <2>2, <2>3
<1>3. Graph!HasPieces(g) <=> Graph!Decode(g) = 1 \/ Graph!Mixed(g) = 1
  BY <1>1 DEF Graph!HasPieces, Graph!Pieces
<1> QED BY <1>1, <1>2, <1>3

(* The modes by what there is to them                                      *)
LEMMA ModeOf ==
  /\ Graph!Decode(Graph!NONE) = 0 /\ Graph!Mixed(Graph!NONE) = 0
  /\ Graph!Decode(Graph!PIECEWISE) = 1 /\ Graph!Mixed(Graph!PIECEWISE) = 1
  /\ Graph!Decode(Graph!FULL) = 2 /\ Graph!Mixed(Graph!FULL) = 2
  /\ Graph!Decode(Graph!FULL_DECODE_ONLY) = 2 /\ Graph!Mixed(Graph!FULL_DECODE_ONLY) = 0
  /\ Graph!Decode(Graph!FULL_AND_PIECEWISE) = 2 /\ Graph!Mixed(Graph!FULL_AND_PIECEWISE) = 1
  /\ {Graph!NONE, Graph!PIECEWISE, Graph!FULL, Graph!FULL_DECODE_ONLY, Graph!FULL_AND_PIECEWISE} \subseteq Modes
  BY DEF Modes, Graph!NONE, Graph!PIECEWISE, Graph!FULL, Graph!FULL_DECODE_ONLY, Graph!FULL_AND_PIECEWISE,
         Graph!No, Graph!Pieces, Graph!Whole, Graph!Decode, Graph!Mixed

(* Graphs the backend can replay: no mode of them is changed any more      *)
Settled(g) ==
  /\ Graph!Mixed(g) = 2 => cf.support = 3
  /\ Graph!Decode(g) = 2 => cf.support # 0 /\ (cf.qlen > 1 => cf.support >= 2)

MayHavePieces(g) ==
  Graph!HasPieces(g) => Graph!HasPieces(cf.graphs) \/ Graph!ContainsAttention(split) \/ cf.inductor

(* Resolving a mode fails or ends with one the backend can replay; where   *)
(* it is one already, it stays.                                            *)
LEMMA ModeIsSupported ==
  ASSUME Graph!GraphAssumption, cf \in GraphConfigs, NEW g \in Modes, Graph!Supported(g) # Graph!Failed
  PROVE  /\ Graph!Supported(g) \in Modes /\ Settled(Graph!Supported(g))
         /\ MayHavePieces(g) => MayHavePieces(Graph!Supported(g))
<1>1. cf.support \in 0..3 /\ cf.qlen \in Nat \ {0}
  BY DEF Graph!GraphAssumption, Graph!NEVER, Graph!ALWAYS
<1> DEFINE m == Graph!MixedSupported(g)
           d == Graph!DecodeSupported(m)
           e == Graph!DraftsSupported(d)
<1>2. m # Graph!Failed /\ ~(Graph!HasWhole(e) /\ cf.support = 0) /\ Graph!Supported(g) = e
  BY DEF Graph!Supported, Graph!NEVER
<1>3. /\ m \in Modes /\ (Graph!Mixed(m) = 2 => cf.support = 3)
      /\ MayHavePieces(g) => MayHavePieces(m)
  <2>1. CASE Graph!Mixed(g) # 2 \/ cf.support = 3
    <3>1. m = g
      BY <2>1 DEF Graph!MixedSupported, Graph!Whole, Graph!ALWAYS, Graph!NEVER
    <3> QED BY <2>1, <3>1
  <2>2. CASE ~(Graph!Mixed(g) # 2 \/ cf.support = 3)
    <3>1. m = IF Graph!ContainsAttention(split) THEN Graph!FULL_AND_PIECEWISE ELSE Graph!FULL_DECODE_ONLY
      BY <1>2, <2>2 DEF Graph!MixedSupported, Graph!Whole, Graph!ALWAYS, Graph!NEVER
    <3>2. m \in Modes /\ Graph!Mixed(m) # 2
      BY <3>1, ModeOf
    <3>3. Graph!HasPieces(m) => Graph!ContainsAttention(split)
      BY <3>1, ModeOf, ModesAre
    <3> QED BY <3>2, <3>3 DEF MayHavePieces
  <2> QED BY <2>1, <2>2
<1> HIDE DEF m
<1>4. /\ d \in Modes /\ (Graph!Mixed(d) = 2 => cf.support = 3) /\ (Graph!Decode(d) = 2 => cf.support # 0)
      /\ MayHavePieces(g) => MayHavePieces(d)
  <2>1. CASE Graph!Decode(m) = 2 /\ cf.support = 0
    <3>1. d = IF cf.compile = 3 /\ (Graph!ContainsAttention(split) \/ cf.inductor)
              THEN Graph!PIECEWISE ELSE Graph!NONE
      BY <2>1 DEF Graph!DecodeSupported, Graph!Whole, Graph!NEVER, Graph!VLLM_COMPILE
    <3>2. d \in Modes /\ Graph!Mixed(d) # 2 /\ Graph!Decode(d) # 2
      BY <3>1, ModeOf
    <3>3. Graph!HasPieces(d) => Graph!ContainsAttention(split) \/ cf.inductor
      BY <3>1, ModeOf, ModesAre
    <3> QED BY <3>2, <3>3 DEF MayHavePieces
  <2>2. CASE ~(Graph!Decode(m) = 2 /\ cf.support = 0)
    <3>1. d = m
      BY <2>2 DEF Graph!DecodeSupported, Graph!Whole, Graph!NEVER
    <3> QED BY <1>3, <2>2, <3>1
  <2> QED BY <2>1, <2>2
<1> HIDE DEF d
<1>5. e \in Modes /\ Settled(e) /\ (MayHavePieces(g) => MayHavePieces(e))
  <2>1. CASE Graph!Decode(d) = 2 /\ cf.qlen > 1 /\ cf.support < 2
    <3>1. e = IF Graph!ContainsAttention(split) THEN Graph!PIECEWISE ELSE Graph!NONE
      BY <2>1 DEF Graph!DraftsSupported, Graph!Whole, Graph!UNIFORM
    <3>2. e \in Modes /\ Graph!Mixed(e) # 2 /\ Graph!Decode(e) # 2
      BY <3>1, ModeOf
    <3>3. Graph!HasPieces(e) => Graph!ContainsAttention(split)
      BY <3>1, ModeOf, ModesAre
    <3> QED BY <3>2, <3>3 DEF MayHavePieces, Settled
  <2>2. CASE ~(Graph!Decode(d) = 2 /\ cf.qlen > 1 /\ cf.support < 2)
    <3>1. e = d
      BY <2>2 DEF Graph!DraftsSupported, Graph!Whole, Graph!UNIFORM
    <3> QED BY <1>1, <1>4, <2>2, <3>1 DEF Settled
  <2> QED BY <2>1, <2>2
<1> HIDE DEF e
<1> QED BY <1>2, <1>5

LEMMA SettledStays ==
  ASSUME Graph!GraphAssumption, cf \in GraphConfigs, NEW g \in Modes, Settled(g)
  PROVE  Graph!Supported(g) = g
<1>1. cf.support \in 0..3 /\ cf.qlen \in Nat \ {0}
  BY DEF Graph!GraphAssumption, Graph!NEVER, Graph!ALWAYS
<1>2. Graph!MixedSupported(g) = g
  BY DEF Settled, Graph!MixedSupported, Graph!Whole, Graph!ALWAYS, Graph!NEVER
<1>3. Graph!DecodeSupported(g) = g
  BY DEF Settled, Graph!DecodeSupported, Graph!Whole, Graph!NEVER
<1>4. Graph!DraftsSupported(g) = g
  BY <1>1 DEF Settled, Graph!DraftsSupported, Graph!Whole, Graph!UNIFORM
<1>5. ~(Graph!HasWhole(g) /\ cf.support = 0) /\ g # Graph!Failed
  BY <1>1, ModesAre DEF Settled
<1> QED BY <1>2, <1>3, <1>4, <1>5 DEF Graph!Supported, Graph!NEVER

-----------------------------------------------------------------------------
(* The mode of the graphs                                                  *)

ModeInv ==
  /\ cf \in GraphConfigs /\ graphs \in Modes
  /\ phase \in {"new", "made", "split", "resolved", "ended", "failed"}
  /\ phase \in {"new", "made"} => graphs = cf.graphs
  /\ phase = "split" => (Graph!HasPieces(graphs) => Graph!HasPieces(cf.graphs))
  /\ Graph!Resolved => Settled(graphs) /\ MayHavePieces(graphs)

LEMMA InitMode == ASSUME Graph!GraphAssumption, Graph!Init PROVE ModeInv
  BY DEF Graph!GraphAssumption, Graph!Init, ModeInv, Modes, Graph!Resolved

LEMMA MakeMode == ASSUME ModeInv, Graph!Make PROVE ModeInv'
<1>1. /\ phase = "new" /\ phase' \in {"made", "failed"} /\ UNCHANGED <<cf, graphs, split>>
  BY Zenon DEF Graph!Make
<1> QED BY <1>1 DEF ModeInv, Graph!Resolved

(* What is chosen has pieces only where the mode asked for has them.       *)
LEMMA ChosenMode ==
  ASSUME graphs \in Modes
  PROVE  Graph!Chosen.graphs \in Modes /\ (Graph!HasPieces(Graph!Chosen.graphs) => Graph!HasPieces(graphs))
<1>1. Graph!Chosen.graphs \in {graphs, Graph!FULL, Graph!NONE}
  <2>1. CASE "attn_quant" \in passes /\ ~cf.inductor
    BY <2>1 DEF Graph!Chosen
  <2>2. CASE ~("attn_quant" \in passes /\ ~cf.inductor) /\ split = Graph!Unset
    BY <2>2 DEF Graph!Chosen
  <2>3. CASE ~("attn_quant" \in passes /\ ~cf.inductor) /\ split # Graph!Unset
    <3>1. Graph!Chosen.graphs = CASE split = {} /\ graphs = Graph!PIECEWISE -> Graph!NONE
                                 [] split = {} /\ graphs = Graph!FULL_AND_PIECEWISE -> Graph!FULL
                                 [] OTHER -> graphs
      BY <2>3 DEF Graph!Chosen
    <3> QED BY <3>1
  <2> QED BY <2>1, <2>2, <2>3
<1>2. ~Graph!HasPieces(Graph!FULL) /\ ~Graph!HasPieces(Graph!NONE)
  BY ModeOf, ModesAre
<1> HIDE DEF Graph!Chosen
<1> QED BY <1>1, <1>2, ModeOf

LEMMA SplitMode == ASSUME ModeInv, Graph!SetSplittingOps PROVE ModeInv'
<1>1. phase = "made" /\ phase' \in {"split", "failed"} /\ cf' = cf /\ graphs = cf.graphs /\ graphs \in Modes
  BY DEF Graph!SetSplittingOps, ModeInv
<1>2. graphs' \in {graphs, Graph!NONE, Graph!FULL, Graph!Chosen.graphs}
  <2>1. \/ graphs' = graphs
        \/ graphs' = CASE cf.deepep -> Graph!NONE
                       [] ~cf.deepep /\ Graph!InOnePiece /\ Graph!HasPieces(Graph!Chosen.graphs) -> Graph!FULL
                       [] OTHER -> Graph!Chosen.graphs
    BY DEF Graph!SetSplittingOps
  <2> QED BY <2>1
<1>3. ~Graph!HasPieces(Graph!FULL) /\ ~Graph!HasPieces(Graph!NONE)
  BY ModeOf, ModesAre
<1>4. graphs' \in Modes /\ (Graph!HasPieces(graphs') => Graph!HasPieces(graphs))
  BY <1>1, <1>2, <1>3, ChosenMode, ModeOf
<1> QED BY <1>1, <1>4 DEF ModeInv, Graph!Resolved, Graph!HasPieces, Graph!Decode, Graph!Mixed

LEMMA ResolveMode == ASSUME Graph!GraphAssumption, ModeInv, Graph!Resolve PROVE ModeInv'
<1> DEFINE g == Graph!Supported(graphs)
<1>1. /\ phase \in {"split", "resolved"} /\ UNCHANGED <<cf, split>>
      /\ \/ phase' = "failed" /\ graphs' = graphs
         \/ phase' \in {"resolved", "ended"} /\ g # Graph!Failed /\ graphs' = g
  <2> DEFINE adjusted == ~cf.v2 /\ g # Graph!Failed /\ Graph!Decode(g) = Graph!Whole /\ cf.qlen > 1
             rounds   == adjusted /\ ~Graph!NoMultiple /\ sizes # {}
             fails    == \/ g = Graph!Failed
                         \/ adjusted /\ Graph!NoMultiple
                         \/ rounds /\ Graph!Rounded = {}
                         \/ phase = "resolved" /\ Graph!TooManyRequests(g)
  <2>1. /\ phase \in {"split", "resolved"} /\ UNCHANGED <<cf, split>>
        /\ graphs' = IF fails THEN graphs ELSE g
        /\ phase' = IF fails THEN "failed" ELSE IF phase = "split" THEN "resolved" ELSE "ended"
    BY Zenon DEF Graph!Resolve
  <2>2. g = Graph!Failed => fails
    OBVIOUS
  <2> HIDE DEF fails
  <2>3. CASE fails
    BY <2>1, <2>3
  <2>4. CASE ~fails
    <3>1. graphs' = g /\ g # Graph!Failed
      BY <2>1, <2>2, <2>4
    <3>2. phase' = IF phase = "split" THEN "resolved" ELSE "ended"
      BY <2>1, <2>4
    <3> QED BY <2>1, <3>1, <3>2
  <2> QED BY <2>3, <2>4
<1>2. MayHavePieces(graphs) /\ graphs \in Modes /\ cf \in GraphConfigs
  BY <1>1 DEF ModeInv, MayHavePieces, Graph!Resolved
<1>3. CASE phase' = "failed" /\ graphs' = graphs
  BY <1>1, <1>2, <1>3 DEF ModeInv, Graph!Resolved
<1>4. CASE phase' \in {"resolved", "ended"} /\ g # Graph!Failed /\ graphs' = g
  <2>1. g \in Modes /\ Settled(g) /\ MayHavePieces(g)
    BY <1>2, <1>4, ModeIsSupported
  <2>2. Settled(graphs)' /\ MayHavePieces(graphs)'
    BY <1>1, <1>4, <2>1
       DEF Settled, MayHavePieces, Graph!HasPieces, Graph!Decode, Graph!Mixed, Graph!ContainsAttention
  <2> QED BY <1>1, <1>2, <1>4, <2>1, <2>2 DEF ModeInv, Graph!Resolved
<1> QED BY <1>1, <1>3, <1>4

LEMMA ModeInvHolds ==
  ASSUME Graph!GraphAssumption PROVE Spec => [](part = "graphs" => ModeInv)
<1>1. Init => (part = "graphs" => ModeInv)
  BY InitMode DEF Init
<1>2. ModeInv /\ [Graph!Next]_(Graph!vars) => ModeInv'
  <2>1. SUFFICES ASSUME ModeInv, [Graph!Next]_(Graph!vars) PROVE ModeInv'
    OBVIOUS
  <2>2. CASE UNCHANGED Graph!vars
    BY <2>1, <2>2 DEF Graph!vars, ModeInv, Graph!Resolved, Settled, MayHavePieces, Graph!HasPieces,
                      Graph!Decode, Graph!Mixed, Graph!ContainsAttention
  <2> QED BY <2>1, <2>2, MakeMode, SplitMode, ResolveMode DEF Graph!Next
<1>3. (part = "graphs" => ModeInv) /\ [Next]_engineVars => (part = "graphs" => ModeInv)'
  BY <1>2, StepOfGraph
<1> QED BY <1>1, <1>3, PTL DEF Spec

-----------------------------------------------------------------------------
(* Fusion passes that need an op                                           *)

RotaryInv == Graph!FusedRotaryIsOn

LEMMA MakeRotary == ASSUME Graph!Make PROVE RotaryInv'
<1>1. CASE phase' = "failed"
  BY <1>1 DEF RotaryInv, Graph!FusedRotaryIsOn
<1>2. CASE phase' # "failed"
  <2> DEFINE ops == Graph!WithRotary(custom, passes')
  <2>1. PICK base \in {<<"all">>, <<"none">>} :
          Graph!Acceptable(ops) /\ custom' = IF Graph!BaseModes(ops) = {} THEN ops \union {base} ELSE ops
    BY <1>2, Zenon DEF Graph!Make
  <2>2. SUFFICES ASSUME passes' \cap Graph!NeedRotary # {} PROVE Graph!Enabled("rotary", custom')
    BY DEF RotaryInv, Graph!FusedRotaryIsOn, Graph!NeedRotary, Graph!Enabled
  <2>3. <<"+", "rotary">> \in ops
    BY <2>2 DEF Graph!WithRotary
  <2>4. <<"-", "rotary">> \notin ops
    <3>1. SUFFICES ASSUME <<"-", "rotary">> \in ops PROVE FALSE
      OBVIOUS
    <3> DEFINE plus == <<"+", "rotary">>
               minus == <<"-", "rotary">>
    <3>2. plus[1] = "+" /\ plus[2] = "rotary" /\ minus[1] = "-" /\ minus[2] = "rotary" /\ plus \in ops /\ minus \in ops
      BY <2>3, <3>1
    <3> HIDE DEF plus, minus, ops
    <3>3. "rotary" \in Graph!Directed("+", ops) /\ "rotary" \in Graph!Directed("-", ops)
      BY <3>2 DEF Graph!Directed
    <3> QED BY <2>1, <3>3 DEF Graph!Acceptable
  <2> HIDE DEF ops
  <2>5. <<"+", "rotary">> \in custom' /\ <<"-", "rotary">> \notin custom'
    <3>1. base # <<"-", "rotary">>
      OBVIOUS
    <3> QED BY <2>1, <2>3, <2>4, <3>1
  <2> QED BY <2>5 DEF Graph!Enabled
<1> QED BY <1>1, <1>2

LEMMA SplitRotary == ASSUME RotaryInv, Graph!SetSplittingOps PROVE RotaryInv'
<1>1. phase = "made" /\ custom' = custom
  BY Zenon DEF Graph!SetSplittingOps
<1>2. passes' \subseteq passes
  <2>1. passes' = passes \/ passes' = Graph!Chosen.passes
    BY DEF Graph!SetSplittingOps
  <2>2. Graph!Chosen.passes \subseteq passes
    BY DEF Graph!Chosen
  <2> QED BY <2>1, <2>2
<1> QED BY <1>1, <1>2 DEF RotaryInv, Graph!FusedRotaryIsOn, Graph!NeedRotary, Graph!Enabled

LEMMA ResolveRotary == ASSUME RotaryInv, Graph!Resolve PROVE RotaryInv'
<1>1. phase \in {"split", "resolved"} /\ passes' = passes /\ custom' = custom
  BY Zenon DEF Graph!Resolve
<1> QED BY <1>1 DEF RotaryInv, Graph!FusedRotaryIsOn, Graph!NeedRotary, Graph!Enabled

(* resolve_cudagraph_mode_and_sizes, whatever was asked for, the backend   *)
(* and the splitting ops: no graph is captured that the backend cannot     *)
(* replay, and pieces nobody asked for are cut at the attention; a fusion  *)
(* that matches the rotary op finds it enabled.                            *)
THEOREM SupportedIsResolvedHolds ==
  ASSUME Graph!GraphAssumption PROVE Spec => []SupportedIsResolved
<1>1. Init => (part = "graphs" => RotaryInv)
  BY DEF Init, Graph!Init, RotaryInv, Graph!FusedRotaryIsOn
<1>2. RotaryInv /\ [Graph!Next]_(Graph!vars) => RotaryInv'
  <2>1. SUFFICES ASSUME RotaryInv, [Graph!Next]_(Graph!vars) PROVE RotaryInv'
    OBVIOUS
  <2>2. CASE UNCHANGED Graph!vars
    BY <2>1, <2>2 DEF Graph!vars, RotaryInv, Graph!FusedRotaryIsOn, Graph!NeedRotary, Graph!Enabled
  <2> QED BY <2>1, <2>2, MakeRotary, SplitRotary, ResolveRotary DEF Graph!Next
<1>3. ModeInv => Graph!SupportedIsResolved
  BY DEF ModeInv, Settled, MayHavePieces, Graph!SupportedIsResolved, Graph!Whole, Graph!ALWAYS, Graph!NEVER,
         Graph!UNIFORM
<1>4. (part = "graphs" => RotaryInv) /\ [Next]_engineVars => (part = "graphs" => RotaryInv)'
  BY <1>2, StepOfGraph
<1>5. (part = "graphs" => ModeInv) /\ (part = "graphs" => RotaryInv) => SupportedIsResolved
  BY <1>3 DEF RotaryInv, SupportedIsResolved
<1> QED BY <1>1, <1>4, <1>5, ModeInvHolds, PTL DEF Spec

-----------------------------------------------------------------------------
(* What the launcher asks for                                              *)

PlainGraphs ==
  /\ cf.split = Graph!Unset /\ cf.passes = {} /\ ~cf.deepep /\ cf.support >= 2
  /\ Graph!Mixed(cf.graphs) # 2

PlainInv ==
  PlainGraphs =>
    /\ passes = {} /\ graphs = cf.graphs
    /\ phase \in {"new", "made"} => split = cf.split
    /\ phase \in {"split", "resolved", "ended"} /\ cf.compile = 3 => "gather" \in split

LEMMA InitPlain == ASSUME Graph!Init PROVE PlainInv
  BY DEF Graph!Init, PlainInv, PlainGraphs

LEMMA MakePlain == ASSUME PlainInv, Graph!Make PROVE PlainInv'
<1>1. /\ phase = "new" /\ phase' \in {"made", "failed"} /\ UNCHANGED <<cf, graphs, split>>
      /\ passes' = Graph!PlatformPasses(passes)
  BY Zenon DEF Graph!Make
<1>2. passes' \subseteq passes
  BY <1>1 DEF Graph!PlatformPasses
<1> QED BY <1>1, <1>2 DEF PlainInv, PlainGraphs, Graph!Mixed, Graph!Unset

LEMMA SplitPlain == ASSUME PlainInv, Graph!SetSplittingOps PROVE PlainInv'
<1>1. phase = "made" /\ phase' \in {"split", "failed"} /\ cf' = cf
  BY DEF Graph!SetSplittingOps
<1>2. SUFFICES ASSUME PlainGraphs
               PROVE  passes' = {} /\ graphs' = cf.graphs /\ (phase' = "split" /\ cf.compile = 3 => "gather" \in split')
  BY <1>1 DEF PlainInv, PlainGraphs, Graph!Mixed, Graph!Unset
<1>3. passes = {} /\ graphs = cf.graphs /\ split = Graph!Unset /\ ~cf.deepep
  BY <1>1, <1>2 DEF PlainInv, PlainGraphs
<1>4. CASE cf.compile # 3
  BY <1>3, <1>4 DEF Graph!SetSplittingOps, Graph!VLLM_COMPILE
<1>5. CASE cf.compile = 3
  <2>1. /\ Graph!Chosen.passes = {} /\ Graph!Chosen.graphs = cf.graphs
        /\ "gather" \in Graph!Chosen.split
    BY <1>3 DEF Graph!Chosen, Graph!AttentionOps
  <2>2. ~Graph!InOnePiece
    BY <1>3 DEF Graph!InOnePiece
  <2>3. phase' = "split" => /\ passes' = Graph!Chosen.passes
                            /\ split' = Graph!Chosen.split
                            /\ graphs' = Graph!Chosen.graphs
    BY <1>3, <1>5, <2>2 DEF Graph!SetSplittingOps, Graph!VLLM_COMPILE
  <2>4. phase' = "failed" => passes' = passes /\ graphs' = graphs
    BY <1>3, <1>5, <2>2 DEF Graph!SetSplittingOps, Graph!VLLM_COMPILE
  <2> QED BY <1>1, <1>3, <2>1, <2>3, <2>4
<1> QED BY <1>4, <1>5

LEMMA ResolvePlain == ASSUME Graph!GraphAssumption, ModeInv, PlainInv, Graph!Resolve PROVE PlainInv'
<1>1. /\ phase \in {"split", "resolved"} /\ phase' \in {"resolved", "ended", "failed"}
      /\ UNCHANGED <<cf, passes, split>> /\ graphs' \in {graphs, Graph!Supported(graphs)}
  BY DEF Graph!Resolve
<1>2. SUFFICES ASSUME PlainGraphs PROVE graphs' = cf.graphs
  BY <1>1 DEF PlainInv, PlainGraphs, Graph!Mixed, Graph!Unset
<1>3. Graph!Supported(graphs) = graphs
  <2>1. cf \in GraphConfigs /\ graphs \in Modes /\ graphs = cf.graphs
    BY <1>2 DEF ModeInv, PlainInv
  <2>2. Settled(graphs)
    BY <1>2, <2>1 DEF Settled, PlainGraphs, Graph!GraphAssumption, Graph!NEVER, Graph!ALWAYS
  <2> QED BY <2>1, <2>2, SettledStays
<1> QED BY <1>1, <1>2, <1>3 DEF PlainInv

(* GRAPHS of the launcher, with a backend that takes drafts: piecewise and *)
(* eager keep the copy of the rows through the host out of every graph,    *)
(* and no other setting does.                                              *)
THEOREM GatherStaysOutsideHolds ==
  ASSUME Graph!GraphAssumption PROVE Spec => []GatherStaysOutside
<1>1. Init => (part = "graphs" => PlainInv)
  BY InitPlain DEF Init
<1>2. ModeInv /\ PlainInv /\ [Graph!Next]_(Graph!vars) => PlainInv'
  <2>1. SUFFICES ASSUME ModeInv, PlainInv, [Graph!Next]_(Graph!vars) PROVE PlainInv'
    OBVIOUS
  <2>2. CASE UNCHANGED Graph!vars
    BY <2>1, <2>2 DEF Graph!vars, PlainInv, PlainGraphs, Graph!Mixed, Graph!Unset
  <2> QED BY <2>1, <2>2, MakePlain, SplitPlain, ResolvePlain DEF Graph!Next
<1>3. PlainInv => Graph!GatherStaysOutside
  <2>1. SUFFICES ASSUME PlainInv, NEW G \in {"eager", "piecewise", "nocompile", "full", "default"},
                        Graph!Resolved, cf.compile = Graph!Launched(G).compile,
                        cf.graphs = Graph!Launched(G).graphs,
                        cf.split = Graph!Unset, cf.passes = {}, ~cf.deepep, cf.support >= Graph!UNIFORM
                 PROVE  G \in {"eager", "piecewise"} <=>
                          ~Graph!HasWhole(graphs) /\ (Graph!HasPieces(graphs) => "gather" \in split)
    BY DEF Graph!GatherStaysOutside
  <2>2. \/ G = "eager" /\ cf.graphs = Graph!NONE
        \/ G = "piecewise" /\ cf.graphs = Graph!PIECEWISE /\ cf.compile = 3
        \/ G = "nocompile" /\ cf.graphs = Graph!FULL_DECODE_ONLY
        \/ G \in {"full", "default"} /\ cf.graphs = Graph!FULL_AND_PIECEWISE
    BY <2>1 DEF Graph!Launched, Graph!VLLM_COMPILE
  <2>3. Graph!Mixed(cf.graphs) # 2
    BY <2>2, ModeOf
  <2>4. graphs = cf.graphs /\ (cf.compile = 3 => "gather" \in split)
    BY <2>1, <2>3 DEF PlainInv, PlainGraphs, Graph!UNIFORM, Graph!Resolved
  <2> QED BY <2>2, <2>4, ModeOf, ModesAre
<1>4. /\ part = "graphs" => ModeInv
      /\ part = "graphs" => PlainInv
      /\ [Next]_engineVars
      => (part = "graphs" => PlainInv)'
  BY <1>2, StepOfGraph
<1>5. (part = "graphs" => PlainInv) => GatherStaysOutside
  BY <1>3 DEF GatherStaysOutside
<1> QED BY <1>1, <1>4, <1>5, ModeInvHolds, PTL DEF Spec

-----------------------------------------------------------------------------
(* Numbers                                                                 *)

LEMMA QuotientBounds ==
  ASSUME NEW n \in Nat, NEW d \in Nat \ {0}
  PROVE  /\ n \div d \in Nat /\ d * (n \div d) <= n /\ n < d * (n \div d) + d
         /\ n % d \in 0..d-1 /\ n = d * (n \div d) + (n % d)
  BY SMT

LEMMA ProductMonotone ==
  ASSUME NEW a \in Int, NEW b \in Int, NEW p \in Nat, a <= b
  PROVE  p * a <= p * b
  BY SMT

LEMMA QuotientUnique ==
  ASSUME NEW d \in Nat \ {0}, NEW c \in Nat, NEW r \in 0..d-1
  PROVE  (d * c + r) \div d = c /\ (d * c + r) % d = r
<1> DEFINE n == d * c + r
           q == n \div d
<1>1. d * c \in Nat /\ n \in Nat /\ n >= d * c /\ n < d * c + d
  <2>1. d * c \in Nat
    BY SMT
  <2> QED BY <2>1
<1>2. q \in Nat /\ d * q <= n /\ n < d * q + d /\ n = d * q + (n % d) /\ n % d \in 0..d-1
  BY <1>1, QuotientBounds
<1>3. d * q \in Nat /\ d * (c + 1) = d * c + d /\ d * (q + 1) = d * q + d
  BY <1>2, SMT
<1> HIDE DEF q
<1>4. ~(c + 1 <= q)
  <2>1. SUFFICES ASSUME c + 1 <= q PROVE FALSE
    OBVIOUS
  <2>2. d * (c + 1) <= d * q
    BY <2>1, <1>2, ProductMonotone
  <2> QED BY <2>2, <1>1, <1>2, <1>3
<1>5. ~(q + 1 <= c)
  <2>1. SUFFICES ASSUME q + 1 <= c PROVE FALSE
    OBVIOUS
  <2>2. d * (q + 1) <= d * c
    BY <2>1, <1>2, ProductMonotone
  <2> QED BY <2>2, <1>1, <1>2, <1>3
<1>6. q = c
  BY <1>2, <1>4, <1>5
<1>7. n % d = r
  BY <1>1, <1>2, <1>6
<1> QED BY <1>6, <1>7 DEF q

(* A multiple of a multiple                                                *)
LEMMA MultiplesNest ==
  ASSUME NEW n \in Nat, NEW m \in Nat \ {0}, NEW d \in Nat \ {0}, n % m = 0, m % d = 0
  PROVE  n % d = 0
<1> DEFINE a == m \div d
           b == n \div m
<1>1. a \in Nat /\ m = d * a + 0 /\ b \in Nat /\ n = m * b + 0
  BY QuotientBounds
<1> HIDE DEF a, b
<1>2. m = d * a /\ n = m * b
  <2>1. d * a \in Nat /\ m * b \in Nat
    BY <1>1, SMT
  <2> QED BY <1>1, <2>1
<1>3. a * b \in Nat /\ n = d * (a * b)
  BY <1>1, <1>2, SMT
<1> DEFINE c == a * b
<1>4. c \in Nat /\ n = d * c /\ d * c \in Nat
  BY <1>3
<1> HIDE DEF c
<1>5. 0 \in 0..d-1 /\ d * c + 0 = n
  BY <1>4
<1>6. (d * c + 0) % d = 0
  BY <1>4, <1>5, QuotientUnique
<1> QED BY <1>5, <1>6

(* round_up                                                                *)
LEMMA RoundUpIs ==
  ASSUME NEW n \in Nat \ {0}, NEW k \in Nat \ {0}
  PROVE  /\ Graph!RoundUp(n, k) \in Nat \ {0}
         /\ Graph!RoundUp(n, k) >= n /\ Graph!RoundUp(n, k) < n + k
         /\ Graph!RoundUp(n, k) % k = 0
         /\ n % k = 0 => Graph!RoundUp(n, k) = n
<1> DEFINE q == (n + k - 1) \div k
<1>1. n + k - 1 \in Nat
  OBVIOUS
<1>2. q \in Nat /\ k * q <= n + k - 1 /\ n + k - 1 < k * q + k
  BY <1>1, QuotientBounds
<1> HIDE DEF q
<1>3. k * q \in Nat /\ q * k = k * q
  BY <1>2, SMT
<1>4. Graph!RoundUp(n, k) = k * q
  BY <1>3 DEF Graph!RoundUp, q
<1>5. k * q >= n /\ k * q < n + k
  BY <1>2, <1>3
<1>6. (k * q) % k = 0
  <2>1. 0 \in 0..k-1 /\ k * q + 0 = k * q
    BY <1>3
  <2>2. (k * q + 0) % k = 0
    BY <1>2, <2>1, QuotientUnique
  <2> QED BY <2>1, <2>2
<1>7. ASSUME n % k = 0 PROVE k * q = n
  <2> DEFINE c == n \div k
  <2>1. c \in Nat /\ n = k * c + 0
    BY <1>7, QuotientBounds
  <2> HIDE DEF c
  <2>2. k * c \in Nat /\ n = k * c
    <3>1. k * c \in Nat
      BY <2>1, SMT
    <3> QED BY <2>1, <3>1
  <2>3. k - 1 \in 0..k-1 /\ n + k - 1 = k * c + (k - 1)
    BY <2>2
  <2>4. (k * c + (k - 1)) \div k = c
    BY <2>1, <2>3, QuotientUnique
  <2>5. q = c
    BY <2>3, <2>4 DEF q
  <2> QED BY <2>2, <2>5
<1> QED BY <1>3, <1>4, <1>5, <1>6, <1>7

LEMMA GreatestExists ==
  ASSUME NEW b \in Nat, NEW S \in SUBSET (0..b), S # {}
  PROVE  \E x \in S : \A y \in S : y <= x
<1> DEFINE T == {b - x : x \in S}
<1>1. T \in SUBSET Nat /\ T # {}
  <2>1. PICK y \in S : TRUE
    OBVIOUS
  <2>2. b - y \in T
    OBVIOUS
  <2>3. \A x \in S : b - x \in Nat
    OBVIOUS
  <2> QED BY <2>2, <2>3
<1>2. PICK t \in T : \A y \in T : t <= y
  <2> HIDE DEF T
  <2> QED BY <1>1, LeastExists
<1>3. PICK x \in S : t = b - x
  OBVIOUS
<1>4. \A y \in S : y <= x
  BY <1>2, <1>3
<1> QED BY <1>4

-----------------------------------------------------------------------------
(* The captured sizes                                                      *)

(* Sizes for graphs of decode batches: multiples of m, the largest of them *)
(* the one the engine reckons with and no larger than the largest asked    *)
(* for, and none leaves a gap of m between a number of rows and a size     *)
(* asked for.                                                              *)
Fitted(sz, mx, m, asked) ==
  /\ sz \subseteq Nat \ {0} /\ \A s \in sz : s % m = 0
  /\ mx \in sz /\ \A s \in sz : s <= mx
  /\ mx <= Graph!Max(asked)
  /\ \A n \in 1..mx : \E s \in sz : s >= n /\ \A t \in asked : t >= n => s < t + m

AsAsked == sizes = cf.sizes /\ maxSize = Graph!Max({0} \union cf.sizes)

Adjusted(g) == ~cf.v2 /\ Graph!Decode(g) = 2 /\ cf.qlen > 1

SizesInv ==
  /\ phase \in {"new", "made", "split"} => AsAsked /\ resolved = <<>>
  /\ phase = "resolved" => resolved = << <<graphs, sizes, maxSize>> >>
  /\ phase = "ended" => resolved[1] = resolved[2]
  /\ phase = "failed" => resolved = <<>> \/ \E x : resolved = <<x>>
  /\ Graph!Resolved =>
       \/ AsAsked /\ (Adjusted(graphs) => cf.sizes = {})
       \/ /\ Adjusted(graphs) /\ cf.sizes # {} /\ ~Graph!NoMultiple
          /\ Fitted(sizes, maxSize, Graph!Multiple, cf.sizes)

LEMMA LargestAsked ==
  ASSUME Graph!GraphAssumption, cf \in GraphConfigs
  PROVE  /\ cf.sizes \subseteq Nat \ {0}
         /\ cf.sizes = {} => Graph!Max({0} \union cf.sizes) = 0
         /\ cf.sizes # {} => /\ Graph!Max(cf.sizes) \in cf.sizes /\ \A s \in cf.sizes : s <= Graph!Max(cf.sizes)
                             /\ Graph!Max({0} \union cf.sizes) = Graph!Max(cf.sizes)
<1>1. cf.sizes \subseteq Nat \ {0}
  BY DEF Graph!GraphAssumption
<1>2. ASSUME cf.sizes = {} PROVE Graph!Max({0} \union cf.sizes) = 0
  <2>1. {0} \union cf.sizes = {0}
    BY <1>2
  <2>2. Graph!Max({0}) = 0
    BY MaxIs
  <2> QED BY <2>1, <2>2
<1>3. ASSUME cf.sizes # {}
      PROVE  /\ Graph!Max(cf.sizes) \in cf.sizes /\ \A s \in cf.sizes : s <= Graph!Max(cf.sizes)
             /\ Graph!Max({0} \union cf.sizes) = Graph!Max(cf.sizes)
  <2>1. PICK b \in cf.sizes : \A s \in cf.sizes : s <= b
    BY <1>3 DEF Graph!GraphAssumption
  <2> DEFINE S == cf.sizes
             Z == {0} \union S
  <2>2. S \in SUBSET Int /\ Z \in SUBSET Int /\ b \in S /\ b \in Z /\ (\A y \in Z : y <= b) /\ \A y \in S : y <= b
    BY <1>1, <2>1
  <2> HIDE DEF S, Z
  <2>3. Graph!Max(S) = b /\ Graph!Max(Z) = b
    BY <2>2, MaxIs
  <2> QED BY <2>1, <2>3 DEF S, Z
<1> QED BY <1>1, <1>2, <1>3

LEMMA MultipleIs ==
  ASSUME Graph!GraphAssumption, cf \in GraphConfigs
  PROVE  /\ cf.qlen \in Nat \ {0} /\ Graph!Multiple \in Nat \ {0}
         /\ ~Graph!NoMultiple => Graph!Multiple % cf.qlen = 0
<1>1. cf.qlen \in Nat \ {0} /\ cf.tp \in Nat \ {0}
  BY DEF Graph!GraphAssumption
<1> DEFINE q == cf.qlen
           t == cf.tp
<1> HIDE DEF q, t
<1>2. Graph!Max({q, t}) \in Nat \ {0}
  <2>1. q \in Nat \ {0} /\ t \in Nat \ {0}
    BY <1>1 DEF q, t
  <2>2. CASE q >= t
    <3>1. Graph!Max({q, t}) = q
      BY <2>1, <2>2, MaxIs
    <3> QED BY <2>1, <3>1
  <2>3. CASE t >= q
    <3>1. Graph!Max({q, t}) = t
      BY <2>1, <2>3, MaxIs
    <3> QED BY <2>1, <3>1
  <2> QED BY <2>1, <2>2, <2>3
<1>3. Graph!Multiple \in {q, Graph!Max({q, t})}
  BY DEF Graph!Multiple, q, t
<1>4. q \in Nat \ {0}
  BY <1>1 DEF q
<1> QED BY <1>1, <1>2, <1>3, <1>4 DEF Graph!NoMultiple

(* Between a number of rows and the sizes asked for there is the least of  *)
(* the larger ones.                                                        *)
LEMMA LeastAbove ==
  ASSUME NEW S \in SUBSET (Nat \ {0}), NEW n \in Nat, NEW b \in S, n <= b
  PROVE  \E s \in S : s >= n /\ \A y \in S : y >= n => s <= y
<1> DEFINE T == {s \in S : s >= n}
<1>1. T \in SUBSET Nat /\ b \in T
  OBVIOUS
<1>2. PICK s \in T : \A y \in T : s <= y
  <2> HIDE DEF T
  <2> QED BY <1>1, LeastExists
<1> QED BY <1>2

(* The sizes rounding leaves fit; rounded once more, they stay.            *)
LEMMA RoundedFits ==
  ASSUME Graph!GraphAssumption, cf \in GraphConfigs, AsAsked, cf.sizes # {}, Graph!Rounded # {}
  PROVE  Fitted(Graph!Rounded, Graph!Max(Graph!Rounded), Graph!Multiple, cf.sizes)
<1> DEFINE M == Graph!Multiple
           b == Graph!Max(cf.sizes)
           asked == cf.sizes
           W == {Graph!RoundUp(s, M) : s \in asked} \cap (0..b)
           R == Graph!Rounded
<1>1. /\ M \in Nat \ {0} /\ asked \subseteq Nat \ {0} /\ b \in asked /\ b \in Nat /\ \A s \in asked : s <= b
      /\ sizes = asked /\ maxSize = b
  BY LargestAsked, MultipleIs DEF AsAsked
<1>2. R = IF W = {} /\ M <= b THEN {M} ELSE W
  BY <1>1 DEF Graph!Rounded
<1>3. R # {}
  OBVIOUS
<1> HIDE DEF M, b, asked, R
<1>4. \A s \in asked : /\ Graph!RoundUp(s, M) \in Nat \ {0} /\ Graph!RoundUp(s, M) >= s
                       /\ Graph!RoundUp(s, M) < s + M /\ Graph!RoundUp(s, M) % M = 0
  BY <1>1, RoundUpIs
<1>5. W \subseteq Nat \ {0} /\ W \in SUBSET (0..b) /\ \A s \in W : s % M = 0
  BY <1>1, <1>4
<1>6. M % M = 0
  <2>1. 0 \in 0..M-1 /\ 1 \in Nat /\ M * 1 + 0 = M
    BY <1>1
  <2>2. (M * 1 + 0) % M = 0
    BY <1>1, <2>1, QuotientUnique
  <2> QED BY <2>1, <2>2
<1>7. CASE W = {} /\ M <= b
  <2>1. R = {M}
    BY <1>2, <1>7
  <2>2. Graph!Max(R) = M
    BY <1>1, <2>1, MaxIs
  <2>3. \A n \in 1..M : M >= n /\ \A t \in asked : t >= n => M < t + M
    BY <1>1
  <2>4. Fitted({M}, M, M, asked)
    BY <1>1, <1>6, <1>7, <2>3 DEF Fitted, b, asked
  <2> QED BY <2>1, <2>2, <2>4 DEF M, asked, R
<1>8. CASE ~(W = {} /\ M <= b)
  <2>1. R = W
    BY <1>2, <1>8
  <2>2. PICK x \in W : \A y \in W : y <= x
    <3> HIDE DEF W
    <3> QED BY <1>1, <1>3, <1>5, <2>1, GreatestExists
  <2>3. Graph!Max(R) = x
    <3> HIDE DEF W
    <3>1. W \in SUBSET Int
      BY <1>5
    <3> QED BY <2>1, <2>2, <3>1, MaxIs
  <2>4. ASSUME NEW n \in 1..x PROVE \E s \in W : s >= n /\ \A t \in asked : t >= n => s < t + M
    <3>1. x \in Nat \ {0} /\ n \in Nat /\ n <= x /\ x <= b
      BY <1>5
    <3>2. PICK s \in W : s >= n /\ \A y \in W : y >= n => s <= y
      <4> HIDE DEF W
      <4> QED BY <1>5, <3>1, LeastAbove
    <3>3. s \in Nat /\ s <= x
      BY <1>5, <2>2
    <3>4. ASSUME NEW t \in asked, t >= n PROVE s < t + M
      <4> DEFINE u == Graph!RoundUp(t, M)
      <4>1. u \in Nat /\ u >= t /\ u < t + M /\ t \in Nat
        BY <1>1, <1>4
      <4>2. u <= b => u \in W
        BY <4>1
      <4> HIDE DEF u, W
      <4>3. CASE u <= b
        <5>1. s <= u
          BY <3>2, <3>4, <3>1, <4>1, <4>2, <4>3
        <5> QED BY <1>1, <3>3, <4>1, <5>1
      <4>4. CASE ~(u <= b)
        BY <1>1, <3>1, <3>3, <4>1, <4>4
      <4> QED BY <4>3, <4>4
    <3> QED BY <3>2, <3>4
  <2> HIDE DEF W
  <2>5. x <= b
    BY <1>5
  <2>6. Fitted(W, x, M, asked)
    BY <1>5, <2>2, <2>4, <2>5 DEF Fitted, b, asked
  <2> QED BY <2>1, <2>3, <2>6 DEF M, asked, R
<1> QED BY <1>7, <1>8

LEMMA RoundedStays ==
  ASSUME Graph!GraphAssumption, cf \in GraphConfigs, Fitted(sizes, maxSize, Graph!Multiple, cf.sizes)
  PROVE  Graph!Rounded = sizes /\ Graph!Max(sizes) = maxSize
<1> DEFINE M == Graph!Multiple
           W == {Graph!RoundUp(s, M) : s \in sizes} \cap (0..maxSize)
<1>1. M \in Nat \ {0}
  BY MultipleIs
<1>2. /\ sizes \subseteq Nat \ {0} /\ (\A s \in sizes : s % M = 0)
      /\ maxSize \in sizes /\ \A s \in sizes : s <= maxSize
  BY DEF Fitted
<1> HIDE DEF M
<1>3. \A s \in sizes : Graph!RoundUp(s, M) = s
  BY <1>1, <1>2, RoundUpIs
<1>4. W = sizes
  <2>1. \A s \in sizes : s \in 0..maxSize
    BY <1>2
  <2>2. ASSUME NEW s \in sizes PROVE s \in W
    <3>1. s = Graph!RoundUp(s, M) /\ s \in 0..maxSize
      BY <1>3, <2>1
    <3> QED BY <3>1
  <2>3. ASSUME NEW w \in W PROVE w \in sizes
    BY <1>3
  <2> HIDE DEF W
  <2> QED BY <2>2, <2>3
<1>5. Graph!Rounded = IF W = {} /\ M <= maxSize THEN {M} ELSE W
  BY DEF Graph!Rounded, M
<1>6. Graph!Max(sizes) = maxSize
  <2>1. sizes \in SUBSET Int
    BY <1>2
  <2> QED BY <1>2, <2>1, MaxIs
<1> HIDE DEF W
<1> QED BY <1>2, <1>4, <1>5, <1>6

LEMMA InitSizes == ASSUME Graph!Init PROVE SizesInv
  BY DEF Graph!Init, SizesInv, AsAsked, Graph!Resolved

LEMMA MakeSizes == ASSUME SizesInv, Graph!Make PROVE SizesInv'
<1>1. phase = "new" /\ phase' \in {"made", "failed"} /\ UNCHANGED <<cf, graphs, sizes, maxSize, resolved>>
  BY Zenon DEF Graph!Make
<1>2. AsAsked' /\ resolved' = <<>>
  BY <1>1 DEF SizesInv, AsAsked
<1> QED BY <1>1, <1>2 DEF SizesInv, Graph!Resolved

LEMMA SplitSizes == ASSUME SizesInv, Graph!SetSplittingOps PROVE SizesInv'
<1>1. phase = "made" /\ phase' \in {"split", "failed"} /\ UNCHANGED <<cf, sizes, maxSize, resolved>>
  BY DEF Graph!SetSplittingOps
<1>2. AsAsked' /\ resolved' = <<>>
  BY <1>1 DEF SizesInv, AsAsked
<1> QED BY <1>1, <1>2 DEF SizesInv, Graph!Resolved

(* The first call rounds what was asked for; the second finds it rounded.  *)
LEMMA ResolveSizes ==
  ASSUME Graph!GraphAssumption, ModeInv, SizesInv, Graph!Resolve
  PROVE  SizesInv'
<1> DEFINE g        == Graph!Supported(graphs)
           adjusted == ~cf.v2 /\ g # Graph!Failed /\ Graph!Decode(g) = Graph!Whole /\ cf.qlen > 1
           rounds   == adjusted /\ ~Graph!NoMultiple /\ sizes # {}
           fails    == \/ g = Graph!Failed
                       \/ adjusted /\ Graph!NoMultiple
                       \/ rounds /\ Graph!Rounded = {}
                       \/ phase = "resolved" /\ Graph!TooManyRequests(g)
           rounded  == rounds /\ Graph!Rounded # {}
           entry    == <<g, sizes', maxSize'>>
<1>1. /\ phase \in {"split", "resolved"} /\ UNCHANGED <<cf, passes, custom, split>>
      /\ sizes' = IF rounded THEN Graph!Rounded ELSE sizes
      /\ maxSize' = IF rounded THEN Graph!Max(Graph!Rounded) ELSE maxSize
      /\ graphs' = IF fails THEN graphs ELSE g
      /\ phase' = IF fails THEN "failed" ELSE IF phase = "split" THEN "resolved" ELSE "ended"
      /\ resolved' = IF fails THEN resolved ELSE Append(resolved, entry)
  BY Zenon DEF Graph!Resolve
<1>2. Graph!Multiple' = Graph!Multiple /\ Graph!NoMultiple' = Graph!NoMultiple
  BY <1>1 DEF Graph!Multiple, Graph!NoMultiple
<1>3. cf \in GraphConfigs /\ (~fails => g # Graph!Failed)
  BY DEF ModeInv
<1>4. ~fails => ~(adjusted /\ Graph!NoMultiple) /\ ~(rounds /\ Graph!Rounded = {})
  OBVIOUS
<1>5. g # Graph!Failed => (adjusted <=> Adjusted(g))
  BY DEF Adjusted, Graph!Whole
<1> HIDE DEF fails, adjusted, g
<1>6. CASE fails
  <2>1. phase' = "failed" /\ resolved' = resolved
    BY <1>1, <1>6
  <2>2. resolved = <<>> \/ \E x : resolved = <<x>>
    BY <1>1 DEF SizesInv
  <2> QED BY <2>1, <2>2 DEF SizesInv, Graph!Resolved
<1>7. CASE ~fails /\ phase = "split"
  <2>1. AsAsked /\ resolved = <<>> /\ phase' = "resolved" /\ graphs' = g /\ resolved' = <<entry>>
    BY <1>1, <1>7 DEF SizesInv
  <2>2. CASE rounds
    <3>1. rounded /\ cf.sizes # {} /\ Adjusted(g) /\ ~Graph!NoMultiple
      BY <1>3, <1>4, <1>5, <1>7, <2>1, <2>2 DEF AsAsked
    <3>2. Fitted(sizes', maxSize', Graph!Multiple, cf.sizes)
      BY <1>1, <1>3, <2>1, <3>1, RoundedFits
    <3>3. Adjusted(graphs)'
      BY <1>1, <2>1, <3>1 DEF Adjusted, Graph!Decode
    <3>4. Fitted(sizes, maxSize, Graph!Multiple, cf.sizes)'
      BY <1>1, <1>2, <3>2 DEF Fitted
    <3> QED BY <1>1, <1>2, <2>1, <3>1, <3>3, <3>4 DEF SizesInv
  <2>3. CASE ~rounds
    <3>1. UNCHANGED <<sizes, maxSize>>
      BY <1>1, <2>3
    <3>2. Adjusted(g) => cf.sizes = {}
      BY <1>3, <1>4, <1>5, <1>7, <2>1, <2>3 DEF AsAsked
    <3>3. AsAsked' /\ (Adjusted(graphs)' => cf'.sizes = {})
      BY <1>1, <2>1, <3>1, <3>2 DEF AsAsked, Adjusted, Graph!Decode
    <3> QED BY <2>1, <3>3 DEF SizesInv
  <2> QED BY <2>2, <2>3
<1>8. CASE ~fails /\ phase = "resolved"
  <2>1. /\ resolved = << <<graphs, sizes, maxSize>> >>
        /\ \/ AsAsked /\ (Adjusted(graphs) => cf.sizes = {})
           \/ /\ Adjusted(graphs) /\ cf.sizes # {} /\ ~Graph!NoMultiple
              /\ Fitted(sizes, maxSize, Graph!Multiple, cf.sizes)
    BY <1>8 DEF SizesInv, Graph!Resolved
  <2>2. g = graphs
    BY <1>3, <1>8, SettledStays DEF ModeInv, Graph!Resolved, g
  <2>3. phase' = "ended" /\ graphs' = graphs /\ resolved' = Append(resolved, entry)
    BY <1>1, <1>8, <2>2
  <2>4. UNCHANGED <<sizes, maxSize>>
    <3>1. CASE rounded
      <4>1. Adjusted(graphs)
        BY <1>3, <1>5, <1>8, <2>2, <3>1
      <4>2. Fitted(sizes, maxSize, Graph!Multiple, cf.sizes)
        BY <2>1, <3>1, <4>1 DEF AsAsked
      <4>3. Graph!Rounded = sizes /\ Graph!Max(sizes) = maxSize
        BY <1>3, <4>2, RoundedStays
      <4> QED BY <1>1, <3>1, <4>3
    <3>2. CASE ~rounded
      BY <1>1, <3>2
    <3> QED BY <3>1, <3>2
  <2>5. resolved'[1] = resolved'[2]
    <3> DEFINE x == <<graphs, sizes, maxSize>>
    <3>1. entry = x
      BY <2>2, <2>4
    <3>2. resolved = <<x>>
      BY <2>1
    <3> HIDE DEF x, entry
    <3>3. Append(<<x>>, x)[1] = x /\ Append(<<x>>, x)[2] = x
      <4>1. <<x>> \in Seq({x})
        OBVIOUS
      <4> QED BY <4>1
    <3> QED BY <2>3, <3>1, <3>2, <3>3
  <2>6. Adjusted(graphs)' = Adjusted(graphs) /\ AsAsked' = AsAsked
    BY <1>1, <2>3, <2>4 DEF Adjusted, AsAsked, Graph!Decode
  <2>7. Fitted(sizes, maxSize, Graph!Multiple, cf.sizes)' = Fitted(sizes, maxSize, Graph!Multiple, cf.sizes)
    BY <1>1, <1>2, <2>4 DEF Fitted
  <2>8. \/ AsAsked' /\ (Adjusted(graphs)' => cf'.sizes = {})
        \/ /\ Adjusted(graphs)' /\ cf'.sizes # {} /\ ~Graph!NoMultiple'
           /\ Fitted(sizes, maxSize, Graph!Multiple, cf.sizes)'
    BY <1>1, <1>2, <2>1, <2>6, <2>7
  <2> QED BY <2>3, <2>5, <2>8 DEF SizesInv
<1> QED BY <1>1, <1>6, <1>7, <1>8

LEMMA SizesInvHolds ==
  ASSUME Graph!GraphAssumption PROVE Spec => [](part = "graphs" => ModeInv /\ SizesInv)
<1>1. Init => (part = "graphs" => SizesInv)
  BY InitSizes DEF Init
<1>2. ModeInv /\ SizesInv /\ [Graph!Next]_(Graph!vars) => SizesInv'
  <2>1. SUFFICES ASSUME ModeInv, SizesInv, [Graph!Next]_(Graph!vars) PROVE SizesInv'
    OBVIOUS
  <2>2. CASE UNCHANGED Graph!vars
    BY <2>1, <2>2 DEF Graph!vars, SizesInv, AsAsked, Adjusted, Fitted, Graph!Resolved, Graph!Decode,
                      Graph!Multiple, Graph!NoMultiple
  <2> QED BY <2>1, <2>2, MakeSizes, SplitSizes, ResolveSizes DEF Graph!Next
<1>3. /\ part = "graphs" => ModeInv
      /\ part = "graphs" => SizesInv
      /\ [Next]_engineVars
      => (part = "graphs" => SizesInv)'
  BY <1>2, StepOfGraph
<1> QED BY <1>1, <1>3, ModeInvHolds, PTL DEF Spec

(* Sizes nobody had to adjust are those asked for, for batches of one row. *)
LEMMA AskedFit ==
  ASSUME Graph!GraphAssumption, cf \in GraphConfigs, AsAsked, cf.qlen = 1, cf.sizes # {}
  PROVE  /\ \A s \in sizes : s % cf.qlen = 0
         /\ maxSize \in sizes /\ \A s \in sizes : s <= maxSize
         /\ maxSize <= Graph!Max(cf.sizes)
         /\ \A n \in 1..maxSize : \E s \in sizes :
              s >= n /\ \A t \in cf.sizes : t >= n => s < t + Graph!Multiple
<1> DEFINE M == Graph!Multiple
           b == Graph!Max(cf.sizes)
           asked == cf.sizes
<1>1. /\ M \in Nat \ {0} /\ asked \subseteq Nat \ {0} /\ b \in asked /\ \A s \in asked : s <= b
      /\ sizes = asked /\ maxSize = b
  BY LargestAsked, MultipleIs DEF AsAsked
<1> HIDE DEF M, b, asked
<1>2. \A s \in asked : s % 1 = 0
  BY <1>1
<1>3. ASSUME NEW n \in 1..b PROVE \E s \in asked : s >= n /\ \A t \in asked : t >= n => s < t + M
  <2>1. n \in Nat /\ b \in Nat /\ n <= b /\ asked \in SUBSET (Nat \ {0})
    BY <1>1
  <2>2. PICK s \in asked : s >= n /\ \A t \in asked : t >= n => s <= t
    BY <1>1, <2>1, LeastAbove
  <2> QED BY <1>1, <2>2
<1> QED BY <1>1, <1>2, <1>3 DEF M, b, asked

(* Every number of tokens up to the last endpoint lies between an endpoint *)
(* and the one before it, and between no other two.                        *)
LEMMA RangesAreApart ==
  ASSUME Graph!GraphAssumption, cf \in GraphConfigs PROVE Graph!RangesPartition
<1> DEFINE S == cf.sizes
           below(e) == {0} \union {f \in S : f < e}
           R == Graph!CompileRanges(S)
<1>1. S \subseteq Nat \ {0}
  BY LargestAsked
<1>2. ASSUME NEW e \in S
      PROVE  /\ Graph!Max(below(e)) \in Nat /\ Graph!Max(below(e)) < e
             /\ Graph!Max(below(e)) \in below(e) /\ \A f \in S : f < e => f <= Graph!Max(below(e))
  <2>1. e \in Nat \ {0} /\ below(e) \in SUBSET (0..e) /\ below(e) # {}
    BY <1>1
  <2>2. PICK b \in below(e) : \A y \in below(e) : y <= b
    <3> HIDE DEF below
    <3> QED BY <2>1, GreatestExists
  <2>3. Graph!Max(below(e)) = b
    <3>1. below(e) \in SUBSET Int
      BY <2>1
    <3> HIDE DEF below
    <3> QED BY <2>2, <3>1, MaxIs
  <2> QED BY <1>1, <2>1, <2>2, <2>3
<1> DEFINE from(e) == Graph!Max(below(e)) + 1
<1>3. R = {<<from(e), e>> : e \in S}
  BY DEF Graph!CompileRanges
<1>4. SUFFICES ASSUME NEW n \in 1..Graph!Max({0} \union S)
               PROVE  \E r \in R : \A q \in R : n \in q[1]..q[2] <=> q = r
  BY DEF Graph!RangesPartition
<1>5. S # {}
  BY LargestAsked
<1>6. PICK e \in S : n <= e /\ \A y \in S : y >= n => e <= y
  <2>1. Graph!Max(S) \in S /\ Graph!Max({0} \union S) = Graph!Max(S)
    BY <1>5, LargestAsked
  <2>2. n \in Nat /\ n <= Graph!Max(S) /\ S \in SUBSET (Nat \ {0})
    BY <1>1, <1>4, <2>1
  <2> HIDE DEF S
  <2> QED BY <2>1, <2>2, LeastAbove
<1>7. n \in Nat /\ n >= 1
  OBVIOUS
<1> HIDE DEF S
<1>8. n \in from(e)..e
  BY <1>1, <1>2, <1>6, <1>7
<1>9. ASSUME NEW f \in S, n \in from(f)..f PROVE f = e
  <2>1. f \in Nat /\ e \in Nat /\ n <= f /\ e <= f
    BY <1>1, <1>2, <1>6, <1>7, <1>9
  <2>2. ~(e < f)
    BY <1>1, <1>2, <1>6, <1>7, <1>9, <2>1
  <2> QED BY <2>1, <2>2
<1> HIDE DEF from, R
<1>10. <<from(e), e>> \in R
  BY <1>3
<1>11. ASSUME NEW q \in R PROVE n \in q[1]..q[2] <=> q = <<from(e), e>>
  <2>1. PICK f \in S : q = <<from(f), f>>
    BY <1>3
  <2>2. q[1] = from(f) /\ q[2] = f
    BY <2>1
  <2> QED BY <1>8, <1>9, <2>1, <2>2
<1> QED BY <1>10, <1>11

(* resolve_cudagraph_mode_and_sizes and adjust_cudagraph_sizes_for_spec:   *)
(* for every set of sizes, batch of drafts and number of ranks, graphs of  *)
(* decode batches hold whole requests, up to the size the engine reckons   *)
(* with, and no request's rows are lost between two sizes; the call after  *)
(* the KV cache is there changes nothing the first was profiled with.      *)
(* get_compile_ranges: every number of tokens is in one range.             *)
THEOREM SizesFitHolds ==
  ASSUME Graph!GraphAssumption PROVE Spec => []SizesFit
<1>1. ModeInv /\ SizesInv => Graph!SizesFit
  <2>1. SUFFICES ASSUME ModeInv, SizesInv, Graph!Resolved, ~cf.v2, Graph!Decode(graphs) = 2, cf.sizes # {}
                 PROVE  /\ \A s \in sizes : s % cf.qlen = 0
                        /\ maxSize \in sizes /\ \A s \in sizes : s <= maxSize
                        /\ maxSize <= Graph!Max(cf.sizes)
                        /\ \A n \in 1..maxSize : \E s \in sizes :
                             s >= n /\ \A t \in cf.sizes : t >= n => s < t + Graph!Multiple
    BY DEF Graph!SizesFit, Graph!Whole
  <2>2. cf \in GraphConfigs /\ cf.qlen \in Nat \ {0}
    BY <2>1, MultipleIs DEF ModeInv
  <2>3. CASE AsAsked /\ (Adjusted(graphs) => cf.sizes = {})
    <3>1. cf.qlen = 1
      BY <2>1, <2>2, <2>3 DEF Adjusted
    <3> QED BY <2>1, <2>2, <2>3, <3>1, AskedFit
  <2>4. CASE ~Graph!NoMultiple /\ Fitted(sizes, maxSize, Graph!Multiple, cf.sizes)
    <3>1. \A s \in sizes : s \in Nat /\ s % Graph!Multiple = 0
      BY <2>4 DEF Fitted
    <3>2. Graph!Multiple \in Nat \ {0} /\ Graph!Multiple % cf.qlen = 0
      BY <2>2, <2>4, MultipleIs
    <3>3. \A s \in sizes : s % cf.qlen = 0
      BY <2>2, <3>1, <3>2, MultiplesNest
    <3> QED BY <2>4, <3>3 DEF Fitted
  <2> QED BY <2>1, <2>3, <2>4 DEF SizesInv
<1>2. ModeInv /\ SizesInv => Graph!ResolvedOnce
  <2>1. SUFFICES ASSUME ModeInv, SizesInv, Len(resolved) = 2 PROVE resolved[1] = resolved[2]
    BY DEF Graph!ResolvedOnce
  <2>2. CASE phase = "ended"
    BY <2>1, <2>2 DEF SizesInv
  <2>3. CASE phase # "ended"
    <3>1. resolved = <<>> \/ \E x : resolved = <<x>>
      BY <2>1, <2>3 DEF ModeInv, SizesInv
    <3>2. Len(resolved) \in {0, 1}
      <4>1. CASE resolved = <<>>
        BY <4>1
      <4>2. ASSUME NEW x, resolved = <<x>> PROVE Len(resolved) = 1
        BY <4>2
      <4> QED BY <3>1, <4>1, <4>2
    <3> QED BY <2>1, <3>2
  <2> QED BY <2>2, <2>3
<1>3. ModeInv => Graph!RangesPartition
  BY RangesAreApart DEF ModeInv
<1>4. (part = "graphs" => ModeInv /\ SizesInv) => SizesFit
  BY <1>1, <1>2, <1>3 DEF SizesFit
<1> QED BY <1>4, SizesInvHolds, PTL

-----------------------------------------------------------------------------
(* Block sizes                                                             *)

LEMMA ProductDivisible ==
  ASSUME NEW n \in Nat, NEW k \in Nat, NEW d \in Nat \ {0}, n % d = 0
  PROVE  (n * k) % d = 0
<1>1. n \div d \in Nat /\ n = d * (n \div d) + 0
  BY QuotientBounds
<1> DEFINE q == n \div d
<1> HIDE DEF q
<1>2. q \in Nat /\ n = d * q + 0
  BY <1>1 DEF q
<1>3. d * q \in Nat /\ q * k \in Nat
  BY <1>2, SMT
<1>4. n = d * q
  BY <1>2, <1>3
<1>5. n * k = d * (q * k)
  BY <1>2, <1>4, SMT
<1> DEFINE c == q * k
<1>6. c \in Nat /\ n * k = d * c + 0
  <2>1. c \in Nat /\ n * k = d * c
    BY <1>3, <1>5
  <2>2. d * c \in Nat
    <3> HIDE DEF c
    <3> QED BY <2>1, SMT
  <2> HIDE DEF c
  <2> QED BY <2>1, <2>2
<1> HIDE DEF c
<1>7. (d * c + 0) % d = 0
  BY <1>6, QuotientUnique
<1> QED BY <1>6, <1>7

(* A multiple is no smaller.                                               *)
LEMMA MultipleIsLarger ==
  ASSUME NEW n \in Nat \ {0}, NEW d \in Nat \ {0}, n % d = 0
  PROVE  n >= d
<1>1. SUFFICES ASSUME n < d PROVE FALSE
  OBVIOUS
<1>2. n \in 0..d-1 /\ (d * 0 + n) % d = n
  BY <1>1, QuotientUnique
<1>3. d * 0 + n = n
  OBVIOUS
<1> QED BY <1>2, <1>3

LEMMA CeilDivIs ==
  ASSUME NEW a \in Nat, NEW b \in Nat \ {0}
  PROVE  /\ Blocks!CeilDiv(a, b) \in Nat /\ a <= b * Blocks!CeilDiv(a, b)
         /\ a > 0 => Blocks!CeilDiv(a, b) >= 1
         /\ a > 0 /\ a <= b => Blocks!CeilDiv(a, b) = 1
<1> DEFINE n == a + b - 1
           q == n \div b
<1>1. n \in Nat
  OBVIOUS
<1>2. q \in Nat /\ b * q <= n /\ n < b * q + b
  BY <1>1, QuotientBounds
<1>3. Blocks!CeilDiv(a, b) = q
  BY DEF Blocks!CeilDiv
<1> HIDE DEF q
<1>4. b * q \in Nat /\ a <= b * q
  <2>1. b * q \in Nat
    BY <1>2, SMT
  <2> QED BY <1>2, <2>1
<1>5. a > 0 => q >= 1
  <2>1. q = 0 => b * q = 0
    OBVIOUS
  <2> QED BY <1>2, <1>4, <2>1
<1>6. a > 0 /\ a <= b => q = 1
  <2>1. SUFFICES ASSUME a > 0, a <= b, q >= 2 PROVE FALSE
    BY <1>2, <1>5
  <2>2. b * 2 <= b * q
    BY <1>2, <2>1, ProductMonotone
  <2> QED BY <1>2, <1>4, <2>1, <2>2
<1> QED BY <1>2, <1>3, <1>4, <1>5, <1>6

LEMMA LcmIs ==
  ASSUME NEW a \in Nat \ {0}, NEW b \in Nat \ {0}
  PROVE  /\ Blocks!Lcm(a, b) \in Nat \ {0}
         /\ Blocks!Lcm(a, b) % a = 0 /\ Blocks!Lcm(a, b) % b = 0
         /\ b % a = 0 => Blocks!Lcm(a, b) = b
<1> DEFINE S == {m \in 1..a * b : m % a = 0 /\ m % b = 0}
           l == Blocks!Lcm(a, b)
<1>1. a * b \in Nat \ {0} /\ b * a = a * b /\ b <= a * b
  <2>1. a * b \in Nat /\ b * a = a * b /\ b * 1 <= b * a
    BY ProductMonotone, SMT
  <2> QED BY <2>1
<1>2. (a * b) % a = 0 /\ (a * b) % b = 0
  <2>1. a % a = 0 /\ b % b = 0
    <3>1. (a * 1 + 0) % a = 0 /\ (b * 1 + 0) % b = 0
      BY QuotientUnique
    <3> QED BY <3>1
  <2>2. (a * b) % a = 0 /\ (b * a) % b = 0
    BY <2>1, ProductDivisible
  <2> QED BY <1>1, <2>2
<1>3. S \in SUBSET Nat /\ a * b \in S
  BY <1>1, <1>2
<1>4. \E x \in S : \A y \in S : x <= y
  <2> HIDE DEF S
  <2> QED BY <1>3, LeastExists
<1>5. l = CHOOSE x \in S : \A y \in S : x <= y
  BY DEF Blocks!Lcm, Blocks!Min
<1> HIDE DEF l
<1>6. l \in S /\ \A y \in S : l <= y
  BY <1>4, <1>5
<1>7. ASSUME b % a = 0 PROVE l = b
  <2>1. b % b = 0
    <3>1. (b * 1 + 0) % b = 0
      BY QuotientUnique
    <3> QED BY <3>1
  <2>2. b \in S
    BY <1>1, <1>7, <2>1
  <2>3. l \in Nat \ {0} /\ l % b = 0 /\ l <= b
    <3>1. l <= b
      <4> HIDE DEF S
      <4> QED BY <1>6, <2>2
    <3>2. \A m \in S : m \in Nat \ {0} /\ m % b = 0
      BY <1>1
    <3> HIDE DEF S
    <3> QED BY <1>6, <3>1, <3>2
  <2>4. l >= b
    BY <2>3, MultipleIsLarger
  <2> QED BY <2>3, <2>4
<1> QED BY <1>6, <1>7 DEF l

(* A block size asked for or else the backend's own; what the alignment    *)
(* with the states makes of a block of b tokens, and what the alignment    *)
(* with the bf16 layers makes of it where states are padded to pad.        *)
Asked == IF cf.user # 0 THEN cf.user ELSE Default

Chunks == IF cf.chunk # 0 THEN cf.chunk ELSE Chunk

AlignmentOf(b) == Blocks!Larger(Blocks!Larger(Kernel, b), IF cf.format = "mla" THEN 128 ELSE 0)

HybridOf(b) ==
  IF cf.mode = "all"
  THEN LET chunk == Blocks!Lcm(Chunks, AlignmentOf(b))
       IN  chunk * Blocks!CeilDiv(Blocks!CeilDiv(Blocks!StatePage, Blocks!HybridPage), chunk)
  ELSE AlignmentOf(b) * Blocks!CeilDiv(Blocks!StatePage, AlignmentOf(b) * Blocks!HybridPage)

MixedOf(b, pad) ==
  Blocks!Larger(Kernel, b)
    * Blocks!CeilDiv(Blocks!Larger(Blocks!Skipped * Kernel, IF pad = Blocks!None THEN 0 ELSE pad),
                     Blocks!Larger(Kernel, b) * Blocks!MixedPrimary)

(* Pages have bytes.                                                       *)
LEMMA FullPageIs ==
  ASSUME NEW format, NEW kv \in Nat \ {0}, NEW dim \in Nat \ {0}, format = "nvfp4" => dim >= 2
  PROVE  Blocks!FullPage(format, kv, dim) \in Nat \ {0}
<1> DEFINE row == Blocks!Nvfp4Row(dim)
           plain == [format |-> format, kv |-> kv, dim |-> dim, slots |-> kv, bytes |-> Blocks!None]
           spec == Blocks!Customized(Blocks!Customized(plain))
<1>1. \A m, n \in Nat \ {0} : m * n \in Nat \ {0}
  BY SMT
<1>2. /\ kv * 5 \in Nat \ {0} /\ kv * 2 \in Nat \ {0}
      /\ kv * 2 * dim \in Nat \ {0} /\ kv * 2 * dim * 2 \in Nat \ {0}
  BY <1>1
<1>3. ASSUME format = "nvfp4" PROVE spec.slots * spec.bytes \in Nat \ {0}
  <2>1. row \in Nat \ {0}
    <3>1. dim \div 2 >= 1 /\ dim \div 2 \in Nat /\ dim \div 16 \in Nat
      BY <1>3
    <3> QED BY <3>1 DEF Blocks!Nvfp4Row
  <2> HIDE DEF row
  <2>2. Blocks!Customized(plain) = [plain EXCEPT !.slots = 2 * kv, !.bytes = row]
    BY <1>3 DEF Blocks!Customized, row
  <2> DEFINE done == [plain EXCEPT !.slots = 2 * kv, !.bytes = row]
  <2>3. done.format = "nvfp4" /\ done.bytes = row /\ done.slots = 2 * kv
    BY <1>3
  <2> HIDE DEF done, plain
  <2>4. done.bytes # Blocks!None
    BY <2>1, <2>3 DEF Blocks!None
  <2>5. spec = done
    BY <2>2, <2>4 DEF Blocks!Customized, done
  <2>6. 2 * kv \in Nat \ {0} /\ (2 * kv) * row \in Nat \ {0}
    BY <1>1, <2>1
  <2> QED BY <2>3, <2>5, <2>6
<1>4. Blocks!FullPage(format, kv, dim) =
        CASE format = "turboquant" -> kv * 5
          [] format = "bf16" -> kv * 2 * dim * 2
          [] format = "nvfp4" -> spec.slots * spec.bytes
          [] OTHER -> kv * 2 * dim
  BY DEF Blocks!FullPage
<1> HIDE DEF spec
<1> QED BY <1>2, <1>3, <1>4

LEMMA PagesHaveBytes ==
  ASSUME Blocks!BlockAssumption, cf \in BlockConfigs
  PROVE  /\ Kernel \in Nat \ {0} /\ Asked \in Nat \ {0} /\ Chunks \in Nat \ {0}
         /\ Blocks!Primary \in Nat \ {0} /\ Blocks!Skipped \in Nat \ {0}
         /\ Blocks!MixedPrimary \in Nat \ {0} /\ Blocks!MixedPrimary >= Blocks!Primary
         /\ Blocks!MixedPrimary = IF cf.format = "mla" THEN Blocks!Primary * 2 ELSE Blocks!Primary
         /\ Blocks!HybridPage \in Nat \ {0} /\ (~Blocks!CommonMultiple => Blocks!HybridPage = Blocks!Primary)
         /\ Blocks!StatePage \in Nat \ {0} /\ \A s \in cf.states : s \in Nat /\ s <= Blocks!StatePage
         /\ cf.user \in Nat /\ cf.user <= Asked
<1>1. Kernel \in Nat \ {0} /\ Asked \in Nat \ {0} /\ Chunks \in Nat \ {0} /\ cf.user \in Nat /\ cf.user <= Asked
  BY DEF Blocks!BlockAssumption, Asked, Chunks
<1>2. cf.kv \in Nat \ {0} /\ cf.dim \in Nat \ {0} /\ (cf.format = "nvfp4" => cf.dim >= 2)
  BY DEF Blocks!BlockAssumption
<1>3. /\ Blocks!Primary \in Nat \ {0} /\ Blocks!Skipped \in Nat \ {0}
      /\ Blocks!MixedPrimary \in Nat \ {0} /\ Blocks!MixedPrimary >= Blocks!Primary
      /\ Blocks!MixedPrimary = IF cf.format = "mla" THEN Blocks!Primary * 2 ELSE Blocks!Primary
  <2>1. Blocks!Skipped \in Nat \ {0} /\ Blocks!MixedPrimary \in Nat \ {0}
    BY <1>2, FullPageIs DEF Blocks!MixedPrimary, Blocks!Skipped
  <2>2. CASE cf.format # "mla"
    BY <2>1, <2>2 DEF Blocks!Primary, Blocks!TokenPage, Blocks!MixedPrimary
  <2>3. CASE cf.format = "mla"
    <3>1. Blocks!MixedPrimary = cf.kv * 2 * cf.dim
      BY <2>3 DEF Blocks!MixedPrimary, Blocks!FullPage
    <3>2. Blocks!Primary = cf.kv * cf.dim
      BY <2>3 DEF Blocks!Primary, Blocks!TokenPage
    <3>3. cf.kv * cf.dim \in Nat \ {0} /\ cf.kv * 2 * cf.dim = (cf.kv * cf.dim) * 2
      BY <1>2, SMT
    <3> QED BY <2>1, <2>3, <3>1, <3>2, <3>3
  <2> QED BY <2>1, <2>2, <2>3
<1>4. Blocks!HybridPage \in Nat \ {0} /\ (~Blocks!CommonMultiple => Blocks!HybridPage = Blocks!Primary)
  BY <1>3, LcmIs DEF Blocks!HybridPage
<1>5. Blocks!StatePage \in Nat \ {0} /\ \A s \in cf.states : s \in Nat /\ s <= Blocks!StatePage
  <2> DEFINE S == cf.states
  <2>1. S \subseteq Nat \ {0} /\ \E b \in S : \A s \in S : s <= b
    BY DEF Blocks!BlockAssumption
  <2>2. Blocks!StatePage = CHOOSE x \in S : \A y \in S : x >= y
    BY DEF Blocks!StatePage, Blocks!Max
  <2> HIDE DEF S
  <2>3. \E x \in S : \A y \in S : x >= y
    BY <2>1
  <2>4. Blocks!StatePage \in S /\ \A y \in S : Blocks!StatePage >= y
    BY <2>2, <2>3
  <2> QED BY <2>1, <2>4 DEF S
<1> QED BY <1>1, <1>3, <1>4, <1>5

(* What the alignment with the states chooses: a page of it holds a state, *)
(* and it is no smaller than it was.                                       *)
LEMMA HybridIs ==
  ASSUME Blocks!BlockAssumption, cf \in BlockConfigs, NEW b \in Nat \ {0}
  PROVE  /\ HybridOf(b) \in Nat \ {0} /\ HybridOf(b) >= b /\ HybridOf(b) >= Kernel
         /\ cf.format = "mla" => HybridOf(b) >= 128
         /\ HybridOf(b) * Blocks!HybridPage >= Blocks!StatePage
         /\ cf.mode = "all" => HybridOf(b) % Chunks = 0
         /\ b % Kernel = 0 /\ cf.format # "mla" => HybridOf(b) % Kernel = 0
<1> DEFINE A == AlignmentOf(b)
           H == Blocks!HybridPage
           SP == Blocks!StatePage
           h == HybridOf(b)
<1>1. Kernel \in Nat \ {0} /\ Chunks \in Nat \ {0} /\ H \in Nat \ {0} /\ SP \in Nat \ {0}
  BY PagesHaveBytes
<1>2. /\ A \in Nat \ {0} /\ A >= b /\ A >= Kernel /\ (cf.format = "mla" => A >= 128)
      /\ cf.format # "mla" => A = b \/ A = Kernel
  BY <1>1 DEF AlignmentOf, Blocks!Larger
<1>3. b % Kernel = 0 /\ cf.format # "mla" => A % Kernel = 0
  <2>1. (Kernel * 1 + 0) % Kernel = 0
    BY <1>1, QuotientUnique
  <2> QED BY <1>1, <1>2, <2>1
<1>4. CASE cf.mode # "all"
  <2> DEFINE p == A * H
             c == Blocks!CeilDiv(SP, p)
  <2>1. p \in Nat \ {0}
    BY <1>1, <1>2, SMT
  <2>2. c \in Nat /\ c >= 1 /\ SP <= p * c
    <3> HIDE DEF p, SP
    <3> QED BY <1>1, <2>1, CeilDivIs
  <2>3. h = A * c /\ p = A * H
    BY <1>4 DEF HybridOf
  <2> HIDE DEF c, p, A, H, SP, h
  <2>4. h \in Nat /\ A * 1 <= A * c /\ p * c = h * H
    BY <1>1, <1>2, <2>1, <2>2, <2>3, ProductMonotone, SMT
  <2>5. A % Kernel = 0 => h % Kernel = 0
    BY <1>1, <1>2, <2>2, <2>3, ProductDivisible
  <2>6. h >= A /\ SP <= h * H
    BY <1>2, <2>2, <2>3, <2>4
  <2> QED BY <1>1, <1>2, <1>3, <1>4, <2>4, <2>5, <2>6 DEF A, H, SP, h
<1>5. CASE cf.mode = "all"
  <2> DEFINE l == Blocks!Lcm(Chunks, A)
             n == Blocks!CeilDiv(SP, H)
             c == Blocks!CeilDiv(n, l)
  <2>1. l \in Nat \ {0} /\ l % Chunks = 0 /\ l % A = 0
    BY <1>1, <1>2, LcmIs
  <2>2. n \in Nat /\ n >= 1 /\ SP <= H * n
    BY <1>1, CeilDivIs
  <2>3. c \in Nat /\ n <= l * c /\ c >= 1
    <3> HIDE DEF l, n
    <3> QED BY <2>1, <2>2, CeilDivIs
  <2>4. h = l * c
    BY <1>5 DEF HybridOf
  <2>5. l >= A
    BY <1>2, <2>1, MultipleIsLarger
  <2> HIDE DEF A, H, SP, h, l, n, c
  <2>6. h \in Nat /\ l * 1 <= l * c /\ H * n <= H * h /\ H * h = h * H
    <3>1. h \in Nat /\ H * h = h * H
      BY <1>1, <2>1, <2>3, <2>4, SMT
    <3>2. n <= h
      BY <2>3, <2>4
    <3>3. l * 1 <= l * c /\ H * n <= H * h
      BY <1>1, <2>1, <2>2, <2>3, <3>1, <3>2, ProductMonotone
    <3> QED BY <3>1, <3>3
  <2>7. h >= A /\ SP <= h * H
    <3>1. H * n \in Nat /\ H * h \in Nat
      BY <1>1, <2>2, <2>6, SMT
    <3>2. h >= A
      BY <1>2, <2>1, <2>4, <2>5, <2>6
    <3> QED BY <1>1, <2>2, <2>6, <3>1, <3>2
  <2>8. h % Chunks = 0
    BY <1>1, <2>1, <2>3, <2>4, ProductDivisible
  <2>9. A % Kernel = 0 => h % Kernel = 0
    <3>1. SUFFICES ASSUME A % Kernel = 0 PROVE h % Kernel = 0
      OBVIOUS
    <3>2. l % Kernel = 0
      BY <1>1, <1>2, <2>1, <3>1, MultiplesNest
    <3> QED BY <1>1, <2>1, <2>3, <2>4, <3>2, ProductDivisible, ZenonT(60)
  <2> QED BY <1>1, <1>2, <1>3, <2>6, <2>7, <2>8, <2>9 DEF A, H, SP, h
<1> QED BY <1>4, <1>5

(* Chosen once, it is chosen again, and so is a larger multiple of it.     *)
LEMMA HybridStays ==
  ASSUME Blocks!BlockAssumption, cf \in BlockConfigs, NEW b \in Nat \ {0},
         b >= Kernel, cf.format = "mla" => b >= 128, b * Blocks!HybridPage >= Blocks!StatePage,
         cf.mode = "all" => b % Chunks = 0
  PROVE  HybridOf(b) = b
<1> DEFINE H == Blocks!HybridPage
           SP == Blocks!StatePage
<1>1. Kernel \in Nat \ {0} /\ Chunks \in Nat \ {0} /\ H \in Nat \ {0} /\ SP \in Nat \ {0}
  BY PagesHaveBytes
<1>2. AlignmentOf(b) = b
  BY <1>1 DEF AlignmentOf, Blocks!Larger
<1>3. CASE cf.mode # "all"
  <2>1. b * H \in Nat \ {0} /\ SP <= b * H
    <3>1. b * H \in Nat
      BY <1>1, SMT
    <3> QED BY <1>1, <3>1
  <2>2. Blocks!CeilDiv(SP, b * H) = 1
    BY <1>1, <2>1, CeilDivIs
  <2>3. HybridOf(b) = b * Blocks!CeilDiv(SP, b * H)
    BY <1>2, <1>3 DEF HybridOf
  <2> QED BY <2>2, <2>3
<1>4. CASE cf.mode = "all"
  <2> DEFINE n == Blocks!CeilDiv(SP, H)
  <2>1. Blocks!Lcm(Chunks, b) = b
    BY <1>1, <1>4, LcmIs
  <2>2. n \in Nat /\ n >= 1 /\ n <= b
    <3>1. n \in Nat /\ n >= 1
      BY <1>1, CeilDivIs
    <3>2. n = (SP + H - 1) \div H
      BY DEF Blocks!CeilDiv
    <3>3. SP + H - 1 \in Nat /\ H * n <= SP + H - 1
      BY <1>1, <3>2, QuotientBounds
    <3>4. SUFFICES ASSUME b + 1 <= n PROVE FALSE
      BY <3>1
    <3> HIDE DEF n
    <3>5. H * (b + 1) <= H * n
      BY <1>1, <3>1, <3>4, ProductMonotone
    <3>6. H * (b + 1) = b * H + H /\ b * H \in Nat /\ H * n \in Nat
      BY <1>1, <3>1, SMT
    <3> QED BY <1>1, <3>3, <3>5, <3>6
  <2>3. Blocks!CeilDiv(n, b) = 1
    <3> HIDE DEF n
    <3> QED BY <2>2, CeilDivIs
  <2>4. HybridOf(b) = b * Blocks!CeilDiv(n, b)
    BY <1>2, <1>4, <2>1 DEF HybridOf
  <2> QED BY <2>3, <2>4
<1> QED BY <1>3, <1>4

(* What the alignment with the bf16 layers chooses: a whole number of      *)
(* blocks, whose page holds a smallest bf16 block and a state.             *)
LEMMA MixedIs ==
  ASSUME Blocks!BlockAssumption, cf \in BlockConfigs, NEW b \in Nat \ {0}, NEW pad \in Nat \union {Blocks!None}
  PROVE  /\ MixedOf(b, pad) \in Nat \ {0} /\ MixedOf(b, pad) >= b /\ MixedOf(b, pad) >= Kernel
         /\ MixedOf(b, pad) * Blocks!MixedPrimary >= Blocks!Skipped * Kernel
         /\ b >= Kernel => MixedOf(b, pad) % b = 0
         /\ b % Kernel = 0 => MixedOf(b, pad) % Kernel = 0
         /\ b >= Kernel /\ b * Blocks!MixedPrimary >= Blocks!Skipped * Kernel
              /\ (pad # Blocks!None => b * Blocks!MixedPrimary >= pad)
              => MixedOf(b, pad) = b
<1> DEFINE A == Blocks!Larger(Kernel, b)
           P == Blocks!MixedPrimary
           K == Blocks!Skipped * Kernel
           R == Blocks!Larger(K, IF pad = Blocks!None THEN 0 ELSE pad)
           c == Blocks!CeilDiv(R, A * P)
           m == MixedOf(b, pad)
<1>1. Kernel \in Nat \ {0} /\ P \in Nat \ {0} /\ Blocks!Skipped \in Nat \ {0}
  BY PagesHaveBytes
<1>2. A \in Nat \ {0} /\ A >= b /\ A >= Kernel /\ (A = b \/ A = Kernel) /\ (b >= Kernel => A = b)
  BY <1>1 DEF Blocks!Larger
<1>3. K \in Nat \ {0} /\ R \in Nat \ {0} /\ R >= K /\ (R = K \/ (pad # Blocks!None /\ R = pad))
  <2>1. K \in Nat \ {0}
    BY <1>1, SMT
  <2> HIDE DEF K
  <2> QED BY <2>1 DEF Blocks!Larger
<1>4. m = A * c
  BY DEF MixedOf
<1>5. A * P \in Nat \ {0}
  BY <1>1, <1>2, SMT
<1> HIDE DEF A, P, K, R, m
<1>6. c \in Nat /\ c >= 1 /\ R <= (A * P) * c /\ (R <= A * P => c = 1)
  BY <1>3, <1>5, CeilDivIs
<1> HIDE DEF c
<1>7. m \in Nat /\ A * 1 <= A * c /\ (A * P) * c = m * P
  BY <1>1, <1>2, <1>4, <1>6, ProductMonotone, SMT
<1>8. m >= A /\ m * P >= K
  <2>1. m * P \in Nat
    BY <1>1, <1>7, SMT
  <2> QED BY <1>2, <1>3, <1>4, <1>6, <1>7, <2>1
<1>9. (b * 1 + 0) % b = 0 /\ (Kernel * 1 + 0) % Kernel = 0
  BY <1>1, QuotientUnique
<1>10. b >= Kernel => m % b = 0
  <2>1. b % b = 0
    BY <1>9
  <2> QED BY <1>2, <1>4, <1>6, <2>1, ProductDivisible
<1>11. b % Kernel = 0 => m % Kernel = 0
  <2>1. Kernel % Kernel = 0
    BY <1>1, <1>9
  <2>2. b % Kernel = 0 => A % Kernel = 0
    BY <1>2, <2>1
  <2> QED BY <1>1, <1>2, <1>4, <1>6, <2>2, ProductDivisible
<1>12. b >= Kernel /\ b * P >= K /\ (pad # Blocks!None => b * P >= pad) => m = b
  <2>1. SUFFICES ASSUME b >= Kernel, b * P >= K, pad # Blocks!None => b * P >= pad PROVE m = b
    OBVIOUS
  <2>2. A = b
    BY <1>2, <2>1
  <2>3. b * P \in Nat /\ R <= b * P
    BY <1>3, <1>5, <2>1, <2>2
  <2>4. c = 1
    BY <1>6, <2>2, <2>3
  <2> QED BY <1>4, <2>2, <2>4
<1>13. m \in Nat \ {0} /\ m >= b /\ m >= Kernel
  BY <1>1, <1>2, <1>7, <1>8
<1> QED BY <1>8, <1>10, <1>11, <1>12, <1>13 DEF m, P, K

LEMMA StepOfBlocks ==
  ASSUME [Next]_engineVars
  PROVE  UNCHANGED part /\ (part = "blocks" => [Blocks!Next]_(Blocks!vars))
<1>1. CASE UNCHANGED engineVars
  BY <1>1 DEF engineVars, blockVars, Blocks!vars
<1>2. CASE Next
  BY <1>2 DEF Next
<1> QED BY <1>1, <1>2

(* What holds of a block at every point of a call                          *)
WholeFrom == cf.user % Kernel = 0 /\ Default % Kernel = 0 /\ cf.format # "mla"

BlockInv ==
  /\ cf \in BlockConfigs
  /\ block \in Nat \ {0} /\ cf.user <= block
  /\ mambaPadded \in Nat \union {Blocks!None}
  /\ WholeFrom => block % Kernel = 0
  /\ phase \in {"mixed", "done"} /\ cf.hybrid =>
       block >= Kernel /\ (cf.mode = "all" => block % Chunks = 0)
  /\ phase = "done" /\ Blocks!Mixed =>
       skipPadded = block * Blocks!MixedPrimary /\ skipPadded >= Blocks!Skipped * Kernel

LEMMA LargerIs ==
  ASSUME NEW a \in Nat, NEW b \in Nat, b >= a
  PROVE  Blocks!Larger(a, b) = b
  BY DEF Blocks!Larger

LEMMA BlockInvInit == ASSUME Blocks!BlockAssumption, Blocks!Init PROVE BlockInv
<1>1. cf \in BlockConfigs /\ block = Asked /\ mambaPadded = Blocks!None /\ phase = "pick"
  BY DEF Blocks!Init, Asked
<1>2. Asked \in Nat \ {0} /\ cf.user <= Asked
  BY <1>1, PagesHaveBytes
<1>3. WholeFrom => Asked % Kernel = 0
  BY DEF WholeFrom, Asked
<1> QED BY <1>1, <1>2, <1>3 DEF BlockInv

LEMMA BlockInvStep ==
  ASSUME Blocks!BlockAssumption, BlockInv, [Blocks!Next]_(Blocks!vars)
  PROVE  BlockInv'
<1> DEFINE P == Blocks!MixedPrimary
           K == Blocks!Skipped * Kernel
           H == Blocks!HybridPage
<1>1. /\ cf' = cf
      /\ UNCHANGED <<Chunks, WholeFrom, Blocks!Mixed, P, Blocks!Skipped, H, Asked>>
  <2>1. cf' = cf
    BY DEF Blocks!Next, Blocks!PickBlock, Blocks!AlignHybrid, Blocks!AlignMixed, Blocks!Return, Blocks!vars
  <2> QED BY <2>1 DEF Chunks, WholeFrom, Asked, Blocks!Mixed, Blocks!MixedPrimary, Blocks!Skipped,
                      Blocks!HybridPage, Blocks!Primary, Blocks!CommonMultiple
<1>2. /\ Kernel \in Nat \ {0} /\ P \in Nat \ {0} /\ H \in Nat \ {0}
      /\ Asked \in Nat \ {0} /\ cf.user \in Nat /\ cf.user <= Asked /\ cf \in BlockConfigs
  BY PagesHaveBytes DEF BlockInv
<1>3. CASE UNCHANGED Blocks!vars
  BY <1>1, <1>3 DEF BlockInv, Blocks!vars
<1>4. CASE Blocks!PickBlock
  <2>1. /\ block' = (IF cf.user # 0 THEN block ELSE Default)
        /\ phase' = IF cf.hybrid THEN "hybrid" ELSE "mixed"
        /\ UNCHANGED mambaPadded
    BY <1>4 DEF Blocks!PickBlock
  <2>2. block' \in Nat \ {0} /\ cf.user <= block'
    BY <1>2, <2>1 DEF BlockInv, Asked
  <2>3. WholeFrom => block' % Kernel = 0
    BY <2>1 DEF BlockInv, WholeFrom
  <2> QED BY <1>1, <1>2, <2>1, <2>2, <2>3 DEF BlockInv
<1>5. CASE Blocks!AlignHybrid
  <2> DEFINE h == HybridOf(block)
  <2>1. Blocks!HybridBlock = h
    BY DEF Blocks!HybridBlock, HybridOf, Blocks!Alignment, AlignmentOf, Chunks
  <2>2. /\ block \in Nat \ {0} /\ h \in Nat \ {0} /\ h >= block /\ h >= Kernel
        /\ cf.mode = "all" => h % Chunks = 0
        /\ block % Kernel = 0 /\ cf.format # "mla" => h % Kernel = 0
    BY <1>2, HybridIs DEF BlockInv
  <2>3. block' = h
    <3>1. block' = Blocks!Larger(block, h)
      BY <1>5, <2>1 DEF Blocks!AlignHybrid
    <3> HIDE DEF h
    <3> QED BY <2>2, <3>1, LargerIs
  <2> HIDE DEF h
  <2>4. phase' # "done" /\ (mambaPadded' = mambaPadded \/ mambaPadded' = block' * H)
    BY <1>5 DEF Blocks!AlignHybrid
  <2>5. mambaPadded' \in Nat \union {Blocks!None}
    <3>1. block' * H \in Nat
      BY <1>2, <2>2, <2>3, SMT
    <3> QED BY <2>4, <3>1 DEF BlockInv
  <2>6. WholeFrom => block' % Kernel = 0
    BY <2>2, <2>3 DEF BlockInv, WholeFrom
  <2>7. cf.user <= block'
    BY <1>2, <2>2, <2>3 DEF BlockInv
  <2> QED BY <1>1, <1>2, <2>2, <2>3, <2>4, <2>5, <2>6, <2>7 DEF BlockInv
<1>6. CASE Blocks!AlignMixed
  <2>1. CASE ~cf.skip \/ Blocks!Skipped = Blocks!MixedPrimary
    <3>1. UNCHANGED <<block, mambaPadded, skipPadded>> /\ phase' = "done" /\ phase = "mixed"
      BY <1>6, <2>1 DEF Blocks!AlignMixed
    <3>2. ~Blocks!Mixed
      BY <2>1 DEF Blocks!Mixed
    <3> QED BY <1>1, <3>1, <3>2 DEF BlockInv
  <2>2. CASE cf.skip /\ Blocks!Skipped # Blocks!MixedPrimary /\ Blocks!Skipped < Blocks!MixedPrimary
    <3>1. UNCHANGED <<block, mambaPadded, skipPadded>> /\ phase' = "failed"
      BY <1>6, <2>2 DEF Blocks!AlignMixed
    <3> QED BY <1>1, <3>1 DEF BlockInv
  <2>3. CASE cf.skip /\ Blocks!Skipped # Blocks!MixedPrimary /\ ~(Blocks!Skipped < Blocks!MixedPrimary)
    <3> DEFINE m == MixedOf(block, mambaPadded)
    <3>1. Blocks!MixedBlock = m
      BY DEF Blocks!MixedBlock, MixedOf, Blocks!MixedAlignment, Blocks!Required
    <3>2. /\ block \in Nat \ {0} /\ m \in Nat \ {0} /\ m >= block /\ m >= Kernel /\ m * P >= K
          /\ block >= Kernel => m % block = 0
          /\ block % Kernel = 0 => m % Kernel = 0
      BY <1>2, MixedIs DEF BlockInv
    <3>3. block' = m /\ phase' = "done" /\ phase = "mixed"
      <4>1. block' = Blocks!Larger(block, m) /\ phase' = "done" /\ phase = "mixed"
        BY <1>6, <2>3, <3>1 DEF Blocks!AlignMixed
      <4> HIDE DEF m
      <4> QED BY <3>2, <4>1, LargerIs
    <3>4. skipPadded' = block' * P /\ (mambaPadded' = Blocks!None \/ mambaPadded' = block' * P)
      BY <1>6, <2>3 DEF Blocks!AlignMixed
    <3>5. m * P \in Nat /\ K \in Nat
      <4>1. Blocks!Skipped \in Nat
        BY <1>2, PagesHaveBytes
      <4> HIDE DEF m, P
      <4> QED BY <1>2, <3>2, <4>1, SMT
    <3>6. cf.hybrid /\ cf.mode = "all" => m % Chunks = 0
      <4>1. SUFFICES ASSUME cf.hybrid, cf.mode = "all" PROVE m % Chunks = 0
        OBVIOUS
      <4>2. block % Chunks = 0 /\ m % block = 0 /\ Chunks \in Nat \ {0}
        BY <1>2, <3>2, <3>3, <4>1, PagesHaveBytes DEF BlockInv
      <4> HIDE DEF m
      <4> QED BY <3>2, <4>2, MultiplesNest
    <3> HIDE DEF m, P, K
    <3>7. block' \in Nat \ {0} /\ cf.user <= block' /\ block' >= Kernel
      BY <1>2, <3>2, <3>3 DEF BlockInv
    <3>8. mambaPadded' \in Nat \union {Blocks!None}
      BY <3>3, <3>4, <3>5
    <3>9. WholeFrom => block' % Kernel = 0
      BY <3>2, <3>3 DEF BlockInv
    <3>10. skipPadded' = block' * P /\ skipPadded' >= K
      BY <3>2, <3>3, <3>4
    <3> QED BY <1>1, <1>2, <3>3, <3>6, <3>7, <3>8, <3>9, <3>10 DEF BlockInv, P, K
  <2> QED BY <2>1, <2>2, <2>3
<1>7. CASE Blocks!Return
  <2>1. UNCHANGED <<block, mambaPadded, skipPadded>> /\ phase' \in {"end", "pick"}
    BY <1>7 DEF Blocks!Return
  <2> QED BY <1>1, <2>1 DEF BlockInv
<1> QED BY <1>3, <1>4, <1>5, <1>6, <1>7 DEF Blocks!Next

(* Where one call ends: its block with a page for the states, the padding  *)
(* of the states with blocks of b tokens, its block and its pages at the   *)
(* end.  A call made again begins from the end of the one before where     *)
(* the user asked for a block size, and from the same otherwise.           *)
Begun == IF cf.hybrid THEN HybridOf(Asked) ELSE Asked

PadOf(b) == IF ~cf.hybrid \/ b * Blocks!Primary = Blocks!StatePage THEN Blocks!None ELSE b * Blocks!Primary

Ended == IF Blocks!Mixed THEN MixedOf(Begun, PadOf(Begun)) ELSE Begun

LastPage == IF Blocks!Mixed THEN Blocks!MixedPrimary ELSE Blocks!Primary

EndedPad == IF PadOf(Begun) = Blocks!None THEN Blocks!None ELSE Ended * LastPage

AgainPad == IF PadOf(Ended) = Blocks!None THEN Blocks!None ELSE Ended * LastPage

EndedSkip == IF Blocks!Mixed THEN Ended * LastPage ELSE Blocks!None

Fresh == cf.user = 0 \/ calls = <<>>

(* What has been settled on at every point of either call                  *)
SettleInv ==
  /\ calls \in {<<>>, <<<<Ended, EndedSkip>>>>, <<<<Ended, EndedSkip>>, <<Ended, EndedSkip>>>>}
  /\ phase \in {"pick", "hybrid", "mixed", "done"} => calls \in {<<>>, <<<<Ended, EndedSkip>>>>}
  /\ phase \in {"pick", "hybrid"} =>
       /\ block = IF calls = <<>> \/ (phase = "hybrid" /\ Fresh) THEN Asked ELSE Ended
       /\ mambaPadded = IF calls = <<>> THEN Blocks!None ELSE EndedPad
  /\ phase = "hybrid" => cf.hybrid
  /\ phase = "mixed" => /\ block = IF Fresh THEN Begun ELSE Ended
                        /\ mambaPadded = PadOf(block)
  /\ phase = "done" => /\ block = Ended
                       /\ mambaPadded = IF Fresh THEN EndedPad ELSE AgainPad
                       /\ skipPadded = EndedSkip
  /\ ~Blocks!Mixed => skipPadded = Blocks!None

(* What a call chooses is chosen by the call after it.                     *)
LEMMA EndedIs ==
  ASSUME Blocks!BlockAssumption, cf \in BlockConfigs, ~Blocks!CommonMultiple
  PROVE  /\ Begun \in Nat \ {0} /\ Ended \in Nat \ {0} /\ Ended >= Begun
         /\ \A b \in {Begun, Ended} : b * Blocks!Primary \in Nat /\ PadOf(b) \in Nat \union {Blocks!None}
         /\ cf.hybrid => /\ HybridOf(Asked) >= Asked /\ Asked \in Nat
                         /\ HybridOf(Ended) = Ended
                         /\ Ended * Blocks!Primary >= Blocks!StatePage
                         /\ Ended * Blocks!Primary = Blocks!StatePage => PadOf(Begun) = Blocks!None
         /\ Blocks!Mixed => /\ MixedOf(Begun, PadOf(Begun)) >= Begun
                            /\ MixedOf(Ended, PadOf(Ended)) = Ended
<1> DEFINE P == Blocks!Primary
           M == Blocks!MixedPrimary
           SP == Blocks!StatePage
           K == Blocks!Skipped * Kernel
<1>1. /\ Kernel \in Nat \ {0} /\ P \in Nat \ {0} /\ SP \in Nat \ {0} /\ Blocks!Skipped \in Nat \ {0}
      /\ M \in Nat \ {0} /\ P <= M
      /\ Blocks!HybridPage = P /\ Asked \in Nat \ {0} /\ Chunks \in Nat \ {0}
  BY PagesHaveBytes
<1> DEFINE g == HybridOf(Asked)
<1>2. /\ g \in Nat \ {0} /\ g >= Asked /\ g >= Kernel /\ (cf.format = "mla" => g >= 128)
      /\ g * P >= SP /\ (cf.mode = "all" => g % Chunks = 0)
  BY <1>1, HybridIs
<1> HIDE DEF g
<1>3. Begun \in Nat \ {0} /\ (cf.hybrid => Begun = g)
  BY <1>1, <1>2 DEF Begun, g
<1>4. ASSUME NEW b \in Nat \ {0} PROVE b * P \in Nat /\ PadOf(b) \in Nat \union {Blocks!None}
  <2>1. b * P \in Nat
    BY <1>1, SMT
  <2> QED BY <2>1 DEF PadOf
<1> DEFINE m == MixedOf(Begun, PadOf(Begun))
<1>5. m \in Nat \ {0} /\ m >= Begun /\ m >= Kernel /\ m * M >= K /\ (Begun >= Kernel => m % Begun = 0)
  BY <1>3, <1>4, MixedIs
<1>6. Ended = IF Blocks!Mixed THEN m ELSE Begun
  BY DEF Ended
<1> HIDE DEF m
<1>7. Ended \in Nat \ {0} /\ Ended >= Begun
  BY <1>3, <1>5, <1>6
<1>8. cf.hybrid => Begun * P <= Ended * P /\ Ended * P >= SP
  <2>1. P * Begun <= P * Ended /\ P * Begun = Begun * P /\ P * Ended = Ended * P
    <3>1. P * Begun <= P * Ended
      BY <1>1, <1>3, <1>7, ProductMonotone
    <3> HIDE DEF P
    <3> QED BY <1>1, <1>3, <1>7, <3>1, SMT
  <2>2. Begun * P \in Nat /\ Ended * P \in Nat
    BY <1>3, <1>4, <1>7
  <2> HIDE DEF P, SP
  <2> QED BY <1>1, <1>2, <1>3, <2>1, <2>2
<1>9. cf.hybrid => HybridOf(Ended) = Ended
  <2>1. SUFFICES ASSUME cf.hybrid PROVE HybridOf(Ended) = Ended
    OBVIOUS
  <2>2. Ended >= Kernel /\ (cf.format = "mla" => Ended >= 128)
    BY <1>1, <1>2, <1>3, <1>7, <2>1
  <2>3. cf.mode = "all" => Ended % Chunks = 0
    <3>1. SUFFICES ASSUME cf.mode = "all", Ended = m PROVE m % Chunks = 0
      BY <1>2, <1>3, <1>6, <2>1
    <3>2. Begun % Chunks = 0 /\ m % Begun = 0
      BY <1>1, <1>2, <1>3, <1>5, <2>1, <3>1
    <3> QED BY <1>1, <1>3, <1>5, <3>2, MultiplesNest
  <2> QED BY <1>1, <1>7, <1>8, <2>1, <2>2, <2>3, HybridStays
<1>10. cf.hybrid /\ Ended * P = SP => PadOf(Begun) = Blocks!None
  <2>1. SUFFICES ASSUME cf.hybrid, Ended * P = SP PROVE Begun * P = SP
    BY DEF PadOf
  <2>2. Begun * P \in Nat /\ Ended * P \in Nat /\ g * P >= SP /\ Begun = g
    BY <1>2, <1>3, <1>4, <1>7, <2>1
  <2> HIDE DEF P, SP
  <2> QED BY <1>1, <1>8, <2>1, <2>2
<1>11. Blocks!Mixed => MixedOf(Ended, PadOf(Ended)) = Ended
  <2>1. SUFFICES ASSUME Blocks!Mixed PROVE MixedOf(Ended, PadOf(Ended)) = Ended
    OBVIOUS
  <2>2. Ended = m
    BY <1>6, <2>1
  <2>3. /\ Ended * P \in Nat /\ PadOf(Ended) \in Nat \union {Blocks!None}
        /\ Ended * M \in Nat /\ Ended * M >= Ended * P
    <3>1. Ended * P <= Ended * M
      BY <1>1, <1>7, ProductMonotone
    <3>2. Ended * M \in Nat
      <4> HIDE DEF M
      <4> QED BY <1>1, <1>7, SMT
    <3>3. Ended * P \in Nat /\ PadOf(Ended) \in Nat \union {Blocks!None}
      BY <1>4, <1>7
    <3> HIDE DEF P, M
    <3> QED BY <3>1, <3>2, <3>3
  <2>4. PadOf(Ended) # Blocks!None => Ended * M >= PadOf(Ended)
    <3>1. PadOf(Ended) # Blocks!None => PadOf(Ended) = Ended * P
      BY DEF PadOf
    <3> HIDE DEF P, M
    <3> QED BY <2>3, <3>1
  <2> QED BY <1>5, <1>7, <2>2, <2>3, <2>4, MixedIs
<1> QED BY <1>1, <1>2, <1>3, <1>4, <1>5, <1>7, <1>8, <1>9, <1>10, <1>11 DEF m, g

LEMMA SettleInit ==
  ASSUME Blocks!Init PROVE SettleInv
<1>1. block = Asked /\ mambaPadded = Blocks!None /\ skipPadded = Blocks!None /\ phase = "pick" /\ calls = <<>>
  BY DEF Blocks!Init, Asked
<1> QED BY <1>1 DEF SettleInv

LEMMA SettleStep ==
  ASSUME Blocks!BlockAssumption, BlockInv, ~Blocks!CommonMultiple, SettleInv, [Blocks!Next]_(Blocks!vars)
  PROVE  SettleInv'
<1> DEFINE P == Blocks!Primary
           L == LastPage
           SP == Blocks!StatePage
           E == <<Ended, EndedSkip>>
           PadBegun == PadOf(Begun)
           PadEnded == PadOf(Ended)
           HybridAsked == HybridOf(Asked)
           HybridEnded == HybridOf(Ended)
           MixedBegun == MixedOf(Begun, PadBegun)
           MixedEnded == MixedOf(Ended, PadEnded)
<1>1. /\ cf' = cf
      /\ UNCHANGED <<Blocks!Mixed, Begun, PadBegun, Ended, PadEnded, EndedPad, AgainPad, EndedSkip, Asked, P, L, SP>>
  <2>1. cf' = cf
    BY DEF Blocks!Next, Blocks!PickBlock, Blocks!AlignHybrid, Blocks!AlignMixed, Blocks!Return, Blocks!vars
  <2>2. UNCHANGED <<P, Blocks!MixedPrimary, L, SP, Asked, Blocks!Mixed>>
    BY <2>1 DEF Asked, LastPage, Blocks!Mixed, Blocks!Primary, Blocks!MixedPrimary, Blocks!Skipped, Blocks!StatePage
  <2>3. UNCHANGED Begun
    BY <2>1, <2>2 DEF Begun, HybridOf, AlignmentOf, Chunks, Blocks!StatePage, Blocks!HybridPage,
                      Blocks!CommonMultiple, Blocks!Primary, Blocks!Skipped
  <2>4. UNCHANGED PadBegun
    BY <2>1, <2>2, <2>3 DEF PadOf
  <2>5. UNCHANGED Ended
    BY <2>1, <2>2, <2>3, <2>4 DEF Ended, MixedOf, Blocks!Skipped
  <2> QED BY <2>1, <2>2, <2>3, <2>4, <2>5 DEF PadOf, EndedPad, AgainPad, EndedSkip
<1>2. /\ cf \in BlockConfigs /\ P \in Nat \ {0} /\ Blocks!HybridPage = P
  BY PagesHaveBytes DEF BlockInv
<1>3. /\ Begun \in Nat \ {0} /\ Ended \in Nat \ {0} /\ Ended >= Begun
      /\ Begun * P \in Nat /\ Ended * P \in Nat
      /\ cf.hybrid => /\ HybridAsked >= Asked /\ HybridAsked = Begun /\ Asked \in Nat
                      /\ HybridEnded = Ended /\ Ended * P >= SP
                      /\ Ended * P = SP => PadBegun = Blocks!None
      /\ Blocks!Mixed => /\ MixedBegun >= Begun /\ MixedBegun = Ended /\ MixedEnded = Ended
  BY <1>2, EndedIs DEF Begun, Ended
<1>4. /\ PadBegun = IF ~cf.hybrid \/ Begun * P = SP THEN Blocks!None ELSE Begun * P
      /\ PadEnded = IF ~cf.hybrid \/ Ended * P = SP THEN Blocks!None ELSE Ended * P
      /\ EndedPad = IF PadBegun = Blocks!None THEN Blocks!None ELSE Ended * L
      /\ AgainPad = IF PadEnded = Blocks!None THEN Blocks!None ELSE Ended * L
      /\ Blocks!None \notin Nat
  BY DEF PadOf, EndedPad, AgainPad, Blocks!None
<1>5. /\ Blocks!Mixed => EndedSkip = Ended * L /\ L = Blocks!MixedPrimary
      /\ ~Blocks!Mixed => EndedSkip = Blocks!None /\ Ended = Begun /\ L = P
  BY DEF EndedSkip, Ended, LastPage
<1>6. \A x : <<x>> # <<>>
  OBVIOUS
<1> HIDE DEF PadBegun, PadEnded, HybridAsked, HybridEnded, MixedBegun, MixedEnded
<1>7. CASE UNCHANGED Blocks!vars
  BY <1>1, <1>7 DEF SettleInv, Blocks!vars, Fresh, PadBegun, PadEnded
<1>8. CASE Blocks!PickBlock
  <2>1. /\ phase = "pick" /\ phase' = IF cf.hybrid THEN "hybrid" ELSE "mixed"
        /\ block' = (IF cf.user # 0 THEN block ELSE Default)
        /\ UNCHANGED <<mambaPadded, skipPadded, calls>>
    BY <1>8 DEF Blocks!PickBlock
  <2>2. Fresh' = Fresh
    BY <1>1, <2>1 DEF Fresh
  <2>3. block' = IF Fresh THEN Asked ELSE Ended
    BY <2>1 DEF SettleInv, Fresh, Asked
  <2>4. CASE cf.hybrid
    BY <1>1, <2>1, <2>2, <2>3, <2>4 DEF SettleInv, Fresh
  <2>5. CASE ~cf.hybrid
    <3>1. Begun = Asked /\ PadOf(Begun) = Blocks!None /\ PadOf(Ended) = Blocks!None /\ EndedPad = Blocks!None
      BY <2>5 DEF Begun, PadOf, EndedPad
    <3>2. mambaPadded' = Blocks!None /\ phase' = "mixed"
      BY <2>1, <2>5, <3>1 DEF SettleInv
    <3>3. PadOf(block)' = Blocks!None
      BY <1>1, <2>5 DEF PadOf
    <3> QED BY <1>1, <2>1, <2>2, <2>3, <2>5, <3>1, <3>2, <3>3 DEF SettleInv
  <2> QED BY <2>4, <2>5
<1>9. CASE Blocks!AlignHybrid
  <2>1. /\ phase = "hybrid" /\ phase' \in {"failed", "mixed"} /\ UNCHANGED <<skipPadded, calls>>
        /\ block' = Blocks!Larger(block, HybridOf(block))
        /\ mambaPadded' = IF block' * P = SP THEN mambaPadded ELSE block' * P
    <3>1. Blocks!HybridBlock = HybridOf(block)
      BY DEF Blocks!HybridBlock, HybridOf, Blocks!Alignment, AlignmentOf, Chunks
    <3> QED BY <1>2, <1>9, <3>1 DEF Blocks!AlignHybrid
  <2>2. cf.hybrid /\ Fresh' = Fresh
    BY <1>1, <2>1 DEF SettleInv, Fresh
  <2>3. block' = IF Fresh THEN Begun ELSE Ended
    <3>1. CASE Fresh
      <4>1. block = Asked /\ HybridOf(block) = HybridAsked
        BY <2>1, <3>1 DEF SettleInv, HybridAsked
      <4> QED BY <1>3, <2>1, <2>2, <3>1, <4>1, LargerIs
    <3>2. CASE ~Fresh
      <4>1. block = Ended /\ HybridOf(block) = HybridEnded
        BY <2>1, <3>2 DEF SettleInv, HybridEnded, Fresh
      <4> QED BY <1>3, <2>1, <2>2, <3>2, <4>1, LargerIs
    <3> QED BY <3>1, <3>2
  <2>4. mambaPadded' = PadOf(block)'
    <3>1. PadOf(block)' = IF block' * P = SP THEN Blocks!None ELSE block' * P
      BY <1>1, <2>2 DEF PadOf
    <3>2. mambaPadded = IF calls = <<>> THEN Blocks!None ELSE EndedPad
      BY <2>1 DEF SettleInv
    <3>3. block' * P = SP => EndedPad = Blocks!None
      BY <1>3, <1>4, <2>2, <2>3
    <3> QED BY <2>1, <3>1, <3>2, <3>3
  <2> QED BY <1>1, <2>1, <2>2, <2>3, <2>4 DEF SettleInv
<1>10. CASE Blocks!AlignMixed
  <2>1. phase = "mixed" /\ calls' = calls /\ Fresh' = Fresh
    BY <1>1, <1>10 DEF Blocks!AlignMixed, Fresh
  <2>2. block = (IF Fresh THEN Begun ELSE Ended) /\ mambaPadded = IF Fresh THEN PadBegun ELSE PadEnded
    BY <2>1 DEF SettleInv, PadBegun, PadEnded
  <2>3. CASE ~cf.skip \/ Blocks!Skipped = Blocks!MixedPrimary
    <3>1. UNCHANGED <<block, mambaPadded, skipPadded>> /\ phase' = "done"
      BY <1>10, <2>3 DEF Blocks!AlignMixed
    <3>2. ~Blocks!Mixed /\ skipPadded = Blocks!None
      BY <2>3 DEF Blocks!Mixed, SettleInv
    <3>3. EndedPad = PadBegun /\ AgainPad = PadEnded /\ block = Ended
      BY <1>4, <1>5, <2>2, <3>2
    <3>4. mambaPadded' = IF Fresh THEN EndedPad ELSE AgainPad
      BY <2>2, <3>1, <3>3
    <3> QED BY <1>1, <1>5, <2>1, <3>1, <3>2, <3>3, <3>4 DEF SettleInv, PadEnded
  <2>4. CASE cf.skip /\ Blocks!Skipped # Blocks!MixedPrimary /\ Blocks!Skipped < Blocks!MixedPrimary
    <3>1. UNCHANGED <<block, mambaPadded, skipPadded>> /\ phase' = "failed"
      BY <1>10, <2>4 DEF Blocks!AlignMixed
    <3> QED BY <1>1, <2>1, <3>1 DEF SettleInv
  <2>5. CASE cf.skip /\ Blocks!Skipped # Blocks!MixedPrimary /\ ~(Blocks!Skipped < Blocks!MixedPrimary)
    <3>1. Blocks!Mixed
      BY <2>5 DEF Blocks!Mixed
    <3>2. /\ phase' = "done" /\ block' = Blocks!Larger(block, MixedOf(block, mambaPadded))
          /\ skipPadded' = block' * L
          /\ mambaPadded' = IF mambaPadded = Blocks!None THEN Blocks!None ELSE block' * L
      <4>1. Blocks!MixedBlock = MixedOf(block, mambaPadded)
        BY DEF Blocks!MixedBlock, MixedOf, Blocks!MixedAlignment, Blocks!Required
      <4> QED BY <1>5, <1>10, <2>5, <3>1, <4>1 DEF Blocks!AlignMixed
    <3>3. block' = Ended
      <4>1. MixedOf(block, mambaPadded) = Ended
        BY <1>3, <2>2, <3>1 DEF MixedBegun, MixedEnded
      <4>2. block \in Nat /\ Ended >= block
        BY <1>3, <2>2
      <4> QED BY <1>3, <3>2, <4>1, <4>2, LargerIs
    <3>4. mambaPadded' = IF Fresh THEN EndedPad ELSE AgainPad
      BY <1>3, <1>4, <2>2, <3>2, <3>3
    <3>5. skipPadded' = EndedSkip
      BY <1>5, <3>1, <3>2, <3>3
    <3> QED BY <1>1, <2>1, <3>1, <3>2, <3>3, <3>4, <3>5 DEF SettleInv, PadEnded
  <2> QED BY <2>3, <2>4, <2>5
<1>11. CASE Blocks!Return
  <2>1. /\ phase = "done" /\ calls' = Append(calls, E) /\ UNCHANGED <<block, mambaPadded, skipPadded>>
        /\ phase' = IF Len(calls) = 1 THEN "end" ELSE "pick"
    BY <1>11 DEF Blocks!Return, SettleInv
  <2>2. CASE calls = <<>>
    <3> HIDE DEF E
    <3>1. phase' = "pick" /\ calls' = <<E>>
      BY <2>1, <2>2
    <3>2. block = Ended /\ mambaPadded = EndedPad
      BY <2>1, <2>2 DEF SettleInv, Fresh
    <3> QED BY <1>1, <1>6, <2>1, <3>1, <3>2 DEF SettleInv, E
  <2>3. CASE calls = <<E>>
    <3> HIDE DEF E
    <3>1. phase' = "end" /\ calls' = <<E, E>>
      <4>1. <<E>> \in Seq({E}) /\ Len(<<E>>) = 1
        OBVIOUS
      <4>2. Append(<<E>>, E) = <<E, E>>
        <5> DEFINE s == Append(<<E>>, E)
                   t == <<E, E>>
        <5>1. s \in Seq({E}) /\ t \in Seq({E}) /\ Len(s) = 2 /\ Len(t) = 2
          BY <4>1
        <5>2. s[1] = E /\ s[2] = E /\ t[1] = E /\ t[2] = E
          BY <4>1
        <5> DEFINE S == {E}
        <5> HIDE DEF s, t, S
        <5>3. s \in Seq(S) /\ t \in Seq(S) /\ Len(s) = Len(t) /\ \A i \in 1..Len(s) : s[i] = t[i]
          BY <5>1, <5>2 DEF S
        <5>4. s = t
          BY <5>3, SeqEqual
        <5> QED BY <5>4 DEF s, t
      <4> QED BY <2>1, <2>3, <4>1, <4>2
    <3> QED BY <1>1, <2>1, <3>1 DEF SettleInv, E
  <2> QED BY <2>1, <2>2, <2>3 DEF SettleInv
<1> QED BY <1>7, <1>8, <1>9, <1>10, <1>11 DEF Blocks!Next

LEMMA BlockInvHolds ==
  ASSUME Blocks!BlockAssumption
  PROVE  Spec => [](part = "blocks" => BlockInv /\ (~Blocks!CommonMultiple => SettleInv))
<1> DEFINE Inv == part = "blocks" => BlockInv /\ (~Blocks!CommonMultiple => SettleInv)
<1>1. Init => Inv
  BY BlockInvInit, SettleInit DEF Init
<1>2. Inv /\ [Next]_engineVars => Inv'
  <2>1. SUFFICES ASSUME Inv, [Next]_engineVars, part = "blocks", part' = part
                 PROVE  BlockInv' /\ (~Blocks!CommonMultiple' => SettleInv')
    BY StepOfBlocks
  <2>2. [Blocks!Next]_(Blocks!vars)
    BY <2>1, StepOfBlocks
  <2>3. BlockInv'
    BY <2>1, <2>2, BlockInvStep
  <2>4. cf' = cf
    BY <2>2 DEF Blocks!Next, Blocks!PickBlock, Blocks!AlignHybrid, Blocks!AlignMixed, Blocks!Return, Blocks!vars
  <2>5. Blocks!CommonMultiple' = Blocks!CommonMultiple
    BY <2>4 DEF Blocks!CommonMultiple
  <2> QED BY <2>1, <2>2, <2>3, <2>5, SettleStep
<1> QED BY <1>1, <1>2, PTL DEF Spec

(* update_block_size_for_backend: for every size of a head and of a state, *)
(* every kernel and every block size asked for, the states and the bf16    *)
(* layers end with pages of the size of the attention layers' (twice it    *)
(* beside MLA layers), each large enough for what it holds, in blocks the  *)
(* kernel takes that are whole chunks of states; and the call that follows *)
(* settles on the same block.  The two cases that PagesAgree leaves out    *)
(* are not claimed here either.                                            *)
THEOREM PagesAgreeHolds ==
  ASSUME Blocks!BlockAssumption PROVE Spec => []PagesAgree
<1> DEFINE P == Blocks!Primary
           SP == Blocks!StatePage
           L == LastPage
           W == Blocks!Shared
<1>1. BlockInv /\ (~Blocks!CommonMultiple => SettleInv) => Blocks!PagesAgree
  <2>1. SUFFICES ASSUME BlockInv, ~Blocks!CommonMultiple => SettleInv, phase = "done"
                 PROVE  /\ cf.hybrid /\ (Blocks!Mixed => mambaPadded # Blocks!None) /\ ~Blocks!CommonMultiple =>
                             /\ Blocks!StatePageInPool = W
                             /\ \A s \in cf.states : Blocks!StatePageInPool >= s
                        /\ Blocks!Mixed => skipPadded = W /\ skipPadded >= Blocks!Skipped * Kernel
    BY DEF Blocks!PagesAgree
  <2>2. cf \in BlockConfigs /\ block \in Nat /\ P \in Nat /\ L \in Nat /\ L >= P
    BY <2>1, PagesHaveBytes DEF BlockInv, LastPage
  <2>4. W = block * L /\ (Blocks!Mixed => L = Blocks!MixedPrimary)
    <3>1. L = P * (IF Blocks!Mixed /\ cf.format = "mla" THEN 2 ELSE 1)
      BY <2>2, PagesHaveBytes DEF LastPage
    <3>2. W = block * P * (IF Blocks!Mixed /\ cf.format = "mla" THEN 2 ELSE 1)
      BY DEF Blocks!Shared
    <3>3. block * P * 2 = block * (P * 2) /\ block * P * 1 = block * (P * 1)
      <4> HIDE DEF P
      <4> QED BY <2>2, SMT
    <3>4. Blocks!Mixed => L = Blocks!MixedPrimary
      BY DEF LastPage
    <3> HIDE DEF P, L, W
    <3> QED BY <3>1, <3>2, <3>3, <3>4
  <2>3. ASSUME cf.hybrid, Blocks!Mixed => mambaPadded # Blocks!None, ~Blocks!CommonMultiple
        PROVE  /\ Blocks!StatePageInPool = W
               /\ \A s \in cf.states : Blocks!StatePageInPool >= s
    <3>1. block = Ended /\ mambaPadded = IF Fresh THEN EndedPad ELSE AgainPad
      BY <2>1, <2>3 DEF SettleInv
    <3>2. /\ Ended \in Nat /\ Ended * P \in Nat /\ Ended * P >= SP /\ SP \in Nat
          /\ \A s \in cf.states : s \in Nat /\ s <= SP
      BY <2>2, <2>3, EndedIs, PagesHaveBytes
    <3>3. mambaPadded # Blocks!None => mambaPadded = Ended * L
      BY <3>1 DEF EndedPad, AgainPad
    <3>4. mambaPadded = Blocks!None => SP = Ended * L
      <4>1. SUFFICES ASSUME mambaPadded = Blocks!None PROVE SP = Ended * L
        OBVIOUS
      <4>2. Ended = Begun /\ L = P
        BY <2>3, <4>1 DEF Ended, LastPage
      <4>3. Ended * P # Blocks!None
        BY <3>2 DEF Blocks!None
      <4>4. PadOf(Ended) = Blocks!None
        BY <3>1, <4>1, <4>2, <4>3 DEF EndedPad, AgainPad
      <4> QED BY <2>3, <4>2, <4>3, <4>4 DEF PadOf
    <3>5. Blocks!StatePageInPool = Ended * L
      BY <3>3, <3>4 DEF Blocks!StatePageInPool
    <3>6. Ended * P <= Ended * L /\ Ended * L \in Nat
      <4>1. Ended * P <= Ended * L
        BY <2>2, <3>2, ProductMonotone
      <4> HIDE DEF P, L
      <4> QED BY <2>2, <3>2, <4>1, SMT
    <3> HIDE DEF P, SP, L, W
    <3> QED BY <2>4, <3>1, <3>2, <3>5, <3>6
  <2> QED BY <2>1, <2>3, <2>4 DEF BlockInv
<1>2. ASSUME Blocks!BlockAssumption, BlockInv PROVE Blocks!BlocksAreWhole
  <2>1. Kernel \in Nat \ {0} /\ Default \in Nat \ {0} /\ cf.user \in Nat
    BY <1>2, PagesHaveBytes DEF BlockInv, Blocks!BlockAssumption
  <2> QED BY <1>2, <2>1 DEF BlockInv, Blocks!BlocksAreWhole, WholeFrom, Chunks
<1>3. BlockInv /\ (~Blocks!CommonMultiple => SettleInv) => Blocks!CalledAgainSame
  <2>1. SUFFICES ASSUME SettleInv, Len(calls) = 2 PROVE calls[1] = calls[2]
    BY DEF Blocks!CalledAgainSame
  <2> DEFINE E == <<Ended, EndedSkip>>
  <2>2. calls \in {<<>>, <<E>>, <<E, E>>}
    BY <2>1 DEF SettleInv
  <2> HIDE DEF E
  <2> QED BY <2>1, <2>2, SMTT(60)
<1>4. (part = "blocks" => BlockInv /\ (~Blocks!CommonMultiple => SettleInv)) => PagesAgree
  BY <1>1, <1>2, <1>3 DEF PagesAgree
<1> QED BY <1>4, BlockInvHolds, PTL

-----------------------------------------------------------------------------
(* The weights: the config as it was read                                  *)

(* What is listed so far, each name once.                                  *)
RawInv ==
  /\ topic = "formats" =>
       DOMAIN raw = DOMAIN MixedRaw /\ raw.format = "flat"
  /\ topic = "layers" =>
       /\ raw = [MixedRaw EXCEPT !.layers = raw.layers]
       /\ raw.layers \in Seq([key : LayerKeys, algo : ListedAlgos, gs : {16, 128}])
       /\ \A i, j \in DOMAIN raw.layers : raw.layers[i].key = raw.layers[j].key => i = j

LEMMA RawInvHolds == ASSUME WeightsAssumption PROVE SpecWeights => []RawInv
<1>1. InitWeights => RawInv
  <2> SUFFICES ASSUME InitWeights PROVE RawInv
    OBVIOUS
  <2>1. CASE topic = "formats" /\ raw \in Raws
    BY <2>1 DEF RawInv, WeightsAssumption, RawsAssumption
  <2>2. CASE topic # "formats" /\ raw = MixedRaw
    <3>1. raw = [MixedRaw EXCEPT !.layers = raw.layers] /\ raw.layers = <<>>
      BY <2>2 DEF MixedRaw
    <3>2. <<>> \in Seq([key : LayerKeys, algo : ListedAlgos, gs : {16, 128}])
      OBVIOUS
    <3> QED BY <2>2, <3>1, <3>2 DEF RawInv
  <2> QED BY <2>1, <2>2 DEF InitWeights
<1>2. RawInv /\ [NextWeights]_<<topic, raw, linearVars>> => RawInv'
  <2> SUFFICES ASSUME RawInv, [NextWeights]_<<topic, raw, linearVars>> PROVE RawInv'
    OBVIOUS
  <2>1. CASE UNCHANGED <<topic, raw>>
    BY <2>1 DEF RawInv
  <2>2. CASE List
    <3> DEFINE Entries == [key : LayerKeys, algo : ListedAlgos, gs : {16, 128}]
    <3>1. PICK key \in Listed \ {raw.layers[i].key : i \in DOMAIN raw.layers}, a \in ListedAlgos :
            raw' = [raw EXCEPT !.layers = Append(@, Entry(key, a))]
      BY <2>2 DEF List
    <3>2. topic' = topic
      BY <2>2 DEF List
    <3>3. CASE topic = "formats"
      <4>1. DOMAIN raw = DOMAIN MixedRaw
        BY <3>3 DEF RawInv
      <4>2. "format" \in DOMAIN MixedRaw
        BY DEF MixedRaw
      <4>3. DOMAIN raw' = DOMAIN raw /\ raw'.format = raw.format
        BY <3>1, <4>1, <4>2
      <4> QED BY <3>2, <3>3, <4>1, <4>3 DEF RawInv
    <3>4. CASE topic = "layers"
      <4>1. /\ raw = [MixedRaw EXCEPT !.layers = raw.layers] /\ raw.layers \in Seq(Entries)
            /\ \A i, j \in DOMAIN raw.layers : raw.layers[i].key = raw.layers[j].key => i = j
        BY <3>4 DEF RawInv
      <4>2. key \in LayerKeys /\ Entry(key, a) \in Entries /\ Entry(key, a).key = key
        BY <3>1, <3>4 DEF Listed, Entry
      <4>3. raw' = [MixedRaw EXCEPT !.layers = Append(raw.layers, Entry(key, a))]
        BY <3>1, <4>1 DEF MixedRaw
      <4>4. raw'.layers = Append(raw.layers, Entry(key, a))
        BY <4>3 DEF MixedRaw
      <4>5. raw'.layers \in Seq(Entries)
        BY <4>1, <4>2, <4>4
      <4>6. \A i, j \in DOMAIN raw'.layers : raw'.layers[i].key = raw'.layers[j].key => i = j
        <5> DEFINE n == Len(raw.layers)
                   L == Append(raw.layers, Entry(key, a))
        <5>1. n \in Nat /\ DOMAIN raw.layers = 1..n /\ DOMAIN L = 1..(n + 1)
          BY <4>1, <4>2
        <5>2. \A i \in 1..n : L[i] = raw.layers[i] /\ raw.layers[i].key # key
          BY <3>1, <4>1, <4>2, <5>1
        <5>3. L[n + 1].key = key
          BY <4>1, <4>2
        <5> HIDE DEF n, L
        <5>4. \A i, j \in 1..(n + 1) : L[i].key = L[j].key => i = j
          BY <4>1, <5>1, <5>2, <5>3
        <5> QED BY <4>4, <5>1, <5>4 DEF L
      <4> QED BY <3>2, <3>4, <4>3, <4>4, <4>5, <4>6 DEF RawInv
    <3>5. CASE topic \notin {"formats", "layers"}
      BY <3>2, <3>5 DEF RawInv
    <3> QED BY <3>3, <3>4, <3>5
  <2> QED BY <2>1, <2>2 DEF NextWeights, RunLinear
<1> QED BY <1>1, <1>2, PTL DEF SpecWeights

(* What is left of a config once the names are mapped                      *)
MappedOf(config, r) == ApplyVllmMapper(Specialised(config, r, Read(r)))

LEMMA MappedIs ==
  ASSUME NEW config, NEW r, NEW old
  PROVE  /\ MappedOf(config, r).config = config
         /\ MappedOf(config, r).algo = Specialised(config, r, Read(r)).algo
         /\ MappedOf(config, r).kv = Read(r).kv
         /\ Read(r).exclude = Read(old).exclude /\ Read(r).gs = Read(old).gs /\ r.layers = old.layers =>
              /\ MappedOf(config, r).exclude = MappedOf(config, old).exclude
              /\ MappedOf(config, r).layers = MappedOf(config, old).layers
              /\ MappedOf(config, r).gs = MappedOf(config, old).gs
<1> DEFINE Fields == {"config", "algo", "kv", "exclude", "gs", "layers"}
           Before(q) == Specialised(config, q, Read(q))
           After(q) == ApplyVllmMapper(Before(q))
<1>1. ASSUME NEW q
      PROVE  /\ DOMAIN Before(q) = Fields
             /\ Before(q).config = config /\ Before(q).kv = Read(q).kv /\ Before(q).exclude = Read(q).exclude
             /\ Before(q).gs = IF config = "modelopt_fp4" THEN (IF Read(q).gs = 0 THEN 16 ELSE Read(q).gs)
                               ELSE IF config = "modelopt_mixed" THEN SharedGroupSize(Read(q).gs, q.layers)
                               ELSE 0
             /\ Before(q).layers = IF config = "modelopt_mixed" THEN q.layers ELSE <<>>
  <2> HIDE DEF Read, SharedGroupSize
  <2> QED BY DEF Specialised
<1> DEFINE Ex(patterns) == [i \in DOMAIN SplitAll(patterns) |->
                              [SplitAll(patterns)[i] EXCEPT !.path = Mapped(SplitAll(patterns)[i].path,
                                                               SplitAll(patterns)[i].star = "dotted")]]
           La(layers) == [i \in DOMAIN layers |-> [layers[i] EXCEPT !.key = Mapped(layers[i].key, FALSE)]]
<1>2. ASSUME NEW q
      PROVE  /\ After(q).config = Before(q).config /\ After(q).algo = Before(q).algo
             /\ After(q).kv = Before(q).kv /\ After(q).gs = Before(q).gs
             /\ After(q).exclude = Ex(Before(q).exclude) /\ After(q).layers = La(Before(q).layers)
  <2> DEFINE c == Before(q)
             ex == Ex(c.exclude)
             la == La(c.layers)
  <2>1. After(q) = [c EXCEPT !.exclude = ex, !.layers = la]
    BY Zenon DEF ApplyVllmMapper
  <2>2. DOMAIN c = Fields
    BY <1>1
  <2> HIDE DEF c, ex, la, After
  <2>3. /\ After(q).config = c.config /\ After(q).algo = c.algo /\ After(q).kv = c.kv /\ After(q).gs = c.gs
        /\ After(q).exclude = ex /\ After(q).layers = la
    BY <2>1, <2>2
  <2> QED BY <2>3 DEF c, ex, la
<1> HIDE DEF Before, After, Ex, La
<1>3. ASSUME Read(r).exclude = Read(old).exclude, Read(r).gs = Read(old).gs, r.layers = old.layers
      PROVE  /\ Before(r).exclude = Before(old).exclude /\ Before(r).layers = Before(old).layers
             /\ Before(r).gs = Before(old).gs
  BY <1>1, <1>3, Zenon
<1>4. ASSUME Read(r).exclude = Read(old).exclude, Read(r).gs = Read(old).gs, r.layers = old.layers
      PROVE  After(r).exclude = After(old).exclude /\ After(r).layers = After(old).layers /\ After(r).gs = After(old).gs
  BY <1>2, <1>3, <1>4, Zenon
<1>5. After(r).config = config /\ After(r).algo = Before(r).algo /\ After(r).kv = Read(r).kv
  BY <1>1, <1>2, Zenon
<1> QED BY <1>4, <1>5, Zenon DEF MappedOf, Before, After

(* from_config, get_quant_method: either format gives every layer the same *)
(* method, except that the flat format alone tells NVFP4 of the weights    *)
(* only and the legacy one alone a cache of mixed precision that is not    *)
(* FP8; for any checkpoint, whatever is missing from it.                   *)
THEOREM FormatsAgreeHolds == ASSUME WeightsAssumption PROVE SpecWeights => []FormatsAgree
<1>1. RawInv => FormatsAgree
  <2> DEFINE old == [raw EXCEPT !.format = "legacy", !.legacy_ex = raw.flat_ex, !.flat_ex = <<>>]
  <2> SUFFICES ASSUME RawInv, topic = "formats", NEW config \in ClaimedBy(raw.algo)
               PROVE  /\ IsError(LoadedConfig(config, old)) <=>
                           \/ IsError(LoadedConfig(config, raw))
                           \/ raw.kv = "other" \/ raw.missing \cap RequiredFields(config) # {}
                      /\ ~IsError(LoadedConfig(config, old)) => \A name \in Names : \A kind \in Kinds(name) :
                           SameMethod(raw, config, kind, GetQuantMethod(LoadedConfig(config, raw), kind, name),
                                                         GetQuantMethod(LoadedConfig(config, old), kind, name))
    BY Zenon DEF FormatsAgree
  <2>1. DOMAIN raw = DOMAIN MixedRaw /\ raw.format = "flat"
    BY DEF RawInv
  <2>2. {"format", "algo", "kv", "gs", "legacy_ex", "flat_ex", "missing", "weight_only", "layers"} = DOMAIN raw
    BY <2>1 DEF MixedRaw
  <2>3. /\ old.format = "legacy" /\ old.legacy_ex = raw.flat_ex /\ old.algo = raw.algo /\ old.kv = raw.kv
        /\ old.gs = raw.gs /\ old.missing = raw.missing /\ old.layers = raw.layers
    BY <2>2
  <2> HIDE DEF old
  <2> DEFINE f == Read(raw)
             l == Read(old)
             kv == IF raw.kv = "FP8" THEN "FP8" ELSE "none"
  <2>4. /\ f.algo = raw.algo /\ l.algo = raw.algo /\ f.gs = raw.gs /\ l.gs = raw.gs
        /\ f.exclude = l.exclude /\ f.kv = kv /\ l.kv = raw.kv
    BY <2>1, <2>3 DEF Read
  <2>5. config \in {"modelopt", "modelopt_fp4", "modelopt_mxfp8", "modelopt_mixed"} /\ config # "error"
    BY DEF ClaimedBy
  <2> DEFINE sf == Specialised(config, raw, f)
             sl == Specialised(config, old, l)
             flat == MappedOf(config, raw)
             legacy == MappedOf(config, old)
             alone == raw.algo = "NVFP4" /\ raw.weight_only
             bad == \/ raw.algo \notin QuantAlgos \/ raw.gs = -1
                    \/ config # "modelopt_mixed" /\ raw.algo \notin AlgosOwnedBy(config)
                    \/ config = "modelopt_mixed" /\ raw.layers = <<>>
             refused == raw.kv = "other" \/ raw.missing \cap RequiredFields(config) # {}
  <2>6. /\ sf.algo = IF alone THEN "W4A16_NVFP4" ELSE raw.algo
        /\ sl.algo = raw.algo
    <3> HIDE DEF f, l
    <3> QED BY <2>1, <2>3, <2>4 DEF Specialised
  <2>7. /\ flat.config = config /\ legacy.config = config /\ flat.algo = sf.algo /\ legacy.algo = sl.algo
        /\ flat.kv = kv /\ legacy.kv = raw.kv
        /\ flat.exclude = legacy.exclude /\ flat.layers = legacy.layers /\ flat.gs = legacy.gs
    <3>1. /\ flat.config = config /\ flat.algo = sf.algo /\ flat.kv = f.kv
          /\ f.exclude = l.exclude /\ f.gs = l.gs /\ raw.layers = old.layers =>
               flat.exclude = legacy.exclude /\ flat.layers = legacy.layers /\ flat.gs = legacy.gs
      <4> QED BY MappedIs
    <3>2. legacy.config = config /\ legacy.algo = sl.algo /\ legacy.kv = l.kv
      <4> QED BY MappedIs
    <3> HIDE DEF f, l, sf, sl, flat, legacy, kv
    <3> QED BY <2>3, <2>4, <3>1, <3>2
  <2>8. /\ FromConfig(config, raw) = IF bad THEN [config |-> "error"] ELSE sf
        /\ FromConfig(config, old) = IF bad \/ refused THEN [config |-> "error"] ELSE sl
    <3> DEFINE error == [config |-> "error"]
    <3>1. FromConfig(config, raw) =
            IF \/ f.algo \notin QuantAlgos \/ f.kv = "other" \/ f.gs = -1
               \/ config # "modelopt_mixed" /\ f.algo \notin AlgosOwnedBy(config)
               \/ raw.format = "legacy" /\ raw.missing \cap RequiredFields(config) # {}
               \/ config = "modelopt_mixed" /\ raw.layers = <<>>
            THEN error ELSE sf
      BY Zenon DEF FromConfig
    <3>2. FromConfig(config, old) =
            IF \/ l.algo \notin QuantAlgos \/ l.kv = "other" \/ l.gs = -1
               \/ config # "modelopt_mixed" /\ l.algo \notin AlgosOwnedBy(config)
               \/ old.format = "legacy" /\ old.missing \cap RequiredFields(config) # {}
               \/ config = "modelopt_mixed" /\ old.layers = <<>>
            THEN error ELSE sl
      BY Zenon DEF FromConfig
    <3> HIDE DEF f, l, sf, sl, error
    <3> QED BY <2>1, <2>3, <2>4, <3>1, <3>2 DEF error
  <2>9. /\ LoadedConfig(config, raw) = IF bad THEN [config |-> "error"] ELSE flat
        /\ LoadedConfig(config, old) = IF bad \/ refused THEN [config |-> "error"] ELSE legacy
    <3>1. sf.config = config /\ sl.config = config /\ [config |-> "error"].config = "error"
      BY DEF Specialised
    <3>2. flat = ApplyVllmMapper(sf) /\ legacy = ApplyVllmMapper(sl)
      BY DEF MappedOf
    <3> HIDE DEF flat, legacy, sf, sl, bad, refused
    <3> QED BY <2>5, <2>8, <3>1, <3>2 DEF LoadedConfig, IsError
  <2>10. IsError(LoadedConfig(config, old)) <=> IsError(LoadedConfig(config, raw)) \/ refused
    <3> HIDE DEF flat, legacy, bad, refused
    <3> QED BY <2>5, <2>7, <2>9 DEF IsError
  <2>11. ASSUME ~IsError(LoadedConfig(config, old)), NEW name \in Names, NEW kind \in Kinds(name)
         PROVE  SameMethod(raw, config, kind, GetQuantMethod(LoadedConfig(config, raw), kind, name),
                                              GetQuantMethod(LoadedConfig(config, old), kind, name))
    <3>1. ~bad /\ ~refused /\ LoadedConfig(config, raw) = flat /\ LoadedConfig(config, old) = legacy
      <4> HIDE DEF flat, legacy, bad, refused
      <4> QED BY <2>9, <2>11 DEF IsError
    <3> HIDE DEF flat, legacy, sf, sl
    <3> SUFFICES SameMethod(raw, config, kind, GetQuantMethod(flat, kind, name), GetQuantMethod(legacy, kind, name))
      BY <3>1, Zenon
    <3>2. CASE config = "modelopt_mixed"
      <4>1. raw.algo # "NVFP4"
        BY <3>2 DEF ClaimedBy
      <4>2. /\ GetQuantMethod(flat, kind, name) = MethodOfMixed(flat, kind, name)
            /\ GetQuantMethod(legacy, kind, name) = MethodOfMixed(legacy, kind, name)
        BY <2>7, <3>2, Zenon DEF GetQuantMethod
      <4>3. CASE kind = "attention"
        <5>1. /\ MethodOfMixed(flat, kind, name) = Plain(IF flat.kv = "none" THEN "none" ELSE "kv_cache")
              /\ MethodOfMixed(legacy, kind, name) = Plain(IF legacy.kv = "none" THEN "none" ELSE "kv_cache")
          BY <4>3, Zenon DEF MethodOfMixed
        <5>2. /\ GetQuantMethod(flat, kind, name) = Plain(IF kv = "none" THEN "none" ELSE "kv_cache")
              /\ GetQuantMethod(legacy, kind, name) = Plain(IF raw.kv = "none" THEN "none" ELSE "kv_cache")
          BY <2>7, <4>2, <5>1, Zenon
        <5>3. CASE raw.kv \in {"none", "FP8"}
          <6>1. GetQuantMethod(flat, kind, name) = GetQuantMethod(legacy, kind, name)
            BY <5>2, <5>3
          <6> QED BY <4>1, <5>3, <6>1, Zenon DEF SameMethod
        <5>4. CASE raw.kv \notin {"none", "FP8"}
          <6>1. GetQuantMethod(flat, kind, name) = Plain("none") /\ GetQuantMethod(legacy, kind, name) = Plain("kv_cache")
            BY <5>2, <5>4
          <6> QED BY <3>2, <4>3, <5>4, <6>1, Zenon DEF SameMethod
        <5> QED BY <5>3, <5>4
      <4>4. CASE kind # "attention"
        <5>1. MethodOfMixed(flat, kind, name) = MethodOfMixed(legacy, kind, name)
          <6>1. \A algo_ : /\ LinearMethod(flat, algo_) = LinearMethod(legacy, algo_)
                           /\ ExpertsMethod(flat, algo_, name) = ExpertsMethod(legacy, algo_, name)
            BY <2>7, Zenon DEF LinearMethod, ExpertsMethod
          <6> QED BY <2>7, <4>4, <6>1, Zenon DEF MethodOfMixed
        <5> QED BY <4>1, <4>2, <4>4, <5>1, Zenon DEF SameMethod
      <4> QED BY <4>3, <4>4
    <3>3. CASE config # "modelopt_mixed"
      <4>1. /\ GetQuantMethod(flat, kind, name) = MethodOfOne(flat, kind, name)
            /\ GetQuantMethod(legacy, kind, name) = MethodOfOne(legacy, kind, name)
        BY <2>7, <3>3, Zenon DEF GetQuantMethod
      <4>2. CASE ~alone
        <5>1. flat.algo = legacy.algo
          BY <2>6, <2>7, <4>2
        <5>2. \A algo_ : LinearMethod(flat, algo_) = LinearMethod(legacy, algo_)
          BY <2>7, Zenon DEF LinearMethod
        <5>3. MethodOfOne(flat, kind, name) = MethodOfOne(legacy, kind, name)
          BY <2>7, <5>1, <5>2, Zenon DEF MethodOfOne
        <5> DEFINE F == GetQuantMethod(flat, kind, name)
                   L == GetQuantMethod(legacy, kind, name)
        <5>4. F = L
          BY <4>1, <5>3
        <5> HIDE DEF F, L
        <5>5. SameMethod(raw, config, kind, F, L)
          BY <3>3, <4>2, <5>4 DEF SameMethod
        <5> QED BY <5>5 DEF F, L
      <4>3. CASE alone
        <5>1. flat.algo = "W4A16_NVFP4" /\ legacy.algo = "NVFP4"
          BY <2>6, <2>7, <4>3
        <5>2. /\ LinearMethod(legacy, "NVFP4") = [method |-> "linear", algo |-> "NVFP4", gs |-> legacy.gs]
              /\ LinearMethod(flat, "W4A16_NVFP4") = [method |-> "linear", algo |-> "W4A16_NVFP4", gs |-> legacy.gs]
          BY <2>7 DEF LinearMethod, Owner
        <5> DEFINE F == MethodOfOne(flat, kind, name)
                   L == MethodOfOne(legacy, kind, name)
        <5>3. \/ F = L /\ \E m : L = Plain(m)
              \/ F = LinearMethod(flat, flat.algo) /\ L = LinearMethod(legacy, legacy.algo)
              \/ /\ F = [method |-> "experts", algo |-> flat.algo, gs |-> flat.gs]
                 /\ L = [method |-> "experts", algo |-> legacy.algo, gs |-> legacy.gs]
          BY <2>7, Zenon DEF MethodOfOne, OfExcluded
        <5> HIDE DEF F, L
        <5>4. CASE F = L /\ \E m : L = Plain(m)
          <6>1. L.algo = "none"
            BY <5>4 DEF Plain
          <6>2. SameMethod(raw, config, kind, F, L)
            BY <3>3, <5>4, <6>1 DEF SameMethod
          <6> QED BY <4>1, <6>2 DEF F, L
        <5>5. ASSUME F # L \/ ~\E m : L = Plain(m) PROVE L.algo = "NVFP4" /\ F = [L EXCEPT !.algo = "W4A16_NVFP4"]
          BY <2>7, <5>1, <5>2, <5>3, <5>5
        <5>6. CASE F # L \/ ~\E m : L = Plain(m)
          <6>1. SameMethod(raw, config, kind, F, L)
            BY <3>3, <4>3, <5>5, <5>6 DEF SameMethod
          <6> QED BY <4>1, <6>1 DEF F, L
        <5> QED BY <5>4, <5>6
      <4> QED BY <4>2, <4>3
    <3> QED BY <3>2, <3>3
  <2> QED BY <2>10, <2>11
<1> QED BY <1>1, RawInvHolds, PTL

-----------------------------------------------------------------------------
(* The weights: names                                                      *)

LEMMA MinOf ==
  ASSUME NEW S \in SUBSET Nat, S # {}
  PROVE  Min(S) \in S /\ \A y \in S : Min(S) <= y
<1>1. \E x \in S : \A y \in S : x <= y
  BY LeastExists
<1> QED BY <1>1, Zenon DEF Min

LEMMA ToSetIs ==
  ASSUME NEW S, NEW s \in Seq(S) PROVE ToSet(s) = {s[i] : i \in 1..Len(s)}
  BY DEF ToSet

LEMMA ToSetJoin ==
  ASSUME NEW S, NEW a \in Seq(S), NEW b \in Seq(S)
  PROVE  a \o b \in Seq(S) /\ ToSet(a \o b) = ToSet(a) \cup ToSet(b)
<1>1. /\ a \o b \in Seq(S) /\ Len(a \o b) = Len(a) + Len(b) /\ Len(a) \in Nat /\ Len(b) \in Nat
      /\ \A i \in 1..Len(a) : (a \o b)[i] = a[i]
      /\ \A i \in 1..Len(b) : (a \o b)[Len(a) + i] = b[i]
  OBVIOUS
<1> DEFINE c == a \o b
<1>2. ToSet(a) = {a[i] : i \in 1..Len(a)} /\ ToSet(b) = {b[i] : i \in 1..Len(b)} /\ ToSet(c) = {c[i] : i \in 1..Len(c)}
  BY <1>1, ToSetIs
<1> DEFINE n == Len(a)
           m == Len(b)
           A == {a[i] : i \in 1..n}
           B == {b[i] : i \in 1..m}
           C == {c[i] : i \in 1..n + m}
<1>3. n \in Nat /\ m \in Nat /\ (\A i \in 1..n : c[i] = a[i]) /\ \A i \in 1..m : c[n + i] = b[i]
  BY <1>1
<1>4. A \subseteq C /\ B \subseteq C /\ C \subseteq A \cup B
  <2> HIDE DEF n, m, c
  <2>1. \A i \in 1..n : i \in 1..n + m /\ a[i] = c[i]
    BY <1>3
  <2>2. \A i \in 1..m : n + i \in 1..n + m /\ b[i] = c[n + i]
    BY <1>3
  <2>3. \A i \in 1..n + m : i \in 1..n \/ (i - n \in 1..m /\ n + (i - n) = i)
    BY <1>3
  <2>4. \A i \in 1..n + m : c[i] \in A \/ c[i] \in B
    <3> TAKE i \in 1..n + m
    <3>1. CASE i \in 1..n
      BY <2>1, <3>1
    <3>2. CASE i - n \in 1..m /\ n + (i - n) = i
      BY <2>2, <3>2
    <3> QED BY <2>3, <3>1, <3>2
  <2> QED BY <2>1, <2>2, <2>4
<1> QED BY <1>1, <1>2, <1>4

(* The parts of names.  The provers cannot tell that a given string is one.*)
Word == STRING \cup {"model", "lm_head"}

LEMMA NamesAreOfWords ==
  ASSUME NEW s \in Seq(STRING) PROVE s \in Seq(Word)
<1>1. STRING \subseteq Word
  BY DEF Word
<1>2. Seq(STRING) \subseteq Seq(Word)
  BY <1>1, SeqMonotonic
<1> QED BY <1>2

(* The number of a layer in a name replaced by another                     *)
Renumbered(name, i, d) == [name EXCEPT ![i] = d]

LEMMA RenumberedIs ==
  ASSUME NEW name \in Seq(Word), NEW i \in 1..Len(name), NEW d \in Word
  PROVE  /\ Renumbered(name, i, d) \in Seq(Word) /\ Len(Renumbered(name, i, d)) = Len(name)
         /\ Renumbered(name, i, d)[i] = d
         /\ \A j \in 1..Len(name) : j # i => Renumbered(name, i, d)[j] = name[j]
<1>1. DOMAIN name = 1..Len(name) /\ Len(name) \in Nat /\ \A j \in 1..Len(name) : name[j] \in Word
  OBVIOUS
<1> DEFINE n == Len(name)
           f == [j \in 1..n |-> IF j = i THEN d ELSE name[j]]
<1>2. Renumbered(name, i, d) = f
  BY <1>1, Zenon DEF Renumbered
<1>3. n \in Nat /\ f \in [1..n -> Word] /\ f[i] = d /\ \A j \in 1..n : j # i => f[j] = name[j]
  BY <1>1
<1> HIDE DEF f, n
<1>4. f \in Seq(Word) /\ DOMAIN f = 1..n
  BY <1>3, IsASeq
<1>5. Len(f) = n
  BY <1>3, <1>4, LenProperties
<1> QED BY <1>2, <1>3, <1>4, <1>5 DEF n

LEMMA OneTuple == ASSUME NEW S, NEW x \in S PROVE <<x>> \in Seq(S) /\ Len(<<x>>) = 1 /\ ToSet(<<x>>) = {x}
<1>1. <<x>> \in Seq(S) /\ Len(<<x>>) = 1 /\ <<x>>[1] = x
  OBVIOUS
<1>2. ToSet(<<x>>) = {<<x>>[i] : i \in 1..1}
  BY <1>1, ToSetIs
<1> QED BY <1>1, <1>2

LEMMA NoTuple == ASSUME NEW S PROVE <<>> \in Seq(S) /\ ToSet(<<>>) = {}
  BY EmptySeq DEF ToSet

LEMMA PrefixIs ==
  ASSUME NEW s \in Seq(Word), NEW t \in Seq(Word), IsPrefix(s, t)
  PROVE  Len(s) <= Len(t) /\ \A i \in 1..Len(s) : s[i] = t[i]
<1>1. Len(s) \in Nat /\ Len(t) \in Nat /\ Len(s) <= Len(t) /\ SubSeq(s, 1, Len(s)) = SubSeq(t, 1, Len(s))
  BY DEF IsPrefix
<1>2. ASSUME NEW i \in 1..Len(s) PROVE s[i] = t[i]
  <2>1. SubSeq(s, 1, Len(s))[i] = s[i] /\ SubSeq(t, 1, Len(s))[i] = t[i]
    BY <1>1
  <2> QED BY <1>1, <2>1
<1> QED BY <1>1, <1>2

LEMMA DraftPlacesIs ==
  ASSUME NEW name, NEW i
  PROVE  i \in DraftPlaces(name) <=> /\ i \in 3..Len(name)-1 /\ name[i-2] = "mtp" /\ name[i-1] = "layers"
                                     /\ name[i] \in ToSet(Digits)
  BY DEF DraftPlaces

LEMMA DigitsIs ==
  ASSUME WeightsAssumption
  PROVE  /\ Digits \in Seq(Word) /\ Len(Digits) \in Nat /\ DOMAIN Digits = 1..Len(Digits)
         /\ \A j \in 1..Len(Digits) : Digits[j] \in Word /\ Digits[j] \in ToSet(Digits)
         /\ \A j, k \in 1..Len(Digits) : Digits[j] = Digits[k] => j = k
         /\ \A j \in 1..Len(Digits) : Digit(Digits[j]) = j
<1>1. Digits \in Seq(Word) /\ IsInjective(Digits)
  BY NamesAreOfWords DEF WeightsAssumption, DispatchAssumption
<1>2. /\ Len(Digits) \in Nat /\ DOMAIN Digits = 1..Len(Digits)
      /\ \A j \in 1..Len(Digits) : Digits[j] \in Word
  BY <1>1
<1>3. \A j \in 1..Len(Digits) : Digits[j] \in ToSet(Digits)
  BY <1>2 DEF ToSet
<1>4. \A j, k \in 1..Len(Digits) : Digits[j] = Digits[k] => j = k
  BY <1>1, <1>2 DEF IsInjective
<1>5. ASSUME NEW j \in 1..Len(Digits) PROVE Digit(Digits[j]) = j
  <2>1. \E i \in DOMAIN Digits : Digits[i] = Digits[j]
    BY <1>2
  <2>2. Digit(Digits[j]) \in DOMAIN Digits /\ Digits[Digit(Digits[j])] = Digits[j]
    BY <2>1, Zenon DEF Digit
  <2> QED BY <1>2, <1>4, <2>2
<1> QED BY <1>1, <1>2, <1>3, <1>4, <1>5

(* With one draft layer, a name with a draft layer's number has it at one  *)
(* place; the checkpoint has 0 there.                                      *)
OneDraftLayer == DraftLayers = 1

Own == Digits[HiddenLayers + 1]

LEMMA OneDraftPlace ==
  ASSUME WeightsAssumption, OneDraftLayer, NEW name \in Seq(Word), IsLayerName(name), NEW i \in DraftPlaces(name)
  PROVE  /\ DraftPlaces(name) = {i} /\ Min(DraftPlaces(name)) = i
         /\ i \in 3..Len(name)-2 /\ name[i] = Own
         /\ HiddenLayers \in Nat \ {0} /\ HiddenLayers + 1 \in 1..Len(Digits)
<1>1. i \in 3..Len(name)-1 /\ \A j \in DraftPlaces(name) : j = i
  BY DraftPlacesIs DEF IsLayerName
<1>2. DraftPlaces(name) = {i}
  BY <1>1
<1>3. Min({i}) = i
  BY <1>1, MinOf
<1>4. HiddenLayers \in Nat \ {0} /\ HiddenLayers + DraftLayers <= Len(Digits)
  BY DEF WeightsAssumption, NamesAssumption
<1>5. i < Len(name) - 1 /\ \E d \in 0..DraftLayers-1 : name[i] = Digits[HiddenLayers + d + 1]
  BY DEF IsLayerName
<1>6. PICK d \in 0..DraftLayers-1 : name[i] = Digits[HiddenLayers + d + 1]
  BY <1>5
<1>7. d = 0 /\ HiddenLayers + d + 1 = HiddenLayers + 1 /\ HiddenLayers + 1 <= Len(Digits)
  BY <1>4 DEF OneDraftLayer
<1>8. name[i] = Own
  BY <1>6, <1>7 DEF Own
<1>9. Len(name) \in Nat /\ i \in 3..Len(name)-2 /\ HiddenLayers + 1 \in 1..Len(Digits)
  BY <1>1, <1>4, <1>5, <1>7, DigitsIs
<1> QED BY <1>2, <1>3, <1>4, <1>8, <1>9

(* The numbers that a draft layer is looked up by besides its own          *)
Offered == 1..Min({HiddenLayers, 9})

LEMMA OfferedIs ==
  ASSUME WeightsAssumption
  PROVE  /\ HiddenLayers \in Nat \ {0} /\ Min({HiddenLayers, 9}) \in Nat /\ 1 \in Offered
         /\ \A j \in Offered : j \in 1..HiddenLayers
<1>1. HiddenLayers \in Nat \ {0}
  BY DEF WeightsAssumption, NamesAssumption
<1>2. {HiddenLayers, 9} \in SUBSET Nat
  BY <1>1
<1>3. Min({HiddenLayers, 9}) \in {HiddenLayers, 9} /\ Min({HiddenLayers, 9}) <= HiddenLayers
  BY <1>2, MinOf
<1> QED BY <1>1, <1>3 DEF Offered

(* The draft-local candidates of a name that has its number at place i     *)
LEMMA DraftLocalIs ==
  ASSUME WeightsAssumption, NEW name \in Seq(Word), NEW i, DraftPlaces(name) = {i}, name[i] = Own,
         HiddenLayers \in Nat \ {0}, HiddenLayers + 1 \in 1..Len(Digits), i \in 1..Len(name)
  PROVE  /\ DraftLocal(name) \in Seq(Seq(Word))
         /\ ToSet(DraftLocal(name)) = {Renumbered(name, i, Digits[j]) : j \in Offered}
<1>1. Min({i}) = i
  BY MinOf, i \in Nat, {i} \in SUBSET Nat
<1>2. Digit(name[i]) = HiddenLayers + 1
  BY DigitsIs DEF Own
<1> DEFINE n == Min({HiddenLayers, 9})
           f == [j \in 1..n |-> Renumbered(name, i, Digits[j])]
<1>3. DraftLocal(name) = [j \in 1..Min({Digit(name[i]) - 1, 9}) |-> Renumbered(name, i, Digits[j])]
  BY <1>1, Zenon DEF DraftLocal, Renumbered
<1>4. Digit(name[i]) - 1 = HiddenLayers
  BY <1>2
<1>5. DraftLocal(name) = f
  BY <1>3, <1>4
<1>6. ASSUME NEW j \in 1..n PROVE Renumbered(name, i, Digits[j]) \in Seq(Word)
  <2>1. j \in 1..HiddenLayers
    BY OfferedIs DEF Offered
  <2>2. j \in 1..Len(Digits)
    BY <2>1, DigitsIs
  <2> QED BY <2>2, DigitsIs, RenumberedIs
<1> HIDE DEF n
<1>7. n \in Nat
  BY OfferedIs DEF n
<1>8. f \in Seq(Seq(Word)) /\ Len(f) = n
  BY <1>6, <1>7
<1>9. ToSet(f) = {f[j] : j \in 1..n}
  BY <1>8, ToSetIs
<1>10. {f[j] : j \in 1..n} = {Renumbered(name, i, Digits[j]) : j \in 1..n}
  OBVIOUS
<1> QED BY <1>5, <1>8, <1>9, <1>10 DEF n, Offered

LEMMA DraftKeyHasZero ==
  ASSUME WeightsAssumption, OneDraftLayer, NEW key \in ListedKeys, NEW i \in DraftPlaces(key)
  PROVE  key[i] = Digits[1]
<1>1. \E d \in 0..DraftLayers-1 : key[i] = Digits[d + 1]
  BY DEF WeightsAssumption, NamesAssumption
<1>2. PICK d \in 0..DraftLayers-1 : key[i] = Digits[d + 1]
  BY <1>1
<1>3. d = 0 /\ d + 1 = 1
  BY DEF OneDraftLayer
<1> QED BY <1>2, <1>3

LEMMA ListedKeyIs ==
  ASSUME WeightsAssumption, NEW key \in ListedKeys
  PROVE  key \in Seq(Word) /\ Len(key) \in Nat
<1>1. PICK k \in LayerKeys : key = Mapped(k, FALSE)
  BY DEF ListedKeys
<1>2. k \in Seq(Word)
  BY NamesAreOfWords DEF WeightsAssumption, NamesAssumption
<1>3. CASE key = k
  BY <1>2, <1>3
<1>4. CASE key = <<"model">> \o SubSeq(k, 3, Len(k))
  <2>1. SubSeq(k, 3, Len(k)) \in Seq(Word)
    BY <1>2
  <2>2. "model" \in Word
    BY DEF Word
  <2>3. <<"model">> \in Seq(Word)
    BY <2>2, OneTuple
  <2>4. <<"model">> \o SubSeq(k, 3, Len(k)) \in Seq(Word)
    BY <2>1, <2>3, ToSetJoin
  <2> QED BY <1>4, <2>4
<1> QED BY <1>1, <1>3, <1>4 DEF Mapped

(* A key that has the number j where a draft layer's name has its own      *)
LEMMA NumberIsZero ==
  ASSUME WeightsAssumption, OneDraftLayer, NEW name \in Seq(Word), NEW i \in DraftPlaces(name),
         i <= Len(name) - 2, NEW j \in 1..Len(Digits), NEW key \in ListedKeys, Len(key) >= Len(name),
         \A k \in 1..Len(name)-1 : key[k] = Renumbered(name, i, Digits[j])[k]
  PROVE  j = 1
<1>1. /\ i \in 3..Len(name)-1 /\ name[i-2] = "mtp" /\ name[i-1] = "layers" /\ Len(name) \in Nat
  BY DraftPlacesIs
<1>2. Digits[j] \in Word /\ Digits[j] \in ToSet(Digits)
  BY DigitsIs
<1>3. i \in 1..Len(name) /\ i-1 \in 1..Len(name) /\ i-2 \in 1..Len(name) /\ i-1 # i /\ i-2 # i
  BY <1>1
<1>4. /\ Renumbered(name, i, Digits[j])[i] = Digits[j]
      /\ Renumbered(name, i, Digits[j])[i-1] = name[i-1]
      /\ Renumbered(name, i, Digits[j])[i-2] = name[i-2]
  BY <1>2, <1>3, RenumberedIs, ZenonT(60)
<1>5. i \in 1..Len(name)-1 /\ i-1 \in 1..Len(name)-1 /\ i-2 \in 1..Len(name)-1
  BY <1>1
<1>6. key[i] = Digits[j] /\ key[i-1] = "layers" /\ key[i-2] = "mtp"
  BY <1>1, <1>4, <1>5
<1>7. i \in 3..Len(key)-1
  BY <1>1, ListedKeyIs
<1>8. i \in DraftPlaces(key)
  BY <1>2, <1>6, <1>7, DraftPlacesIs
<1>9. Digits[j] = Digits[1] /\ 1 \in 1..Len(Digits)
  BY <1>6, <1>8, DraftKeyHasZero, DigitsIs
<1> QED BY <1>9, DigitsIs

(* The names of a layer: with a draft number, or without                   *)
LEMMA OwnNamesIs ==
  ASSUME WeightsAssumption, OneDraftLayer, NEW name \in Seq(Word), IsLayerName(name)
  PROVE  /\ OwnNames(name) = {name} \cup (IF Last(name) = "lm_head" THEN {<<"lm_head">>} ELSE {})
                                    \cup {Renumbered(name, i, Digits[1]) : i \in DraftPlaces(name)}
         /\ \A i \in DraftPlaces(name) : Digits[1] \in Word /\ i \in 1..Len(name)
<1> DEFINE New(i) == {[name EXCEPT ![i] = Digits[d + 1]] :
                        d \in {e \in 0..DraftLayers-1 : name[i] = Digits[HiddenLayers + e + 1]}}
<1>1. ASSUME NEW i \in DraftPlaces(name)
      PROVE  New(i) = {Renumbered(name, i, Digits[1])} /\ Digits[1] \in Word /\ i \in 1..Len(name)
  <2>1. name[i] = Own /\ i \in 3..Len(name)-2 /\ HiddenLayers \in Nat \ {0} /\ HiddenLayers + 1 \in 1..Len(Digits)
    BY <1>1, OneDraftPlace
  <2>2. 0..DraftLayers-1 = {0} /\ HiddenLayers + 0 + 1 = HiddenLayers + 1 /\ 0 + 1 = 1
    BY <2>1 DEF OneDraftLayer
  <2>3. {e \in 0..DraftLayers-1 : name[i] = Digits[HiddenLayers + e + 1]} = {0}
    BY <2>1, <2>2 DEF Own
  <2>4. New(i) = {[name EXCEPT ![i] = Digits[0 + 1]]}
    BY <2>3
  <2>5. 1 \in 1..Len(Digits) /\ Len(name) \in Nat
    BY <2>1
  <2> QED BY <2>1, <2>2, <2>4, <2>5, DigitsIs DEF Renumbered
<1>2. UNION {New(i) : i \in DraftPlaces(name)} = {Renumbered(name, i, Digits[1]) : i \in DraftPlaces(name)}
  <2> HIDE DEF New
  <2> QED BY <1>1
<1>3. OwnNames(name) = {name} \cup (IF Last(name) = "lm_head" THEN {<<"lm_head">>} ELSE {})
                              \cup UNION {New(i) : i \in DraftPlaces(name)}
  BY Zenon DEF OwnNames
<1> HIDE DEF New
<1> QED BY <1>1, <1>2, <1>3

LEMMA CandidatesAre ==
  ASSUME WeightsAssumption, NEW name \in Seq(Word), Swapped(name) = <<>>,
         Last(name) = "lm_head" => Len(name) > 1,
         \A i \in DraftPlaces(name) :
           /\ DraftPlaces(name) = {i} /\ name[i] = Own /\ i \in 1..Len(name)
           /\ HiddenLayers \in Nat \ {0} /\ HiddenLayers + 1 \in 1..Len(Digits)
  PROVE  /\ Candidates(name) \in Seq(Seq(Word))
         /\ ToSet(Candidates(name)) = {name} \cup (IF Last(name) = "lm_head" THEN {<<"lm_head">>} ELSE {})
              \cup UNION {{Renumbered(name, i, Digits[j]) : j \in Offered} : i \in DraftPlaces(name)}
<1>1. Swapped(name) = <<>>
  OBVIOUS
<1>2. /\ <<name>> \in Seq(Seq(Word)) /\ ToSet(<<name>>) = {name}
      /\ LmHead(name) \in Seq(Seq(Word))
      /\ ToSet(LmHead(name)) = IF Last(name) = "lm_head" THEN {<<"lm_head">>} ELSE {}
  <2>1. <<"lm_head">> \in Seq(Word)
    <3>1. "lm_head" \in Word
      BY DEF Word
    <3> QED BY <3>1, OneTuple
  <2>2. /\ <<name>> \in Seq(Seq(Word)) /\ ToSet(<<name>>) = {name}
        /\ <<<<"lm_head">>>> \in Seq(Seq(Word)) /\ ToSet(<<<<"lm_head">>>>) = {<<"lm_head">>}
        /\ <<>> \in Seq(Seq(Word)) /\ ToSet(<<>>) = {}
    BY <2>1, OneTuple, NoTuple, Zenon
  <2> QED BY <2>2, Zenon DEF LmHead
<1> DEFINE Of(i) == {Renumbered(name, i, Digits[j]) : j \in Offered}
<1>3. DraftLocal(name) \in Seq(Seq(Word)) /\ ToSet(DraftLocal(name)) = UNION {Of(i) : i \in DraftPlaces(name)}
  <2>1. CASE DraftPlaces(name) = {}
    <3>1. DraftLocal(name) = <<>>
      BY <2>1, Zenon DEF DraftLocal
    <3>2. UNION {Of(i) : i \in DraftPlaces(name)} = {}
      BY <2>1, Zenon
    <3> HIDE DEF Of
    <3> QED BY <3>1, <3>2, NoTuple
  <2>2. CASE DraftPlaces(name) # {}
    <3>1. PICK i : i \in DraftPlaces(name)
      BY <2>2
    <3>2. /\ DraftPlaces(name) = {i} /\ name[i] = Own /\ i \in 1..Len(name)
          /\ HiddenLayers \in Nat \ {0} /\ HiddenLayers + 1 \in 1..Len(Digits)
      BY <3>1
    <3>4. /\ DraftLocal(name) \in Seq(Seq(Word))
          /\ ToSet(DraftLocal(name)) = Of(i)
      BY <3>2, DraftLocalIs
    <3> HIDE DEF Of
    <3>5. UNION {Of(k) : k \in {i}} = Of(i)
      OBVIOUS
    <3> QED BY <3>2, <3>4, <3>5
  <2> QED BY <2>1, <2>2
<1> DEFINE a == <<name>>
           b == LmHead(name)
           c == DraftLocal(name)
           d == Swapped(name)
           T == Seq(Word)
<1>4. Candidates(name) = a \o b \o c \o d
  BY DEF Candidates
<1>5. a \in Seq(T) /\ b \in Seq(T) /\ c \in Seq(T) /\ d \in Seq(T) /\ ToSet(d) = {}
  BY <1>1, <1>2, <1>3, NoTuple
<1>6. /\ ToSet(a) = {name} /\ ToSet(b) = IF Last(name) = "lm_head" THEN {<<"lm_head">>} ELSE {}
      /\ ToSet(c) = UNION {{Renumbered(name, i, Digits[j]) : j \in Offered} : i \in DraftPlaces(name)}
  BY <1>2, <1>3
<1> DEFINE ab == a \o b
           abc == ab \o c
<1> HIDE DEF a, b, c, d, T
<1>7. ab \in Seq(T) /\ ToSet(ab) = ToSet(a) \cup ToSet(b)
  BY <1>5, ToSetJoin
<1> HIDE DEF ab
<1>8. abc \in Seq(T) /\ ToSet(abc) = ToSet(ab) \cup ToSet(c)
  BY <1>5, <1>7, ToSetJoin
<1> HIDE DEF abc
<1>9. abc \o d \in Seq(T) /\ ToSet(abc \o d) = ToSet(abc) \cup ToSet(d)
  BY <1>5, <1>8, ToSetJoin
<1>10. ToSet(abc \o d) = ToSet(a) \cup ToSet(b) \cup ToSet(c)
  BY <1>5, <1>7, <1>8, <1>9
<1>11. Candidates(name) = abc \o d
  BY <1>4 DEF abc, ab
<1> QED BY <1>6, <1>9, <1>10, <1>11, Zenon DEF T

LEMMA CandidatesIs ==
  ASSUME WeightsAssumption, OneDraftLayer, NEW name \in Seq(Word), IsLayerName(name)
  PROVE  /\ Candidates(name) \in Seq(Seq(Word))
         /\ ToSet(Candidates(name)) = {name} \cup (IF Last(name) = "lm_head" THEN {<<"lm_head">>} ELSE {})
              \cup UNION {{Renumbered(name, i, Digits[j]) : j \in Offered} : i \in DraftPlaces(name)}
<1>1. Swapped(name) = <<>> /\ Len(name) > 1
  BY DEF Swapped, IsLayerName
<1>2. ASSUME NEW i \in DraftPlaces(name)
      PROVE  /\ DraftPlaces(name) = {i} /\ name[i] = Own /\ i \in 1..Len(name)
             /\ HiddenLayers \in Nat \ {0} /\ HiddenLayers + 1 \in 1..Len(Digits)
  <2>1. i \in 3..Len(name)-2 /\ Len(name) \in Nat
    BY OneDraftPlace
  <2> QED BY <2>1, OneDraftPlace
<1> QED BY <1>1, <1>2, CandidatesAre

(* Every name of its own is a candidate, and a candidate that begins a key *)
(* of the checkpoint is a name of its own.                                 *)
LEMMA CandidatesAreOwn ==
  ASSUME WeightsAssumption, OneDraftLayer, NEW name \in Seq(Word), IsLayerName(name)
  PROVE  /\ OwnNames(name) \subseteq ToSet(Candidates(name))
         /\ \A c \in ToSet(Candidates(name)) : \A key \in ListedKeys : IsPrefix(c, key) => c \in OwnNames(name)
<1>1. 1 \in Offered
  BY OfferedIs
<1>2. OwnNames(name) \subseteq ToSet(Candidates(name))
  BY <1>1, OwnNamesIs, CandidatesIs
<1>3. ASSUME NEW i \in DraftPlaces(name), NEW j \in Offered, NEW key \in ListedKeys,
             IsPrefix(Renumbered(name, i, Digits[j]), key)
      PROVE  Renumbered(name, i, Digits[j]) \in OwnNames(name)
  <2>1. i \in 3..Len(name)-2 /\ HiddenLayers \in Nat \ {0} /\ HiddenLayers + 1 \in 1..Len(Digits)
    BY <1>3, OneDraftPlace
  <2>2. j \in 1..Len(Digits) /\ i \in 1..Len(name) /\ Len(name) \in Nat /\ i <= Len(name) - 2
    BY <2>1, DigitsIs, OfferedIs
  <2>3. Digits[j] \in Word
    BY <2>2, DigitsIs
  <2> DEFINE c == Renumbered(name, i, Digits[j])
  <2>4. c \in Seq(Word) /\ Len(c) = Len(name)
    BY <2>2, <2>3, RenumberedIs
  <2>5. Len(c) <= Len(key) /\ \A k \in 1..Len(c) : c[k] = key[k]
    BY <1>3, <2>4, ListedKeyIs, PrefixIs
  <2>6. Len(key) >= Len(name) /\ \A k \in 1..Len(name)-1 : key[k] = c[k]
    BY <2>2, <2>4, <2>5, ListedKeyIs
  <2>7. j = 1
    BY <2>2, <2>6, NumberIsZero
  <2> QED BY <2>7, OwnNamesIs
<1>4. ASSUME NEW c \in ToSet(Candidates(name)), NEW key \in ListedKeys, IsPrefix(c, key) PROVE c \in OwnNames(name)
  <2>1. CASE c \in {name} \cup (IF Last(name) = "lm_head" THEN {<<"lm_head">>} ELSE {})
    BY <2>1, OwnNamesIs
  <2>2. CASE \E i \in DraftPlaces(name), j \in Offered : c = Renumbered(name, i, Digits[j])
    BY <1>3, <1>4, <2>2
  <2> QED BY <2>1, <2>2, CandidatesIs
<1> QED BY <1>2, <1>4

(* The fused layers: the shards that are looked for are its own.           *)
LEMMA ParentIs ==
  ASSUME NEW name \in Seq(Word), Len(name) > 1
  PROVE  /\ Parent(name) \in Seq(Word) /\ Len(Parent(name)) = Len(name) - 1
         /\ \A i \in 1..Len(name)-1 : Parent(name)[i] = name[i]
<1> DEFINE n == Len(name)
           p == [i \in 1..n-1 |-> name[i]]
<1>1. n \in Nat /\ \A i \in 1..n-1 : name[i] \in Word
  OBVIOUS
<1>2. Parent(name) = SubSeq(name, 1, n - 1)
  BY DEF Parent
<1>3. /\ SubSeq(name, 1, n - 1) \in Seq(Word) /\ Len(SubSeq(name, 1, n - 1)) = n - 1
      /\ \A i \in 1..n-1 : SubSeq(name, 1, n - 1)[i] = name[i]
  BY <1>1
<1> QED BY <1>2, <1>3

LEMMA ParentPlaces ==
  ASSUME WeightsAssumption, OneDraftLayer, NEW name \in Seq(Word), IsLayerName(name)
  PROVE  DraftPlaces(Parent(name)) = DraftPlaces(name)
<1>1. Len(name) > 1 /\ Len(name) \in Nat
  BY DEF IsLayerName
<1>2. /\ Parent(name) \in Seq(Word) /\ Len(Parent(name)) = Len(name) - 1
      /\ \A i \in 1..Len(name)-1 : Parent(name)[i] = name[i]
  BY <1>1, ParentIs
<1>3. ASSUME NEW i \in DraftPlaces(name) PROVE i \in DraftPlaces(Parent(name))
  <2>1. i \in 3..Len(name)-2
    BY OneDraftPlace
  <2>2. name[i-2] = "mtp" /\ name[i-1] = "layers" /\ name[i] \in ToSet(Digits)
    BY DraftPlacesIs
  <2>3. i \in 1..Len(name)-1 /\ i-1 \in 1..Len(name)-1 /\ i-2 \in 1..Len(name)-1 /\ i \in 3..Len(Parent(name))-1
    BY <1>1, <1>2, <2>1
  <2>4. /\ Parent(name)[i-2] = "mtp" /\ Parent(name)[i-1] = "layers" /\ Parent(name)[i] \in ToSet(Digits)
    BY <1>2, <2>2, <2>3
  <2> QED BY <2>3, <2>4, DraftPlacesIs
<1>4. ASSUME NEW i \in DraftPlaces(Parent(name)) PROVE i \in DraftPlaces(name)
  <2>1. /\ i \in 3..Len(Parent(name))-1 /\ Parent(name)[i-2] = "mtp" /\ Parent(name)[i-1] = "layers"
        /\ Parent(name)[i] \in ToSet(Digits)
    BY DraftPlacesIs
  <2>2. i \in 1..Len(name)-1 /\ i-1 \in 1..Len(name)-1 /\ i-2 \in 1..Len(name)-1 /\ i \in 3..Len(name)-1
    BY <1>1, <1>2, <2>1
  <2>3. name[i-2] = "mtp" /\ name[i-1] = "layers" /\ name[i] \in ToSet(Digits)
    BY <1>2, <2>1, <2>2
  <2> QED BY <2>2, <2>3, DraftPlacesIs
<1> QED BY <1>3, <1>4

LEMMA StrictPrefixOfParent ==
  ASSUME NEW name \in Seq(Word), Len(name) > 1, NEW p, Under(Parent(name), p), Len(p) \in Nat
  PROVE  Under(name, p)
<1>1. Len(Parent(name)) = Len(name) - 1 /\ Parent(name) = SubSeq(name, 1, Len(name) - 1) /\ Len(name) \in Nat
  BY ParentIs DEF Parent
<1>2. Len(p) <= Len(name) - 1 /\ SubSeq(p, 1, Len(p)) = SubSeq(Parent(name), 1, Len(p))
  BY <1>1 DEF Under, IsStrictPrefix, IsPrefix
<1>3. SubSeq(Parent(name), 1, Len(p)) = SubSeq(name, 1, Len(p))
  <2> DEFINE m == Len(p)
  <2>1. m \in Nat /\ m <= Len(name) - 1
    BY <1>2
  <2> HIDE DEF m
  <2>2. \A i \in 1..m : Parent(name)[i] = name[i]
    BY <1>1, <2>1, ParentIs
  <2>3. SubSeq(Parent(name), 1, m) = [i \in 1..m |-> Parent(name)[i]] /\ SubSeq(name, 1, m) = [i \in 1..m |-> name[i]]
    BY <1>1, <2>1, ParentIs
  <2> QED BY <2>2, <2>3 DEF m
<1>4. p # name
  BY <1>1, <1>2
<1> QED BY <1>1, <1>2, <1>3, <1>4 DEF Under, IsStrictPrefix, IsPrefix

LEMMA ParentCandidates ==
  ASSUME WeightsAssumption, OneDraftLayer, NEW name \in Seq(Word), IsLayerName(name), Last(Parent(name)) # "lm_head"
  PROVE  ToSet(Candidates(Parent(name))) = {Parent(name)}
           \cup UNION {{Renumbered(Parent(name), i, Digits[j]) : j \in Offered} : i \in DraftPlaces(name)}
<1>1. Len(name) > 1 /\ Len(name) \in Nat
  BY DEF IsLayerName
<1>2. Parent(name) \in Seq(Word) /\ Len(Parent(name)) = Len(name) - 1 /\ \A i \in 1..Len(name)-1 : Parent(name)[i] = name[i]
  BY <1>1, ParentIs
<1>3. Swapped(Parent(name)) = <<>>
  <2>1. Len(<<"language_model", "model">>) = 2 /\ Len(<<"model", "language_model">>) = 2
    OBVIOUS
  <2>2. ~Under(name, <<"language_model", "model">>) /\ ~Under(name, <<"model", "language_model">>)
    BY DEF IsLayerName
  <2>3. ~Under(Parent(name), <<"language_model", "model">>) /\ ~Under(Parent(name), <<"model", "language_model">>)
    BY <1>1, <2>1, <2>2, StrictPrefixOfParent
  <2> QED BY <2>3 DEF Swapped
<1>4. DraftPlaces(Parent(name)) = DraftPlaces(name)
  BY ParentPlaces
<1>5. ASSUME NEW i \in DraftPlaces(Parent(name))
      PROVE  /\ DraftPlaces(Parent(name)) = {i} /\ Parent(name)[i] = Own /\ i \in 1..Len(Parent(name))
             /\ HiddenLayers \in Nat \ {0} /\ HiddenLayers + 1 \in 1..Len(Digits)
  <2>1. /\ DraftPlaces(name) = {i} /\ i \in 3..Len(name)-2 /\ name[i] = Own
        /\ HiddenLayers \in Nat \ {0} /\ HiddenLayers + 1 \in 1..Len(Digits)
    BY <1>4, OneDraftPlace
  <2>2. i \in 1..Len(name)-1
    BY <1>1, <2>1
  <2> QED BY <1>2, <1>4, <2>1, <2>2
<1>6. ToSet(Candidates(Parent(name))) = {Parent(name)} \cup {}
        \cup UNION {{Renumbered(Parent(name), i, Digits[j]) : j \in Offered} : i \in DraftPlaces(Parent(name))}
  BY <1>2, <1>3, <1>5, CandidatesAre
<1> QED BY <1>4, <1>6

LEMMA RenumberedParent ==
  ASSUME WeightsAssumption, OneDraftLayer, NEW name \in Seq(Word), IsLayerName(name), NEW i \in DraftPlaces(name)
  PROVE  /\ Parent(Renumbered(name, i, Digits[1])) = Renumbered(Parent(name), i, Digits[1])
         /\ Last(Renumbered(name, i, Digits[1])) = Last(name)
<1> DEFINE r == Renumbered(name, i, Digits[1])
           q == Renumbered(Parent(name), i, Digits[1])
<1>1. i \in 3..Len(name)-2 /\ Len(name) \in Nat /\ HiddenLayers + 1 \in 1..Len(Digits)
  BY OneDraftPlace
<1>2. i \in 1..Len(name) /\ i \in 1..Len(name)-1 /\ Len(name) > 1 /\ 1 \in 1..Len(Digits)
  BY <1>1, DigitsIs
<1>3. Digits[1] \in Word
  BY <1>2, DigitsIs
<1>4. /\ Parent(name) \in Seq(Word) /\ Len(Parent(name)) = Len(name) - 1
      /\ \A k \in 1..Len(name)-1 : Parent(name)[k] = name[k]
  BY <1>2, ParentIs
<1>5. /\ r \in Seq(Word) /\ Len(r) = Len(name) /\ r[i] = Digits[1] /\ \A k \in 1..Len(name) : k # i => r[k] = name[k]
  BY <1>2, <1>3, RenumberedIs, ZenonT(60)
<1>6. /\ q \in Seq(Word) /\ Len(q) = Len(name) - 1 /\ q[i] = Digits[1]
      /\ \A k \in 1..Len(name)-1 : k # i => q[k] = Parent(name)[k]
  <2> DEFINE p == Parent(name)
  <2>1. p \in Seq(Word) /\ Len(p) = Len(name) - 1 /\ i \in 1..Len(p)
    BY <1>2, <1>4
  <2> HIDE DEF p
  <2>2. /\ Renumbered(p, i, Digits[1]) \in Seq(Word) /\ Len(Renumbered(p, i, Digits[1])) = Len(p)
        /\ Renumbered(p, i, Digits[1])[i] = Digits[1]
        /\ \A k \in 1..Len(p) : k # i => Renumbered(p, i, Digits[1])[k] = p[k]
    BY <1>3, <2>1, RenumberedIs
  <2> QED BY <2>1, <2>2 DEF p
<1> HIDE DEF r, q
<1>7. Parent(r) \in Seq(Word) /\ Len(Parent(r)) = Len(name) - 1 /\ \A k \in 1..Len(name)-1 : Parent(r)[k] = r[k]
  BY <1>2, <1>5, ParentIs
<1>8. \A k \in 1..Len(name)-1 : Parent(r)[k] = q[k]
  <2> TAKE k \in 1..Len(name)-1
  <2>1. k \in 1..Len(name)
    BY <1>1
  <2> QED BY <1>4, <1>5, <1>6, <1>7, <2>1
<1>9. Parent(r) = q
  BY <1>6, <1>7, <1>8, SeqEqual
<1>10. Len(name) \in 1..Len(name) /\ Len(name) # i
  BY <1>1
<1>11. Last(r) = Last(name)
  BY <1>5, <1>10 DEF Last
<1> QED BY <1>9, <1>11 DEF r, q

LEMMA OwnLast ==
  ASSUME WeightsAssumption, OneDraftLayer, NEW name \in Seq(Word), IsLayerName(name), NEW n \in OwnNames(name)
  PROVE  Last(n) = Last(name)
<1>1. Last(<<"lm_head">>) = "lm_head"
  BY DEF Last
<1> QED BY <1>1, OwnNamesIs, RenumberedParent

LEMMA AppendIs ==
  ASSUME NEW b \in Seq(Word), NEW s \in Word
  PROVE  Append(b, s) \in Seq(Word) /\ Len(Append(b, s)) = Len(b) + 1 /\ \A k \in 1..Len(b) : Append(b, s)[k] = b[k]
  BY AppendProperties

LEMMA FusedKeys ==
  ASSUME WeightsAssumption, OneDraftLayer, NEW name \in Seq(Word), IsLayerName(name),
         Last(name) \in DOMAIN PackedModules, Last(Parent(name)) # "lm_head", NEW key \in ListedKeys
  PROVE  (\E b \in ToSet(Candidates(Parent(name))), s \in ToSet(PackedModules[Last(name)]) : key = Append(b, s))
           <=> \E n \in OwnNames(name) : key \in ShardsOf(n)
<1> DEFINE shards == ToSet(PackedModules[Last(name)])
<1>1. ASSUME NEW n \in OwnNames(name) PROVE ShardsOf(n) = {Append(Parent(n), s) : s \in shards}
  BY OwnLast DEF ShardsOf
<1>2. ASSUME NEW n \in OwnNames(name), n # name PROVE \E i \in DraftPlaces(name) : n = Renumbered(name, i, Digits[1])
  <2>1. Last(name) # "lm_head"
    BY DEF WeightsAssumption, NamesAssumption
  <2> QED BY <1>2, <2>1, OwnNamesIs
<1>3. ASSUME NEW s \in shards PROVE s \in Word
  <2>1. PackedModules[Last(name)] \in Seq(STRING)
    BY DEF WeightsAssumption, DispatchAssumption
  <2>2. shards = {PackedModules[Last(name)][k] : k \in 1..Len(PackedModules[Last(name)])}
    BY <2>1, ToSetIs
  <2> QED BY <2>1, <2>2 DEF Word
<1> HIDE DEF shards
<1>4. ASSUME NEW n \in OwnNames(name), key \in ShardsOf(n)
      PROVE  \E b \in ToSet(Candidates(Parent(name))), s \in shards : key = Append(b, s)
  <2>1. PICK s \in shards : key = Append(Parent(n), s)
    BY <1>1, <1>4
  <2>2. Parent(n) \in ToSet(Candidates(Parent(name)))
    <3>1. CASE n = name
      BY <3>1, ParentCandidates
    <3>2. CASE n # name
      <4>1. PICK i \in DraftPlaces(name) : n = Renumbered(name, i, Digits[1])
        BY <1>2, <3>2
      <4>2. Parent(n) = Renumbered(Parent(name), i, Digits[1])
        BY <4>1, RenumberedParent
      <4>3. 1 \in Offered
        BY OfferedIs
      <4> QED BY <4>2, <4>3, ParentCandidates
    <3> QED BY <3>1, <3>2
  <2> QED BY <2>1, <2>2
<1>5. ASSUME NEW b \in ToSet(Candidates(Parent(name))), NEW s \in shards, key = Append(b, s)
      PROVE  \E n \in OwnNames(name) : key \in ShardsOf(n)
  <2>1. name \in OwnNames(name)
    BY OwnNamesIs
  <2>2. CASE b = Parent(name)
    BY <1>1, <1>5, <2>1, <2>2
  <2>3. ASSUME NEW i \in DraftPlaces(name), NEW j \in Offered, b = Renumbered(Parent(name), i, Digits[j])
        PROVE  \E n \in OwnNames(name) : key \in ShardsOf(n)
    <3>1. i \in 3..Len(name)-2 /\ Len(name) \in Nat /\ HiddenLayers \in Nat /\ HiddenLayers + 1 \in 1..Len(Digits)
      BY OneDraftPlace
    <3>2. i \in 1..Len(name) /\ i \in 1..Len(name)-1 /\ Len(name) > 1 /\ j \in 1..Len(Digits) /\ i <= Len(name) - 2
      BY <3>1, DigitsIs, OfferedIs
    <3>3. Digits[j] \in Word
      BY <3>2, DigitsIs
    <3>4. /\ Parent(name) \in Seq(Word) /\ Len(Parent(name)) = Len(name) - 1
          /\ \A k \in 1..Len(name)-1 : Parent(name)[k] = name[k]
      BY <3>2, ParentIs
    <3>5. /\ b \in Seq(Word) /\ Len(b) = Len(name) - 1 /\ b[i] = Digits[j]
          /\ \A k \in 1..Len(name)-1 : k # i => b[k] = name[k]
      <4> DEFINE p == Parent(name)
      <4>1. p \in Seq(Word) /\ Len(p) = Len(name) - 1 /\ i \in 1..Len(p) /\ \A k \in 1..Len(name)-1 : p[k] = name[k]
        BY <3>2, <3>4
      <4>2. b = Renumbered(p, i, Digits[j])
        BY <2>3
      <4> HIDE DEF p
      <4>3. b \in Seq(Word) /\ Len(b) = Len(p) /\ b[i] = Digits[j] /\ \A k \in 1..Len(p) : k # i => b[k] = p[k]
        BY <3>3, <4>1, <4>2, RenumberedIs, ZenonT(60)
      <4> QED BY <4>1, <4>3
    <3>6. /\ Renumbered(name, i, Digits[j])[i] = Digits[j]
          /\ \A k \in 1..Len(name) : k # i => Renumbered(name, i, Digits[j])[k] = name[k]
      BY <3>2, <3>3, RenumberedIs, ZenonT(60)
    <3>7. Len(key) = Len(name) /\ \A k \in 1..Len(name)-1 : key[k] = b[k]
      BY <1>3, <1>5, <3>1, <3>5, AppendIs
    <3>8. \A k \in 1..Len(name)-1 : key[k] = Renumbered(name, i, Digits[j])[k]
      <4> TAKE k \in 1..Len(name)-1
      <4>1. k \in 1..Len(name)
        BY <3>1
      <4> QED BY <3>5, <3>6, <3>7, <4>1
    <3>9. j = 1
      <4>1. Len(key) >= Len(name)
        BY <3>1, <3>7
      <4> QED BY <3>2, <3>8, <4>1, NumberIsZero
    <3> DEFINE n == Renumbered(name, i, Digits[1])
    <3>10. n \in OwnNames(name) /\ Parent(n) = b
      BY <2>3, <3>9, OwnNamesIs, RenumberedParent
    <3> HIDE DEF n
    <3> QED BY <1>1, <1>5, <3>10
  <2> QED BY <2>2, <2>3, ParentCandidates
<1>6. (\E b \in ToSet(Candidates(Parent(name))), s \in shards : key = Append(b, s))
        <=> \E n \in OwnNames(name) : key \in ShardsOf(n)
  BY <1>4, <1>5
<1> QED BY <1>6 DEF shards

-----------------------------------------------------------------------------
(* The weights: what the lookup finds                                      *)

(* The layers of a checkpoint: names of it, each once, with an algorithm   *)
Listing(ck) ==
  \E n \in Nat : /\ DOMAIN ck = 1..n
                 /\ \A i \in 1..n : ck[i].key \in ListedKeys /\ ck[i].algo \in ListedAlgos
                 /\ \A i, j \in 1..n : ck[i].key = ck[j].key => i = j

LEMMA ConfigIs ==
  ASSUME WeightsAssumption, RawInv, topic = "layers", raw.layers # <<>>
  PROVE  Config.config = "modelopt_mixed" /\ Config.exclude = <<>> /\ Listing(Config.layers)
<1> DEFINE L == raw.layers
           Entries == [key : LayerKeys, algo : ListedAlgos, gs : {16, 128}]
           c == FromConfig("modelopt_mixed", raw)
<1>1. /\ raw = [MixedRaw EXCEPT !.layers = L] /\ L \in Seq(Entries)
      /\ \A i, j \in DOMAIN L : L[i].key = L[j].key => i = j
  BY DEF RawInv
<1>2. /\ raw.algo = "MIXED_PRECISION" /\ raw.kv = "none" /\ raw.gs = 0 /\ raw.flat_ex = <<>>
      /\ raw.format = "flat" /\ raw.weight_only = FALSE
  BY <1>1 DEF MixedRaw
<1>3. /\ Read(raw).algo = "MIXED_PRECISION" /\ Read(raw).kv = "none" /\ Read(raw).gs = 0
      /\ Read(raw).exclude = <<>>
  BY <1>2 DEF Read
<1>4. c = Specialised("modelopt_mixed", raw, Read(raw))
  <2>1. "MIXED_PRECISION" \in QuantAlgos
    BY DEF QuantAlgos
  <2> HIDE DEF Read
  <2> QED BY <1>2, <1>3, <2>1 DEF FromConfig
<1>5. /\ DOMAIN c = {"config", "algo", "kv", "exclude", "gs", "layers"}
      /\ c.config = "modelopt_mixed" /\ c.exclude = <<>> /\ c.layers = L
  BY <1>3, <1>4 DEF Specialised
<1> HIDE DEF c
<1>6. Config = ApplyVllmMapper(c)
  BY <1>5 DEF Config, LoadedConfig, IsError, c
<1>7. SplitAll(<<>>) = <<>>
  <2> DEFINE e == [i \in DOMAIN <<>> |-> Split(<<>>[i])]
  <2>1. e = <<>> /\ Len(<<>>) = 0
    OBVIOUS
  <2>2. SplitAll(<<>>) = FlattenSeq(e)
    BY DEF SplitAll
  <2> HIDE DEF e
  <2> QED BY <2>1, <2>2 DEF FlattenSeq
<1> DEFINE M == [i \in DOMAIN L |-> [L[i] EXCEPT !.key = Mapped(@, FALSE)]]
<1>8. Config.config = "modelopt_mixed" /\ Config.exclude = <<>> /\ Config.layers = M
  <2>1. SplitAll(c.exclude) = <<>> /\ DOMAIN <<>> = {}
    BY <1>5, <1>7
  <2>2. Config = [c EXCEPT !.exclude = [i \in DOMAIN SplitAll(c.exclude) |->
                              [SplitAll(c.exclude)[i] EXCEPT !.path = Mapped(@, SplitAll(c.exclude)[i].star = "dotted")]],
                           !.layers = [i \in DOMAIN c.layers |-> [c.layers[i] EXCEPT !.key = Mapped(@, FALSE)]]]
    BY <1>6 DEF ApplyVllmMapper
  <2> DEFINE x == [i \in DOMAIN SplitAll(c.exclude) |->
                     [SplitAll(c.exclude)[i] EXCEPT !.path = Mapped(@, SplitAll(c.exclude)[i].star = "dotted")]]
             y == [i \in DOMAIN c.layers |-> [c.layers[i] EXCEPT !.key = Mapped(@, FALSE)]]
  <2>3. Config = [c EXCEPT !.exclude = x, !.layers = y]
    BY <2>2
  <2>4. x = <<>>
    BY <2>1
  <2>5. y = M
    BY <1>5
  <2> HIDE DEF x, y, M
  <2>6. Config.config = c.config /\ Config.exclude = x /\ Config.layers = y
    BY <1>5, <2>3
  <2> QED BY <1>5, <2>4, <2>5, <2>6
<1> DEFINE n == Len(L)
<1>9. n \in Nat /\ DOMAIN L = 1..n /\ \A i \in 1..n : L[i] \in Entries
  <2>1. L \in Seq(Entries)
    BY <1>1
  <2> HIDE DEF L, Entries
  <2> QED BY <2>1, LenProperties, ElementOfSeq
<1>10. DOMAIN M = 1..n /\ \A i \in 1..n : M[i].key = Mapped(L[i].key, FALSE) /\ M[i].algo = L[i].algo
  <2> HIDE DEF L, n
  <2>1. DOMAIN M = 1..n /\ \A i \in 1..n : M[i] = [L[i] EXCEPT !.key = Mapped(L[i].key, FALSE)]
    BY <1>9
  <2>2. ASSUME NEW i \in 1..n PROVE M[i].key = Mapped(L[i].key, FALSE) /\ M[i].algo = L[i].algo
    <3>1. M[i] = [L[i] EXCEPT !.key = Mapped(L[i].key, FALSE)]
      BY <2>1
    <3>2. L[i] \in Entries
      BY <1>9
    <3>3. "key" \in DOMAIN L[i] /\ "algo" \in DOMAIN L[i] /\ "key" # "algo"
      BY <3>2
    <3> HIDE DEF M, Entries
    <3> QED BY <3>1, <3>3
  <2> HIDE DEF M
  <2> QED BY <2>1, <2>2
<1>11. \A i \in 1..n : L[i].key \in LayerKeys /\ L[i].algo \in ListedAlgos
  BY <1>9
<1> HIDE DEF L, n, M
<1>12. \A i \in 1..n : M[i].key \in ListedKeys /\ M[i].algo \in ListedAlgos
  BY <1>10, <1>11 DEF ListedKeys
<1>13. \A i, j \in 1..n : M[i].key = M[j].key => i = j
  <2>1. \A k1, k2 \in LayerKeys : Mapped(k1, FALSE) = Mapped(k2, FALSE) => k1 = k2
    BY DEF WeightsAssumption, NamesAssumption
  <2> TAKE i, j \in 1..n
  <2> HAVE M[i].key = M[j].key
  <2>2. Mapped(L[i].key, FALSE) = Mapped(L[j].key, FALSE) /\ L[i].key \in LayerKeys /\ L[j].key \in LayerKeys
    BY <1>10, <1>11
  <2>3. L[i].key = L[j].key
    BY <2>1, <2>2
  <2> QED BY <1>1, <1>9, <2>3
<1> QED BY <1>8, <1>9, <1>10, <1>12, <1>13, ZenonT(60) DEF Listing

LEMMA FirstHitIs ==
  ASSUME NEW ck, NEW n \in Nat, DOMAIN ck = 1..n, NEW m \in Nat, NEW of, DOMAIN of = 1..m,
         \A i \in 1..m : of[i] \subseteq 1..n
  PROVE  \/ FirstHit(ck, of) = "none" /\ \A i \in 1..m : of[i] = {}
         \/ \E i \in 1..m : \E e \in of[i] : FirstHit(ck, of) = ck[e].algo
<1> DEFINE hits == {i \in DOMAIN of : of[i] # {}}
<1>1. FirstHit(ck, of) = IF hits = {} THEN "none" ELSE ck[Min(of[Min(hits)])].algo
  BY DEF FirstHit
<1>2. CASE hits = {}
  BY <1>1, <1>2
<1>3. CASE hits # {}
  <2>1. hits \in SUBSET Nat
    OBVIOUS
  <2>2. Min(hits) \in hits
    BY <1>3, <2>1, MinOf
  <2> DEFINE i == Min(hits)
  <2>3. i \in 1..m /\ of[i] # {} /\ of[i] \in SUBSET Nat
    <3>1. i \in hits
      BY <2>2
    <3> HIDE DEF i
    <3>2. i \in 1..m /\ of[i] # {}
      BY <3>1
    <3>3. of[i] \subseteq 1..n
      BY <3>2
    <3> QED BY <3>2, <3>3
  <2>4. FirstHit(ck, of) = ck[Min(of[i])].algo
    BY <1>1, <1>3
  <2> HIDE DEF i
  <2>5. Min(of[i]) \in of[i]
    BY <2>3, MinOf
  <2> QED BY <2>3, <2>4, <2>5
<1> QED BY <1>2, <1>3

LEMMA DirectIs ==
  ASSUME NEW ck, Listing(ck), NEW name, Candidates(name) \in Seq(Seq(Word))
  PROVE  \/ Direct(ck, name) = "none" /\ \A e \in DOMAIN ck : ck[e].key \notin ToSet(Candidates(name))
         \/ \E e \in DOMAIN ck : ck[e].key \in ToSet(Candidates(name)) /\ Direct(ck, name) = ck[e].algo
<1> DEFINE cands == Candidates(name)
           of == [i \in DOMAIN cands |-> EntriesFor(ck, {cands[i]})]
           m == Len(cands)
<1>1. PICK n \in Nat : DOMAIN ck = 1..n
  BY DEF Listing
<1>2. m \in Nat /\ DOMAIN cands = 1..m /\ ToSet(cands) = {cands[i] : i \in 1..m}
  BY ToSetIs
<1>3. Direct(ck, name) = FirstHit(ck, of)
  BY DEF Direct
<1>4. DOMAIN of = 1..m /\ \A i \in 1..m : of[i] = {e \in 1..n : ck[e].key = cands[i]}
  BY <1>1, <1>2 DEF EntriesFor
<1> HIDE DEF of, cands, m
<1>5. \/ FirstHit(ck, of) = "none" /\ \A i \in 1..m : of[i] = {}
      \/ \E i \in 1..m : \E e \in of[i] : FirstHit(ck, of) = ck[e].algo
  <2>1. \A i \in 1..m : of[i] \subseteq 1..n
    BY <1>4
  <2>2. n \in Nat /\ m \in Nat /\ DOMAIN ck = 1..n /\ DOMAIN of = 1..m
    BY <1>1, <1>2, <1>4
  <2> QED BY <2>1, <2>2, FirstHitIs
<1>6. CASE FirstHit(ck, of) = "none" /\ \A i \in 1..m : of[i] = {}
  <2>1. \A e \in 1..n : ck[e].key \notin ToSet(cands)
    BY <1>2, <1>4, <1>6, ZenonT(60)
  <2> QED BY <1>1, <1>3, <1>6, <2>1 DEF cands
<1>7. CASE \E i \in 1..m : \E e \in of[i] : FirstHit(ck, of) = ck[e].algo
  <2>1. \E e \in 1..n : ck[e].key \in ToSet(cands) /\ FirstHit(ck, of) = ck[e].algo
    BY <1>2, <1>4, <1>7
  <2> QED BY <1>1, <1>3, <2>1 DEF cands
<1> QED BY <1>5, <1>6, <1>7

LEMMA ChildrenIs ==
  ASSUME NEW ck, Listing(ck), NEW name, Candidates(name) \in Seq(Seq(Word))
  PROVE  \/ Children(ck, name) = "none" /\ \A e \in DOMAIN ck : \A c \in ToSet(Candidates(name)) : ~Under(ck[e].key, c)
         \/ \E e \in DOMAIN ck : \E c \in ToSet(Candidates(name)) :
              Under(ck[e].key, c) /\ Children(ck, name) = ck[e].algo
<1> DEFINE cands == Candidates(name)
           of == [i \in DOMAIN cands |-> {e \in DOMAIN ck : Under(ck[e].key, cands[i])}]
           m == Len(cands)
<1>1. PICK n \in Nat : DOMAIN ck = 1..n
  BY DEF Listing
<1>2. m \in Nat /\ DOMAIN cands = 1..m /\ ToSet(cands) = {cands[i] : i \in 1..m}
  BY ToSetIs
<1>3. Children(ck, name) = FirstHit(ck, of)
  BY DEF Children
<1>4. DOMAIN of = 1..m /\ \A i \in 1..m : of[i] = {e \in 1..n : Under(ck[e].key, cands[i])}
  BY <1>1, <1>2
<1> HIDE DEF of, cands, m
<1>5. \/ FirstHit(ck, of) = "none" /\ \A i \in 1..m : of[i] = {}
      \/ \E i \in 1..m : \E e \in of[i] : FirstHit(ck, of) = ck[e].algo
  <2>1. \A i \in 1..m : of[i] \subseteq 1..n
    BY <1>4
  <2> QED BY <1>1, <1>2, <1>4, <2>1, FirstHitIs
<1>6. CASE FirstHit(ck, of) = "none" /\ \A i \in 1..m : of[i] = {}
  <2>1. \A e \in 1..n : \A c \in ToSet(cands) : ~Under(ck[e].key, c)
    BY <1>2, <1>4, <1>6
  <2> QED BY <1>1, <1>3, <1>6, <2>1 DEF cands
<1>7. CASE \E i \in 1..m : \E e \in of[i] : FirstHit(ck, of) = ck[e].algo
  <2>1. \E e \in 1..n : \E c \in ToSet(cands) : Under(ck[e].key, c) /\ FirstHit(ck, of) = ck[e].algo
    BY <1>2, <1>4, <1>7, ZenonT(60)
  <2> QED BY <1>1, <1>3, <2>1 DEF cands
<1> QED BY <1>5, <1>6, <1>7

-----------------------------------------------------------------------------
(* The weights: what the entries of a layer decide                         *)

LEMMA IsOwnPrefix == ASSUME NEW s \in Seq(Word) PROVE IsPrefix(s, s)
<1>1. SubSeq(s, 1, Len(s)) = s
  OBVIOUS
<1> QED BY <1>1 DEF IsPrefix

LEMMA LayerNames ==
  ASSUME WeightsAssumption, NEW name \in Layers
  PROVE  /\ name \in Seq(Word) /\ IsLayerName(name)
         /\ Last(name) \in DOMAIN PackedModules => name \in LinearLayers /\ Last(Parent(name)) # "lm_head"
         /\ name \in LinearLayers => IsLeaf(name)
<1>1. CASE name \in LinearLayers
  <2>1. IsLayerName(name) /\ IsLeaf(name)
    BY <1>1 DEF WeightsAssumption, NamesAssumption
  <2>2. Last(name) \in DOMAIN PackedModules => Last(Parent(name)) # "lm_head"
    BY <2>1 DEF IsLeaf
  <2>3. name \in Seq(Word)
    BY <2>1, NamesAreOfWords DEF IsLayerName
  <2> QED BY <1>1, <2>1, <2>2, <2>3
<1>2. CASE name \notin LinearLayers
  <2>1. IsLayerName(name) /\ Last(name) \notin DOMAIN PackedModules
    BY <1>2 DEF Layers, WeightsAssumption, NamesAssumption
  <2>2. name \in Seq(Word)
    BY <2>1, NamesAreOfWords DEF IsLayerName
  <2> QED BY <1>2, <2>1, <2>2
<1> QED BY <1>1, <1>2

LEMMA ListingIs ==
  ASSUME WeightsAssumption, NEW ck, Listing(ck), NEW e \in DOMAIN ck
  PROVE  /\ ck[e].key \in ListedKeys /\ ck[e].key \in Seq(Word)
         /\ ck[e].algo \in ListedAlgos /\ ck[e].algo # "none" /\ ck[e].algo # "mixed"
<1>1. ck[e].key \in ListedKeys /\ ck[e].algo \in ListedAlgos
  BY DEF Listing
<1>2. ck[e].key \in Seq(Word)
  BY <1>1, ListedKeyIs
<1>3. \A a \in ListedAlgos : a \notin {"none", "mixed"}
  BY DEF WeightsAssumption, NamesAssumption
<1> QED BY <1>1, <1>2, <1>3

(* What is found at a candidate, or below one, is the layer's own.         *)
LEMMA DirectIsOwn ==
  ASSUME WeightsAssumption, OneDraftLayer, NEW ck, Listing(ck), NEW name \in Layers,
         Direct(ck, name) # "none"
  PROVE  \E e \in DOMAIN ck : /\ Direct(ck, name) = ck[e].algo
                              /\ ck[e].key \in OwnNames(name) /\ IsPrefix(ck[e].key, ck[e].key)
<1>1. name \in Seq(Word) /\ IsLayerName(name)
  BY LayerNames
<1>2. Candidates(name) \in Seq(Seq(Word))
  BY <1>1, CandidatesIs
<1>3. PICK e \in DOMAIN ck : ck[e].key \in ToSet(Candidates(name)) /\ Direct(ck, name) = ck[e].algo
  BY <1>2, DirectIs
<1>4. ck[e].key \in ListedKeys /\ IsPrefix(ck[e].key, ck[e].key)
  BY ListingIs, IsOwnPrefix
<1>5. ck[e].key \in OwnNames(name)
  BY <1>1, <1>3, <1>4, CandidatesAreOwn
<1> QED BY <1>3, <1>4, <1>5

LEMMA ChildrenAreOwn ==
  ASSUME WeightsAssumption, OneDraftLayer, NEW ck, Listing(ck), NEW name \in Layers,
         Children(ck, name) # "none"
  PROVE  \E e \in DOMAIN ck : /\ Children(ck, name) = ck[e].algo
                              /\ \E c \in OwnNames(name) : IsPrefix(c, ck[e].key)
<1>1. name \in Seq(Word) /\ IsLayerName(name)
  BY LayerNames
<1>2. Candidates(name) \in Seq(Seq(Word))
  BY <1>1, CandidatesIs
<1>3. PICK e \in DOMAIN ck : \E c \in ToSet(Candidates(name)) :
             Under(ck[e].key, c) /\ Children(ck, name) = ck[e].algo
  BY <1>2, ChildrenIs
<1>4. PICK c \in ToSet(Candidates(name)) : Under(ck[e].key, c) /\ Children(ck, name) = ck[e].algo
  BY <1>3
<1>5. IsPrefix(c, ck[e].key)
  BY <1>4 DEF Under, IsStrictPrefix
<1>6. c \in OwnNames(name)
  BY <1>1, <1>5, ListingIs, CandidatesAreOwn
<1> QED BY <1>4, <1>5, <1>6

(* The entries that decide for a fused layer are those of its shards.      *)
ShardEntries(ck, name) == {e \in DOMAIN ck : \E n \in OwnNames(name) : ck[e].key \in ShardsOf(n)}

LEMMA PackedIs ==
  ASSUME WeightsAssumption, OneDraftLayer, NEW ck, Listing(ck), NEW name \in Layers
  PROVE  /\ Packed(ck, name) = OnlyOne(AlgosOf(ck, ShardEntries(ck, name)))
         /\ Last(name) \notin DOMAIN PackedModules => ShardEntries(ck, name) = {}
<1>1. name \in Seq(Word) /\ IsLayerName(name)
  BY LayerNames
<1>2. CASE Last(name) \notin DOMAIN PackedModules
  <2>1. \A n \in OwnNames(name) : ShardsOf(n) = {}
    BY <1>1, <1>2, OwnLast DEF ShardsOf
  <2>2. ShardEntries(ck, name) = {}
    BY <2>1 DEF ShardEntries
  <2>3. OnlyOne(AlgosOf(ck, {})) = "none"
    BY DEF OnlyOne, AlgosOf
  <2> QED BY <1>2, <2>2, <2>3 DEF Packed
<1>3. CASE Last(name) \in DOMAIN PackedModules
  <2> DEFINE shards == PackedModules[Last(name)]
             keys == {Append(b, s) : b \in ToSet(Candidates(Parent(name))), s \in ToSet(shards)}
  <2>1. ASSUME NEW e \in DOMAIN ck
        PROVE  ck[e].key \in keys <=> \E n \in OwnNames(name) : ck[e].key \in ShardsOf(n)
    <3>1. ck[e].key \in ListedKeys /\ Last(Parent(name)) # "lm_head"
      BY <1>3, ListingIs, LayerNames
    <3> QED BY <1>1, <1>3, <3>1, FusedKeys
  <2>2. EntriesFor(ck, keys) = ShardEntries(ck, name)
    BY <2>1 DEF EntriesFor, ShardEntries
  <2>3. Packed(ck, name) = OnlyOne(AlgosOf(ck, EntriesFor(ck, keys)))
    BY <1>3 DEF Packed
  <2> QED BY <1>3, <2>2, <2>3
<1> QED BY <1>2, <1>3

LEMMA ResolvesTo ==
  ASSUME NEW ck, NEW name, NEW a, a # "none",
         Direct(ck, name) \in {"none", a}, Packed(ck, name) \in {"none", a}, Children(ck, name) \in {"none", a},
         ~(Direct(ck, name) = "none" /\ Packed(ck, name) = "none" /\ Children(ck, name) = "none")
  PROVE  ResolveQuantAlgo(ck, name) = a
<1> DEFINE tries == <<Direct(ck, name), Packed(ck, name), Children(ck, name),
                      Siblings(ck, name), Unnamed(ck, name)>>
           found == {i \in DOMAIN tries : tries[i] # "none"}
<1>1. DOMAIN tries = 1..5
  OBVIOUS
<1>2. tries[1] = Direct(ck, name) /\ tries[2] = Packed(ck, name) /\ tries[3] = Children(ck, name)
  OBVIOUS
<1>3. ResolveQuantAlgo(ck, name) = IF found = {} THEN "none" ELSE tries[Min(found)]
  BY DEF ResolveQuantAlgo
<1> HIDE DEF tries
<1>4. found \in SUBSET Nat /\ \E i \in found : i \in 1..3
  BY <1>1, <1>2
<1>5. Min(found) \in found /\ Min(found) \in 1..3
  <2>1. Min(found) \in found /\ \A y \in found : Min(found) <= y
    BY <1>4, MinOf
  <2>2. 0 \notin found
    BY <1>1
  <2> HIDE DEF found
  <2>3. \A k : k \in found /\ (\A y \in found : k <= y) => k \in 1..3
    BY <1>4, <2>2
  <2> QED BY <2>1, <2>3
<1>6. tries[Min(found)] # "none"
  BY <1>5
<1>7. \A i \in 1..3 : tries[i] \in {"none", a}
  <2>1. \A i \in 1..3 : i = 1 \/ i = 2 \/ i = 3
    OBVIOUS
  <2> QED BY <1>2, <2>1
<1> HIDE DEF found
<1> QED BY <1>3, <1>4, <1>5, <1>6, <1>7

LEMMA OnlyOneIs ==
  ASSUME NEW algos, NEW a, algos \subseteq {a}
  PROVE  OnlyOne(algos) = IF algos = {} THEN "none" ELSE a
<1>1. CASE algos = {}
  BY <1>1 DEF OnlyOne
<1>2. CASE algos = {a}
  <2>1. Cardinality(algos) = 1
    BY <1>2, FS_Singleton
  <2> QED BY <1>2, <2>1 DEF OnlyOne
<1> QED BY <1>1, <1>2

LEMMA OwnEntryDecidesAt ==
  ASSUME WeightsAssumption, OneDraftLayer, NEW ck, Listing(ck), NEW name \in Layers,
         Cardinality(AlgosOf(ck, OwnEntries(ck, name))) = 1
  PROVE  ResolveQuantAlgo(ck, name) \in AlgosOf(ck, OwnEntries(ck, name))
<1> DEFINE own == OwnEntries(ck, name)
           algos == AlgosOf(ck, own)
<1>1. name \in Seq(Word) /\ IsLayerName(name)
  BY LayerNames
<1>2. \A e : e \in own <=> /\ e \in DOMAIN ck
                           /\ \E n \in OwnNames(name) : IsPrefix(n, ck[e].key) \/ ck[e].key \in ShardsOf(n)
  BY DEF OwnEntries, IsOwn
<1>3. \E a : algos = {a}
  <2>1. own \subseteq DOMAIN ck /\ IsFiniteSet(own)
    <3>1. PICK n \in Nat : DOMAIN ck = 1..n
      BY DEF Listing
    <3>2. own \subseteq 1..n
      BY <1>2, <3>1
    <3>3. 1 \in Int /\ n \in Int
      OBVIOUS
    <3>4. IsFiniteSet(1..n)
      BY <3>3, FS_Interval
    <3> QED BY <3>1, <3>2, <3>4, FS_Subset
  <2> DEFINE F(e) == ck[e].algo
  <2>2. algos = {F(e) : e \in own}
    BY DEF AlgosOf
  <2> HIDE DEF own, algos
  <2>3. IsFiniteSet(algos)
    <3> DEFINE f == [e \in own |-> F(e)]
    <3>1. algos = {f[e] : e \in own}
      BY <2>2
    <3>2. f \in Surjection(own, algos)
      BY <3>1 DEF Surjection
    <3> QED BY <2>1, <3>2, FS_Surjection
  <2>4. Cardinality(algos) = 1
    BY DEF own, algos
  <2> QED BY <2>3, <2>4, FS_Singleton
<1>4. PICK a : algos = {a}
  BY <1>3
<1>5. \A e \in own : ck[e].algo = a
  BY <1>4 DEF AlgosOf
<1>6. PICK e \in own : ck[e].algo = a
  <2>1. a \in algos
    BY <1>4
  <2> QED BY <2>1 DEF AlgosOf
<1> HIDE DEF own, algos
<1>7. a # "none"
  BY <1>2, <1>6, ListingIs
<1>8. Direct(ck, name) \in {"none", a}
  BY <1>2, <1>5, DirectIsOwn
<1>9. Children(ck, name) \in {"none", a}
  BY <1>2, <1>5, ChildrenAreOwn
<1> DEFINE shards == ShardEntries(ck, name)
<1>10. shards \subseteq own
  BY <1>2 DEF ShardEntries
<1>11. AlgosOf(ck, shards) \subseteq {a}
  BY <1>5, <1>10 DEF AlgosOf
<1>12. Packed(ck, name) = IF AlgosOf(ck, shards) = {} THEN "none" ELSE a
  <2> DEFINE X == AlgosOf(ck, shards)
  <2>1. Packed(ck, name) = OnlyOne(X)
    BY PackedIs
  <2> HIDE DEF X, shards
  <2>2. X \subseteq {a}
    BY <1>11 DEF X
  <2>3. Packed(ck, name) = IF X = {} THEN "none" ELSE a
    BY <2>1, <2>2, OnlyOneIs
  <2> QED BY <2>3 DEF X
<1>13. ~(Direct(ck, name) = "none" /\ Packed(ck, name) = "none" /\ Children(ck, name) = "none")
  <2>1. PICK n \in OwnNames(name) : IsPrefix(n, ck[e].key) \/ ck[e].key \in ShardsOf(n)
    BY <1>2, <1>6
  <2>2. e \in DOMAIN ck /\ n \in ToSet(Candidates(name))
    BY <1>1, <1>2, <1>6, CandidatesAreOwn
  <2>3. Candidates(name) \in Seq(Seq(Word))
    BY <1>1, CandidatesIs
  <2>4. CASE n = ck[e].key
    <3>1. Direct(ck, name) # "none"
      <4>1. ASSUME NEW e2 \in DOMAIN ck PROVE ck[e2].algo # "none"
        BY ListingIs
      <4> QED BY <2>2, <2>3, <2>4, <4>1, DirectIs
    <3> QED BY <3>1
  <2>5. CASE IsPrefix(n, ck[e].key) /\ n # ck[e].key
    <3>1. Under(ck[e].key, n)
      BY <2>5 DEF Under, IsStrictPrefix
    <3>2. Children(ck, name) # "none"
      <4>1. ASSUME NEW e2 \in DOMAIN ck PROVE ck[e2].algo # "none"
        BY ListingIs
      <4> QED BY <2>2, <2>3, <3>1, <4>1, ChildrenIs
    <3> QED BY <3>2
  <2>6. CASE ck[e].key \in ShardsOf(n)
    <3>1. e \in shards
      BY <2>2, <2>6 DEF ShardEntries
    <3>2. AlgosOf(ck, shards) # {}
      BY <3>1 DEF AlgosOf
    <3> QED BY <1>7, <1>12, <3>2
  <2> QED BY <2>1, <2>4, <2>5, <2>6
<1>14. ResolveQuantAlgo(ck, name) = a
  BY <1>7, <1>8, <1>9, <1>12, <1>13, ResolvesTo
<1> QED BY <1>4, <1>14 DEF own, algos

(* Whatever the checkpoint lists, with any names that are told apart and   *)
(* draft layers numbered from 0, a layer whose own entries agree gets      *)
(* their algorithm.  With a second draft layer it does not: see            *)
(* DraftLayersKeepTheirs.                                                  *)
THEOREM OwnEntryDecidesHolds ==
  ASSUME WeightsAssumption, OneDraftLayer
  PROVE  SpecWeights => []OwnEntryDecides
<1>1. RawInv => OwnEntryDecides
  <2> SUFFICES ASSUME RawInv, topic = "layers", raw.layers # <<>>, NEW name \in Layers,
                      Cardinality(AlgosOf(Config.layers, OwnEntries(Config.layers, name))) = 1
               PROVE  ResolveQuantAlgo(Config.layers, name) \in AlgosOf(Config.layers, OwnEntries(Config.layers, name))
    BY DEF OwnEntryDecides
  <2>1. Listing(Config.layers)
    BY ConfigIs
  <2> QED BY <2>1, OwnEntryDecidesAt
<1> QED BY <1>1, RawInvHolds, PTL

LEMMA DisagreementIsMixed ==
  ASSUME WeightsAssumption, OneDraftLayer, NEW ck, Listing(ck), NEW name \in LinearLayers,
         Cardinality(AlgosOf(ck, OwnEntries(ck, name))) > 1
  PROVE  ResolveQuantAlgo(ck, name) = "mixed"
<1> DEFINE own == OwnEntries(ck, name)
           algos == AlgosOf(ck, own)
           under(key) == \E n \in OwnNames(name) : IsPrefix(n, key)
<1>1. name \in Layers /\ name \in Seq(Word) /\ IsLayerName(name) /\ IsLeaf(name)
  BY LayerNames DEF Layers
<1>2. own = {e \in DOMAIN ck : under(ck[e].key)} \cup ShardEntries(ck, name)
  BY DEF OwnEntries, IsOwn, ShardEntries
<1>3. /\ \A k1, k2 \in ListedKeys : under(k1) /\ under(k2) => k1 = k2
      /\ Last(name) \in DOMAIN PackedModules => ~\E key \in ListedKeys : under(key)
  BY <1>1 DEF IsLeaf
<1> HIDE DEF under
<1>4. \A e \in DOMAIN ck : ck[e].key \in ListedKeys
  BY ListingIs
<1>5. Last(name) \in DOMAIN PackedModules
  <2> SUFFICES ASSUME Last(name) \notin DOMAIN PackedModules PROVE FALSE
    OBVIOUS
  <2>1. own = {e \in DOMAIN ck : under(ck[e].key)}
    BY <1>1, <1>2, PackedIs
  <2>2. \A e1, e2 \in own : e1 = e2
    <3>1. \A e1, e2 \in DOMAIN ck : ck[e1].key = ck[e2].key => e1 = e2
      BY DEF Listing
    <3> HIDE DEF own
    <3> QED BY <1>3, <1>4, <2>1, <3>1
  <2>3. own = {} \/ \E e : own = {e}
    <3> HIDE DEF own
    <3> QED BY <2>2
  <2>4. algos = {} \/ \E x : algos = {x}
    <3> HIDE DEF own
    <3>1. CASE own = {}
      BY <3>1 DEF AlgosOf
    <3>2. ASSUME NEW e, own = {e} PROVE algos = {ck[e].algo}
      BY <3>2 DEF AlgosOf
    <3> QED BY <2>3, <3>1, <3>2
  <2>5. Cardinality(algos) = 0 \/ Cardinality(algos) = 1
    <3> HIDE DEF algos
    <3> QED BY <2>4, FS_EmptySet, FS_Singleton
  <2> QED BY <2>5
<1>6. own = ShardEntries(ck, name)
  BY <1>2, <1>3, <1>4, <1>5
<1>7. Direct(ck, name) = "none"
  <2> SUFFICES ASSUME Direct(ck, name) # "none" PROVE FALSE
    OBVIOUS
  <2>1. PICK e \in DOMAIN ck : ck[e].key \in OwnNames(name) /\ IsPrefix(ck[e].key, ck[e].key)
    BY <1>1, DirectIsOwn
  <2>2. under(ck[e].key)
    BY <2>1 DEF under
  <2> QED BY <1>3, <1>4, <1>5, <2>2
<1>8. Packed(ck, name) = "mixed"
  <2>1. Packed(ck, name) = OnlyOne(algos)
    BY <1>1, <1>6, PackedIs
  <2>2. algos # {} /\ Cardinality(algos) # 1
    <3> HIDE DEF own
    <3>1. Cardinality(algos) > 1
      BY DEF own
    <3> HIDE DEF algos
    <3> QED BY <3>1, FS_EmptySet
  <2> HIDE DEF algos
  <2> QED BY <2>1, <2>2 DEF OnlyOne
<1> DEFINE tries == <<Direct(ck, name), Packed(ck, name), Children(ck, name),
                      Siblings(ck, name), Unnamed(ck, name)>>
           found == {i \in DOMAIN tries : tries[i] # "none"}
<1>9. DOMAIN tries = 1..5 /\ tries[1] = "none" /\ tries[2] = "mixed"
  BY <1>7, <1>8
<1>10. ResolveQuantAlgo(ck, name) = IF found = {} THEN "none" ELSE tries[Min(found)]
  BY DEF ResolveQuantAlgo
<1> HIDE DEF tries
<1>11. found \in SUBSET Nat /\ 2 \in found /\ 1 \notin found /\ 0 \notin found
  BY <1>9
<1>12. Min(found) = 2
  <2>1. Min(found) \in found /\ \A y \in found : Min(found) <= y
    BY <1>11, MinOf
  <2> HIDE DEF found
  <2>2. \A k : k \in found /\ (\A y \in found : k <= y) => k = 2
    BY <1>11
  <2> QED BY <2>1, <2>2
<1> HIDE DEF found
<1> QED BY <1>9, <1>10, <1>11, <1>12

(* However the checkpoint lists the shards of a fused projection, a layer  *)
(* whose shards have different algorithms is refused.                      *)
THEOREM DisagreementIsRefusedHolds ==
  ASSUME WeightsAssumption, OneDraftLayer
  PROVE  SpecWeights => []DisagreementIsRefused
<1>1. RawInv => DisagreementIsRefused
  <2> SUFFICES ASSUME RawInv, topic = "layers", raw.layers # <<>>, NEW name \in LinearLayers,
                      Cardinality(AlgosOf(Config.layers, OwnEntries(Config.layers, name))) > 1
               PROVE  GetQuantMethod(Config, "linear", name).method = "error"
    BY DEF DisagreementIsRefused
  <2>1. Config.config = "modelopt_mixed" /\ Config.exclude = <<>> /\ Listing(Config.layers)
    BY ConfigIs
  <2>2. ResolveQuantAlgo(Config.layers, name) = "mixed"
    BY <2>1, DisagreementIsMixed
  <2>3. ~IsLayerExcluded(Config.exclude, name)
    BY <2>1 DEF IsLayerExcluded
  <2>4. MethodOfMixed(Config, "linear", name) = Plain("error")
    BY <2>2, <2>3 DEF MethodOfMixed
  <2> QED BY <2>1, <2>4 DEF GetQuantMethod, Plain
<1> QED BY <1>1, RawInvHolds, PTL

-----------------------------------------------------------------------------
(* The weights: the rows of a linear layer and the scales they have        *)

SumOnShards == \A f, S : Linear!SumFunctionOnSet(f, S) = SumFunctionOnSet(f, S)

LEMMA SumOnShardsIs == SumOnShards
  BY DEF SumOnShards, SumFunctionOnSet, Linear!SumFunctionOnSet, FoldFunctionOnSet, Linear!FoldFunctionOnSet,
         MapThenFoldSet, Linear!MapThenFoldSet

(* What does not change while a layer is loaded                            *)
CheckpointFacts ==
  /\ algo \in LinearAlgos /\ widths \in Widths /\ bias \in Biases /\ disk \in {"split", "fused"}
  /\ ckScale \in [Linear!Shards -> Scales]
  /\ Linear!HasInputScale => ckInput \in [Linear!Shards -> Scales]
  /\ Linear!BlocksFit

LEMMA ShardsAre ==
  ASSUME WeightsAssumption, CheckpointFacts
  PROVE  /\ Len(widths) \in Nat \ {0} /\ Linear!Shards = 1..Len(widths)
         /\ \A s \in 1..Len(widths) : Linear!Width(1..s) \in Nat
         /\ Linear!Width(Linear!Shards) \in Nat \ {0}
         /\ Linear!Rows = 1..Linear!Width(Linear!Shards)
<1> DEFINE n == Len(widths)
<1>1. widths \in Seq(Nat \ {0}) /\ widths # <<>>
  BY DEF CheckpointFacts, WeightsAssumption, Linear!LinearAssumption
<1>2. n \in Nat \ {0} /\ Linear!Shards = 1..n /\ \A s \in 1..n : widths[s] \in Nat \ {0}
  BY <1>1 DEF Linear!Shards
<1> HIDE DEF n
<1>3. ASSUME NEW s \in 1..n PROVE Linear!Width(1..s) \in Nat /\ Linear!Width(1..s) > 0
  <2>1. 1 \in Int /\ s \in Int
    BY <1>2
  <2>2. IsFiniteSet(1..s)
    BY <2>1, FS_Interval
  <2>3. \A y \in 1..s : widths[y] \in Int /\ widths[y] > 0
    BY <1>2
  <2> DEFINE S == 1..s
  <2>4. S # {}
    <3>1. 1 \in S
      BY <1>2, <2>1
    <3> QED BY <3>1
  <2> HIDE DEF S
  <2>5. SumFunctionOnSet(widths, S) \in Nat /\ SumFunctionOnSet(widths, S) > 0
    BY <2>2, <2>3, <2>4, SumPositive DEF S
  <2> QED BY <2>5, SumOnShardsIs DEF Linear!Width, SumOnShards, S
<1>4. Linear!Width(Linear!Shards) \in Nat \ {0}
  BY <1>2, <1>3
<1> QED BY <1>2, <1>3, <1>4 DEF Linear!Rows, n

LEMMA ShardOfIs ==
  ASSUME WeightsAssumption, CheckpointFacts, NEW r \in Linear!Rows
  PROVE  /\ Linear!ShardOf(r) \in Linear!Shards /\ r <= Linear!Width(1..Linear!ShardOf(r)) /\ r \in Nat \ {0}
         /\ \A s \in Linear!Shards : s < Linear!ShardOf(r) => r > Linear!Width(1..s)
<1> DEFINE S == {s \in Linear!Shards : r <= Linear!Width(1..s)}
           n == Len(widths)
<1>1. n \in Nat \ {0} /\ Linear!Shards = 1..n /\ r \in Nat \ {0} /\ r <= Linear!Width(1..n)
  BY ShardsAre
<1>2. S \in SUBSET Nat /\ n \in S
  BY <1>1
<1>3. Linear!ShardOf(r) = Min(S)
  BY DEF Linear!ShardOf, Linear!Min, Min
<1> HIDE DEF n
<1>4. Min(S) \in S /\ \A y \in S : Min(S) <= y
  BY <1>2, MinOf
<1>5. \A s \in Linear!Shards : s < Min(S) => ~(r <= Linear!Width(1..s))
  <2> TAKE s \in Linear!Shards
  <2> HAVE s < Min(S)
  <2>1. s \notin S
    <3>1. s \in Nat
      BY <1>1
    <3> HIDE DEF S
    <3> DEFINE m == Min(S)
    <3>2. m \in Nat
      BY <1>2, <1>4
    <3>3. \A y \in S : m <= y
      BY <1>4
    <3>4. s < m
      OBVIOUS
    <3> HIDE DEF m
    <3> QED BY <3>1, <3>2, <3>3, <3>4
  <2> QED BY <2>1
<1>6. \A s \in Linear!Shards : Linear!Width(1..s) \in Nat
  BY <1>1, ShardsAre DEF n
<1> QED BY <1>1, <1>3, <1>4, <1>5, <1>6

(* The place of the scale of a row, and the scale it has in the checkpoint *)
BlockOf(r) == (r + Block - 1) \div Block
Place(r) == IF Linear!WeightKey = "block" THEN BlockOf(r) ELSE r
ScaleOf(r) == IF Linear!WeightKey = "nvfp4" THEN 2 ELSE Linear!DiskScale(Linear!ShardOf(r))

LEMMA ScalesAre ==
  ASSUME WeightsAssumption, CheckpointFacts
  PROVE  /\ \A s \in Linear!Shards : ckScale[s] \in {1, 2, 4} /\ Linear!DiskScale(s) \in {1, 2, 4}
         /\ 1 \in Linear!Shards
         /\ \A r \in Linear!Rows : ScaleOf(r) \in {1, 2, 4}
<1>1. ckScale \in [Linear!Shards -> {1, 2, 4}]
  BY DEF CheckpointFacts, WeightsAssumption, Linear!LinearAssumption
<1>2. 1 \in Linear!Shards
  BY ShardsAre
<1>3. \A s \in Linear!Shards : Linear!DiskScale(s) \in {1, 2, 4}
  BY <1>1, <1>2 DEF Linear!DiskScale
<1>4. \A r \in Linear!Rows : ScaleOf(r) \in {1, 2, 4}
  BY <1>3, ShardOfIs DEF ScaleOf
<1> QED BY <1>1, <1>2, <1>3, <1>4

(* Rows of a block of scales are of one shard.                             *)
LEMMA BlocksAreOfShards ==
  ASSUME WeightsAssumption, CheckpointFacts, Linear!WeightKey = "block",
         NEW r1 \in Linear!Rows, NEW r2 \in Linear!Rows, BlockOf(r1) = BlockOf(r2)
  PROVE  Linear!ShardOf(r1) = Linear!ShardOf(r2)
<1>1. Block \in Nat \ {0}
  BY DEF WeightsAssumption, Linear!LinearAssumption
<1>2. ASSUME NEW a \in Linear!Rows, NEW b \in Linear!Rows, Linear!ShardOf(a) < Linear!ShardOf(b)
      PROVE  BlockOf(a) # BlockOf(b)
  <2> DEFINE s == Linear!ShardOf(a)
             t == Linear!ShardOf(b)
             w == Linear!Width(1..s)
             n == Len(widths)
  <2>1. s \in 1..n /\ t \in 1..n /\ n \in Nat /\ s < t /\ Linear!Shards = 1..n
    BY <1>2, ShardOfIs, ShardsAre
  <2>2. w \in Nat /\ a \in Nat /\ b \in Nat /\ a <= w /\ b > w
    BY <1>2, <2>1, ShardOfIs, ShardsAre
  <2>3. w % Block = 0
    <3>1. s \in Linear!Shards \ {n}
      BY <2>1
    <3> HIDE DEF s, n
    <3>2. \A x \in Linear!Shards \ {n} : Linear!Width(1..x) % Block = 0
      BY DEF CheckpointFacts, Linear!BlocksFit, n
    <3> QED BY <3>1, <3>2
  <2> HIDE DEF s, t, w, n
  <2> DEFINE k == w \div Block
  <2>4. k \in Int /\ w = k * Block
    BY <1>1, <2>2, <2>3
  <2>5. BlockOf(a) \in Int /\ BlockOf(a) * Block <= a + Block - 1
    <3>1. a + Block - 1 \in Int
      BY <1>1, <2>2
    <3> QED BY <1>1, <3>1, DivideBounds DEF BlockOf
  <2>6. BlockOf(b) \in Int /\ b + Block - 1 < BlockOf(b) * Block + Block
    <3>1. b + Block - 1 \in Int
      BY <1>1, <2>2
    <3> QED BY <1>1, <3>1, DivideBounds DEF BlockOf
  <2> HIDE DEF k
  <2> DEFINE x == BlockOf(a)
             y == BlockOf(b)
  <2>7. x \in Int /\ y \in Int /\ x * Block <= w + Block - 1 /\ w < y * Block
    <3>1. x * Block \in Int /\ y * Block \in Int
      BY <1>1, <2>5, <2>6
    <3> QED BY <1>1, <2>2, <2>5, <2>6, <3>1
  <2> HIDE DEF x, y
  <2>8. x # y
    <3> SUFFICES ASSUME x = y PROVE FALSE
      OBVIOUS
    <3>1. k * Block < x * Block /\ x * Block < k * Block + Block
      BY <1>1, <2>2, <2>4, <2>7
    <3>2. (x - k) * Block = x * Block - k * Block /\ x * Block \in Int /\ k * Block \in Int
      BY <1>1, <2>4, <2>7
    <3>3. (x - k) * Block > 0 /\ (x - k) * Block < Block /\ x - k \in Int
      BY <1>1, <2>4, <2>7, <3>1, <3>2
    <3> DEFINE z == x - k
    <3>4. z \in Int /\ z * Block > 0 /\ z * Block < Block
      BY <3>3
    <3> HIDE DEF z
    <3>5. z > 0
      BY <1>1, <3>4
    <3>6. z * Block >= Block
      BY <1>1, <3>4, <3>5
    <3> QED BY <1>1, <3>4, <3>6
  <2> QED BY <2>8 DEF x, y
<1>3. Linear!ShardOf(r1) \in Nat /\ Linear!ShardOf(r2) \in Nat
  BY ShardOfIs, ShardsAre
<1>4. ~(Linear!ShardOf(r1) < Linear!ShardOf(r2)) /\ ~(Linear!ShardOf(r2) < Linear!ShardOf(r1))
  BY <1>2
<1> QED BY <1>3, <1>4

LEMMA OverIs ==
  ASSUME NEW f, NEW g
  PROVE  /\ DOMAIN Linear!Over(f, g) = DOMAIN f \cup DOMAIN g
         /\ \A x \in DOMAIN f : Linear!Over(f, g)[x] = f[x]
         /\ \A x \in DOMAIN g : x \notin DOMAIN f => Linear!Over(f, g)[x] = g[x]
  BY DEF Linear!Over

(* The largest of the scales of the shards                                 *)
LEMMA MaxOfScales ==
  ASSUME NEW v, DOMAIN v # {}, \A s \in DOMAIN v : v[s] \in {0, 1, 2, 4}
  PROVE  /\ Linear!MaxOf(v) \in {0, 1, 2, 4}
         /\ \E s \in DOMAIN v : v[s] = Linear!MaxOf(v)
         /\ \A s \in DOMAIN v : v[s] <= Linear!MaxOf(v)
<1> DEFINE S == {v[s] : s \in DOMAIN v}
<1>1. Linear!MaxOf(v) = CHOOSE x \in S : \A y \in S : x >= y
  BY DEF Linear!MaxOf, Linear!Max, Linear!Range
<1>2. S # {} /\ S \subseteq {0, 1, 2, 4}
  OBVIOUS
<1> HIDE DEF S
<1>3. \E x \in S : \A y \in S : x >= y
  <2>1. CASE 4 \in S
    BY <1>2, <2>1
  <2>2. CASE 4 \notin S /\ 2 \in S
    BY <1>2, <2>2
  <2>3. CASE 4 \notin S /\ 2 \notin S /\ 1 \in S
    BY <1>2, <2>3
  <2>4. CASE 4 \notin S /\ 2 \notin S /\ 1 \notin S
    <3>1. \A y \in S : y = 0
      BY <1>2, <2>4
    <3>2. PICK x \in S : x = 0
      BY <1>2, <3>1
    <3>3. \A y \in S : x >= y
      BY <3>1, <3>2
    <3> QED BY <3>3
  <2> QED BY <2>1, <2>2, <2>3, <2>4
<1>4. Linear!MaxOf(v) \in S /\ \A y \in S : Linear!MaxOf(v) >= y
  BY <1>1, <1>3
<1>5. Linear!MaxOf(v) \in {0, 1, 2, 4}
  BY <1>2, <1>4
<1> QED BY <1>2, <1>4, <1>5 DEF S

-----------------------------------------------------------------------------
(* The weights: the parameters of a linear layer while it is loaded        *)

LEMMA AlgosAre ==
  ASSUME CheckpointFacts
  PROVE  /\ algo \in {"FP8", "FP8_PER_CHANNEL_PER_TOKEN", "FP8_PB_WO", "NVFP4", "W4A16_NVFP4", "MXFP8"}
         /\ algo = "FP8" => Linear!WeightKey = "tensor" /\ Linear!ActivationKey = "static"
         /\ algo = "FP8_PER_CHANNEL_PER_TOKEN" => Linear!WeightKey = "channel" /\ Linear!ActivationKey = "dynamic"
         /\ algo = "FP8_PB_WO" => Linear!WeightKey = "block" /\ Linear!ActivationKey = "dynamic"
         /\ algo = "MXFP8" => Linear!WeightKey = "mxfp8" /\ Linear!ActivationKey = "dynamic"
         /\ algo = "NVFP4" => Linear!WeightKey = "nvfp4" /\ Linear!ActivationKey = "nvfp4"
         /\ algo = "W4A16_NVFP4" => Linear!WeightKey = "nvfp4" /\ Linear!ActivationKey = "none"
<1>1. algo \in {"FP8", "FP8_PER_CHANNEL_PER_TOKEN", "FP8_PB_WO", "NVFP4", "W4A16_NVFP4", "MXFP8"}
  BY DEF CheckpointFacts, LinearAlgos, Owner
<1> QED BY <1>1 DEF Linear!WeightKey, Linear!ActivationKey

CreatedNames ==
  {"weight", "weight_scale"} \cup (IF Linear!WeightKey = "nvfp4" THEN {"weight_scale_2"} ELSE {})
    \cup (IF algo \in {"FP8", "NVFP4", "W4A16_NVFP4"} THEN {"input_scale"} ELSE {})

(* One scale for each shard: those that were loaded, and none else where   *)
(* there is a sentinel.                                                    *)
IsPut(s, L) == s \in L /\ (disk = "fused" => s = 1)
ShardScales(v, ck, L, sentinel) ==
  /\ DOMAIN v = Linear!Shards
  /\ \A s \in Linear!Shards : IsPut(s, L) => v[s] = ck[s]
  /\ sentinel => \A s \in Linear!Shards : ~IsPut(s, L) => v[s] = 0

WeightIs(w, L) ==
  /\ DOMAIN w = {"rows", "layout", "exact"} /\ w["layout"] = "out_in" /\ w["exact"] = FALSE
  /\ DOMAIN w["rows"] = Linear!Rows /\ w["rows"] = [r \in Linear!Rows |-> w["rows"][r]]
  /\ \A r \in Linear!Rows : Linear!ShardOf(r) \in L => w["rows"][r] = Linear!Code(r)

RowScales(v, L) ==
  \A r \in Linear!Rows : Linear!ShardOf(r) \in L => Place(r) \in DOMAIN v /\ v[Place(r)] = ScaleOf(r)

CreatedOf(p, L) ==
  /\ DOMAIN p = CreatedNames
  /\ WeightIs(p["weight"], L)
  /\ Linear!WeightKey = "tensor" => ShardScales(p["weight_scale"], ckScale, L, TRUE)
  /\ Linear!WeightKey # "tensor" => RowScales(p["weight_scale"], L)
  /\ Linear!WeightKey = "nvfp4" => ShardScales(p["weight_scale_2"], ckScale, L, FALSE)
  /\ algo = "FP8" => ShardScales(p["input_scale"], ckInput, L, TRUE)
  /\ algo = "NVFP4" => ShardScales(p["input_scale"], ckInput, L, FALSE)

LEMMA NewScales ==
  /\ ShardScales(Linear!PerShard(0), ckScale, {}, TRUE) /\ ShardScales(Linear!PerShard(0), ckInput, {}, TRUE)
  /\ \A g : ShardScales(Linear!PerShard(g), ckScale, {}, FALSE) /\ ShardScales(Linear!PerShard(g), ckInput, {}, FALSE)
  BY DEF ShardScales, IsPut, Linear!PerShard

LEMMA NewWeight ==
  ASSUME NEW g PROVE DOMAIN Linear!Weight(g) = {"weight"} /\ WeightIs(Linear!Weight(g)["weight"], {})
  BY DEF WeightIs, Linear!Weight, Linear!PerRow

LEMMA CreatesThem ==
  ASSUME CheckpointFacts, NEW g
  PROVE  CreatedOf(Linear!Over(Linear!Over(Linear!WeightParams(g), Linear!ActivationParams(g)), Linear!ExtraWeights), {})
<1> DEFINE W == Linear!WeightParams(g)
           A == Linear!ActivationParams(g)
           E == Linear!ExtraWeights
           p == Linear!Over(Linear!Over(W, A), E)
<1>1. \A v : RowScales(v, {})
  BY DEF RowScales
<1>2. /\ DOMAIN W = {"weight", "weight_scale"} \cup (IF Linear!WeightKey = "nvfp4" THEN {"weight_scale_2"} ELSE {})
      /\ WeightIs(W["weight"], {})
      /\ Linear!WeightKey = "tensor" => W["weight_scale"] = Linear!PerShard(0)
      /\ Linear!WeightKey = "nvfp4" => W["weight_scale_2"] = Linear!PerShard(g)
  <2>1. ASSUME NEW f PROVE /\ DOMAIN Linear!Over(Linear!Weight(g), f) = {"weight"} \cup DOMAIN f
                           /\ WeightIs(Linear!Over(Linear!Weight(g), f)["weight"], {})
                           /\ \A x \in DOMAIN f : x # "weight" => Linear!Over(Linear!Weight(g), f)[x] = f[x]
    <3>1. "weight" \in DOMAIN Linear!Weight(g) /\ \A x : x # "weight" => x \notin DOMAIN Linear!Weight(g)
      BY NewWeight
    <3> DEFINE h == Linear!Weight(g)
    <3> HIDE DEF h
    <3>2. DOMAIN h = {"weight"} /\ WeightIs(h["weight"], {})
      BY NewWeight DEF h
    <3>3. /\ DOMAIN Linear!Over(h, f) = DOMAIN h \cup DOMAIN f
          /\ \A x \in DOMAIN h : Linear!Over(h, f)[x] = h[x]
          /\ \A x \in DOMAIN f : x \notin DOMAIN h => Linear!Over(h, f)[x] = f[x]
      BY OverIs, Zenon
    <3>4. DOMAIN Linear!Over(h, f) = {"weight"} \cup DOMAIN f
      BY <3>2, <3>3
    <3>5. Linear!Over(h, f)["weight"] = h["weight"]
      BY <3>2, <3>3
    <3>6. \A x \in DOMAIN f : x # "weight" => Linear!Over(h, f)[x] = f[x]
      BY <3>2, <3>3
    <3> QED BY <3>2, <3>4, <3>5, <3>6 DEF h
  <2>2. CASE Linear!WeightKey = "tensor"
    <3> DEFINE f == [weight_scale |-> Linear!PerShard(0)]
    <3>1. W = Linear!Over(Linear!Weight(g), f)
      BY <2>2 DEF Linear!WeightParams, Linear!KFp8StaticTensor, Linear!Sentinel
    <3>2. DOMAIN f = {"weight_scale"} /\ f["weight_scale"] = Linear!PerShard(0)
      OBVIOUS
    <3> HIDE DEF f, W
    <3> QED BY <2>1, <2>2, <3>1, <3>2
  <2>3. CASE Linear!WeightKey = "channel"
    <3> DEFINE f == [weight_scale |-> Linear!PerRow(0)]
    <3>1. W = Linear!Over(Linear!Weight(g), f)
      BY <2>3 DEF Linear!WeightParams, Linear!KFp8StaticChannel, Linear!Sentinel
    <3>2. DOMAIN f = {"weight_scale"}
      OBVIOUS
    <3> HIDE DEF f, W
    <3> QED BY <2>1, <2>3, <3>1, <3>2
  <2>4. CASE Linear!WeightKey = "block"
    <3> DEFINE f == [weight_scale |-> [b \in Linear!Blocks |-> 0]]
    <3>1. W = Linear!Over(Linear!Weight(g), f)
      BY <2>4 DEF Linear!WeightParams, Linear!KFp8Block128, Linear!Sentinel
    <3>2. DOMAIN f = {"weight_scale"}
      OBVIOUS
    <3> HIDE DEF f, W
    <3> QED BY <2>1, <2>4, <3>1, <3>2
  <2>5. CASE Linear!WeightKey = "mxfp8"
    <3> DEFINE f == [weight_scale |-> Linear!PerRow(g)]
    <3>1. W = Linear!Over(Linear!Weight(g), f)
      BY <2>5 DEF Linear!WeightParams, Linear!KMxfp8Static
    <3>2. DOMAIN f = {"weight_scale"}
      OBVIOUS
    <3> HIDE DEF f, W
    <3> QED BY <2>1, <2>5, <3>1, <3>2
  <2>6. CASE Linear!WeightKey = "nvfp4"
    <3> DEFINE f == [weight_scale_2 |-> Linear!PerShard(g), weight_scale |-> Linear!PerRow(g)]
    <3>1. W = Linear!Over(Linear!Weight(g), f)
      BY <2>6 DEF Linear!WeightParams, Linear!KNvfp4Static
    <3>2. DOMAIN f = {"weight_scale_2", "weight_scale"} /\ f["weight_scale_2"] = Linear!PerShard(g)
      OBVIOUS
    <3> HIDE DEF f, W
    <3> QED BY <2>1, <2>6, <3>1, <3>2
  <2> QED BY <2>2, <2>3, <2>4, <2>5, <2>6, AlgosAre
<1>3. /\ DOMAIN A = IF algo \in {"FP8", "NVFP4"} THEN {"input_scale"} ELSE {}
      /\ algo = "FP8" => A["input_scale"] = Linear!PerShard(0)
      /\ algo = "NVFP4" => A["input_scale"] = Linear!PerShard(g)
  BY AlgosAre DEF Linear!ActivationParams, Linear!Sentinel
<1>4. DOMAIN E = IF algo = "W4A16_NVFP4" THEN {"input_scale"} ELSE {}
  BY DEF Linear!ExtraWeights
<1> DEFINE q == Linear!Over(W, A)
<1> HIDE DEF W, A, E
<1>5. /\ DOMAIN q = DOMAIN W \cup DOMAIN A
      /\ \A x \in DOMAIN W : q[x] = W[x]
      /\ "input_scale" \in DOMAIN A => q["input_scale"] = A["input_scale"]
  <2>1. "input_scale" \notin DOMAIN W
    BY <1>2
  <2>2. /\ DOMAIN Linear!Over(W, A) = DOMAIN W \cup DOMAIN A
        /\ \A x \in DOMAIN W : Linear!Over(W, A)[x] = W[x]
        /\ \A x \in DOMAIN A : x \notin DOMAIN W => Linear!Over(W, A)[x] = A[x]
    BY OverIs, Zenon
  <2> QED BY <2>1, <2>2
<1>6. p = Linear!Over(q, E)
  OBVIOUS
<1> HIDE DEF q, p
<1>7. DOMAIN p = DOMAIN q \cup DOMAIN E /\ \A x \in DOMAIN q : p[x] = q[x]
  <2>1. /\ DOMAIN Linear!Over(q, E) = DOMAIN q \cup DOMAIN E
        /\ \A x \in DOMAIN q : Linear!Over(q, E)[x] = q[x]
    BY OverIs, Zenon
  <2> QED BY <1>6, <2>1
<1>8. DOMAIN p = CreatedNames
  BY <1>2, <1>3, <1>4, <1>5, <1>7 DEF CreatedNames
<1>9. \A x \in DOMAIN W : p[x] = W[x]
  BY <1>5, <1>7
<1>10. WeightIs(p["weight"], {})
  BY <1>2, <1>9
<1>11. Linear!WeightKey = "tensor" => ShardScales(p["weight_scale"], ckScale, {}, TRUE)
  BY <1>2, <1>9, NewScales
<1>12. Linear!WeightKey = "nvfp4" => ShardScales(p["weight_scale_2"], ckScale, {}, FALSE)
  BY <1>2, <1>9, NewScales
<1>13. algo \in {"FP8", "NVFP4"} => p["input_scale"] = A["input_scale"]
  BY <1>3, <1>5, <1>7
<1>14. /\ algo = "FP8" => ShardScales(p["input_scale"], ckInput, {}, TRUE)
       /\ algo = "NVFP4" => ShardScales(p["input_scale"], ckInput, {}, FALSE)
  BY <1>3, <1>13, NewScales
<1> QED BY <1>1, <1>8, <1>10, <1>11, <1>12, <1>14 DEF CreatedOf, p, q, W, A, E

(* A shard of its own is loaded, or all of them at once.                   *)
LoadsOneOf(shards, first) ==
  \/ disk = "split" /\ first \in Linear!Shards /\ shards = {first}
  \/ disk = "fused" /\ first = 1 /\ shards = Linear!Shards

LEMMA PutsScale ==
  ASSUME NEW shards, NEW first, LoadsOneOf(shards, first), NEW v, NEW ck, NEW L, NEW sentinel \in BOOLEAN,
         ShardScales(v, ck, L, sentinel)
  PROVE  ShardScales([v EXCEPT ![first] = ck[first]], ck, L \cup shards, sentinel)
<1> DEFINE w == [v EXCEPT ![first] = ck[first]]
<1>1. /\ DOMAIN v = Linear!Shards
      /\ \A s \in Linear!Shards : IsPut(s, L) => v[s] = ck[s]
      /\ sentinel => \A s \in Linear!Shards : ~IsPut(s, L) => v[s] = 0
  BY DEF ShardScales
<1>2. DOMAIN w = Linear!Shards /\ \A s \in Linear!Shards : w[s] = IF s = first THEN ck[s] ELSE v[s]
  BY <1>1
<1> HIDE DEF w
<1>3. \A s \in Linear!Shards : IsPut(s, L \cup shards) <=> IsPut(s, L) \/ s = first
  BY DEF IsPut, LoadsOneOf
<1>4. \A s \in Linear!Shards : IsPut(s, L \cup shards) => w[s] = ck[s]
  BY <1>1, <1>2, <1>3
<1>5. sentinel => \A s \in Linear!Shards : ~IsPut(s, L \cup shards) => w[s] = 0
  BY <1>1, <1>2, <1>3
<1>6. ShardScales(w, ck, L \cup shards, sentinel)
  BY <1>2, <1>4, <1>5 DEF ShardScales
<1> QED BY <1>6 DEF w

LEMMA RowsOfIs == \A shards, r : r \in Linear!RowsOf(shards) <=> r \in Linear!Rows /\ Linear!ShardOf(r) \in shards
  BY DEF Linear!RowsOf

LEMMA PutsRows ==
  ASSUME WeightsAssumption, CheckpointFacts, NEW v, NEW L, NEW shards, RowScales(v, L), NEW u,
         DOMAIN u = {Place(r) : r \in Linear!RowsOf(shards)},
         \A r \in Linear!RowsOf(shards) : u[Place(r)] = ScaleOf(r)
  PROVE  RowScales(Linear!Over(u, v), L \cup shards)
<1>1. /\ DOMAIN Linear!Over(u, v) = DOMAIN u \cup DOMAIN v
      /\ \A x \in DOMAIN u : Linear!Over(u, v)[x] = u[x]
      /\ \A x \in DOMAIN v : x \notin DOMAIN u => Linear!Over(u, v)[x] = v[x]
  BY OverIs, Zenon
<1> DEFINE w == Linear!Over(u, v)
<1> HIDE DEF w
<1>2. ASSUME NEW r \in Linear!Rows, Linear!ShardOf(r) \in L \cup shards
      PROVE  Place(r) \in DOMAIN w /\ w[Place(r)] = ScaleOf(r)
  <2>1. CASE Linear!ShardOf(r) \in shards
    <3>1. r \in Linear!RowsOf(shards)
      BY <2>1, RowsOfIs
    <3> QED BY <1>1, <3>1 DEF w
  <2>2. CASE Linear!ShardOf(r) \notin shards
    <3>1. Place(r) \in DOMAIN v /\ v[Place(r)] = ScaleOf(r)
      BY <1>2, <2>2 DEF RowScales
    <3>2. Place(r) \notin DOMAIN u
      <4> SUFFICES ASSUME NEW q \in Linear!RowsOf(shards), Place(r) = Place(q) PROVE FALSE
        OBVIOUS
      <4>1. q \in Linear!Rows /\ Linear!ShardOf(q) \in shards
        BY RowsOfIs
      <4>2. CASE Linear!WeightKey = "block"
        <5>1. BlockOf(r) = BlockOf(q)
          BY <4>2 DEF Place
        <5>2. Linear!ShardOf(r) = Linear!ShardOf(q)
          BY <4>1, <4>2, <5>1, BlocksAreOfShards
        <5> QED BY <2>2, <4>1, <5>2
      <4>3. CASE Linear!WeightKey # "block"
        BY <2>2, <4>1, <4>3 DEF Place
      <4> QED BY <4>2, <4>3
    <3> QED BY <1>1, <3>1, <3>2 DEF w
  <2> QED BY <2>1, <2>2
<1> QED BY <1>2 DEF RowScales, w

LEMMA BlocksPut ==
  ASSUME WeightsAssumption, CheckpointFacts, Linear!WeightKey = "block", NEW shards, NEW r \in Linear!RowsOf(shards)
  PROVE  /\ BlockOf(r) \in Linear!BlocksOf(shards)
         /\ Linear!FirstRowOf(shards, BlockOf(r)) \in Linear!Rows
         /\ Linear!ShardOf(Linear!FirstRowOf(shards, BlockOf(r))) = Linear!ShardOf(r)
<1> DEFINE b == BlockOf(r)
           S == {q \in Linear!RowsOf(shards) : BlockOf(q) = b}
<1>1. r \in S /\ S \in SUBSET Nat /\ S \subseteq Linear!Rows
  <2>1. \A q \in S : q \in Linear!Rows
    BY RowsOfIs
  <2> QED BY <2>1, ShardOfIs
<1>2. Linear!FirstRowOf(shards, b) = Min(S)
  BY DEF Linear!FirstRowOf, Linear!Min, Min, BlockOf
<1> HIDE DEF b
<1>3. Min(S) \in S
  BY <1>1, MinOf
<1>4. Min(S) \in Linear!Rows /\ BlockOf(Min(S)) = b
  BY <1>1, <1>3
<1>5. b \in Linear!BlocksOf(shards)
  BY DEF b, BlockOf, Linear!BlocksOf
<1>6. Linear!ShardOf(Min(S)) = Linear!ShardOf(r)
  BY <1>1, <1>4, BlocksAreOfShards DEF b
<1> QED BY <1>2, <1>4, <1>5, <1>6 DEF b

LEMMA LoadsThem ==
  ASSUME WeightsAssumption, CheckpointFacts, NEW shards, NEW first, LoadsOneOf(shards, first),
         CreatedOf(params, loaded), Linear!Load(shards, first)
  PROVE  CreatedOf(params', loaded \cup shards)
<1> DEFINE L == loaded \cup shards
           rowScale(r) == IF Linear!WeightKey = "nvfp4" THEN 2 ELSE Linear!DiskScale(Linear!ShardOf(r))
           perShard(v, ck) == [v EXCEPT ![first] = ck[first]]
           scales == CASE Linear!WeightKey = "tensor" -> perShard(params.weight_scale, ckScale)
                       [] Linear!WeightKey = "block" ->
                            Linear!Over([b \in Linear!BlocksOf(shards) |-> rowScale(Linear!FirstRowOf(shards, b))],
                                        params.weight_scale)
                       [] OTHER -> Linear!Over([r \in Linear!RowsOf(shards) |-> rowScale(r)], params.weight_scale)
           rows == [r \in Linear!RowsOf(shards) |-> Linear!Code(r)]
           weight == [params.weight EXCEPT !.rows = Linear!Over(rows, @)]
<1>1. params' = [p \in DOMAIN params |->
           CASE p = "weight" -> weight
             [] p = "weight_scale" -> scales
             [] p = "weight_scale_2" -> perShard(params[p], ckScale)
             [] p = "input_scale" -> IF ckInput = <<>> THEN params[p] ELSE perShard(params[p], ckInput)]
  BY DEF Linear!Load
<1>2. DOMAIN params = CreatedNames
  BY DEF CreatedOf
<1> HIDE DEF weight, scales
<1>3. /\ DOMAIN params' = CreatedNames
      /\ params'["weight"] = weight /\ params'["weight_scale"] = scales
      /\ "weight_scale_2" \in CreatedNames => params'["weight_scale_2"] = perShard(params["weight_scale_2"], ckScale)
      /\ "input_scale" \in CreatedNames /\ ckInput # <<>> => params'["input_scale"] = perShard(params["input_scale"], ckInput)
  <2>1. "weight" \in CreatedNames /\ "weight_scale" \in CreatedNames
    BY DEF CreatedNames
  <2> QED BY <1>1, <1>2, <2>1
<1>4. WeightIs(weight, L)
  <2> DEFINE w == params["weight"]
             x == w["rows"]
  <2>1. WeightIs(w, loaded)
    BY DEF CreatedOf
  <2>2. weight = [w EXCEPT !["rows"] = Linear!Over(rows, x)]
    BY DEF weight
  <2> HIDE DEF w
  <2>3. /\ DOMAIN w = {"rows", "layout", "exact"} /\ w["layout"] = "out_in" /\ w["exact"] = FALSE
        /\ DOMAIN x = Linear!Rows
        /\ \A r \in Linear!Rows : Linear!ShardOf(r) \in loaded => x[r] = Linear!Code(r)
    BY <2>1 DEF WeightIs
  <2>4. /\ DOMAIN Linear!Over(rows, x) = DOMAIN rows \cup DOMAIN x
        /\ \A r \in DOMAIN rows : Linear!Over(rows, x)[r] = rows[r]
        /\ \A r \in DOMAIN x : r \notin DOMAIN rows => Linear!Over(rows, x)[r] = x[r]
    BY OverIs, Zenon
  <2>5. DOMAIN rows = Linear!RowsOf(shards) /\ \A r \in DOMAIN rows : rows[r] = Linear!Code(r)
    OBVIOUS
  <2> DEFINE y == Linear!Over(rows, x)
  <2> HIDE DEF x, y, rows
  <2>6. DOMAIN y = Linear!Rows
    BY <2>3, <2>4, <2>5, RowsOfIs DEF y
  <2>11. y = [r \in Linear!Rows |-> y[r]]
    <3>1. y = [r \in DOMAIN y |-> y[r]]
      BY DEF y, Linear!Over
    <3> QED BY <2>6, <3>1
  <2>7. \A r \in Linear!Rows : Linear!ShardOf(r) \in L => y[r] = Linear!Code(r)
    <3> SUFFICES ASSUME NEW r \in Linear!Rows, Linear!ShardOf(r) \in L PROVE y[r] = Linear!Code(r)
      OBVIOUS
    <3>1. CASE r \in Linear!RowsOf(shards)
      BY <2>4, <2>5, <3>1 DEF y
    <3>2. CASE r \notin Linear!RowsOf(shards)
      <4>1. Linear!ShardOf(r) \in loaded
        BY <3>2, RowsOfIs
      <4> QED BY <2>3, <2>4, <2>5, <3>2, <4>1 DEF y
    <3> QED BY <3>1, <3>2
  <2>8. weight = [w EXCEPT !["rows"] = y]
    BY <2>2 DEF y
  <2>9. /\ DOMAIN weight = {"rows", "layout", "exact"} /\ weight["rows"] = y
        /\ weight["layout"] = w["layout"] /\ weight["exact"] = w["exact"]
    BY <2>3, <2>8
  <2> HIDE DEF L
  <2> QED BY <2>3, <2>6, <2>7, <2>9, <2>11 DEF WeightIs
<1>5. Linear!WeightKey = "tensor" => ShardScales(scales, ckScale, L, TRUE)
  <2> SUFFICES ASSUME Linear!WeightKey = "tensor" PROVE ShardScales(scales, ckScale, L, TRUE)
    OBVIOUS
  <2>1. ShardScales(params["weight_scale"], ckScale, loaded, TRUE)
    BY DEF CreatedOf
  <2>2. scales = perShard(params["weight_scale"], ckScale)
    BY DEF scales
  <2>3. ShardScales(perShard(params["weight_scale"], ckScale), ckScale, L, TRUE)
    BY <2>1, PutsScale, Zenon
  <2> QED BY <2>2, <2>3
<1>6. Linear!WeightKey # "tensor" => RowScales(scales, L)
  <2> SUFFICES ASSUME Linear!WeightKey # "tensor" PROVE RowScales(scales, L)
    OBVIOUS
  <2> DEFINE v == params["weight_scale"]
  <2>1. RowScales(v, loaded)
    BY DEF CreatedOf
  <2>2. CASE Linear!WeightKey = "block"
    <3> DEFINE u == [b \in Linear!BlocksOf(shards) |-> rowScale(Linear!FirstRowOf(shards, b))]
    <3>1. scales = Linear!Over(u, v)
      BY <2>2 DEF scales
    <3>2. DOMAIN u = {Place(r) : r \in Linear!RowsOf(shards)}
      <4>1. \A r : Place(r) = (r + Block - 1) \div Block
        BY <2>2 DEF Place, BlockOf
      <4> QED BY <4>1 DEF Linear!BlocksOf
    <3>3. ASSUME NEW r \in Linear!RowsOf(shards) PROVE u[Place(r)] = ScaleOf(r)
      <4>1. Place(r) = BlockOf(r) /\ BlockOf(r) \in Linear!BlocksOf(shards)
        BY <2>2, BlocksPut DEF Place
      <4>2. u[Place(r)] = Linear!DiskScale(Linear!ShardOf(Linear!FirstRowOf(shards, BlockOf(r))))
        BY <2>2, <4>1
      <4>3. Linear!ShardOf(Linear!FirstRowOf(shards, BlockOf(r))) = Linear!ShardOf(r)
        BY <2>2, BlocksPut
      <4> HIDE DEF u
      <4> QED BY <2>2, <4>2, <4>3 DEF ScaleOf
    <3> HIDE DEF u, v
    <3>4. RowScales(Linear!Over(u, v), L)
      BY <2>1, <3>2, <3>3, PutsRows
    <3> QED BY <3>1, <3>4
  <2>3. CASE Linear!WeightKey # "block"
    <3> DEFINE u == [r \in Linear!RowsOf(shards) |-> rowScale(r)]
    <3>1. scales = Linear!Over(u, v)
      BY <2>3 DEF scales
    <3>2. \A r : Place(r) = r
      BY <2>3 DEF Place
    <3>3. DOMAIN u = {Place(r) : r \in Linear!RowsOf(shards)}
      BY <3>2
    <3>4. \A r \in Linear!RowsOf(shards) : u[Place(r)] = ScaleOf(r)
      BY <3>2 DEF ScaleOf
    <3> HIDE DEF u, v
    <3>5. RowScales(Linear!Over(u, v), L)
      BY <2>1, <3>3, <3>4, PutsRows
    <3> QED BY <3>1, <3>5
  <2> QED BY <2>2, <2>3
<1>7. Linear!WeightKey = "nvfp4" => ShardScales(params'["weight_scale_2"], ckScale, L, FALSE)
  <2> SUFFICES ASSUME Linear!WeightKey = "nvfp4" PROVE ShardScales(params'["weight_scale_2"], ckScale, L, FALSE)
    OBVIOUS
  <2>1. ShardScales(params["weight_scale_2"], ckScale, loaded, FALSE)
    BY DEF CreatedOf
  <2>2. ShardScales(perShard(params["weight_scale_2"], ckScale), ckScale, L, FALSE)
    BY <2>1, PutsScale, Zenon
  <2>3. "weight_scale_2" \in CreatedNames
    BY DEF CreatedNames
  <2> QED BY <1>3, <2>2, <2>3
<1>8. /\ algo = "FP8" => ShardScales(params'["input_scale"], ckInput, L, TRUE)
      /\ algo = "NVFP4" => ShardScales(params'["input_scale"], ckInput, L, FALSE)
  <2> SUFFICES ASSUME algo \in {"FP8", "NVFP4"}
               PROVE  ShardScales(params'["input_scale"], ckInput, L, algo = "FP8")
    BY DEF ShardScales
  <2>1. ShardScales(params["input_scale"], ckInput, loaded, algo = "FP8")
    BY DEF CreatedOf, ShardScales
  <2>2. ShardScales(perShard(params["input_scale"], ckInput), ckInput, L, algo = "FP8")
    <3>1. (algo = "FP8") \in BOOLEAN
      OBVIOUS
    <3> QED BY <2>1, <3>1, PutsScale, Zenon
  <2>3. ckInput # <<>>
    <3>1. ckInput \in [Linear!Shards -> Scales]
      BY AlgosAre DEF CheckpointFacts, Linear!HasInputScale
    <3>2. 1 \in DOMAIN ckInput
      BY <3>1, ScalesAre
    <3> QED BY <3>2
  <2>4. "input_scale" \in CreatedNames
    BY DEF CreatedNames
  <2> QED BY <1>3, <2>2, <2>3, <2>4
<1> HIDE DEF L
<1>9. CreatedOf(params', L)
  BY <1>3, <1>4, <1>5, <1>6, <1>7, <1>8 DEF CreatedOf
<1> QED BY <1>9 DEF L

-----------------------------------------------------------------------------
(* The weights: what the loaded parameters are turned into                 *)

ScaleValues == {1, 2, 4}

LoadedRows(p) ==
  \A r \in Linear!Rows : p["weight"]["rows"][r] = Linear!Code(r) /\ p["weight_scale"][Place(r)] = ScaleOf(r)

ProcessedOf(p) ==
  /\ DOMAIN p \ {"logical_out"} = Linear!KernelParams
  /\ p["weight"]["layout"] = IF algo \in {"FP8", "FP8_PER_CHANNEL_PER_TOKEN"} THEN "in_out" ELSE "out_in"
  /\ algo # "FP8_PB_WO" => "logical_out" \notin DOMAIN p /\ DOMAIN p["weight"]["rows"] = Linear!Rows
  /\ algo = "FP8" => /\ p["weight_scale"] \in ScaleValues /\ p["input_scale"] \in ScaleValues
                     /\ \A r \in Linear!Rows : /\ p["weight"]["rows"][r] \in Int
                                               /\ p["weight"]["rows"][r] * p["weight_scale"] = Linear!Code(r) * ScaleOf(r)
  /\ algo = "FP8_PER_CHANNEL_PER_TOKEN" => LoadedRows(p)
  /\ algo = "FP8_PB_WO" => /\ LoadedRows(p) /\ Linear!Padding(p["weight"]["rows"]) = 0
                           /\ \/ "logical_out" \notin DOMAIN p /\ DOMAIN p["weight"]["rows"] = Linear!Rows
                              \/ /\ "logical_out" \in DOMAIN p /\ p["logical_out"] = Linear!Width(Linear!Shards)
                                 /\ \E n \in Nat : n >= p["logical_out"] /\ DOMAIN p["weight"]["rows"] = 1..n
  /\ algo = "MXFP8" => /\ DOMAIN p["weight"] = {"rows", "layout", "exact"}
                       /\ \A r \in Linear!Rows : p["weight_scale"][r] = ScaleOf(r)
                       /\ \/ p["weight"]["exact"] = FALSE /\ LoadedRows(p)
                          \/ /\ p["weight"]["exact"] = TRUE
                             /\ \A r \in Linear!Rows : p["weight"]["rows"][r] = Linear!Code(r) * ScaleOf(r)
  /\ algo \in {"NVFP4", "W4A16_NVFP4"} =>
       /\ LoadedRows(p)
       /\ Linear!ScaleIsShared /\ Linear!ScalesAreWritten =>
            \A s \in Linear!Shards : ckScale[s] = p["weight_global_scale"]
  /\ algo = "NVFP4" => /\ Linear!ScalesAreWritten => p["input_global_scale_inv"] \in ScaleValues
                       /\ p["alpha"] = p["input_global_scale_inv"] * p["weight_global_scale"]

LEMMA Halves ==
  ASSUME NEW r \in Nat, NEW c \in ScaleValues, NEW m \in ScaleValues
  PROVE  (4 * r * c) \div m \in Int /\ ((4 * r * c) \div m) * m = 4 * r * c
<1>1. CASE m = 1
  BY <1>1 DEF ScaleValues
<1>2. CASE m = 2
  <2>1. c = 1 \/ c = 2 \/ c = 4
    BY DEF ScaleValues
  <2> QED BY <1>2, <2>1
<1>3. CASE m = 4
  <2>1. c = 1 \/ c = 2 \/ c = 4
    BY DEF ScaleValues
  <2> QED BY <1>3, <2>1
<1> QED BY <1>1, <1>2, <1>3 DEF ScaleValues

(* The scales of all shards                                                *)
LEMMA AllScales ==
  ASSUME WeightsAssumption, CheckpointFacts, NEW v, NEW ck \in [Linear!Shards -> ScaleValues], NEW sentinel \in BOOLEAN,
         ShardScales(v, ck, Linear!Shards, sentinel), disk = "split" \/ Len(widths) = 1 \/ sentinel = TRUE
  PROVE  /\ DOMAIN v = Linear!Shards
         /\ \A s \in Linear!Shards : v[s] = IF disk = "fused" /\ s # 1 THEN 0 ELSE ck[s]
         /\ Linear!MaxOf(v) \in ScaleValues
         /\ disk = "fused" => Linear!MaxOf(v) = ck[1]
         /\ \E s \in Linear!Shards : Linear!MaxOf(v) = ck[s]
<1>1. DOMAIN v = Linear!Shards /\ 1 \in Linear!Shards
  BY ScalesAre DEF ShardScales
<1>2. ASSUME NEW s \in Linear!Shards PROVE v[s] = IF disk = "fused" /\ s # 1 THEN 0 ELSE ck[s]
  <2>1. IsPut(s, Linear!Shards) <=> ~(disk = "fused" /\ s # 1)
    BY DEF IsPut
  <2>2. CASE IsPut(s, Linear!Shards)
    BY <2>1, <2>2 DEF ShardScales
  <2>3. CASE ~IsPut(s, Linear!Shards)
    <3> DEFINE n == Len(widths)
    <3>3. Linear!Shards = 1..n /\ n \in Nat
      BY ShardsAre
    <3> HIDE DEF n
    <3>4. n # 1
      BY <2>1, <2>3, <3>3
    <3>1. Len(widths) # 1
      BY <3>4 DEF n
    <3>2. sentinel = TRUE
      BY <2>1, <2>3, <3>1 DEF CheckpointFacts
    <3> QED BY <2>1, <2>3, <3>2 DEF ShardScales
  <2> QED BY <2>2, <2>3
<1>3. \A s \in Linear!Shards : ck[s] \in ScaleValues
  OBVIOUS
<1>4. \A s \in DOMAIN v : v[s] \in {0, 1, 2, 4}
  BY <1>1, <1>2, <1>3 DEF ScaleValues
<1> DEFINE m == Linear!MaxOf(v)
<1>5. m \in {0, 1, 2, 4} /\ (\E s \in DOMAIN v : v[s] = m) /\ \A s \in DOMAIN v : v[s] <= m
  BY <1>1, <1>4, MaxOfScales
<1> HIDE DEF m
<1>6. v[1] = ck[1] /\ ck[1] \in ScaleValues /\ v[1] <= m
  BY <1>1, <1>2, <1>3, <1>5
<1>7. m \in ScaleValues
  BY <1>5, <1>6 DEF ScaleValues
<1>8. PICK s \in Linear!Shards : v[s] = m
  BY <1>1, <1>5
<1>9. v[s] # 0
  BY <1>7, <1>8 DEF ScaleValues
<1>10. m = ck[s] /\ (disk = "fused" => s = 1)
  BY <1>2, <1>8, <1>9
<1> QED BY <1>1, <1>2, <1>7, <1>10 DEF m

Chain(p, emulate) ==
  Linear!KernelProcess(Linear!PostProcess(Linear!MaybeFuse(Linear!ProcessActivation(Linear!ProcessWeight(p)))), emulate)

LEMMA AllRows ==
  ASSUME WeightsAssumption, CheckpointFacts, NEW p, CreatedOf(p, Linear!Shards)
  PROVE  /\ DOMAIN p["weight"] = {"rows", "layout", "exact"}
         /\ p["weight"]["layout"] = "out_in" /\ p["weight"]["exact"] = FALSE
         /\ DOMAIN p["weight"]["rows"] = Linear!Rows
         /\ p["weight"]["rows"] = [r \in Linear!Rows |-> p["weight"]["rows"][r]]
         /\ \A r \in Linear!Rows : p["weight"]["rows"][r] = Linear!Code(r)
         /\ Linear!WeightKey # "tensor" => LoadedRows(p)
  BY ShardOfIs DEF CreatedOf, WeightIs, RowScales, LoadedRows

LEMMA TransposedIs ==
  ASSUME NEW w, w["layout"] = "out_in" PROVE Linear!Transposed(w) = [w EXCEPT !["layout"] = "in_out"]
  BY DEF Linear!Transposed

LEMMA ProcessesFp8 ==
  ASSUME WeightsAssumption, CheckpointFacts, NEW p, NEW emulate, CreatedOf(p, Linear!Shards), algo = "FP8"
  PROVE  ProcessedOf(Chain(p, emulate))
<1> DEFINE w == p["weight"]
           v == p["weight_scale"]
           i == p["input_scale"]
           n == Len(widths)
           m == Linear!MaxOf(v)
           rows == Linear!Requantized(p)
<1>1. Linear!WeightKey = "tensor" /\ Linear!ActivationKey = "static"
  BY AlgosAre
<1>2. DOMAIN p = {"weight", "weight_scale", "input_scale"}
  BY <1>1 DEF CreatedOf, CreatedNames
<1>3. ckScale \in [Linear!Shards -> ScaleValues] /\ ckInput \in [Linear!Shards -> ScaleValues]
  BY <1>1 DEF CheckpointFacts, Linear!HasInputScale, WeightsAssumption, Linear!LinearAssumption, ScaleValues
<1>4. /\ \A s \in Linear!Shards : v[s] = IF disk = "fused" /\ s # 1 THEN 0 ELSE ckScale[s]
      /\ m \in ScaleValues /\ (disk = "fused" => m = ckScale[1])
  BY <1>1, <1>3, AllScales DEF CreatedOf
<1>5. Linear!MaxOf(i) \in ScaleValues
  BY <1>3, AllScales DEF CreatedOf
<1>6. DOMAIN rows = Linear!Rows /\ \A r \in Linear!Rows : rows[r] \in Int /\ rows[r] * m = Linear!Code(r) * ScaleOf(r)
  <2>1. n \in Linear!Shards /\ 1 \in Linear!Shards
    BY ShardsAre, ScalesAre
  <2>2. DOMAIN w["rows"] = Linear!Rows /\ \A r \in Linear!Rows : w["rows"][r] = 4 * r
    BY AllRows DEF Linear!Code
  <2>3. ASSUME NEW r \in Linear!Rows
        PROVE  /\ r \in Nat /\ Linear!ShardOf(r) \in Linear!Shards
               /\ ScaleOf(r) = (IF disk = "fused" THEN ckScale[1] ELSE ckScale[Linear!ShardOf(r)]) /\ ScaleOf(r) \in ScaleValues
    BY <1>1, ShardOfIs, ScalesAre DEF ScaleOf, Linear!DiskScale, ScaleValues
  <2>4. CASE v[n] = 0
    <3>1. rows = w["rows"]
      BY <2>4 DEF Linear!Requantized, Linear!Sentinel
    <3>2. disk = "fused"
      <4>1. ckScale[n] # 0
        BY <1>3, <2>1 DEF ScaleValues
      <4> QED BY <1>4, <2>1, <2>4, <4>1
    <3> HIDE DEF w, v, m, n, rows
    <3>3. \A r \in Linear!Rows : 4 * r \in Int /\ m = ScaleOf(r)
      BY <1>4, <2>3, <3>2
    <3> QED BY <2>2, <3>1, <3>3 DEF Linear!Code
  <2>5. CASE v[n] # 0
    <3>1. rows = [r \in Linear!Rows |-> (w["rows"][r] * v[Linear!ShardOf(r)]) \div m]
      BY <2>5 DEF Linear!Requantized, Linear!Sentinel
    <3>2. ASSUME NEW r \in Linear!Rows PROVE v[Linear!ShardOf(r)] = ScaleOf(r)
      <4>1. disk = "fused" => Linear!ShardOf(r) = 1
        <5> SUFFICES ASSUME disk = "fused" PROVE Linear!ShardOf(r) = 1
          OBVIOUS
        <5>1. n = 1
          BY <1>4, <2>1, <2>5
        <5> QED BY <2>3, <5>1, ShardsAre
      <4> HIDE DEF v, n
      <4> QED BY <1>4, <2>3, <4>1
    <3> HIDE DEF w, v, n, m, rows
    <3>3. ASSUME NEW r \in Linear!Rows PROVE rows[r] \in Int /\ rows[r] * m = Linear!Code(r) * ScaleOf(r)
      <4>1. rows[r] = (4 * r * ScaleOf(r)) \div m
        BY <2>2, <3>1, <3>2
      <4>2. r \in Nat /\ ScaleOf(r) \in ScaleValues /\ m \in ScaleValues
        BY <1>4, <2>3
      <4> DEFINE c == ScaleOf(r)
      <4> HIDE DEF c
      <4>3. (4 * r * c) \div m \in Int /\ ((4 * r * c) \div m) * m = 4 * r * c
        BY <4>2, Halves DEF c
      <4> QED BY <4>1, <4>3 DEF Linear!Code, c
    <3> QED BY <3>1, <3>3
  <2> QED BY <2>4, <2>5
<1> DEFINE p1 == [p EXCEPT !["weight"] = [[w EXCEPT !["rows"] = rows] EXCEPT !["layout"] = "in_out"], !["weight_scale"] = m]
           p2 == [p1 EXCEPT !["input_scale"] = Linear!MaxOf(p1["input_scale"])]
<1>7. Linear!ProcessWeight(p) = p1
  <2> DEFINE t == [w EXCEPT !["rows"] = rows]
  <2>1. w["layout"] = "out_in" /\ DOMAIN w = {"rows", "layout", "exact"}
    BY AllRows
  <2> HIDE DEF w, rows
  <2>2. t["layout"] = "out_in"
    BY <2>1
  <2> HIDE DEF t
  <2>3. Linear!Transposed(t) = [t EXCEPT !["layout"] = "in_out"]
    BY <2>2, TransposedIs
  <2>4. Linear!ProcessWeight(p) = [p EXCEPT !["weight"] = Linear!Transposed(t), !["weight_scale"] = m]
    BY <1>1 DEF Linear!ProcessWeight, Linear!ProcessTensor, t, w, rows
  <2> QED BY <2>3, <2>4 DEF t
<1>8. Linear!ProcessActivation(p1) = p2
  <2> HIDE DEF p1
  <2> QED BY <1>1 DEF Linear!ProcessActivation
<1>9. /\ DOMAIN p2 = {"weight", "weight_scale", "input_scale"}
      /\ p2["weight"]["rows"] = rows /\ p2["weight"]["layout"] = "in_out"
      /\ p2["weight_scale"] = m /\ p2["input_scale"] = Linear!MaxOf(i)
  <2>1. "rows" \in DOMAIN w /\ "layout" \in DOMAIN w
    BY AllRows
  <2> HIDE DEF w, m, rows
  <2>2. /\ DOMAIN p1 = {"weight", "weight_scale", "input_scale"}
        /\ p1["weight"] = [[w EXCEPT !["rows"] = rows] EXCEPT !["layout"] = "in_out"]
        /\ p1["weight_scale"] = m /\ p1["input_scale"] = i
    BY <1>2
  <2>3. p1["weight"]["rows"] = rows /\ p1["weight"]["layout"] = "in_out"
    <3> HIDE DEF p1
    <3> QED BY <2>1, <2>2
  <2> HIDE DEF p1, i
  <2> QED BY <2>2, <2>3
<1> HIDE DEF w, v, i, n, m, rows, p1, p2
<1>10. Chain(p, emulate) = p2
  <2>1. Linear!MaybeFuse(p2) = p2
    BY <1>9 DEF Linear!MaybeFuse
  <2>2. Linear!PostProcess(p2) = p2
    BY DEF Linear!PostProcess
  <2>3. Linear!KernelProcess(p2, emulate) = p2
    BY <1>1 DEF Linear!KernelProcess
  <2> QED BY <1>7, <1>8, <2>1, <2>2, <2>3 DEF Chain
<1>11. DOMAIN p2 \ {"logical_out"} = Linear!KernelParams /\ "logical_out" \notin DOMAIN p2
  BY <1>9 DEF Linear!KernelParams
<1>12. ProcessedOf(p2)
  BY <1>4, <1>5, <1>6, <1>9, <1>11 DEF ProcessedOf, i
<1> QED BY <1>10, <1>12

LEMMA ProcessesChannel ==
  ASSUME WeightsAssumption, CheckpointFacts, NEW p, NEW emulate, CreatedOf(p, Linear!Shards),
         algo = "FP8_PER_CHANNEL_PER_TOKEN"
  PROVE  ProcessedOf(Chain(p, emulate))
<1> DEFINE w == p["weight"]
           p1 == [p EXCEPT !["weight"] = [w EXCEPT !["layout"] = "in_out"]]
<1>1. Linear!WeightKey = "channel" /\ Linear!ActivationKey = "dynamic"
  BY AlgosAre
<1>2. DOMAIN p = {"weight", "weight_scale"}
  BY <1>1 DEF CreatedOf, CreatedNames
<1>3. DOMAIN w = {"rows", "layout", "exact"} /\ DOMAIN w["rows"] = Linear!Rows /\ LoadedRows(p)
  BY <1>1, AllRows
<1>4. Linear!ProcessWeight(p) = p1
  <2>1. w["layout"] = "out_in"
    BY AllRows
  <2>2. Linear!Transposed(w) = [w EXCEPT !["layout"] = "in_out"]
    BY <2>1, TransposedIs
  <2>3. Linear!ProcessWeight(p) = [p EXCEPT !["weight"] = Linear!Transposed(w)]
    BY <1>1 DEF Linear!ProcessWeight, Linear!ProcessChannel
  <2> QED BY <2>2, <2>3
<1> HIDE DEF w
<1>5. /\ DOMAIN p1 = {"weight", "weight_scale"} /\ p1["weight_scale"] = p["weight_scale"]
      /\ p1["weight"]["rows"] = w["rows"] /\ p1["weight"]["layout"] = "in_out"
  BY <1>2, <1>3
<1> HIDE DEF p1
<1>6. Chain(p, emulate) = p1
  <2>1. Linear!ProcessActivation(p1) = p1
    BY <1>1 DEF Linear!ProcessActivation
  <2>2. Linear!MaybeFuse(p1) = p1
    BY <1>5 DEF Linear!MaybeFuse
  <2>3. Linear!PostProcess(p1) = p1
    BY DEF Linear!PostProcess
  <2>4. Linear!KernelProcess(p1, emulate) = p1
    BY <1>1 DEF Linear!KernelProcess
  <2> QED BY <1>4, <2>1, <2>2, <2>3, <2>4 DEF Chain
<1>7. DOMAIN p1 \ {"logical_out"} = Linear!KernelParams /\ "logical_out" \notin DOMAIN p1
  BY <1>5 DEF Linear!KernelParams
<1>8. LoadedRows(p1)
  BY <1>3, <1>5 DEF LoadedRows, w
<1>9. ProcessedOf(p1)
  BY <1>3, <1>5, <1>7, <1>8 DEF ProcessedOf
<1> QED BY <1>6, <1>9

(* The weight of this format may be processed again.                       *)
LEMMA ProcessesMxfp8 ==
  ASSUME WeightsAssumption, CheckpointFacts, NEW p, NEW emulate \in BOOLEAN, algo = "MXFP8",
         CreatedOf(p, Linear!Shards) \/ ProcessedOf(p)
  PROVE  ProcessedOf(Chain(p, emulate))
<1> DEFINE w == p["weight"]
<1>1. Linear!WeightKey = "mxfp8" /\ Linear!ActivationKey = "dynamic"
  BY AlgosAre
<1>2. \A r : Place(r) = r
  BY <1>1 DEF Place
<1>3. /\ DOMAIN p = {"weight", "weight_scale"}
      /\ DOMAIN w = {"rows", "layout", "exact"} /\ w["layout"] = "out_in" /\ DOMAIN w["rows"] = Linear!Rows
      /\ \A r \in Linear!Rows : p["weight_scale"][r] = ScaleOf(r)
      /\ \/ w["exact"] = FALSE /\ \A r \in Linear!Rows : w["rows"][r] = Linear!Code(r)
         \/ w["exact"] = TRUE /\ \A r \in Linear!Rows : w["rows"][r] = Linear!Code(r) * ScaleOf(r)
  <2>1. CASE CreatedOf(p, Linear!Shards)
    <3>1. DOMAIN p = {"weight", "weight_scale"}
      BY <1>1, <2>1 DEF CreatedOf, CreatedNames
    <3>2. LoadedRows(p) /\ DOMAIN w = {"rows", "layout", "exact"} /\ w["layout"] = "out_in"
          /\ w["exact"] = FALSE /\ DOMAIN w["rows"] = Linear!Rows
      BY <1>1, <2>1, AllRows
    <3> QED BY <1>2, <3>1, <3>2 DEF LoadedRows
  <2>2. CASE ProcessedOf(p)
    <3>1. DOMAIN p \ {"logical_out"} = {"weight", "weight_scale"} /\ "logical_out" \notin DOMAIN p
      BY <2>2 DEF ProcessedOf, Linear!KernelParams
    <3>2. DOMAIN p = {"weight", "weight_scale"}
      BY <3>1
    <3> QED BY <1>2, <2>2, <3>2 DEF ProcessedOf, LoadedRows
  <2> QED BY <2>1, <2>2
<1>4. Linear!ProcessWeight(p) = p /\ Linear!ProcessActivation(p) = p
  BY <1>1 DEF Linear!ProcessWeight, Linear!ProcessActivation
<1>5. Linear!MaybeFuse(p) = p /\ Linear!PostProcess(p) = p
  BY <1>3 DEF Linear!MaybeFuse, Linear!PostProcess
<1>6. Chain(p, emulate) = Linear!KernelProcess(p, emulate)
  BY <1>4, <1>5 DEF Chain
<1>7. Linear!KernelParams = {"weight", "weight_scale"}
  BY DEF Linear!KernelParams
<1>8. ProcessedOf(p)
  <2>1. w["exact"] = FALSE => LoadedRows(p)
    BY <1>2, <1>3 DEF LoadedRows
  <2>2. "logical_out" \notin DOMAIN p /\ DOMAIN p \ {"logical_out"} = Linear!KernelParams
    BY <1>3, <1>7
  <2> QED BY <1>3, <2>1, <2>2 DEF ProcessedOf
<1>9. CASE emulate /\ w["exact"] = FALSE
  <2> DEFINE x == w["rows"]
             y == [r \in DOMAIN x |-> x[r] * p["weight_scale"][r]]
             q == [p EXCEPT !["weight"] = [w EXCEPT !["rows"] = y, !["exact"] = TRUE]]
  <2>1. Linear!KernelProcess(p, emulate) = q
    <3>1. Linear!KernelProcess(p, emulate) = [p EXCEPT !["weight"] = Linear!Exact(w, p["weight_scale"])]
      BY <1>1, <1>9 DEF Linear!KernelProcess
    <3>2. Linear!Exact(w, p["weight_scale"]) = [w EXCEPT !["rows"] = y, !["exact"] = TRUE]
      BY DEF Linear!Exact
    <3> HIDE DEF w, y
    <3> QED BY <3>1, <3>2
  <2>2. DOMAIN y = Linear!Rows /\ \A r \in Linear!Rows : y[r] = Linear!Code(r) * ScaleOf(r)
    <3>1. \A r \in Linear!Rows : x[r] = Linear!Code(r) /\ p["weight_scale"][r] = ScaleOf(r)
      BY <1>3, <1>9
    <3> QED BY <1>3, <3>1
  <2> HIDE DEF x, y, w
  <2>3. /\ DOMAIN q = {"weight", "weight_scale"} /\ q["weight_scale"] = p["weight_scale"]
        /\ DOMAIN q["weight"] = {"rows", "layout", "exact"} /\ q["weight"]["rows"] = y
        /\ q["weight"]["layout"] = "out_in" /\ q["weight"]["exact"] = TRUE
    BY <1>3
  <2> HIDE DEF q
  <2>4. "logical_out" \notin DOMAIN q /\ DOMAIN q \ {"logical_out"} = Linear!KernelParams
    BY <1>7, <2>3
  <2>5. ProcessedOf(q)
    BY <1>3, <2>2, <2>3, <2>4 DEF ProcessedOf
  <2> QED BY <1>6, <2>1, <2>5
<1>10. CASE ~(emulate /\ w["exact"] = FALSE)
  <2>1. Linear!KernelProcess(p, emulate) = p
    BY <1>1, <1>3, <1>10 DEF Linear!KernelProcess
  <2> QED BY <1>6, <1>8, <2>1
<1> QED BY <1>9, <1>10

LEMMA WithoutIs ==
  ASSUME NEW f, NEW names
  PROVE  /\ DOMAIN Linear!Without(f, names) = DOMAIN f \ names
         /\ \A x \in DOMAIN f \ names : Linear!Without(f, names)[x] = f[x]
  BY DEF Linear!Without, Linear!Restrict

(* Global scales that are shared                                           *)
LEMMA SharedScale ==
  ASSUME WeightsAssumption, CheckpointFacts, Linear!WeightKey = "nvfp4",
         NEW g, \E s \in Linear!Shards : g = ckScale[s], Linear!ScaleIsShared
  PROVE  \A s \in Linear!Shards : ckScale[s] = g
<1> DEFINE R == {ckScale[s] : s \in Linear!Shards}
<1>1. DOMAIN ckScale = Linear!Shards
  BY DEF CheckpointFacts
<1>2. Linear!Range(ckScale) = R
  BY <1>1 DEF Linear!Range
<1>3. Cardinality(R) = 1
  <2>1. \A S : Linear!Cardinality(S) = Cardinality(S)
    BY DEF Linear!Cardinality, Cardinality, Linear!IsFiniteSet, IsFiniteSet
  <2>2. Linear!Cardinality(Linear!Range(ckScale)) = 1
    BY DEF Linear!ScaleIsShared
  <2> QED BY <1>2, <2>1, <2>2
<1>4. IsFiniteSet(R)
  <2>1. R \subseteq 1..4
    <3>1. \A s \in Linear!Shards : ckScale[s] \in 1..4
      BY ScalesAre
    <3> QED BY <3>1
  <2>2. 1 \in Int /\ 4 \in Int
    OBVIOUS
  <2>3. IsFiniteSet(1..4)
    BY <2>2, FS_Interval
  <2> HIDE DEF R
  <2> QED BY <2>1, <2>3, FS_Subset
<1> HIDE DEF R
<1>5. PICK x : R = {x}
  BY <1>3, <1>4, FS_Singleton
<1> QED BY <1>5 DEF R

LEMMA ProcessesNvfp4Weight ==
  ASSUME WeightsAssumption, CheckpointFacts, NEW p, CreatedOf(p, Linear!Shards), Linear!WeightKey = "nvfp4"
  PROVE  LET q == Linear!ProcessWeight(p)
         IN  /\ DOMAIN q = (DOMAIN p \cup {"weight_global_scale"}) \ {"weight_scale_2"}
             /\ Linear!ScaleIsShared /\ Linear!ScalesAreWritten =>
                  \A s \in Linear!Shards : ckScale[s] = q["weight_global_scale"]
             /\ \A x \in DOMAIN p : x \notin {"weight_scale_2", "weight_global_scale"} => q[x] = p[x]
<1> DEFINE g == Linear!MaxOf(p["weight_scale_2"])
           f == [weight_global_scale |-> g]
           h == Linear!Over(f, p)
           q == Linear!ProcessWeight(p)
<1>1. q = Linear!Without(h, {"weight_scale_2"})
  BY DEF Linear!ProcessWeight, Linear!ProcessNvfp4
<1>2. Linear!ScalesAreWritten => \E s \in Linear!Shards : g = ckScale[s]
  <2> SUFFICES ASSUME Linear!ScalesAreWritten PROVE \E s \in Linear!Shards : g = ckScale[s]
    OBVIOUS
  <2>1. ShardScales(p["weight_scale_2"], ckScale, Linear!Shards, FALSE)
    BY DEF CreatedOf
  <2>2. disk = "split" \/ Len(widths) = 1
    BY DEF CheckpointFacts, Linear!ScalesAreWritten
  <2>3. ckScale \in [Linear!Shards -> ScaleValues]
    BY DEF CheckpointFacts, WeightsAssumption, Linear!LinearAssumption, ScaleValues
  <2> QED BY <2>1, <2>2, <2>3, AllScales
<1>3. DOMAIN f = {"weight_global_scale"} /\ f["weight_global_scale"] = g
  OBVIOUS
<1> HIDE DEF g, f
<1>4. /\ DOMAIN h = DOMAIN f \cup DOMAIN p
      /\ \A x \in DOMAIN f : h[x] = f[x]
      /\ \A x \in DOMAIN p : x \notin DOMAIN f => h[x] = p[x]
  BY OverIs, Zenon
<1> HIDE DEF h
<1>5. /\ DOMAIN q = DOMAIN h \ {"weight_scale_2"}
      /\ \A x \in DOMAIN h \ {"weight_scale_2"} : q[x] = h[x]
  <2> DEFINE z == Linear!Without(h, {"weight_scale_2"})
  <2>1. /\ DOMAIN z = DOMAIN h \ {"weight_scale_2"}
        /\ \A x \in DOMAIN h \ {"weight_scale_2"} : z[x] = h[x]
    BY WithoutIs, Zenon
  <2> QED BY <1>1, <2>1
<1> HIDE DEF q
<1>6. DOMAIN q = (DOMAIN p \cup {"weight_global_scale"}) \ {"weight_scale_2"}
  BY <1>3, <1>4, <1>5
<1>7. q["weight_global_scale"] = g
  BY <1>3, <1>4, <1>5
<1>8. \A x \in DOMAIN p : x \notin {"weight_scale_2", "weight_global_scale"} => q[x] = p[x]
  BY <1>3, <1>4, <1>5
<1>9. Linear!ScaleIsShared /\ Linear!ScalesAreWritten => \A s \in Linear!Shards : ckScale[s] = g
  BY <1>2, SharedScale
<1> QED BY <1>6, <1>7, <1>8, <1>9 DEF q

LEMMA ProcessesNvfp4 ==
  ASSUME WeightsAssumption, CheckpointFacts, NEW p, NEW emulate, CreatedOf(p, Linear!Shards), algo = "NVFP4"
  PROVE  ProcessedOf(Chain(p, emulate))
<1> DEFINE q == Linear!ProcessWeight(p)
           i == Linear!MaxOf(q["input_scale"])
           f == [input_global_scale |-> i, input_global_scale_inv |-> i]
           h == Linear!Over(f, q)
           t == Linear!ProcessActivation(q)
           a == [alpha |-> t["input_global_scale"] * t["weight_global_scale"]]
           u == Linear!MaybeFuse(t)
<1>1. Linear!WeightKey = "nvfp4" /\ Linear!ActivationKey = "nvfp4"
  BY AlgosAre
<1>2. DOMAIN p = {"weight", "weight_scale", "weight_scale_2", "input_scale"}
  BY <1>1 DEF CreatedOf, CreatedNames
<1>3. /\ DOMAIN q = (DOMAIN p \cup {"weight_global_scale"}) \ {"weight_scale_2"}
      /\ Linear!ScaleIsShared /\ Linear!ScalesAreWritten =>
           \A s \in Linear!Shards : ckScale[s] = q["weight_global_scale"]
      /\ \A x \in DOMAIN p : x \notin {"weight_scale_2", "weight_global_scale"} => q[x] = p[x]
  BY <1>1, ProcessesNvfp4Weight
<1> HIDE DEF q
<1>4. /\ DOMAIN q = {"weight", "weight_scale", "weight_global_scale", "input_scale"}
      /\ q["weight"] = p["weight"] /\ q["weight_scale"] = p["weight_scale"] /\ q["input_scale"] = p["input_scale"]
  BY <1>2, <1>3
<1>5. Linear!ScalesAreWritten => i \in ScaleValues
  <2> SUFFICES ASSUME Linear!ScalesAreWritten PROVE i \in ScaleValues
    OBVIOUS
  <2>1. ShardScales(p["input_scale"], ckInput, Linear!Shards, FALSE)
    BY DEF CreatedOf
  <2>2. ckInput \in [Linear!Shards -> ScaleValues]
    BY <1>1 DEF CheckpointFacts, Linear!HasInputScale, WeightsAssumption, Linear!LinearAssumption, ScaleValues
  <2>3. disk = "split" \/ Len(widths) = 1
    BY <1>1 DEF CheckpointFacts, Linear!ScalesAreWritten
  <2>4. Linear!MaxOf(p["input_scale"]) \in ScaleValues
    BY <2>1, <2>2, <2>3, AllScales
  <2> QED BY <1>4, <2>4
<1>6. t = Linear!Without(h, {"input_scale"})
  BY <1>1 DEF Linear!ProcessActivation
<1>7. /\ DOMAIN f = {"input_global_scale", "input_global_scale_inv"}
      /\ f["input_global_scale"] = i /\ f["input_global_scale_inv"] = i
  OBVIOUS
<1> HIDE DEF i, f, t
<1>8. /\ DOMAIN h = DOMAIN f \cup DOMAIN q
      /\ \A x \in DOMAIN f : h[x] = f[x]
      /\ \A x \in DOMAIN q : x \notin DOMAIN f => h[x] = q[x]
  BY OverIs, Zenon
<1> HIDE DEF h
<1>9. /\ DOMAIN t = DOMAIN h \ {"input_scale"}
      /\ \A x \in DOMAIN h \ {"input_scale"} : t[x] = h[x]
  <2> DEFINE z == Linear!Without(h, {"input_scale"})
  <2>1. /\ DOMAIN z = DOMAIN h \ {"input_scale"}
        /\ \A x \in DOMAIN h \ {"input_scale"} : z[x] = h[x]
    BY WithoutIs, Zenon
  <2> QED BY <1>6, <2>1
<1>10. /\ DOMAIN t = {"weight", "weight_scale", "weight_global_scale", "input_global_scale", "input_global_scale_inv"}
       /\ t["weight"] = p["weight"] /\ t["weight_scale"] = p["weight_scale"]
       /\ t["weight_global_scale"] = q["weight_global_scale"]
       /\ t["input_global_scale"] = i /\ t["input_global_scale_inv"] = i
  BY <1>4, <1>7, <1>8, <1>9
<1>11. u = Linear!Over(a, t)
  BY <1>10 DEF Linear!MaybeFuse
<1>12. DOMAIN a = {"alpha"} /\ a["alpha"] = t["input_global_scale"] * t["weight_global_scale"]
  OBVIOUS
<1> HIDE DEF a, u
<1>13. /\ DOMAIN u = DOMAIN a \cup DOMAIN t
       /\ \A x \in DOMAIN a : u[x] = a[x]
       /\ \A x \in DOMAIN t : x \notin DOMAIN a => u[x] = t[x]
  <2> DEFINE z == Linear!Over(a, t)
  <2>1. /\ DOMAIN z = DOMAIN a \cup DOMAIN t
        /\ \A x \in DOMAIN a : z[x] = a[x]
        /\ \A x \in DOMAIN t : x \notin DOMAIN a => z[x] = t[x]
    BY OverIs, Zenon
  <2> QED BY <1>11, <2>1
<1>14. /\ DOMAIN u = DOMAIN t \cup {"alpha"}
       /\ u["alpha"] = i * q["weight_global_scale"]
       /\ u["weight"] = p["weight"] /\ u["weight_scale"] = p["weight_scale"]
       /\ u["weight_global_scale"] = q["weight_global_scale"] /\ u["input_global_scale_inv"] = i
  BY <1>10, <1>12, <1>13
<1>15. Chain(p, emulate) = u
  <2>1. Linear!PostProcess(u) = u
    BY DEF Linear!PostProcess
  <2>2. Linear!KernelProcess(u, emulate) = u
    BY <1>1 DEF Linear!KernelProcess
  <2> QED BY <2>1, <2>2 DEF Chain, u, t, q
<1>16. "logical_out" \notin DOMAIN u /\ DOMAIN u \ {"logical_out"} = Linear!KernelParams
  BY <1>10, <1>14 DEF Linear!KernelParams
<1>17. LoadedRows(u)
  <2>1. LoadedRows(p)
    BY <1>1, AllRows
  <2> QED BY <1>14, <2>1 DEF LoadedRows
<1>18. u["weight"]["layout"] = "out_in" /\ DOMAIN u["weight"]["rows"] = Linear!Rows
  BY <1>14, AllRows
<1>19. ProcessedOf(u)
  BY <1>3, <1>5, <1>14, <1>16, <1>17, <1>18 DEF ProcessedOf
<1> QED BY <1>15, <1>19

LEMMA ProcessesW4A16 ==
  ASSUME WeightsAssumption, CheckpointFacts, NEW p, NEW emulate, CreatedOf(p, Linear!Shards), algo = "W4A16_NVFP4"
  PROVE  ProcessedOf(Chain(p, emulate))
<1> DEFINE q == Linear!ProcessWeight(p)
           t == Linear!Without(q, {"input_scale"})
<1>1. Linear!WeightKey = "nvfp4" /\ Linear!ActivationKey = "none"
  BY AlgosAre
<1>2. DOMAIN p = {"weight", "weight_scale", "weight_scale_2", "input_scale"}
  BY <1>1 DEF CreatedOf, CreatedNames
<1>3. /\ DOMAIN q = (DOMAIN p \cup {"weight_global_scale"}) \ {"weight_scale_2"}
      /\ Linear!ScaleIsShared /\ Linear!ScalesAreWritten =>
           \A s \in Linear!Shards : ckScale[s] = q["weight_global_scale"]
      /\ \A x \in DOMAIN p : x \notin {"weight_scale_2", "weight_global_scale"} => q[x] = p[x]
  BY <1>1, ProcessesNvfp4Weight
<1> HIDE DEF q
<1>4. /\ DOMAIN q = {"weight", "weight_scale", "weight_global_scale", "input_scale"}
      /\ q["weight"] = p["weight"] /\ q["weight_scale"] = p["weight_scale"]
  BY <1>2, <1>3
<1>5. /\ DOMAIN t = DOMAIN q \ {"input_scale"}
      /\ \A x \in DOMAIN q \ {"input_scale"} : t[x] = q[x]
  BY WithoutIs, Zenon
<1>6. Chain(p, emulate) = t
  <2>1. Linear!ProcessActivation(q) = q
    BY <1>1 DEF Linear!ProcessActivation
  <2>2. Linear!MaybeFuse(q) = q
    BY <1>4 DEF Linear!MaybeFuse
  <2>3. Linear!PostProcess(q) = t
    BY DEF Linear!PostProcess
  <2> HIDE DEF t
  <2>4. Linear!KernelProcess(t, emulate) = t
    BY <1>1 DEF Linear!KernelProcess
  <2> QED BY <2>1, <2>2, <2>3, <2>4 DEF Chain, q
<1> HIDE DEF t
<1>7. /\ DOMAIN t = {"weight", "weight_scale", "weight_global_scale"}
      /\ t["weight"] = p["weight"] /\ t["weight_scale"] = p["weight_scale"]
      /\ t["weight_global_scale"] = q["weight_global_scale"]
  BY <1>4, <1>5
<1>8. "logical_out" \notin DOMAIN t /\ DOMAIN t \ {"logical_out"} = Linear!KernelParams
  BY <1>7 DEF Linear!KernelParams
<1>9. LoadedRows(t)
  <2>1. LoadedRows(p)
    BY <1>1, AllRows
  <2> QED BY <1>7, <2>1 DEF LoadedRows
<1>10. t["weight"]["layout"] = "out_in" /\ DOMAIN t["weight"]["rows"] = Linear!Rows
  BY <1>7, AllRows
<1>11. ProcessedOf(t)
  BY <1>3, <1>7, <1>8, <1>9, <1>10 DEF ProcessedOf
<1> QED BY <1>6, <1>11

(* What is padded once needs no more.                                      *)
LEMMA PadsToBlocks ==
  ASSUME NEW n \in Nat, NEW b \in Nat \ {0}, (b - (n % b)) % b > 0
  PROVE  (b - ((n + ((b - (n % b)) % b)) % b)) % b = 0
<1> DEFINE m == n % b
           q == n \div b
<1>1. m \in 0..b-1 /\ q \in Int /\ n = q * b + m
  OBVIOUS
<1>2. b % b = 0
  OBVIOUS
<1> HIDE DEF m, q
<1>3. m # 0
  <2>1. m = 0 => (b - m) % b = 0
    BY <1>2
  <2> QED BY <2>1 DEF m
<1>4. (b - m) % b = b - m
  BY <1>1, <1>3
<1>5. n + (b - m) = (q + 1) * b
  BY <1>1
<1>6. ((q + 1) * b) % b = 0
  BY <1>1
<1>7. (n + ((b - m) % b)) % b = 0
  BY <1>4, <1>5, <1>6
<1>8. (b - ((n + ((b - m) % b)) % b)) % b = 0
  BY <1>2, <1>7
<1> QED BY <1>8 DEF m

(* The rows are padded to whole blocks.                                    *)
LEMMA ProcessesBlocks ==
  ASSUME WeightsAssumption, CheckpointFacts, NEW p, NEW emulate, CreatedOf(p, Linear!Shards), algo = "FP8_PB_WO"
  PROVE  ProcessedOf(Chain(p, emulate))
<1> DEFINE w == p["weight"]
           x == w["rows"]
           k == Linear!Padding(x)
           n == Linear!Width(Linear!Shards)
<1>1. Linear!WeightKey = "block" /\ Linear!ActivationKey = "dynamic"
  BY AlgosAre
<1>2. DOMAIN p = {"weight", "weight_scale"}
  BY <1>1 DEF CreatedOf, CreatedNames
<1>3. /\ DOMAIN w = {"rows", "layout", "exact"} /\ w["layout"] = "out_in"
      /\ DOMAIN x = Linear!Rows /\ LoadedRows(p) /\ \A r \in Linear!Rows : x[r] = Linear!Code(r)
  BY <1>1, AllRows
<1>4. n \in Nat \ {0} /\ Linear!Rows = 1..n
  BY ShardsAre
<1>5. Linear!KernelParams = {"weight", "weight_scale"}
  BY DEF Linear!KernelParams
<1>6. Linear!ProcessWeight(p) = p /\ Linear!ProcessActivation(p) = p /\ Linear!MaybeFuse(p) = p
  BY <1>1, <1>2 DEF Linear!ProcessWeight, Linear!ProcessActivation, Linear!MaybeFuse
<1>7. Chain(p, emulate) = Linear!PostProcess(p)
  BY <1>1, <1>6 DEF Chain, Linear!KernelProcess
<1> HIDE DEF n
<1>8. x \in Seq(Int) /\ Len(x) = n
  <2>1. \A r \in 1..n : x[r] \in Int
    BY <1>3, <1>4 DEF Linear!Code
  <2>2. x = [r \in 1..n |-> x[r]]
    <3>1. x = [r \in Linear!Rows |-> x[r]]
      BY AllRows
    <3> QED BY <1>4, <3>1
  <2> HIDE DEF x
  <2> QED BY <1>4, <2>1, <2>2, IsASeq
<1> DEFINE slack == Block - (Len(x) % Block)
<1>11. /\ k \in Nat /\ Block \in Nat \ {0} /\ slack \in Int /\ k = slack % Block
  <2>1. Block \in Nat \ {0}
    BY DEF WeightsAssumption, Linear!LinearAssumption
  <2>2. slack \in Int
    BY <1>4, <1>8, <2>1
  <2>3. k = slack % Block
    BY DEF Linear!Padding
  <2> HIDE DEF slack, k
  <2> QED BY <2>1, <2>2, <2>3
<1> HIDE DEF slack
<1>9. CASE ~(k > 0)
  <2>1. Linear!PostProcess(p) = p
    BY <1>9 DEF Linear!PostProcess
  <2>4. Linear!Padding(x) = 0
    BY <1>9, <1>11
  <2>2. "logical_out" \notin DOMAIN p /\ DOMAIN p \ {"logical_out"} = Linear!KernelParams
    BY <1>2, <1>5
  <2>3. ProcessedOf(p)
    BY <1>3, <2>2, <2>4 DEF ProcessedOf
  <2> QED BY <1>7, <2>1, <2>3
<1>10. CASE k > 0
  <2> DEFINE f == [logical_out |-> Len(x)]
             zeros == [i \in 1..k |-> 0]
             y == x \o zeros
             q == [p EXCEPT !["weight"] = [w EXCEPT !["rows"] = y]]
             u == Linear!Over(f, q)
  <2>1. Linear!PostProcess(p) = u
    BY <1>10 DEF Linear!PostProcess
  <2>2. k \in Nat /\ k = (Block - (n % Block)) % Block
    BY <1>8, <1>11 DEF slack
  <2> HIDE DEF x, k, w
  <2>3. zeros \in Seq(Int) /\ Len(zeros) = k
    <3>1. \A i \in 1..k : 0 \in Int
      OBVIOUS
    <3> QED BY <2>2, IsASeq
  <2> HIDE DEF zeros
  <2>4. /\ y \in Seq(Int) /\ Len(y) = n + k /\ DOMAIN y = 1..(n + k)
        /\ \A r \in 1..n : y[r] = x[r]
    BY <1>4, <1>8, <2>2, <2>3, SMTT(60)
  <2> HIDE DEF y
  <2>5. DOMAIN f = {"logical_out"} /\ f["logical_out"] = n
    BY <1>8
  <2>6. /\ DOMAIN q = {"weight", "weight_scale"} /\ q["weight_scale"] = p["weight_scale"]
        /\ q["weight"]["rows"] = y /\ q["weight"]["layout"] = "out_in"
    BY <1>2, <1>3 DEF w
  <2> HIDE DEF f, q
  <2>7. /\ DOMAIN u = DOMAIN f \cup DOMAIN q
        /\ \A z \in DOMAIN f : u[z] = f[z]
        /\ \A z \in DOMAIN q : z \notin DOMAIN f => u[z] = q[z]
    BY OverIs, Zenon
  <2> HIDE DEF u
  <2>8. /\ DOMAIN u = {"weight", "weight_scale", "logical_out"} /\ u["logical_out"] = n
        /\ u["weight_scale"] = p["weight_scale"]
        /\ u["weight"]["rows"] = y /\ u["weight"]["layout"] = "out_in"
    BY <2>5, <2>6, <2>7
  <2>9. LoadedRows(u)
    BY <1>3, <1>4, <2>4, <2>8 DEF LoadedRows
  <2>10. "logical_out" \in DOMAIN u /\ DOMAIN u \ {"logical_out"} = Linear!KernelParams
    BY <1>5, <2>8
  <2>11. \E l \in Nat : l >= u["logical_out"] /\ DOMAIN u["weight"]["rows"] = 1..l
    <3>1. n + k \in Nat /\ n + k >= n
      BY <1>4, <2>2
    <3> QED BY <2>4, <2>8, <3>1
  <2>13. Linear!Padding(u["weight"]["rows"]) = 0
    <3>1. Linear!Padding(y) = (Block - ((n + k) % Block)) % Block
      BY <2>4 DEF Linear!Padding
    <3>2. (Block - ((n + ((Block - (n % Block)) % Block)) % Block)) % Block = 0
      BY <1>4, <1>10, <1>11, <2>2, PadsToBlocks
    <3> QED BY <2>2, <2>8, <3>1, <3>2, Zenon
  <2>12. ProcessedOf(u)
    BY <2>8, <2>9, <2>10, <2>11, <2>13 DEF ProcessedOf, n
  <2> QED BY <1>7, <2>1, <2>12
<1> QED BY <1>9, <1>10

LEMMA BlocksStay ==
  ASSUME CheckpointFacts, NEW p, NEW emulate, ProcessedOf(p), algo = "FP8_PB_WO"
  PROVE  ProcessedOf(Chain(p, emulate))
<1>1. Linear!WeightKey = "block" /\ Linear!ActivationKey = "dynamic"
  BY AlgosAre
<1>2. Linear!KernelParams = {"weight", "weight_scale"}
  BY DEF Linear!KernelParams
<1>3. DOMAIN p \ {"logical_out"} = {"weight", "weight_scale"} /\ ~(Linear!Padding(p["weight"]["rows"]) > 0)
  BY <1>2 DEF ProcessedOf
<1>4. Linear!ProcessWeight(p) = p /\ Linear!ProcessActivation(p) = p
  BY <1>1 DEF Linear!ProcessWeight, Linear!ProcessActivation
<1>5. "weight_global_scale" \notin DOMAIN p
  BY <1>3
<1>6. Linear!MaybeFuse(p) = p
  BY <1>5 DEF Linear!MaybeFuse
<1>7. Linear!PostProcess(p) = p
  BY <1>3 DEF Linear!PostProcess
<1>8. Linear!KernelProcess(p, emulate) = p
  BY <1>1 DEF Linear!KernelProcess
<1> QED BY <1>4, <1>6, <1>7, <1>8 DEF Chain

-----------------------------------------------------------------------------
(* The weights: what is computed with them                                 *)

Expected == [r \in Linear!Rows |-> Linear!Input * Linear!RowValue(r) + bias]

LEMMA RowValueIs ==
  ASSUME WeightsAssumption, CheckpointFacts, NEW r \in Linear!Rows
  PROVE  /\ Linear!RowValue(r) \in Int /\ Linear!Code(r) \in Int /\ ScaleOf(r) \in ScaleValues
         /\ Linear!WeightKey # "nvfp4" => Linear!RowValue(r) = Linear!Code(r) * ScaleOf(r)
         /\ Linear!WeightKey = "nvfp4" =>
              /\ Linear!RowValue(r) = Linear!Code(r) * Linear!DiskScale(Linear!ShardOf(r)) * 2
              /\ ScaleOf(r) = 2
<1> DEFINE s == Linear!ShardOf(r)
           d == Linear!DiskScale(s)
           c == Linear!Code(r)
           f == IF Linear!WeightKey = "nvfp4" THEN 2 ELSE 1
<1>1. s \in Linear!Shards /\ r \in Nat
  BY ShardOfIs
<1>2. d \in ScaleValues /\ ScaleOf(r) \in ScaleValues
  BY <1>1, ScalesAre DEF ScaleValues
<1>3. c \in Int
  BY <1>1 DEF Linear!Code
<1>4. Linear!RowValue(r) = c * d * f
  BY DEF Linear!RowValue, Linear!DiskScale
<1>6. Linear!WeightKey # "nvfp4" => ScaleOf(r) = d
  BY DEF ScaleOf
<1>7. Linear!WeightKey = "nvfp4" => ScaleOf(r) = 2
  BY DEF ScaleOf
<1>8. d \in Int
  BY <1>2 DEF ScaleValues
<1> HIDE DEF s, d, c
<1>9. c * d \in Int /\ c * d * 1 = c * d
  BY <1>3, <1>8
<1> QED BY <1>2, <1>3, <1>4, <1>6, <1>7, <1>9 DEF s, d, c

(* The product of a row and its scale, in the kernel                       *)
LEMMA AppliesRow ==
  ASSUME WeightsAssumption, CheckpointFacts, ProcessedOf(params), Linear!ScaleIsShared, Linear!ScalesAreWritten,
         NEW r \in Linear!Rows
  PROVE  /\ r \in DOMAIN params["weight"]["rows"]
         /\ Linear!Rescale(params["weight"]["rows"][r] * Linear!RowScale(r)) = Linear!Input * Linear!RowValue(r)
<1> DEFINE x == params["weight"]["rows"][r]
           c == Linear!Code(r)
           k == ScaleOf(r)
<1>1. c \in Int /\ k \in ScaleValues /\ k \in Int /\ r \in Linear!Rows /\ Linear!RowValue(r) \in Int
  BY RowValueIs DEF ScaleValues
<1>2. c * k \in Int
  BY <1>1
<1>3. r \in DOMAIN params["weight"]["rows"]
  <2>1. CASE DOMAIN params["weight"]["rows"] = Linear!Rows
    BY <2>1
  <2>2. CASE /\ params["logical_out"] = Linear!Width(Linear!Shards)
             /\ \E n \in Nat : n >= params["logical_out"] /\ DOMAIN params["weight"]["rows"] = 1..n
    <3>1. PICK n \in Nat : n >= Linear!Width(Linear!Shards) /\ DOMAIN params["weight"]["rows"] = 1..n
      BY <2>2
    <3>2. Linear!Rows = 1..Linear!Width(Linear!Shards) /\ Linear!Width(Linear!Shards) \in Nat
      BY ShardsAre
    <3>3. r \in 1..n
      BY <3>1, <3>2
    <3> QED BY <3>1, <3>3
  <2> QED BY <2>1, <2>2 DEF ProcessedOf
<1>4. CASE algo = "FP8"
  <2> DEFINE s == params["weight_scale"]
             i == params["input_scale"]
  <2>1. Linear!WeightKey = "tensor"
    BY <1>4, AlgosAre
  <2>2. i \in ScaleValues /\ x * s = c * k
    BY <1>4 DEF ProcessedOf
  <2>3. Linear!RowScale(r) = s
    BY <2>1 DEF Linear!RowScale
  <2>4. Linear!RowValue(r) = c * k
    BY <2>1, RowValueIs
  <2>5. Linear!Rescale(x * s) = (4 \div i) * (x * s) * i
    BY <1>4 DEF Linear!Rescale, Linear!Input
  <2> DEFINE v == x * s
  <2>6. v = c * k
    BY <2>2
  <2> HIDE DEF x, s, i, c, k, v
  <2>7. (4 \div i) * v * i = 4 * v
    <3>1. v \in Int
      BY <1>2, <2>6
    <3>2. CASE i = 1
      <4>1. 4 \div 1 = 4
        OBVIOUS
      <4> QED BY <3>1, <3>2, <4>1
    <3>3. CASE i = 2
      <4>1. 4 \div 2 = 2
        OBVIOUS
      <4> QED BY <3>1, <3>3, <4>1
    <3>4. CASE i = 4
      <4>1. 4 \div 4 = 1
        OBVIOUS
      <4> QED BY <3>1, <3>4, <4>1
    <3> QED BY <2>2, <3>2, <3>3, <3>4 DEF ScaleValues
  <2>8. Linear!Rescale(v) = 4 * v
    BY <2>5, <2>7 DEF v
  <2> QED BY <1>3, <2>3, <2>4, <2>6, <2>8 DEF Linear!Input, x, s, v
<1>5. CASE algo \in {"FP8_PER_CHANNEL_PER_TOKEN", "FP8_PB_WO"}
  <2>1. Linear!WeightKey \in {"channel", "block"} /\ LoadedRows(params)
    BY <1>5, AlgosAre DEF ProcessedOf
  <2>2. Linear!RowScale(r) = k /\ x = c
    BY <2>1 DEF Linear!RowScale, LoadedRows, Place, BlockOf
  <2>3. Linear!RowValue(r) = c * k
    BY <2>1, RowValueIs
  <2>4. Linear!Rescale(c * k) = Linear!Input * (c * k)
    BY <1>5 DEF Linear!Rescale
  <2> QED BY <1>3, <2>2, <2>3, <2>4
<1>6. CASE algo = "MXFP8"
  <2>1. Linear!WeightKey = "mxfp8"
    BY <1>6, AlgosAre
  <2>2. Linear!RowValue(r) = c * k
    BY <2>1, RowValueIs
  <2>3. x * Linear!RowScale(r) = c * k
    <3>1. CASE params["weight"]["exact"] = FALSE /\ LoadedRows(params)
      <4>1. x = c
        BY <3>1 DEF LoadedRows
      <4>2. Linear!RowScale(r) = k
        BY <2>1, <3>1 DEF Linear!RowScale, LoadedRows, Place
      <4> QED BY <4>1, <4>2
    <3>2. CASE params["weight"]["exact"] = TRUE /\ x = c * k
      <4>1. Linear!RowScale(r) = 1
        BY <2>1, <3>2 DEF Linear!RowScale
      <4> HIDE DEF x
      <4> QED BY <1>2, <3>2, <4>1
    <3>3. \/ params["weight"]["exact"] = FALSE /\ LoadedRows(params)
          \/ params["weight"]["exact"] = TRUE /\ x = c * k
      BY <1>6 DEF ProcessedOf
    <3> QED BY <3>1, <3>2, <3>3
  <2>4. Linear!Rescale(c * k) = Linear!Input * (c * k)
    BY <1>6 DEF Linear!Rescale
  <2> QED BY <1>3, <2>2, <2>3, <2>4
<1>7. CASE algo \in {"NVFP4", "W4A16_NVFP4"}
  <2> DEFINE g == params["weight_global_scale"]
             i == params["input_global_scale_inv"]
             a == params["alpha"]
  <2>1. Linear!WeightKey = "nvfp4" /\ LoadedRows(params)
    BY <1>7, AlgosAre DEF ProcessedOf
  <2>2. Linear!RowScale(r) = 2 /\ x = c
    BY <2>1, RowValueIs DEF Linear!RowScale, LoadedRows, Place
  <2>3. g = Linear!DiskScale(Linear!ShardOf(r)) /\ g \in ScaleValues
    <3>1. \A s \in Linear!Shards : ckScale[s] = g
      BY <1>7 DEF ProcessedOf
    <3>2. 1 \in Linear!Shards /\ Linear!ShardOf(r) \in Linear!Shards /\ ckScale[1] \in ScaleValues
      BY ShardOfIs, ScalesAre DEF ScaleValues
    <3> QED BY <3>1, <3>2 DEF Linear!DiskScale
  <2>4. Linear!RowValue(r) = c * g * 2
    BY <2>1, <2>3, RowValueIs
  <2>5. CASE algo = "W4A16_NVFP4"
    <3>1. Linear!Rescale(c * 2) = 4 * (c * 2) * g
      BY <2>5 DEF Linear!Rescale, Linear!Input
    <3> HIDE DEF x, c, g
    <3>2. 4 * (c * 2) * g = 4 * (c * g * 2)
      BY <1>1, <2>3 DEF ScaleValues
    <3> QED BY <1>3, <2>2, <2>4, <3>1, <3>2 DEF Linear!Input, x
  <2>6. CASE algo = "NVFP4"
    <3>1. Linear!Rescale(c * 2) = (4 \div i) * (c * 2) * a
      BY <2>6 DEF Linear!Rescale, Linear!Input
    <3>2. i \in ScaleValues /\ a = i * g
      BY <2>6 DEF ProcessedOf
    <3> HIDE DEF x, c, g, i, a
    <3>3. g = 1 \/ g = 2 \/ g = 4
      BY <2>3 DEF ScaleValues
    <3>4. (4 \div i) * (c * 2) * (i * g) = 4 * (c * g * 2)
      <4>1. CASE i = 1
        <5>1. 4 \div 1 = 4
          OBVIOUS
        <5> QED BY <1>1, <3>3, <4>1, <5>1
      <4>2. CASE i = 2
        <5>1. 4 \div 2 = 2
          OBVIOUS
        <5> QED BY <1>1, <3>3, <4>2, <5>1
      <4>3. CASE i = 4
        <5>1. 4 \div 4 = 1
          OBVIOUS
        <5> QED BY <1>1, <3>3, <4>3, <5>1
      <4> QED BY <3>2, <4>1, <4>2, <4>3 DEF ScaleValues
    <3> QED BY <1>3, <2>2, <2>4, <3>1, <3>2, <3>4 DEF Linear!Input, x
  <2> QED BY <1>7, <2>5, <2>6
<1> QED BY <1>4, <1>5, <1>6, <1>7, AlgosAre

LEMMA AppliesAll ==
  ASSUME WeightsAssumption, CheckpointFacts, ProcessedOf(params), Linear!ScaleIsShared, Linear!ScalesAreWritten
  PROVE  Linear!FormatApply = Expected
<1> DEFINE x == params["weight"]["rows"]
           v(r) == Linear!Rescale(x[r] * Linear!RowScale(r))
           n == Linear!Width(Linear!Shards)
<1>1. \A r \in Linear!Rows : r \in DOMAIN x /\ v(r) = Linear!Input * Linear!RowValue(r)
  BY AppliesRow
<1>2. \A b : Linear!KernelApply(b) = [r \in DOMAIN x |-> v(r) + b]
  BY DEF Linear!KernelApply
<1>3. n \in Nat \ {0} /\ Linear!Rows = 1..n
  BY ShardsAre
<1>4. bias \in Int
  BY DEF CheckpointFacts, WeightsAssumption, Linear!LinearAssumption
<1>5. \A r \in Linear!Rows : Linear!Input * Linear!RowValue(r) \in Int
  <2>1. \A r \in Linear!Rows : Linear!RowValue(r) \in Int
    BY RowValueIs
  <2> QED BY <2>1 DEF Linear!Input
<1> HIDE DEF x, v, n
<1>6. CASE "logical_out" \notin DOMAIN params
  <2>1. DOMAIN x = Linear!Rows
    BY <1>6 DEF ProcessedOf, x
  <2>2. Linear!FormatApply = Linear!KernelApply(bias)
    BY <1>6 DEF Linear!FormatApply
  <2> QED BY <1>1, <1>2, <2>1, <2>2 DEF Expected
<1>7. CASE "logical_out" \in DOMAIN params
  <2>1. params["logical_out"] = n /\ \E m \in Nat : m >= n /\ DOMAIN x = 1..m
    BY <1>7 DEF ProcessedOf, x, n
  <2>2. PICK m \in Nat : m >= n /\ DOMAIN x = 1..m
    BY <2>1
  <2> DEFINE t == SubSeq(Linear!KernelApply(0), 1, n)
             u == [r \in 1..m |-> v(r) + 0]
  <2>3. Linear!KernelApply(0) = u
    BY <1>2, <2>2
  <2>4. DOMAIN t = 1..n /\ \A r \in 1..n : t[r] = v(r) + 0
    <3>1. DOMAIN u = 1..m /\ \A r \in 1..m : u[r] = v(r) + 0
      OBVIOUS
    <3>2. u \in Seq({u[r] : r \in 1..m}) /\ Len(u) = m
      OBVIOUS
    <3> HIDE DEF u
    <3>3. t = SubSeq(u, 1, n)
      BY <2>3
    <3> HIDE DEF t
    <3>4. DOMAIN t = 1..n /\ \A r \in 1..n : t[r] = u[r]
      BY <1>3, <2>2, <3>2, <3>3
    <3> QED BY <2>2, <3>1, <3>4, <1>3
  <2>5. Linear!FormatApply = [r \in DOMAIN t |-> t[r] + bias]
    BY <1>7, <2>1 DEF Linear!FormatApply
  <2> HIDE DEF t, u
  <2>6. \A r \in 1..n : t[r] = Linear!Input * Linear!RowValue(r)
    BY <1>1, <1>3, <1>5, <2>4
  <2> QED BY <1>3, <2>4, <2>5, <2>6 DEF Expected
<1> QED BY <1>6, <1>7

-----------------------------------------------------------------------------
(* The weights: the invariant of a linear layer                            *)

checkpointVars == <<algo, widths, bias, disk, ckScale, ckInput>>

LEMMA FrozenShards ==
  ASSUME UNCHANGED checkpointVars
  PROVE  /\ Linear!Shards' = Linear!Shards /\ Linear!Rows' = Linear!Rows
         /\ Linear!Width(Linear!Shards)' = Linear!Width(Linear!Shards)
         /\ \A s : Linear!Width(1..s)' = Linear!Width(1..s)
         /\ \A r : Linear!ShardOf(r)' = Linear!ShardOf(r)
<1>1. widths' = widths
  BY DEF checkpointVars
<1>2. Linear!Shards' = Linear!Shards
  BY <1>1 DEF Linear!Shards
<1>3. \A S : Linear!Width(S)' = Linear!Width(S)
  BY <1>1 DEF Linear!Width
<1>4. \A s : Linear!Width(1..s)' = Linear!Width(1..s)
  BY <1>1 DEF Linear!Width
<1>5. Linear!Width(Linear!Shards)' = Linear!Width(Linear!Shards)
  BY <1>1, <1>2 DEF Linear!Width
<1>6. Linear!Rows' = Linear!Rows
  BY <1>5 DEF Linear!Rows
<1>7. ASSUME NEW r PROVE Linear!ShardOf(r)' = Linear!ShardOf(r)
  <2>1. {s \in Linear!Shards' : r <= Linear!Width(1..s)'} = {s \in Linear!Shards : r <= Linear!Width(1..s)}
    BY <1>2, <1>4
  <2> QED BY <2>1 DEF Linear!ShardOf
<1> QED BY <1>2, <1>4, <1>5, <1>6, <1>7

LEMMA FrozenScales ==
  ASSUME UNCHANGED checkpointVars
  PROVE  /\ Linear!WeightKey' = Linear!WeightKey /\ Linear!ActivationKey' = Linear!ActivationKey
         /\ CreatedNames' = CreatedNames /\ Linear!KernelParams' = Linear!KernelParams
         /\ \A r : Place(r)' = Place(r) /\ ScaleOf(r)' = ScaleOf(r) /\ Linear!RowValue(r)' = Linear!RowValue(r)
         /\ Linear!ScaleIsShared' = Linear!ScaleIsShared /\ Linear!ScalesAreWritten' = Linear!ScalesAreWritten
<1>1. algo' = algo /\ disk' = disk /\ ckScale' = ckScale /\ widths' = widths
  BY DEF checkpointVars
<1>2. Linear!WeightKey' = Linear!WeightKey /\ Linear!ActivationKey' = Linear!ActivationKey
  BY <1>1 DEF Linear!WeightKey, Linear!ActivationKey
<1>3. CreatedNames' = CreatedNames /\ Linear!KernelParams' = Linear!KernelParams
  BY <1>1, <1>2 DEF CreatedNames, Linear!KernelParams
<1>4. ASSUME NEW r PROVE Place(r)' = Place(r)
  BY <1>2 DEF Place
<1>5. ASSUME NEW r PROVE ScaleOf(r)' = ScaleOf(r)
  <2>1. Linear!ShardOf(r)' = Linear!ShardOf(r)
    BY FrozenShards
  <2>2. Linear!DiskScale(Linear!ShardOf(r))' = Linear!DiskScale(Linear!ShardOf(r))
    BY <1>1, <2>1 DEF Linear!DiskScale
  <2> QED BY <1>2, <2>2 DEF ScaleOf
<1>6. ASSUME NEW r PROVE Linear!RowValue(r)' = Linear!RowValue(r)
  <2>1. Linear!ShardOf(r)' = Linear!ShardOf(r)
    BY FrozenShards
  <2> QED BY <1>1, <1>2, <2>1 DEF Linear!RowValue
<1>7. Linear!ScaleIsShared' = Linear!ScaleIsShared /\ Linear!ScalesAreWritten' = Linear!ScalesAreWritten
  BY <1>1, <1>2 DEF Linear!ScaleIsShared, Linear!ScalesAreWritten
<1> QED BY <1>2, <1>3, <1>4, <1>5, <1>6, <1>7

LEMMA FrozenFacts ==
  ASSUME UNCHANGED checkpointVars, CheckpointFacts PROVE CheckpointFacts' /\ Expected' = Expected
<1>1. /\ algo' = algo /\ widths' = widths /\ bias' = bias /\ disk' = disk /\ ckScale' = ckScale /\ ckInput' = ckInput
  BY DEF checkpointVars
<1>2. Linear!BlocksFit'
  <2>1. Linear!BlocksFit
    BY DEF CheckpointFacts
  <2> QED BY <1>1, <2>1, FrozenShards, FrozenScales DEF Linear!BlocksFit
<1>4. Linear!HasInputScale' = Linear!HasInputScale
  BY FrozenScales DEF Linear!HasInputScale
<1>5. CheckpointFacts'
  BY <1>1, <1>2, <1>4, FrozenShards DEF CheckpointFacts
<1>6. Expected' = Expected
  <2>1. Linear!Rows' = Linear!Rows /\ \A r : Linear!RowValue(r)' = Linear!RowValue(r)
    BY FrozenShards, FrozenScales
  <2> QED BY <1>1, <2>1 DEF Expected
<1> QED BY <1>5, <1>6

LEMMA FrozenCreated ==
  ASSUME UNCHANGED checkpointVars, CreatedOf(params', loaded') PROVE CreatedOf(params, loaded)'
<1>1. ckScale' = ckScale /\ ckInput' = ckInput /\ disk' = disk /\ algo' = algo
  BY DEF checkpointVars
<1>2. WeightIs(params'["weight"], loaded') => WeightIs(params["weight"], loaded)'
  BY FrozenShards DEF WeightIs
<1>3. RowScales(params'["weight_scale"], loaded') => RowScales(params["weight_scale"], loaded)'
  BY FrozenShards, FrozenScales DEF RowScales
<1>5. DOMAIN params' = CreatedNames'
  BY FrozenScales DEF CreatedOf
<1>6. Linear!WeightKey' = Linear!WeightKey
  BY FrozenScales
<1>7. WeightIs(params["weight"], loaded)'
  BY <1>2 DEF CreatedOf
<1>8. Linear!WeightKey = "tensor" => ShardScales(params["weight_scale"], ckScale, loaded, TRUE)'
  <2>1. Linear!WeightKey = "tensor" => ShardScales(params'["weight_scale"], ckScale, loaded', TRUE)
    BY DEF CreatedOf
  <2> QED BY <1>1, <2>1, FrozenShards DEF ShardScales, IsPut
<1>9. Linear!WeightKey # "tensor" => RowScales(params["weight_scale"], loaded)'
  BY <1>3 DEF CreatedOf
<1>10. Linear!WeightKey = "nvfp4" => ShardScales(params["weight_scale_2"], ckScale, loaded, FALSE)'
  <2>1. Linear!WeightKey = "nvfp4" => ShardScales(params'["weight_scale_2"], ckScale, loaded', FALSE)
    BY DEF CreatedOf
  <2> QED BY <1>1, <2>1, FrozenShards DEF ShardScales, IsPut
<1>11. algo = "FP8" => ShardScales(params["input_scale"], ckInput, loaded, TRUE)'
  <2>1. algo = "FP8" => ShardScales(params'["input_scale"], ckInput, loaded', TRUE)
    BY DEF CreatedOf
  <2> QED BY <1>1, <2>1, FrozenShards DEF ShardScales, IsPut
<1>12. algo = "NVFP4" => ShardScales(params["input_scale"], ckInput, loaded, FALSE)'
  <2>1. algo = "NVFP4" => ShardScales(params'["input_scale"], ckInput, loaded', FALSE)
    BY DEF CreatedOf
  <2> QED BY <1>1, <2>1, FrozenShards DEF ShardScales, IsPut
<1> QED BY <1>1, <1>5, <1>6, <1>7, <1>8, <1>9, <1>10, <1>11, <1>12 DEF CreatedOf

LEMMA FrozenProcessed ==
  ASSUME UNCHANGED checkpointVars, ProcessedOf(params') PROVE ProcessedOf(params)'
<1>1. ckScale' = ckScale /\ algo' = algo
  BY DEF checkpointVars
<1>2. /\ Linear!Shards' = Linear!Shards /\ Linear!Rows' = Linear!Rows
      /\ Linear!Width(Linear!Shards)' = Linear!Width(Linear!Shards)
  BY FrozenShards
<1>3. /\ Linear!KernelParams' = Linear!KernelParams /\ Linear!ScaleIsShared' = Linear!ScaleIsShared
      /\ Linear!ScalesAreWritten' = Linear!ScalesAreWritten
      /\ \A r : Place(r)' = Place(r) /\ ScaleOf(r)' = ScaleOf(r)
  BY FrozenScales
<1>4. LoadedRows(params') => LoadedRows(params)'
  BY <1>2, <1>3 DEF LoadedRows
<1> QED BY <1>1, <1>2, <1>3, <1>4 DEF ProcessedOf

LinearInv ==
  topic = "linear" =>
    /\ CheckpointFacts /\ loaded \subseteq Linear!Shards
    /\ stage \in {"new", "created", "processed", "again", "failed"}
    /\ stage = "new" => loaded = {}
    /\ stage \notin {"processed", "again"} => out = <<>>
    /\ stage = "created" => CreatedOf(params, loaded)
    /\ stage = "again" => Linear!WeightKey \notin {"tensor", "nvfp4"}
    /\ Linear!Ready => ProcessedOf(params)
    /\ out # <<>> /\ Linear!Ready /\ Linear!ScaleIsShared /\ Linear!ScalesAreWritten => out = Expected

LEMMA FrozenReady ==
  ASSUME UNCHANGED checkpointVars, stage' = stage PROVE Linear!Ready' = Linear!Ready
  BY FrozenScales DEF Linear!Ready

LEMMA LayoutIs ==
  ASSUME CheckpointFacts, ProcessedOf(params) PROVE Linear!LayoutFits
<1>1. Linear!WeightKey \in {"tensor", "channel"} <=> algo \in {"FP8", "FP8_PER_CHANNEL_PER_TOKEN"}
  BY AlgosAre
<1> QED BY <1>1 DEF ProcessedOf, Linear!LayoutFits

LEMMA ProcessesAll ==
  ASSUME WeightsAssumption, CheckpointFacts, NEW p, NEW emulate \in BOOLEAN,
         CreatedOf(p, Linear!Shards) \/ (ProcessedOf(p) /\ algo \in {"MXFP8", "FP8_PB_WO"})
  PROVE  ProcessedOf(Chain(p, emulate))
<1>1. CASE algo = "MXFP8"
  BY <1>1, ProcessesMxfp8
<1>2. CASE algo = "FP8_PB_WO"
  BY <1>2, ProcessesBlocks, BlocksStay
<1>3. CASE algo \notin {"MXFP8", "FP8_PB_WO"}
  <2>1. CreatedOf(p, Linear!Shards)
    BY <1>3
  <2> QED BY <1>3, <2>1, AlgosAre, ProcessesFp8, ProcessesChannel, ProcessesNvfp4, ProcessesW4A16
<1> QED BY <1>1, <1>2, <1>3

LEMMA LinearStep ==
  ASSUME WeightsAssumption, LinearInv, topic = "linear", Linear!Next, UNCHANGED topic
  PROVE  LinearInv'
<1>1. CASE Linear!CreateWeights
  <2>1. PICK g \in Garbage : params' = Linear!Over(Linear!Over(Linear!WeightParams(g), Linear!ActivationParams(g)),
                                                   Linear!ExtraWeights)
    BY <1>1 DEF Linear!CreateWeights
  <2>2. UNCHANGED checkpointVars /\ loaded' = loaded /\ out' = out /\ stage = "new" /\ stage' = "created"
    BY <1>1 DEF Linear!CreateWeights, Linear!checkpoint, checkpointVars
  <2>3. CheckpointFacts /\ loaded = {} /\ out = <<>>
    BY <2>2 DEF LinearInv
  <2>4. CreatedOf(params', loaded')
    BY <2>1, <2>2, <2>3, CreatesThem
  <2>5. CreatedOf(params, loaded)' /\ CheckpointFacts'
    BY <2>2, <2>3, <2>4, FrozenCreated, FrozenFacts
  <2> QED BY <2>2, <2>3, <2>5 DEF LinearInv, Linear!Ready
<1>2. ASSUME NEW shards, NEW first, LoadsOneOf(shards, first), Linear!Load(shards, first)
      PROVE  LinearInv'
  <2>1. /\ UNCHANGED checkpointVars /\ loaded' = loaded \cup shards /\ out' = out
        /\ stage = "created" /\ stage' = "created"
    BY <1>2 DEF Linear!Load, Linear!checkpoint, checkpointVars
  <2>2. CheckpointFacts /\ out = <<>> /\ CreatedOf(params, loaded) /\ loaded \subseteq Linear!Shards
    BY <2>1 DEF LinearInv
  <2>3. CreatedOf(params', loaded')
    BY <1>2, <2>1, <2>2, LoadsThem
  <2>4. CreatedOf(params, loaded)' /\ CheckpointFacts'
    BY <2>1, <2>2, <2>3, FrozenCreated, FrozenFacts
  <2>5. loaded' \subseteq Linear!Shards'
    BY <1>2, <2>1, <2>2, FrozenShards DEF LoadsOneOf
  <2> QED BY <2>1, <2>2, <2>4, <2>5 DEF LinearInv, Linear!Ready
<1>3. CASE Linear!LoadSplit
  BY <1>2, <1>3 DEF Linear!LoadSplit, LoadsOneOf
<1>4. CASE Linear!LoadFused
  BY <1>2, <1>4 DEF Linear!LoadFused, LoadsOneOf
<1>5. CASE Linear!ProcessWeightsAfterLoading
  <2>1. PICK emulate \in BOOLEAN : params' = Chain(params, emulate)
    BY <1>5 DEF Linear!ProcessWeightsAfterLoading, Chain
  <2>2. /\ UNCHANGED checkpointVars /\ loaded' = loaded /\ out' = <<>>
        /\ \/ stage = "created" /\ loaded = Linear!Shards /\ stage' = "processed"
           \/ /\ stage \in {"processed", "again"} /\ stage' = "again"
              /\ Linear!WeightKey \notin {"tensor", "nvfp4"}
    BY <1>5 DEF Linear!ProcessWeightsAfterLoading, Linear!Spent, Linear!checkpoint, checkpointVars
  <2>3. CheckpointFacts /\ loaded \subseteq Linear!Shards
    BY DEF LinearInv
  <2>4. Linear!WeightKey' = Linear!WeightKey /\ CheckpointFacts' /\ loaded' \subseteq Linear!Shards'
    BY <2>2, <2>3, FrozenScales, FrozenFacts, FrozenShards
  <2>5. CASE ~Linear!Ready'
    BY <2>2, <2>4, <2>5 DEF LinearInv
  <2>6. CASE Linear!Ready'
    <3>1. CreatedOf(params, Linear!Shards) \/ (ProcessedOf(params) /\ algo \in {"MXFP8", "FP8_PB_WO"})
      <4>1. CASE stage = "created" /\ loaded = Linear!Shards
        BY <4>1 DEF LinearInv
      <4>2. CASE /\ stage \in {"processed", "again"} /\ stage' = "again"
                 /\ Linear!WeightKey \notin {"tensor", "nvfp4"}
        <5>1. Linear!WeightKey # "channel"
          BY <2>4, <2>6, <4>2 DEF Linear!Ready
        <5>2. Linear!Ready
          BY <4>2, <5>1 DEF Linear!Ready
        <5> QED BY <2>3, <4>2, <5>1, <5>2, AlgosAre DEF LinearInv
      <4> QED BY <2>2, <4>1, <4>2
    <3>2. ProcessedOf(params')
      BY <2>1, <2>3, <3>1, ProcessesAll
    <3>3. ProcessedOf(params)'
      BY <2>2, <3>2, FrozenProcessed
    <3> QED BY <2>2, <2>4, <3>3 DEF LinearInv
  <2> QED BY <2>5, <2>6
<1>6. CASE Linear!ProcessAgainFails
  <2>1. UNCHANGED checkpointVars /\ loaded' = loaded /\ out' = <<>> /\ stage' = "failed"
    BY <1>6 DEF Linear!ProcessAgainFails, Linear!checkpoint, checkpointVars
  <2>2. CheckpointFacts /\ loaded \subseteq Linear!Shards
    BY DEF LinearInv
  <2>3. CheckpointFacts' /\ loaded' \subseteq Linear!Shards'
    BY <2>1, <2>2, FrozenFacts, FrozenShards
  <2> QED BY <2>1, <2>3 DEF LinearInv, Linear!Ready
<1>7. CASE Linear!Apply
  <2>1. /\ UNCHANGED checkpointVars /\ loaded' = loaded /\ params' = params /\ stage' = stage
        /\ stage \in {"processed", "again"}
        /\ Linear!LayoutFits => out' = Linear!FormatApply
    BY <1>7 DEF Linear!Apply, Linear!checkpoint, checkpointVars
  <2>2. /\ CheckpointFacts /\ loaded \subseteq Linear!Shards
        /\ stage = "again" => Linear!WeightKey \notin {"tensor", "nvfp4"}
    BY DEF LinearInv
  <2>3. Linear!Ready /\ Linear!ScaleIsShared /\ Linear!ScalesAreWritten => out' = Expected
    <3> SUFFICES ASSUME Linear!Ready, Linear!ScaleIsShared, Linear!ScalesAreWritten PROVE out' = Expected
      OBVIOUS
    <3>1. ProcessedOf(params)
      BY DEF LinearInv
    <3> QED BY <2>1, <2>2, <3>1, LayoutIs, AppliesAll
  <2>4. /\ Linear!ScaleIsShared' = Linear!ScaleIsShared /\ Linear!ScalesAreWritten' = Linear!ScalesAreWritten
        /\ Linear!WeightKey' = Linear!WeightKey /\ Linear!Ready' = Linear!Ready
        /\ Expected' = Expected /\ CheckpointFacts' /\ Linear!Shards' = Linear!Shards
    BY <2>1, <2>2, FrozenScales, FrozenFacts, FrozenShards, FrozenReady
  <2>5. Linear!Ready => ProcessedOf(params)'
    <3> SUFFICES ASSUME Linear!Ready PROVE ProcessedOf(params)'
      OBVIOUS
    <3>1. ProcessedOf(params)
      BY DEF LinearInv
    <3>2. ProcessedOf(params')
      BY <2>1, <3>1
    <3> QED BY <2>1, <3>2, FrozenProcessed
  <2> QED BY <2>1, <2>2, <2>3, <2>4, <2>5 DEF LinearInv
<1> QED BY <1>1, <1>3, <1>4, <1>5, <1>6, <1>7 DEF Linear!Next

LEMMA LinearInvHolds == ASSUME WeightsAssumption PROVE SpecWeights => []LinearInv
<1>1. InitWeights => LinearInv
  <2> SUFFICES ASSUME topic = "linear", Linear!Init PROVE LinearInv
    BY DEF InitWeights, LinearInv
  <2>1. algo \in LinearAlgos
    BY DEF Linear!Init
  <2>2. algo = "W4A16_NVFP4" => ~Linear!HasInputScale
    BY DEF Linear!HasInputScale, Linear!ActivationKey
  <2>3. Linear!HasInputScale => ckInput \in [Linear!Shards -> Scales]
    BY <2>2 DEF Linear!Init
  <2>4. CheckpointFacts
    BY <2>3 DEF Linear!Init, CheckpointFacts
  <2>5. loaded = {} /\ stage = "new" /\ out = <<>>
    BY DEF Linear!Init
  <2> QED BY <2>4, <2>5 DEF LinearInv, Linear!Ready
<1>2. LinearInv /\ [NextWeights]_<<topic, raw, linearVars>> => LinearInv'
  <2> SUFFICES ASSUME LinearInv, [NextWeights]_<<topic, raw, linearVars>> PROVE LinearInv'
    OBVIOUS
  <2>1. CASE RunLinear
    BY <2>1, LinearStep DEF RunLinear
  <2>2. CASE List \/ UNCHANGED <<topic, raw, linearVars>>
    <3> SUFFICES ASSUME topic' = "linear" PROVE LinearInv'
      BY DEF LinearInv
    <3>1. UNCHANGED <<topic, linearVars>>
      BY <2>2 DEF List
    <3>2. UNCHANGED checkpointVars /\ params' = params /\ loaded' = loaded /\ stage' = stage /\ out' = out
          /\ topic = "linear"
      BY <3>1 DEF linearVars, checkpointVars
    <3>3. /\ CheckpointFacts /\ loaded \subseteq Linear!Shards
          /\ stage = "created" => CreatedOf(params', loaded')
          /\ Linear!Ready => ProcessedOf(params')
      BY <3>2 DEF LinearInv
    <3>4. /\ Linear!ScaleIsShared' = Linear!ScaleIsShared /\ Linear!ScalesAreWritten' = Linear!ScalesAreWritten
          /\ Linear!WeightKey' = Linear!WeightKey /\ Linear!Ready' = Linear!Ready
          /\ Expected' = Expected /\ CheckpointFacts' /\ Linear!Shards' = Linear!Shards
      BY <3>2, <3>3, FrozenScales, FrozenFacts, FrozenShards, FrozenReady
    <3>5. stage = "created" => CreatedOf(params, loaded)'
      BY <3>2, <3>3, FrozenCreated
    <3>6. Linear!Ready => ProcessedOf(params)'
      BY <3>2, <3>3, FrozenProcessed
    <3> QED BY <3>2, <3>4, <3>5, <3>6 DEF LinearInv
  <2> QED BY <2>1, <2>2 DEF NextWeights
<1> QED BY <1>1, <1>2, PTL DEF SpecWeights

(* In every format, for any widths of the shards, order they are loaded in *)
(* and scales met, a linear layer computes what the checkpoint says, from  *)
(* exactly the parameters its kernel reads; unless NVFP4 is fused on disk, *)
(* or a weight scaled by rows is processed again.                          *)
THEOREM OutputIsOfTheCheckpointHolds ==
  ASSUME WeightsAssumption
  PROVE  SpecWeights => []OutputIsOfTheCheckpoint
<1>1. LinearInv => OutputIsOfTheCheckpoint
  <2> SUFFICES ASSUME LinearInv, topic = "linear"
               PROVE  Linear!OutputIsOfTheCheckpoint /\ Linear!KernelFindsItsParams
    BY DEF OutputIsOfTheCheckpoint
  <2>1. Linear!OutputIsOfTheCheckpoint
    BY DEF LinearInv, Linear!OutputIsOfTheCheckpoint, Expected
  <2>2. Linear!KernelFindsItsParams
    <3> SUFFICES ASSUME Linear!Ready
                 PROVE  DOMAIN params \ {"logical_out"} = Linear!KernelParams /\ Linear!LayoutFits
      BY DEF Linear!KernelFindsItsParams
    <3>1. ProcessedOf(params) /\ CheckpointFacts
      BY DEF LinearInv
    <3> QED BY <3>1, LayoutIs DEF ProcessedOf
  <2> QED BY <2>1, <2>2
<1> QED BY <1>1, LinearInvHolds, PTL
============================================================================
