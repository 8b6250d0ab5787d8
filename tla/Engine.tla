------------------------------- MODULE Engine -------------------------------
(***************************************************************************)
(* What the engine settles before the first batch: the tokens of a block   *)
(* and the size of a page, and the CUDA graphs it captures.  The two share *)
(* no state; a behaviour settles one of them, and the other stays at rest. *)
(***************************************************************************)
EXTENDS Integers, Sequences

CONSTANTS
  BlockConfigs, Default, Kernel, Chunk,  \* BlockSizes
  GraphConfigs, Platform                 \* GraphConfig

VARIABLES
  cf, phase,                                          \* of either
  block, mambaBlock, mambaPadded, skipPadded, calls,  \* BlockSizes
  passes, custom, graphs, split, sizes, maxSize, resolved,  \* GraphConfig
  part                                                \* "blocks" or "graphs"

blockVars == <<block, mambaBlock, mambaPadded, skipPadded, calls>>
graphVars == <<passes, custom, graphs, split, sizes, maxSize, resolved>>
engineVars == <<part, cf, phase, blockVars, graphVars>>

Blocks == INSTANCE BlockSizes WITH Configs <- BlockConfigs
Graph  == INSTANCE GraphConfig WITH Configs <- GraphConfigs

EngineAssumption == Blocks!BlockAssumption /\ Graph!GraphAssumption

-----------------------------------------------------------------------------
BlocksAtRest == /\ block = 0 /\ mambaBlock = 0 /\ mambaPadded = 0 /\ skipPadded = 0 /\ calls = <<>>
GraphsAtRest == /\ passes = {} /\ custom = {} /\ graphs = Graph!NONE /\ split = {} /\ sizes = {}
                /\ maxSize = 0 /\ resolved = <<>>

Init ==
  \/ part = "blocks" /\ Blocks!Init /\ GraphsAtRest
  \/ part = "graphs" /\ Graph!Init /\ BlocksAtRest

Next ==
  \/ part = "blocks" /\ Blocks!Next /\ UNCHANGED <<part, graphVars>>
  \/ part = "graphs" /\ Graph!Next /\ UNCHANGED <<part, blockVars>>

Spec == Init /\ [][Next]_engineVars

-----------------------------------------------------------------------------
(* Attention layers, the bf16 layers among them and the states end up with *)
(* pages of one size, in blocks the kernel takes, and                      *)
(* update_block_size_for_backend called again settles on the same: the     *)
(* three properties of BlockSizes.                                         *)
PagesAgree ==
  part = "blocks" => Blocks!PagesAgree /\ Blocks!BlocksAreWhole /\ Blocks!CalledAgainSame

(* What a configuration ends with has what it needs: no graph is captured  *)
(* that the backend cannot replay, and a fusion that matches the rotary op *)
(* finds it in the model: see GraphConfig.                                 *)
SupportedIsResolved ==
  part = "graphs" => Graph!SupportedIsResolved /\ Graph!FusedRotaryIsOn

(* Captured sizes hold whole requests, every number of tokens is in one    *)
(* compile range, and resolve_cudagraph_mode_and_sizes called again        *)
(* changes nothing memory was profiled with: see GraphConfig.              *)
SizesFit ==
  part = "graphs" => Graph!SizesFit /\ Graph!ResolvedOnce /\ Graph!RangesPartition

(* GRAPHS=piecewise|eager and no other keep the copy of the rows through   *)
(* the host out of every captured graph: see GraphConfig.                  *)
GatherStaysOutside == part = "graphs" => Graph!GatherStaysOutside
=============================================================================
