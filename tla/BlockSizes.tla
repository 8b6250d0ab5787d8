----------------------------- MODULE BlockSizes -----------------------------
(***************************************************************************)
(* How many tokens a block of the KV cache has.  Attention layers of one   *)
(* or two formats, the gated delta net and the short convolution share one *)
(* pool, so their pages must come out equally large: update_block_size_    *)
(* for_backend raises the block size and pads the smaller pages.           *)
(*                                                                         *)
(* A configuration is a record:                                            *)
(*   format   of the attention cache      kv, dim   KV heads, their size   *)
(*   skip     some layers stay in bf16    states    pages of the states    *)
(*   user     block size asked for, or 0  hybrid    there are states       *)
(*   mode     "none", "align" or "all"    chunk     chunk asked for, or 0  *)
(***************************************************************************)
EXTENDS Integers, Sequences, FiniteSetsExt

CONSTANTS
  Configs,      \* the configurations to look at
  Default,      \* the block size the backend prefers
  Kernel,       \* smallest block the backend's kernel supports
  Chunk         \* chunk size of the model's states

(* A head has values, an NVFP4 head enough of them for a byte; there is a  *)
(* largest state.                                                          *)
BlockAssumption ==
  /\ Default \in Nat \ {0} /\ Kernel \in Nat \ {0} /\ Chunk \in Nat \ {0}
  /\ \A c \in Configs :
       /\ c.kv \in Nat \ {0} /\ c.dim \in Nat \ {0} /\ (c.format = "nvfp4" => c.dim >= 2)
       /\ c.states \subseteq Nat \ {0} /\ \E largest \in c.states : \A s \in c.states : s <= largest
       /\ c.user \in Nat /\ c.chunk \in Nat

None == -1

VARIABLES
  cf,           \* the configuration
  block,        \* block_size
  mambaBlock,   \* mamba_block_size
  mambaPadded,  \* mamba_page_size_padded, or None
  skipPadded,   \* skip_page_size_padded, or None
  phase,        \* "pick", "hybrid", "mixed", "done" or "failed"
  calls         \* calls that have ended, with what they chose

vars == <<cf, block, mambaBlock, mambaPadded, skipPadded, phase, calls>>

-----------------------------------------------------------------------------
CeilDiv(a, b) == (a + b - 1) \div b
Larger(a, b)  == IF a > b THEN a ELSE b
Lcm(a, b)     == Min({m \in 1..a * b : m % a = 0 /\ m % b = 0})

(* A row of an NVFP4 head: two values to a byte, a scale for every 16.     *)
Nvfp4Row(dim) == dim \div 2 + dim \div 16

(* _nvfp4_attention_spec: K and V get slots of their own.  Done already,   *)
(* it is not done again.                                                   *)
Customized(spec) ==
  IF spec.format # "nvfp4" \/ spec.bytes # None THEN spec
  ELSE [spec EXCEPT !.slots = 2 * spec.kv, !.bytes = Nvfp4Row(spec.dim)]

(* Bytes of one token in one layer, as the backend packs them              *)
FullPage(format, kv, dim) ==
  LET spec == Customized(Customized([format |-> format, kv |-> kv, dim |-> dim, slots |-> kv, bytes |-> None]))
  IN  CASE format = "turboquant" -> kv * 5
        [] format = "bf16" -> kv * 2 * dim * 2
        [] format = "nvfp4" -> spec.slots * spec.bytes
        [] OTHER -> kv * 2 * dim

(* An MLA layer keeps one latent vector where others keep keys and values. *)
TokenPage(format, kv, dim) == IF format = "mla" THEN kv * dim ELSE FullPage(format, kv, dim)

Primary == TokenPage(cf.format, cf.kv, cf.dim)
Skipped == FullPage("bf16", cf.kv, cf.dim)

(* The third phase counts with keys and values for MLA layers too.         *)
MixedPrimary == FullPage(cf.format, cf.kv, cf.dim)

(* The page the hybrid alignment counts with.                              *)
CommonMultiple == cf.format = "turboquant" /\ cf.skip
HybridPage == IF CommonMultiple THEN Lcm(Primary, Skipped) ELSE Primary

(* Seeded fault: one of the state layouts counts.                          *)
StatePageOne == Min(cf.states)

(* get_mamba_specs_from_config: the largest of the layouts                 *)
StatePage == Max(cf.states)

Alignment == Larger(Larger(Kernel, block), IF cf.format = "mla" THEN 128 ELSE 0)

(* The block the alignment asks for.  With the states of every chunk kept, *)
(* it is a whole number of chunks.                                         *)
HybridBlock ==
  IF cf.mode = "all"
  THEN LET chunk == Lcm(IF cf.chunk # 0 THEN cf.chunk ELSE Chunk, Alignment)
       IN  chunk * CeilDiv(CeilDiv(StatePage, HybridPage), chunk)
  ELSE Alignment * CeilDiv(StatePage, Alignment * HybridPage)

Init ==
  /\ cf \in Configs
  /\ block = IF cf.user # 0 THEN cf.user ELSE Default
  /\ mambaBlock = None /\ mambaPadded = None /\ skipPadded = None
  /\ phase = "pick" /\ calls = <<>>

(* Phase 1: without a block size of the user's the backend picks.          *)
PickBlock ==
  /\ phase = "pick"
  /\ block' = IF cf.user # 0 THEN block ELSE Default
  /\ phase' = IF cf.hybrid THEN "hybrid" ELSE "mixed"
  /\ UNCHANGED <<cf, mambaBlock, mambaPadded, skipPadded, calls>>

(* Phase 2: _align_hybrid_block_size.  Where the pages are equal already,  *)
(* no padding is written down.                                             *)
AlignHybrid ==
  /\ phase = "hybrid"
  /\ block' = Larger(block, HybridBlock)
  /\ mambaBlock' = CASE cf.mode = "all"   -> HybridBlock
                     [] cf.mode = "align" -> block'
                     [] OTHER -> mambaBlock
  /\ mambaPadded' = IF block' * HybridPage = StatePage THEN mambaPadded ELSE block' * HybridPage
  /\ phase' = IF block' * HybridPage < StatePage THEN "failed" ELSE "mixed"
  /\ UNCHANGED <<cf, skipPadded, calls>>

(* The page everything must fit into                                       *)
Required == Larger(Skipped * Kernel, IF mambaPadded = None THEN 0 ELSE mambaPadded)

MixedAlignment == Larger(Kernel, block)

MixedBlock == MixedAlignment * CeilDiv(Required, MixedAlignment * MixedPrimary)

(* Phase 3: _align_heterogeneous_kv_block_size                             *)
AlignMixed ==
  /\ phase = "mixed"
  /\ IF ~cf.skip \/ Skipped = MixedPrimary
     THEN UNCHANGED <<block, mambaPadded, skipPadded>> /\ phase' = "done"
     ELSE IF Skipped < MixedPrimary
     THEN UNCHANGED <<block, mambaPadded, skipPadded>> /\ phase' = "failed"
     ELSE /\ block' = Larger(block, MixedBlock)
          /\ skipPadded' = block' * MixedPrimary
          /\ mambaPadded' = IF mambaPadded = None THEN None ELSE block' * MixedPrimary
          /\ phase' = "done"
  /\ UNCHANGED <<cf, mambaBlock, calls>>

(* The call returns; it may be made once more.                             *)
Return ==
  /\ phase = "done"
  /\ calls' = Append(calls, <<block, skipPadded>>)
  /\ phase' = IF Len(calls) = 1 THEN "end" ELSE "pick"
  /\ UNCHANGED <<cf, block, mambaBlock, mambaPadded, skipPadded>>

Next == PickBlock \/ AlignHybrid \/ AlignMixed \/ Return

Spec == Init /\ [][Next]_vars

-----------------------------------------------------------------------------
StatePageInPool == IF mambaPadded = None THEN StatePage ELSE mambaPadded
Mixed == cf.skip /\ Skipped # MixedPrimary

(* The page of everything beside the attention layers: theirs, and twice   *)
(* theirs where bf16 layers are beside MLA layers, for which the third     *)
(* phase counts keys and values.                                           *)
Shared == block * Primary * (IF Mixed /\ cf.format = "mla" THEN 2 ELSE 1)

(* The states and the bf16 layers get pages of that one size, none smaller *)
(* than what it holds, in blocks the kernel of the bf16 layers takes.  Not *)
(* covered here: states that filled a page exactly before the bf16 layers  *)
(* made it larger (their pages are not padded then), and TurboQuant beside *)
(* bf16, which counts with a common multiple of the two.                   *)
PagesAgree ==
  phase = "done" =>
    /\ cf.hybrid /\ (Mixed => mambaPadded # None) /\ ~CommonMultiple =>
         StatePageInPool = Shared /\ \A s \in cf.states : StatePageInPool >= s
    /\ Mixed => skipPadded = Shared /\ skipPadded >= Skipped * Kernel

(* The block size is one the kernel takes if it was one before, and holds  *)
(* whole chunks of states where the states of every chunk are kept.        *)
BlocksAreWhole ==
  phase = "done" =>
    /\ (cf.user % Kernel = 0 /\ Default % Kernel = 0 /\ cf.format # "mla") => block % Kernel = 0
    /\ cf.user <= block
    /\ cf.hybrid /\ cf.mode = "all" =>
         block % (IF cf.chunk # 0 THEN cf.chunk ELSE Chunk) = 0

(* Called again, update_block_size_for_backend settles on the same block   *)
(* and page, although it now begins from those it chose.                   *)
CalledAgainSame == Len(calls) = 2 /\ ~CommonMultiple => calls[1] = calls[2]
=============================================================================
