----------------------------- MODULE Algorithms -----------------------------
(***************************************************************************)
(* The pure algorithms of the repository, each asked one question after    *)
(* another, and held to a definition of what it should answer: the search  *)
(* of the kernels, the vocabulary and the hash of the table, the four-bit  *)
(* cache, the padding of the weights, and the numbers of the devices.      *)
(***************************************************************************)
EXTENDS Integers, SequencesExt

CONSTANTS
  MaxReqs, MaxTokens,                               \* TokenSearch
  MaxValue, MaxBase, MaxHeads, MaxLayers, MaxInt,   \* PleVocab
  Width, NGram, HeadsPerNgram, Tokens, Factors, HeadRows,   \* PleHash
  PageSizes, ScaleDims,                             \* Nvfp4
  MaxTP, MaxKvHeads, MaxSize, Dim,                  \* TpPad
  Devices, MaxMajor, MaxMinor                       \* DeviceIds

VARIABLE question   \* whom is asked (of), and what

Search == INSTANCE TokenSearch
Hash   == INSTANCE PleHash
Cache  == INSTANCE Nvfp4
Pad    == INSTANCE TpPad
Device == INSTANCE DeviceIds

(* Scales come in groups of four rows and of four columns; a minor version *)
(* has one digit.                                                          *)
AlgorithmsAssumption ==
  /\ Width \in Nat \ {0} /\ NGram \in Nat \ {0, 1} /\ HeadsPerNgram \in Nat \ {0}
  /\ Tokens \subseteq Int /\ Factors \subseteq Int /\ HeadRows \in [0..Hash!Heads-1 -> Nat \ {0}]
  /\ \A n \in PageSizes \cup ScaleDims : n \in Nat \ {0} /\ n % 4 = 0
  /\ {MaxReqs, MaxTokens, MaxTP, MaxKvHeads, MaxSize, Devices, MaxMajor} \subseteq Nat
  /\ Dim \in Nat \ {0} /\ MaxMinor \in 0..9

Layouts(k) ==
  {f \in [0..k -> 0..MaxTokens] : f[0] = 0 /\ \A i \in 1..k : f[i-1] <= f[i]}

(* What an environment may say of a device                                 *)
Entries == {Device!NotANumber} \cup 0..Devices-1

(* Every batch, requests without tokens included; a walk over numbers;     *)
(* every n-gram; every byte at some place of a page; every configuration   *)
(* of sizes, and every mapping of devices.                                 *)
InitQuestion ==
  \/ \E n \in 1..MaxReqs : question \in [of : {"search"}, n : {n}, starts : Layouts(n), t : {0}]
  \/ question = [of |-> "vocab", value |-> 0]
  \/ question \in [of : {"hash"}, gram : [0..NGram-1 -> Tokens]]
  \/ question \in [of : {"cache"}, byte : {0}, page : PageSizes, dim : ScaleDims]
  \/ question \in [of : {"pad"}, tp : 1..MaxTP, rep : 1..MaxTP, size : 1..MaxSize, rank : {0}]
  \/ question \in [of : {"devices"}, assigned : BoundedSeq(0..Devices-1, Devices),
                   shown : BoundedSeq(Entries, Devices), device : {0}]

NextToken  == question.of = "search" /\ question.t < MaxTokens /\ question' = [question EXCEPT !.t = @ + 1]
NextValue  == question.of = "vocab" /\ question.value < MaxValue /\ question' = [question EXCEPT !.value = @ + 1]
NextByte   == question.of = "cache" /\ question.byte < 255 /\ question' = [question EXCEPT !.byte = @ + 1]
NextRank   == question.of = "pad" /\ question.rank + 1 < question.tp /\ question' = [question EXCEPT !.rank = @ + 1]
NextDevice == question.of = "devices" /\ question.device + 1 < Devices /\ question' = [question EXCEPT !.device = @ + 1]

NextQuestion == NextToken \/ NextValue \/ NextByte \/ NextRank \/ NextDevice

SpecAlgorithms == InitQuestion /\ [][NextQuestion]_question

-----------------------------------------------------------------------------
(* The kernels find the request of every token in any batch: see           *)
(* TokenSearch.                                                            *)
RequestIsFound == question.of = "search" => Search!FindsTheRequest(question.starts, question.n, question.t)

-----------------------------------------------------------------------------
Divides(d, n) == n % d = 0

(* The test of _is_prime_64, small divisors and then seven bases, accepts  *)
(* exactly the primes.                                                     *)
PrimalityExact(value) ==
  Hash!IsPrime64(value) <=> value >= 2 /\ ~\E d \in 2..value-1 : d * d <= value /\ Divides(d, value)

(* The partitions heads get of a table are disjoint and cover it, every    *)
(* size is a prime of at least the base, and no two heads of any two       *)
(* layers share a prime: equal sizes would make their collisions equal.    *)
HeadsApart(base, heads) ==
  LET sizes(layer)   == Hash!HeadSizes(base, heads, layer)
      offsets(layer) == Hash!HeadOffsets(sizes(layer), heads)
  IN  \A l1, l2 \in 0..MaxLayers-1 : \A h1, h2 \in 0..heads-1 :
        /\ Hash!IsPrime64(sizes(l1)[h1]) /\ sizes(l1)[h1] >= base
        /\ <<l1, h1>> # <<l2, h2>> => sizes(l1)[h1] # sizes(l2)[h2]
        /\ offsets(l1)[h1] + sizes(l1)[h1] = offsets(l1)[h1 + 1]

(* ple_layer.py divides a table into prime numbers of rows, apart for all  *)
(* heads of all layers, and mixes with multipliers that cannot overflow.   *)
TableIsDivided ==
  question.of = "vocab" =>
    LET value == question.value
    IN  /\ PrimalityExact(value)
        /\ value < MaxBase * MaxHeads => HeadsApart((value \div MaxHeads) + 1, (value % MaxHeads) + 1)
        /\ value < MaxInt => Hash!ProductFits(MaxInt, value + 1)

(* The kernel and the torch path look the same row up, overflow and sign   *)
(* included, and it is a row of the head's own partition.                  *)
HashesAgree ==
  question.of = "hash" =>
    LET offsets == Hash!HeadOffsets(HeadRows, Hash!Heads)
    IN  \A multipliers \in [0..NGram-1 -> Factors] : \A h \in 0..Hash!Heads-1 :
          LET id == Hash!KernelId(question.gram, multipliers, HeadRows, h)
          IN  /\ id = Hash!TorchId(question.gram, multipliers, HeadRows, h)
              /\ offsets[h] <= id /\ id < offsets[h + 1]

-----------------------------------------------------------------------------
(* A nibble is the E2M1 number of its sign, two bits of exponent and one   *)
(* of fraction, in units of a half.                                        *)
NibbleIsE2M1(nibble) ==
  LET e == (nibble % 8) \div 2
      f == nibble % 2
      magnitude == IF e = 0 THEN f ELSE 2^(e - 1) * (2 + f)
  IN  Cache!NibbleValue(nibble) = IF nibble \div 8 = 1 THEN -magnitude ELSE magnitude

(* A block scale is the magnitude of the E4M3 number of its bits, where    *)
(* they are one.                                                           *)
ScaleIsE4M3(byte) ==
  LET e == (byte \div 8) % 16
      f == byte % 8
  IN  byte % 128 # 127 =>
        Cache!ScaleValue(byte) = IF e = 0 THEN f ELSE 2^(e - 1) * (8 + f)

(* Every group of 16 values of every row has a scale of its own, on the    *)
(* page.                                                                   *)
ScaleIsItsOwn(slot, group, page, dim) ==
  \A swizzled \in BOOLEAN :
    LET at == Cache!ScaleCoord(slot, group, swizzled, dim)
    IN  /\ at \in (0..page-1) \X (0..dim-1)
        /\ \A s \in 0..page-1, g \in 0..dim-1 :
             Cache!ScaleCoord(s, g, swizzled, dim) = at => s = slot /\ g = group

(* _nvfp4_decode_e2m1, _nvfp4_scale_to_float and _nvfp4_scale_coord write  *)
(* the bits of the float each nibble and each scale is, and find the scale *)
(* of every group on the page.                                             *)
CacheIsNvfp4 ==
  question.of = "cache" =>
    LET byte == question.byte
    IN  /\ \A nibble \in {byte % 16, byte \div 16} : NibbleIsE2M1(nibble)
        /\ ScaleIsE4M3(byte)
        /\ ScaleIsItsOwn(byte % question.page, (byte \div question.page) % question.dim,
                         question.page, question.dim)

-----------------------------------------------------------------------------
(* Sizes that fit a configuration of tp ranks, heads repeated rep times.   *)
(* _transform of k_proj and v_proj.  Where vLLM can split the replicated   *)
(* heads, every query head of every rank reads on its own rank a copy of   *)
(* the KV head it read in the checkpoint.                                  *)
AttentionKeepsItsHeads(tp, rep, size, rank) ==
  \A kv \in 1..MaxKvHeads : \A group \in 1..size :
    LET q == kv * group * rep
        t == Pad!RepHeads([i \in Pad!Size(kv * Dim) |-> i \div Dim], kv, Dim, rep)
        perRank == q \div tp
        local   == Pad!KvPerRank(kv * rep, tp)
    IN  Pad!SplitsHeads(q, kv * rep, tp) =>
          \A l \in Pad!Size(perRank) : \A d \in Pad!Size(Dim) :
            LET j == l \div (perRank \div local)
            IN  t[Pad!KvOfRank(kv * rep, tp, rank, j) * Dim + d] = (rank * perRank + l) \div (q \div kv)

(* _transform of in_proj_qkv and conv1d.  Each value head of each rank     *)
(* meets on its rank the q and k head it met in the checkpoint, and its    *)
(* own rows; the convolution has the channels of exactly those rows.       *)
DeltaNetKeepsItsHeads(tp, rep, size, rank) ==
  \A heads \in 1..MaxKvHeads :
    LET vHeads == heads * rep * size
        kd  == heads * Dim
        kd2 == kd * rep
        t   == Pad!TransformQkv([i \in Pad!Size(2 * kd + vHeads * Dim) |-> i], heads, Dim, vHeads * Dim, rep)
        keys   == Pad!ShardOf([i \in Pad!Size(kd2) |-> t[kd2 + i]], kd2, tp, rank)
        values == Pad!ShardOf([i \in Pad!Size(vHeads * Dim) |-> t[2 * kd2 + i]], vHeads * Dim, tp, rank)
    IN  (heads * rep) % tp = 0 =>
          \A l \in Pad!Size(vHeads \div tp) : \A d \in Pad!Size(Dim) :
            LET v == rank * (vHeads \div tp) + l
            IN  /\ values[l * Dim + d] = 2 * kd + v * Dim + d
                /\ keys[(l \div size) * Dim + d] = kd + (v \div (vHeads \div heads)) * Dim + d

(* tp_pad.py repeats heads so that each rank holds those its queries and   *)
(* its values met in the checkpoint.                                       *)
HeadsKeepTheirs ==
  question.of = "pad" =>
    /\ AttentionKeepsItsHeads(question.tp, question.rep, question.size, question.rank)
    /\ DeltaNetKeepsItsHeads(question.tp, question.rep, question.size, question.rank)

(* _pad_dim of the experts.  size entries become size + rep; the weights   *)
(* are packed in bytes or scaled in blocks of `block` entries.  Where the  *)
(* code accepts the sizes and vLLM can split them, entry l of a rank has   *)
(* the block of the checkpoint's entry, and entries past the checkpoint's  *)
(* have a block of fill.  So over all ranks each unit counts once.         *)
PaddingKeepsBlocks(tp, rep, size, rank) ==
  \A block \in 1..size :
    LET new     == size + rep
        blocks  == size \div block
        nBlocks == (blocks * new) \div size
        weights == Pad!PadDim([i \in Pad!Size(size) |-> i], size, size, new, -1)
        scales  == Pad!PadDim([i \in Pad!Size(blocks) |-> i], blocks, size, new, -1)
        perRank == new \div tp
    IN  ( /\ size % block = 0 /\ Pad!Scales(blocks, size, new)
          /\ new % tp = 0 /\ nBlocks % tp = 0 ) =>
          /\ nBlocks * block = new
          /\ \A l \in Pad!Size(perRank) :
               LET unit  == Pad!ShardOf(weights, new, tp, rank)[l]
                   scale == Pad!ShardOf(scales, nBlocks, tp, rank)[l \div block]
               IN  /\ unit = (IF rank * perRank + l < size THEN rank * perRank + l ELSE -1)
                   /\ scale = (IF unit = -1 THEN -1 ELSE unit \div block)

(* install: the padded vocabulary always splits evenly over the ranks, in  *)
(* whole paddings of the layer, and wrapping the constructor twice pads no *)
(* further than wrapping it once.                                          *)
VocabSplits(tp, ps) ==
  \A org \in 1..MaxSize * MaxTP :
    LET once   == Pad!PaddedVocab(org, Pad!PaddingSize(ps, tp))
        twice  == Pad!PaddedVocab(org, Pad!PaddingSize(Pad!PaddingSize(ps, tp), tp))
    IN  /\ once % tp = 0 /\ once % ps = 0 /\ once >= org
        /\ twice = once

(* tp_pad.py: what is padded to divide by the ranks still divides by its   *)
(* blocks, and padding is never counted as content.                        *)
PaddingSplits ==
  question.of = "pad" =>
    /\ PaddingKeepsBlocks(question.tp, question.rep, question.size, question.rank)
    /\ VocabSplits(question.tp, question.size)

-----------------------------------------------------------------------------
(* The device torch is told to use is the one the host knows by the        *)
(* physical id: going to the visible number and back from there, as the    *)
(* topology code does, ends where going there directly ends, or there is   *)
(* an error.  A device the process is shown never meets one, unless some   *)
(* entry, not only its own, is no number.                                  *)
WaysMeet(assigned, shown, device) ==
  LET p == Device!LogicalToPhysical(assigned, shown, device)
      v == Device!LogicalToVisible(assigned, shown, device)
  IN  /\ v # Device!Error => Device!VisibleToPhysical(shown, v) = p
      /\ v = Device!Error =>
           \/ p = Device!Error
           \/ shown # Device!Unset /\ \A i \in DOMAIN shown : shown[i] # p
           \/ \E i \in DOMAIN shown : shown[i] = Device!NotANumber

(* Without a mapping of the launcher a rank is its visible device, if no   *)
(* device is shown twice; it has none if fewer are shown.                  *)
RanksAreVisible(assigned, shown, device) ==
  assigned = Device!Unset /\ IsInjective(shown) /\ (\A i \in DOMAIN shown : shown[i] # Device!NotANumber) =>
    Device!LogicalToVisible(assigned, shown, device) =
      IF shown = Device!Unset \/ device < Len(shown) THEN device ELSE Device!Error

Capabilities == {Device!None} \union ((0..MaxMajor) \X (0..MaxMinor))

(* A pair and the integer of its digits ask for the same, and devices of a *)
(* family are between its first capability and that of the next.  Every    *)
(* question looks at its share of what may be asked for.                   *)
CapabilitiesAgree(device) ==
  \A c \in Capabilities : \A asked \in (0..MaxMajor) \X {m \in 0..MaxMinor : m % Devices = device} :
    /\ Device!HasPair(c, asked) <=> Device!HasInt(c, Device!ToInt(asked))
    /\ Device!IsPair(c, asked) <=> Device!IsInt(c, Device!ToInt(asked))
    /\ Device!IsFamily(c, Device!ToInt(asked)) <=>
         Device!HasPair(c, <<asked[1], 0>>) /\ ~Device!HasPair(c, <<asked[1] + 1, 0>>)

(* platforms/interface.py: a device has one name, however its number is    *)
(* arrived at, and one capability, however it is asked for.                *)
NamesOneDevice ==
  question.of = "devices" =>
    /\ WaysMeet(question.assigned, question.shown, question.device)
    /\ RanksAreVisible(question.assigned, question.shown, question.device)
    /\ CapabilitiesAgree(question.device)
=============================================================================
