-------------------------- MODULE PleStaging_proofs --------------------------
(***************************************************************************)
(* Proofs about PleStaging, for every number of layers, heads, tokens,     *)
(* threads and steps, every chunk size and every buffer size.              *)
(***************************************************************************)
EXTENDS PleStaging, TLAPS

-----------------------------------------------------------------------------
(* The inductive invariant behind ForwardReadsItsStep and its companions.  *)
(* Its heart is StreamWillLeave: what the operations still on the stream   *)
(* will have left in a staging row by the time a given one runs.           *)

CurBuf    == pinned[layer][Len(pinned[layer])]
Gathering == pc \in {"wait", "raised"}

(* While rows are gathered the stream is drained, the buffer in use holds  *)
(* them all, and each chunk has put its first prog[a] rows in place.       *)
GatherInv ==
  Gathering =>
    /\ Drained
    /\ DOMAIN fut = Chunks(NumRows)
    /\ pinned[layer] # << >> /\ CurBuf.cap >= NumRows
    /\ \A a \in DOMAIN fut :
         /\ prog[a] <= RowsIn(a)
         /\ fut[a] \in {"queued", "running"} => prog[a] < RowsIn(a)
         /\ fut[a] = "done" => prog[a] = RowsIn(a)
         /\ \A k \in 0..prog[a]-1 : CurBuf.rows[a + k] = Lookup!TableRow(layer, Step, a + k)
    /\ \A a \in waited : fut[a] = "done"

(* Outside a gather no thread of the pool has work left.                   *)
PoolIdleInv == ~Gathering => \A a \in DOMAIN fut : fut[a] = "done"

(* Where the host is tells what batch it is serving.                       *)
HostInv ==
  /\ pc # "idle" => Step > 0
  /\ pc \in {"sync", "wait", "raised"} => ~NothingToGather

(* Steps on the stream are in order; a step's forward is its last          *)
(* operation, is on the stream once launched, and has been executed        *)
(* exactly when its rows are in `seen`.                                    *)
Launched  == IF pc = "idle" THEN Step ELSE Step - 1
IsForward(i) == ops[i].kind = "forward"

OrderInv ==
  /\ Len(seen) <= Launched
  /\ \A i \in 1..Len(ops) : ops[i].step <= Step
  /\ \A i \in 1..Len(ops) : IsForward(i) =>
       /\ ops[i].step <= Launched
       /\ ops[i].hi = Lookup!PaddedOf(batch[ops[i].step])
       /\ i <= retired <=> ops[i].step <= Len(seen)
  /\ \A i, j \in 1..Len(ops) :
       IsForward(i) /\ IsForward(j) /\ i < j => ops[i].step < ops[j].step
  /\ \A s \in 1..Launched : \E i \in 1..Len(ops) : IsForward(i) /\ ops[i].step = s
  /\ pc \in {"stage", "sync", "wait", "raised"} =>
       \A i \in 1..Len(ops) :
         ops[i].kind = "copy" /\ ops[i].step = Step => ops[i].layer < layer

(* A copy that has yet to run finds its step's rows in its pinned buffer.  *)
SourceReady(op) ==
  /\ op.layer \in Layers
  /\ op.buf \in DOMAIN pinned[op.layer]
  /\ \A r \in op.lo..op.hi-1 :
       pinned[op.layer][op.buf].rows[r] = Lookup!TableRow(op.layer, op.step, r)

CopyInv == \A i \in retired+1..Len(ops) : ops[i].kind = "copy" => SourceReady(ops[i])

Writes(i, l, r) ==
  /\ ops[i].kind \in {"copy", "zero"}
  /\ ops[i].layer = l
  /\ r \in ops[i].lo..ops[i].hi-1

Writing(i, l, r) == IF ops[i].kind = "copy" THEN Lookup!TableRow(l, ops[i].step, r) ELSE Zero

StreamWillLeave(p, l, r, v) ==
  \/ \E q \in retired+1..p-1 :
       /\ Writes(q, l, r) /\ Writing(q, l, r) = v
       /\ \A i \in q+1..p-1 : ~Writes(i, l, r)
  \/ /\ staging[l][r] = v
     /\ \A i \in retired+1..p-1 : ~Writes(i, l, r)

(* Every row a forward on the stream will read holds, by then, what its    *)
(* step asks for; so does every row of the layers the host has served.     *)
RowsReady(p, l, s) ==
  \A r \in 0..Lookup!PaddedOf(batch[s])-1 :
    StreamWillLeave(p, l, r, Lookup!ExpectedRow(l, s, batch[s], r))

Served == CASE pc = "idle" -> {} [] pc = "launch" -> Layers [] OTHER -> 1..layer-1

StreamInv ==
  /\ \A p \in retired+1..Len(ops) : IsForward(p) =>
       \A l \in Layers : RowsReady(p, l, ops[p].step)
  /\ \A l \in Served : RowsReady(Len(ops) + 1, l, Step)

IInv ==
  /\ TypeOK
  /\ HostInv
  /\ PoolIdleInv
  /\ GatherInv
  /\ OrderInv
  /\ CopyInv
  /\ StreamInv
  /\ ForwardReadsItsStep

-----------------------------------------------------------------------------
Buffers == UNION {[cap : {k}, rows : [0..k-1 -> Cells]] : k \in 0..MaxRows+MinCap}
Outputs == [Layers -> UNION {[0..k-1 -> Cells] : k \in 0..MaxRows}]

(* TypeOK with the sequence types TLC cannot enumerate.                    *)
TypeInv ==
  /\ TypeOK
  /\ pinned \in [Layers -> Seq(Buffers)]
  /\ seen \in Seq(Outputs)

USE SizesAssumption DEF Layers, Zero, Junk, Lookup!Zero, Lookup!Layers

-----------------------------------------------------------------------------
(* Arithmetic of rows and chunks.                                          *)

LEMMA RowsMonotone ==
  ASSUME NEW n \in Nat, NEW m \in Nat, n <= m
  PROVE  n * Heads \in Nat /\ n * Heads <= m * Heads
  BY Z3

LEMMA RowsStrict ==
  ASSUME NEW n \in Nat, NEW m \in Nat, n < m
  PROVE  n * Heads < m * Heads
  BY Z3

LEMMA DivMod ==
  ASSUME NEW r \in Nat, NEW c \in Nat \ {0}
  PROVE  /\ r \div c \in Nat /\ r % c \in 0..c-1
         /\ r = c * (r \div c) + (r % c)
  OBVIOUS

(* The starts of two chunks are at least a chunk apart.                    *)
LEMMA Multiples ==
  ASSUME NEW c \in Nat \ {0}, NEW p \in Nat, NEW q \in Nat, p < q
  PROVE  c * p + c <= c * q
  <1>1. PICK d \in Nat : q = p + 1 + d
    <2>1. q - p - 1 \in Nat /\ q = p + 1 + (q - p - 1)
      OBVIOUS
    <2> QED BY <2>1
  <1>2. c * (p + 1 + d) = c * p + c + c * d
    BY Z3
  <1>3. c * d \in Nat /\ c * p \in Nat
    BY Z3
  <1> QED BY <1>1, <1>2, <1>3

(* Two chunks share no row.                                                *)
LEMMA ChunksDisjoint ==
  ASSUME NEW a \in Nat, NEW b \in Nat, a % ChunkRows = 0, b % ChunkRows = 0,
         NEW i \in 0..ChunkRows-1, NEW j \in 0..ChunkRows-1, a + i = b + j
  PROVE  a = b
  <1> DEFINE p == a \div ChunkRows
             q == b \div ChunkRows
  <1>1. p \in Nat /\ q \in Nat /\ a = ChunkRows * p /\ b = ChunkRows * q
    BY DivMod
  <1> HIDE DEF p, q
  <1>2. ~(p < q)
    <2> SUFFICES ASSUME p < q PROVE FALSE
      OBVIOUS
    <2>1. ChunkRows * p + ChunkRows <= ChunkRows * q
      BY <1>1, Multiples
    <2> QED BY <1>1, <2>1
  <1>3. ~(q < p)
    <2> SUFFICES ASSUME q < p PROVE FALSE
      OBVIOUS
    <2>1. ChunkRows * q + ChunkRows <= ChunkRows * p
      BY <1>1, Multiples
    <2> QED BY <1>1, <2>1
  <1> QED BY <1>1, <1>2, <1>3

(* Every row of a gather is in one of its chunks.                          *)
LEMMA ChunkOfRow ==
  ASSUME NEW n \in Nat, NEW r \in 0..n-1
  PROVE  \E a \in Chunks(n) : r - a \in 0..ChunkRows-1
  <1> DEFINE p == r \div ChunkRows
             a == ChunkRows * p
  <1>0. r \in Nat
    OBVIOUS
  <1>1. /\ p \in Nat
        /\ r % ChunkRows \in 0..ChunkRows-1
        /\ r = a + (r % ChunkRows)
    BY <1>0, DivMod
  <1>2. a \in Nat
    BY <1>1, Z3
  <1>3. a % ChunkRows = 0
    <2>1. a = ChunkRows * (a \div ChunkRows) + (a % ChunkRows)
      BY <1>2, DivMod
    <2>2. a % ChunkRows \in 0..ChunkRows-1 /\ a \div ChunkRows \in Nat
      BY <1>2, DivMod
    <2> DEFINE q == a \div ChunkRows
    <2> HIDE DEF q, p
    <2>3. ~(q < p)
      <3> SUFFICES ASSUME q < p PROVE FALSE
        OBVIOUS
      <3>1. ChunkRows * q + ChunkRows <= ChunkRows * p
        BY <1>1, <2>2, Multiples DEF q
      <3> QED BY <2>1, <2>2, <3>1, <1>1, Z3 DEF q
    <2>4. ~(p < q)
      <3> SUFFICES ASSUME p < q PROVE FALSE
        OBVIOUS
      <3>1. ChunkRows * p + ChunkRows <= ChunkRows * q
        BY <1>1, <2>2, Multiples DEF q
      <3> QED BY <2>1, <2>2, <3>1, <1>1, Z3 DEF q
    <2>5. p = q
      BY <2>3, <2>4, <1>1, <2>2 DEF q
    <2> QED BY <2>1, <2>2, <2>5, Z3T(30) DEF q
  <1> HIDE DEF a
  <1>4. a \in 0..n-1 /\ r - a \in 0..ChunkRows-1
    BY <1>0, <1>1, <1>2
  <1> QED BY <1>3, <1>4 DEF Chunks

-----------------------------------------------------------------------------
(* The batch being served: what its types say.                             *)

LEMMA MaxRowsNat == MaxRows \in Nat
  BY RowsMonotone DEF MaxRows

LEMMA BatchFacts ==
  ASSUME NEW b \in Lookup!Batches
  PROVE  /\ b.n \in 0..MaxTokens /\ b.padded \in 0..MaxTokens /\ b.n <= b.padded
         /\ b.real \in BOOLEAN
         /\ b.n * Heads \in 0..MaxRows
         /\ b.padded * Heads \in 0..MaxRows
         /\ b.n * Heads <= b.padded * Heads
         /\ b.n > 0 => b.n * Heads > 0
         /\ b.n < b.padded => b.n * Heads < b.padded * Heads
  <1>1. b.n \in 0..MaxTokens /\ b.padded \in 0..MaxTokens /\ b.n <= b.padded /\ b.real \in BOOLEAN
    BY DEF Lookup!Batches
  <1>2. b.n * Heads \in Nat /\ b.n * Heads <= b.padded * Heads
    BY <1>1, RowsMonotone
  <1>3. b.padded * Heads \in Nat /\ b.padded * Heads <= MaxTokens * Heads
    BY <1>1, RowsMonotone
  <1>4. b.n * Heads <= MaxTokens * Heads
    BY <1>1, RowsMonotone
  <1>5. b.n > 0 => b.n * Heads > 0
    BY <1>1, RowsStrict, Z3
  <1>6. b.n < b.padded => b.n * Heads < b.padded * Heads
    BY <1>1, RowsStrict
  <1> QED BY <1>1, <1>2, <1>3, <1>4, <1>5, <1>6, MaxRowsNat DEF MaxRows

LEMMA CurrentFacts ==
  ASSUME HostTypes, Step > 0
  PROVE  /\ Step \in 1..MaxSteps
         /\ Current \in Lookup!Batches
         /\ NumRows \in 0..MaxRows
         /\ Current.n \in 0..MaxTokens /\ Current.padded \in 0..MaxTokens
         /\ Current.padded * Heads \in 0..MaxRows
         /\ NumRows <= Current.padded * Heads
         /\ Current.n > 0 => NumRows > 0
         /\ Current.n < Current.padded => NumRows < Current.padded * Heads
  <1>1. Step \in 1..MaxSteps /\ Current \in Lookup!Batches
    BY DEF HostTypes, Step, Current
  <1> QED BY <1>1, BatchFacts DEF NumRows

-----------------------------------------------------------------------------
(* Types.                                                                  *)

LEMMA TypeInit == Init => TypeInv
  <1> SUFFICES ASSUME Init PROVE TypeInv
    OBVIOUS
  <1> USE MaxRowsNat DEF Init
  <1>1. HostTypes /\ StreamTypes
    BY DEF HostTypes, Step, StreamTypes
  <1>2. PinnedTypes /\ PoolTypes /\ SeenTypes
    BY DEF PinnedTypes, PoolTypes, SeenTypes, Step
  <1>3. StagingTypes
    BY DEF StagingTypes, Cells
  <1>4. pinned \in [Layers -> Seq(Buffers)] /\ seen \in Seq(Outputs)
    OBVIOUS
  <1> QED BY <1>1, <1>2, <1>3, <1>4 DEF TypeInv, TypeOK

LEMMA BufferFacts ==
  ASSUME NEW b \in Buffers
  PROVE  /\ b = [cap |-> b.cap, rows |-> b.rows]
         /\ b.cap \in 0..MaxRows+MinCap
         /\ b.rows \in [0..b.cap-1 -> Cells]
  BY DEF Buffers

LEMMA MakeBuffer ==
  ASSUME NEW k \in 0..MaxRows+MinCap, NEW f \in [0..k-1 -> Cells]
  PROVE  [cap |-> k, rows |-> f] \in Buffers
  <1>1. [cap |-> k, rows |-> f] \in [cap : {k}, rows : [0..k-1 -> Cells]]
    OBVIOUS
  <1> QED BY <1>1, MaxRowsNat DEF Buffers

(* One row of the buffer in use changes, nothing else of any buffer.       *)
LEMMA WriteRowFacts ==
  ASSUME pinned \in [Layers -> Seq(Buffers)], layer \in Layers, pinned[layer] # << >>,
         NEW r \in 0..CurBuf.cap-1, NEW val \in Cells, WriteRow(r, val)
  PROVE  /\ pinned' \in [Layers -> Seq(Buffers)]
         /\ \A l \in Layers : DOMAIN pinned'[l] = DOMAIN pinned[l] /\ Len(pinned'[l]) = Len(pinned[l])
         /\ \A l \in Layers : \A g \in DOMAIN pinned[l] :
              (l # layer \/ g # Len(pinned[layer])) => pinned'[l][g] = pinned[l][g]
         /\ pinned'[layer][Len(pinned[layer])].cap = CurBuf.cap
         /\ pinned'[layer][Len(pinned[layer])].rows = [CurBuf.rows EXCEPT ![r] = val]
  <1> DEFINE g == Len(pinned[layer])
             rows == [CurBuf.rows EXCEPT ![r] = val]
             new == [cap |-> CurBuf.cap, rows |-> rows]
  <1>1. g \in DOMAIN pinned[layer] /\ g \in Nat /\ CurBuf \in Buffers
    BY DEF CurBuf
  <1>2. CurBuf = [cap |-> CurBuf.cap, rows |-> CurBuf.rows] /\ CurBuf.cap \in 0..MaxRows+MinCap
        /\ CurBuf.rows \in [0..CurBuf.cap-1 -> Cells]
    BY <1>1, BufferFacts
  <1>3. rows \in [0..CurBuf.cap-1 -> Cells]
    BY <1>2
  <1> HIDE DEF rows
  <1>4. new \in Buffers
    BY <1>2, <1>3, MakeBuffer
  <1>5. pinned' = [pinned EXCEPT ![layer] = [pinned[layer] EXCEPT ![g] = new]]
    <2>1. [CurBuf EXCEPT !.rows = rows] = new
      <3> DEFINE c == CurBuf.cap
                 f == CurBuf.rows
      <3>1. CurBuf = [cap |-> c, rows |-> f]
        BY <1>2
      <3> HIDE DEF c, f
      <3>2. [CurBuf EXCEPT !.rows = rows] = [cap |-> c, rows |-> rows]
        BY <3>1
      <3> QED BY <3>2 DEF c
    <2>2. pinned' = [pinned EXCEPT ![layer] = [pinned[layer] EXCEPT ![g] = [CurBuf EXCEPT !.rows = rows]]]
      BY DEF WriteRow, CurBuf, rows
    <2> QED BY <2>1, <2>2
  <1> HIDE DEF new, g
  <1>6. [pinned[layer] EXCEPT ![g] = new] \in Seq(Buffers)
    BY <1>1, <1>4 DEF g
  <1>7. /\ DOMAIN [pinned[layer] EXCEPT ![g] = new] = DOMAIN pinned[layer]
        /\ Len([pinned[layer] EXCEPT ![g] = new]) = Len(pinned[layer])
    BY <1>1, <1>4 DEF g
  <1>8. pinned'[layer] = [pinned[layer] EXCEPT ![g] = new] /\ pinned'[layer][g] = new
    BY <1>1, <1>5
  <1>9. pinned' \in [Layers -> Seq(Buffers)]
    BY <1>5, <1>6
  <1>10. \A l \in Layers : l # layer => pinned'[l] = pinned[l]
    BY <1>5
  <1>11. \A h \in DOMAIN pinned[layer] : h # g => pinned'[layer][h] = pinned[layer][h]
    BY <1>8
  <1> QED BY <1>7, <1>8, <1>9, <1>10, <1>11, SMTT(60) DEF g, new, rows

(* What is common to the actions: the host's steps and the others'.        *)
LEMMA HostTypesStep ==
  ASSUME HostTypes, [Next]_vars
  PROVE  HostTypes'
  <1> USE DEF HostTypes, Step, gather, device, host
  <1>1. ASSUME NEW b \in Lookup!Batches, Prepare(b) PROVE HostTypes'
    BY <1>1 DEF Prepare
  <1>2. ASSUME NEW t \in 1..MaxTokens, PrepareDummy(t) PROVE HostTypes'
    <2>1. [n |-> t, padded |-> t, real |-> FALSE] \in Lookup!Batches
      BY DEF Lookup!Batches
    <2> QED BY <1>2, <2>1 DEF PrepareDummy
  <1>3. StageZero \/ IssueCopy => HostTypes'
    BY DEF StageZero, IssueCopy, NextLayer
  <1>4. ComputeIds \/ StartGather \/ Launch => HostTypes'
    BY DEF ComputeIds, StartGather, Launch
  <1>5. ASSUME NEW a \in DOMAIN fut, Collect(a) \/ Raise(a) PROVE HostTypes'
    BY <1>5 DEF Collect, Raise
  <1>6. Pool => HostTypes'
    BY DEF Pool, TakeChunk, ReadRow, ShortRead
  <1>7. Stream => HostTypes'
    BY DEF Stream, GpuIds, GpuCopy, GpuZero, GpuForward, Retire
  <1>8. Finished \/ UNCHANGED vars => HostTypes'
    BY DEF Finished, vars
  <1> QED BY <1>1, <1>2, <1>3, <1>4, <1>5, <1>6, <1>7, <1>8 DEF Next, Host

LEMMA OpTypes ==
  ASSUME HostTypes, Step > 0
  PROVE  /\ \A kind \in {"ids", "copy", "zero", "forward"} : \A l \in 0..NumLayers :
              \A buf \in Nat : \A lo, hi \in 0..MaxRows : Op(kind, l, buf, lo, hi) \in OpType
         /\ layer \in 0..NumLayers
  BY CurrentFacts DEF Op, OpType, HostTypes

LEMMA ZeroAllFacts ==
  ASSUME NEW t
  PROVE  /\ DOMAIN ZeroAll(t) = 1..NumLayers /\ Len(ZeroAll(t)) = NumLayers
         /\ ZeroAll(t) \in Seq({ZeroAll(t)[l] : l \in Layers})
         /\ \A S : (\A l \in Layers : ZeroAll(t)[l] \in S) => ZeroAll(t) \in Seq(S)
         /\ \A l \in Layers : ZeroAll(t)[l] = [kind |-> "zero", step |-> Step + 1, layer |-> l,
                                               buf |-> 0, lo |-> 0, hi |-> t * Heads]
  <1>1. DOMAIN ZeroAll(t) = 1..NumLayers /\ ZeroAll(t) = [l \in 1..NumLayers |-> ZeroAll(t)[l]]
    BY DEF ZeroAll
  <1>2. \A l \in Layers : ZeroAll(t)[l] = [kind |-> "zero", step |-> Step + 1, layer |-> l,
                                               buf |-> 0, lo |-> 0, hi |-> t * Heads]
    BY DEF ZeroAll
  <1>3. \A S : (\A l \in Layers : ZeroAll(t)[l] \in S) => ZeroAll(t) \in Seq(S)
    BY <1>1
  <1>4. Len(ZeroAll(t)) = NumLayers
    BY <1>1
  <1> QED BY <1>1, <1>2, <1>3, <1>4

LEMMA StreamTypesStep ==
  ASSUME TypeInv, HostInv, [Next]_vars
  PROVE  StreamTypes'
  <1> USE DEF TypeInv, TypeOK, StreamTypes, HostInv
  <1>1. ASSUME NEW b \in Lookup!Batches, Prepare(b) PROVE StreamTypes'
    BY <1>1 DEF Prepare, device
  <1>2. ASSUME NEW t \in 1..MaxTokens, PrepareDummy(t) PROVE StreamTypes'
    <2> DEFINE zeros == ZeroAll(t)
    <2>1. t * Heads \in 0..MaxRows /\ 0 \in 0..MaxRows
      BY MaxRowsNat, RowsMonotone DEF MaxRows
    <2>2. Step + 1 \in 1..MaxSteps
      BY <1>2 DEF PrepareDummy, HostTypes, Step
    <2>3. ASSUME NEW l \in Layers PROVE zeros[l] \in OpType
      BY <2>1, <2>2 DEF OpType, ZeroAll
    <2>4. zeros \in Seq(OpType) /\ Len(zeros) = NumLayers
      BY <2>3, ZeroAllFacts
    <2>5. ops' = ops \o zeros /\ retired' = retired
      BY <1>2 DEF PrepareDummy, device
    <2> HIDE DEF zeros
    <2> QED BY <2>4, <2>5
  <1>3. ASSUME StageZero PROVE StreamTypes'
    <2>1. Op("zero", layer, 0, 0, Current.padded * Heads) \in OpType
      <3>1. Step > 0
        BY <1>3 DEF StageZero
      <3>2. Current.padded * Heads \in 0..MaxRows /\ 0 \in 0..MaxRows
        BY <3>1, CurrentFacts, MaxRowsNat
      <3> QED BY <3>1, <3>2, OpTypes
    <2> QED BY <1>3, <2>1 DEF StageZero, device
  <1>4. ASSUME ComputeIds PROVE StreamTypes'
    <2>1. Op("ids", layer, 0, 0, 0) \in OpType
      BY <1>4, OpTypes, MaxRowsNat DEF ComputeIds
    <2> QED BY <1>4, <2>1 DEF ComputeIds, device
  <1>5. ASSUME IssueCopy PROVE StreamTypes'
    <2>1. /\ Op("copy", layer, Len(pinned[layer]), 0, NumRows) \in OpType
          /\ Op("zero", layer, 0, NumRows, Current.padded * Heads) \in OpType
      <3>1. Step > 0
        BY <1>5 DEF IssueCopy
      <3>2. Len(pinned[layer]) \in Nat
        BY DEF HostTypes
      <3>3. Current.padded * Heads \in 0..MaxRows /\ NumRows \in 0..MaxRows /\ 0 \in 0..MaxRows
        BY <3>1, CurrentFacts, MaxRowsNat
      <3> QED BY <3>1, <3>2, <3>3, OpTypes
    <2>2. ops' \in Seq(OpType) /\ Len(ops') >= Len(ops)
      BY <1>5, <2>1 DEF IssueCopy
    <2> QED BY <1>5, <2>2 DEF IssueCopy, device
  <1>6. ASSUME Launch PROVE StreamTypes'
    <2>1. Op("forward", 0, 0, 0, Current.padded * Heads) \in OpType
      <3>1. Step > 0
        BY <1>6 DEF Launch
      <3>2. Current.padded * Heads \in 0..MaxRows /\ 0 \in 0..MaxRows /\ 0 \in 0..NumLayers
        BY <3>1, CurrentFacts, MaxRowsNat
      <3> QED BY <3>1, <3>2, OpTypes
    <2> QED BY <1>6, <2>1 DEF Launch, device
  <1>7. StartGather => StreamTypes'
    BY DEF StartGather, device
  <1>8. ASSUME NEW a \in DOMAIN fut, Collect(a) \/ Raise(a) PROVE StreamTypes'
    BY <1>8 DEF Collect, Raise, device
  <1>9. Pool => StreamTypes'
    BY DEF Pool, TakeChunk, ReadRow, ShortRead, device
  <1>10. Stream => StreamTypes'
    BY DEF Stream, GpuIds, GpuCopy, GpuZero, GpuForward, Retire, Drained
  <1>11. Finished \/ UNCHANGED vars => StreamTypes'
    BY DEF Finished, vars
  <1> QED BY <1>1, <1>2, <1>3, <1>4, <1>5, <1>6, <1>7, <1>8, <1>9, <1>10, <1>11 DEF Next, Host

LEMMA CellFacts ==
  /\ Zero \in Cells /\ Junk \in Cells
  /\ \A l, s, r \in Nat : Lookup!TableRow(l, s, r) \in Cells
  BY DEF Cells, Lookup!TableRow

(* A chunk with work left fills a row of the buffer in use.                *)
LEMMA UnfinishedChunk ==
  ASSUME TypeInv, HostInv, PoolIdleInv, GatherInv,
         NEW a \in DOMAIN fut, fut[a] \in {"queued", "running"}
  PROVE  /\ Gathering /\ Drained /\ Step > 0 /\ layer \in Layers
         /\ a \in Chunks(NumRows) /\ a \in 0..NumRows-1 /\ NumRows \in 0..MaxRows
         /\ prog[a] \in 0..ChunkRows-1 /\ prog[a] < RowsIn(a)
         /\ a + prog[a] \in 0..NumRows-1
         /\ pinned[layer] # << >> /\ CurBuf.cap >= NumRows /\ CurBuf.cap \in Nat
         /\ a + prog[a] \in 0..CurBuf.cap-1
  <1>1. Gathering
    BY DEF PoolIdleInv
  <1>2. Step > 0
    BY <1>1 DEF Gathering, HostInv
  <1>3. NumRows \in 0..MaxRows /\ NumRows \in Nat
    BY <1>2, CurrentFacts, MaxRowsNat DEF TypeInv, TypeOK
  <1>4. Drained /\ a \in Chunks(NumRows) /\ pinned[layer] # << >> /\ CurBuf.cap >= NumRows
        /\ prog[a] < RowsIn(a)
    BY <1>1 DEF GatherInv
  <1>5. prog[a] \in 0..ChunkRows
    BY DEF TypeInv, TypeOK, PoolTypes
  <1>6. a \in 0..NumRows-1
    BY <1>4 DEF Chunks
  <1>7. prog[a] \in 0..ChunkRows-1 /\ a + prog[a] \in 0..NumRows-1
    BY <1>3, <1>4, <1>5, <1>6 DEF RowsIn
  <1>8. layer \in Layers
    BY DEF TypeInv, TypeOK, HostTypes
  <1>9. CurBuf \in Buffers
    BY <1>4, <1>8 DEF TypeInv, CurBuf
  <1>10. CurBuf.cap \in Nat
    BY <1>9, BufferFacts, MaxRowsNat
  <1> QED BY <1>1, <1>2, <1>3, <1>4, <1>6, <1>7, <1>8, <1>10

(* _staging_for leaves a buffer that is large enough, and every buffer     *)
(* allocated before as it was.                                             *)
LEMMA StagingForFacts ==
  ASSUME TypeInv, HostInv, pc = "sync", StagingFor(NumRows)
  PROVE  /\ pinned' \in [Layers -> Seq(Buffers)]
         /\ pinned'[layer] # << >>
         /\ pinned'[layer][Len(pinned'[layer])].cap >= NumRows
         /\ \A l \in Layers : \A g \in DOMAIN pinned[l] :
              g \in DOMAIN pinned'[l] /\ pinned'[l][g] = pinned[l][g]
  <1> USE DEF TypeInv
  <1>1. layer \in Layers /\ Step > 0
    BY DEF TypeOK, HostTypes, HostInv
  <1>2. NumRows \in 0..MaxRows /\ NumRows \in Nat
    BY <1>1, CurrentFacts, MaxRowsNat DEF TypeOK
  <1>3. CASE UNCHANGED pinned /\ pinned[layer] # << >> /\ pinned[layer][Len(pinned[layer])].cap >= NumRows
    BY <1>3, <1>1
  <1>4. CASE ~(pinned[layer] # << >> /\ pinned[layer][Len(pinned[layer])].cap >= NumRows)
    <2> DEFINE cap == IF NumRows > MinCap THEN NumRows ELSE MinCap
               new == [cap |-> cap, rows |-> [r \in 0..cap-1 |-> Junk]]
    <2>1. pinned' = [pinned EXCEPT ![layer] = Append(pinned[layer], new)]
      BY <1>4 DEF StagingFor
    <2>2. cap \in 0..MaxRows+MinCap /\ cap >= NumRows
      BY <1>2, MaxRowsNat
    <2>3. new \in Buffers
      <3> HIDE DEF cap
      <3>1. [r \in 0..cap-1 |-> Junk] \in [0..cap-1 -> Cells]
        BY CellFacts
      <3> QED BY <2>2, <3>1, MakeBuffer
    <2>4. new.cap >= NumRows
      BY <2>2
    <2> HIDE DEF new
    <2>5. Append(pinned[layer], new) \in Seq(Buffers)
      BY <1>1, <2>3
    <2>6. pinned'[layer] = Append(pinned[layer], new)
      BY <1>1, <2>1
    <2>7. \A l \in Layers : l # layer => pinned'[l] = pinned[l]
      BY <2>1
    <2>8. Len(pinned'[layer]) = Len(pinned[layer]) + 1 /\ pinned'[layer][Len(pinned[layer]) + 1] = new
          /\ Len(pinned[layer]) \in Nat
      BY <1>1, <2>3, <2>6
    <2>9. \A g \in DOMAIN pinned[layer] : g \in DOMAIN pinned'[layer] /\ pinned'[layer][g] = pinned[layer][g]
      BY <1>1, <2>3, <2>6
    <2>10. pinned' \in [Layers -> Seq(Buffers)]
      BY <2>1, <2>5
    <2>11. pinned'[layer] # << >> /\ pinned'[layer][Len(pinned'[layer])].cap >= NumRows
      BY <2>4, <2>8, <2>10, <1>1
    <2> QED BY <2>7, <2>9, <2>10, <2>11
  <1> QED BY <1>3, <1>4 DEF StagingFor

LEMMA PinnedTypesStep ==
  ASSUME TypeInv, HostInv, PoolIdleInv, GatherInv, [Next]_vars
  PROVE  pinned' \in [Layers -> Seq(Buffers)]
  <1>1. StartGather => pinned' \in [Layers -> Seq(Buffers)]
    BY StagingForFacts DEF StartGather
  <1>2. ASSUME NEW a \in DOMAIN fut, ReadRow(a) PROVE pinned' \in [Layers -> Seq(Buffers)]
    <2>1. fut[a] \in {"queued", "running"} /\ WriteRow(a + prog[a], Lookup!TableRow(layer, Step, a + prog[a]))
      BY <1>2 DEF ReadRow
    <2>2. /\ a + prog[a] \in 0..CurBuf.cap-1 /\ a + prog[a] \in Nat
          /\ layer \in Layers /\ pinned[layer] # << >> /\ layer \in Nat /\ Step \in Nat
      BY <2>1, UnfinishedChunk DEF TypeInv, TypeOK, HostTypes, Step
    <2>3. Lookup!TableRow(layer, Step, a + prog[a]) \in Cells
      BY <2>2, CellFacts
    <2> QED BY <2>1, <2>2, <2>3, WriteRowFacts DEF TypeInv
  <1>3. ASSUME NEW a \in DOMAIN fut, ShortRead(a) PROVE pinned' \in [Layers -> Seq(Buffers)]
    <2>1. fut[a] \in {"queued", "running"} /\ WriteRow(a + prog[a], Junk)
      BY <1>3 DEF ShortRead
    <2>2. a + prog[a] \in 0..CurBuf.cap-1 /\ layer \in Layers /\ pinned[layer] # << >>
      BY <2>1, UnfinishedChunk
    <2> QED BY <2>1, <2>2, CellFacts, WriteRowFacts DEF TypeInv
  <1>4. UNCHANGED pinned => pinned' \in [Layers -> Seq(Buffers)]
    BY DEF TypeInv
  <1>5. ASSUME NEW a \in DOMAIN fut, Collect(a) \/ Raise(a) \/ TakeChunk(a) PROVE UNCHANGED pinned
    BY <1>5 DEF Collect, Raise, TakeChunk
  <1>6. StageZero \/ ComputeIds \/ IssueCopy \/ Launch \/ Stream \/ Finished \/ UNCHANGED vars
          => UNCHANGED pinned
    BY DEF StageZero, ComputeIds, IssueCopy, Launch, Stream, GpuIds, GpuCopy, GpuZero,
           GpuForward, Retire, Finished, vars
  <1>7. ASSUME NEW b \in Lookup!Batches, Prepare(b) PROVE UNCHANGED pinned
    BY <1>7 DEF Prepare
  <1>8. ASSUME NEW t \in 1..MaxTokens, PrepareDummy(t) PROVE UNCHANGED pinned
    BY <1>8 DEF PrepareDummy
  <1> QED BY <1>1, <1>2, <1>3, <1>4, <1>5, <1>6, <1>7, <1>8 DEF Next, Host, Pool

LEMMA PoolTypesStep ==
  ASSUME TypeInv, HostInv, PoolIdleInv, GatherInv, [Next]_vars
  PROVE  PoolTypes'
  <1> USE DEF PoolTypes
  <1>0. PoolTypes
    BY DEF TypeInv, TypeOK
  <1>1. ASSUME StartGather PROVE PoolTypes'
    <2>1. NumRows \in 0..MaxRows
      BY <1>1, CurrentFacts DEF StartGather, HostInv, TypeInv, TypeOK
    <2>2. Chunks(NumRows) \subseteq 0..MaxRows-1
      BY <2>1, MaxRowsNat DEF Chunks
    <2>3. /\ fut' \in [Chunks(NumRows) -> {"queued", "running", "done", "failed"}]
          /\ prog' = [a \in Chunks(NumRows) |-> 0] /\ waited' = {}
      BY <1>1 DEF StartGather
    <2> HIDE DEF Chunks
    <2> QED BY <2>2, <2>3, MaxRowsNat
  <1>2. ASSUME NEW a \in DOMAIN fut, ReadRow(a) PROVE PoolTypes'
    <2>1. fut[a] \in {"queued", "running"}
      BY <1>2 DEF ReadRow
    <2>2. prog[a] \in 0..ChunkRows-1 /\ a + prog[a] \in 0..NumRows-1 /\ NumRows \in 0..MaxRows
          /\ a \in 0..NumRows-1
      BY <2>1, UnfinishedChunk
    <2>3. prog' = [prog EXCEPT ![a] = prog[a] + 1]
          /\ (fut' = [fut EXCEPT ![a] = "done"] \/ fut' = fut) /\ waited' = waited
      BY <1>2 DEF ReadRow
    <2>4. prog' \in [DOMAIN fut -> 0..ChunkRows] /\ fut' \in [DOMAIN fut -> {"queued", "running", "done", "failed"}]
      <3> DEFINE D == DOMAIN fut
      <3>1. fut \in [D -> {"queued", "running", "done", "failed"}] /\ prog \in [D -> 0..ChunkRows] /\ a \in D
        BY <1>0
      <3> HIDE DEF D
      <3>2. prog[a] + 1 \in 0..ChunkRows
        BY <2>2
      <3>3. prog' \in [D -> 0..ChunkRows]
        BY <2>3, <3>1, <3>2
      <3>4. fut' \in [D -> {"queued", "running", "done", "failed"}]
        BY <2>3, <3>1
      <3> QED BY <3>3, <3>4 DEF D
    <2>5. \A c \in DOMAIN fut : c + prog'[c] <= MaxRows
      BY <1>0, <2>2, <2>3, MaxRowsNat
    <2>6. DOMAIN fut' = DOMAIN fut
      BY <2>4
    <2> QED BY <1>0, <2>3, <2>4, <2>5, <2>6
  <1>3. ASSUME NEW a \in DOMAIN fut, ShortRead(a) \/ TakeChunk(a) \/ Collect(a) \/ Raise(a)
        PROVE  PoolTypes'
    BY <1>0, <1>3 DEF ShortRead, TakeChunk, Collect, Raise, gather
  <1>4. UNCHANGED gather => PoolTypes'
    BY <1>0 DEF gather
  <1>5. StageZero \/ ComputeIds \/ IssueCopy \/ Launch \/ Stream \/ Finished \/ UNCHANGED vars
          => UNCHANGED gather
    BY DEF StageZero, ComputeIds, IssueCopy, Launch, Stream, GpuIds, GpuCopy, GpuZero,
           GpuForward, Retire, Finished, vars, gather
  <1>6. ASSUME NEW b \in Lookup!Batches, Prepare(b) PROVE UNCHANGED gather
    BY <1>6 DEF Prepare
  <1>7. ASSUME NEW t \in 1..MaxTokens, PrepareDummy(t) PROVE UNCHANGED gather
    BY <1>7 DEF PrepareDummy
  <1> QED BY <1>1, <1>2, <1>3, <1>4, <1>5, <1>6, <1>7 DEF Next, Host, Pool

LEMMA NextOpFacts ==
  ASSUME TypeInv, ~Drained
  PROVE  /\ retired + 1 \in 1..Len(ops) /\ retired + 1 \in retired+1..Len(ops)
         /\ NextOp = ops[retired + 1] /\ NextOp \in OpType
         /\ NextOp.step \in 1..MaxSteps /\ NextOp.layer \in 0..NumLayers
         /\ NextOp.lo \in 0..MaxRows /\ NextOp.hi \in 0..MaxRows
  <1>1. retired \in Nat /\ Len(ops) \in Nat /\ retired + 1 \in 1..Len(ops)
    BY DEF TypeInv, TypeOK, StreamTypes, Drained
  <1>2. NextOp \in OpType
    BY <1>1 DEF TypeInv, TypeOK, StreamTypes, NextOp
  <1> QED BY <1>1, <1>2 DEF NextOp, OpType

LEMMA StagingTypesStep ==
  ASSUME TypeInv, CopyInv, [Next]_vars
  PROVE  StagingTypes'
  <1>0. StagingTypes
    BY DEF TypeInv, TypeOK
  <1>1. ASSUME GpuCopy PROVE StagingTypes'
    <2>1. ~Drained /\ NextOp.kind = "copy"
      BY <1>1 DEF GpuCopy, Retire
    <2>2. ASSUME NEW r \in NextOp.lo..NextOp.hi-1
          PROVE  pinned[NextOp.layer][NextOp.buf].rows[r] \in Cells
      <3>1. /\ NextOp.layer \in Layers
            /\ pinned[NextOp.layer][NextOp.buf].rows[r] = Lookup!TableRow(NextOp.layer, NextOp.step, r)
        BY <2>1, NextOpFacts DEF CopyInv, SourceReady
      <3>2. NextOp.layer \in Nat /\ NextOp.step \in Nat /\ r \in Nat
        BY <2>1, NextOpFacts
      <3> QED BY <3>1, <3>2, CellFacts
    <2>3. NextOp.layer \in Layers
      BY <2>1, NextOpFacts DEF CopyInv, SourceReady
    <2>4. [r \in 0..MaxRows-1 |-> IF r \in NextOp.lo..NextOp.hi-1
                                  THEN pinned[NextOp.layer][NextOp.buf].rows[r]
                                  ELSE staging[NextOp.layer][r]] \in [0..MaxRows-1 -> Cells]
      BY <1>0, <2>2, <2>3 DEF StagingTypes
    <2> QED BY <1>0, <1>1, <2>4 DEF GpuCopy, StagingTypes
  <1>2. ASSUME GpuZero PROVE StagingTypes'
    <2> DEFINE cleared == [r \in 0..MaxRows-1 |-> IF r \in NextOp.lo..NextOp.hi-1
                                  THEN Zero ELSE staging[NextOp.layer][r]]
    <2>1. NextOp.layer \in Layers => cleared \in [0..MaxRows-1 -> Cells]
      BY <1>0, CellFacts DEF StagingTypes
    <2>2. staging' = [staging EXCEPT ![NextOp.layer] = cleared]
      BY <1>2 DEF GpuZero
    <2> HIDE DEF cleared
    <2> QED BY <1>0, <2>1, <2>2 DEF StagingTypes
  <1>3. UNCHANGED staging => StagingTypes'
    BY <1>0 DEF StagingTypes
  <1>4. StageZero \/ ComputeIds \/ StartGather \/ IssueCopy \/ Launch \/ GpuIds \/ GpuForward
          \/ Finished \/ UNCHANGED vars => UNCHANGED staging
    BY DEF StageZero, ComputeIds, StartGather, IssueCopy, Launch, GpuIds, GpuForward,
           Finished, vars, device
  <1>5. ASSUME NEW b \in Lookup!Batches, Prepare(b) PROVE UNCHANGED staging
    BY <1>5 DEF Prepare, device
  <1>6. ASSUME NEW t \in 1..MaxTokens, PrepareDummy(t) PROVE UNCHANGED staging
    BY <1>6 DEF PrepareDummy, device
  <1>7. ASSUME NEW a \in DOMAIN fut,
               Collect(a) \/ Raise(a) \/ TakeChunk(a) \/ ReadRow(a) \/ ShortRead(a)
        PROVE  UNCHANGED staging
    BY <1>7 DEF Collect, Raise, TakeChunk, ReadRow, ShortRead, device
  <1> QED BY <1>1, <1>2, <1>3, <1>4, <1>5, <1>6, <1>7 DEF Next, Host, Pool, Stream

LEMMA OutputsStep ==
  ASSUME TypeInv, [Next]_vars
  PROVE  seen' \in Seq(Outputs)
  <1>1. ASSUME GpuForward PROVE seen' \in Seq(Outputs)
    <2>1. ~Drained /\ NextOp.hi \in 0..MaxRows
      BY <1>1, NextOpFacts DEF GpuForward, Retire
    <2>2. ASSUME NEW l \in Layers
          PROVE  [r \in 0..NextOp.hi-1 |-> staging[l][r]] \in [0..NextOp.hi-1 -> Cells]
      BY <2>1, MaxRowsNat DEF TypeInv, TypeOK, StagingTypes
    <2>3. [l \in Layers |-> [r \in 0..NextOp.hi-1 |-> staging[l][r]]] \in Outputs
      BY <2>1, <2>2 DEF Outputs
    <2> QED BY <1>1, <2>3 DEF GpuForward, TypeInv
  <1>2. UNCHANGED seen => seen' \in Seq(Outputs)
    BY DEF TypeInv
  <1>3. StageZero \/ ComputeIds \/ StartGather \/ IssueCopy \/ Launch \/ GpuIds \/ GpuCopy \/ GpuZero
          \/ Finished \/ UNCHANGED vars => UNCHANGED seen
    BY DEF StageZero, ComputeIds, StartGather, IssueCopy, Launch, GpuIds, GpuCopy, GpuZero,
           Finished, vars, device
  <1>4. ASSUME NEW b \in Lookup!Batches, Prepare(b) PROVE UNCHANGED seen
    BY <1>4 DEF Prepare, device
  <1>5. ASSUME NEW t \in 1..MaxTokens, PrepareDummy(t) PROVE UNCHANGED seen
    BY <1>5 DEF PrepareDummy, device
  <1>6. ASSUME NEW a \in DOMAIN fut,
               Collect(a) \/ Raise(a) \/ TakeChunk(a) \/ ReadRow(a) \/ ShortRead(a)
        PROVE  UNCHANGED seen
    BY <1>6 DEF Collect, Raise, TakeChunk, ReadRow, ShortRead, device
  <1> QED BY <1>1, <1>2, <1>3, <1>4, <1>5, <1>6 DEF Next, Host, Pool, Stream

-----------------------------------------------------------------------------
(* The host and the gather.                                                *)

LEMMA HostInvStep ==
  ASSUME TypeInv, HostInv, [Next]_vars
  PROVE  HostInv'
  <1> USE DEF HostInv, Step, NothingToGather, Current, gather, device, host
  <1>0. batch \in Seq(Lookup!Batches)
    BY DEF TypeInv, TypeOK, HostTypes
  <1>1. ASSUME NEW b \in Lookup!Batches, Prepare(b) PROVE HostInv'
    BY <1>0, <1>1 DEF Prepare
  <1>2. ASSUME NEW t \in 1..MaxTokens, PrepareDummy(t) PROVE HostInv'
    BY <1>0, <1>2 DEF PrepareDummy
  <1>3. StageZero \/ IssueCopy => HostInv'
    BY <1>0 DEF StageZero, IssueCopy, NextLayer
  <1>4. ComputeIds \/ StartGather \/ Launch => HostInv'
    BY <1>0 DEF ComputeIds, StartGather, Launch
  <1>5. ASSUME NEW a \in DOMAIN fut,
               Collect(a) \/ Raise(a) \/ TakeChunk(a) \/ ReadRow(a) \/ ShortRead(a)
        PROVE  HostInv'
    BY <1>5 DEF Collect, Raise, TakeChunk, ReadRow, ShortRead
  <1>6. Stream \/ Finished \/ UNCHANGED vars => HostInv'
    BY DEF Stream, GpuIds, GpuCopy, GpuZero, GpuForward, Retire, Finished, vars
  <1> QED BY <1>1, <1>2, <1>3, <1>4, <1>5, <1>6 DEF Next, Host, Pool

LEMMA PoolIdleInvStep ==
  ASSUME TypeInv, HostInv, PoolIdleInv, GatherInv, [Next]_vars
  PROVE  PoolIdleInv'
  <1> USE DEF PoolIdleInv, Gathering
  <1>1. ASSUME NEW b \in Lookup!Batches, Prepare(b) PROVE PoolIdleInv'
    BY <1>1 DEF Prepare, gather
  <1>2. ASSUME NEW t \in 1..MaxTokens, PrepareDummy(t) PROVE PoolIdleInv'
    BY <1>2 DEF PrepareDummy, gather
  <1>3. StageZero \/ ComputeIds \/ Launch => PoolIdleInv'
    BY DEF StageZero, ComputeIds, Launch, NextLayer, gather
  <1>4. IssueCopy => PoolIdleInv'
    BY DEF IssueCopy, NextLayer, gather, GatherInv
  <1>5. StartGather => PoolIdleInv'
    BY DEF StartGather
  <1>6. ASSUME NEW a \in DOMAIN fut,
               Collect(a) \/ Raise(a) \/ TakeChunk(a) \/ ReadRow(a) \/ ShortRead(a)
        PROVE  PoolIdleInv'
    BY <1>6 DEF Collect, Raise, TakeChunk, ReadRow, ShortRead, gather, host
  <1>7. Stream \/ Finished \/ UNCHANGED vars => PoolIdleInv'
    BY DEF Stream, GpuIds, GpuCopy, GpuZero, GpuForward, Retire, Finished, vars, gather, host
  <1> QED BY <1>1, <1>2, <1>3, <1>4, <1>5, <1>6, <1>7 DEF Next, Host, Pool

(* ReadRow and ShortRead: the rows the chunks have read stay in place.     *)
LEMMA RowsKept ==
  ASSUME TypeInv, HostInv, PoolIdleInv, GatherInv,
         NEW a \in DOMAIN fut, fut[a] \in {"queued", "running"},
         NEW val \in Cells, WriteRow(a + prog[a], val)
  PROVE  /\ pinned'[layer] # << >>
         /\ pinned'[layer][Len(pinned'[layer])].cap = CurBuf.cap
         /\ pinned'[layer][Len(pinned'[layer])].rows[a + prog[a]] = val
         /\ \A c \in DOMAIN fut : \A k \in 0..prog[c]-1 :
              pinned'[layer][Len(pinned'[layer])].rows[c + k] = Lookup!TableRow(layer, Step, c + k)
  <1> DEFINE r == a + prog[a]
             new == pinned'[layer][Len(pinned'[layer])]
  <1>1. /\ Gathering /\ r \in 0..CurBuf.cap-1 /\ layer \in Layers /\ pinned[layer] # << >>
        /\ DOMAIN fut = Chunks(NumRows) /\ prog[a] \in 0..ChunkRows-1 /\ CurBuf.cap \in Nat
        /\ CurBuf.cap >= NumRows /\ NumRows \in 0..MaxRows
    BY UnfinishedChunk DEF GatherInv
  <1>2. /\ pinned' \in [Layers -> Seq(Buffers)] /\ Len(pinned'[layer]) = Len(pinned[layer])
        /\ new.cap = CurBuf.cap /\ new.rows = [CurBuf.rows EXCEPT ![r] = val]
    BY <1>1, WriteRowFacts DEF TypeInv
  <1>3. CurBuf \in Buffers
    BY <1>1 DEF TypeInv, CurBuf
  <1>4. CurBuf.rows \in [0..CurBuf.cap-1 -> Cells]
    BY <1>3, BufferFacts
  <1>5. new.rows[r] = val /\ \A i \in 0..CurBuf.cap-1 : i # r => new.rows[i] = CurBuf.rows[i]
    BY <1>1, <1>2, <1>4
  <1>6. pinned'[layer] # << >>
    BY <1>1, <1>2 DEF TypeInv
  <1>7. ASSUME NEW c \in DOMAIN fut, NEW k \in 0..prog[c]-1
        PROVE  new.rows[c + k] = Lookup!TableRow(layer, Step, c + k)
    <2>1. /\ c \in 0..NumRows-1 /\ c % ChunkRows = 0 /\ a \in 0..NumRows-1 /\ a % ChunkRows = 0
          /\ prog[c] \in 0..ChunkRows /\ prog[c] <= RowsIn(c)
      BY <1>1 DEF Chunks, TypeInv, TypeOK, PoolTypes, GatherInv
    <2>2. k \in 0..ChunkRows-1 /\ c + k \in 0..NumRows-1
      <3>1. NumRows \in Nat /\ c \in Nat /\ k \in Nat /\ k < prog[c] /\ prog[c] \in Nat
            /\ prog[c] <= ChunkRows
        BY <2>1, <1>1, MaxRowsNat
      <3>2. prog[c] <= NumRows - c
        BY <2>1, <3>1 DEF RowsIn
      <3> QED BY <3>1, <3>2
    <2>3. c + k # r
      <3> SUFFICES ASSUME c + k = a + prog[a] PROVE FALSE
        OBVIOUS
      <3>0. a \in Nat /\ c \in Nat /\ prog[a] \in 0..ChunkRows-1 /\ k \in 0..ChunkRows-1
        BY <1>1, <2>1, <2>2
      <3>1. c = a
        BY <3>0, <2>1, ChunksDisjoint
      <3> QED BY <1>1, <2>1, <3>1
    <2>4. new.rows[c + k] = CurBuf.rows[c + k]
      BY <1>1, <1>5, <2>2, <2>3, SMTT(30)
    <2>5. CurBuf.rows[c + k] = Lookup!TableRow(layer, Step, c + k)
      BY <1>1 DEF GatherInv
    <2> QED BY <2>4, <2>5
  <1> HIDE DEF r, new
  <1>8. new.cap = CurBuf.cap
    BY <1>2
  <1> QED BY <1>5, <1>6, <1>7, <1>8 DEF new, r

LEMMA GatherInvStep ==
  ASSUME TypeInv, HostInv, PoolIdleInv, GatherInv, [Next]_vars
  PROVE  GatherInv'
  <1>1. ASSUME StartGather PROVE GatherInv'
    <2>1. pc = "sync" /\ StagingFor(NumRows) /\ Step > 0
      BY <1>1 DEF StartGather, HostInv
    <2>2. NumRows \in 0..MaxRows
      BY <2>1, CurrentFacts DEF TypeInv, TypeOK
    <2>3. batch' = batch /\ layer' = layer /\ ops' = ops /\ retired' = retired /\ Drained
      BY <1>1 DEF StartGather, device
    <2>4. NumRows' = NumRows /\ Drained' /\ Chunks(NumRows)' = Chunks(NumRows)
      BY <2>3 DEF NumRows, Current, Step, Drained, Chunks
    <2>5. /\ fut' = [a \in Chunks(NumRows) |-> IF NumRows <= ChunkRows THEN "running" ELSE "queued"]
          /\ prog' = [a \in Chunks(NumRows) |-> 0] /\ waited' = {}
      BY <1>1 DEF StartGather
    <2>6. pinned'[layer] # << >> /\ CurBuf'.cap >= NumRows
      BY <2>1, <2>3, StagingForFacts DEF CurBuf
    <2>7. ASSUME NEW a \in Chunks(NumRows) PROVE 0 < RowsIn(a) /\ RowsIn(a)' = RowsIn(a)
      <3>1. a \in 0..NumRows-1
        BY DEF Chunks
      <3> QED BY <2>2, <2>4, <3>1, MaxRowsNat DEF RowsIn
    <2>8. \A a \in Chunks(NumRows) :
            /\ prog'[a] = 0 /\ fut'[a] \in {"queued", "running"} /\ 0 < RowsIn(a)' /\ 0 <= RowsIn(a)'
      <3>1. \A a \in Chunks(NumRows) : prog'[a] = 0 /\ fut'[a] \in {"queued", "running"}
        BY <2>5
      <3>2. ASSUME NEW a \in Chunks(NumRows) PROVE 0 < RowsIn(a)' /\ 0 <= RowsIn(a)'
        <4>1. RowsIn(a) \in Int
          BY <2>2, MaxRowsNat DEF RowsIn, Chunks
        <4> QED BY <2>7, <4>1
      <3> QED BY <3>1, <3>2
    <2>9. DOMAIN fut' = Chunks(NumRows)
      BY <2>5
    <2> QED BY <2>3, <2>4, <2>5, <2>6, <2>8, <2>9 DEF GatherInv
  <1>2. ASSUME NEW a \in DOMAIN fut, ReadRow(a) PROVE GatherInv'
    <2>1. fut[a] \in {"queued", "running"}
      BY <1>2 DEF ReadRow
    <2> DEFINE val == Lookup!TableRow(layer, Step, a + prog[a])
    <2>2. /\ Gathering /\ Drained /\ layer \in Layers /\ a + prog[a] \in Nat /\ Step \in Nat /\ layer \in Nat
          /\ prog[a] \in Nat /\ prog[a] < RowsIn(a) /\ DOMAIN fut = Chunks(NumRows)
          /\ CurBuf.cap >= NumRows
      <3>1. /\ Gathering /\ Drained /\ layer \in Layers /\ prog[a] < RowsIn(a) /\ CurBuf.cap >= NumRows
            /\ a + prog[a] \in 0..NumRows-1 /\ prog[a] \in 0..ChunkRows-1
        BY <2>1, UnfinishedChunk
      <3>2. DOMAIN fut = Chunks(NumRows)
        BY <3>1 DEF GatherInv
      <3>3. Step \in Nat
        BY DEF TypeInv, TypeOK, HostTypes, Step
      <3> QED BY <3>1, <3>2, <3>3
    <2>3. val \in Cells /\ WriteRow(a + prog[a], val)
      BY <1>2, <2>2, CellFacts DEF ReadRow
    <2>4. /\ pinned'[layer] # << >> /\ CurBuf'.cap = CurBuf.cap
          /\ CurBuf'.rows[a + prog[a]] = Lookup!TableRow(layer, Step, a + prog[a])
          /\ \A c \in DOMAIN fut : \A k \in 0..prog[c]-1 :
               CurBuf'.rows[c + k] = Lookup!TableRow(layer, Step, c + k)
      <3>1. layer' = layer
        BY <1>2 DEF ReadRow, host
      <3> QED BY <2>1, <2>3, <3>1, RowsKept DEF CurBuf
    <2>5. /\ batch' = batch /\ pc' = pc /\ layer' = layer /\ waited' = waited /\ ops' = ops
          /\ retired' = retired
      BY <1>2 DEF ReadRow, host, device
    <2>6. NumRows' = NumRows /\ Step' = Step /\ Drained' /\ Chunks(NumRows)' = Chunks(NumRows)
      BY <2>2, <2>5 DEF NumRows, Current, Step, Drained, Chunks
    <2>7. \A c : RowsIn(c)' = RowsIn(c)
      BY <2>6 DEF RowsIn
    <2>8. /\ prog' = [prog EXCEPT ![a] = prog[a] + 1]
          /\ fut' = IF prog[a] + 1 = RowsIn(a) THEN [fut EXCEPT ![a] = "done"] ELSE fut
      BY <1>2 DEF ReadRow
    <2>9. DOMAIN fut' = DOMAIN fut /\ DOMAIN prog' = DOMAIN prog /\ DOMAIN prog = DOMAIN fut
          /\ (\A c \in DOMAIN fut : c # a => fut'[c] = fut[c] /\ prog'[c] = prog[c])
          /\ prog'[a] = prog[a] + 1
          /\ fut'[a] = IF prog[a] + 1 = RowsIn(a) THEN "done" ELSE fut[a]
      BY <2>8 DEF TypeInv, TypeOK, PoolTypes
    <2>10. /\ \A c \in DOMAIN fut : prog[c] \in Nat /\ prog[c] <= RowsIn(c)
                /\ (fut[c] \in {"queued", "running"} => prog[c] < RowsIn(c))
                /\ (fut[c] = "done" => prog[c] = RowsIn(c))
           /\ \A c \in waited : fut[c] = "done"
           /\ waited \subseteq DOMAIN fut
      BY <2>2, SMTT(60) DEF GatherInv, TypeInv, TypeOK, PoolTypes
    <2>11. RowsIn(a) \in Int
      <3>1. NumRows \in Nat /\ a \in Nat
        BY <2>1, UnfinishedChunk, MaxRowsNat
      <3> QED BY <3>1 DEF RowsIn
    <2>12. ASSUME NEW c \in DOMAIN fut
           PROVE  /\ prog'[c] <= RowsIn(c)
                  /\ fut'[c] \in {"queued", "running"} => prog'[c] < RowsIn(c)
                  /\ fut'[c] = "done" => prog'[c] = RowsIn(c)
                  /\ \A k \in 0..prog'[c]-1 : CurBuf'.rows[c + k] = Lookup!TableRow(layer, Step, c + k)
      <3>1. CASE c # a
        BY <2>4, <2>9, <2>10, <3>1
      <3>2. CASE c = a
        <4>1. prog'[c] <= RowsIn(c) /\ (fut'[c] \in {"queued", "running"} => prog'[c] < RowsIn(c))
              /\ (fut'[c] = "done" => prog'[c] = RowsIn(c))
          BY <2>1, <2>2, <2>9, <2>11, <3>2
        <4>2. ASSUME NEW k \in 0..prog'[c]-1
              PROVE  CurBuf'.rows[c + k] = Lookup!TableRow(layer, Step, c + k)
          <5>1. k \in 0..prog[c]-1 \/ k = prog[c]
            BY <2>2, <2>9, <3>2
          <5> QED BY <2>4, <3>2, <5>1
        <4> QED BY <4>1, <4>2
      <3> QED BY <3>1, <3>2
    <2>13. \A c \in waited : fut'[c] = "done"
      BY <2>1, <2>9, <2>10
    <2> QED BY <2>2, <2>4, <2>5, <2>6, <2>7, <2>9, <2>12, <2>13 DEF GatherInv
  <1>3. ASSUME NEW a \in DOMAIN fut, ShortRead(a) PROVE GatherInv'
    <2>1. fut[a] \in {"queued", "running"}
      BY <1>3 DEF ShortRead
    <2>2. Gathering /\ Drained /\ DOMAIN fut = Chunks(NumRows) /\ CurBuf.cap >= NumRows
      BY <2>1, UnfinishedChunk DEF GatherInv
    <2>3. Junk \in Cells /\ WriteRow(a + prog[a], Junk)
      BY <1>3, CellFacts DEF ShortRead
    <2>5. /\ batch' = batch /\ pc' = pc /\ layer' = layer /\ waited' = waited /\ ops' = ops
          /\ retired' = retired /\ prog' = prog
      BY <1>3 DEF ShortRead, host, device
    <2>4. /\ pinned'[layer] # << >> /\ CurBuf'.cap = CurBuf.cap
          /\ \A c \in DOMAIN fut : \A k \in 0..prog[c]-1 :
               CurBuf'.rows[c + k] = Lookup!TableRow(layer, Step, c + k)
      BY <2>1, <2>3, <2>5, RowsKept DEF CurBuf
    <2>6. NumRows' = NumRows /\ Step' = Step /\ Drained' /\ Chunks(NumRows)' = Chunks(NumRows)
      BY <2>2, <2>5 DEF NumRows, Current, Step, Drained, Chunks
    <2>7. \A c : RowsIn(c)' = RowsIn(c)
      BY <2>6 DEF RowsIn
    <2>8. DOMAIN fut' = DOMAIN fut /\ fut'[a] = "failed" /\ \A c \in DOMAIN fut : c # a => fut'[c] = fut[c]
      BY <1>3 DEF ShortRead, TypeInv, TypeOK, PoolTypes
    <2>9. /\ \A c \in DOMAIN fut : prog[c] <= RowsIn(c)
                /\ (fut[c] \in {"queued", "running"} => prog[c] < RowsIn(c))
                /\ (fut[c] = "done" => prog[c] = RowsIn(c))
          /\ \A c \in waited : fut[c] = "done"
          /\ waited \subseteq DOMAIN fut
      BY <2>2 DEF GatherInv, TypeInv, TypeOK, PoolTypes
    <2>10. \A c \in waited : fut'[c] = "done"
      BY <2>1, <2>8, <2>9
    <2>11. ASSUME NEW c \in DOMAIN fut
           PROVE  /\ fut'[c] \in {"queued", "running"} => prog[c] < RowsIn(c)
                  /\ fut'[c] = "done" => prog[c] = RowsIn(c)
      BY <2>8, <2>9
    <2> QED BY <2>2, <2>4, <2>5, <2>6, <2>7, <2>8, <2>9, <2>10, <2>11 DEF GatherInv
  <1>4. ASSUME NEW a \in DOMAIN fut, TakeChunk(a) \/ Collect(a) \/ Raise(a) PROVE GatherInv'
    <2>1. /\ UNCHANGED <<batch, layer, pinned, prog, ops, retired>>
          /\ Gathering /\ DOMAIN fut' = DOMAIN fut /\ waited \subseteq DOMAIN fut
      BY <1>4 DEF TakeChunk, Collect, Raise, gather, device, host, Gathering, PoolIdleInv,
                  TypeInv, TypeOK, PoolTypes
    <2>2. NumRows' = NumRows /\ Step' = Step /\ Drained' = Drained
          /\ Chunks(NumRows)' = Chunks(NumRows) /\ CurBuf' = CurBuf
      BY <2>1 DEF NumRows, Current, Step, Drained, Chunks, CurBuf
    <2>3. \A c : RowsIn(c)' = RowsIn(c)
      BY <2>2 DEF RowsIn
    <2>4. ASSUME NEW c \in DOMAIN fut
          PROVE  /\ fut'[c] \in {"queued", "running"} => fut[c] \in {"queued", "running"}
                 /\ fut'[c] = "done" <=> fut[c] = "done"
      BY <1>4 DEF TakeChunk, Collect, Raise, gather, TypeInv, TypeOK, PoolTypes
    <2>5. waited' \subseteq DOMAIN fut /\ \A c \in waited' : fut[c] = "done"
      BY <1>4, <2>1 DEF TakeChunk, Collect, Raise, gather, GatherInv
    <2>6. \A c \in waited' : fut'[c] = "done"
      BY <2>4, <2>5
    <2> QED BY <2>1, <2>2, <2>3, <2>4, <2>6 DEF GatherInv
  <1>5. Stream => GatherInv'
    BY DEF Stream, GpuIds, GpuCopy, GpuZero, GpuForward, Retire, GatherInv, Gathering, host
  <1>6. StageZero \/ ComputeIds \/ IssueCopy \/ Launch => GatherInv'
    BY DEF StageZero, ComputeIds, IssueCopy, Launch, NextLayer, GatherInv, Gathering
  <1>7. ASSUME NEW b \in Lookup!Batches, Prepare(b) PROVE GatherInv'
    BY <1>7 DEF Prepare, GatherInv, Gathering
  <1>8. ASSUME NEW t \in 1..MaxTokens, PrepareDummy(t) PROVE GatherInv'
    BY <1>8 DEF PrepareDummy, GatherInv, Gathering
  <1>9. Finished \/ UNCHANGED vars => GatherInv'
    BY DEF Finished, vars, GatherInv, Gathering, Drained, Chunks, NumRows, Current, Step, CurBuf, RowsIn
  <1> QED BY <1>1, <1>2, <1>3, <1>4, <1>5, <1>6, <1>7, <1>8, <1>9 DEF Next, Host, Pool

(* All results collected: every row of the gather is in the buffer.        *)
LEMMA GatherComplete ==
  ASSUME TypeInv, HostInv, GatherInv, pc = "wait", waited = DOMAIN fut,
         NEW r \in 0..NumRows-1
  PROVE  CurBuf.rows[r] = Lookup!TableRow(layer, Step, r)
  <1>1. NumRows \in Nat
    BY CurrentFacts, MaxRowsNat DEF HostInv, TypeInv, TypeOK
  <1>2. DOMAIN fut = Chunks(NumRows)
    BY DEF GatherInv, Gathering
  <1>3. PICK a \in Chunks(NumRows) : r - a \in 0..ChunkRows-1
    BY <1>1, ChunkOfRow
  <1>4. prog[a] = RowsIn(a) /\ \A k \in 0..prog[a]-1 : CurBuf.rows[a + k] = Lookup!TableRow(layer, Step, a + k)
    BY <1>2 DEF GatherInv, Gathering
  <1>5. a \in Nat
    BY <1>1 DEF Chunks
  <1>6. r - a \in 0..prog[a]-1
    BY <1>1, <1>3, <1>4, <1>5 DEF RowsIn
  <1>7. a + (r - a) = r
    BY <1>1, <1>5
  <1>8. CurBuf.rows[a + (r - a)] = Lookup!TableRow(layer, Step, a + (r - a))
    BY <1>4, <1>6
  <1> QED BY <1>7, <1>8

-----------------------------------------------------------------------------
(* The stream.                                                             *)

(* Every step either leaves the stream alone, or appends to it while the   *)
(* device stands still, or retires its next operation.                     *)
Appending == /\ UNCHANGED device
             /\ Len(ops') >= Len(ops)
             /\ \A i \in 1..Len(ops) : ops'[i] = ops[i]

LEMMA HostAppends ==
  ASSUME TypeInv, HostInv, StreamTypes', [Next]_vars, ~Stream
  PROVE  Appending
  <1> USE DEF Appending
  <1>0. ops \in Seq(OpType) /\ ops' \in Seq(OpType)
    BY DEF TypeInv, TypeOK, StreamTypes
  <1>1. ASSUME UNCHANGED <<ops, device>> PROVE Appending
    BY <1>0, <1>1
  <1>2. ASSUME NEW b \in Lookup!Batches, Prepare(b) PROVE Appending
    BY <1>1, <1>2 DEF Prepare, device
  <1>3. ASSUME NEW t \in 1..MaxTokens, PrepareDummy(t) PROVE Appending
    <2> DEFINE zeros == ZeroAll(t)
    <2>1. zeros \in Seq({zeros[l] : l \in Layers})
      BY ZeroAllFacts
    <2>2. ops' = ops \o zeros /\ UNCHANGED device
      BY <1>3 DEF PrepareDummy
    <2> HIDE DEF zeros
    <2> QED BY <1>0, <2>1, <2>2
  <1>4. ASSUME StageZero PROVE Appending
    BY <1>0, <1>4 DEF StageZero
  <1>5. ASSUME ComputeIds PROVE Appending
    BY <1>0, <1>5 DEF ComputeIds
  <1>6. ASSUME Launch PROVE Appending
    BY <1>0, <1>6 DEF Launch
  <1>7. ASSUME IssueCopy PROVE Appending
    <2>1. PICK x, y : ops' = ops \o <<x>> \/ ops' = ops \o <<x, y>>
      BY <1>7 DEF IssueCopy
    <2> QED BY <1>0, <1>7, <2>1 DEF IssueCopy
  <1>8. StartGather => Appending
    BY <1>1 DEF StartGather
  <1>9. ASSUME NEW a \in DOMAIN fut,
               Collect(a) \/ Raise(a) \/ TakeChunk(a) \/ ReadRow(a) \/ ShortRead(a)
        PROVE  Appending
    BY <1>1, <1>9 DEF Collect, Raise, TakeChunk, ReadRow, ShortRead
  <1>10. Finished \/ UNCHANGED vars => Appending
    BY <1>1 DEF Finished, vars, device
  <1> QED BY <1>2, <1>3, <1>4, <1>5, <1>6, <1>7, <1>8, <1>9, <1>10 DEF Next, Host, Pool

LEMMA CopyInvStep ==
  ASSUME TypeInv, HostInv, PoolIdleInv, GatherInv, CopyInv, TypeInv', [Next]_vars
  PROVE  CopyInv'
  <1>0. /\ ops \in Seq(OpType) /\ ops' \in Seq(OpType) /\ retired \in 0..Len(ops)
        /\ pinned \in [Layers -> Seq(Buffers)]
    BY DEF TypeInv, TypeOK, StreamTypes
  <1>1. ASSUME retired' = Len(ops') PROVE CopyInv'
    BY <1>0, <1>1 DEF CopyInv
  <1>2. ASSUME pinned' = pinned, retired' >= retired, retired' \in Nat,
               \A i \in retired'+1..Len(ops') :
                 ops'[i].kind = "copy" => i \in 1..Len(ops) /\ ops'[i] = ops[i]
        PROVE  CopyInv'
    <2>1. ASSUME NEW i \in retired'+1..Len(ops'), ops'[i].kind = "copy"
          PROVE  SourceReady(ops[i])'
      <3>1. i \in retired+1..Len(ops) /\ ops'[i] = ops[i]
        BY <1>0, <1>2, <2>1
      <3>2. SourceReady(ops[i])
        BY <2>1, <3>1 DEF CopyInv
      <3> QED BY <1>2, <3>1, <3>2 DEF SourceReady
    <2> QED BY <2>1 DEF CopyInv
  <1>3. Pool \/ StartGather => CopyInv'
    <2>1. StartGather => retired' = Len(ops')
      BY DEF StartGather, Drained, device
    <2>2. ASSUME NEW a \in DOMAIN fut, TakeChunk(a) \/ ReadRow(a) \/ ShortRead(a)
          PROVE  retired' = Len(ops')
      <3>1. Drained
        BY <2>2, UnfinishedChunk DEF TakeChunk, ReadRow, ShortRead
      <3> QED BY <2>2, <3>1 DEF TakeChunk, ReadRow, ShortRead, device, Drained
    <2> QED BY <1>1, <2>1, <2>2 DEF Pool
  <1>4. ASSUME Stream PROVE CopyInv'
    <2>1. pinned' = pinned /\ ops' = ops /\ retired' = retired + 1
      BY <1>4 DEF Stream, GpuIds, GpuCopy, GpuZero, GpuForward, Retire
    <2> QED BY <1>0, <1>2, <2>1
  <1>5. ASSUME NEW b \in Lookup!Batches, Prepare(b) PROVE CopyInv'
    <2>1. pinned' = pinned /\ ops' = ops /\ retired' = retired
      BY <1>5 DEF Prepare, device
    <2> QED BY <1>0, <1>2, <2>1
  <1>6. ASSUME NEW t \in 1..MaxTokens, PrepareDummy(t) PROVE CopyInv'
    <2> DEFINE zeros == ZeroAll(t)
    <2>0. ASSUME NEW i \in Layers PROVE zeros[i].kind = "zero"
      <3>1. zeros[i] = [kind |-> "zero", step |-> Step + 1, layer |-> i, buf |-> 0,
                        lo |-> 0, hi |-> t * Heads]
        BY ZeroAllFacts
      <3> QED BY <3>1
    <2>1. zeros \in Seq({zeros[l] : l \in Layers}) /\ Len(zeros) = NumLayers
      BY ZeroAllFacts
    <2>2. pinned' = pinned /\ ops' = ops \o zeros /\ retired' = retired
      BY <1>6 DEF PrepareDummy, device
    <2> HIDE DEF zeros
    <2>3. \A i \in retired'+1..Len(ops') :
            ops'[i].kind = "copy" => i \in 1..Len(ops) /\ ops'[i] = ops[i]
      <3> SUFFICES ASSUME NEW i \in retired'+1..Len(ops'), ops'[i].kind = "copy"
                   PROVE  i \in 1..Len(ops) /\ ops'[i] = ops[i]
        OBVIOUS
      <3>1. CASE i <= Len(ops)
        BY <1>0, <2>1, <2>2, <3>1
      <3>2. CASE i > Len(ops)
        <4>1. i - Len(ops) \in 1..NumLayers /\ ops'[i] = zeros[i - Len(ops)]
          BY <1>0, <2>1, <2>2, <3>2
        <4> QED BY <2>0, <4>1
      <3> QED BY <1>0, <2>2, <3>1, <3>2
    <2> QED BY <1>0, <1>2, <2>2, <2>3
  <1>7. ASSUME StageZero \/ ComputeIds \/ Launch PROVE CopyInv'
    <2>1. /\ pinned' = pinned /\ retired' = retired
          /\ \E l, lo, hi : \E kind \in {"ids", "zero", "forward"} :
               ops' = Append(ops, Op(kind, l, 0, lo, hi))
      BY <1>7 DEF StageZero, ComputeIds, Launch, device
    <2>2. PICK l, lo, hi : \E kind \in {"ids", "zero", "forward"} :
               ops' = Append(ops, Op(kind, l, 0, lo, hi))
      BY <2>1
    <2>3. PICK kind \in {"ids", "zero", "forward"} : ops' = Append(ops, Op(kind, l, 0, lo, hi))
      BY <2>2
    <2>4. Op(kind, l, 0, lo, hi).kind # "copy"
      BY <2>3 DEF Op
    <2> PICK o : o = Op(kind, l, 0, lo, hi)
      OBVIOUS
    <2>5. /\ Len(ops') = Len(ops) + 1 /\ ops'[Len(ops) + 1] = o
          /\ \A i \in 1..Len(ops) : ops'[i] = ops[i]
      <3> PICK T : ops \in Seq(T) /\ o \in T
        <4>1. ops \in Seq(OpType \cup {o})
          BY <1>0
        <4> QED BY <4>1
      <3>1. ops' = Append(ops, o)
        BY <2>3
      <3> QED BY <3>1
    <2>6. ASSUME NEW i \in retired'+1..Len(ops'), ops'[i].kind = "copy"
          PROVE  i \in 1..Len(ops) /\ ops'[i] = ops[i]
      <3>1. i # Len(ops) + 1
        BY <2>4, <2>5, <2>6
      <3>2. i \in 1..Len(ops)
        BY <1>0, <2>1, <2>5, <3>1
      <3> QED BY <2>5, <3>2
    <2> QED BY <1>0, <1>2, <2>1, <2>6
  <1>8. ASSUME IssueCopy PROVE CopyInv'
    <2> DEFINE n == Len(ops)
    <2>1. PICK copy, tail :
            /\ copy = Op("copy", layer, Len(pinned[layer]), 0, NumRows)
            /\ tail = Op("zero", layer, 0, NumRows, Current.padded * Heads)
            /\ ops' = ops \o (IF Current.padded > Current.n THEN <<copy, tail>> ELSE <<copy>>)
      BY <1>8 DEF IssueCopy
    <2>2. /\ pinned' = pinned /\ retired' = retired /\ retired = n /\ pc = "wait" /\ waited = DOMAIN fut
      BY <1>8 DEF IssueCopy, device, GatherInv, Gathering, Drained
    <2>3. /\ layer \in Layers /\ pinned[layer] # << >> /\ Len(pinned[layer]) \in DOMAIN pinned[layer]
      BY <1>0, <2>2 DEF GatherInv, Gathering, TypeInv, TypeOK, HostTypes
    <2>4. \A r \in 0..NumRows-1 :
            pinned[layer][Len(pinned[layer])].rows[r] = Lookup!TableRow(layer, Step, r)
      BY <2>2, GatherComplete DEF CurBuf
    <2>5. copy.kind = "copy" /\ copy.layer = layer /\ copy.buf = Len(pinned[layer])
          /\ copy.lo = 0 /\ copy.hi = NumRows /\ copy.step = Step /\ tail.kind = "zero"
      BY <2>1 DEF Op
    <2>6. \A i \in n+1..Len(ops') : ops'[i] = copy \/ ops'[i] = tail
      BY <1>0, <2>1
    <2>7. SourceReady(copy)
      BY <2>3, <2>4, <2>5 DEF SourceReady
    <2>8. ASSUME NEW i \in retired'+1..Len(ops'), ops'[i].kind = "copy" PROVE SourceReady(ops[i])'
      <3>1. ops'[i] = copy
        BY <2>2, <2>5, <2>6, <2>8
      <3> QED BY <2>2, <2>7, <3>1 DEF SourceReady
    <2> QED BY <2>8 DEF CopyInv
  <1>9. ASSUME NEW a \in DOMAIN fut, Collect(a) \/ Raise(a) PROVE CopyInv'
    <2>1. pinned' = pinned /\ ops' = ops /\ retired' = retired
      BY <1>9 DEF Collect, Raise, device
    <2> QED BY <1>0, <1>2, <2>1
  <1>10. ASSUME Finished \/ UNCHANGED vars PROVE CopyInv'
    <2>1. pinned' = pinned /\ ops' = ops /\ retired' = retired
      BY <1>10 DEF Finished, vars
    <2> QED BY <1>0, <1>2, <2>1
  <1> QED BY <1>3, <1>4, <1>5, <1>6, <1>7, <1>8, <1>9, <1>10 DEF Next, Host

(* What each action of the host puts on the stream.                        *)
LEMMA NewOps ==
  ASSUME TypeInv
  PROVE  /\ StageZero =>
              /\ Len(ops') = Len(ops) + 1
              /\ ops'[Len(ops) + 1] = Op("zero", layer, 0, 0, Current.padded * Heads)
         /\ ComputeIds =>
              /\ Len(ops') = Len(ops) + 1
              /\ ops'[Len(ops) + 1] = Op("ids", layer, 0, 0, 0)
         /\ Launch =>
              /\ Len(ops') = Len(ops) + 1
              /\ ops'[Len(ops) + 1] = Op("forward", 0, 0, 0, Current.padded * Heads)
         /\ IssueCopy =>
              /\ Len(ops') = IF Current.padded > Current.n THEN Len(ops) + 2 ELSE Len(ops) + 1
              /\ ops'[Len(ops) + 1] = Op("copy", layer, Len(pinned[layer]), 0, NumRows)
              /\ Current.padded > Current.n =>
                   ops'[Len(ops) + 2] = Op("zero", layer, 0, NumRows, Current.padded * Heads)
         /\ \A t \in 1..MaxTokens : PrepareDummy(t) =>
              /\ Len(ops') = Len(ops) + NumLayers
              /\ \A l \in Layers :
                   ops'[Len(ops) + l] = [kind |-> "zero", step |-> Step + 1, layer |-> l, buf |-> 0,
                                         lo |-> 0, hi |-> t * Heads]
  <1>0. ops \in Seq(OpType)
    BY DEF TypeInv, TypeOK, StreamTypes
  <1>1. ASSUME StageZero
        PROVE  /\ Len(ops') = Len(ops) + 1
               /\ ops'[Len(ops) + 1] = Op("zero", layer, 0, 0, Current.padded * Heads)
    <2>1. PICK x : x = Op("zero", layer, 0, 0, Current.padded * Heads) /\ ops' = Append(ops, x)
      BY <1>1 DEF StageZero
    <2> QED BY <1>0, <2>1
  <1>2. ASSUME ComputeIds
        PROVE  /\ Len(ops') = Len(ops) + 1
               /\ ops'[Len(ops) + 1] = Op("ids", layer, 0, 0, 0)
    <2>1. PICK x : x = Op("ids", layer, 0, 0, 0) /\ ops' = Append(ops, x)
      BY <1>2 DEF ComputeIds
    <2> QED BY <1>0, <2>1
  <1>3. ASSUME Launch
        PROVE  /\ Len(ops') = Len(ops) + 1
               /\ ops'[Len(ops) + 1] = Op("forward", 0, 0, 0, Current.padded * Heads)
    <2>1. PICK x : x = Op("forward", 0, 0, 0, Current.padded * Heads) /\ ops' = Append(ops, x)
      BY <1>3 DEF Launch
    <2> QED BY <1>0, <2>1
  <1>4. ASSUME IssueCopy
        PROVE  /\ Len(ops') = IF Current.padded > Current.n THEN Len(ops) + 2 ELSE Len(ops) + 1
               /\ ops'[Len(ops) + 1] = Op("copy", layer, Len(pinned[layer]), 0, NumRows)
               /\ Current.padded > Current.n =>
                    ops'[Len(ops) + 2] = Op("zero", layer, 0, NumRows, Current.padded * Heads)
    <2>1. PICK copy, tail :
            /\ copy = Op("copy", layer, Len(pinned[layer]), 0, NumRows)
            /\ tail = Op("zero", layer, 0, NumRows, Current.padded * Heads)
            /\ ops' = ops \o (IF Current.padded > Current.n THEN <<copy, tail>> ELSE <<copy>>)
      BY <1>4 DEF IssueCopy
    <2> QED BY <1>0, <2>1
  <1>5. ASSUME NEW t \in 1..MaxTokens, PrepareDummy(t)
        PROVE  /\ Len(ops') = Len(ops) + NumLayers
               /\ \A l \in Layers :
                    ops'[Len(ops) + l] = [kind |-> "zero", step |-> Step + 1, layer |-> l, buf |-> 0,
                                          lo |-> 0, hi |-> t * Heads]
    <2>1. PICK z : z = ZeroAll(t) /\ ops' = ops \o z
      BY <1>5 DEF PrepareDummy
    <2>2. PICK T : z \in Seq(T) /\ Len(z) = NumLayers
      BY <2>1, ZeroAllFacts
    <2>3. Len(ops') = Len(ops) + NumLayers /\ \A l \in Layers : ops'[Len(ops) + l] = z[l]
      <3>1. /\ Len(ops \o z) = Len(ops) + Len(z)
            /\ \A i \in 1..Len(z) : (ops \o z)[Len(ops) + i] = z[i]
        BY <1>0, <2>2
      <3> QED BY <2>1, <2>2, <3>1
    <2> QED BY <2>1, <2>3, ZeroAllFacts
  <1> QED BY <1>1, <1>2, <1>3, <1>4, <1>5

LEMMA OrderQuiet ==
  ASSUME TypeInv, TypeInv', OrderInv, Appending,
         Launched' = Launched, Step' >= Step, \A s \in 1..Step : batch'[s] = batch[s],
         \A i \in Len(ops)+1..Len(ops') : ops'[i].kind # "forward" /\ ops'[i].step <= Step',
         pc' \in {"stage", "sync", "wait", "raised"} =>
           \A i \in 1..Len(ops') :
             ops'[i].kind = "copy" /\ ops'[i].step = Step' => ops'[i].layer < layer'
  PROVE  OrderInv'
  <1> USE DEF IsForward
  <1>0. /\ Len(ops) \in Nat /\ Len(ops') \in Nat /\ Len(ops') >= Len(ops)
        /\ \A i \in 1..Len(ops) : ops'[i] = ops[i] /\ ops[i].step \in 1..MaxSteps
        /\ Step \in Nat /\ Step' \in Nat /\ seen' = seen /\ retired' = retired /\ retired \in 0..Len(ops)
        /\ Launched \in Int /\ Launched <= Step
    <2>1. Len(ops) \in Nat /\ Len(ops') \in Nat /\ retired \in 0..Len(ops)
          /\ Step \in Nat /\ Step' \in Nat
      BY SMTT(60) DEF TypeInv, TypeOK, StreamTypes, HostTypes, Step
    <2>2. \A i \in 1..Len(ops) : ops[i].step \in 1..MaxSteps
      <3>1. \A i \in 1..Len(ops) : ops[i] \in OpType
        BY DEF TypeInv, TypeOK, StreamTypes
      <3> QED BY <3>1 DEF OpType
    <2>3. /\ Len(ops') >= Len(ops) /\ seen' = seen /\ retired' = retired
          /\ \A i \in 1..Len(ops) : ops'[i] = ops[i]
      BY DEF Appending, device
    <2> QED BY <2>1, <2>2, <2>3, SMTT(60) DEF Launched
  <1>1. ASSUME NEW i \in 1..Len(ops') PROVE ops'[i].step <= Step'
    <2>1. CASE i \in 1..Len(ops)
      <3>1. ops[i].step <= Step
        BY <2>1 DEF OrderInv
      <3> QED BY <1>0, <2>1, <3>1
    <2>2. CASE i \in Len(ops)+1..Len(ops')
      BY <2>2
    <2> QED BY <1>0, <2>1, <2>2
  <1>2. \A i \in 1..Len(ops') : IsForward(i)' => i \in 1..Len(ops) /\ IsForward(i)
    BY <1>0
  <1>3. ASSUME NEW i \in 1..Len(ops'), IsForward(i)'
        PROVE  /\ ops'[i].step <= Launched'
               /\ ops'[i].hi = Lookup!PaddedOf(batch'[ops'[i].step])
               /\ i <= retired' <=> ops'[i].step <= Len(seen')
    <2>1. i \in 1..Len(ops) /\ IsForward(i) /\ ops'[i] = ops[i]
      BY <1>0, <1>2, <1>3
    <2>2. /\ ops[i].step <= Launched
          /\ ops[i].hi = Lookup!PaddedOf(batch[ops[i].step])
          /\ i <= retired <=> ops[i].step <= Len(seen)
      BY <2>1 DEF OrderInv
    <2>3. ops[i].step \in 1..Step
      BY <1>0, <2>1, <2>2
    <2>4. batch'[ops[i].step] = batch[ops[i].step]
      BY <2>3
    <2> QED BY <1>0, <2>1, <2>2, <2>4
  <1>4. \A i, j \in 1..Len(ops') :
          IsForward(i)' /\ IsForward(j)' /\ i < j => ops'[i].step < ops'[j].step
    BY <1>0, <1>2 DEF OrderInv
  <1>5. \A s \in 1..Launched' : \E i \in 1..Len(ops') : IsForward(i)' /\ ops'[i].step = s
    <2> SUFFICES ASSUME NEW s \in 1..Launched
                 PROVE  \E i \in 1..Len(ops') : IsForward(i)' /\ ops'[i].step = s
      OBVIOUS
    <2>1. PICK i \in 1..Len(ops) : IsForward(i) /\ ops[i].step = s
      BY DEF OrderInv
    <2>2. i \in 1..Len(ops') /\ IsForward(i)' /\ ops'[i].step = s
      BY <1>0, <2>1
    <2> QED BY <2>2
  <1>6. Len(seen') <= Launched'
    BY <1>0 DEF OrderInv
  <1> QED BY <1>1, <1>3, <1>4, <1>5, <1>6 DEF OrderInv

LEMMA OpsFacts ==
  ASSUME TypeInv, NEW i \in 1..Len(ops)
  PROVE  ops[i].step \in Nat /\ ops[i].step \in 1..MaxSteps /\ ops[i].layer \in Nat
         /\ ops[i].lo \in Nat /\ ops[i].hi \in Nat
  <1>1. ops[i] \in OpType
    BY DEF TypeInv, TypeOK, StreamTypes
  <1> QED BY <1>1, MaxRowsNat DEF OpType

LEMMA HeadForward ==
  ASSUME TypeInv, OrderInv, ~Drained, NextOp.kind = "forward"
  PROVE  NextOp.step = Len(seen) + 1 /\ NextOp.step <= Launched /\ NextOp.step \in 1..Step
         /\ NextOp.hi = Lookup!PaddedOf(batch[NextOp.step])
  <1> DEFINE h == retired + 1
             s == Len(seen) + 1
  <1>1. h \in 1..Len(ops) /\ NextOp = ops[h] /\ NextOp.step \in 1..MaxSteps
        /\ retired \in Nat /\ Len(ops) \in Nat
    BY NextOpFacts DEF TypeInv, TypeOK, StreamTypes
  <1>2. Step \in Nat /\ Launched \in Int /\ Launched <= Step /\ Len(seen) \in Nat
    BY DEF TypeInv, TypeOK, HostTypes, Step, Launched
  <1>3. IsForward(h) /\ ops[h].step <= Launched /\ ops[h].step > Len(seen)
        /\ ops[h].hi = Lookup!PaddedOf(batch[ops[h].step])
    BY <1>1, <1>2 DEF OrderInv, IsForward
  <1>4. PICK i \in 1..Len(ops) : IsForward(i) /\ ops[i].step = s
    <2>1. s \in 1..Launched
      BY <1>1, <1>2, <1>3
    <2> QED BY <2>1 DEF OrderInv
  <1>5. ~(i <= retired)
    BY <1>2, <1>4 DEF OrderInv
  <1>6. ~(h < i)
    BY <1>1, <1>2, <1>3, <1>4 DEF OrderInv
  <1>7. i = h
    BY <1>1, <1>4, <1>5, <1>6
  <1> QED BY <1>1, <1>2, <1>3, <1>4, <1>7

LEMMA OrderInvStep ==
  ASSUME TypeInv, TypeInv', HostInv, OrderInv, [Next]_vars
  PROVE  OrderInv'
  <1>0. /\ Len(ops) \in Nat /\ Len(ops') \in Nat /\ retired \in 0..Len(ops) /\ Step \in Nat /\ Step' \in Nat
        /\ Launched \in Int /\ Launched <= Step /\ Len(seen) \in Nat /\ layer \in Nat
        /\ batch \in Seq(Lookup!Batches)
    BY SMTT(60) DEF TypeInv, TypeOK, StreamTypes, HostTypes, Step, Launched
  <1>1. CASE Stream
    <2>0. /\ ops' = ops /\ batch' = batch /\ pc' = pc /\ layer' = layer /\ retired' = retired + 1 /\ ~Drained
      BY <1>1 DEF Stream, GpuIds, GpuCopy, GpuZero, GpuForward, Retire, host
    <2>1. Step' = Step /\ Launched' = Launched /\ \A i : IsForward(i)' = IsForward(i)
      BY <2>0 DEF Step, Launched, IsForward
    <2>2. CASE GpuForward
      <3>1. /\ NextOp.kind = "forward" /\ NextOp = ops[retired + 1] /\ retired + 1 \in 1..Len(ops)
        BY <2>0, <2>2, NextOpFacts DEF GpuForward, Retire
      <3>2. NextOp.step = Len(seen) + 1 /\ NextOp.step <= Launched
        BY <2>0, <3>1, HeadForward
      <3>3. Len(seen') = Len(seen) + 1
        BY <2>2 DEF GpuForward, TypeInv
      <3>4. ASSUME NEW i \in 1..Len(ops), IsForward(i)
            PROVE  i <= retired + 1 <=> ops[i].step <= Len(seen) + 1
        <4>1. i <= retired <=> ops[i].step <= Len(seen)
          BY <3>4 DEF OrderInv
        <4>2. ops[i].step \in Nat
          BY OpsFacts
        <4>3. CASE i < retired + 1
          BY <1>0, <4>1, <4>2, <4>3
        <4>4. CASE i = retired + 1
          BY <1>0, <3>1, <3>2, <4>4
        <4>5. CASE i > retired + 1
          <5>1. ops[retired + 1].step < ops[i].step
            BY <3>1, <3>4, <4>5 DEF OrderInv, IsForward
          <5> QED BY <1>0, <3>1, <3>2, <4>2, <4>5, <5>1, SMTT(60)
        <4> QED BY <1>0, <4>3, <4>4, <4>5
      <3> QED BY <1>0, <2>0, <2>1, <3>2, <3>3, <3>4 DEF OrderInv
    <2>3. CASE ~GpuForward
      <3>1. seen' = seen /\ NextOp.kind # "forward"
        BY <1>1, <2>3 DEF Stream, GpuIds, GpuCopy, GpuZero, Retire
      <3>2. ASSUME NEW i \in 1..Len(ops), IsForward(i)
            PROVE  i <= retired + 1 <=> ops[i].step <= Len(seen)
        <4>1. i <= retired <=> ops[i].step <= Len(seen)
          BY <3>2 DEF OrderInv
        <4>2. i # retired + 1
          BY <3>1, <3>2 DEF NextOp, IsForward
        <4> QED BY <1>0, <4>1, <4>2
      <3> QED BY <1>0, <2>0, <2>1, <3>1, <3>2 DEF OrderInv
    <2> QED BY <2>2, <2>3
  <1>2. CASE ~Stream
    <2>0. Appending
      BY <1>2, HostAppends DEF TypeInv, TypeOK
    <2>a. Len(ops') >= Len(ops) /\ \A i \in 1..Len(ops) : ops'[i] = ops[i]
      BY <2>0 DEF Appending
    <2>b. /\ \A i \in 1..Len(ops) : ops[i].step <= Step
          /\ pc \in {"stage", "sync", "wait", "raised"} => \A i \in 1..Len(ops) :
               ops[i].kind = "copy" /\ ops[i].step = Step => ops[i].layer < layer
      BY DEF OrderInv
    <2>1. ASSUME NEW b \in Lookup!Batches, Prepare(b) PROVE OrderInv'
      <3>1. /\ Step' = Step + 1 /\ pc' = "stage" /\ pc = "idle" /\ ops' = ops
            /\ \A s \in 1..Step : batch'[s] = batch[s]
        BY <1>0, <2>1 DEF Prepare, Step
      <3>2. Launched' = Launched
        BY <1>0, <3>1 DEF Launched
      <3>3. \A i \in 1..Len(ops') : ops'[i].step # Step'
        <4>1. \A i \in 1..Len(ops) : ops[i].step \in Nat
          BY OpsFacts
        <4> QED BY <1>0, <2>b, <3>1, <4>1
      <3> QED BY <1>0, <2>0, <3>1, <3>2, <3>3, OrderQuiet
    <2>2. ASSUME NEW t \in 1..MaxTokens, PrepareDummy(t) PROVE OrderInv'
      <3>1. /\ Step' = Step + 1 /\ pc' = "launch" /\ pc = "idle"
            /\ \A s \in 1..Step : batch'[s] = batch[s]
        BY <1>0, <2>2 DEF PrepareDummy, Step
      <3>2. Launched' = Launched
        BY <1>0, <3>1 DEF Launched
      <3>3. ASSUME NEW i \in Len(ops)+1..Len(ops')
            PROVE  ops'[i].kind # "forward" /\ ops'[i].step <= Step'
        <4>1. Len(ops') = Len(ops) + NumLayers
          BY <2>2, NewOps
        <4>2. i - Len(ops) \in Layers /\ i = Len(ops) + (i - Len(ops))
          BY <1>0, <4>1
        <4>3. ops'[i] = [kind |-> "zero", step |-> Step + 1, layer |-> i - Len(ops), buf |-> 0,
                         lo |-> 0, hi |-> t * Heads]
          BY <2>2, <4>2, NewOps
        <4> QED BY <1>0, <3>1, <4>3
      <3> QED BY <1>0, <2>0, <3>1, <3>2, <3>3, OrderQuiet
    <2>3. ASSUME StageZero PROVE OrderInv'
      <3>1. batch' = batch /\ Step' = Step /\ pc = "stage" /\ pc' \in {"stage", "launch"}
            /\ (pc' = "stage" => layer' = layer + 1)
        BY <2>3 DEF StageZero, NextLayer, Step
      <3>2. Launched' = Launched
        BY <3>1 DEF Launched
      <3>3. Len(ops') = Len(ops) + 1 /\ ops'[Len(ops) + 1].kind = "zero" /\ ops'[Len(ops) + 1].step = Step
        BY <2>3, NewOps DEF Op
      <3>4. pc' = "stage" => \A i \in 1..Len(ops') :
               ops'[i].kind = "copy" /\ ops'[i].step = Step' => ops'[i].layer < layer'
        <4>1. \A i \in 1..Len(ops) : ops[i].layer \in Nat
          BY OpsFacts
        <4> QED BY <1>0, <2>a, <2>b, <3>1, <3>3, <4>1, SMTT(60)
      <3> QED BY <1>0, <2>0, <3>1, <3>2, <3>3, <3>4, OrderQuiet
    <2>4. ASSUME ComputeIds PROVE OrderInv'
      <3>1. batch' = batch /\ Step' = Step /\ pc = "stage" /\ pc' = "sync" /\ layer' = layer
        BY <2>4 DEF ComputeIds, Step
      <3>2. Launched' = Launched
        BY <3>1 DEF Launched
      <3>3. Len(ops') = Len(ops) + 1 /\ ops'[Len(ops) + 1].kind = "ids" /\ ops'[Len(ops) + 1].step = Step
        BY <2>4, NewOps DEF Op
      <3>4. \A i \in 1..Len(ops') :
               ops'[i].kind = "copy" /\ ops'[i].step = Step' => ops'[i].layer < layer'
        BY <1>0, <2>a, <2>b, <3>1, <3>3
      <3> QED BY <1>0, <2>0, <3>1, <3>2, <3>3, <3>4, OrderQuiet
    <2>5. ASSUME IssueCopy PROVE OrderInv'
      <3>1. batch' = batch /\ Step' = Step /\ pc = "wait" /\ pc' \in {"stage", "launch"}
            /\ (pc' = "stage" => layer' = layer + 1)
        BY <2>5 DEF IssueCopy, NextLayer, Step
      <3>2. Launched' = Launched
        BY <3>1 DEF Launched
      <3>3. \A i \in Len(ops)+1..Len(ops') :
              /\ ops'[i].kind \in {"copy", "zero"} /\ ops'[i].step = Step /\ ops'[i].layer = layer
        <4>1. /\ Len(ops') = IF Current.padded > Current.n THEN Len(ops) + 2 ELSE Len(ops) + 1
              /\ ops'[Len(ops) + 1] = Op("copy", layer, Len(pinned[layer]), 0, NumRows)
              /\ Current.padded > Current.n =>
                   ops'[Len(ops) + 2] = Op("zero", layer, 0, NumRows, Current.padded * Heads)
          BY <2>5, NewOps
        <4>2. ASSUME NEW i \in Len(ops)+1..Len(ops')
              PROVE  \/ ops'[i] = Op("copy", layer, Len(pinned[layer]), 0, NumRows)
                     \/ ops'[i] = Op("zero", layer, 0, NumRows, Current.padded * Heads)
          BY <1>0, <4>1
        <4> QED BY <4>2 DEF Op
      <3>4. pc' = "stage" => \A i \in 1..Len(ops') :
               ops'[i].kind = "copy" /\ ops'[i].step = Step' => ops'[i].layer < layer'
        <4>1. \A i \in 1..Len(ops) : ops[i].layer \in Nat
          BY OpsFacts
        <4> SUFFICES ASSUME pc' = "stage", NEW i \in 1..Len(ops'), ops'[i].kind = "copy",
                            ops'[i].step = Step'
                     PROVE  ops'[i].layer < layer'
          OBVIOUS
        <4>2. CASE i \in 1..Len(ops)
          <5>1. ops[i].layer < layer /\ ops'[i] = ops[i] /\ ops[i].layer \in Nat
            BY <2>a, <2>b, <3>1, <4>1, <4>2
          <5> QED BY <1>0, <3>1, <5>1
        <4>3. CASE i \in Len(ops)+1..Len(ops')
          BY <1>0, <3>1, <3>3, <4>3
        <4> QED BY <1>0, <4>2, <4>3
      <3> QED BY <1>0, <2>0, <3>1, <3>2, <3>3, <3>4, OrderQuiet, SMTT(60)
    <2>6. ASSUME Launch PROVE OrderInv'
      <3>1. /\ batch' = batch /\ Step' = Step /\ pc = "launch" /\ pc' = "idle" /\ seen' = seen
            /\ retired' = retired /\ Step > 0
        BY <2>6 DEF Launch, Step, device, HostInv
      <3>2. Launched = Step - 1 /\ Launched' = Step
        BY <3>1 DEF Launched
      <3>3. Len(ops') = Len(ops) + 1
            /\ ops'[Len(ops) + 1] = Op("forward", 0, 0, 0, Current.padded * Heads)
        BY <2>6, NewOps
      <3>a. PICK m : m = Len(ops) + 1
        OBVIOUS
      <3>4. IsForward(m)' /\ ops'[m].step = Step
            /\ ops'[m].hi = Lookup!PaddedOf(batch[Step])
        BY <3>a, <3>3 DEF Op, IsForward, Current, Lookup!PaddedOf
      <3>5. \A i \in 1..Len(ops) : IsForward(i)' <=> IsForward(i)
        BY <2>a DEF IsForward
      <3>6. ASSUME NEW i \in 1..Len(ops), IsForward(i)
            PROVE  /\ ops[i].step <= Step - 1 /\ ops[i].hi = Lookup!PaddedOf(batch[ops[i].step])
                   /\ i <= retired <=> ops[i].step <= Len(seen)
        BY <3>2, <3>6 DEF OrderInv
      <3>7. Len(seen) <= Step - 1
        BY <3>2 DEF OrderInv
      <3>8. \A i \in 1..Len(ops') : i \in 1..Len(ops) \/ i = m
        BY <1>0, <3>3, <3>a
      <3>9. \A i \in 1..Len(ops') : ops'[i].step <= Step'
        BY <1>0, <2>a, <2>b, <3>1, <3>4, <3>8
      <3>10. ASSUME NEW i \in 1..Len(ops'), IsForward(i)'
             PROVE  /\ ops'[i].step <= Launched'
                    /\ ops'[i].hi = Lookup!PaddedOf(batch'[ops'[i].step])
                    /\ i <= retired' <=> ops'[i].step <= Len(seen')
        <4>1. CASE i = m
          BY <1>0, <3>1, <3>2, <3>4, <3>7, <3>a, <4>1
        <4>2. CASE i \in 1..Len(ops)
          <5>1. IsForward(i) /\ ops'[i] = ops[i] /\ ops[i].step \in Nat
            BY <2>a, <3>5, <3>10, <4>2, OpsFacts
          <5> QED BY <1>0, <3>1, <3>2, <3>6, <4>2, <5>1
        <4> QED BY <3>8, <4>1, <4>2
      <3>11. ASSUME NEW i \in 1..Len(ops'), NEW j \in 1..Len(ops'),
                    IsForward(i)', IsForward(j)', i < j
             PROVE  ops'[i].step < ops'[j].step
        <4>1. i \in 1..Len(ops) /\ IsForward(i) /\ ops'[i] = ops[i] /\ ops[i].step \in Nat
          <5>1. i \in 1..Len(ops)
            BY <1>0, <3>3, <3>11
          <5> QED BY <2>a, <3>5, <3>11, <5>1, OpsFacts
        <4>2. CASE j = m
          BY <1>0, <3>4, <3>6, <4>1, <4>2, SMTT(30)
        <4>3. CASE j \in 1..Len(ops)
          BY <2>a, <3>5, <3>11, <4>1, <4>3 DEF OrderInv
        <4> QED BY <3>8, <4>2, <4>3
      <3>12. ASSUME NEW s \in 1..Launched'
             PROVE  \E i \in 1..Len(ops') : IsForward(i)' /\ ops'[i].step = s
        <4>1. CASE s = Step
          <5>1. m \in 1..Len(ops')
            BY <1>0, <3>3, <3>a
          <5> QED BY <3>4, <4>1, <5>1
        <4>2. CASE s \in 1..Step-1
          <5>1. PICK i \in 1..Len(ops) : IsForward(i) /\ ops[i].step = s
            BY <3>2, <4>2 DEF OrderInv
          <5>2. i \in 1..Len(ops') /\ IsForward(i)' /\ ops'[i].step = s
            BY <1>0, <2>a, <3>5, <5>1
          <5> QED BY <5>2
        <4> QED BY <1>0, <3>2, <4>1, <4>2, SMTT(60)
      <3>13. Len(seen') <= Launched'
        BY <1>0, <3>1, <3>2, <3>7
      <3> QED BY <3>1, <3>9, <3>10, <3>11, <3>12, <3>13 DEF OrderInv
    <2>7. ASSUME UNCHANGED <<batch, layer, ops>>, pc' \in {"sync", "wait", "raised"} => pc \in {"stage", "sync", "wait", "raised"},
                 pc' # pc => pc' \in {"wait", "raised"}
          PROVE  OrderInv'
      <3>1. Step' = Step /\ Launched' = Launched
        BY <2>7 DEF Step, Launched
      <3>2. pc' \in {"stage", "sync", "wait", "raised"} => pc \in {"stage", "sync", "wait", "raised"}
        BY <2>7
      <3> QED BY <1>0, <2>0, <2>7, <2>b, <3>1, <3>2, OrderQuiet
    <2>8. StartGather => OrderInv'
      BY <2>7 DEF StartGather
    <2>9. ASSUME NEW a \in DOMAIN fut,
                 Collect(a) \/ Raise(a) \/ TakeChunk(a) \/ ReadRow(a) \/ ShortRead(a)
          PROVE  OrderInv'
      BY <2>7, <2>9 DEF Collect, Raise, TakeChunk, ReadRow, ShortRead, host
    <2>10. Finished \/ UNCHANGED vars => OrderInv'
      BY <2>7 DEF Finished, vars
    <2> QED BY <1>2, <2>1, <2>2, <2>3, <2>4, <2>5, <2>6, <2>8, <2>9, <2>10 DEF Next, Host, Pool
  <1> QED BY <1>1, <1>2

(* What the stream will leave in a row at position p depends on what is    *)
(* enqueued before p only.                                                 *)
LEMMA ReadyPrefix ==
  ASSUME TypeInv, Appending, NEW p \in retired+1..Len(ops)+1,
         NEW l, NEW r, NEW v, StreamWillLeave(p, l, r, v)
  PROVE  StreamWillLeave(p, l, r, v)'
  <1>1. /\ retired' = retired /\ staging' = staging /\ retired \in Nat /\ Len(ops) \in Nat
        /\ \A i \in retired+1..p-1 : ops'[i] = ops[i]
    BY SMTT(30) DEF Appending, device, TypeInv, TypeOK, StreamTypes
  <1>2. \A i \in retired+1..p-1 : (Writes(i, l, r)' <=> Writes(i, l, r)) /\ Writing(i, l, r)' = Writing(i, l, r)
    BY <1>1 DEF Writes, Writing
  <1>3. \A q \in retired+1..p-1 : \A i \in q+1..p-1 : i \in retired+1..p-1
    BY <1>1
  <1> QED BY <1>1, <1>2, <1>3 DEF StreamWillLeave

(* It stays there as long as what is appended leaves the row alone.        *)
LEMMA ReadySkip ==
  ASSUME TypeInv, Appending, NEW p \in Len(ops)+1..Len(ops')+1, Len(ops') \in Nat,
         NEW l, NEW r, NEW v, StreamWillLeave(Len(ops) + 1, l, r, v),
         \A i \in Len(ops)+1..p-1 : ~Writes(i, l, r)'
  PROVE  StreamWillLeave(p, l, r, v)'
  <1>1. /\ retired' = retired /\ staging' = staging /\ retired \in Nat /\ Len(ops) \in Nat
        /\ retired <= Len(ops)
        /\ \A i \in retired+1..Len(ops) : ops'[i] = ops[i]
    BY DEF Appending, device, TypeInv, TypeOK, StreamTypes
  <1>2. \A i \in retired+1..Len(ops) : (Writes(i, l, r)' <=> Writes(i, l, r)) /\ Writing(i, l, r)' = Writing(i, l, r)
    BY <1>1 DEF Writes, Writing
  <1>3. CASE \E q \in retired+1..Len(ops) :
               /\ Writes(q, l, r) /\ Writing(q, l, r) = v
               /\ \A i \in q+1..Len(ops) : ~Writes(i, l, r)
    <2>1. PICK q \in retired+1..Len(ops) :
               /\ Writes(q, l, r) /\ Writing(q, l, r) = v
               /\ \A i \in q+1..Len(ops) : ~Writes(i, l, r)
      BY <1>3
    <2>2. q \in retired'+1..p-1 /\ Writes(q, l, r)' /\ Writing(q, l, r)' = v
      BY <1>1, <1>2, <2>1
    <2>3. \A i \in q+1..p-1 : ~Writes(i, l, r)'
      BY <1>1, <1>2, <2>1
    <2> QED BY <2>2, <2>3 DEF StreamWillLeave
  <1>4. CASE staging[l][r] = v /\ \A i \in retired+1..Len(ops) : ~Writes(i, l, r)
    <2>1. \A i \in retired'+1..p-1 : ~Writes(i, l, r)'
      BY <1>1, <1>2, <1>4
    <2> QED BY <1>1, <1>4, <2>1 DEF StreamWillLeave
  <1>5. Len(ops) + 1 - 1 = Len(ops)
    BY <1>1
  <1> QED BY <1>3, <1>4, <1>5 DEF StreamWillLeave

(* Appending a write of v puts v there.                                    *)
LEMMA ReadyWrite ==
  ASSUME TypeInv, Appending, NEW q \in Len(ops)+1..Len(ops'), NEW p \in q+1..Len(ops')+1,
         Len(ops') \in Nat, NEW l, NEW r, NEW v, Writes(q, l, r)', Writing(q, l, r)' = v,
         \A i \in q+1..p-1 : ~Writes(i, l, r)'
  PROVE  StreamWillLeave(p, l, r, v)'
  <1>1. retired' = retired /\ retired \in Nat /\ Len(ops) \in Nat /\ retired <= Len(ops)
    BY DEF Appending, device, TypeInv, TypeOK, StreamTypes
  <1>2. q \in retired'+1..p-1
    BY <1>1
  <1> QED BY <1>2 DEF StreamWillLeave

(* The device executes the next operation, as promised.                    *)
LEMMA StreamEffect ==
  ASSUME TypeInv, CopyInv, Stream, NEW l \in Layers, NEW r \in 0..MaxRows-1
  PROVE  staging'[l][r] = IF Writes(retired + 1, l, r) THEN Writing(retired + 1, l, r) ELSE staging[l][r]
  <1>0. ~Drained /\ NextOp = ops[retired + 1] /\ StagingTypes
        /\ retired + 1 \in retired+1..Len(ops)
    BY NextOpFacts DEF Stream, GpuIds, GpuCopy, GpuZero, GpuForward, Retire, TypeInv, TypeOK
  <1>1. CASE GpuCopy
    <2>1. NextOp.kind = "copy" /\ NextOp.layer \in Layers
      BY <1>0, <1>1, SMTT(60) DEF GpuCopy, Retire, CopyInv, SourceReady
    <2>2. staging'[l][r] = IF l = NextOp.layer /\ r \in NextOp.lo..NextOp.hi-1
                           THEN pinned[NextOp.layer][NextOp.buf].rows[r] ELSE staging[l][r]
      BY <1>0, <1>1 DEF GpuCopy, StagingTypes
    <2>3. r \in NextOp.lo..NextOp.hi-1 =>
            pinned[NextOp.layer][NextOp.buf].rows[r] = Lookup!TableRow(NextOp.layer, NextOp.step, r)
      BY <1>0, <2>1 DEF CopyInv, SourceReady
    <2> QED BY <1>0, <2>1, <2>2, <2>3, SMTT(60) DEF Writes, Writing
  <1>2. CASE GpuZero
    <2>1. NextOp.kind = "zero"
      BY <1>2 DEF GpuZero, Retire
    <2>2. staging'[l][r] = IF l = NextOp.layer /\ r \in NextOp.lo..NextOp.hi-1
                           THEN Zero ELSE staging[l][r]
      BY <1>0, <1>2 DEF GpuZero, StagingTypes
    <2> QED BY <1>0, <2>1, <2>2 DEF Writes, Writing
  <1>3. CASE GpuIds \/ GpuForward
    BY <1>0, <1>3 DEF GpuIds, GpuForward, Retire, Writes
  <1> QED BY <1>1, <1>2, <1>3 DEF Stream

LEMMA ReadyRetire ==
  ASSUME TypeInv, CopyInv, Stream, NEW p \in retired+2..Len(ops)+1,
         NEW l \in Layers, NEW r \in 0..MaxRows-1, NEW v, StreamWillLeave(p, l, r, v)
  PROVE  StreamWillLeave(p, l, r, v)'
  <1> DEFINE h == retired + 1
  <1>0. ops' = ops /\ retired' = retired + 1 /\ retired \in Nat /\ Len(ops) \in Nat
    BY DEF Stream, GpuIds, GpuCopy, GpuZero, GpuForward, Retire, TypeInv, TypeOK, StreamTypes
  <1>1. \A i : (Writes(i, l, r)' <=> Writes(i, l, r)) /\ Writing(i, l, r)' = Writing(i, l, r)
    BY <1>0 DEF Writes, Writing
  <1>2. staging'[l][r] = IF Writes(h, l, r) THEN Writing(h, l, r) ELSE staging[l][r]
    BY StreamEffect
  <1>3. CASE \E q \in retired+1..p-1 :
               /\ Writes(q, l, r) /\ Writing(q, l, r) = v
               /\ \A i \in q+1..p-1 : ~Writes(i, l, r)
    <2>1. PICK q \in retired+1..p-1 :
               /\ Writes(q, l, r) /\ Writing(q, l, r) = v
               /\ \A i \in q+1..p-1 : ~Writes(i, l, r)
      BY <1>3
    <2>2. CASE q = h
      <3>1. staging'[l][r] = v
        BY <1>2, <2>1, <2>2
      <3>2. \A i \in retired'+1..p-1 : ~Writes(i, l, r)'
        BY <1>0, <1>1, <2>1, <2>2
      <3> QED BY <3>1, <3>2 DEF StreamWillLeave
    <2>3. CASE q # h
      <3>1. q \in retired'+1..p-1 /\ Writes(q, l, r)' /\ Writing(q, l, r)' = v
            /\ \A i \in q+1..p-1 : ~Writes(i, l, r)'
        BY <1>0, <1>1, <2>1, <2>3
      <3> QED BY <3>1 DEF StreamWillLeave
    <2> QED BY <2>2, <2>3
  <1>4. CASE staging[l][r] = v /\ \A i \in retired+1..p-1 : ~Writes(i, l, r)
    <2>1. staging'[l][r] = v
      BY <1>0, <1>2, <1>4
    <2>2. \A i \in retired'+1..p-1 : ~Writes(i, l, r)'
      BY <1>0, <1>1, <1>4
    <2> QED BY <2>1, <2>2 DEF StreamWillLeave
  <1> QED BY <1>3, <1>4 DEF StreamWillLeave

LEMMA RowsReadyPrefix ==
  ASSUME TypeInv, Appending, NEW p \in retired+1..Len(ops)+1, NEW l, NEW s,
         batch'[s] = batch[s], RowsReady(p, l, s)
  PROVE  RowsReady(p, l, s)'
  <1>1. ASSUME NEW r \in 0..Lookup!PaddedOf(batch[s])-1
        PROVE  StreamWillLeave(p, l, r, Lookup!ExpectedRow(l, s, batch[s], r))'
    BY ReadyPrefix DEF RowsReady
  <1> QED BY <1>1 DEF RowsReady

LEMMA RowsReadySkip ==
  ASSUME TypeInv, Appending, Len(ops') \in Nat, NEW l, batch' = batch,
         \A i \in Len(ops)+1..Len(ops') : ops'[i].kind \in {"copy", "zero"} => ops'[i].layer # l,
         RowsReady(Len(ops) + 1, l, Step)
  PROVE  RowsReady(Len(ops) + 1, l, Step)'
  <1> PICK p, s, b : p = Len(ops') + 1 /\ s = Step /\ b = batch[Step]
    OBVIOUS
  <1>0. p \in Len(ops)+1..Len(ops')+1
    BY DEF Appending, TypeInv, TypeOK, StreamTypes
  <1>1. \A i \in Len(ops)+1..p-1 : \A r : ~Writes(i, l, r)'
    BY <1>0 DEF Writes
  <1>2. ASSUME NEW r \in 0..Lookup!PaddedOf(b)-1
        PROVE  StreamWillLeave(p, l, r, Lookup!ExpectedRow(l, s, b, r))'
    <2>1. StreamWillLeave(Len(ops) + 1, l, r, Lookup!ExpectedRow(l, s, b, r))
      BY DEF RowsReady
    <2> QED BY <1>0, <1>1, <2>1, ReadySkip
  <1>3. Step' = Step
    BY DEF Step
  <1> QED BY <1>2, <1>3 DEF RowsReady

LEMMA PaddedBound ==
  ASSUME TypeInv, NEW s \in 1..Step
  PROVE  /\ batch[s] \in Lookup!Batches
         /\ Lookup!PaddedOf(batch[s]) \in 0..MaxRows
         /\ Lookup!PaddedOf(batch[s]) = batch[s].padded * Heads
  <1>1. batch[s] \in Lookup!Batches
    BY DEF TypeInv, TypeOK, HostTypes, Step
  <1> QED BY <1>1, BatchFacts DEF Lookup!PaddedOf

LEMMA StreamInvStep ==
  ASSUME TypeInv, TypeInv', HostInv, GatherInv, CopyInv, OrderInv, StreamInv, [Next]_vars
  PROVE  StreamInv'
  <1>0. /\ Len(ops) \in Nat /\ Len(ops') \in Nat /\ retired \in 0..Len(ops) /\ Step \in Nat
        /\ Launched \in Int /\ Launched <= Step /\ layer \in Layers /\ batch \in Seq(Lookup!Batches)
        /\ MaxRows \in Nat
    BY MaxRowsNat, SMTT(60) DEF TypeInv, TypeOK, StreamTypes, HostTypes, Step, Launched
  <1>1. ASSUME NEW p \in retired+1..Len(ops), IsForward(p), NEW l \in Layers
        PROVE  RowsReady(p, l, ops[p].step) /\ ops[p].step \in 1..Step
    <2>1. ops[p].step <= Launched /\ ops[p].step \in Nat /\ ops[p].step >= 1
      BY <1>0, <1>1, OpsFacts DEF OrderInv
    <2> QED BY <1>0, <1>1, <2>1 DEF StreamInv
  <1>2. CASE Stream
    <2>0. /\ ops' = ops /\ batch' = batch /\ pc' = pc /\ layer' = layer /\ retired' = retired + 1 /\ ~Drained
      BY <1>2 DEF Stream, GpuIds, GpuCopy, GpuZero, GpuForward, Retire, host
    <2>1. ASSUME NEW p \in retired+2..Len(ops)+1, NEW l \in Layers, NEW s \in 1..Step, RowsReady(p, l, s)
          PROVE  RowsReady(p, l, s)'
      <3>1. ASSUME NEW r \in 0..Lookup!PaddedOf(batch[s])-1
            PROVE  StreamWillLeave(p, l, r, Lookup!ExpectedRow(l, s, batch[s], r))'
        <4> PICK v : v = Lookup!ExpectedRow(l, s, batch[s], r)
          OBVIOUS
        <4>1. Lookup!PaddedOf(batch[s]) \in 0..MaxRows
          BY PaddedBound
        <4>2. r \in 0..MaxRows-1
          BY <1>0, <4>1
        <4>3. StreamWillLeave(p, l, r, v)
          BY <2>1 DEF RowsReady
        <4>4. StreamWillLeave(p, l, r, v)'
          BY <1>2, <4>2, <4>3, ReadyRetire
        <4> QED BY <2>0, <4>4
      <3> QED BY <2>0, <3>1 DEF RowsReady
    <2>2. ASSUME NEW p \in retired'+1..Len(ops'), IsForward(p)', NEW l \in Layers
          PROVE  RowsReady(p, l, ops[p].step)'
      <3> PICK s : s = ops[p].step
        OBVIOUS
      <3>1. p \in retired+1..Len(ops) /\ p \in retired+2..Len(ops)+1 /\ IsForward(p)
        BY <1>0, <2>0, <2>2 DEF IsForward
      <3>2. RowsReady(p, l, s)'
        BY <1>1, <2>1, <3>1
      <3> QED BY <2>0, <3>2 DEF RowsReady
    <2>3. ASSUME NEW l \in Served' PROVE RowsReady(Len(ops) + 1, l, Step)'
      <3> PICK p, s : p = Len(ops) + 1 /\ s = Step
        OBVIOUS
      <3>1. l \in Served /\ l \in Layers /\ Step > 0
        BY <1>0, <2>0, <2>3, SMTT(30) DEF Served, HostInv
      <3>2. p \in retired+2..Len(ops)+1 /\ s \in 1..Step
        BY <1>0, <2>0, <3>1 DEF Drained
      <3>3. RowsReady(p, l, s)'
        BY <2>1, <3>1, <3>2 DEF StreamInv
      <3> QED BY <2>0, <3>3 DEF RowsReady, Step
    <2> QED BY <2>2, <2>3 DEF StreamInv
  <1>3. CASE ~Stream
    <2>0. Appending
      BY <1>3, HostAppends DEF TypeInv, TypeOK
    <2>a. Len(ops') >= Len(ops) /\ (\A i \in 1..Len(ops) : ops'[i] = ops[i]) /\ retired' = retired
      BY <2>0 DEF Appending, device
    (* The forwards enqueued before.                                       *)
    <2>1. ASSUME \A s \in 1..Step : batch'[s] = batch[s],
                 NEW p \in retired+1..Len(ops), IsForward(p)', NEW l \in Layers
          PROVE  RowsReady(p, l, ops[p].step)'
      <3> PICK s : s = ops[p].step
        OBVIOUS
      <3>1. p \in 1..Len(ops) /\ p \in retired+1..Len(ops)+1 /\ ops'[p] = ops[p] /\ IsForward(p)
        BY <1>0, <2>a, <2>1 DEF IsForward
      <3>2. RowsReady(p, l, s) /\ s \in 1..Step
        BY <1>1, <2>1, <3>1
      <3>3. RowsReady(p, l, s)'
        BY <2>0, <2>1, <3>1, <3>2, RowsReadyPrefix
      <3> QED BY <3>1, <3>3 DEF RowsReady
    (* Steps that enqueue no forward.                                      *)
    <2>2. ASSUME \A s \in 1..Step : batch'[s] = batch[s],
                 \A i \in Len(ops)+1..Len(ops') : ops'[i].kind # "forward",
                 \A l \in Served' : RowsReady(Len(ops) + 1, l, Step)'
          PROVE  StreamInv'
      <3>1. ASSUME NEW p \in retired'+1..Len(ops'), IsForward(p)' PROVE p \in retired+1..Len(ops)
        BY <1>0, <2>a, <2>2, <3>1 DEF IsForward
      <3> QED BY <2>1, <2>2, <3>1 DEF StreamInv
    (* Steps that leave the stream and the host's progress alone.          *)
    <2>3. ASSUME UNCHANGED <<batch, ops>>, \A l \in Served' : l \in Served PROVE StreamInv'
      <3>1. ASSUME NEW l \in Served' PROVE RowsReady(Len(ops) + 1, l, Step)'
        <4>1. RowsReady(Len(ops) + 1, l, Step)
          BY <2>3, <3>1 DEF StreamInv
        <4> QED BY <1>0, <2>0, <2>3, <4>1, RowsReadySkip
      <3> QED BY <1>0, <2>2, <2>3, <3>1
    <2>4. ASSUME NEW b \in Lookup!Batches, Prepare(b) PROVE StreamInv'
      <3>1. ops' = ops /\ Served' = {} /\ \A s \in 1..Step : batch'[s] = batch[s]
        BY <1>0, <2>4 DEF Prepare, Served, Step
      <3> QED BY <1>0, <2>2, <3>1
    <2>5. ASSUME NEW t \in 1..MaxTokens, PrepareDummy(t) PROVE StreamInv'
      <3> PICK s, b : s = Step + 1 /\ b = [n |-> t, padded |-> t, real |-> FALSE]
        OBVIOUS
      <3>1. /\ batch' = Append(batch, b) /\ Step' = s /\ \A k \in 1..Step : batch'[k] = batch[k]
            /\ batch'[s] = b
        BY <1>0, <2>5 DEF PrepareDummy, Step
      <3>2. /\ Len(ops') = Len(ops) + NumLayers
            /\ \A l \in Layers :
                 ops'[Len(ops) + l] = [kind |-> "zero", step |-> Step + 1, layer |-> l, buf |-> 0,
                                       lo |-> 0, hi |-> t * Heads]
        BY <2>5, NewOps
      <3>3. ASSUME NEW i \in Len(ops)+1..Len(ops')
            PROVE  ops'[i].kind = "zero" /\ ops'[i].layer = i - Len(ops) /\ ops'[i].lo = 0
                   /\ ops'[i].hi = t * Heads
        <4>1. i - Len(ops) \in Layers /\ i = Len(ops) + (i - Len(ops))
          BY <1>0, <3>2
        <4>2. ops'[i] = [kind |-> "zero", step |-> Step + 1, layer |-> i - Len(ops), buf |-> 0,
                         lo |-> 0, hi |-> t * Heads]
          BY <3>2, <4>1
        <4> QED BY <4>2
      <3>4. ASSUME NEW l \in Served' PROVE RowsReady(Len(ops) + 1, l, Step)'
        <4> PICK p, q : p = Len(ops') + 1 /\ q = Len(ops) + l
          OBVIOUS
        <4>1. l \in Layers
          BY <2>5, <3>4 DEF PrepareDummy, Served
        <4>2. q \in Len(ops)+1..Len(ops') /\ p \in q+1..Len(ops')+1
          BY <1>0, <3>2, <4>1
        <4>3. Lookup!PaddedOf(b) = t * Heads
          BY DEF Lookup!PaddedOf
        <4>4. ASSUME NEW r \in 0..Lookup!PaddedOf(b)-1
              PROVE  StreamWillLeave(p, l, r, Lookup!ExpectedRow(l, s, b, r))'
          <5>1. Writes(q, l, r)' /\ Writing(q, l, r)' = Zero
            <6>1. ops'[q].kind = "zero" /\ ops'[q].layer = q - Len(ops) /\ ops'[q].lo = 0
                   /\ ops'[q].hi = t * Heads
              BY <3>3, <4>2
            <6>2. q - Len(ops) = l
              BY <1>0, <4>1
            <6> QED BY <4>3, <6>1, <6>2 DEF Writes, Writing
          <5>2. \A i \in q+1..p-1 : ~Writes(i, l, r)'
            <6> SUFFICES ASSUME NEW i \in q+1..p-1 PROVE ~Writes(i, l, r)'
              OBVIOUS
            <6>1. i \in Len(ops)+1..Len(ops') /\ i - Len(ops) # l
              BY <1>0, <4>1, <4>2
            <6> QED BY <3>3, <6>1 DEF Writes
          <5>3. StreamWillLeave(p, l, r, Zero)'
            BY <1>0, <2>0, <4>2, <5>1, <5>2, ReadyWrite
          <5>4. Lookup!ExpectedRow(l, s, b, r) = Zero
            BY DEF Lookup!ExpectedRow, Lookup!RowsOf
          <5> QED BY <5>3, <5>4
        <4> QED BY <3>1, <4>4 DEF RowsReady
      <3>5. \A i \in Len(ops)+1..Len(ops') : ops'[i].kind # "forward"
        BY <3>3
      <3> QED BY <2>2, <3>1, <3>4, <3>5
    <2>6. ASSUME StageZero PROVE StreamInv'
      <3> PICK s, b, y : s = Step /\ b = batch[Step] /\ y = layer
        OBVIOUS
      <3>0. pc = "stage" /\ batch' = batch /\ NothingToGather /\ NextLayer
        BY <2>6 DEF StageZero
      <3>00. Step' = Step /\ Step > 0
        BY <1>0, <3>0 DEF Step, HostInv
      <3>1. /\ batch' = batch /\ Step' = Step /\ Step > 0 /\ pc = "stage" /\ pc' \in {"stage", "launch"}
            /\ (pc' = "stage" => layer' = layer + 1) /\ (pc' = "launch" => layer = NumLayers)
            /\ NothingToGather
        BY <1>0, <3>0, <3>00 DEF NextLayer
      <3>2. Len(ops') = Len(ops) + 1 /\ ops'[Len(ops) + 1] = Op("zero", layer, 0, 0, Current.padded * Heads)
        BY <2>6, NewOps
      <3>3. ASSUME NEW l \in Served' PROVE l \in Layers /\ (l # layer => l \in Served)
        <4>1. Served = 1..layer-1
          BY <3>1 DEF Served
        <4>2. CASE pc' = "stage"
          <5>1. l \in 1..layer
            BY <1>0, <3>1, <3>3, <4>2, SMTT(60) DEF Served
          <5> QED BY <1>0, <4>1, <5>1
        <4>3. CASE pc' = "launch"
          <5>1. l \in 1..NumLayers /\ layer = NumLayers
            BY <3>1, <3>3, <4>3 DEF Served
          <5> QED BY <1>0, <4>1, <5>1
        <4> QED BY <3>1, <4>2, <4>3
      <3>4. ASSUME NEW l \in Served' PROVE RowsReady(Len(ops) + 1, l, Step)'
        <4>1. CASE l # layer
          <5>1. RowsReady(Len(ops) + 1, l, Step)
            BY <3>3, <4>1, <3>4 DEF StreamInv
          <5>2. \A i \in Len(ops)+1..Len(ops') : ops'[i].layer # l
            BY <1>0, <3>2, <4>1 DEF Op
          <5> QED BY <1>0, <2>0, <3>1, <5>1, <5>2, RowsReadySkip
        <4>2. CASE l = layer
          <5> PICK p, q : p = Len(ops') + 1 /\ q = Len(ops) + 1
            OBVIOUS
          <5>1. q \in Len(ops)+1..Len(ops') /\ p \in q+1..Len(ops')+1 /\ p = q + 1
            BY <1>0, <3>2
          <5>2. ~b.real \/ b.n = 0
            BY <3>1 DEF NothingToGather, Current
          <5>3. Lookup!PaddedOf(b) = b.padded * Heads /\ \A r \in Nat : Lookup!ExpectedRow(l, s, b, r) = Zero
            BY <5>2 DEF Lookup!PaddedOf, Lookup!ExpectedRow, Lookup!RowsOf
          <5>5. Lookup!PaddedOf(b) \in 0..MaxRows
            <6>1. Step \in 1..Step
              BY <1>0, <3>1
            <6> QED BY <6>1, PaddedBound
          <5>4. ASSUME NEW r \in 0..Lookup!PaddedOf(b)-1
                PROVE  StreamWillLeave(p, l, r, Lookup!ExpectedRow(l, s, b, r))'
            <6>1. Writes(q, l, r)' /\ Writing(q, l, r)' = Zero
              BY <3>2, <4>2, <5>3 DEF Writes, Writing, Op, Current
            <6>2. \A i \in q+1..p-1 : ~Writes(i, l, r)'
              BY <1>0, <5>1
            <6>3. StreamWillLeave(p, l, r, Zero)'
              BY <1>0, <2>0, <5>1, <6>1, <6>2, ReadyWrite
            <6>4. r \in Nat
              BY <1>0, <5>5
            <6> QED BY <5>3, <6>3, <6>4
          <5> QED BY <3>1, <5>4 DEF RowsReady
        <4> QED BY <4>1, <4>2
      <3>5. \A i \in Len(ops)+1..Len(ops') : ops'[i].kind # "forward"
        BY <1>0, <3>2 DEF Op
      <3> QED BY <2>2, <3>1, <3>4, <3>5
    <2>7. ASSUME ComputeIds PROVE StreamInv'
      <3>1. batch' = batch /\ \A l \in Served' : l \in Served
        BY <2>7 DEF ComputeIds, Served
      <3>2. Len(ops') = Len(ops) + 1 /\ ops'[Len(ops) + 1].kind = "ids"
        BY <2>7, NewOps DEF Op
      <3>3. \A i \in Len(ops)+1..Len(ops') : ops'[i].kind = "ids"
        BY <1>0, <3>2
      <3>4. ASSUME NEW l \in Served' PROVE RowsReady(Len(ops) + 1, l, Step)'
        <4>1. RowsReady(Len(ops) + 1, l, Step)
          BY <3>1, <3>4 DEF StreamInv
        <4> QED BY <1>0, <2>0, <3>1, <3>3, <4>1, RowsReadySkip
      <3> QED BY <2>2, <3>1, <3>3, <3>4
    <2>8. ASSUME IssueCopy PROVE StreamInv'
      <3> PICK s, b, n, m : s = Step /\ b = batch[Step] /\ n = NumRows /\ m = Current.padded * Heads
        OBVIOUS
      <3>1. /\ batch' = batch /\ Step' = Step /\ Step > 0 /\ pc = "wait" /\ pc' \in {"stage", "launch"}
            /\ (pc' = "stage" => layer' = layer + 1) /\ (pc' = "launch" => layer = NumLayers)
            /\ ~NothingToGather
        <4>1. pc = "wait" /\ batch' = batch /\ NextLayer
          BY <2>8 DEF IssueCopy
        <4>2. Step' = Step /\ Step > 0 /\ ~NothingToGather
          BY <1>0, <4>1 DEF Step, HostInv
        <4> QED BY <1>0, <4>1, <4>2 DEF NextLayer
      <3>2. /\ Len(ops') = IF b.padded > b.n THEN Len(ops) + 2 ELSE Len(ops) + 1
            /\ ops'[Len(ops) + 1] = Op("copy", layer, Len(pinned[layer]), 0, n)
            /\ b.padded > b.n => ops'[Len(ops) + 2] = Op("zero", layer, 0, n, m)
        BY <2>8, NewOps DEF Current
      <3>3. ASSUME NEW l \in Served' PROVE l \in Layers /\ (l # layer => l \in Served)
        <4>1. Served = 1..layer-1
          BY <3>1 DEF Served
        <4>2. CASE pc' = "stage"
          <5>1. l \in 1..layer
            BY <1>0, <3>1, <3>3, <4>2, SMTT(60) DEF Served
          <5> QED BY <1>0, <4>1, <5>1
        <4>3. CASE pc' = "launch"
          <5>1. l \in 1..NumLayers /\ layer = NumLayers
            BY <3>1, <3>3, <4>3 DEF Served
          <5> QED BY <1>0, <4>1, <5>1
        <4> QED BY <3>1, <4>2, <4>3
      <3>4. \A i \in Len(ops)+1..Len(ops') :
              \/ i = Len(ops) + 1 /\ ops'[i] = Op("copy", layer, Len(pinned[layer]), 0, n)
              \/ i = Len(ops) + 2 /\ b.padded > b.n /\ ops'[i] = Op("zero", layer, 0, n, m)
        <4> SUFFICES ASSUME NEW i \in Len(ops)+1..Len(ops')
                     PROVE  \/ i = Len(ops) + 1
                            \/ i = Len(ops) + 2 /\ b.padded > b.n
          BY <3>2
        <4>1. CASE b.padded > b.n
          <5>1. Len(ops') = Len(ops) + 2
            BY <3>2, <4>1
          <5> QED BY <1>0, <4>1, <5>1
        <4>2. CASE ~(b.padded > b.n)
          <5>1. Len(ops') = Len(ops) + 1
            BY <3>2, <4>2
          <5> QED BY <1>0, <5>1
        <4> QED BY <4>1, <4>2
      <3>5. /\ n \in Nat /\ m \in Nat /\ n <= m /\ n = b.n * Heads /\ m = b.padded * Heads
            /\ b.n \in Nat /\ b.padded \in Nat /\ b.n <= b.padded /\ b.real
        <4>1. b \in Lookup!Batches /\ b = Current
          BY <3>1, CurrentFacts DEF TypeInv, TypeOK, Current
        <4>2. n = b.n * Heads /\ m = b.padded * Heads
          BY <4>1 DEF NumRows
        <4>3. b.real
          BY <3>1, <4>1 DEF NothingToGather
        <4>4. b.n \in Nat /\ b.padded \in Nat /\ b.n <= b.padded
              /\ b.n * Heads \in 0..MaxRows /\ b.padded * Heads \in 0..MaxRows
              /\ b.n * Heads <= b.padded * Heads
          BY <4>1, BatchFacts
        <4> HIDE DEF Current
        <4> QED BY <1>0, <4>2, <4>3, <4>4, SMTT(60)
      <3>6. ASSUME NEW l \in Served' PROVE RowsReady(Len(ops) + 1, l, Step)'
        <4>1. CASE l # layer
          <5>1. RowsReady(Len(ops) + 1, l, Step)
            BY <3>3, <4>1, <3>6 DEF StreamInv
          <5>2. \A i \in Len(ops)+1..Len(ops') : ops'[i].layer # l
            BY <3>4, <4>1 DEF Op
          <5> QED BY <1>0, <2>0, <3>1, <5>1, <5>2, RowsReadySkip
        <4>2. CASE l = layer
          <5> PICK p, c, z : p = Len(ops') + 1 /\ c = Len(ops) + 1 /\ z = Len(ops) + 2
            OBVIOUS
          <5>1. Lookup!PaddedOf(b) = m
            BY <3>5 DEF Lookup!PaddedOf
          <5>2. \A r \in Nat : Lookup!ExpectedRow(l, s, b, r) =
                                 IF r < n THEN Lookup!TableRow(l, s, r) ELSE Zero
            BY <3>5 DEF Lookup!ExpectedRow, Lookup!RowsOf
          <5>3. ASSUME NEW r \in 0..m-1
                PROVE  StreamWillLeave(p, l, r, Lookup!ExpectedRow(l, s, b, r))'
            <6>1. CASE r < n
              <7>1. c \in Len(ops)+1..Len(ops') /\ p \in c+1..Len(ops')+1
                BY <1>0, <3>2, SMTT(60)
              <7>2. Writes(c, l, r)' /\ Writing(c, l, r)' = Lookup!TableRow(l, s, r)
                BY <3>2, <3>5, <4>2, <6>1 DEF Writes, Writing, Op
              <7>3. \A i \in c+1..p-1 : ~Writes(i, l, r)'
                <8> SUFFICES ASSUME NEW i \in c+1..p-1 PROVE ~Writes(i, l, r)'
                  OBVIOUS
                <8>0. i \in Len(ops)+1..Len(ops') /\ i # Len(ops) + 1
                  BY <1>0, <7>1, SMTT(60)
                <8>1. ops'[i] = Op("zero", layer, 0, n, m)
                  BY <3>4, <8>0
                <8> QED BY <3>5, <6>1, <8>1, SMTT(60) DEF Writes, Op
              <7>4. StreamWillLeave(p, l, r, Lookup!TableRow(l, s, r))'
                BY <1>0, <2>0, <7>1, <7>2, <7>3, ReadyWrite
              <7> QED BY <3>5, <5>2, <6>1, <7>4
            <6>2. CASE ~(r < n)
              <7>0. b.padded > b.n
                <8> SUFFICES ASSUME b.padded = b.n PROVE FALSE
                  BY <3>5, SMTT(60)
                <8> QED BY <3>5, <6>2
              <7>1. z \in Len(ops)+1..Len(ops') /\ p \in z+1..Len(ops')+1 /\ p = z + 1
                BY <1>0, <3>2, <7>0, SMTT(60)
              <7>2. Writes(z, l, r)' /\ Writing(z, l, r)' = Zero
                <8>1. ops'[z] = Op("zero", layer, 0, n, m)
                  BY <3>2, <7>0
                <8>2. r \in n..m-1
                  BY <3>5, <6>2
                <8> QED BY <4>2, <8>1, <8>2 DEF Writes, Writing, Op
              <7>3. \A i \in z+1..p-1 : ~Writes(i, l, r)'
                BY <1>0, <7>1
              <7>4. StreamWillLeave(p, l, r, Zero)'
                BY <1>0, <2>0, <7>1, <7>2, <7>3, ReadyWrite
              <7> QED BY <3>5, <5>2, <6>2, <7>4
            <6> QED BY <6>1, <6>2
          <5> QED BY <3>1, <5>1, <5>3 DEF RowsReady
        <4> QED BY <4>1, <4>2
      <3>7. \A i \in Len(ops)+1..Len(ops') : ops'[i].kind # "forward"
        BY <3>4 DEF Op
      <3> QED BY <2>2, <3>1, <3>6, <3>7
    <2>9. ASSUME Launch PROVE StreamInv'
      <3> PICK q, s : q = Len(ops) + 1 /\ s = Step
        OBVIOUS
      <3>1. batch' = batch /\ Served' = {} /\ Served = Layers
        BY <2>9 DEF Launch, Served
      <3>2. Len(ops') = Len(ops) + 1 /\ ops'[q].step = s
        BY <2>9, NewOps DEF Op
      <3>3. ASSUME NEW l \in Layers PROVE RowsReady(q, l, s)'
        <4>1. RowsReady(q, l, s)
          BY <3>1 DEF StreamInv
        <4> QED BY <1>0, <2>0, <3>1, <4>1, RowsReadyPrefix
      <3>4. ASSUME NEW p \in retired'+1..Len(ops'), IsForward(p)', NEW l \in Layers
            PROVE  RowsReady(p, l, ops[p].step)'
        <4>1. CASE p = q
          BY <3>2, <3>3, <4>1 DEF RowsReady
        <4>2. CASE p # q
          BY <1>0, <2>a, <2>1, <3>1, <3>2, <3>4, <4>2
        <4> QED BY <4>1, <4>2
      <3> QED BY <3>1, <3>4 DEF StreamInv
    <2>10. StartGather => StreamInv'
      BY <2>3 DEF StartGather, Served
    <2>11. ASSUME NEW a \in DOMAIN fut,
                  Collect(a) \/ Raise(a) \/ TakeChunk(a) \/ ReadRow(a) \/ ShortRead(a)
           PROVE  StreamInv'
      BY <2>3, <2>11 DEF Collect, Raise, TakeChunk, ReadRow, ShortRead, host, Served
    <2>12. Finished \/ UNCHANGED vars => StreamInv'
      BY <2>3 DEF Finished, vars, Served
    <2> QED BY <1>3, <2>4, <2>5, <2>6, <2>7, <2>8, <2>9, <2>10, <2>11, <2>12 DEF Next, Host, Pool
  <1> QED BY <1>2, <1>3

-----------------------------------------------------------------------------
(* What a forward reads.                                                   *)

(* The forward at the head of the stream delivers its step's rows.         *)
LEMMA ForwardDelivers ==
  ASSUME TypeInv, OrderInv, StreamInv, GpuForward
  PROVE  /\ Len(seen) + 1 \in 1..Step
         /\ seen' = Append(seen, Lookup!Expected(Len(seen) + 1, batch[Len(seen) + 1]))
  <1> PICK h, s, b : h = retired + 1 /\ s = NextOp.step /\ b = batch[NextOp.step]
    OBVIOUS
  <1>1. ~Drained /\ NextOp.kind = "forward"
        /\ seen' = Append(seen, [l \in Layers |-> [r \in 0..NextOp.hi-1 |-> staging[l][r]]])
    BY DEF GpuForward, Retire
  <1>2. s = Len(seen) + 1 /\ s \in 1..Step /\ NextOp.hi = Lookup!PaddedOf(b)
    BY <1>1, HeadForward
  <1>3. /\ h \in retired+1..Len(ops) /\ NextOp = ops[h] /\ retired \in Nat
        /\ \A i \in retired+1..h-1 : FALSE
    BY <1>1, NextOpFacts DEF TypeInv, TypeOK, StreamTypes
  <1>4. ASSUME NEW l \in Layers, NEW r \in 0..Lookup!PaddedOf(b)-1
        PROVE  staging[l][r] = Lookup!ExpectedRow(l, s, b, r)
    <2>1. RowsReady(h, l, s)
      BY <1>1, <1>3 DEF StreamInv, IsForward
    <2>2. StreamWillLeave(h, l, r, Lookup!ExpectedRow(l, s, b, r))
      BY <2>1 DEF RowsReady
    <2> QED BY <1>3, <2>2 DEF StreamWillLeave
  <1>5. [l \in Layers |-> [r \in 0..NextOp.hi-1 |-> staging[l][r]]] = Lookup!Expected(s, b)
    BY <1>2, <1>4 DEF Lookup!Expected
  <1> QED BY <1>1, <1>2, <1>5

(* No other step delivers, and the batches already handed over stay.       *)
LEMMA DeliveriesStep ==
  ASSUME TypeInv, [Next]_vars, ~GpuForward
  PROVE  /\ seen' = seen
         /\ \/ batch' = batch
            \/ \E b \in Lookup!Batches : batch' = Append(batch, b)
  <1>1. ASSUME NEW t \in 1..MaxTokens, PrepareDummy(t)
        PROVE  [n |-> t, padded |-> t, real |-> FALSE] \in Lookup!Batches
    BY <1>1 DEF Lookup!Batches
  <1>2. ASSUME NEW t \in 1..MaxTokens, PrepareDummy(t)
        PROVE  seen' = seen /\ \E b \in Lookup!Batches : batch' = Append(batch, b)
    BY <1>1, <1>2 DEF PrepareDummy, device
  <1>3. ASSUME NEW b \in Lookup!Batches, Prepare(b)
        PROVE  seen' = seen /\ batch' = Append(batch, b)
    BY <1>3 DEF Prepare, device
  <1>4. StageZero \/ ComputeIds \/ StartGather \/ IssueCopy \/ Launch => UNCHANGED <<batch, seen>>
    BY DEF StageZero, ComputeIds, StartGather, IssueCopy, Launch, device
  <1>5. ASSUME NEW a \in DOMAIN fut,
               Collect(a) \/ Raise(a) \/ TakeChunk(a) \/ ReadRow(a) \/ ShortRead(a)
        PROVE  UNCHANGED <<batch, seen>>
    BY <1>5 DEF Collect, Raise, TakeChunk, ReadRow, ShortRead, host, device
  <1>6. GpuIds \/ GpuCopy \/ GpuZero \/ Finished \/ UNCHANGED vars => UNCHANGED <<batch, seen>>
    BY DEF GpuIds, GpuCopy, GpuZero, Retire, Finished, vars, host
  <1> QED BY <1>2, <1>3, <1>4, <1>5, <1>6 DEF Next, Host, Pool, Stream

LEMMA ForwardReadsStep ==
  ASSUME TypeInv, OrderInv, StreamInv, ForwardReadsItsStep, [Next]_vars
  PROVE  ForwardReadsItsStep' /\ Len(seen') <= Step' /\ Step' >= Step
         /\ \A s \in 1..Step : batch'[s] = batch[s]
  <1>0. /\ batch \in Seq(Lookup!Batches) /\ seen \in Seq(Outputs) /\ Len(seen) <= Step
        /\ Step = Len(batch) /\ Step \in Nat
    BY DEF TypeInv, TypeOK, HostTypes, SeenTypes, Step
  <1>1. CASE GpuForward
    <2>1. batch' = batch /\ Step' = Step
      BY <1>1 DEF GpuForward, Retire, host, Step
    <2>2. /\ Len(seen) + 1 \in 1..Step
          /\ seen' = Append(seen, Lookup!Expected(Len(seen) + 1, batch[Len(seen) + 1]))
      BY <1>1, ForwardDelivers
    <2> PICK n, e : n = Len(seen) + 1 /\ e = Lookup!Expected(n, batch[n])
      OBVIOUS
    <2> PICK T : seen \in Seq(T) /\ e \in T
      <3>1. seen \in Seq(Outputs \cup {e})
        BY <1>0
      <3> QED BY <3>1
    <2>3. Len(seen') = n /\ seen'[n] = e /\ \A s \in 1..n-1 : seen'[s] = seen[s]
      BY <2>2
    <2>4. ASSUME NEW s \in 1..n PROVE seen'[s] = Lookup!Expected(s, batch[s])
      <3>1. s \in 1..n-1 => seen'[s] = Lookup!Expected(s, batch[s])
        BY <2>3 DEF ForwardReadsItsStep
      <3> QED BY <1>0, <2>3, <3>1
    <2> QED BY <1>0, <2>1, <2>2, <2>3, <2>4 DEF ForwardReadsItsStep
  <1>2. CASE ~GpuForward
    <2>1. seen' = seen /\ Step' >= Step /\ \A s \in 1..Step : batch'[s] = batch[s]
      BY <1>0, <1>2, DeliveriesStep DEF Step
    <2>2. Step' \in Nat
      BY <1>0, <1>2, DeliveriesStep DEF Step
    <2>3. \A s \in 1..Len(seen) : batch'[s] = batch[s]
      BY <1>0, <2>1
    <2> QED BY <1>0, <2>1, <2>2, <2>3 DEF ForwardReadsItsStep
  <1> QED BY <1>1, <1>2

LEMMA ExpectedTypes ==
  ASSUME NEW b \in Lookup!Batches, NEW s \in Nat
  PROVE  Lookup!Expected(s, b) \in [Layers -> [0..b.padded * Heads - 1 -> Cells]]
  <1>1. b.padded * Heads \in Nat
    BY BatchFacts, MaxRowsNat
  <1>2. ASSUME NEW l \in Layers, NEW r \in 0..b.padded * Heads - 1
        PROVE  Lookup!ExpectedRow(l, s, b, r) \in Cells
    <2>1. l \in Nat /\ r \in Nat
      BY <1>1
    <2>2. Lookup!TableRow(l, s, r) \in Cells /\ Lookup!Zero \in Cells
      BY <2>1 DEF Lookup!TableRow, Cells
    <2> QED BY <2>2 DEF Lookup!ExpectedRow
  <1> QED BY <1>2 DEF Lookup!Expected, Lookup!PaddedOf

LEMMA SeenTypesStep ==
  ASSUME TypeInv, OrderInv, StreamInv, ForwardReadsItsStep, [Next]_vars
  PROVE  SeenTypes'
  <1>1. ForwardReadsItsStep' /\ Len(seen') <= Step'
    BY ForwardReadsStep
  <1>2. HostTypes'
    BY HostTypesStep DEF TypeInv, TypeOK
  <1>3. seen' \in Seq(Outputs)
    BY OutputsStep
  <1>4. ASSUME NEW s \in DOMAIN seen'
        PROVE  seen'[s] \in [Layers -> [0..batch'[s].padded * Heads - 1 -> Cells]]
    <2>1. s \in 1..Len(seen') /\ s \in Nat /\ s \in 1..Step' /\ batch' \in Seq(Lookup!Batches)
      BY <1>1, <1>2, <1>3 DEF HostTypes, Step
    <2>2. batch'[s] \in Lookup!Batches
      BY <2>1 DEF Step
    <2> PICK b : b = batch'[s]
      OBVIOUS
    <2>3. seen'[s] = Lookup!Expected(s, b)
      BY <1>1, <2>1 DEF ForwardReadsItsStep
    <2>4. Lookup!Expected(s, b) \in [Layers -> [0..b.padded * Heads - 1 -> Cells]]
      BY <2>1, <2>2, ExpectedTypes
    <2> QED BY <2>3, <2>4
  <1> QED BY <1>1, <1>4 DEF SeenTypes

-----------------------------------------------------------------------------
(* The invariant, put together.                                            *)
Inv == TypeInv /\ IInv

LEMMA InvInit == Init => Inv
  <1> SUFFICES ASSUME Init PROVE Inv
    OBVIOUS
  <1>1. TypeInv
    BY TypeInit
  <1>2. /\ pc = "idle" /\ batch = << >> /\ seen = << >> /\ ops = << >> /\ retired = 0
        /\ DOMAIN fut = {}
    BY DEF Init
  <1>3. HostInv /\ PoolIdleInv /\ GatherInv
    BY <1>2 DEF HostInv, PoolIdleInv, GatherInv, Gathering
  <1>4. OrderInv /\ CopyInv /\ StreamInv /\ ForwardReadsItsStep
    BY <1>2 DEF OrderInv, CopyInv, StreamInv, ForwardReadsItsStep, Launched, Served, Step
  <1> QED BY <1>1, <1>3, <1>4 DEF Inv, IInv, TypeInv

LEMMA InvStep == Inv /\ [Next]_vars => Inv'
  <1> SUFFICES ASSUME Inv, [Next]_vars PROVE Inv'
    OBVIOUS
  <1>0. /\ TypeInv /\ HostInv /\ PoolIdleInv /\ GatherInv /\ OrderInv /\ CopyInv /\ StreamInv
        /\ ForwardReadsItsStep
    BY DEF Inv, IInv
  <1>1. HostInv' /\ PoolIdleInv' /\ GatherInv'
    BY <1>0, HostInvStep, PoolIdleInvStep, GatherInvStep
  <1>2. ForwardReadsItsStep' /\ SeenTypes'
    BY <1>0, ForwardReadsStep, SeenTypesStep
  <1>3. pinned' \in [Layers -> Seq(Buffers)] /\ seen' \in Seq(Outputs)
    BY <1>0, PinnedTypesStep, OutputsStep
  <1>4. PinnedTypes'
    <2>1. ASSUME NEW l \in Layers, NEW g \in DOMAIN pinned'[l] PROVE pinned'[l][g] \in Buffers
      BY <1>3
    <2> QED BY <1>3, <2>1, BufferFacts DEF PinnedTypes
  <1>5. HostTypes' /\ PoolTypes' /\ StreamTypes' /\ StagingTypes'
    BY <1>0, HostTypesStep, PoolTypesStep, StreamTypesStep, StagingTypesStep DEF TypeInv, TypeOK
  <1>6. TypeInv'
    BY <1>2, <1>3, <1>4, <1>5 DEF TypeInv, TypeOK
  <1>7. OrderInv' /\ CopyInv' /\ StreamInv'
    BY <1>0, <1>6, OrderInvStep, CopyInvStep, StreamInvStep
  <1> QED BY <1>1, <1>2, <1>6, <1>7 DEF Inv, IInv, TypeInv

(* The invariant TLC checks is inductive, given the types of the sequences.*)
THEOREM Invariance == Spec => []Inv
  <1> QED BY InvInit, InvStep, PTL DEF Spec

(* Every variable keeps its type, and no chunk still has to read an id     *)
(* beyond those of its gather and its chunk, or a row for which the pinned *)
(* buffer in use has no place.                                             *)
THEOREM TypeCorrect == Spec => [](TypeOK /\ ReadsStayInside)
  <1>1. Inv => TypeOK
    BY DEF Inv, IInv
  <1>2. Inv => ReadsStayInside
    <2> SUFFICES ASSUME Inv, NEW a \in DOMAIN fut, fut[a] \in {"queued", "running"}
                 PROVE  /\ prog[a] < RowsIn(a) /\ a + prog[a] < NumRows
                        /\ pinned[layer] # << >> /\ a + prog[a] < CurBuf.cap
      BY DEF ReadsStayInside, CurBuf
    <2>1. TypeInv /\ HostInv /\ PoolIdleInv /\ GatherInv
      BY DEF Inv, IInv
    <2>2. Gathering
      BY <2>1 DEF PoolIdleInv
    <2>3. /\ DOMAIN fut = Chunks(NumRows) /\ prog[a] < RowsIn(a)
          /\ pinned[layer] # << >> /\ CurBuf.cap >= NumRows
      BY <2>1, <2>2 DEF GatherInv
    <2>4. HostTypes /\ PoolTypes /\ Step > 0
      BY <2>1, <2>2 DEF TypeInv, TypeOK, HostInv, Gathering
    <2>5. NumRows \in Nat
      BY <2>4, CurrentFacts, MaxRowsNat
    <2>6. a \in 0..NumRows-1 /\ prog[a] \in Nat
      BY <2>3, <2>4 DEF Chunks, PoolTypes
    <2>7. RowsIn(a) <= NumRows - a
      BY <2>5, <2>6 DEF RowsIn
    <2>8. CurBuf.cap \in Int
      <3>1. layer \in Layers /\ pinned \in [Layers -> Seq(Buffers)]
        BY <2>1, <2>4 DEF TypeInv, HostTypes
      <3>2. CurBuf \in Buffers
        BY <2>3, <3>1 DEF CurBuf
      <3> QED BY <3>2, BufferFacts, MaxRowsNat
    <2>9. RowsIn(a) \in Int
      BY <2>5, <2>6 DEF RowsIn
    <2> QED BY <2>3, <2>5, <2>6, <2>7, <2>8, <2>9
  <1> QED BY <1>1, <1>2, Invariance, PTL

(* Whatever the interleaving of host, pool and stream, whatever the sizes, *)
(* a forward reads its own step's table rows and zeros in the padding.     *)
THEOREM ForwardCorrect == Spec => []ForwardReadsItsStep
  <1>1. Inv => ForwardReadsItsStep
    BY DEF Inv, IInv
  <1> QED BY <1>1, Invariance, PTL

(* A step one of whose reads fell short is never served.                   *)
THEOREM FailureContained == Spec => []FailedStepNotServed
  <1>1. Inv => FailedStepNotServed
    <2> SUFFICES ASSUME Inv, NEW a \in DOMAIN fut, fut[a] = "failed",
                        NEW i \in 1..Len(ops), ops[i].step = Step
                 PROVE  /\ ops[i].kind # "forward"
                        /\ ops[i].kind = "copy" => ops[i].layer # layer
      BY DEF FailedStepNotServed
    <2>1. PoolIdleInv /\ OrderInv /\ TypeInv
      BY DEF Inv, IInv
    <2>2. pc \in {"wait", "raised"}
      BY <2>1 DEF PoolIdleInv, Gathering
    <2>3. Launched = Step - 1 /\ Step \in Nat /\ layer \in Int
      BY <2>1, <2>2 DEF Launched, TypeInv, TypeOK, HostTypes, Step
    <2>4. ops[i].kind # "forward"
      BY <2>1, <2>3 DEF OrderInv, IsForward
    <2>5. ops[i].kind = "copy" => ops[i].layer < layer
      BY <2>1, <2>2 DEF OrderInv
    <2>6. ops[i].layer \in Nat
      BY <2>1, OpsFacts
    <2> QED BY <2>3, <2>4, <2>5, <2>6
  <1> QED BY <1>1, Invariance, PTL

(* One reused pinned buffer per layer is enough: no step writes a buffer   *)
(* that a copy still on the stream has to read.                            *)
THEOREM BufferReuseSafe == Spec => NoWriteUnderCopy
  <1> DEFINE Keeps == \A l \in Layers : \A g \in DOMAIN pinned[l] :
                        PendingCopies(l, g) # {} => pinned'[l][g] = pinned[l][g]
  <1>1. Inv /\ [Next]_vars => [Keeps]_vars
    <2> SUFFICES ASSUME Inv, Next PROVE Keeps
      BY DEF vars, PendingCopies
    <2>0. TypeInv /\ PoolIdleInv /\ GatherInv /\ pinned \in [Layers -> Seq(Buffers)]
      BY DEF Inv, IInv, TypeInv
    <2>1. pinned' = pinned => Keeps
      OBVIOUS
    <2>2. Drained => Keeps
      BY <2>0 DEF Drained, PendingCopies, TypeInv, TypeOK, StreamTypes
    <2>3. StartGather => Drained
      BY DEF StartGather
    <2>4. ASSUME NEW a \in DOMAIN fut, ReadRow(a) \/ ShortRead(a) PROVE Drained
      <3>1. fut[a] = "running"
        BY <2>4 DEF ReadRow, ShortRead
      <3> QED BY <2>0, <3>1 DEF PoolIdleInv, GatherInv
    <2>5. ASSUME NEW a \in DOMAIN fut, Collect(a) \/ Raise(a) \/ TakeChunk(a) PROVE pinned' = pinned
      BY <2>5 DEF Collect, Raise, TakeChunk
    <2>6. ASSUME NEW b \in Lookup!Batches, Prepare(b) PROVE pinned' = pinned
      BY <2>6 DEF Prepare
    <2>7. ASSUME NEW t \in 1..MaxTokens, PrepareDummy(t) PROVE pinned' = pinned
      BY <2>7 DEF PrepareDummy
    <2>8. StageZero \/ ComputeIds \/ IssueCopy \/ Launch \/ Stream \/ Finished => pinned' = pinned
      BY DEF StageZero, ComputeIds, IssueCopy, Launch, Stream, GpuIds, GpuCopy, GpuZero,
             GpuForward, Retire, Finished, vars
    <2> HIDE DEF Keeps
    <2> QED BY <2>1, <2>2, <2>3, <2>4, <2>5, <2>6, <2>7, <2>8 DEF Next, Host, Pool
  <1> QED BY <1>1, Invariance, PTL DEF Spec, NoWriteUnderCopy

(* The pool, the pinned buffers and the asynchronous stream are invisible: *)
(* the staged lookup implements PleLookup.                                 *)
THEOREM Refinement == Spec => ImplementsLookup
  <1>1. Init => Lookup!Init
    BY DEF Init, Lookup!Init
  <1>2. Inv /\ [Next]_vars => [Lookup!Next]_Lookup!vars
    <2> SUFFICES ASSUME Inv, [Next]_vars PROVE [Lookup!Next]_Lookup!vars
      OBVIOUS
    <2>0. TypeInv /\ OrderInv /\ StreamInv
      BY DEF Inv, IInv
    <2>1. CASE GpuForward
      <3>1. /\ Len(seen) + 1 \in 1..Step
            /\ seen' = Append(seen, Lookup!Expected(Len(seen) + 1, batch[Len(seen) + 1]))
        BY <2>0, <2>1, ForwardDelivers
      <3>2. batch' = batch /\ Len(seen) < Len(batch)
        BY <2>0, <2>1, <3>1 DEF GpuForward, Retire, host, Step, TypeInv
      <3> QED BY <3>1, <3>2 DEF Lookup!Next, Lookup!Deliver
    <2>2. CASE ~GpuForward
      <3>1. /\ seen' = seen
            /\ \/ batch' = batch
               \/ \E b \in Lookup!Batches : batch' = Append(batch, b)
        BY <2>0, <2>2, DeliveriesStep
      <3> QED BY <3>1 DEF Lookup!Next, Lookup!Submit, Lookup!vars
    <2> QED BY <2>1, <2>2
  <1> QED BY <1>1, <1>2, Invariance, PTL DEF Spec, ImplementsLookup, Lookup!Spec
==============================================================================
