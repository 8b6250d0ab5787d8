------------------------------ MODULE PleStaging ------------------------------
(***************************************************************************)
(* The staged lookup of the disk-backed n-gram table (QWEN4EXP_PLE_STAGED):*)
(* for every step the host computes the row ids on the GPU, waits for them,*)
(* gathers the rows from the mmap shards on a thread pool into one reused  *)
(* pinned buffer, enqueues the copy into the fixed GPU staging buffer and  *)
(* launches the forward (or replays its CUDA graph) without waiting for it.*)
(*                                                                         *)
(* Three kinds of actors interleave: the host thread (model_state.py,      *)
(* ple_layer.py), the pool's threads (ple_mmap.py) and the CUDA stream,    *)
(* which executes what was enqueued, in order, some time later.            *)
(***************************************************************************)
EXTENDS Integers, Sequences, FiniteSets

CONSTANTS
  NumLayers,   \* n-gram embedding modules in _staged_ple, visited in order
  Heads,       \* ngram_heads: table rows per token
  MaxTokens,   \* max_num_tokens: tokens the GPU staging buffer holds
  ChunkRows,   \* chunk_rows: rows a pool task reads
  NumThreads,  \* threads of the table's ThreadPoolExecutor
  MinCap,      \* smallest pinned buffer _staging_for allocates (4096 rows)
  MaxSteps     \* bound: steps the server runs

ASSUME SizesAssumption ==
  /\ NumLayers \in Nat \ {0}
  /\ Heads \in Nat \ {0}
  /\ MaxTokens \in Nat
  /\ ChunkRows \in Nat \ {0}
  /\ NumThreads \in Nat \ {0}
  /\ MinCap \in Nat
  /\ MaxSteps \in Nat

VARIABLES
  batch,    \* the batches handed to the model state so far, one per step
  pc,       \* where the host thread is
  layer,    \* the module the host is serving
  pinned,   \* per layer, the pinned buffers allocated so far, the last in use
  fut,      \* the gather's chunks by first row, with their state
  prog,     \* rows each chunk has read
  waited,   \* chunks whose result the host has collected
  ops,      \* everything enqueued on the CUDA stream so far
  retired,  \* how many of these operations the GPU has executed
  staging,  \* per layer, the GPU buffer the forward reads
  seen      \* what the forwards executed so far have read, one per step

host   == <<batch, pc, layer>>
gather == <<fut, prog, waited>>
device == <<retired, staging, seen>>
vars   == <<batch, pc, layer, pinned, fut, prog, waited, ops, retired, staging, seen>>

Lookup == INSTANCE PleLookup WITH out <- seen

Layers  == 1..NumLayers
MaxRows == MaxTokens * Heads
Zero    == Lookup!Zero
Junk    == <<0, 0, 1>>     \* torch.empty, or a row cut off by a short read

Step    == Len(batch)
Current == batch[Step]
NumRows == Current.n * Heads

(* range(0, n, chunk_rows): a chunk is named by its first row.             *)
Chunks(n)   == {a \in 0..n-1 : a % ChunkRows = 0}
RowsIn(a)   == IF NumRows - a < ChunkRows THEN NumRows - a ELSE ChunkRows
RunningNow  == {a \in DOMAIN fut : fut[a] = "running"}

(* An operation on the CUDA stream touches rows lo..hi-1 of a layer: the   *)
(* ids kernel none, a copy moves them from pinned buffer `buf`, a zero     *)
(* clears them; a forward reads rows lo..hi-1 of every layer.              *)
Op(kind, l, buf, lo, hi) ==
  [kind |-> kind, step |-> Step, layer |-> l, buf |-> buf, lo |-> lo, hi |-> hi]

Drained == retired = Len(ops)

Init ==
  /\ batch = << >>
  /\ pc = "idle"
  /\ layer = 1
  /\ pinned = [l \in Layers |-> << >>]
  /\ fut = [a \in {} |-> "done"]
  /\ prog = [a \in {} |-> 0]
  /\ waited = {}
  /\ ops = << >>
  /\ retired = 0
  /\ staging = [l \in Layers |-> [r \in 0..MaxRows-1 |-> Zero]]
  /\ seen = << >>

-----------------------------------------------------------------------------
(* The host thread.                                                        *)

(* prepare_inputs: a batch arrives, the loop over _staged_ple begins.      *)
Prepare(b) ==
  /\ pc = "idle" /\ Step < MaxSteps
  /\ batch' = Append(batch, b)
  /\ layer' = 1
  /\ pc' = "stage"
  /\ UNCHANGED <<pinned, gather, ops, device>>

(* prepare_dummy_inputs: every layer's rows are zeroed, nothing host-side. *)
ZeroAll(t) == [l \in Layers |-> [kind |-> "zero", step |-> Step + 1, layer |-> l, buf |-> 0,
                                 lo |-> 0, hi |-> t * Heads]]

PrepareDummy(t) ==
  /\ pc = "idle" /\ Step < MaxSteps
  /\ batch' = Append(batch, [n |-> t, padded |-> t, real |-> FALSE])
  /\ ops' = ops \o ZeroAll(t)
  /\ pc' = "launch"
  /\ UNCHANGED <<layer, pinned, gather, device>>

(* The end of one pass of the loop over _staged_ple.                       *)
NextLayer ==
  IF layer < NumLayers
  THEN layer' = layer + 1 /\ pc' = "stage"
  ELSE layer' = layer /\ pc' = "launch"

NothingToGather == ~Current.real \/ Current.n = 0

(* _ple_stage_rows, a batch without prompts: _ple_stage_zero(padded).      *)
StageZero ==
  /\ pc = "stage" /\ NothingToGather
  /\ ops' = Append(ops, Op("zero", layer, 0, 0, Current.padded * Heads))
  /\ NextLayer
  /\ UNCHANGED <<batch, pinned, gather, device>>

(* compute_ngram_ids, and the start of ids.to("cpu").                      *)
ComputeIds ==
  /\ pc = "stage" /\ ~NothingToGather
  /\ ops' = Append(ops, Op("ids", layer, 0, 0, 0))
  /\ pc' = "sync"
  /\ UNCHANGED <<batch, layer, pinned, gather, device>>

(* _staging_for: keep the buffer while it is large enough, else allocate.  *)
StagingFor(n) ==
  LET bufs == pinned[layer]
      cap  == IF n > MinCap THEN n ELSE MinCap
      new  == [cap |-> cap, rows |-> [r \in 0..cap-1 |-> Junk]]
  IN  IF bufs # << >> /\ bufs[Len(bufs)].cap >= n
      THEN UNCHANGED pinned
      ELSE pinned' = [pinned EXCEPT ![layer] = Append(bufs, new)]

(* Seeded fault: the ids reach the host without waiting for the stream.    *)
StartGatherUnsynced ==
  /\ pc = "sync"
  /\ StagingFor(NumRows)
  /\ fut' = [a \in Chunks(NumRows) |-> IF NumRows <= ChunkRows THEN "running" ELSE "queued"]
  /\ prog' = [a \in Chunks(NumRows) |-> 0]
  /\ waited' = {}
  /\ pc' = "wait"
  /\ UNCHANGED <<batch, layer, ops, device>>

(* ids.to("cpu") returns only once the stream has executed everything      *)
(* enqueued; then gather_cpu submits one task per chunk.  A gather of one  *)
(* chunk runs in the host thread itself: that chunk runs at once.          *)
StartGather ==
  /\ pc = "sync" /\ Drained
  /\ StagingFor(NumRows)
  /\ fut' = [a \in Chunks(NumRows) |-> IF NumRows <= ChunkRows THEN "running" ELSE "queued"]
  /\ prog' = [a \in Chunks(NumRows) |-> 0]
  /\ waited' = {}
  /\ pc' = "wait"
  /\ UNCHANGED <<batch, layer, ops, device>>

(* Seeded fault: the futures are awaited, but their errors are dropped.    *)
CollectIgnoringErrors(a) ==
  /\ pc = "wait"
  /\ fut[a] \in {"done", "failed"} /\ a \notin waited
  /\ \A b \in DOMAIN fut : b < a => b \in waited
  /\ waited' = waited \cup {a}
  /\ UNCHANGED <<host, pinned, fut, prog, ops, device>>

(* f.result() for the futures, in order of submission.                     *)
Collect(a) ==
  /\ pc = "wait"
  /\ fut[a] = "done" /\ a \notin waited
  /\ \A b \in DOMAIN fut : b < a => b \in waited
  /\ waited' = waited \cup {a}
  /\ UNCHANGED <<host, pinned, fut, prog, ops, device>>

(* The first failed future re-raises its IOError, which ends the engine.   *)
Raise(a) ==
  /\ pc = "wait"
  /\ fut[a] = "failed"
  /\ \A b \in DOMAIN fut : b < a => b \in waited
  /\ pc' = "raised"
  /\ UNCHANGED <<batch, layer, pinned, gather, ops, device>>

(* Seeded fault: the padding's rows are left as they are.                  *)
IssueCopyNoTail ==
  /\ pc = "wait" /\ waited = DOMAIN fut
  /\ ops' = Append(ops, Op("copy", layer, Len(pinned[layer]), 0, NumRows))
  /\ NextLayer
  /\ UNCHANGED <<batch, pinned, gather, device>>

(* copy_(rows, non_blocking=True) and the zeroed tail.                     *)
IssueCopy ==
  /\ pc = "wait" /\ waited = DOMAIN fut
  /\ LET copy == Op("copy", layer, Len(pinned[layer]), 0, NumRows)
         tail == Op("zero", layer, 0, NumRows, Current.padded * Heads)
     IN  ops' = ops \o (IF Current.padded > Current.n THEN <<copy, tail>> ELSE <<copy>>)
  /\ NextLayer
  /\ UNCHANGED <<batch, pinned, gather, device>>

(* The forward (or graph replay) reads the staging view of every layer.    *)
Launch ==
  /\ pc = "launch"
  /\ ops' = Append(ops, Op("forward", 0, 0, 0, Current.padded * Heads))
  /\ pc' = "idle"
  /\ UNCHANGED <<batch, layer, pinned, gather, device>>

-----------------------------------------------------------------------------
(* The threads of the table's pool.                                        *)

(* A free thread takes the oldest queued task.                             *)
TakeChunk(a) ==
  /\ fut[a] = "queued"
  /\ \A b \in DOMAIN fut : fut[b] = "queued" => a <= b
  /\ Cardinality(RunningNow) < NumThreads
  /\ fut' = [fut EXCEPT ![a] = "running"]
  /\ UNCHANGED <<host, pinned, prog, waited, ops, device>>

WriteRow(r, val) ==
  pinned' = [pinned EXCEPT ![layer][Len(pinned[layer])].rows[r] = val]

(* Seeded fault: a chunk fills the buffer from its first row on.           *)
ReadRowAtZero(a) ==
  /\ fut[a] = "running"
  /\ WriteRow(prog[a], Lookup!TableRow(layer, Step, a + prog[a]))
  /\ prog' = [prog EXCEPT ![a] = @ + 1]
  /\ fut' = IF prog[a] + 1 = RowsIn(a) THEN [fut EXCEPT ![a] = "done"] ELSE fut
  /\ UNCHANGED <<host, waited, ops, device>>

(* Seeded fault: a chunk reads its first row again and again.              *)
ReadRowStuck(a) ==
  /\ fut[a] = "running"
  /\ WriteRow(a + prog[a], Lookup!TableRow(layer, Step, a + prog[a]))
  /\ fut' = IF prog[a] + 1 = RowsIn(a) THEN [fut EXCEPT ![a] = "done"] ELSE fut
  /\ UNCHANGED <<host, prog, waited, ops, device>>

(* _gather_chunk: one preadv fills one row of the pinned buffer.           *)
ReadRow(a) ==
  /\ fut[a] = "running"
  /\ WriteRow(a + prog[a], Lookup!TableRow(layer, Step, a + prog[a]))
  /\ prog' = [prog EXCEPT ![a] = @ + 1]
  /\ fut' = IF prog[a] + 1 = RowsIn(a) THEN [fut EXCEPT ![a] = "done"] ELSE fut
  /\ UNCHANGED <<host, waited, ops, device>>

(* preadv returned fewer bytes than a row: the task ends with an IOError.  *)
ShortRead(a) ==
  /\ fut[a] = "running"
  /\ WriteRow(a + prog[a], Junk)
  /\ fut' = [fut EXCEPT ![a] = "failed"]
  /\ UNCHANGED <<host, prog, waited, ops, device>>

-----------------------------------------------------------------------------
(* The CUDA stream: the oldest operation that has not run yet runs.        *)

NextOp == ops[retired + 1]

Retire(kind) ==
  /\ ~Drained
  /\ NextOp.kind = kind
  /\ retired' = retired + 1
  /\ UNCHANGED <<host, pinned, gather, ops>>

GpuIds == Retire("ids") /\ UNCHANGED <<staging, seen>>

GpuCopy ==
  /\ Retire("copy")
  /\ staging' = [staging EXCEPT ![NextOp.layer] =
                   [r \in 0..MaxRows-1 |-> IF r \in NextOp.lo..NextOp.hi-1
                                           THEN pinned[NextOp.layer][NextOp.buf].rows[r]
                                           ELSE staging[NextOp.layer][r]]]
  /\ UNCHANGED seen

GpuZero ==
  /\ Retire("zero")
  /\ staging' = [staging EXCEPT ![NextOp.layer] =
                   [r \in 0..MaxRows-1 |-> IF r \in NextOp.lo..NextOp.hi-1
                                           THEN Zero ELSE staging[NextOp.layer][r]]]
  /\ UNCHANGED seen

GpuForward ==
  /\ Retire("forward")
  /\ seen' = Append(seen, [l \in Layers |-> [r \in 0..NextOp.hi-1 |-> staging[l][r]]])
  /\ UNCHANGED staging

-----------------------------------------------------------------------------
Host ==
  \/ \E b \in Lookup!Batches : Prepare(b)
  \/ \E t \in 1..MaxTokens : PrepareDummy(t)
  \/ StageZero \/ ComputeIds \/ StartGather \/ IssueCopy \/ Launch
  \/ \E a \in DOMAIN fut : Collect(a) \/ Raise(a)

Pool   == \E a \in DOMAIN fut : TakeChunk(a) \/ ReadRow(a) \/ ShortRead(a)
Stream == GpuIds \/ GpuCopy \/ GpuZero \/ GpuForward

(* The run is over: all steps served, or the engine has died.              *)
Finished ==
  /\ Drained
  /\ \A a \in DOMAIN fut : fut[a] \in {"done", "failed"}
  /\ (pc = "idle" /\ Step = MaxSteps) \/ pc = "raised"
  /\ UNCHANGED vars

Next == Host \/ Pool \/ Stream \/ Finished

(* The host thread runs until it blocks, the stream executes what it was   *)
(* given, and the pool's threads are scheduled; nothing obliges a caller   *)
(* to send another batch, nor a read to fall short.                        *)
HostContinues ==
  \/ StageZero \/ ComputeIds \/ StartGather \/ IssueCopy \/ Launch
  \/ \E a \in DOMAIN fut : Collect(a) \/ Raise(a)
PoolContinues == \E a \in DOMAIN fut : TakeChunk(a) \/ ReadRow(a)

Fairness == WF_vars(HostContinues) /\ WF_vars(PoolContinues) /\ WF_vars(Stream)

Spec     == Init /\ [][Next]_vars
FairSpec == Spec /\ Fairness

-----------------------------------------------------------------------------
(* Types                                                                   *)
Cells   == Nat \X Nat \X Nat
OpType  == [kind : {"ids", "copy", "zero", "forward"}, step : 1..MaxSteps,
            layer : 0..NumLayers, buf : Nat, lo : 0..MaxRows, hi : 0..MaxRows]

HostTypes ==
  /\ batch \in Seq(Lookup!Batches) /\ Step <= MaxSteps
  /\ pc \in {"idle", "stage", "sync", "wait", "launch", "raised"}
  /\ layer \in Layers

PinnedTypes ==
  /\ DOMAIN pinned = Layers
  /\ \A l \in Layers : \A g \in DOMAIN pinned[l] :
       /\ pinned[l][g].cap \in 0..MaxRows+MinCap
       /\ pinned[l][g].rows \in [0..pinned[l][g].cap-1 -> Cells]

PoolTypes ==
  /\ DOMAIN fut \subseteq 0..MaxRows-1
  /\ fut \in [DOMAIN fut -> {"queued", "running", "done", "failed"}]
  /\ prog \in [DOMAIN fut -> 0..ChunkRows]
  /\ \A a \in DOMAIN fut : a + prog[a] <= MaxRows
  /\ waited \subseteq DOMAIN fut

StreamTypes == ops \in Seq(OpType) /\ retired \in 0..Len(ops)

StagingTypes == staging \in [Layers -> [0..MaxRows-1 -> Cells]]

SeenTypes ==
  /\ Len(seen) <= Step
  /\ \A s \in DOMAIN seen :
       seen[s] \in [Layers -> [0..batch[s].padded * Heads - 1 -> Cells]]

TypeOK ==
  HostTypes /\ PinnedTypes /\ PoolTypes /\ StreamTypes /\ StagingTypes /\ SeenTypes

(* A read that is still to come takes an id of its own gather's list, one  *)
(* of its own chunk, and has its row in the pinned buffer that is in use:  *)
(* also for the chunks that a failed gather leaves behind.                 *)
ReadsStayInside ==
  \A a \in DOMAIN fut : fut[a] \in {"queued", "running"} =>
    /\ prog[a] < RowsIn(a) /\ a + prog[a] < NumRows
    /\ pinned[layer] # << >> /\ a + prog[a] < pinned[layer][Len(pinned[layer])].cap

(* Every forward reads, in every layer, exactly the table rows of its own  *)
(* step's tokens, and zeros in the padding: never a row left by an earlier *)
(* step, another layer, an unfinished chunk or a later step's gather.      *)
ForwardReadsItsStep ==
  \A s \in 1..Len(seen) : seen[s] = Lookup!Expected(s, batch[s])

(* A pinned buffer is never written while a copy that has yet to read it   *)
(* is on the stream, also not by the chunks a failed gather leaves behind. *)
PendingCopies(l, g) ==
  {i \in retired+1..Len(ops) : ops[i].kind = "copy" /\ ops[i].layer = l /\ ops[i].buf = g}

NoWriteUnderCopy ==
  [][\A l \in Layers : \A g \in DOMAIN pinned[l] :
       PendingCopies(l, g) # {} => pinned'[l][g] = pinned[l][g]]_vars

(* A step one of whose reads fell short has no copy of the failing layer   *)
(* and no forward on the stream: nothing of it is ever served.             *)
FailedStepNotServed ==
  (\E a \in DOMAIN fut : fut[a] = "failed") =>
    \A i \in 1..Len(ops) :
      ops[i].step = Step => /\ ops[i].kind # "forward"
                            /\ ops[i].kind = "copy" => ops[i].layer # layer

(* The staged lookup implements PleLookup: one delivery per step, in order.*)
ImplementsLookup == Lookup!Spec

(* Every batch handed over is served, or the engine has died on a read.    *)
EveryBatchServed ==
  \A s \in 1..MaxSteps : (Step >= s) ~> (Len(seen) >= s \/ pc = "raised")
==============================================================================
