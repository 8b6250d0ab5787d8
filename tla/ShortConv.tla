----------------------------- MODULE ShortConv -----------------------------
(***************************************************************************)
(* The dilated short convolution of a PLE layer and its recurrent state.   *)
(* Every request owns a slot of the cache, a window of its last inputs;    *)
(* each step convolves the step's tokens with the window and moves it on.  *)
(* A batch is served by up to three groups of kernel launches - spec,      *)
(* decode, prefill - and a spec group leaves a window long enough to step  *)
(* back to whichever draft the sampler accepts.                            *)
(*                                                                         *)
(* The kernels only copy inputs, so an input is a number of its own: which *)
(* request it belongs to and how many that request had before.  A token's  *)
(* output is the list of inputs its taps read.                             *)
(***************************************************************************)
EXTENDS Integers, Sequences, FiniteSets, TokenSearch

CONSTANTS
  Reqs,        \* requests
  Slots,       \* cache slots a request can own
  Null,        \* NULL_BLOCK_ID, the slot of padded rows
  KernelSize,  \* taps of the convolution
  Dilation,    \* distance between taps
  NumSpec,     \* num_spec_tokens
  MaxChunk,    \* bound: tokens of a prefill chunk
  MaxPad,      \* bound: rows a graph-captured batch is padded by
  MaxSteps     \* bound: steps

ConvAssumption ==
  /\ Reqs \subseteq Nat \ {0}
  /\ Null \notin Slots
  /\ KernelSize \in Nat /\ KernelSize >= 2
  /\ Dilation \in Nat \ {0}
  /\ NumSpec \in Nat /\ MaxChunk \in Nat \ {0} /\ MaxPad \in Nat /\ MaxSteps \in Nat

StateLen     == (KernelSize - 1) * Dilation
SpecQueryLen == 1 + NumSpec
StateWidth   == StateLen + SpecQueryLen - 1
Zero         == 0

VARIABLES
  phase,     \* per request: "free", "new", "prompt" or, once it has
             \* had drafts, "spec"
  slot,      \* per request: the slot it owns
  numAcc,    \* per request: num_accepted_tokens of its last step
  drawn,     \* per request: inputs it has had so far
  tail,      \* history: the StateLen inputs before its next token
  window,    \* the cache: the window of every slot
  batch,     \* this step's chunks in batch order
  launches,  \* kernel launches of the step still to run, in stream order
  ran,       \* programs of the first launch that have run
  added,     \* what has been added to each token's residual
  steps      \* steps taken

reqVars == <<phase, slot, numAcc, drawn, tail>>
vars == <<phase, slot, numAcc, drawn, tail, window, batch, launches, ran, added, steps>>

Live == {r \in Reqs : phase[r] # "free"}

Init ==
  /\ phase = [r \in Reqs |-> "free"]
  /\ slot = [r \in Reqs |-> Null]
  /\ numAcc = [r \in Reqs |-> 1]
  /\ drawn = [r \in Reqs |-> 0]
  /\ tail = [r \in Reqs |-> [i \in 0..StateLen-1 |-> Zero]]
  /\ window = [s \in Slots \cup {Null} |-> [i \in 0..StateWidth-1 |-> Zero]]
  /\ batch = << >> /\ launches = << >> /\ ran = {} /\ added = << >>
  /\ steps = 0

-----------------------------------------------------------------------------
(* Requests and batches, as the scheduler makes them.                      *)

(* A request takes a free slot, which keeps its last owner's window.       *)
Admit(r, s) ==
  /\ batch = << >> /\ r \notin Live /\ \A q \in Live : slot[q] # s
  /\ phase' = [phase EXCEPT ![r] = "new"]
  /\ slot' = [slot EXCEPT ![r] = s]
  /\ numAcc' = [numAcc EXCEPT ![r] = 1]
  /\ tail' = [tail EXCEPT ![r] = [i \in 0..StateLen-1 |-> Zero]]
  /\ UNCHANGED <<drawn, window, batch, launches, ran, added, steps>>

Release(r) ==
  /\ batch = << >> /\ r \in Live
  /\ phase' = [phase EXCEPT ![r] = "free"]
  /\ UNCHANGED <<slot, numAcc, drawn, tail, window, batch, launches, ran, added, steps>>

(* The chunk request r may have in a step: a piece of its prompt, a single *)
(* token, or its last token followed by drafts.  Only a piece of a prompt  *)
(* precedes the first drafts, and once a request has drafts it keeps       *)
(* having spec chunks, be they of one token.                               *)
ChunksOf(r) ==
  LET Chunk(kind, n) == [req : {r}, kind : {kind}, len : 1..n]
  IN  (IF phase[r] = "spec" THEN {} ELSE Chunk("prefill", MaxChunk) \cup Chunk("decode", 1))
      \cup (IF phase[r] = "new" \/ NumSpec = 0 THEN {} ELSE Chunk("spec", SpecQueryLen))

InOrder(b) ==
  /\ \A i, j \in DOMAIN b : i # j => b[i].req # b[j].req
  /\ \A i, j \in DOMAIN b : b[i].kind = "prefill" /\ b[j].kind = "decode" => j < i

Batches ==
  {b \in UNION {[1..n -> UNION {ChunksOf(r) : r \in Live}] : n \in 1..Cardinality(Live)} : InOrder(b)}

(* The input of the j-th token of a chunk, counted from 0.                 *)
Input(c, j) == 100 * c.req + drawn[c.req] + j + 1

(* The batch's rows: token j of chunk i, then the padding.                 *)
RowsOf(b) ==
  LET f[i \in 0..Len(b)] ==
        IF i = 0 THEN << >> ELSE f[i-1] \o [j \in 1..b[i].len |-> <<i, j - 1>>]
  IN  f[Len(b)]

(* The chunks of a kind, in batch order                                    *)
Group(b, kind) ==
  LET f[i \in 0..Len(b)] ==
        IF i = 0 THEN << >> ELSE IF b[i].kind = kind THEN Append(f[i-1], i) ELSE f[i-1]
  IN  f[Len(b)]

(* Where each chunk of a list begins among the list's tokens.              *)
Starts(b, members, padReqs) ==
  LET f[i \in 0..Len(members) + padReqs] ==
        IF i = 0 THEN 0 ELSE f[i-1] + (IF i <= Len(members) THEN b[members[i]].len ELSE 0)
  IN  f

(* The batch rows of a list of chunks, one chunk after the other.          *)
RowNumbers(b, members) ==
  LET first == Starts(b, [i \in 1..Len(b) |-> i], 0)
      f[m \in 0..Len(members)] ==
        IF m = 0 THEN << >>
        ELSE f[m-1] \o [j \in 1..b[members[m]].len |-> first[members[m] - 1] + j]
  IN  f[Len(members)]

(* Seeded fault: the starts still count the decode tokens.                 *)
PrefillStartsOfGroup(b) ==
  LET decodes  == Group(b, "decode")
      prefills == Group(b, "prefill")
      nonSpec  == Starts(b, decodes \o prefills, 0)
  IN  [i \in 0..Len(prefills) |-> nonSpec[Len(decodes) + i]]

(* The prefills' starts are cut from the end of those of the whole non-    *)
(* spec group, decodes first, and count from the first prefill token.      *)
PrefillStarts(b) ==
  LET decodes  == Group(b, "decode")
      prefills == Group(b, "prefill")
      nonSpec  == Starts(b, decodes \o prefills, 0)
  IN  [i \in 0..Len(prefills) |-> nonSpec[Len(decodes) + i] - Len(decodes)]

(* The arguments of one kernel launch: the slots, accepted counts and      *)
(* initial-state flags of its requests, where each begins (starts), and    *)
(* the batch row of each logical row, be it by a split view of the batch   *)
(* or by a token map.  A graph-captured batch of one kind is padded by     *)
(* null requests and by rows.                                              *)
Launch(kernel, b, kind, padReqs, padRows) ==
  LET members == Group(b, kind)
      n    == Len(members)
      size == Len(RowsOf(b))
      real == RowNumbers(b, members)
      Req(i) == b[members[i+1]].req
  IN  [kernel |-> kernel,
       mode   |-> kind,
       n      |-> n + padReqs,
       slots  |-> [i \in 0..n+padReqs-1 |-> IF i < n THEN slot[Req(i)] ELSE Null],
       acc    |-> [i \in 0..n+padReqs-1 |-> IF i < n THEN numAcc[Req(i)] ELSE 1],
       init   |-> [i \in 0..n+padReqs-1 |-> i < n /\ phase[Req(i)] # "new"],
       starts |-> IF kind = "prefill" THEN PrefillStarts(b) ELSE Starts(b, members, padReqs),
       rows   |-> [t \in 0..Len(real)+padRows-1 |->
                     IF t < Len(real) THEN real[t+1] ELSE size + t + 1 - Len(real)]]

(* _short_conv_dilated_dispatch: spec first, then the decodes, then the    *)
(* prefills.  Spec and prefill are followed by their write-back launch;    *)
(* the decode kernel moves the window on itself.                           *)
Kernels(b, kind, padReqs, padRows) ==
  LET Kernel(name) == Launch(name, b, kind, padReqs, padRows)
  IN  IF Group(b, kind) = << >> THEN << >>
      ELSE IF kind = "decode" THEN <<Kernel("conv")>> ELSE <<Kernel("conv"), Kernel("write")>>

Dispatch(b, padReqs, padRows) ==
  Kernels(b, "spec", padReqs, padRows)
    \o Kernels(b, "decode", padReqs, padRows)
    \o Kernels(b, "prefill", 0, 0)

Kinds(b) == {b[i].kind : i \in DOMAIN b}

Schedule(b, padReqs, padRows) ==
  /\ batch = << >> /\ steps < MaxSteps
  /\ padReqs + padRows > 0 => Kinds(b) \in {{"spec"}, {"decode"}}
  /\ Kinds(b) = {"decode"} => padReqs = padRows
  /\ batch' = b
  /\ launches' = Dispatch(b, padReqs, padRows)
  /\ added' = [t \in 1..Len(RowsOf(b)) + padRows |-> << >>]
  /\ steps' = steps + 1
  /\ UNCHANGED <<reqVars, window, ran>>

-----------------------------------------------------------------------------
(* The kernels.  L is the launch, t a token's logical row, r a request.    *)

RequestOf(L, t) ==
  IF L.mode = "decode" THEN t
  ELSE FindRequest(L.starts, L.n, BitLength(IF L.n > 1 THEN L.n ELSE 1), t)

Start(L, r) == IF L.mode = "decode" THEN r ELSE L.starts[r]

(* Where in the window the history ends: as many places on as drafts were  *)
(* accepted.                                                               *)
SlotOffset(L, r) ==
  LET a == IF L.acc[r] - 1 > 0 THEN L.acc[r] - 1 ELSE 0
  IN  IF L.mode # "spec" THEN 0 ELSE IF a < SpecQueryLen - 1 THEN a ELSE SpecQueryLen - 1

(* Seeded fault: a slot's window is read whether or not it is this         *)
(* request's own.                                                          *)
HasAnyState(L, r) == L.slots[r] # Null

(* A prefill or decode row reads the window only if the request has run    *)
(* before, a spec row whenever it owns a slot.                             *)
HasState(L, r) == L.slots[r] # Null /\ (L.mode = "spec" \/ L.init[r])
(* Rows of padding get no output, nor do null slots outside spec mode.     *)
OutOk(L, t) ==
  /\ L.mode # "decode" => t < L.starts[L.n]
  /\ L.mode # "spec" => L.slots[RequestOf(L, t)] # Null

(* The input of logical row t, through the launch's view of the batch; -1  *)
(* stands for what memory holds in and past the padding.                   *)
X(L, t) ==
  LET rows == RowsOf(batch)
  IN  IF t \in DOMAIN L.rows /\ L.rows[t] <= Len(rows)
      THEN Input(batch[rows[L.rows[t]][1]], rows[L.rows[t]][2])
      ELSE -1

(* What tap k of token t reads.                                            *)
Tap(L, t, k) ==
  LET r == RequestOf(L, t)
      h == t - Start(L, r) + Dilation * k
  IN  IF h < StateLen
      THEN IF HasState(L, r) THEN window[L.slots[r]][h + SlotOffset(L, r)] ELSE Zero
      ELSE X(L, Start(L, r) + h - StateLen)

(* The decode kernel's update, in place, after its own taps are read.      *)
DecodeWindow(L, r) ==
  LET w[i \in 0..StateLen] ==
        IF i = 0 THEN window[L.slots[r]]
        ELSE [w[i-1] EXCEPT ![i-1] =
               IF i < StateLen THEN (IF HasState(L, r) THEN w[i-1][i] ELSE Zero) ELSE X(L, r)]
  IN  w[StateLen]

(* A spec chunk shorter than the longest leaves the end of the window.     *)
Writes(L, qlen, i) == L.mode = "spec" => i < StateLen + qlen - 1

(* The write-back's loop, in place: a spec chunk moves the window by one   *)
(* and appends all its tokens, a prefill chunk moves it by its length.     *)
WrittenWindow(L, r) ==
  LET qlen  == L.starts[r+1] - L.starts[r]
      shift == IF L.mode = "spec" THEN 1 ELSE qlen
      width == IF L.mode = "spec" THEN StateWidth ELSE StateLen
      Value(w, i) ==
        IF shift + i < StateLen
        THEN IF HasState(L, r) THEN w[SlotOffset(L, r) + shift + i] ELSE Zero
        ELSE X(L, L.starts[r] + shift + i - StateLen)
      w[i \in 0..width] ==
        IF i = 0 THEN window[L.slots[r]]
        ELSE IF Writes(L, qlen, i - 1) THEN [w[i-1] EXCEPT ![i-1] = Value(w[i-1], i - 1)] ELSE w[i-1]
  IN  w[width]

-----------------------------------------------------------------------------
(* The GPU: the programs of the first launch run in any order, the next    *)
(* launch begins when all have run.                                        *)

Programs(L) == IF L.kernel = "conv" THEN DOMAIN L.rows ELSE 0..L.n-1

Finish(p) ==
  IF ran \cup {p} = Programs(launches[1])
  THEN launches' = Tail(launches) /\ ran' = {}
  ELSE launches' = launches /\ ran' = ran \cup {p}

(* The decode program of a real row also moves its window on.              *)
UpdatesWindow(L, r) == L.mode = "decode" /\ L.slots[r] # Null

(* _ple_conv_kernel, the program of token t.                               *)
ConvProgram(t) ==
  LET L == launches[1]
      r == RequestOf(L, t)
  IN
  /\ launches # << >> /\ L.kernel = "conv" /\ t \in Programs(L) \ ran
  /\ added' = IF OutOk(L, t)
              THEN [added EXCEPT ![L.rows[t]] = Append(@, [k \in 0..KernelSize-1 |-> Tap(L, t, k)])]
              ELSE added
  /\ window' = IF UpdatesWindow(L, r)
               THEN [window EXCEPT ![L.slots[r]] = DecodeWindow(L, r)]
               ELSE window
  /\ Finish(t)
  /\ UNCHANGED <<reqVars, batch, steps>>

(* _ple_conv_writeback_kernel, the program of request r.                   *)
WriteProgram(r) ==
  LET L == launches[1]
      empty == L.mode = "prefill" /\ L.starts[r+1] = L.starts[r]
  IN
  /\ launches # << >> /\ L.kernel = "write" /\ r \in Programs(L) \ ran
  /\ window' = IF L.slots[r] = Null \/ empty THEN window
               ELSE [window EXCEPT ![L.slots[r]] = WrittenWindow(L, r)]
  /\ Finish(r)
  /\ UNCHANGED <<reqVars, batch, added, steps>>

-----------------------------------------------------------------------------
(* The end of a step: of each spec chunk the sampler accepts the first     *)
(* acc[i] tokens, of the others all are part of the request.               *)

Served == batch # << >> /\ launches = << >>

History(c) == [i \in 0..StateLen + c.len - 1 |-> IF i < StateLen THEN tail[c.req][i] ELSE Input(c, i - StateLen)]
ChunkOf(r) == CHOOSE i \in 1..Len(batch) : batch[i].req = r
InBatch == {batch[i].req : i \in 1..Len(batch)}

Accept(acc) ==
  /\ Served
  /\ \A i \in DOMAIN batch : IF batch[i].kind = "spec" THEN acc[i] \in 1..batch[i].len
                                                       ELSE acc[i] = batch[i].len
  /\ phase' = [r \in Reqs |-> IF r \notin InBatch THEN phase[r]
                             ELSE IF batch[ChunkOf(r)].kind = "spec" THEN "spec" ELSE "prompt"]
  /\ numAcc' = [r \in Reqs |-> IF r \notin InBatch THEN numAcc[r]
                              ELSE IF batch[ChunkOf(r)].kind = "spec" THEN acc[ChunkOf(r)] ELSE 1]
  /\ drawn' = [r \in Reqs |-> drawn[r] + (IF r \in InBatch THEN batch[ChunkOf(r)].len ELSE 0)]
  /\ tail' = [r \in Reqs |-> IF r \notin InBatch THEN tail[r]
                            ELSE [i \in 0..StateLen-1 |-> History(batch[ChunkOf(r)])[acc[ChunkOf(r)] + i]]]
  /\ batch' = << >> /\ added' = << >>
  /\ UNCHANGED <<slot, window, launches, ran, steps>>

-----------------------------------------------------------------------------
MaxLen == IF MaxChunk > SpecQueryLen THEN MaxChunk ELSE SpecQueryLen

Next ==
  \/ \E r \in Reqs, s \in Slots : Admit(r, s)
  \/ \E r \in Reqs : Release(r)
  \/ \E b \in Batches, p, q \in 0..MaxPad : Schedule(b, p, q)
  \/ launches # << >> /\ \E t \in DOMAIN launches[1].rows : ConvProgram(t)
  \/ launches # << >> /\ \E r \in 0..launches[1].n-1 : WriteProgram(r)
  \/ \E acc \in [1..Len(batch) -> 1..MaxLen] : Accept(acc)

Spec == Init /\ [][Next]_vars

-----------------------------------------------------------------------------
Row == [0..KernelSize-1 -> Int]

(* Every variable has its type: no two requests own one slot, and windows  *)
(* hold inputs of requests, never what lies in or past a batch's padding.  *)
TypeOK ==
  /\ phase \in [Reqs -> {"free", "new", "prompt", "spec"}]
  /\ slot \in [Reqs -> Slots \cup {Null}]
  /\ \A q, r \in Live : q # r => slot[q] # slot[r]
  /\ numAcc \in [Reqs -> 1..SpecQueryLen]
  /\ drawn \in [Reqs -> Nat]
  /\ tail \in [Reqs -> [0..StateLen-1 -> Nat]]
  /\ window \in [Slots \cup {Null} -> [0..StateWidth-1 -> Nat]]
  /\ steps \in 0..MaxSteps
  /\ ran # {} => launches # << >> /\ ran \subseteq Programs(launches[1])
  /\ \A t \in DOMAIN added : added[t] \in Seq(Row)

(* When a step's launches have run, every token's residual has received    *)
(* exactly one convolution, of the request's true history up to that token *)
(* - whatever was accepted before, however its prompt was cut, whoever     *)
(* owned its slot before, and wherever the batch put it - and every row of *)
(* padding none (_ple_conv_kernel, _short_conv_dilated_dispatch).          *)
OutputsAreOfHistory ==
  Served =>
    \A t \in DOMAIN added :
      IF t > Len(RowsOf(batch)) THEN added[t] = << >>
      ELSE LET row == RowsOf(batch)[t]
               c   == batch[row[1]]
           IN  added[t] = <<[k \in 0..KernelSize-1 |-> History(c)[row[2] + Dilation * k]]>>

(* Between steps the window of every request that has run holds its last   *)
(* StateLen inputs, as many places on as tokens of its last chunk were     *)
(* accepted: a window written for all drafts serves every outcome          *)
(* (_ple_conv_writeback_kernel).                                           *)
WindowHoldsHistory ==
  batch = << >> =>
    \A r \in Live : phase[r] # "new" =>
      \A i \in 0..StateLen-1 : window[slot[r]][numAcc[r] - 1 + i] = tail[r][i]

=============================================================================
