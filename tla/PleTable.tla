------------------------------ MODULE PleTable ------------------------------
(***************************************************************************)
(* Finding the shards of the n-gram table in the checkpoint's files,       *)
(* the checks of the weight loader and of PLEMmapTable on them, and the    *)
(* two readers that turn a row number into a file offset.                  *)
(*                                                                         *)
(* A file is a sequence of cells.  Cell c of row r of shard s is           *)
(* <<s, r, c>>, so a read is right exactly when it returns the cells of    *)
(* the row asked for.  Any other tensor in the file is cells of Other.     *)
(***************************************************************************)
EXTENDS Integers, Sequences, FiniteSets

CONSTANTS
  Checkpoints,   \* the checkpoints to try: sets of tensor records
  Rows,          \* org_vocab_size, the padded rows of the embedding
  Parts,         \* split_ngram_parts
  EmbeddingDim,  \* elements of a row the layer expects
  ChunkRows,     \* rows of one contiguous read
  Other,         \* what tensors that are not shards hold
  StrayFile      \* a file of the directory the index does not name

(* A tensor as a header describes it: sizes and offsets are numbers, an    *)
(* element has a byte, and a shard's number is what its name ends in.      *)
Tensor(t) ==
  /\ t.shard \in Nat \cup {Other} /\ t.rows \in Nat /\ t.begin \in Nat /\ t.end \in Nat
  /\ t.width \in Nat /\ t.bytes \in Nat \ {0}

(* No two tensors of a file share a byte: safetensors, with which the      *)
(* weight iterator opens the same files, refuses a header where they do.   *)
TableAssumption ==
  /\ Rows \in Nat /\ Parts \in Nat \ {0} /\ ChunkRows \in Nat \ {0} /\ EmbeddingDim \in Nat \ {0}
  /\ Other \notin Nat
  /\ \A c \in Checkpoints :
       /\ IsFiniteSet(c) /\ \A t \in c : Tensor(t)
       /\ \A t, u \in c : t # u /\ t.file = u.file => t.end <= u.begin \/ u.end <= t.begin

VARIABLES
  ckpt,     \* the tensors on disk: [file, shard, rows, width, bytes, begin, end]
  indexed,  \* whether model.safetensors.index.json exists
  toLoad,   \* shards the weight iterator has still to yield
  toScan,   \* tensors the header scan has still to visit
  shards,   \* shard index -> tensor, as the scan finds them
  table,    \* <<>> or the table built: [n, rowBytes, shardRows, rowsTotal]
  phase     \* "load", "scan", "ready" or "failed"

vars == <<ckpt, indexed, toLoad, toScan, shards, table, phase>>

None == <<>>

-----------------------------------------------------------------------------
(* The files that are opened: those the index names, or all there are.     *)
Scanned(t) == t.shard # Other /\ (indexed => t.file # StrayFile)

RowBytes(t) == t.width * t.bytes

-----------------------------------------------------------------------------
(* The weight loader of the embedding                                      *)

ShardSize == (Rows + Parts - 1) \div Parts

(* Rows the loader expects of a shard; 0 for one past the last row.        *)
ExpectedRows(shard) ==
  LET left == Rows - shard * ShardSize
  IN  IF left < 0 THEN 0 ELSE IF left < ShardSize THEN left ELSE ShardSize

(* Seeded fault: only the width of the shard is compared.                  *)
LoadableByWidth(t) == t.shard < Parts /\ t.width = EmbeddingDim

Loadable(t) == /\ t.shard < Parts
               /\ t.rows = ExpectedRows(t.shard)
               /\ t.width = EmbeddingDim

(* load_weights drops the rows of a shard once their shape is checked.     *)
LoadShard(t) ==
  /\ phase = "load" /\ t \in toLoad
  /\ toLoad' = toLoad \ {t}
  /\ phase' = IF Loadable(t) THEN phase ELSE "failed"
  /\ UNCHANGED <<ckpt, indexed, toScan, shards, table>>

(* After the last weight the table is opened, eagerly.                     *)
StartScan ==
  /\ phase = "load" /\ toLoad = {}
  /\ phase' = "scan"
  /\ toScan' = {t \in ckpt : Scanned(t)}
  /\ UNCHANGED <<ckpt, indexed, toLoad, shards, table>>

-----------------------------------------------------------------------------
(* PLEMmapTable.__init__                                                   *)

Accepted(t) == /\ t.end - t.begin = t.rows * RowBytes(t)
               /\ t.shard \notin DOMAIN shards

ScanTensor(t) ==
  /\ phase = "scan" /\ t \in toScan
  /\ toScan' = toScan \ {t}
  /\ IF Accepted(t)
     THEN /\ shards' = [s \in DOMAIN shards \union {t.shard} |-> IF s = t.shard THEN t ELSE shards[s]]
          /\ UNCHANGED phase
     ELSE phase' = "failed" /\ UNCHANGED shards
  /\ UNCHANGED <<ckpt, indexed, toLoad, table>>

RowsOfShards == LET total[s \in -1..Cardinality(DOMAIN shards)-1] ==
                      IF s = -1 THEN 0 ELSE total[s-1] + shards[s].rows
                IN  total[Cardinality(DOMAIN shards) - 1]

(* The checks of the scan and of _ple_mmap_table: shards 0 to n-1, of one  *)
(* width, type and, but for the last, number of rows; all rows are there.  *)
Consistent ==
  LET n == Cardinality(DOMAIN shards)
  IN  /\ n > 0 /\ DOMAIN shards = 0..n-1
      /\ \A s \in 0..n-1 : RowBytes(shards[s]) = RowBytes(shards[0]) /\ shards[s].bytes = shards[0].bytes
      /\ \A s \in 0..n-2 : shards[s].rows = shards[0].rows
      /\ RowsOfShards = Rows

BuildTable ==
  /\ phase = "scan" /\ toScan = {}
  /\ IF Consistent
     THEN /\ table' = [n         |-> Cardinality(DOMAIN shards),
                       rowBytes  |-> RowBytes(shards[0]),
                       shardRows |-> shards[0].rows]
          /\ phase' = "ready"
     ELSE phase' = "failed" /\ UNCHANGED table
  /\ UNCHANGED <<ckpt, indexed, toLoad, toScan, shards>>

-----------------------------------------------------------------------------
(* Reading                                                                 *)

(* The cell at an offset of a file: that of the tensor lying there.        *)
Cell(file, offset) ==
  IF \E t \in ckpt : t.file = file /\ t.begin <= offset /\ offset < t.end
  THEN LET t == CHOOSE x \in ckpt : x.file = file /\ x.begin <= offset /\ offset < x.end
       IN  <<t.shard, (offset - t.begin) \div RowBytes(t), (offset - t.begin) % RowBytes(t)>>
  ELSE <<Other>>

(* preadv of `count` cells                                                 *)
Pread(file, offset, count) == [c \in 1..count |-> Cell(file, offset + c - 1)]

(* divmod(row, shard_rows), and the offset from the shard's first row      *)
Offset(i) == [s |-> i \div table.shardRows, at |-> (i % table.shardRows) * table.rowBytes]

(* One row, as _gather_chunk reads it; nothing if it raises, for want of a *)
(* shard of that number.                                                   *)
ReadRow(i) ==
  LET o == Offset(i)
  IN  IF o.s \in DOMAIN shards
      THEN Pread(shards[o.s].file, shards[o.s].begin + o.at, table.rowBytes)
      ELSE << >>

(* Seeded fault: a read is not cut at the end of its shard.                *)
RunLengthUncut(row, left) == IF left < ChunkRows THEN left ELSE ChunkRows

(* Rows one contiguous read takes: to the end of the shard at most.        *)
RunLength(row, left) ==
  LET inShard == table.shardRows - (row % table.shardRows)
      cut     == IF left < ChunkRows THEN left ELSE ChunkRows
  IN  IF cut < inShard THEN cut ELSE inShard

(* The rows start..start+count-1, as read_rows_contiguous fetches them:    *)
(* cells[d] are those of the first d rows, filled a run at a time.         *)
ReadContiguous(start, count) ==
  LET cells[done \in 0..count] ==
        IF done = count THEN << >>
        ELSE LET row == start + done
                 run == RunLength(row, count - done)
                 o   == Offset(row)
             IN  Pread(shards[o.s].file, shards[o.s].begin + o.at, run * table.rowBytes)
                   \o cells[done + run]
  IN  cells[0]

-----------------------------------------------------------------------------
Init ==
  /\ ckpt \in Checkpoints
  /\ indexed \in BOOLEAN
  /\ toLoad = {t \in ckpt : Scanned(t)}
  /\ toScan = {}
  /\ shards = None
  /\ table = None
  /\ phase = "load"

Next ==
  \/ \E t \in toLoad : LoadShard(t)
  \/ StartScan
  \/ \E t \in toScan : ScanTensor(t)
  \/ BuildTable

Spec == Init /\ [][Next]_vars

-----------------------------------------------------------------------------
(* The cells of row i as the checkpoint numbers them: row r of shard s is  *)
(* row s * shard size + r (checkpoint_start in load_weights).              *)
TrueRow(i) == [c \in 1..table.rowBytes |-> <<i \div ShardSize, i % ShardSize, c - 1>>]

(* Whatever lies in the files, a table that was accepted returns for every *)
(* row of the embedding the bytes of that row (_gather_chunk): no short    *)
(* last shard, stray file or odd tensor shifts a row.                      *)
RowsAreTheirOwn ==
  phase = "ready" => \A i \in 0..Rows-1 : ReadRow(i) = TrueRow(i)

(* The contiguous reader of the resident mode returns the same bytes as    *)
(* the row reader, for every range of rows.                                *)
ReadersAgree ==
  phase = "ready" =>
    \A start \in 0..Rows-1 : \A count \in 1..Rows-start :
      LET cells == ReadContiguous(start, count)
      IN  /\ Len(cells) = count * table.rowBytes
          /\ \A d \in 0..count-1 :
               SubSeq(cells, d * table.rowBytes + 1, (d + 1) * table.rowBytes) = ReadRow(start + d)

(* The shards a checkpoint of this table should hold, once each.           *)
WellFormed ==
  LET found == {t \in ckpt : Scanned(t)}
  IN  /\ {t.shard : t \in found} = 0..Parts-1
      /\ Cardinality(found) = Parts
      /\ \A t \in found : /\ t.rows = ExpectedRows(t.shard) /\ t.width = EmbeddingDim
                          /\ t.end - t.begin = t.rows * RowBytes(t)
      /\ \A t, u \in found : t.bytes = u.bytes
      /\ \A t \in found : t.shard < Parts - 1 => t.rows = ShardSize

(* A checkpoint that is whole is never refused.                            *)
WholeIsAccepted == phase = "failed" => ~WellFormed

=============================================================================
