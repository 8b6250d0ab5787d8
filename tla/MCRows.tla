------------------------------- MODULE MCRows -------------------------------
(* TableRows on checkpoints of a few small shards.                         *)
EXTENDS TableRows

CONSTANTS MaxShards, MaxShardRows   \* bounds: shards of a checkpoint, rows of each

-----------------------------------------------------------------------------
(* Neighbouring rows differ, and two rows may add up past the byte.        *)
TableValue == [i \in RowIds |-> (i + 1) % Byte]

(* No reduction, a cut inside a rank's slice, at its end, the whole        *)
(* vocabulary, and one id too many.                                        *)
Settings    == 0..Vocab+1
LogitValues == {-1, 1}

(* Checkpoints of up to MaxShards shards of 0 to MaxShardRows rows, put in *)
(* one or two files after a tensor of another kind, with at most one thing *)
(* odd about them.                                                         *)
Files == {"a", "b"}
Oddities == {"none", "width", "bytes", "size", "numbers", "stray", "twice"}

Width(odd, s) == IF odd = "width" /\ s = 0 THEN EmbeddingDim + 1 ELSE EmbeddingDim
Bytes(odd, s) == IF odd = "bytes" /\ s = 0 THEN 2 ELSE 1

(* The file of shard s: shards are spread over both files, or not.         *)
FileOf(spread, odd, s) == IF odd = "stray" /\ s = 0 THEN StrayFile
                          ELSE IF spread /\ s % 2 = 1 THEN "b" ELSE "a"

(* The bytes of shard s, one too many being what "size" is about.          *)
Cells(rows, odd, s) ==
  rows[s] * Width(odd, s) * Bytes(odd, s) + (IF odd = "size" /\ s = 0 THEN 1 ELSE 0)

(* Where shard s begins: after the shards before it in its file.           *)
Begin(rows, spread, odd, s) ==
  LET before[n \in 0..s] ==
        IF n = 0 THEN 1
        ELSE before[n-1] + (IF FileOf(spread, odd, n-1) = FileOf(spread, odd, s)
                            THEN Cells(rows, odd, n-1) ELSE 0)
  IN  before[s]

Shard(rows, spread, odd, s) ==
  LET begin == Begin(rows, spread, odd, s)
  IN  [file  |-> FileOf(spread, odd, s),
       shard |-> IF odd = "numbers" THEN s + 1 ELSE s,
       rows  |-> rows[s], width |-> Width(odd, s), bytes |-> Bytes(odd, s),
       begin |-> begin,
       end   |-> begin + Cells(rows, odd, s)]

OtherTensor(file) == [file |-> file, shard |-> Other, rows |-> 1, width |-> 1, bytes |-> 1,
                      begin |-> 0, end |-> 1]

(* A copy of shard 0, left in a file of its own.                           *)
Copy(t) == [t EXCEPT !.file = StrayFile]

AllCheckpoints ==
  UNION {
    {{Shard(rows, spread, odd, s) : s \in DOMAIN rows}
       \union {OtherTensor(f) : f \in Files}
       \union (IF odd = "twice" THEN {Copy(Shard(rows, spread, odd, 0))} ELSE {})
     : rows \in [0..n-1 -> 0..MaxShardRows], spread \in BOOLEAN, odd \in Oddities}
    : n \in 1..MaxShards}

ASSUME MCAssumption == RowsAssumption
=============================================================================
