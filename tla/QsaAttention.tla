---------------------------- MODULE QsaAttention ----------------------------
(***************************************************************************)
(* One query row of the sparse attention over a paged cache.  The selected *)
(* tokens are cut into tiles, the tiles dealt out to programs that run in  *)
(* any order; every program keeps a running maximum of the scores and      *)
(* rescales what it has when it grows; a last program merges the parts.    *)
(*                                                                         *)
(* A score is a power of two and sums are kept in units of 1 / Unit, so    *)
(* the arithmetic is exact here; a value is the cell of the cache it comes *)
(* from, and a sum of values a count for every cell.  A configuration:     *)
(*   selected   tokens, -1 for none    request    of the row               *)
(*   table      page of the cache for every logical page of the request    *)
(*   width      BLOCK_N                target     splits the profile wants *)
(***************************************************************************)
EXTENDS Integers, Sequences, FiniteSetsExt

CONSTANTS
  Configs,      \* the configurations to look at
  PageSize,     \* tokens of a page
  Blocks,       \* pages of the cache: 0..Blocks-1
  Requests,     \* requests of the batch: 0..Requests-1
  MaxScore      \* scores are 0..MaxScore

AttentionAssumption ==
  /\ PageSize \in Nat \ {0} /\ Blocks \in Nat \ {0} /\ Requests \in Nat /\ MaxScore \in Nat
  /\ \A c \in Configs : /\ c.selected \in Seq(Int) \ {<<>>} /\ c.table \in Seq(Int) \ {<<>>}
                        /\ c.request \in Int /\ {c.width, c.target} \subseteq Nat \ {0}

Unit == 2^(2 * MaxScore)
NoScore == -1000

VARIABLES
  cf,           \* the configuration
  tile,         \* next tile of every program
  running,      \* maximum, normalizer and accumulator of every program
  output,       \* what the row gets, or Unwritten
  phase         \* "split", "merge" or "done"

vars == <<cf, tile, running, output, phase>>

Cells == (0..Blocks-1) \X (0..PageSize-1)
Nothing == [c \in Cells |-> 0]
Unwritten == [sum |-> Nothing, norm |-> -1]

(* The score of the query with the key of a cell                           *)
Score(c) == (c[1] * PageSize + c[2]) % (MaxScore + 1)

-----------------------------------------------------------------------------
CeilDiv(a, b) == (a + b - 1) \div b

NumTiles == CeilDiv(Len(cf.selected), cf.width)

(* The largest power of two that is no more than n                         *)
PowerBelow(n) == Max({p \in {2^k : k \in 0..n} : p <= n})

NumSplits == Min({PowerBelow(NumTiles), cf.target})

(* The tiles of a program end where those of the next begin.               *)
FirstTile(split) == (split * NumTiles) \div NumSplits

Programs == 0..NumSplits-1

ValidPage(p) == p < Len(cf.table)

(* The cell a selected token is in, or None.  A page that is not in the    *)
(* table, or not in the cache, has none.                                   *)
None == <<-1, -1>>
CellOf(token) ==
  LET p == Max({token, 0}) \div PageSize
      page == cf.table[Min({p, Len(cf.table) - 1}) + 1]
  IN  IF /\ cf.request \in 0..Requests-1 /\ token >= 0 /\ ValidPage(p)
         /\ page \in 0..Blocks-1
      THEN <<page, Max({token, 0}) % PageSize>>
      ELSE None

(* The columns of a tile, those past the end of the selection left out     *)
Columns(t) == {i \in t*cf.width+1..(t+1)*cf.width : i <= Len(cf.selected)}
ValidColumns(t) == {i \in Columns(t) : CellOf(cf.selected[i]) # None}

Init ==
  /\ cf \in Configs
  /\ tile = [s \in Programs |-> FirstTile(s)]
  /\ running = [s \in Programs |-> [max |-> NoScore, norm |-> 0, sum |-> Nothing]]
  /\ output = Unwritten
  /\ phase = "split"

(* Seeded fault: what was summed up under the old maximum stays as it is.  *)
RescaledNever(x, old, new) == x

(* x * 2^(old - new)                                                       *)
Rescaled(x, old, new) == IF old = NoScore THEN 0 ELSE x \div 2^(new - old)

Weight(score, max) == Unit \div 2^(max - score)

(* One tile of one program                                                 *)
Accumulate(s) ==
  /\ phase = "split" /\ tile[s] < FirstTile(s + 1)
  /\ LET valid == ValidColumns(tile[s])
         cell(i) == CellOf(cf.selected[i])
         old  == running[s].max
         new  == Max({old} \union {Score(cell(i)) : i \in valid})
         gain(c) == Cardinality({i \in valid : cell(i) = c}) * Weight(Score(c), new)
     IN  running' = [running EXCEPT ![s] =
           [max  |-> new,
            norm |-> Rescaled(@.norm, old, new)
                       + SumFunction([i \in valid |-> Weight(Score(cell(i)), new)]),
            sum  |-> [c \in Cells |-> Rescaled(@.sum[c], old, new)
                        + IF \E i \in valid : cell(i) = c THEN gain(c) ELSE 0]]]
  /\ tile' = [tile EXCEPT ![s] = @ + 1]
  /\ UNCHANGED <<cf, output, phase>>

(* All programs have stored their parts.  A single one writes the output.  *)
Stored ==
  /\ phase = "split"
  /\ \A s \in Programs : tile[s] = FirstTile(s + 1)
  /\ IF NumSplits = 1
     THEN /\ output' = [sum |-> running[0].sum, norm |-> running[0].norm]
          /\ phase' = "done"
     ELSE phase' = "merge" /\ UNCHANGED output
  /\ UNCHANGED <<cf, tile, running>>

(* The parts have weights by the log of their sums; a part without values  *)
(* has none.  In units of 2^-MaxScore.                                     *)
PartWeight(s, top) ==
  IF running[s].norm = 0 THEN 0 ELSE 2^(MaxScore - (top - running[s].max))

Merge ==
  /\ phase = "merge"
  /\ LET top == Max({running[s].max : s \in Programs})
     IN  output' = [sum  |-> [c \in Cells |-> SumFunction([s \in Programs |-> running[s].sum[c] * PartWeight(s, top)])],
                    norm |-> SumFunction([s \in Programs |-> running[s].norm * PartWeight(s, top)])]
  /\ phase' = "done"
  /\ UNCHANGED <<cf, tile, running>>

Next == (\E s \in Programs : Accumulate(s)) \/ Stored \/ Merge

Spec == Init /\ [][Next]_vars

-----------------------------------------------------------------------------
(* Where the selected tokens of the row are, as the caller means it        *)
Meant(i) ==
  LET t == cf.selected[i]
  IN  IF cf.request \in 0..Requests-1 /\ t \in 0..Len(cf.table)*PageSize-1
         /\ cf.table[t \div PageSize + 1] \in 0..Blocks-1
      THEN <<cf.table[t \div PageSize + 1], t % PageSize>> ELSE None

Count(c) == Cardinality({i \in DOMAIN cf.selected : Meant(i) = c})

(* Whatever the profile and the order of the programs, the output is the   *)
(* softmax over the selected tokens: every one counts once, with its own   *)
(* weight, and nothing else counts.  A row without any is zero.            *)
OutputIsSoftmax ==
  phase = "done" =>
    LET total == SumFunction([c \in Cells |-> Count(c) * 2^Score(c)])
    IN  /\ \A c \in Cells : output.sum[c] * total = Count(c) * 2^Score(c) * output.norm
        /\ output.norm = 0 <=> total = 0

(* No program is started for nothing, and none leaves a tile to nobody.    *)
TilesAreDealt ==
  /\ FirstTile(0) = 0 /\ FirstTile(NumSplits) = NumTiles
  /\ \A s \in Programs : FirstTile(s) < FirstTile(s + 1)
=============================================================================
