---------------------------- MODULE QsaCompress ----------------------------
(***************************************************************************)
(* Pooled keys of the sparse attention's index.  Every Ratio tokens of a   *)
(* request are pooled to one key.  A step has the raw keys of its own rows *)
(* at hand; older members of a group come from the request's ring, in      *)
(* which every step stores its rows at their position modulo the width.    *)
(* Rows may be drafts: rejected ones are overwritten by a later step.      *)
(*                                                                         *)
(* Keys are abstract; a row of the batch is a program of its own.          *)
(***************************************************************************)
EXTENDS Integers, Sequences, FiniteSetsExt, SequencesExt

CONSTANTS
  Requests,    \* 1..Requests may be in a batch
  Keys,        \* raw keys
  Ratio,       \* COMPRESS_RATIO
  Ring,        \* COMPRESSOR_STATE_SIZE
  MaxRows,     \* rows of a request in a step
  BatchRows,   \* rows of a step
  Drafts,      \* of them at most, where some may be rejected
  MaxLen,      \* tokens of a request
  Rounds       \* bound on the number of steps

CompressAssumption ==
  /\ Requests \in Nat \ {0} /\ Ratio \in Nat \ {0}
  /\ 0 \notin Keys /\ Ring \in Nat /\ Ring >= Ratio          \* what the code checks
  /\ MaxRows \in Nat /\ BatchRows \in Nat /\ Drafts \in Nat /\ MaxLen \in Nat /\ Rounds \in Nat

Zero == 0                      \* a masked load

VARIABLES
  history,     \* keys of the tokens every request keeps
  ring,        \* the block of every request: a key and its position
  table,       \* compressor_state_block_table: block of a request
  batch,       \* the step that ran last: what a request had, and its rows
  pooled,      \* for every row of that step: members, first position
  rounds       \* steps so far

vars == <<history, ring, table, batch, pooled, rounds>>

Reqs == 1..Requests
NoBatch == [r \in Reqs |-> [base |-> <<>>, rows |-> <<>>]]
Empty == [key |-> Zero, position |-> -1]

Init ==
  /\ history = [r \in Reqs |-> <<>>]
  /\ ring = [b \in Reqs |-> [s \in 0..Ring-1 |-> Empty]]
  /\ table \in {t \in [Reqs -> Reqs] : \A r, q \in Reqs : t[r] = t[q] => r = q}
  /\ batch = NoBatch
  /\ pooled = <<>>
  /\ rounds = 0

-----------------------------------------------------------------------------
(* query_start_loc: the first row of a request, counted from 0             *)
RowsUpTo(rows) == LET number[r \in 0..Requests] == IF r = 0 THEN 0 ELSE number[r - 1] + Len(rows[r])
                  IN  number

QueryStart(rows, r) == RowsUpTo(rows)[r - 1]

NumRows(rows) == QueryStart(rows, Requests + 1)

(* The request a row belongs to, 0 for rows the batch is padded with       *)
RequestOf(rows, row) ==
  LET owners == {r \in Reqs : QueryStart(rows, r) <= row /\ row < QueryStart(rows, r + 1)}
  IN  IF owners = {} THEN 0 ELSE CHOOSE r \in owners : TRUE

(* The raw key of a row, whichever request it is of                        *)
RawKey(rows, row) ==
  LET r == RequestOf(rows, row)
  IN  IF r = 0 THEN Zero ELSE rows[r][row - QueryStart(rows, r) + 1]

UseRaw(position, start) == position >= start

(* Seeded fault: the ring is addressed by the place within a group.        *)
RingSlotOfGroup(position) == position % Ratio

RingSlot(position) == position % Ring

RawRow(start, position, chunk) == start + position - chunk

(* One member of a row's group                                             *)
Member(rows, row, r, position, chunk) ==
  LET start == QueryStart(rows, r)
      raw   == RawRow(start, position, chunk)
      inRow == start <= raw /\ raw < QueryStart(rows, r + 1)
  IN  IF UseRaw(position, chunk)
      THEN [key |-> IF inRow THEN RawKey(rows, raw) ELSE Zero, position |-> position]
      ELSE ring[table[r]][RingSlot(position)]

(* _compress_qsa_groups_kernel for one row: the members it adds up, and    *)
(* the position of the first.  Rows that end no group add up nothing.      *)
Pool(rows, row) ==
  LET r     == RequestOf(rows, row)
      end   == Len(history[r]) + row - QueryStart(rows, r)
      chunk == end - (row - QueryStart(rows, r))
      valid == r # 0 /\ end >= Ratio - 1 /\ (end + 1) % Ratio = 0
  IN  IF ~valid THEN [members |-> <<>>, first |-> 0]
      ELSE LET member(i) == Member(rows, row, r, end - (Ratio - i), chunk)
           IN  [members |-> [i \in 1..Ratio |-> member(i).key], first |-> member(1).position]

(* _store_qsa_rows_kernel: rows without a slot are skipped.  Of a chunk    *)
(* longer than the ring the last rows have slots.                          *)
Stored(rows, r) ==
  LET from == Len(history[r])
      kept == {i \in 1..Len(rows[r]) : i > Len(rows[r]) - Ring}
  IN  [s \in 0..Ring-1 |->
         IF \E i \in kept : RingSlot(from + i - 1) = s
         THEN LET i == CHOOSE i \in kept : RingSlot(from + i - 1) = s
              IN  [key |-> rows[r][i], position |-> from + i - 1]
         ELSE ring[table[r]][s]]

(* One step: groups are pooled, then the rows are stored, then some of the *)
(* rows turn out to be right.  A request keeps at least one, and all of a  *)
(* chunk of its prompt.  The batch may be padded with one row.             *)
Step ==
  /\ rounds < Rounds
  /\ \E rows \in [Reqs -> BoundedSeq(Keys, MaxRows)] :
       /\ NumRows(rows) \in 1..BatchRows
       /\ \A r \in Reqs : Len(history[r]) + Len(rows[r]) <= MaxLen
       /\ batch' = [r \in Reqs |-> [base |-> history[r], rows |-> rows[r]]]
       /\ pooled' = [row \in 1..NumRows(rows)+1 |-> Pool(rows, row - 1)]
       /\ ring' = [b \in Reqs |-> Stored(rows, CHOOSE r \in Reqs : table[r] = b)]
       /\ \E accepted \in [Reqs -> 0..MaxRows] :
            /\ \A r \in Reqs : 
                 IF rows[r] = <<>> THEN accepted[r] = 0
                 ELSE /\ accepted[r] \in 1..Len(rows[r])
                      /\ Len(rows[r]) <= 1 + Drafts \/ accepted[r] = Len(rows[r])
            /\ history' = [r \in Reqs |-> history[r] \o SubSeq(rows[r], 1, accepted[r])]
  /\ rounds' = rounds + 1
  /\ UNCHANGED table

(* A request ends and another takes its place, and the block as it is.     *)
Replace(r) ==
  /\ history[r] # <<>>
  /\ history' = [history EXCEPT ![r] = <<>>]
  /\ batch' = NoBatch
  /\ pooled' = <<>>
  /\ UNCHANGED <<ring, table, rounds>>

Next == Step \/ \E r \in Reqs : Replace(r)

Spec == Init /\ [][Next]_vars

-----------------------------------------------------------------------------
(* A pooled key is made of the very tokens its group has, whether they are *)
(* rows of this step or came in steps before it, with drafts rejected in   *)
(* between and a block that other requests have used; padding pools none.  *)
PooledIsHistory ==
  /\ \A r \in Reqs : \A i \in DOMAIN batch[r].rows :
       LET so_far == batch[r].base \o SubSeq(batch[r].rows, 1, i)
           row    == QueryStart([q \in Reqs |-> batch[q].rows], r) + i
       IN  Len(so_far) % Ratio = 0 =>
             /\ pooled[row].members = SubSeq(so_far, Len(so_far) - Ratio + 1, Len(so_far))
             /\ pooled[row].first = Len(so_far) - Ratio
  /\ pooled # <<>> => pooled[Len(pooled)].members = <<>>

(* ops_qsa.py:877, "wider than one group so speculative rows cannot alias  *)
(* onto the committed keys of the group still being collected": the ring   *)
(* holds the kept tokens of the unfinished group of every request.         *)
UnfinishedGroupIsHeld ==
  \A r \in Reqs : \A p \in (Len(history[r]) - (Len(history[r]) % Ratio))..Len(history[r])-1 :
    ring[table[r]][p % Ring] = [key |-> history[r][p + 1], position |-> p]
=============================================================================
